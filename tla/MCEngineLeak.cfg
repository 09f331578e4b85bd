SPECIFICATION Spec
CONSTANTS
  l1 = l1
  l2 = l2
  Links = {l1}
  Runs = {r1}
  Callers = {r1}
  NoCaller = NoCaller
  RuntimeFaults = FALSE
  StrayRequests = FALSE
  Scenarios <- OneLink
  Modes = {"auto"}
  KeepChoices = {FALSE}
  TornReads = FALSE
INVARIANTS HealedOnExit
