SPECIFICATION Spec
CONSTANTS
  l1 = l1
  l2 = l2
  Links = {l1, l2}
  Runs = {r1, r2}
  Callers = {r1, r2}
  NoCaller = NoCaller
  RuntimeFaults = FALSE
  StrayRequests = TRUE
  Scenarios <- TwoLinks
  Modes = {"step"}
  KeepChoices = {FALSE}
  TornReads = FALSE
INVARIANTS OneRunAtATime CutsAreTracked
PROPERTIES FollowsLifecycle
