SPECIFICATION FairSpec
CONSTANTS
  l1 = l1
  l2 = l2
  Links = {l1}
  Runs = {r1}
  Callers = {r1, ui}
  NoCaller = NoCaller
  RuntimeFaults = TRUE
  StrayRequests = FALSE
  Scenarios <- OneLink
  Modes = {"auto", "step"}
  KeepChoices = {TRUE, FALSE}
  TornReads = FALSE
INVARIANTS EngTypeOK OutcomeJustified Serialised DisplayTruthful
PROPERTIES RunsEnd  CallsReturn
