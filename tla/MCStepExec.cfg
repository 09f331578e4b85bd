SPECIFICATION FairSpec
CONSTANTS
  n1 = n1
  n2 = n2
  Nodes = {n1, n2}
  Steps <- AllSteps
  Window = 1
  Ring = 2
  MaxTip = 1
  MaxEvents = 3
CHECK_DEADLOCK FALSE
INVARIANTS StepInv AbortIsPrompt
PROPERTIES SameTipIsReal  StepEnds
