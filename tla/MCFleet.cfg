SPECIFICATION FairSpec
CONSTANTS
  Nodes = {n1}
  Outpoints = {o1}
  Callers = {"loop", "step"}
  MaxTip = 1
  MaxSeq = 1
  MaxChanges = 3
INVARIANTS FleetInv
PROPERTIES SequenceForward Settles
