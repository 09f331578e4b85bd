SPECIFICATION Spec
CONSTANTS
  n1 = n1
  n2 = n2
  n3 = n3
  None = None
  Calls = {c1, c2, c3}
  Self = n1
  Worlds <- EveryWorld
  Crowded <- Catching
  Snapshots <- AllSnapshots
  Rounds <- TwoRounds
  MaxFails = 1
  Frail <- OneSource
  MaxNow = 2
  MaxAge = 1
  MaxMoves = 1
SYMMETRY Symmetry
INVARIANTS DiagInv  RefreshIsFresh
\* Requests come once each, and one that joined too late waits for ever.
CHECK_DEADLOCK FALSE
