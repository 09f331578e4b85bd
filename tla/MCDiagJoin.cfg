SPECIFICATION FairSpec
CONSTANTS
  n1 = n1
  n2 = n2
  n3 = n3
  None = None
  Calls = {c1, c2}
  Self = n1
  Worlds <- Catching
  Crowded <- Catching
  Snapshots <- OneSnapshot
  Rounds <- TwoRounds
  MaxFails = 1
  Frail <- OneSource
  MaxNow = 2
  MaxAge = 1
  MaxMoves = 0
\* Requests come once each, and one that joined too late waits for ever.
CHECK_DEADLOCK FALSE
PROPERTIES CallsAnswered
