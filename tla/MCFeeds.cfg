SPECIFICATION Spec
CONSTANTS
  Producers = {p1}
  RingMax = 3
  RecentMax = 2
  BufferMax = 1
  MaxEvents = 4
  MaxEpochs = 2
  Nodes = {n1}
  Requests = {r1, r2}
  Names = {k1, k2}
  MaxSeq = 2
  MaxMade = 2
  MaxFaults = 1
\* A publisher whose keyring was cut short does not start again.
CHECK_DEADLOCK FALSE
INVARIANTS DisplayInv  AlertsInv
