SPECIFICATION FairSpec
CONSTANTS
  Clients = {c1}
  Nodes = {n1}
  Intervals = {1, 2}
  MaxLate = 5
  Workers = 1
  MaxGen = 2
  MaxSends = 3
  Calls = {t1, t2}
  Maturity = 1
  Window = 2
  Period = 2
  MaxTip = 3
  Limit = 2
  MaxStored = 3
  MaxChanges = 2
\* The bounded sends may be over.
CHECK_DEADLOCK FALSE
INVARIANTS MinerInv SendInv StopIsExact FundingInv LinkInv
PROPERTIES KeepsMining StopEnds FundingProven LinkSettles
