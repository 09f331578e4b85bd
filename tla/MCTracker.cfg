SPECIFICATION FairSpec
CONSTANTS
  Txs = {x1, x2}
  WalletStatuses = {"completed", "failed"}
  Answers = {"mined", "double_spend", "seen", "rejected", "not_found", "error"}
  MaxRows = 1
  PollLimit = 1
  RejectedGrace = 1
  NotFoundGrace = 1
INVARIANTS TrackerInv RejectionLeftAlone RecoveredNotDiverged
PROPERTIES EveryRowAsked
