SPECIFICATION Spec
CONSTANTS
  Txs = {x1}
  WalletStatuses = {"sending", "completed"}
  Answers = {"rejected", "error"}
  MaxRows = 1
  PollLimit = 1
  RejectedGrace = 0
  NotFoundGrace = 0
INVARIANTS DivergenceAnnounced
