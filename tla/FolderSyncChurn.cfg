\* Both folders are renumbered between sessions, one of which is cut short.
\* The destination starts with a copy of message 1 and a foreign message.
SPECIFICATION Spec
CONSTANTS
  Uid <- Uids2
  Body <- Bodies
  Fingerprint <- Bodies
  NoFp <- NoFingerprint
  FP <- DistinctFp
  SrcBody <- SrcBodies2
  Preloaded <- FirstAndForeign
  Refusable <- First
  AppendWindow = 2
  FetchWindow = 1
  MsgRetries = 2
  IsolateFailed = TRUE
  NoDedupScan = FALSE
  RescanDest = FALSE
  UidPlus = TRUE
  LiteralPlus = TRUE
  LateCommit = FALSE
  EarlyChurn = FALSE
  OnlineRequeue = FALSE
  MaxCut = 1
  MaxKick = 0
  MaxSrcChurn = 1
  MaxDstChurn = 1
  MaxRequeue = 0
  MaxCompact = 0
INVARIANTS
  DoneIsDelivered
  NoDuplicates
  DoneIsInjective
PROPERTIES
  ConfirmedStays
