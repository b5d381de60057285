\* retry-failed and compact run at any moment of a session, next to the stale
\* supervisor's kick and one cut; the destination has neither UIDPLUS nor
\* LITERAL+.
SPECIFICATION Spec
CONSTANTS
  Uid <- Uids2
  Body <- Bodies
  Fingerprint <- Bodies
  NoFp <- NoFingerprint
  FP <- DistinctFp
  SrcBody <- SrcBodies2
  Preloaded <- None
  Refusable <- First
  AppendWindow = 2
  FetchWindow = 1
  MsgRetries = 2
  IsolateFailed = TRUE
  NoDedupScan = FALSE
  RescanDest = FALSE
  UidPlus = FALSE
  LiteralPlus = FALSE
  LateCommit = FALSE
  EarlyChurn = FALSE
  OnlineRequeue = TRUE
  MaxCut = 1
  MaxKick = 1
  MaxSrcChurn = 0
  MaxDstChurn = 0
  MaxRequeue = 2
  MaxCompact = 1
INVARIANTS
  FailedCanBeRetried
