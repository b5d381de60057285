\* Sessions cut short at any step: three messages, the first of which the
\* destination may refuse, and two crashes, stops or lost connections.
SPECIFICATION FairSpec
CONSTANTS
  Uid <- Uids3
  Body <- Bodies
  Fingerprint <- Bodies
  NoFp <- NoFingerprint
  FP <- DistinctFp
  SrcBody <- SrcBodies3
  Preloaded <- Foreign
  Refusable <- First
  AppendWindow = 2
  FetchWindow = 2
  MsgRetries = 2
  IsolateFailed = TRUE
  NoDedupScan = FALSE
  RescanDest = FALSE
  UidPlus = TRUE
  LiteralPlus = TRUE
  LateCommit = FALSE
  EarlyChurn = FALSE
  OnlineRequeue = FALSE
  MaxCut = 2
  MaxKick = 0
  MaxSrcChurn = 0
  MaxDstChurn = 0
  MaxRequeue = 0
  MaxCompact = 0
INVARIANTS
  IntentCoversAppend
  DeliveredIsCovered
PROPERTIES
  DoneFolderIsComplete
  ImplementsDelivery
  EverythingSettles
