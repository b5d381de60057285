SPECIFICATION FairSpec
CONSTANTS
  Kind <- Three
  Resumed <- None
  Window = 2
  BatchAttempts = 2
  MsgRetries = 2
  ReconnectAttempts = 2
  Retries = 1
  RecoveryRetries = 1
  IsoBudget = 60
  Troubles <- AllTroubles
  MaxTrouble = 1
  MaxKick = 4
  TroubleCost = 3
  MaxRequeue = 1
INVARIANTS
  PoisonNeverTraps
  InnocentNeverFails
  LadderIsSound
  TotalsReconcile
PROPERTIES
  Terminates
CHECK_DEADLOCK FALSE
