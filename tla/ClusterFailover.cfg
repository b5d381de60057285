\* Two workers and one mailbox; a worker sleeps and wakes up, one crashes, and
\* TryLease is not atomic.  The system really stops once every worker has left.
SPECIFICATION FairSpec
CONSTANTS
  Worker <- Two
  Mailbox <- OneMailbox
  a = a
  b = b
  c = c
  x = x
  y = y
  NoOne = NoOne
  SkipCompleted = FALSE
  RacyClaim = TRUE
  MainLoopRace = FALSE
  MaxCrash = 1
  MaxStop = 0
  MaxSuspend = 1
  MaxTrouble = 0
PROPERTIES
  SurvivorFinishes
CHECK_DEADLOCK FALSE
