\* Three workers and one mailbox; one worker crashes and one is stopped, at any
\* moment.  The system really stops once every worker has left or crashed.
SPECIFICATION Spec
CONSTANTS
  Worker <- Three
  Mailbox <- OneMailbox
  a = a
  b = b
  c = c
  x = x
  y = y
  NoOne = NoOne
  SkipCompleted = TRUE
  RacyClaim = FALSE
  MainLoopRace = TRUE
  MaxCrash = 1
  MaxStop = 1
  MaxSuspend = 0
  MaxTrouble = 1
INVARIANTS
  AtMostOneWorks
PROPERTIES
  OwnerWritesStatus
CHECK_DEADLOCK FALSE
