CONSTANTS
  Csv <- ThreeRows
  Grown <- OneMore
  Host <- Crossing
  Workers = 2
  PerHost = 1
  Completed = {"b"}
  SkipCompleted = TRUE
  Outcomes = {"SUCCESS", "FAILED"}
  Hangs = {"greeting", "work"}
  Slow = FALSE
  Patient = TRUE
  InTheGap = FALSE
  MaxLoss = 0
  MaxHang = 1
  MaxPause = 0
  MaxRequeue = 1
  Modes = {"tui", "headless"}
  Signals = {"ctrl+c", "hup"}
  Keys = {"R", "u"}
SPECIFICATION Spec
INVARIANTS PlacesAreBalanced OwnEntry ZeroMeansDone
PROPERTIES RunEnds
CHECK_DEADLOCK FALSE
