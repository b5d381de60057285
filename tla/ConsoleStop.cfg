CONSTANTS
  Csv <- OneRow
  Grown <- NoMore
  Host <- Crossing
  Workers = 2
  PerHost = 2
  Completed = {}
  SkipCompleted = FALSE
  Outcomes = {"SUCCESS", "FAILED"}
  Hangs = {"greeting", "work"}
  Slow = FALSE
  Patient = TRUE
  InTheGap = FALSE
  MaxLoss = 1
  MaxHang = 1
  MaxPause = 1
  MaxRequeue = 2
  Modes = {"tui", "headless"}
  Signals = {"ctrl+c", "hup"}
  Keys = {"p", "r", "R", "u", "view", "popup", "search"}
SPECIFICATION Spec
INVARIANTS OneRunnerPerMailbox ResultsAreFinal
PROPERTIES CtrlCEnds
CHECK_DEADLOCK FALSE
