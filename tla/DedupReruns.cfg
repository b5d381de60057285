SPECIFICATION Spec
CONSTANTS
  Folders <- TwoFolders
  Mail <- FiveMails
  NoMid = "-"
  Present <- OneArrives
  Flagged <- FirstFlagged
  Proc = {p1, p2}
  p1 = p1
  p2 = p2
  MoveOffered = {TRUE, FALSE}
  Client <- Restores
  MaxCut = 1
  MaxCancel = 1
  MaxMigration = 1
INVARIANTS KeepsOne OneCopyPerBreak FolderIsClean
PROPERTY RerunsFinish
CHECK_DEADLOCK FALSE
