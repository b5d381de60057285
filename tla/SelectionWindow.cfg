SPECIFICATION Spec
CONSTANTS
  W = 4
  MaxRanges = 2
  MaxNum = 15
  Folded <- TwoCases
  Foreign <- Umlauts
  Base64 <- InBase64
  Mapping <- ToSent
  Include = {}
  Exclude = {}
  GmailAllMail = FALSE
  Worker = {"p", "q"}
  Zone <- Hours
  Flags <- Given
  WindowFirst = TRUE
  DateOf <- Dates
  Source <- Folders8
  Mail <- AllMail
  Arriving <- Late
  Leaving <- Gone
  Destination0 <- WithSent
  SourceNS <- AtRoot
  DestinationNS <- UnderInbox
  StatusMayFail = FALSE
  Updates = FALSE
  MaxStarts = 2
  MaxDeaths = 1
INVARIANTS PlansTheWindow PlanIsComplete PlanKeepsApart
PROPERTY DestinationsStay
CHECK_DEADLOCK FALSE
