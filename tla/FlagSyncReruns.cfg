\* Two messages, one of them on the destination already; the source changes
\* twice, the owner of the destination once, and one session is cut short.
SPECIFICATION Spec
CONSTANTS
  Uid <- TwoMessages
  System <- Seen
  Keyword <- Label
  Recent = "recent"
  Gone = Gone
  First <- Read
  Present <- TheSecond
  KeywordsTaken = {TRUE, FALSE}
  Reverts = FALSE
  MaxChange = 2
  MaxOwner = 1
  MaxCut = 1
PROPERTIES OwnersFlagsStay FlagsConverge
