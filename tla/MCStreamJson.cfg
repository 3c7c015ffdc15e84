CONSTANTS
  MaxLines = 2
  Resume = TRUE
  GivesMcp = TRUE
SPECIFICATION FairSpec
INVARIANTS VerdictIsJustified ReportFollowsStream NothingLeaks
PROPERTIES KeepsSessionContract DoneContextEndsSession
