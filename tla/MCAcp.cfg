CONSTANTS
  Resume = TRUE
  GivesMcp = TRUE
  MaxStrays = 1
SPECIFICATION FairSpec
INVARIANTS HandshakeInOrder VerdictIsJustified
PROPERTIES KeepsSessionContract DoneContextEndsSession
