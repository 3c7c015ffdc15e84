CONSTANTS
  Runs = {r1}
  MaxConcurrent = 0
  EventsBuffer = 4
  MessagesBuffer = 2
  MaxMessages = 2
  Results <- TwoResults
  StoreFaults = TRUE
  MayShutDown = TRUE
  MayPoll = TRUE
SPECIFICATION FairSpec
INVARIANTS FinalAnswerIsComplete ReaderGetsResult CloseFinalises
PROPERTY ShutdownEnds
