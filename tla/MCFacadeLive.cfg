CONSTANTS
  Runs = {r1, r2}
  MaxConcurrent = 1
  EventsBuffer = 1
  MessagesBuffer = 1
  MaxMessages = 0
  Results <- PlainResult
  StoreFaults = FALSE
  MayShutDown = FALSE
  MayPoll = FALSE
SPECIFICATION FairSpec

PROPERTIES StartRunReturns CancelledRunEnds
