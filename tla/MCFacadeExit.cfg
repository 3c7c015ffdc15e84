CONSTANTS
  Runs = {r1, r2}
  MaxConcurrent = 1
  EventsBuffer = 1
  MessagesBuffer = 1
  MaxMessages = 0
  Results <- OneResult
  StoreFaults = FALSE
  MayShutDown = TRUE
  MayPoll = FALSE
SPECIFICATION Spec
INVARIANT NoRunOutlivesClose
