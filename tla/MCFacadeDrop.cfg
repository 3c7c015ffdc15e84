CONSTANTS
  Runs = {r1}
  MaxConcurrent = 1
  EventsBuffer = 1
  MessagesBuffer = 1
  MaxMessages = 2
  Results <- OneResult
  StoreFaults = FALSE
  MayShutDown = FALSE
  MayPoll = FALSE
SPECIFICATION Spec
INVARIANT DropOnlyAffectsStream
