CONSTANTS
  Runs = {r1, r2}
  MaxConcurrent = 1
  EventsBuffer = 1
  MessagesBuffer = 1
  MaxMessages = 2
  Results <- OneResult
  StoreFaults = FALSE
  MayShutDown = FALSE
  MayPoll = FALSE
SPECIFICATION Spec
SYMMETRY Symmetry
INVARIANTS
  TypeOK SlotAccounting CapRespected SlotOutlivesRun NothingLeaks
  StreamedIsStored TimelineIsWellFormed SettledHasResult ClosedMeansFinalised
PROPERTIES FinalStatusIsFinal KeepsRunLifecycle
