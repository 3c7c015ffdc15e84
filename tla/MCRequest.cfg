CONSTANTS
  Files <- MCFiles
  Environments <- MCEnvironments
  Asks <- MCAsks
  OptionsOf <- MCOptionsOf
  MaxMessages = 3
  EventsBuffer = 2
  CollectCap = 2
SPECIFICATION Spec
INVARIANTS OwnedFlagsAreOurs RunsAsConfigured AnswersAreFaithful
