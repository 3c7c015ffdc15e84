CONSTANTS
  MaxLines = 3
  ActivityBuffer = 1
SPECIFICATION FairSpec
INVARIANTS TypeOK MessagesOutliveReader ReaderNeverBlocks VerdictFollowsTurn AnswerIsReported
PROPERTIES KeepsSessionContract CancelledSessionEnds StartedTurnEnds
