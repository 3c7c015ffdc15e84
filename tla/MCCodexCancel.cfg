CONSTANTS
  MaxLines = 1
  ActivityBuffer = 1
SPECIFICATION Spec
INVARIANT CancelledIsReported
