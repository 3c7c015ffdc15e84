CONSTANTS
  MaxLines = 1
  ActivityBuffer = 1
SPECIFICATION FairSpec
PROPERTY SilentSessionEnds
