CONSTANTS
  Commands = {"t1", "t2"}
  Pids = {1, 2}
  Verbs = {"start", "stop", "restart", "upgrade", "uninstall"}
SPECIFICATION FairSpec
INVARIANTS PidFileNamesServer StoppedMeansGone
PROPERTY RestartServes
