\* Two workers reload while scripts come and go, one named like a native registered
\* before the scripts and one like a native registered after them.
SPECIFICATION FairSpec
CONSTANTS
  None = None
  File = {"metrics.sh", "shell.sh"}
  Early = {"metrics"}
  Late = {"shell"}
  Worker = {"w1", "w2"}
  MaxEdits = 2
  MaxConfigs = 1
  Stem <- MCStem
INVARIANTS TypeOK ServedAreListed ReloadTellsTruth
PROPERTIES PolicyReached
