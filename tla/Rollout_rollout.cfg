\* Two devices, either of whose clocks may be behind; a release that may lack a binary for
\* one of them, panics and freezes, two jobs at a time.
SPECIFICATION FairSpec
CONSTANTS
  Device = {"d1", "d2"}
  Version = {"v1", "v2"}
  Builds = {{"d1"}, {"d1", "d2"}}
  Runner = {"r1", "r2"}
  Genesis = "v1"
  Parts = 2
  Horizon = 6
  Soaks = {0, 1}
  Ramps = {0, 2}
  Behind = 1
  MaxJobs = 3
  None = None
INVARIANTS TypeOK
PROPERTIES NestedExposure FreezeHolds PanicReachesAll FleetConverges
CHECK_DEADLOCK FALSE
