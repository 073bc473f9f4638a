\* Two machines that may be given the same identifier.
SPECIFICATION Spec
CONSTANTS
  Machine = {"m1", "m2"}
  Interactive = {"m1"}
  DeviceId = {"d1", "d2"}
  NTokens = 7
  Commands = {"token", "setup", "password"}
  Faults = {"refused", "lost", "unheard"}
  NoConfig = NoConfig
  Expires = 2
  Interval = 1
  Penalty = 1
  Latency = 0
  MaxSlow = 1
  Enforcing = FALSE
INVARIANTS TypeOK AcceptedOnceSaved ApprovedInTimeServed FlowBounded
CHECK_DEADLOCK FALSE
