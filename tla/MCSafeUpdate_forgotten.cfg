\* The agent dies between the rename and the reverted record of a rollback.
SPECIFICATION Spec
CONSTANTS
  v1 = v1
  v2 = v2
  v3 = v3
  None = None
  Torn = Torn
  Version = {v1, v2}
  Binary = {v1, v2}
  Genesis = v1
  Operational = {v1, v2}
  MaxAttempts = 2
  Appliers = {"poller"}
  AgentDir = "std"
  Hazards = {"crash_rollback"}
PROPERTIES BadNeverRetried
