\* Agents that crash at will once they are up, under an init system that restarts
\* them; one version besides the installed one.
SPECIFICATION FairSpec
CONSTANTS
  v1 = v1
  v2 = v2
  v3 = v3
  None = None
  Torn = Torn
  Version = {v1, v2}
  Binary = {v1, v2}
  Genesis = v1
  Operational = {v1, v2}
  MaxAttempts = 3
  Appliers = {"poller", "iotmp"}
  AgentDir = "std"
  Hazards = {"crash_run"}
PROPERTIES TrialResolved BadNeverRetried
