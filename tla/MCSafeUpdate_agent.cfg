\* One agent with its poll loop and its update resource: crashes and power cuts
\* anywhere, failing renames.  v1 and v2 can connect, v3 cannot.
SPECIFICATION Spec
CONSTANTS
  v1 = v1
  v2 = v2
  v3 = v3
  None = None
  Torn = Torn
  Version = {v1, v2, v3}
  Binary = {v1, v2, v3}
  Genesis = v1
  Operational = {v1, v2}
  MaxAttempts = 3
  Appliers = {"poller", "iotmp"}
  AgentDir = "std"
  Hazards <- AgentHazards
INVARIANTS TypeOK KnownGoodKept IInv OneResolution RolledBackTellsTruth TrialRunsCounted
PROPERTIES RevertOnlyOnTrial ImplementsTrial
