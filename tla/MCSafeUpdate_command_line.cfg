\* Updates applied from the command line, which may be killed alone, beside an agent
\* that does not boot while one is being applied and may not be restarted; writes and
\* renames fail, and a power cut loses data.
SPECIFICATION Spec
CONSTANTS
  v1 = v1
  v2 = v2
  v3 = v3
  None = None
  Torn = Torn
  Version = {v1, v2, v3}
  Binary = {v1, v2, v3}
  Genesis = v1
  Operational = {v1, v2}
  MaxAttempts = 2
  Appliers = {"cli"}
  AgentDir = "std"
  Hazards = {"crash_boot", "crash_run", "crash_rollback", "crash_cli", "power_cut", "data_loss",
             "write_fails", "rename_fails", "no_respawn"}
INVARIANTS UntriedHasFallback
