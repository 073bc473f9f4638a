\* An update whose copy runs out of disk space.
SPECIFICATION FairSpec
CONSTANTS
  Platforms = {"systemd", "launchd", "sysv", "procd"}
  ToolSets = {{"update-rc.d", "rcN.d"}}
  Fails = {"copy"}
  PidReuse = FALSE
PROPERTIES FailedUpdateRunsPrevious
CHECK_DEADLOCK FALSE
