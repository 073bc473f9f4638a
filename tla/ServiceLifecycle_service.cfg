\* Every init system and enabling tool, with every command and file operation failing.
SPECIFICATION FairSpec
CONSTANTS
  Platforms = {"systemd", "launchd", "sysv", "procd", "stub"}
  ToolSets = {{}, {"update-rc.d", "rcN.d"}, {"chkconfig", "rcN.d"}, {"rcN.d"}, {"rc.d"}, {"rc.conf", "rc.d"}}
  Fails = {"copy", "unit", "enable", "start", "stop", "quiet_stop", "disable", "remove"}
  PidReuse = TRUE
INVARIANTS TypeOK InstalledStartsAtBoot PidFileFindsService ManualRunsAlone
PROPERTIES UninstalledStaysOff UpdatedRunsNew ServiceComesBack
CHECK_DEADLOCK FALSE
