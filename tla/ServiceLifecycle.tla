-------------------------- MODULE ServiceLifecycle --------------------------
(***************************************************************************)
(* The service of one machine (root, system-wide) and the command line     *)
(* that installs, updates, starts, stops and uninstalls it.                *)
(*                                                                         *)
(*   service_manager, base_service_installer   the operations, one step    *)
(*                     per command or file they touch                      *)
(*   systemd, launchd, sysv (also on OpenWrt) and the OpenRC/Upstart stubs *)
(*                     what a step does; the init systems are external     *)
(*                                                                         *)
(* cli is the process that carries out one operation.  Meanwhile the       *)
(* service may exit, be restarted by its init system, and the machine may  *)
(* reboot.  Updates the agent applies to itself are in SafeUpdate, and so  *)
(* are the files they leave beside the binary and the configuration        *)
(* (.prev, update.state, update.reverted), which no operation here touches *)
(* and an uninstall leaves behind.                                         *)
(***************************************************************************)
EXTENDS Naturals, FiniteSets

CONSTANTS
  Platforms,  \* of "systemd", "launchd", "sysv", "procd", "stub"
  ToolSets,   \* what a sysv machine may offer to enable a service: sets of Tools
  Fails,      \* steps that may fail
  PidReuse    \* whether a dead service's pid may be given to another process

Tools == {"update-rc.d", "chkconfig", "rc.conf", "rc.d", "rcN.d"}

ASSUME ServiceAssumption ==
  /\ Platforms \subseteq {"systemd", "launchd", "sysv", "procd", "stub"}
  /\ ToolSets \subseteq SUBSET Tools /\ ToolSets # {} /\ PidReuse \in BOOLEAN
  /\ Fails \subseteq {"copy", "unit", "enable", "start", "stop", "quiet_stop", "disable", "remove"}

VARIABLES
  platform, tools,
  binary,   \* at the install path; the versions "old" and "new" can be executed
  unit,     \* whether the unit file, plist or init script is there
  starts,   \* where the service is set to start at boot
  job,      \* whether the init system restarts the service when it exits
  service,  \* the version its process runs
  pidfile,  \* "own": it names that process; "stale": none; "alien": another one
  config,   \* whether config.json is there
  cli,      \* the operation, its next step, and whether all went well so far
  said      \* what the last operation reported

machine == <<platform, tools>>
files == <<binary, unit, starts, config>>
process == <<job, service, pidfile>>
vars == <<machine, files, process, cli, said>>

Runnable == {"old", "new"}
Idle == [op |-> "none", at |-> "idle", ok |-> TRUE]

\* Every variable keeps its type.
TypeOK ==
  /\ platform \in Platforms /\ tools \in ToolSets
  /\ binary \in Runnable \cup {"none", "partial"} /\ service \in Runnable \cup {"none"}
  /\ unit \in BOOLEAN /\ job \in BOOLEAN /\ config \in BOOLEAN
  /\ starts \subseteq {"unit", "rc.conf", "rc.d", "rcN.d"}
  /\ pidfile \in {"none", "own", "stale", "alien"}
  /\ cli \in [op : {"none", "install", "uninstall", "update", "restart", "start", "manual"},
              at : {"idle", "copy", "unit", "enable", "start", "status", "stop", "remove",
                    "binary", "config", "check", "manual"},
              ok : BOOLEAN]
  /\ said \in {"none", "installed", "not_started", "updated", "restarted", "started",
               "uninstalled", "errors", "failed", "alone", "maybe", "direct"}

-----------------------------------------------------------------------------
(* Set to start at boot.                                                    *)

ByHand_levels(now) ==   \* mutant: the rcN.d directories are looked for before /etc/rc.d
  CASE "rc.conf" \in tools \ now -> [starts |-> now \cup {"rc.conf"}, ok |-> TRUE]
    [] "rc.conf" \notin tools \ now /\ "rcN.d" \in tools
         -> [starts |-> now \cup {"rcN.d"}, ok |-> "rcN.d" \notin now]
    [] OTHER -> [starts |-> now, ok |-> TRUE]

\* enable_service_runlevels without update-rc.d and chkconfig, of a service that starts
\* at boot in the places now.  rc.conf that names the service already counts as not
\* modified; a link by hand that exists already throws.
ByHand(now) ==
  CASE "rc.conf" \in tools \ now -> [starts |-> now \cup {"rc.conf"}, ok |-> TRUE]
    [] "rc.conf" \notin tools \ now /\ "rc.d" \in tools
         -> [starts |-> now \cup {"rc.d"}, ok |-> TRUE]
    [] "rc.conf" \notin tools \ now /\ "rc.d" \notin tools /\ "rcN.d" \in tools
         -> [starts |-> now \cup {"rcN.d"}, ok |-> "rcN.d" \notin now]
    [] OTHER -> [starts |-> now, ok |-> TRUE]

ByTool(now) == [starts |-> now \cup {"rcN.d"}, ok |-> TRUE]
Failed(now) == [starts |-> now, ok |-> FALSE]

\* The last command of install_service_impl, and what it makes of now.
EnableOutcomes(now) ==
  CASE platform = "sysv" ->
         (IF tools \cap {"update-rc.d", "chkconfig"} # {} THEN {ByTool(now)} ELSE {ByHand(now)})
           \cup (IF "enable" \in Fails THEN {ByHand(now)} ELSE {})
    [] platform = "procd" -> {[starts |-> now \cup {"rc.d"}, ok |-> TRUE]}
                               \cup (IF "enable" \in Fails THEN {Failed(now)} ELSE {})
    [] OTHER -> {[starts |-> now \cup {"unit"}, ok |-> TRUE]}
                  \cup (IF "enable" \in Fails THEN {Failed(now)} ELSE {})

\* Where it still starts after disable_service_runlevels or `systemctl disable`; what
\* starts an agent of launchd is the plist itself.
AfterDisable ==
  CASE platform = "sysv" ->
         starts \ ((CASE "rc.conf" \in tools -> {"rc.conf"}
                      [] "rc.conf" \notin tools /\ "rc.d" \in tools -> {"rc.d"}
                      [] OTHER -> {"rcN.d", "rc.d"})
                   \cup IF tools \cap {"update-rc.d", "chkconfig"} # {} THEN {"rcN.d"} ELSE {})
    [] platform = "procd" /\ unit -> starts \ {"rc.d"}
    [] platform = "procd" /\ ~unit -> starts
    [] platform = "launchd" -> starts
    [] OTHER -> starts \ {"unit"}

\* Nobody looks whether disabling worked: any place may be left.
Disable(left) ==
  /\ AfterDisable \subseteq left /\ left \subseteq starts
  /\ left = AfterDisable \/ "disable" \in Fails

-----------------------------------------------------------------------------
(* The process.                                                             *)

Restarts_never == FALSE   \* mutant: no Restart=always, KeepAlive or respawn

\* Restart=always, KeepAlive, respawn; a sysv script has nothing of the kind.
Restarts == platform \in {"systemd", "launchd", "procd"}

HasPidFile == platform \in {"sysv", "procd"}
Run_any(v) == v   \* mutant: a partial binary counts as running
Run(v) == IF v \in Runnable THEN v ELSE "none"

Launch_unwritten ==   \* mutant: the pid is not written
  /\ job' = Restarts
  /\ service' = IF service = "none" THEN Run(binary) ELSE service
  /\ UNCHANGED pidfile

\* A start leaves a process alone that runs; a binary that cannot be executed leaves
\* the pid of a process that is gone.
Launch ==
  /\ job' = Restarts
  /\ service' = IF service = "none" THEN Run(binary) ELSE service
  /\ pidfile' = IF ~HasPidFile THEN pidfile ELSE IF service' = "none" THEN "stale" ELSE "own"

Ended(keepsJob) ==
  /\ job' = (job /\ keepsJob)
  /\ service' = "none"
  /\ pidfile' = IF HasPidFile THEN "none" ELSE pidfile

HasUnit == platform = "stub" \/ unit
ScriptRefuses == platform = "sysv" /\ binary # "none" /\ pidfile \in {"own", "alien"}

\* start_service: what it does and returns.  An init script exits 0 without its binary.
StartService(ok) ==
  IF ok THEN /\ HasUnit /\ ~ScriptRefuses
             /\ IF platform = "stub" \/ (platform = "sysv" /\ binary = "none")
                THEN UNCHANGED process ELSE Launch
  ELSE /\ ("start" \in Fails /\ platform # "sysv") \/ ~HasUnit \/ ScriptRefuses
       /\ UNCHANGED process

KeepsJob_systemd(byPid) == platform # "sysv"   \* mutant: systemctl kill for systemctl stop

\* launchctl stop leaves KeepAlive on, and so does the script's own stop_service, which
\* it uses when it takes its caller for thinr-agent, procd's respawn.
KeepsJob(byPid) == platform = "launchd" \/ (platform = "procd" /\ byPid)

\* stop_service.  An init script always exits 0, without its binary before it does
\* anything; otherwise it signals the process its pid file names.
StopService(ok) ==
  IF ok THEN /\ HasUnit
             /\ CASE platform = "stub" \/ (platform = "sysv" /\ binary = "none")
                       -> UNCHANGED process
                  [] platform = "sysv" /\ binary # "none" /\ pidfile # "own"
                       -> pidfile' = "none" /\ UNCHANGED <<job, service>>
                  [] OTHER -> \E byPid \in BOOLEAN : Ended(KeepsJob(byPid))
  ELSE /\ ("stop" \in Fails /\ platform \in {"systemd", "launchd"}) \/ ~HasUnit
       /\ UNCHANGED process

\* get_service_status: on sysv `pgrep -f` always finds at least this command.
Status ==
  CASE platform = "stub" \/ ~unit -> "not_installed"
    [] platform # "stub" /\ unit /\ (HasPidFile \/ service # "none") -> "running"
    [] OTHER -> "stopped"

-----------------------------------------------------------------------------
(* Operations of the command line.                                          *)

Begin(op, at) ==
  /\ cli = Idle
  /\ cli' = [op |-> op, at |-> at, ok |-> TRUE]
  /\ said' = "none"
  /\ UNCHANGED <<machine, process, binary, unit, starts>>

\* save_and_install_service and install_as_service save the configuration first.
Install == Begin("install", "copy") /\ config' = TRUE

\* The menu of a running service, of a stopped one, and no menu at all.
Update  == config /\ Status = "running" /\ binary = "old" /\ Begin("update", "stop")
             /\ UNCHANGED config
Restart == config /\ Status = "running" /\ Begin("restart", "stop") /\ UNCHANGED config
StopAndRun == config /\ Status = "running" /\ Begin("manual", "stop") /\ UNCHANGED config
Start   == config /\ Status = "stopped" /\ Begin("start", "start") /\ UNCHANGED config
RunManually ==
  /\ cli = Idle /\ config /\ Status # "running"
  /\ cli' = [op |-> "manual", at |-> "manual", ok |-> TRUE] /\ said' = "direct"
  /\ UNCHANGED <<machine, files, process>>
Uninstall == Begin("uninstall", "status") /\ UNCHANGED config

Ends(word) == cli' = Idle /\ said' = word
GoesTo(at) == cli' = [cli EXCEPT !.at = at] /\ UNCHANGED said

Busy_never == FALSE   \* mutant: the binary of a running process can be written

\* ETXTBSY; macOS has no such thing.
Busy == service # "none" /\ binary # "none" /\ platform # "launchd"

\* copy_file(overwrite_existing) writes in place; copying a binary onto itself is an
\* error.
CopyBinary(ok) ==
  IF ok THEN ~Busy /\ binary' = "new"
  ELSE \/ /\ Busy \/ (cli.op = "install" /\ binary \in Runnable)
          /\ UNCHANGED binary
       \/ "copy" \in Fails /\ ~Busy /\ binary' \in {binary, "partial"}

Copy ==
  /\ cli.at = "copy"
  /\ \E ok \in BOOLEAN :
       /\ CopyBinary(ok)
       /\ CASE cli.op = "install" /\ ok  -> GoesTo("unit")
            [] cli.op = "install" /\ ~ok -> Ends("failed")
            [] OTHER -> cli' = [cli EXCEPT !.at = "start", !.ok = ok] /\ UNCHANGED said
  /\ UNCHANGED <<machine, process, unit, starts, config>>

\* The unit file; the OpenRC and Upstart installers are stubs that fail.
WriteUnit ==
  /\ cli.at = "unit"
  /\ \/ platform # "stub" /\ unit' = TRUE /\ GoesTo("enable")
     \/ /\ platform = "stub" \/ "unit" \in Fails
        /\ UNCHANGED unit /\ Ends("failed")
  /\ UNCHANGED <<machine, process, binary, starts, config>>

\* `launchctl load` starts the job at once.
Enable ==
  /\ cli.at = "enable"
  /\ \E outcome \in EnableOutcomes(starts) :
       /\ starts' = outcome.starts
       /\ IF outcome.ok THEN GoesTo("start") ELSE Ends("failed")
       /\ IF outcome.ok /\ platform = "launchd" THEN Launch ELSE UNCHANGED process
  /\ UNCHANGED <<machine, binary, unit, config>>

\* `install --no-start` leaves the start out.
SkipStart ==
  /\ cli.op = "install" /\ cli.at = "start"
  /\ Ends("not_started")
  /\ UNCHANGED <<machine, files, process>>

StartStep ==
  /\ cli.at = "start"
  /\ \E ok \in BOOLEAN :
       /\ StartService(ok)
       /\ Ends(CASE ~cli.ok -> "failed"
                 [] cli.ok /\ ~ok -> IF cli.op = "install" THEN "not_started" ELSE "failed"
                 [] OTHER -> CASE cli.op = "install" -> "installed"
                               [] cli.op = "update"  -> "updated"
                               [] cli.op = "restart" -> "restarted"
                               [] OTHER              -> "started")
  /\ UNCHANGED <<machine, files>>

StopStep ==
  /\ cli.at = "stop"
  /\ \E ok \in BOOLEAN :
       /\ StopService(ok)
       /\ CASE cli.op = "uninstall"
                 -> cli' = [cli EXCEPT !.at = "remove", !.ok = ok] /\ UNCHANGED said
            [] cli.op # "uninstall" /\ ~ok -> Ends("failed")
            [] OTHER -> GoesTo(CASE cli.op = "update"  -> "copy"
                                 [] cli.op = "restart" -> "start"
                                 [] OTHER              -> "check")
  /\ UNCHANGED <<machine, files>>

\* A second later the command line goes on as the agent, whatever the status says.
CheckStopped ==
  /\ cli.at = "check"
  /\ cli' = [cli EXCEPT !.at = "manual"]
  /\ said' = IF Status = "running" THEN "maybe" ELSE "alone"
  /\ UNCHANGED <<machine, files, process>>

QuitManual ==
  /\ cli.at = "manual"
  /\ Ends("none")
  /\ UNCHANGED <<machine, files, process>>

-----------------------------------------------------------------------------
(* uninstall_completely: it goes on whatever fails.                         *)

Went(ok, at) == cli' = [cli EXCEPT !.at = at, !.ok = @ /\ ok] /\ UNCHANGED said

UninstallStatus ==
  /\ cli.at = "status"
  /\ GoesTo(IF Status = "running" THEN "stop" ELSE "remove")
  /\ UNCHANGED <<machine, files, process>>

\* uninstall_service_impl.  systemd and launchd stop the service once more and look at
\* no result; the init script and its pid file go, its process is left.
RemoveUnit ==
  /\ cli.at = "remove"
  /\ IF ~unit
     THEN /\ Went(TRUE, "binary")
          /\ IF HasPidFile THEN \E left \in SUBSET starts : Disable(left) /\ starts' = left
             ELSE UNCHANGED starts
          /\ pidfile' = IF HasPidFile THEN "none" ELSE pidfile
          /\ UNCHANGED <<unit, job, service>>
     ELSE \E ok \in BOOLEAN, left \in SUBSET starts :
               /\ ok \/ "remove" \in Fails
               /\ Disable(left)
               /\ starts' = IF platform = "launchd" /\ ok THEN {} ELSE left
               /\ Went(ok, "binary") /\ unit' = ~ok
               /\ IF HasPidFile
                  THEN pidfile' = (IF ok THEN "none" ELSE pidfile) /\ UNCHANGED <<job, service>>
                  ELSE Ended(FALSE) \/ ("quiet_stop" \in Fails /\ UNCHANGED process)
  /\ UNCHANGED <<machine, binary, config>>

RemoveBinary_unlooked ==   \* mutant: the result of remove is not looked at
  /\ cli.at = "binary"
  /\ binary' \in IF "remove" \in Fails THEN {"none", binary} ELSE {"none"}
  /\ Went(TRUE, "config")
  /\ UNCHANGED <<machine, process, unit, starts, config>>

\* The file at the install path; a .prev beside it stays.
RemoveBinary ==
  /\ cli.at = "binary"
  /\ \E ok \in BOOLEAN :
       /\ ok \/ ("remove" \in Fails /\ binary # "none")
       /\ binary' = IF ok THEN "none" ELSE binary
       /\ Went(ok, "config")
  /\ UNCHANGED <<machine, process, unit, starts, config>>

\* config.json alone; its directory goes too if nothing else is in it.
RemoveConfig ==
  /\ cli.at = "config"
  /\ \E ok \in BOOLEAN :
       /\ ok \/ ("remove" \in Fails /\ config)
       /\ config' = (config /\ ~ok)
       /\ Ends(IF cli.ok /\ ok THEN "uninstalled" ELSE "errors")
  /\ UNCHANGED <<machine, process, binary, unit, starts>>

-----------------------------------------------------------------------------
(* What happens meanwhile.                                                  *)

Exit ==
  /\ service # "none"
  /\ service' = "none"
  /\ pidfile' = IF pidfile = "own" THEN "stale" ELSE pidfile
  /\ UNCHANGED <<machine, files, job, cli, said>>

Respawn ==
  /\ job /\ service = "none" /\ binary \in Runnable
  /\ Launch
  /\ UNCHANGED <<machine, files, cli, said>>

\* procd halts an instance that exited too often in a row: `procd_set_param respawn`
\* without limits keeps its defaults.  systemd is told not to (StartLimitIntervalSec=0).
GiveUp ==
  /\ platform = "procd" /\ job /\ service = "none"
  /\ job' = FALSE
  /\ UNCHANGED <<machine, files, service, pidfile, cli, said>>

ReusePid ==
  /\ PidReuse /\ pidfile = "stale"
  /\ pidfile' = "alien"
  /\ UNCHANGED <<machine, files, job, service, cli, said>>

\* /var/run may survive, and the pids it holds name other processes then.
Reboot ==
  /\ \E left \in {"none"} \cup (IF pidfile = "none" THEN {}
                                ELSE IF PidReuse THEN {"stale", "alien"} ELSE {"stale"}) :
       LET runs == /\ unit /\ starts # {}
                   /\ platform = "sysv" => left # "alien" /\ binary # "none" IN
       /\ job' = (runs /\ Restarts)
       /\ service' = IF runs THEN Run(binary) ELSE "none"
       /\ pidfile' = IF ~HasPidFile \/ ~runs THEN left
                     ELSE IF service' = "none" THEN "stale" ELSE "own"
  /\ cli' = Idle
  /\ said' = IF cli = Idle THEN said ELSE "none"
  /\ UNCHANGED <<machine, files>>

-----------------------------------------------------------------------------
\* No installation, or one an older release made, which runs.
Init ==
  /\ platform \in Platforms
  /\ tools \in IF platform = "sysv" THEN ToolSets ELSE {CHOOSE t \in ToolSets : TRUE}
  /\ cli = Idle /\ said = "none"
  /\ \/ /\ binary = "none" /\ service = "none" /\ unit = FALSE /\ config = FALSE
        /\ job = FALSE /\ pidfile = "none" /\ starts = {}
     \/ /\ platform # "stub"
        /\ binary = "old" /\ service = "old" /\ unit = TRUE /\ config = TRUE
        /\ job = Restarts /\ pidfile = IF HasPidFile THEN "own" ELSE "none"
        /\ \E outcome \in EnableOutcomes({}) : outcome.ok /\ starts = outcome.starts

Command == Install \/ Update \/ Restart \/ StopAndRun \/ Start \/ RunManually \/ Uninstall

CliStep ==
  \/ Copy \/ WriteUnit \/ Enable \/ SkipStart \/ StartStep \/ StopStep \/ CheckStopped
  \/ UninstallStatus \/ RemoveUnit \/ RemoveBinary \/ RemoveConfig

Next == Command \/ CliStep \/ QuitManual \/ Exit \/ Respawn \/ GiveUp \/ ReusePid \/ Reboot

Spec == Init /\ [][Next]_vars

\* An operation goes on, and the init system does what it is there for.
FairSpec == Spec /\ WF_vars(CliStep) /\ WF_vars(Respawn)

-----------------------------------------------------------------------------
(* Properties.                                                              *)

\* An uninstalled agent never comes back: after "ThinRemote has been completely
\* uninstalled" (service_manager.cpp:198) a process that was not stopped may go on, but
\* no init system, place left enabled or reboot starts another.
UninstalledStaysOff ==
  [][said = "uninstalled" /\ said' = "uninstalled" => service' \in {service, "none"}]_vars

\* An installation that reports success starts the agent after a reboot, where the
\* machine has any means to.
InstalledStartsAtBoot ==
  said \in {"installed", "not_started"} =>
    unit /\ binary = "new" /\ (starts # {} \/ (platform = "sysv" /\ tools = {}))

\* The sysv script can always reach the process it started: the pid file never names
\* another while it runs, so a stop stops it.
PidFileFindsService == platform = "sysv" /\ service # "none" => pidfile = "own"

\* "Service stopped successfully. Switching to manual mode" (service_manager.cpp:124):
\* on systemd the agent in the terminal is then the only one with these credentials.
ManualRunsAlone == said = "alone" /\ platform = "systemd" => service = "none"

\* "Service updated successfully!" (service_manager.cpp:505): what runs is the binary
\* that was just copied.  Not on macOS, where launchd restarts the old one first.
UpdatedRunsNew ==
  [][said' = "updated" /\ said # "updated" /\ platform # "launchd"
       => binary' = "new" /\ service' = "new"]_vars

\* A failed update leaves the service on the version it ran ("Restarting service with
\* previous binary", service_manager.cpp:496).
FailedUpdateRunsPrevious ==
  [][cli.op = "update" /\ cli.at = "start" /\ ~cli.ok /\ said' = "failed"
       => service' \in Runnable]_vars

\* A service that was installed or started does not stay away: where the init system
\* restarts it, it comes back after every exit and every reboot (systemd_service_
\* installer.cpp:187), on OpenWrt until procd gives up.
Away ==
  /\ said \in {"installed", "updated", "restarted", "started"} /\ cli = Idle
  /\ platform \in {"systemd", "launchd"} \/ (platform = "procd" /\ job)
  /\ starts # {} /\ binary \in Runnable /\ service = "none"
ServiceComesBack == Away ~> ~Away
=============================================================================
