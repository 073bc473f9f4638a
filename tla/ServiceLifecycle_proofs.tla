----------------------- MODULE ServiceLifecycle_proofs -----------------------
(***************************************************************************)
(* Proofs about ServiceLifecycle, for any init systems, enabling tools and *)
(* failures: the types, what "uninstalled", "installed" and the switch to  *)
(* manual mode promise, the pid file of the init script, and what runs     *)
(* after an update.                                                        *)
(***************************************************************************)
EXTENDS ServiceLifecycle, TLAPS

Managers == {"update-rc.d", "chkconfig"}
Directories == {"rc.conf", "rc.d", "rcN.d"}

\* Without its init script no process of a sysv service runs: what removed the script
\* had stopped the process first.
Unregistered == platform = "sysv" /\ ~unit => service = "none"

\* The init script's process: it is not restarted, its pid file names it, it is stopped
\* before its binary goes away and before an uninstall removes a file.
SysvInv ==
  platform = "sysv" =>
    /\ ~job
    /\ service # "none" => pidfile = "own" /\ binary # "none"
    /\ cli.at \in {"remove", "binary", "config"} => service = "none"

\* A service that starts at boot in these places, or on a machine that offers none.
SetToStart(places) ==
  places # {} \/ /\ platform = "sysv" /\ tools \cap Directories = {}
                 /\ tools \cap Managers = {} \/ "enable" \in Fails

\* How far an installation has come.
InstallInv ==
  /\ cli.at \in {"unit", "enable"} => cli.op = "install" /\ binary = "new"
  /\ cli.at = "enable" => unit
  /\ cli.at = "start" /\ cli.op = "install" =>
       binary = "new" /\ unit /\ SetToStart(starts)

\* What an uninstall that met no error yet has removed.
UninstallInv ==
  /\ cli.at = "status" => cli.op = "uninstall"
  /\ cli.at \in {"binary", "config"} /\ cli.ok => ~unit
  /\ cli.at = "config" /\ cli.ok => binary = "none"

\* systemd does not restart a service that was stopped for the terminal.
ManualInv ==
  platform = "systemd" /\ (cli.at = "check" \/ (cli.at = "manual" /\ said = "alone")) =>
    service = "none" /\ ~job

\* The binary of an update, and what may run of it before the service is started.
UpdateInv ==
  cli.op = "update" =>
    /\ platform # "stub"
    /\ cli.at \in {"stop", "copy"} => binary = "old"
    /\ cli.at = "start" /\ cli.ok /\ platform # "launchd" =>
         binary = "new" /\ service \in {"none", "new"}

\* The last word of an operation stands until the next operation.
SaidInv ==
  /\ cli.at = "idle" => cli = Idle
  /\ said \in {"installed", "not_started", "uninstalled"} => cli = Idle
  /\ said = "alone" => cli.at = "manual"
  /\ said = "uninstalled" => binary = "none" /\ ~unit /\ ~config
  /\ said \in {"installed", "not_started"} =>
       unit /\ binary = "new" /\ SetToStart(starts)

ServiceInv ==
  /\ TypeOK /\ Unregistered /\ SysvInv
  /\ InstallInv /\ UninstallInv /\ ManualInv /\ UpdateInv /\ SaidInv

-----------------------------------------------------------------------------
(* What the steps do to the operation that is under way.                    *)

Operations == {"none", "install", "uninstall", "update", "restart", "start", "manual"}
CliSteps == {"idle", "copy", "unit", "enable", "start", "status", "stop", "remove", "binary",
             "config", "check", "manual"}
CliState == [op : Operations, at : CliSteps, ok : BOOLEAN]
Binaries == Runnable \cup {"none", "partial"}

\* The command line is idle in one way only.
LEMMA IdleState == Idle \in CliState /\ Idle.at = "idle" /\ Idle.op = "none" /\ Idle.ok = TRUE
BY DEF Idle, CliState, CliSteps, Operations

\* An operation that goes on keeps its name and its success so far.
LEMMA Going ==
  ASSUME cli \in CliState, NEW at \in CliSteps, GoesTo(at)
  PROVE  /\ cli' \in CliState /\ said' = said
         /\ cli'.op = cli.op /\ cli'.at = at /\ cli'.ok = cli.ok
BY DEF GoesTo, CliState

\* The uninstall remembers a step that failed.
LEMMA GoingOn ==
  ASSUME cli \in CliState, NEW at \in CliSteps, NEW ok \in BOOLEAN, Went(ok, at)
  PROVE  /\ cli' \in CliState /\ said' = said
         /\ cli'.op = cli.op /\ cli'.at = at /\ cli'.ok = (cli.ok /\ ok)
<1> DEFINE good == cli.ok /\ ok
<1>1. good \in BOOLEAN
  OBVIOUS
<1>2. cli' = [cli EXCEPT !.at = at, !.ok = good] /\ said' = said
  BY DEF Went
<1> HIDE DEF good
<1>3. cli' \in CliState /\ cli'.op = cli.op /\ cli'.at = at /\ cli'.ok = good
  BY <1>1, <1>2 DEF CliState
<1> QED BY <1>2, <1>3 DEF good

Words == {"none", "installed", "not_started", "updated", "restarted", "started",
          "uninstalled", "errors", "failed", "alone", "maybe", "direct"}
Places == {"unit", "rc.conf", "rc.d", "rcN.d"}
PidFiles == {"none", "own", "stale", "alien"}

\* The type invariant, part by part, with the sets of values named.
Typed ==
  /\ platform \in Platforms /\ tools \in ToolSets
  /\ binary \in Binaries /\ service \in Runnable \cup {"none"}
  /\ unit \in BOOLEAN /\ job \in BOOLEAN /\ config \in BOOLEAN
  /\ starts \subseteq Places /\ pidfile \in PidFiles
  /\ cli \in CliState /\ said \in Words

LEMMA TypedParts == (TypeOK <=> Typed) /\ (TypeOK' <=> Typed')
BY DEF TypeOK, Typed, Binaries, Places, PidFiles, CliState, CliSteps, Operations, Words

-----------------------------------------------------------------------------
(* An installation.                                                         *)

\* copy_binary_to_install_path, in an installation or an update: what it leaves and
\* where the operation goes on.
LEMMA CopyDoes ==
  ASSUME TypeOK, Copy
  PROVE  /\ cli.at = "copy" /\ cli' \in CliState /\ binary' \in Binaries
         /\ UNCHANGED <<machine, process, unit, starts, config>>
         /\ binary' = "none" => binary = "none"
         /\ \/ cli' = Idle /\ said' = "failed"
            \/ /\ cli'.op = cli.op /\ said' = said
               /\ \/ cli.op = "install" /\ cli'.at = "unit" /\ binary' = "new"
                  \/ /\ cli.op # "install" /\ cli'.at = "start"
                     /\ cli'.ok => ~Busy /\ binary' = "new"
<1>1. PICK ok \in BOOLEAN :
        /\ CopyBinary(ok)
        /\ CASE cli.op = "install" /\ ok  -> GoesTo("unit")
             [] cli.op = "install" /\ ~ok -> Ends("failed")
             [] OTHER -> cli' = [cli EXCEPT !.at = "start", !.ok = ok] /\ UNCHANGED said
  BY DEF Copy
<1>2. /\ binary' \in Binaries /\ (binary' = "none" => binary = "none")
      /\ ok => ~Busy /\ binary' = "new"
  BY <1>1 DEF CopyBinary, TypeOK, Binaries, Runnable
<1>3. cli \in CliState
  BY DEF TypeOK, CliState, CliSteps, Operations
<1>4. CASE cli.op = "install" /\ ok
  <2>1. GoesTo("unit")
    BY <1>1, <1>4
  <2>2. cli' \in CliState /\ said' = said /\ cli'.op = cli.op /\ cli'.at = "unit"
    BY <1>3, <2>1, Going DEF CliSteps
  <2> QED BY <1>2, <1>4, <2>2 DEF Copy
<1>5. CASE cli.op = "install" /\ ~ok
  <2>1. cli' = Idle /\ said' = "failed"
    BY <1>1, <1>5 DEF Ends
  <2> QED BY <1>2, <2>1, IdleState DEF Copy
<1>6. CASE cli.op # "install"
  <2>1. cli' = [cli EXCEPT !.at = "start", !.ok = ok] /\ said' = said
    BY <1>1, <1>6
  <2>2. cli' \in CliState /\ cli'.op = cli.op /\ cli'.at = "start" /\ cli'.ok = ok
    BY <1>3, <2>1 DEF CliState, CliSteps
  <2> QED BY <1>2, <1>6, <2>1, <2>2 DEF Copy
<1> QED BY <1>4, <1>5, <1>6

\* The copy of the binary keeps the invariant: an update comes here with the service
\* stopped, or the copy fails (ETXTBSY).
LEMMA CopyKeeps ==
  ASSUME ServiceInv, Copy
  PROVE  ServiceInv'
<1> USE DEF machine, process
<1>a. TypeOK
  BY DEF ServiceInv
<1>b. \/ cli'.at = "idle" /\ cli'.op = "none"
     \/ cli'.at \in {"unit", "start"}
  BY <1>a, CopyDoes, IdleState
<1>1. TypeOK'
  <2>1. said' \in Words
    BY <1>a, CopyDoes DEF TypeOK, Words
  <2>2. Typed'
    BY <1>a, <2>1, CopyDoes, TypedParts DEF Typed
  <2> QED BY <2>2, TypedParts
<1>3. Unregistered'
  BY <1>a, CopyDoes DEF ServiceInv, Unregistered
<1>4. SysvInv'
  BY <1>a, CopyDoes, IdleState DEF ServiceInv, SysvInv
<1>5. InstallInv'
  BY <1>a, CopyDoes, IdleState DEF ServiceInv, InstallInv
<1>6. UninstallInv'
  BY <1>b DEF UninstallInv
<1>7. ManualInv'
  BY <1>b DEF ManualInv
<1>8. UpdateInv'
  BY <1>a, CopyDoes, IdleState DEF ServiceInv, UpdateInv, Busy
<1>9. SaidInv'
  BY <1>a, CopyDoes, IdleState DEF ServiceInv, SaidInv
<1> QED BY <1>1, <1>3, <1>4, <1>5, <1>6, <1>7, <1>8, <1>9 DEF ServiceInv

\* The unit file is written once the new binary is there.
LEMMA WriteUnitKeeps ==
  ASSUME ServiceInv, WriteUnit
  PROVE  ServiceInv'
<1>a. Typed
  BY TypedParts DEF ServiceInv
<1>b. /\ cli.at = "unit" /\ UNCHANGED <<machine, process, binary, starts, config>>
      /\ \/ platform # "stub" /\ unit' = TRUE /\ GoesTo("enable")
         \/ unit' = unit /\ cli' = Idle /\ said' = "failed"
  BY DEF WriteUnit, Ends
<1>c. /\ cli' \in CliState
      /\ \/ unit' /\ cli'.op = cli.op /\ cli'.at = "enable" /\ said' = said
         \/ unit' = unit /\ cli' = Idle /\ said' = "failed"
  <2>1. cli \in CliState
    BY <1>a DEF Typed
  <2> QED BY <1>b, <2>1, Going, IdleState DEF CliSteps
<1>1. TypeOK'
  <2>1. unit' \in BOOLEAN
    BY <1>a, <1>b DEF Typed
  <2>2. said' \in Words
    BY <1>a, <1>c DEF Typed, Words
  <2>3. Typed'
    BY <1>a, <1>b, <1>c, <2>1, <2>2 DEF Typed, machine, process
  <2> QED BY <2>3, TypedParts
<1>3. Unregistered'
  BY <1>b, <1>c DEF ServiceInv, Unregistered, machine, process
<1>4. SysvInv'
  BY <1>b, <1>c, IdleState DEF ServiceInv, SysvInv, machine, process
<1>5. InstallInv'
  BY <1>b, <1>c, IdleState DEF ServiceInv, InstallInv
<1>6. UninstallInv'
  BY <1>c, IdleState DEF UninstallInv
<1>7. ManualInv'
  BY <1>c, IdleState DEF ManualInv
<1>8. UpdateInv'
  BY <1>b, <1>c, IdleState DEF ServiceInv, UpdateInv, InstallInv
<1>9. SaidInv'
  BY <1>b, <1>c, IdleState DEF ServiceInv, SaidInv
<1> QED BY <1>1, <1>3, <1>4, <1>5, <1>6, <1>7, <1>8, <1>9 DEF ServiceInv

\* Enabling reports success without a place only on a machine that offers none.
LEMMA EnableEffect ==
  ASSUME tools \in SUBSET Tools, NEW now \in SUBSET Places,
         NEW outcome \in EnableOutcomes(now)
  PROVE  /\ outcome.starts \in SUBSET Places
         /\ outcome.ok => SetToStart(outcome.starts)
<1>1. ASSUME outcome = ByHand(now), platform = "sysv"
      PROVE  /\ outcome.starts \subseteq now \cup (tools \cap Directories)
             /\ outcome.starts # {} \/ tools \cap Directories = {}
  BY <1>1 DEF ByHand, Directories
<1>2. CASE platform = "sysv"
  <2>1. CASE outcome = ByHand(now) /\ (tools \cap Managers = {} \/ "enable" \in Fails)
    BY <1>1, <1>2, <2>1 DEF SetToStart, Directories, Places
  <2>2. CASE outcome = ByTool(now) /\ tools \cap Managers # {}
    BY <1>2, <2>2 DEF ByTool, SetToStart, Places
  <2> QED BY <1>2, <2>1, <2>2 DEF EnableOutcomes, Managers
<1>3. CASE platform # "sysv"
  BY <1>3 DEF EnableOutcomes, Failed, SetToStart, Places
<1> QED BY <1>2, <1>3

\* A start: what runs is what ran, or the binary if nothing did.
LEMMA LaunchEffect ==
  ASSUME Typed, Launch
  PROVE  /\ job' \in BOOLEAN /\ service' \in Runnable \cup {"none"} /\ pidfile' \in PidFiles
         /\ service' \in {service, "none", binary} /\ (service # "none" => service' = service)
         /\ service = "none" /\ binary \in Runnable => service' = binary
         /\ platform = "sysv" => ~job' /\ (service' # "none" => pidfile' = "own")
<1>1. job' \in BOOLEAN
  BY DEF Launch, Restarts
<1>2. /\ service' \in {service, "none", binary} /\ (service # "none" => service' = service)
      /\ service' \in Runnable \cup {"none"}
      /\ service = "none" /\ binary \in Runnable => service' = binary
  BY DEF Launch, Run, Typed
<1>3. pidfile' \in PidFiles
  BY DEF Launch, PidFiles, Typed
<1>4. platform = "sysv" => ~job'
  BY DEF Launch, Restarts
<1>5. platform = "sysv" => (service' # "none" => pidfile' = "own")
  BY DEF Launch, HasPidFile
<1> QED BY <1>1, <1>2, <1>3, <1>4, <1>5

\* The last command of an installation keeps the invariant.
LEMMA EnableKeeps ==
  ASSUME ServiceInv, Enable
  PROVE  ServiceInv'
<1>a. Typed
  BY TypedParts DEF ServiceInv
<1>b. PICK outcome \in EnableOutcomes(starts) :
        /\ starts' = outcome.starts
        /\ IF outcome.ok THEN GoesTo("start") ELSE Ends("failed")
        /\ IF outcome.ok /\ platform = "launchd" THEN Launch ELSE UNCHANGED process
  BY DEF Enable
<1>c. cli.at = "enable" /\ cli.op = "install" /\ unit /\ binary = "new"
  BY DEF Enable, ServiceInv, InstallInv
<1>d. platform' = platform /\ tools' = tools /\ binary' = binary /\ unit' = unit
        /\ config' = config
  BY DEF Enable, machine
<1>e. /\ starts' \in SUBSET Places
      /\ outcome.ok => SetToStart(starts')
  <2>1. tools \in SUBSET Tools /\ starts \in SUBSET Places
    BY <1>a, ServiceAssumption DEF Typed
  <2> QED BY <1>b, <2>1, EnableEffect
<1>f. /\ cli' \in CliState
      /\ \/ outcome.ok /\ cli'.op = "install" /\ cli'.at = "start" /\ said' = said
         \/ cli' = Idle /\ said' = "failed"
  <2>1. CASE outcome.ok
    BY <1>a, <1>b, <1>c, <2>1, Going DEF Typed, CliSteps
  <2>2. CASE ~outcome.ok
    BY <1>b, <2>2, IdleState DEF Ends
  <2> QED BY <2>1, <2>2
<1>g. /\ job' \in BOOLEAN /\ service' \in Runnable \cup {"none"} /\ pidfile' \in PidFiles
      /\ platform = "sysv" => UNCHANGED process
  BY <1>a, <1>b, LaunchEffect DEF Typed, process
<1>1. TypeOK'
  <2>1. said' \in Words
    BY <1>a, <1>f DEF Typed, Words
  <2>2. Typed'
    BY <1>a, <1>d, <1>e, <1>f, <1>g, <2>1 DEF Typed
  <2> QED BY <2>2, TypedParts
<1>3. Unregistered'
  BY <1>c, <1>d DEF Unregistered
<1>4. SysvInv'
  BY <1>d, <1>f, <1>g, IdleState DEF ServiceInv, SysvInv, process
<1>5. InstallInv'
  BY <1>c, <1>d, <1>e, <1>f, IdleState DEF InstallInv, SetToStart
<1>6. UninstallInv'
  BY <1>f, IdleState DEF UninstallInv
<1>7. ManualInv'
  BY <1>f, IdleState DEF ManualInv
<1>8. UpdateInv'
  BY <1>f, IdleState DEF UpdateInv
<1>9. SaidInv'
  BY <1>c, <1>f, IdleState DEF ServiceInv, SaidInv
<1> QED BY <1>1, <1>3, <1>4, <1>5, <1>6, <1>7, <1>8, <1>9 DEF ServiceInv

\* `install --no-start` is over.
LEMMA SkipStartKeeps ==
  ASSUME ServiceInv, SkipStart
  PROVE  ServiceInv'
<1>a. Typed
  BY TypedParts DEF ServiceInv
<1>b. /\ cli.op = "install" /\ cli.at = "start" /\ cli' = Idle /\ said' = "not_started"
      /\ UNCHANGED <<machine, files, process>>
  BY DEF SkipStart, Ends
<1>1. TypeOK'
  <2>1. said' \in Words
    BY <1>b DEF Words
  <2>2. Typed'
    BY <1>a, <1>b, <2>1, IdleState DEF Typed, machine, files, process
  <2> QED BY <2>2, TypedParts
<1>3. Unregistered'
  BY <1>b DEF ServiceInv, Unregistered, machine, files, process
<1>4. SysvInv'
  BY <1>b, IdleState DEF ServiceInv, SysvInv, machine, files, process
<1>5. InstallInv'
  BY <1>b, IdleState DEF InstallInv
<1>6. UninstallInv'
  BY <1>b, IdleState DEF UninstallInv
<1>7. ManualInv'
  BY <1>b, IdleState DEF ManualInv
<1>8. UpdateInv'
  BY <1>b, IdleState DEF UpdateInv
<1>9. SaidInv'
  BY <1>b, IdleState DEF ServiceInv, InstallInv, SaidInv, SetToStart, machine, files
<1> QED BY <1>1, <1>3, <1>4, <1>5, <1>6, <1>7, <1>8, <1>9 DEF ServiceInv

\* start_service: what it leaves of the process.
LEMMA StartEffect ==
  ASSUME ServiceInv, NEW ok \in BOOLEAN, StartService(ok)
  PROVE  /\ job' \in BOOLEAN /\ service' \in Runnable \cup {"none"} /\ pidfile' \in PidFiles
         /\ UNCHANGED process \/ (unit /\ platform # "stub")
         /\ platform = "sysv" =>
              ~job' /\ (service' # "none" => pidfile' = "own" /\ binary # "none")
         /\ service' \in {service, "none", binary}
         /\ (ok /\ platform # "stub" /\ service \in {"none", "new"} /\ binary = "new")
              => service' = "new"
<1>a. Typed
  BY TypedParts DEF ServiceInv
<1>1. CASE UNCHANGED process
  <2>1. platform = "sysv" => ~job' /\ (service' # "none" => pidfile' = "own" /\ binary # "none")
    BY <1>1 DEF ServiceInv, SysvInv, process
  <2>2. (ok /\ platform # "stub" /\ service \in {"none", "new"} /\ binary = "new")
          => service' = "new"
    BY <1>1, <1>a, LaunchEffect DEF StartService, process, Runnable
  <2>3. job' \in BOOLEAN
    BY <1>1, <1>a DEF Typed, process
  <2> QED BY <1>1, <1>a, <2>1, <2>2, <2>3 DEF Typed, process
<1>2. CASE ok /\ Launch /\ unit /\ platform # "stub"
  <2>1. platform = "sysv" /\ service' # "none" => binary # "none"
    BY <1>2, <1>a, LaunchEffect DEF ServiceInv, SysvInv
  <2> QED BY <1>2, <1>a, <2>1, LaunchEffect DEF Runnable
<1> QED BY <1>1, <1>2 DEF StartService, HasUnit

\* What an operation says when it ends with a start, and what it then started.
LEMMA StartKeeps ==
  ASSUME ServiceInv, StartStep
  PROVE  ServiceInv'
<1>a. Typed
  BY TypedParts DEF ServiceInv
<1>b. PICK ok \in BOOLEAN :
        /\ StartService(ok)
        /\ said' = CASE ~cli.ok -> "failed"
                     [] cli.ok /\ ~ok -> IF cli.op = "install" THEN "not_started" ELSE "failed"
                     [] OTHER -> CASE cli.op = "install" -> "installed"
                                   [] cli.op = "update"  -> "updated"
                                   [] cli.op = "restart" -> "restarted"
                                   [] OTHER              -> "started"
  BY DEF StartStep, Ends
<1>c. /\ cli.at = "start" /\ cli' = Idle
      /\ UNCHANGED <<machine, files>>
  BY DEF StartStep, Ends
<1>d. /\ said' \in {"failed", "not_started", "installed", "updated", "restarted", "started"}
      /\ said' \in {"not_started", "installed"} => cli.op = "install"
  BY <1>b
<1>e. /\ job' \in BOOLEAN /\ service' \in Runnable \cup {"none"} /\ pidfile' \in PidFiles
      /\ UNCHANGED process \/ (unit /\ platform # "stub")
      /\ platform = "sysv" => ~job' /\ (service' # "none" => pidfile' = "own" /\ binary # "none")
  BY <1>b, StartEffect
<1>1. TypeOK'
  <2>1. said' \in Words
    BY <1>d DEF Words
  <2>2. Typed'
    BY <1>a, <1>c, <1>e, <2>1, IdleState DEF Typed, machine, files
  <2> QED BY <2>2, TypedParts
<1>3. Unregistered'
  BY <1>c, <1>e DEF ServiceInv, Unregistered, machine, files, process
<1>4. SysvInv'
  BY <1>c, <1>e, IdleState DEF SysvInv, machine, files
<1>5. InstallInv'
  BY <1>c, IdleState DEF InstallInv
<1>6. UninstallInv'
  BY <1>c, IdleState DEF UninstallInv
<1>7. ManualInv'
  BY <1>c, IdleState DEF ManualInv
<1>8. UpdateInv'
  BY <1>c, IdleState DEF UpdateInv
<1>9. SaidInv'
  BY <1>c, <1>d, IdleState DEF ServiceInv, InstallInv, SaidInv, SetToStart, machine, files
<1> QED BY <1>1, <1>3, <1>4, <1>5, <1>6, <1>7, <1>8, <1>9 DEF ServiceInv

-----------------------------------------------------------------------------
(* Stopping the service.                                                    *)

\* stop_service: the process ends or stays as it is, on systemd for good.  An init
\* script that is there with its binary stops the process its pid file names.
LEMMA StopEffect ==
  ASSUME Typed, NEW ok \in BOOLEAN, StopService(ok)
  PROVE  /\ job' \in BOOLEAN /\ (job' => job)
         /\ service' \in {"none", service}
         /\ pidfile' \in {"none", pidfile}
         /\ service' # "none" => pidfile' = pidfile \/ (platform = "sysv" /\ pidfile # "own")
         /\ ok /\ platform = "systemd" => service' = "none" /\ ~job'
         /\ platform = "sysv" /\ unit /\ binary # "none" /\ pidfile = "own" => service' = "none"
<1>1. job' \in BOOLEAN /\ (job' => job)
  BY DEF StopService, Ended, process, Typed
<1>2. service' \in {"none", service} /\ pidfile' \in {"none", pidfile}
  BY DEF StopService, Ended, process
<1>3. service' # "none" => pidfile' = pidfile \/ (platform = "sysv" /\ pidfile # "own")
  BY DEF StopService, Ended, process
<1>4. ok /\ platform = "systemd" => service' = "none" /\ ~job'
  BY DEF StopService, Ended, KeepsJob
<1>5. platform = "sysv" /\ unit /\ binary # "none" /\ pidfile = "own" => service' = "none"
  BY DEF StopService, HasUnit, Ended
<1> QED BY <1>1, <1>2, <1>3, <1>4, <1>5

\* The stop of an uninstall, an update, a restart or the switch to manual mode: what
\* it leaves and where the operation goes on.
LEMMA StopDoes ==
  ASSUME Typed, StopStep
  PROVE  \E ok \in BOOLEAN :
           /\ StopService(ok)
           /\ cli.at = "stop" /\ cli' \in CliState /\ UNCHANGED <<machine, files>>
           /\ \/ cli' = Idle /\ said' = "failed"
              \/ /\ cli'.op = cli.op /\ said' = said
                 /\ \/ cli.op = "uninstall" /\ cli'.at = "remove"
                    \/ cli.op = "update" /\ ok /\ cli'.at = "copy"
                    \/ cli.op = "restart" /\ ok /\ cli'.at = "start"
                    \/ cli.op # "update" /\ ok /\ cli'.at = "check"
<1>1. PICK ok \in BOOLEAN :
        /\ StopService(ok)
        /\ CASE cli.op = "uninstall"
                  -> cli' = [cli EXCEPT !.at = "remove", !.ok = ok] /\ UNCHANGED said
             [] cli.op # "uninstall" /\ ~ok -> Ends("failed")
             [] OTHER -> GoesTo(CASE cli.op = "update"  -> "copy"
                                  [] cli.op = "restart" -> "start"
                                  [] OTHER              -> "check")
  BY DEF StopStep
<1>2. cli.at = "stop" /\ cli \in CliState /\ UNCHANGED <<machine, files>>
  BY DEF StopStep, Typed
<1>3. CASE cli.op = "uninstall"
  <2>1. cli' = [cli EXCEPT !.at = "remove", !.ok = ok] /\ said' = said
    BY <1>1, <1>3
  <2>2. cli' \in CliState /\ cli'.op = cli.op /\ cli'.at = "remove"
    BY <1>2, <2>1 DEF CliState, CliSteps
  <2> QED BY <1>1, <1>2, <1>3, <2>1, <2>2
<1>4. CASE cli.op # "uninstall" /\ ~ok
  <2>1. cli' = Idle /\ said' = "failed"
    BY <1>1, <1>4 DEF Ends
  <2> QED BY <1>1, <1>2, <2>1, IdleState
<1>5. CASE cli.op # "uninstall" /\ ok
  <2> DEFINE at == CASE cli.op = "update"  -> "copy"
                     [] cli.op = "restart" -> "start"
                     [] OTHER              -> "check"
  <2>1. GoesTo(at) /\ at \in CliSteps
    BY <1>1, <1>5 DEF CliSteps
  <2>2. cli' \in CliState /\ said' = said /\ cli'.op = cli.op /\ cli'.at = at
    BY <1>2, <2>1, Going
  <2> QED BY <1>1, <1>2, <1>5, <2>2
<1> QED BY <1>3, <1>4, <1>5

\* A stop keeps the invariant: before an uninstall goes on the init script has ended
\* its process, or there was none.
LEMMA StopKeeps ==
  ASSUME ServiceInv, StopStep
  PROVE  ServiceInv'
<1>a. Typed
  BY TypedParts DEF ServiceInv
<1>b. PICK ok \in BOOLEAN :
           /\ StopService(ok)
           /\ cli.at = "stop" /\ cli' \in CliState /\ UNCHANGED <<machine, files>>
           /\ \/ cli' = Idle /\ said' = "failed"
              \/ /\ cli'.op = cli.op /\ said' = said
                 /\ \/ cli.op = "uninstall" /\ cli'.at = "remove"
                    \/ cli.op = "update" /\ ok /\ cli'.at = "copy"
                    \/ cli.op = "restart" /\ ok /\ cli'.at = "start"
                    \/ cli.op # "update" /\ ok /\ cli'.at = "check"
  BY <1>a, StopDoes
<1>c. /\ platform' = platform /\ tools' = tools
      /\ binary' = binary /\ unit' = unit /\ starts' = starts /\ config' = config
  BY <1>b DEF machine, files
<1>d. /\ job' \in BOOLEAN /\ (job' => job)
      /\ service' \in {"none", service}
      /\ pidfile' \in {"none", pidfile}
      /\ service' # "none" => pidfile' = pidfile \/ (platform = "sysv" /\ pidfile # "own")
      /\ ok /\ platform = "systemd" => service' = "none" /\ ~job'
      /\ platform = "sysv" /\ unit /\ binary # "none" /\ pidfile = "own" => service' = "none"
  BY <1>a, <1>b, StopEffect
<1>1. TypeOK'
  <2>1. said' \in Words
    BY <1>a, <1>b DEF Typed, Words
  <2>2. service' \in Runnable \cup {"none"} /\ pidfile' \in PidFiles
    BY <1>a, <1>d DEF Typed, PidFiles
  <2>3. Typed'
    BY <1>a, <1>b, <1>c, <1>d, <2>1, <2>2 DEF Typed
  <2> QED BY <2>3, TypedParts
<1>3. Unregistered'
  BY <1>a, <1>c, <1>d DEF ServiceInv, Unregistered
<1>4. SysvInv'
  <2> SUFFICES ASSUME platform = "sysv" PROVE SysvInv'
    BY <1>c DEF SysvInv
  <2>1. ~job' /\ (service' # "none" => service = service' /\ pidfile = "own" /\ binary # "none")
    BY <1>d DEF ServiceInv, SysvInv
  <2>2. service' # "none" => pidfile' = "own"
    BY <1>d, <2>1
  <2>3. service' # "none" => ~unit
    BY <1>d, <2>1
  <2>4. service' = "none"
    BY <2>1, <2>3 DEF ServiceInv, Unregistered
  <2> QED BY <2>1, <2>4 DEF SysvInv
<1>5. InstallInv'
  BY <1>b, IdleState DEF InstallInv
<1>6. UninstallInv'
  BY <1>b, IdleState DEF UninstallInv
<1>7. ManualInv'
  BY <1>b, <1>c, <1>d, IdleState DEF ManualInv
<1>8. UpdateInv'
  BY <1>b, <1>c, IdleState DEF ServiceInv, UpdateInv
<1>9. SaidInv'
  BY <1>b, <1>c, IdleState DEF ServiceInv, SaidInv
<1> QED BY <1>1, <1>3, <1>4, <1>5, <1>6, <1>7, <1>8, <1>9 DEF ServiceInv

-----------------------------------------------------------------------------
(* An uninstall.                                                            *)

\* uninstall_service_impl: what it leaves of the unit file, the places and the process.
LEMMA RemoveDoes ==
  ASSUME Typed, RemoveUnit
  PROVE  /\ cli.at = "remove" /\ cli' \in CliState /\ UNCHANGED <<machine, binary, config>>
         /\ cli'.op = cli.op /\ cli'.at = "binary" /\ said' = said
         /\ unit' \in BOOLEAN /\ (cli'.ok => ~unit') /\ (unit' => unit)
         /\ starts' \subseteq starts
         /\ job' \in BOOLEAN /\ (job' => job) /\ service' \in {"none", service}
         /\ pidfile' \in {"none", pidfile}
<1>1. cli.at = "remove" /\ cli \in CliState /\ UNCHANGED <<machine, binary, config>>
  BY DEF RemoveUnit, Typed
<1>2. CASE ~unit
  <2>1. /\ Went(TRUE, "binary") /\ starts' \subseteq starts
        /\ pidfile' = IF HasPidFile THEN "none" ELSE pidfile
        /\ UNCHANGED <<unit, job, service>>
    BY <1>2 DEF RemoveUnit
  <2>2. cli' \in CliState /\ cli'.op = cli.op /\ cli'.at = "binary" /\ said' = said
    BY <1>1, <2>1, GoingOn DEF CliSteps
  <2>3. job' \in BOOLEAN /\ unit' \in BOOLEAN /\ ~unit'
    BY <1>2, <2>1 DEF Typed
  <2> QED BY <1>1, <1>2, <2>1, <2>2, <2>3
<1>3. CASE unit
  <2>1. PICK ok \in BOOLEAN, left \in SUBSET starts :
          /\ starts' = IF platform = "launchd" /\ ok THEN {} ELSE left
          /\ Went(ok, "binary") /\ unit' = ~ok
          /\ IF HasPidFile
             THEN pidfile' = (IF ok THEN "none" ELSE pidfile) /\ UNCHANGED <<job, service>>
             ELSE Ended(FALSE) \/ ("quiet_stop" \in Fails /\ UNCHANGED process)
    BY <1>3 DEF RemoveUnit
  <2>2. starts' \subseteq starts
    BY <2>1
  <2>3. /\ cli' \in CliState /\ cli'.op = cli.op /\ cli'.at = "binary" /\ said' = said
        /\ cli'.ok = (cli.ok /\ ok)
    BY <1>1, <2>1, GoingOn DEF CliSteps
  <2>4. unit' \in BOOLEAN /\ (cli'.ok => ~unit')
    BY <2>1, <2>3
  <2>5. job' \in BOOLEAN /\ (job' => job)
    BY <2>1 DEF Ended, process, Typed
  <2>6. service' \in {"none", service} /\ pidfile' \in {"none", pidfile}
    BY <2>1 DEF Ended, process
  <2> QED BY <1>1, <1>3, <2>2, <2>3, <2>4, <2>5, <2>6
<1> QED BY <1>2, <1>3 DEF Typed

\* The removal of the unit file keeps the invariant: an init script is gone only with
\* the process it started.
LEMMA RemoveUnitKeeps ==
  ASSUME ServiceInv, RemoveUnit
  PROVE  ServiceInv'
<1>a. Typed
  BY TypedParts DEF ServiceInv
<1>b. /\ cli.at = "remove" /\ cli' \in CliState
      /\ cli'.op = cli.op /\ cli'.at = "binary" /\ said' = said
      /\ cli'.ok => ~unit'
  BY <1>a, RemoveDoes
<1>c. platform' = platform /\ tools' = tools /\ binary' = binary /\ config' = config
  BY <1>a, RemoveDoes DEF machine
<1>d. /\ unit' \in BOOLEAN /\ (unit' => unit)
      /\ starts' \subseteq starts
      /\ job' \in BOOLEAN /\ (job' => job) /\ service' \in {"none", service}
      /\ pidfile' \in {"none", pidfile}
  BY <1>a, RemoveDoes
<1>1. TypeOK'
  <2>1. service' \in Runnable \cup {"none"} /\ pidfile' \in PidFiles /\ starts' \subseteq Places
    BY <1>a, <1>d DEF Typed, PidFiles
  <2>2. Typed'
    BY <1>a, <1>b, <1>c, <1>d, <2>1 DEF Typed
  <2> QED BY <2>2, TypedParts
<1>3. Unregistered'
  BY <1>b, <1>c, <1>d DEF ServiceInv, SysvInv, Unregistered
<1>4. SysvInv'
  BY <1>b, <1>c, <1>d DEF ServiceInv, SysvInv
<1>5. InstallInv'
  BY <1>b DEF InstallInv
<1>6. UninstallInv'
  BY <1>b DEF UninstallInv
<1>7. ManualInv'
  BY <1>b DEF ManualInv
<1>8. UpdateInv'
  BY <1>b, <1>c DEF ServiceInv, UpdateInv
<1>9. SaidInv'
  BY <1>b, IdleState DEF ServiceInv, SaidInv
<1> QED BY <1>1, <1>3, <1>4, <1>5, <1>6, <1>7, <1>8, <1>9 DEF ServiceInv

\* The status an uninstall starts with: without a unit file nothing is stopped, and
\* nothing has to be.
LEMMA UninstallStatusKeeps ==
  ASSUME ServiceInv, UninstallStatus
  PROVE  ServiceInv'
<1>a. Typed
  BY TypedParts DEF ServiceInv
<1>b. /\ cli.at = "status" /\ cli.op = "uninstall"
      /\ UNCHANGED <<machine, files, process>>
      /\ GoesTo(IF Status = "running" THEN "stop" ELSE "remove")
  BY DEF UninstallStatus, ServiceInv, UninstallInv
<1>c. /\ cli' \in CliState /\ cli'.op = "uninstall" /\ said' = said
      /\ cli'.at = IF Status = "running" THEN "stop" ELSE "remove"
  BY <1>a, <1>b, Going DEF Typed, CliSteps
<1>1. TypeOK'
  <2>1. Typed'
    BY <1>a, <1>b, <1>c DEF Typed, machine, files, process
  <2> QED BY <2>1, TypedParts
<1>3. Unregistered'
  BY <1>b DEF ServiceInv, Unregistered, machine, files, process
<1>4. SysvInv'
  <2>1. platform = "sysv" /\ cli'.at = "remove" => service = "none"
    BY <1>c DEF Status, HasPidFile, ServiceInv, Unregistered
  <2> QED BY <1>b, <1>c, <2>1 DEF ServiceInv, SysvInv, machine, files, process
<1>5. InstallInv'
  BY <1>c DEF InstallInv
<1>6. UninstallInv'
  BY <1>c DEF UninstallInv
<1>7. ManualInv'
  BY <1>c DEF ManualInv
<1>8. UpdateInv'
  BY <1>c DEF UpdateInv
<1>9. SaidInv'
  BY <1>b, <1>c, IdleState DEF ServiceInv, SaidInv
<1> QED BY <1>1, <1>3, <1>4, <1>5, <1>6, <1>7, <1>8, <1>9 DEF ServiceInv

\* The removal of the binary keeps the invariant.
LEMMA RemoveBinaryKeeps ==
  ASSUME ServiceInv, RemoveBinary
  PROVE  ServiceInv'
<1>a. Typed
  BY TypedParts DEF ServiceInv
<1>b. PICK ok \in BOOLEAN :
        /\ binary' = IF ok THEN "none" ELSE binary
        /\ Went(ok, "config")
  BY DEF RemoveBinary
<1>c. cli.at = "binary" /\ UNCHANGED <<machine, process, unit, starts, config>>
  BY DEF RemoveBinary
<1>d. /\ cli' \in CliState /\ cli'.op = cli.op /\ cli'.at = "config" /\ said' = said
      /\ cli'.ok => cli.ok /\ binary' = "none"
  BY <1>a, <1>b, GoingOn DEF Typed, CliSteps
<1>1. TypeOK'
  <2>1. binary' \in Binaries
    BY <1>a, <1>b DEF Typed, Binaries
  <2>2. Typed'
    BY <1>a, <1>c, <1>d, <2>1 DEF Typed, machine, process
  <2> QED BY <2>2, TypedParts
<1>3. Unregistered'
  BY <1>c DEF ServiceInv, Unregistered, machine, process
<1>4. SysvInv'
  BY <1>c, <1>d DEF ServiceInv, SysvInv, machine, process
<1>5. InstallInv'
  BY <1>d DEF InstallInv
<1>6. UninstallInv'
  BY <1>c, <1>d DEF ServiceInv, UninstallInv
<1>7. ManualInv'
  BY <1>d DEF ManualInv
<1>8. UpdateInv'
  BY <1>c, <1>d DEF ServiceInv, UpdateInv, machine
<1>9. SaidInv'
  BY <1>c, <1>d, IdleState DEF ServiceInv, SaidInv
<1> QED BY <1>1, <1>3, <1>4, <1>5, <1>6, <1>7, <1>8, <1>9 DEF ServiceInv

\* "ThinRemote has been completely uninstalled" comes last, after every step that met
\* no error.
LEMMA RemoveConfigKeeps ==
  ASSUME ServiceInv, RemoveConfig
  PROVE  ServiceInv'
<1>a. Typed
  BY TypedParts DEF ServiceInv
<1>b. PICK ok \in BOOLEAN :
        /\ config' = (config /\ ~ok)
        /\ said' = IF cli.ok /\ ok THEN "uninstalled" ELSE "errors"
  BY DEF RemoveConfig, Ends
<1>c. /\ cli.at = "config" /\ cli' = Idle
      /\ UNCHANGED <<machine, process, binary, unit, starts>>
  BY DEF RemoveConfig, Ends
<1>1. TypeOK'
  <2>1. config' \in BOOLEAN
    BY <1>b
  <2>2. said' \in Words
    BY <1>b DEF Words
  <2>3. Typed'
    BY <1>a, <1>c, <2>1, <2>2, IdleState DEF Typed, machine, process
  <2> QED BY <2>3, TypedParts
<1>3. Unregistered'
  BY <1>c DEF ServiceInv, Unregistered, machine, process
<1>4. SysvInv'
  BY <1>c, IdleState DEF ServiceInv, SysvInv, machine, process
<1>5. InstallInv'
  BY <1>c, IdleState DEF InstallInv
<1>6. UninstallInv'
  BY <1>c, IdleState DEF UninstallInv
<1>7. ManualInv'
  BY <1>c, IdleState DEF ManualInv
<1>8. UpdateInv'
  BY <1>c, IdleState DEF UpdateInv
<1>9. SaidInv'
  <2>1. said' = "uninstalled" => binary' = "none" /\ ~unit' /\ ~config'
    BY <1>b, <1>c DEF ServiceInv, UninstallInv
  <2>2. said' \in {"uninstalled", "errors"}
    BY <1>b
  <2> QED BY <1>c, <2>1, <2>2 DEF SaidInv
<1> QED BY <1>1, <1>3, <1>4, <1>5, <1>6, <1>7, <1>8, <1>9 DEF ServiceInv

-----------------------------------------------------------------------------
(* The terminal.                                                            *)

\* The command line goes on as the agent a second after the stop.
LEMMA CheckKeeps ==
  ASSUME ServiceInv, CheckStopped
  PROVE  ServiceInv'
<1>a. Typed
  BY TypedParts DEF ServiceInv
<1>b. /\ cli.at = "check" /\ said' \in {"maybe", "alone"}
      /\ UNCHANGED <<machine, files, process>>
      /\ cli' = [cli EXCEPT !.at = "manual"]
  BY DEF CheckStopped
<1>c. cli' \in CliState /\ cli'.at = "manual"
  BY <1>a, <1>b DEF Typed, CliState, CliSteps
<1>1. TypeOK'
  <2>1. said' \in Words
    BY <1>b DEF Words
  <2>2. Typed'
    BY <1>a, <1>b, <1>c, <2>1 DEF Typed, machine, files, process
  <2> QED BY <2>2, TypedParts
<1>3. Unregistered'
  BY <1>b DEF ServiceInv, Unregistered, machine, files, process
<1>4. SysvInv'
  BY <1>b, <1>c DEF ServiceInv, SysvInv, machine, files, process
<1>5. InstallInv'
  BY <1>c DEF InstallInv
<1>6. UninstallInv'
  BY <1>c DEF UninstallInv
<1>7. ManualInv'
  BY <1>b DEF ServiceInv, ManualInv, machine, process
<1>8. UpdateInv'
  <2>1. cli'.op = cli.op
    BY <1>a, <1>b DEF Typed, CliState
  <2> QED BY <1>b, <1>c, <2>1 DEF ServiceInv, UpdateInv, machine
<1>9. SaidInv'
  BY <1>b, <1>c DEF SaidInv
<1> QED BY <1>1, <1>3, <1>4, <1>5, <1>6, <1>7, <1>8, <1>9 DEF ServiceInv

\* The agent in the terminal ends.
LEMMA QuitKeeps ==
  ASSUME ServiceInv, QuitManual
  PROVE  ServiceInv'
<1>a. Typed
  BY TypedParts DEF ServiceInv
<1>b. cli' = Idle /\ said' = "none" /\ UNCHANGED <<machine, files, process>>
  BY DEF QuitManual, Ends
<1>1. TypeOK'
  <2>1. said' \in Words
    BY <1>b DEF Words
  <2>2. Typed'
    BY <1>a, <1>b, <2>1, IdleState DEF Typed, machine, files, process
  <2> QED BY <2>2, TypedParts
<1>3. Unregistered'
  BY <1>b DEF ServiceInv, Unregistered, machine, files, process
<1>4. SysvInv'
  BY <1>b, IdleState DEF ServiceInv, SysvInv, machine, files, process
<1>5. InstallInv'
  BY <1>b, IdleState DEF InstallInv
<1>6. UninstallInv'
  BY <1>b, IdleState DEF UninstallInv
<1>7. ManualInv'
  BY <1>b, IdleState DEF ManualInv
<1>8. UpdateInv'
  BY <1>b, IdleState DEF UpdateInv
<1>9. SaidInv'
  BY <1>b DEF SaidInv
<1> QED BY <1>1, <1>3, <1>4, <1>5, <1>6, <1>7, <1>8, <1>9 DEF ServiceInv

-----------------------------------------------------------------------------
(* What happens meanwhile, and new operations.                              *)

\* A step that only touches the process keeps the invariant if the process may do so.
LEMMA ProcessKeeps ==
  ASSUME ServiceInv, UNCHANGED <<machine, files, cli, said>>,
         job' \in BOOLEAN, service' \in Runnable \cup {"none"}, pidfile' \in PidFiles,
         platform = "sysv" => (service' # "none" => service' = service /\ pidfile' = "own"),
         job' => job,
         service' = "none" \/ service' = service \/ (job /\ service' = binary)
  PROVE  ServiceInv'
<1>a. Typed
  BY TypedParts DEF ServiceInv
<1>b. /\ platform' = platform /\ tools' = tools /\ cli' = cli /\ said' = said
      /\ binary' = binary /\ unit' = unit /\ starts' = starts /\ config' = config
  BY DEF machine, files
<1>1. TypeOK'
  <2>1. Typed'
    BY <1>a, <1>b DEF Typed
  <2> QED BY <2>1, TypedParts
<1>3. Unregistered'
  BY <1>b DEF ServiceInv, Unregistered
<1>4. SysvInv'
  BY <1>b DEF ServiceInv, SysvInv
<1>5. InstallInv'
  BY <1>b DEF ServiceInv, InstallInv, SetToStart
<1>6. UninstallInv'
  BY <1>b DEF ServiceInv, UninstallInv
<1>7. ManualInv'
  BY <1>b DEF ServiceInv, ManualInv
<1>8. UpdateInv'
  BY <1>b DEF ServiceInv, UpdateInv
<1>9. SaidInv'
  BY <1>b DEF ServiceInv, SaidInv, SetToStart
<1> QED BY <1>1, <1>3, <1>4, <1>5, <1>6, <1>7, <1>8, <1>9 DEF ServiceInv

\* The process exits, its init system starts it again or gives up, its pid goes to
\* another one.
LEMMA MeanwhileKeeps ==
  ASSUME ServiceInv, Exit \/ Respawn \/ GiveUp \/ ReusePid
  PROVE  ServiceInv'
<1>a. Typed
  BY TypedParts DEF ServiceInv
<1>1. CASE Exit
  <2>1. job' \in BOOLEAN /\ job' = job
    BY <1>1, <1>a DEF Exit, Typed
  <2>2. service' = "none" /\ pidfile' \in PidFiles
    BY <1>1, <1>a DEF Exit, Typed, PidFiles
  <2> QED BY <1>1, <2>1, <2>2, ProcessKeeps DEF Exit, ServiceInv, SysvInv
<1>2. CASE Respawn
  <2>1. platform # "sysv"
    BY <1>2 DEF Respawn, ServiceInv, SysvInv
  <2>2. job /\ service = "none" /\ binary \in Runnable /\ Launch
    BY <1>2 DEF Respawn
  <2>3. /\ job' \in BOOLEAN /\ service' \in Runnable \cup {"none"} /\ pidfile' \in PidFiles
        /\ service' = binary
    BY <1>a, <2>2, LaunchEffect
  <2> QED BY <1>2, <2>1, <2>2, <2>3, ProcessKeeps DEF Respawn
<1>3. CASE ReusePid
  <2>1. pidfile = "stale" /\ pidfile' \in PidFiles /\ job' = job /\ service' = service
    BY <1>3 DEF ReusePid, PidFiles
  <2>2. job' \in BOOLEAN
    BY <1>a, <2>1 DEF Typed
  <2>3. platform = "sysv" => service' = "none"
    BY <2>1 DEF ServiceInv, SysvInv
  <2> QED BY <1>3, <1>a, <2>1, <2>2, <2>3, ProcessKeeps DEF ReusePid, Typed
<1>4. CASE GiveUp
  <2>1. platform # "sysv" /\ job' = FALSE /\ service' = service /\ pidfile' = pidfile
    BY <1>4 DEF GiveUp
  <2>2. job' \in BOOLEAN
    BY <2>1
  <2> QED BY <1>4, <1>a, <2>1, <2>2, ProcessKeeps DEF GiveUp, Typed
<1> QED BY <1>1, <1>2, <1>3, <1>4

\* A reboot ends the operation that was under way; the service runs afterwards only if
\* its unit file is there.
LEMMA RebootKeeps ==
  ASSUME ServiceInv, Reboot
  PROVE  ServiceInv'
<1>a. Typed
  BY TypedParts DEF ServiceInv
<1>b. /\ cli' = Idle /\ said' = IF cli = Idle THEN said ELSE "none"
      /\ UNCHANGED <<machine, files>>
  BY DEF Reboot
<1>c. PICK left \in PidFiles :
        \E runs \in BOOLEAN :
          /\ runs => unit /\ (platform = "sysv" => binary # "none")
          /\ job' = (runs /\ Restarts)
          /\ service' = IF runs THEN Run(binary) ELSE "none"
          /\ pidfile' = IF ~HasPidFile \/ ~runs THEN left
                        ELSE IF service' = "none" THEN "stale" ELSE "own"
  <2>1. PICK left \in {"none"} \cup (IF pidfile = "none" THEN {}
                                   ELSE IF PidReuse THEN {"stale", "alien"} ELSE {"stale"}) :
          LET runs == /\ unit /\ starts # {}
                      /\ platform = "sysv" => left # "alien" /\ binary # "none" IN
            /\ job' = (runs /\ Restarts)
            /\ service' = IF runs THEN Run(binary) ELSE "none"
            /\ pidfile' = IF ~HasPidFile \/ ~runs THEN left
                          ELSE IF service' = "none" THEN "stale" ELSE "own"
    BY DEF Reboot
  <2>2. left \in PidFiles
    BY DEF PidFiles
  <2> QED BY <2>1, <2>2
<1>d. PICK runs \in BOOLEAN :
        /\ runs => unit /\ (platform = "sysv" => binary # "none")
        /\ job' = (runs /\ Restarts)
        /\ service' = IF runs THEN Run(binary) ELSE "none"
        /\ pidfile' = IF ~HasPidFile \/ ~runs THEN left
                      ELSE IF service' = "none" THEN "stale" ELSE "own"
  BY <1>c
<1>e. /\ service' \in Runnable \cup {"none"} /\ pidfile' \in PidFiles
      /\ service' # "none" => unit
      /\ platform = "sysv" /\ service' # "none" => pidfile' = "own" /\ binary # "none"
  BY <1>d DEF Run, HasPidFile, PidFiles
<1>f. job' \in BOOLEAN /\ (job' => unit) /\ (platform = "sysv" => ~job')
  BY <1>d DEF Restarts
<1>g. said' \in {said, "none"} /\ (said' # "none" => cli = Idle)
  BY <1>b
<1>1. TypeOK'
  <2>1. said' \in Words
    BY <1>a, <1>b DEF Typed, Words
  <2>2. Typed'
    BY <1>a, <1>b, <1>e, <1>f, <2>1, IdleState DEF Typed, machine, files
  <2> QED BY <2>2, TypedParts
<1>3. Unregistered'
  BY <1>b, <1>e, <1>f DEF ServiceInv, Unregistered, machine, files
<1>4. SysvInv'
  BY <1>b, <1>e, <1>f, IdleState DEF SysvInv, machine, files
<1>5. InstallInv'
  BY <1>b, IdleState DEF InstallInv
<1>6. UninstallInv'
  BY <1>b, IdleState DEF UninstallInv
<1>7. ManualInv'
  BY <1>b, IdleState DEF ManualInv
<1>8. UpdateInv'
  BY <1>b, IdleState DEF UpdateInv
<1>9. SaidInv'
  BY <1>b, <1>g, IdleState DEF ServiceInv, SaidInv, SetToStart, machine, files
<1> QED BY <1>1, <1>3, <1>4, <1>5, <1>6, <1>7, <1>8, <1>9 DEF ServiceInv

\* An operation that begins forgets what the last one said, and changes nothing else.
LEMMA BeginKeeps ==
  ASSUME ServiceInv, cli = Idle, UNCHANGED <<machine, process, binary, unit, starts>>,
         config' \in BOOLEAN, said' \in {"none", "direct"},
         NEW op \in Operations, NEW at \in {"copy", "stop", "start", "status", "manual"},
         cli' = [op |-> op, at |-> at, ok |-> TRUE],
         op = "update" => at = "stop" /\ binary = "old" /\ platform # "stub",
         op = "install" => at = "copy", at = "status" => op = "uninstall"
  PROVE  ServiceInv'
<1>a. Typed
  BY TypedParts DEF ServiceInv
<1>b. cli' \in CliState /\ cli'.op = op /\ cli'.at = at
  BY DEF CliState, CliSteps
<1>1. TypeOK'
  <2>1. said' \in Words
    BY DEF Words
  <2>2. Typed'
    BY <1>a, <1>b, <2>1 DEF Typed, machine, process
  <2> QED BY <2>2, TypedParts
<1>3. Unregistered'
  BY DEF ServiceInv, Unregistered, machine, process
<1>4. SysvInv'
  BY <1>b DEF ServiceInv, SysvInv, machine, process
<1>5. InstallInv'
  BY <1>b DEF InstallInv
<1>6. UninstallInv'
  BY <1>b DEF UninstallInv
<1>7. ManualInv'
  BY <1>b DEF ManualInv
<1>8. UpdateInv'
  BY <1>b DEF UpdateInv, machine
<1>9. SaidInv'
  BY <1>b DEF SaidInv
<1> QED BY <1>1, <1>3, <1>4, <1>5, <1>6, <1>7, <1>8, <1>9 DEF ServiceInv

\* Every operation begins with the command line idle; an update with the old binary
\* of a service that runs.
LEMMA CommandKeeps ==
  ASSUME ServiceInv, Command
  PROVE  ServiceInv'
<1>a. Typed
  BY TypedParts DEF ServiceInv
<1>b. config \in BOOLEAN
  BY <1>a DEF Typed
<1> USE DEF Operations
<1>1. CASE Install
  <2>1. config' \in BOOLEAN
    BY <1>1 DEF Install
  <2> QED BY <1>1, <2>1, BeginKeeps DEF Install, Begin
<1>2. CASE Update
  BY <1>2, <1>b, BeginKeeps DEF Update, Begin, Status
<1>3. CASE Restart
  BY <1>3, <1>b, BeginKeeps DEF Restart, Begin
<1>4. CASE StopAndRun
  BY <1>4, <1>b, BeginKeeps DEF StopAndRun, Begin
<1>5. CASE Start
  BY <1>5, <1>b, BeginKeeps DEF Start, Begin
<1>6. CASE RunManually
  BY <1>6, <1>b, BeginKeeps DEF RunManually, files
<1>7. CASE Uninstall
  BY <1>7, <1>b, BeginKeeps DEF Uninstall, Begin
<1> QED BY <1>1, <1>2, <1>3, <1>4, <1>5, <1>6, <1>7 DEF Command

-----------------------------------------------------------------------------
(* Theorems.                                                                *)

\* A machine without an installation, or with one that an older release made.
LEMMA InitHolds == Init => ServiceInv
<1> SUFFICES ASSUME Init PROVE ServiceInv
  OBVIOUS
<1>0. /\ platform \in Platforms /\ tools \in ToolSets /\ cli = Idle /\ said = "none"
      /\ tools \in SUBSET Tools
  <2>1. platform \in Platforms /\ cli = Idle /\ said = "none"
    BY DEF Init
  <2>2. tools \in ToolSets
    BY ServiceAssumption DEF Init
  <2> QED BY <2>1, <2>2, ServiceAssumption
<1>1. InstallInv /\ UninstallInv /\ ManualInv /\ UpdateInv /\ SaidInv
  BY <1>0, IdleState DEF InstallInv, UninstallInv, ManualInv, UpdateInv, SaidInv
<1>2. CASE binary = "none" /\ service = "none" /\ unit = FALSE /\ config = FALSE
             /\ job = FALSE /\ pidfile = "none" /\ starts = {}
  <2>1. Typed
    BY <1>0, <1>2, IdleState DEF Typed, Binaries, PidFiles, Words
  <2>2. Unregistered /\ SysvInv
    BY <1>2 DEF Unregistered, SysvInv
  <2> QED BY <1>1, <2>1, <2>2, TypedParts DEF ServiceInv
<1>3. CASE /\ platform # "stub"
           /\ binary = "old" /\ service = "old" /\ unit = TRUE /\ config = TRUE
           /\ job = Restarts /\ pidfile = IF HasPidFile THEN "own" ELSE "none"
           /\ \E outcome \in EnableOutcomes({}) : outcome.ok /\ starts = outcome.starts
  <2>1. PICK outcome \in EnableOutcomes({}) : starts = outcome.starts
    BY <1>3
  <2>2. starts \in SUBSET Places
    BY <1>0, <2>1, EnableEffect
  <2>3. job \in BOOLEAN /\ (platform = "sysv" => ~job /\ pidfile = "own")
    <3>1. job \in BOOLEAN
      BY <1>3 DEF Restarts
    <3>2. platform = "sysv" => ~job
      BY <1>3 DEF Restarts
    <3>3. platform = "sysv" => pidfile = "own"
      BY <1>3 DEF HasPidFile
    <3> QED BY <3>1, <3>2, <3>3
  <2>4. Typed
    <3>1. pidfile \in PidFiles
      BY <1>3 DEF PidFiles
    <3>2. binary \in Binaries /\ service \in Runnable /\ unit \in BOOLEAN /\ config \in BOOLEAN
      BY <1>3 DEF Binaries, Runnable
    <3> QED BY <1>0, <2>2, <2>3, <3>1, <3>2, IdleState DEF Typed, Words
  <2>5. Unregistered
    BY <1>3 DEF Unregistered
  <2>6. SysvInv
    BY <1>0, <1>3, <2>3, IdleState DEF SysvInv
  <2> QED BY <1>1, <2>4, <2>5, <2>6, TypedParts DEF ServiceInv
<1> QED BY <1>2, <1>3 DEF Init

\* No step changes anything.
LEMMA StutterKeeps ==
  ASSUME ServiceInv, UNCHANGED vars
  PROVE  ServiceInv'
<1>1. UNCHANGED <<machine, files, cli, said>> /\ UNCHANGED process
  BY DEF vars
<1>2. job' \in BOOLEAN /\ service' \in Runnable \cup {"none"} /\ pidfile' \in PidFiles
  BY <1>1, TypedParts DEF ServiceInv, Typed, process
<1>3. platform = "sysv" /\ service # "none" => pidfile = "own"
  BY DEF ServiceInv, SysvInv
<1> QED BY <1>1, <1>2, <1>3, ProcessKeeps DEF process

\* The invariant is inductive: every step of the command line, of the process, of its
\* init system and of the machine keeps it.
LEMMA StepKeeps == ServiceInv /\ [Next]_vars => ServiceInv'
<1> SUFFICES ASSUME ServiceInv, [Next]_vars PROVE ServiceInv'
  OBVIOUS
<1>1. CASE Command
  BY <1>1, CommandKeeps
<1>2. CASE CliStep
  BY <1>2, CopyKeeps, WriteUnitKeeps, EnableKeeps, SkipStartKeeps, StartKeeps, StopKeeps,
     CheckKeeps, UninstallStatusKeeps, RemoveUnitKeeps, RemoveBinaryKeeps, RemoveConfigKeeps
     DEF CliStep
<1>3. CASE QuitManual
  BY <1>3, QuitKeeps
<1>4. CASE Exit \/ Respawn \/ GiveUp \/ ReusePid
  BY <1>4, MeanwhileKeeps
<1>5. CASE Reboot
  BY <1>5, RebootKeeps
<1>6. CASE UNCHANGED vars
  BY <1>6, StutterKeeps
<1> QED BY <1>1, <1>2, <1>3, <1>4, <1>5, <1>6 DEF Next

\* The invariant holds in every reachable state, on every machine.
LEMMA ServiceInvariant == Spec => []ServiceInv
BY InitHolds, StepKeeps, PTL DEF Spec

\* Every variable keeps its type, for any init systems, enabling tools and failures.
THEOREM ServiceTypeCorrect == Spec => []TypeOK
<1>1. ServiceInv => TypeOK
  BY DEF ServiceInv
<1> QED BY <1>1, ServiceInvariant, PTL

\* After "ThinRemote has been completely uninstalled" (service_manager.cpp:198) nothing
\* starts the agent again, whatever failed silently before it was said: a stop, the
\* disabling of the service, a process that its init system goes on restarting.
THEOREM UninstalledAgentStaysOff == Spec => UninstalledStaysOff
<1>1. ServiceInv /\ [Next]_vars =>
        [said = "uninstalled" /\ said' = "uninstalled" => service' \in {service, "none"}]_vars
  <2> SUFFICES ASSUME ServiceInv, Next, said = "uninstalled", said' = "uninstalled"
               PROVE  service' \in {service, "none"}
    OBVIOUS
  <2>1. cli = Idle /\ binary = "none" /\ ~unit /\ binary \notin Runnable
    BY DEF ServiceInv, SaidInv, Runnable
  <2>2. Exit \/ Respawn \/ GiveUp \/ ReusePid \/ Reboot
    BY <2>1, IdleState DEF Next, Command, CliStep, Install, Update, Restart, StopAndRun,
       Start, RunManually, Uninstall, Begin, Copy, WriteUnit, Enable, SkipStart, StartStep,
       StopStep, CheckStopped, UninstallStatus, RemoveUnit, RemoveBinary, RemoveConfig,
       QuitManual
  <2>3. ~Respawn
    BY <2>1 DEF Respawn
  <2>4. CASE Reboot
    BY <2>1, <2>4 DEF Reboot
  <2> QED BY <2>2, <2>3, <2>4 DEF Exit, GiveUp, ReusePid
<1> QED BY <1>1, ServiceInvariant, PTL DEF Spec, UninstalledStaysOff

\* A machine on which update-rc.d or chkconfig may fail has one of the places that are
\* used instead; without any, the code warns "Could not enable auto-start" and goes on.
FallbackPlaces ==
  "enable" \in Fails => \A t \in ToolSets : t # {} => t \cap Directories # {}

\* An installation that reports success (command_handler.cpp:332) has its binary and its
\* unit file and starts at boot, where the machine has any means to.
THEOREM InstallationStartsAtBoot ==
  ASSUME FallbackPlaces
  PROVE  Spec => []InstalledStartsAtBoot
<1>1. ServiceInv => InstalledStartsAtBoot
  <2> SUFFICES ASSUME ServiceInv, said \in {"installed", "not_started"}
               PROVE  /\ unit /\ binary = "new"
                      /\ starts # {} \/ (platform = "sysv" /\ tools = {})
    BY DEF InstalledStartsAtBoot
  <2>1. unit /\ binary = "new" /\ SetToStart(starts)
    BY DEF ServiceInv, SaidInv
  <2>2. tools \in ToolSets /\ tools \subseteq Tools
    BY TypedParts, ServiceAssumption DEF ServiceInv, Typed
  <2>3. CASE starts # {}
    BY <2>1, <2>3
  <2>4. CASE starts = {}
    <3>1. /\ platform = "sysv" /\ tools \cap Directories = {}
          /\ tools \cap Managers = {} \/ "enable" \in Fails
      BY <2>1, <2>4 DEF SetToStart
    <3>2. tools = {}
      BY <2>2, <3>1 DEF FallbackPlaces, Tools, Directories, Managers
    <3> QED BY <2>1, <3>1, <3>2
  <2> QED BY <2>3, <2>4
<1> QED BY <1>1, ServiceInvariant, PTL

\* The init script always reaches the process it started: no start, stop, exit, reboot or
\* reuse of a pid leaves it running without its pid file (sysv_service_installer.cpp:236).
THEOREM PidFileNamesService == Spec => []PidFileFindsService
<1>1. ServiceInv => PidFileFindsService
  BY DEF ServiceInv, SysvInv, PidFileFindsService
<1> QED BY <1>1, ServiceInvariant, PTL

\* On systemd a service that was stopped for the terminal does not come back while the
\* agent runs there (service_manager.cpp:124).
THEOREM ManualAgentIsAlone == Spec => []ManualRunsAlone
<1>1. ServiceInv => ManualRunsAlone
  BY DEF ServiceInv, ManualInv, SaidInv, ManualRunsAlone
<1> QED BY <1>1, ServiceInvariant, PTL

\* "Service updated successfully!" (service_manager.cpp:505) is said in a step after which
\* the new binary runs, whatever restarted the service in between.
THEOREM UpdateRunsNewBinary == Spec => UpdatedRunsNew
<1>1. ServiceInv /\ [Next]_vars =>
        [said' = "updated" /\ said # "updated" /\ platform # "launchd"
           => binary' = "new" /\ service' = "new"]_vars
  <2> SUFFICES ASSUME ServiceInv, Next, said' = "updated", said # "updated",
                      platform # "launchd"
               PROVE  binary' = "new" /\ service' = "new"
    OBVIOUS
  <2>1. StartStep
    BY DEF Next, Command, CliStep, Install, Update, Restart, StopAndRun, Start, RunManually,
       Uninstall, Begin, Copy, WriteUnit, Enable, SkipStart, StopStep, CheckStopped,
       UninstallStatus, RemoveUnit, RemoveBinary, RemoveConfig, QuitManual, Exit, Respawn,
       GiveUp, ReusePid, Reboot, Ends, GoesTo, Went
  <2>2. PICK ok \in BOOLEAN :
          /\ StartService(ok)
          /\ said' = CASE ~cli.ok -> "failed"
                       [] cli.ok /\ ~ok -> IF cli.op = "install" THEN "not_started" ELSE "failed"
                       [] OTHER -> CASE cli.op = "install" -> "installed"
                                     [] cli.op = "update"  -> "updated"
                                     [] cli.op = "restart" -> "restarted"
                                     [] OTHER              -> "started"
    BY <2>1 DEF StartStep, Ends
  <2>3. cli.op = "update" /\ cli.ok /\ ok
    BY <2>2
  <2>4. cli.at = "start" /\ binary' = binary
    BY <2>1 DEF StartStep, files
  <2>5. binary = "new" /\ service \in {"none", "new"} /\ platform # "stub"
    BY <2>3, <2>4 DEF ServiceInv, UpdateInv
  <2> QED BY <2>2, <2>3, <2>4, <2>5, StartEffect
<1> QED BY <1>1, ServiceInvariant, PTL DEF Spec, UpdatedRunsNew
=============================================================================
