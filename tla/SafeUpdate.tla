----------------------------- MODULE SafeUpdate -----------------------------
(***************************************************************************)
(* One device under the safe updater: the files an update leaves on its    *)
(* disk, the agent process with the threads that touch them, the appliers  *)
(* that replace the binary, and the init system that restarts the agent.   *)
(*                                                                         *)
(*   applier    updater::apply_with_watchdog, run by the poll thread, by   *)
(*              the IOTMP "update" resource, or by the command line        *)
(*   boot       update_watchdog::check_boot and the watchdog's constructor *)
(*   run time   update_watchdog::on_state (io thread) and deadline_loop    *)
(*              (timer thread), which share resolved_                      *)
(*   rollback   do_rollback, run by whichever of the three found the       *)
(*              binary on trial bad                                        *)
(*                                                                         *)
(* A step is one change of the disk or of the state the threads share.     *)
(* Processes die between any two of them, so the order of the file         *)
(* operations is the order of the code.                                    *)
(***************************************************************************)
EXTENDS WatchdogCore

CONSTANTS
  Binary,             \* agent binaries ever published; each is its own version
  Genesis,            \* the binary the device was installed with
  Operational,        \* binaries that can reach STREAMS_READY on this device
  Torn,               \* a file whose data a power cut lost
  Appliers,           \* who may replace the binary: of "poller", "iotmp", "cli"
  AgentDir,           \* directory of the agent's config file
  Hazards             \* what this instance lets go wrong, see AllHazards

\* crash_boot, crash_run, crash_rollback : the agent dies before the watchdog is
\*   up, after, or between the steps of a rollback
\* crash_cli   : a command line that applies an update is killed alone
\* power_cut   : every process dies
\* data_loss   : a power cut also loses file data that was not written back
\* write_fails, rename_fails : write_atomic or rename reports an error
\* skew        : the CDN serves another binary than the manifest names (and the
\*   manifest carries no checksum for this architecture)
\* sessions    : a user opens interactive sessions
\* response_lost : the response of the update resource is not sent
\* slow_confirm: an apply may run between the two unlinks of confirm()
\* no_respawn  : the init system may not restart an agent that exited, because it
\*   never does (sysv) or gives up on one that keeps exiting (procd)
\* boot_in_apply: the agent may boot while the command line is applying
AllHazards ==
  {"crash_boot", "crash_run", "crash_rollback", "power_cut", "data_loss",
   "write_fails", "rename_fails", "skew", "sessions", "response_lost",
   "slow_confirm", "no_respawn", "boot_in_apply", "crash_cli"}

\* default_state_dir(), used by the update resource and the command line, and
\* the directory of another file given with --config.
Dirs == {"std", "cfg"}

ASSUME BinaryAssumption ==
  /\ Version = Binary
  /\ Torn \notin Binary \cup {None}
  /\ Genesis \in Operational
  /\ Operational \subseteq Binary
ASSUME SettingAssumption ==
  /\ Appliers \subseteq {"poller", "iotmp", "cli"}
  /\ AgentDir \in Dirs
  /\ Hazards \subseteq AllHazards

VARIABLES
  \* the disk
  install,    \* content of install_path
  prev,       \* content of install_path.prev
  temp,       \* content of install_path.new
  marker,     \* update.state of each state directory
  reverted,   \* update.reverted of AgentDir
  unwritten,  \* files whose data is not written back yet
  \* the agent process
  pc,         \* what each of its threads is about to do
  exe,        \* the binary it runs, None while it is down
  stale,      \* whether install_path was replaced since it started
  wd,         \* the watchdog's armed_, report_pending_ and resolved_
  held,       \* the watchdog's marker_ (check_boot's decision.marker at boot)
  why,        \* the reason a rollback was started for
  connected,  \* the poller's connected_
  sigterm,    \* SIGTERM was raised
  \* the appliers, the init system and the environment
  ap,         \* progress of each apply_with_watchdog
  launch,     \* whether the init system will start the agent
  cooled,     \* REVERTED_RETRY_COOLDOWN_S has passed since the last revert
  sessions,   \* an interactive stream session is open
  \* history, read by no step
  proven,     \* binaries that have reached STREAMS_READY
  bad         \* versions last reverted for a crash loop or a rejection, and not
              \* seen to work since

disk == <<install, prev, temp, marker, reverted, unwritten>>
agent == <<pc, exe, stale, wd, held, why, connected, sigterm>>
history == <<proven, bad>>
vars == <<disk, agent, ap, launch, cooled, sessions, history>>

-----------------------------------------------------------------------------
Threads == {"main", "io", "timer"}
Files == {"install", "prev", "temp"}

RollbackSteps == {"revert", "record", "mark"}
MainSteps == {"down", "check", "clear_prev", "ctor", "up"} \cup RollbackSteps
IoSteps == {"idle", "confirm", "confirm_prev", "report"} \cup RollbackSteps
TimerSteps == {"off", "waiting"} \cup RollbackSteps

AllDown ==
  [t \in Threads |-> CASE t = "main" -> "down" [] t = "io" -> "idle" [] OTHER -> "off"]

\* Where an applier is: a poll cycle that saw the connection up, an apply beside a
\* deleted install_path, and the steps of a real one.
ApplySteps == {"idle", "polled", "aside", "fetch", "verified", "backed_up", "marked"}
Apply == [at : ApplySteps, from : Binary \cup {None}, to : Binary \cup {None}]
NoApply == [at |-> "idle", from |-> None, to |-> None]

NoWatch == [armed |-> FALSE, report |-> FALSE, resolved |-> FALSE]

\* Every variable keeps its type, whatever goes wrong: attempts stay within
\* their budget, a thread only takes steps of its own.
DiskType ==
  /\ install \in Binary \cup {Torn}
  /\ prev \in Binary \cup {None, Torn}
  /\ temp \in Binary \cup {None, Torn}
  /\ marker \in [Dirs -> Markers]
  /\ reverted \in RevertedRecords
  /\ unwritten \subseteq Files

ThreadType ==
  /\ pc \in [Threads -> MainSteps \cup IoSteps \cup TimerSteps]
  /\ pc["main"] \in MainSteps /\ pc["io"] \in IoSteps /\ pc["timer"] \in TimerSteps

AgentType ==
  /\ exe \in Binary \cup {None}
  /\ stale \in BOOLEAN
  /\ wd \in [armed : BOOLEAN, report : BOOLEAN, resolved : BOOLEAN]
  /\ held \in Markers
  /\ why \in Reasons \cup {"none"}
  /\ connected \in BOOLEAN /\ sigterm \in BOOLEAN

OutsideType ==
  /\ ap \in [Appliers -> Apply]
  /\ launch \in BOOLEAN /\ cooled \in BOOLEAN /\ sessions \in BOOLEAN
  /\ proven \subseteq Binary /\ bad \subseteq Version \cup {None}

TypeOK == DiskType /\ ThreadType /\ AgentType /\ OutsideType

Init ==
  /\ install = Genesis /\ prev = None /\ temp = None
  /\ marker = [d \in Dirs |-> NoMarker]
  /\ reverted = NoRecord
  /\ unwritten = {}
  /\ pc = AllDown
  /\ exe = None /\ stale = FALSE
  /\ wd = NoWatch /\ held = NoMarker /\ why = "none"
  /\ connected = FALSE /\ sigterm = FALSE
  /\ ap = [a \in Appliers |-> NoApply]
  /\ launch = TRUE /\ cooled = TRUE /\ sessions = FALSE
  /\ proven = {Genesis} /\ bad = {}

-----------------------------------------------------------------------------
InAgent == Appliers \ {"cli"}

SameProcess_unshared(a) == {a}   \* mutant: in_progress is not static

\* in_progress is a static of one process: the agent's appliers exclude each
\* other, and exclude nothing that runs in the command line's process.
SameProcess(a) == IF a = "cli" THEN {"cli"} ELSE InAgent

\* in_progress is held for a.
InApply(a) == ap[a].at \notin {"idle", "polled"}

DirOf(a) == IF a = "poller" THEN AgentDir ELSE "std"

RollingBack == \E t \in Threads : pc[t] \in RollbackSteps

\* File data a power cut may still lose once `files` were written.
Unwritten(files) == IF "data_loss" \in Hazards THEN files ELSE {}

\* The end of the agent process: its memory, threads and sessions are gone, and
\* so is any apply that ran in it.  The disk stays as it is.
AgentGone ==
  /\ pc' = AllDown
  /\ wd' = NoWatch /\ held' = NoMarker /\ why' = "none"
  /\ connected' = FALSE /\ sigterm' = FALSE /\ sessions' = FALSE
  /\ exe' = None /\ stale' = FALSE

ApplierGone(P) == ap' = [a \in Appliers |-> IF a \in P THEN NoApply ELSE ap[a]]

-----------------------------------------------------------------------------
(* Applying an update.                                                      *)

\* A poll cycle finds the agent connected and fetches the manifest; by the time it
\* acts on it the connection may be gone.
Poll ==
  /\ pc["main"] = "up" /\ connected
  /\ ap["poller"].at = "idle"
  /\ ap' = [ap EXCEPT !["poller"].at = "polled"]
  /\ UNCHANGED <<disk, agent, launch, cooled, sessions, history>>

\* No valid manifest, up to date, recently reverted, not eligible, or refused.
PollEnds ==
  /\ ap["poller"].at = "polled"
  /\ ap' = [ap EXCEPT !["poller"] = NoApply]
  /\ UNCHANGED <<disk, agent, launch, cooled, sessions, history>>

\* The caller found a version other than its own in the manifest, won
\* in_progress, and saw no marker in its state directory; a poller also saw no
\* recent revert of it and no session.  In a process whose file was replaced,
\* install_path resolves to a deleted name.
ApplyBegin(a, v) ==
  LET self == IF a = "cli" THEN install ELSE exe IN
  /\ IF a = "cli" THEN "boot_in_apply" \in Hazards \/ pc["main"] \in {"down", "up"}
     ELSE pc["main"] = "up"
  /\ ap[a].at = IF a = "poller" THEN "polled" ELSE "idle"
  /\ \A b \in SameProcess(a) : ~InApply(b)
  /\ self \in Binary /\ v # self
  /\ a = "poller" => ~SkipReverted(reverted, v, cooled) /\ ~sessions
  /\ marker[DirOf(a)].phase = "none"
  /\ ap' = [ap EXCEPT ![a] =
              [at |-> IF a # "cli" /\ stale THEN "aside" ELSE "fetch", from |-> self, to |-> v]]
  /\ UNCHANGED <<disk, agent, launch, cooled, sessions, history>>

\* download_binary, checksum, permissions and the --version preflight.
ApplyFetch(a, b) ==
  /\ ap[a].at = "fetch"
  /\ b = ap[a].to \/ "skew" \in Hazards
  /\ temp' = b
  /\ unwritten' = unwritten \cup Unwritten({"temp"})
  /\ ap' = [ap EXCEPT ![a].at = "verified"]
  /\ UNCHANGED <<install, prev, marker, reverted, agent, launch, cooled, sessions, history>>

\* A failed download, checksum, preflight or backup, or a session found open:
\* the downloaded file is removed and nothing else was touched.  Beside a deleted
\* install_path the backup always fails.
ApplyGiveUp(a) ==
  /\ ap[a].at \in {"aside", "fetch", "verified"}
  /\ temp' = IF ap[a].at = "aside" THEN temp ELSE None
  /\ unwritten' = IF ap[a].at = "aside" THEN unwritten ELSE unwritten \ {"temp"}
  /\ ap' = [ap EXCEPT ![a] = NoApply]
  /\ UNCHANGED <<install, prev, marker, reverted, agent, launch, cooled, sessions, history>>

\* Copy install_path to .prev.tmp and rename it to .prev, once a poller has
\* seen no session.
ApplyBackup(a) ==
  /\ ap[a].at = "verified"
  /\ a = "poller" => ~sessions
  /\ "slow_confirm" \in Hazards \/ pc["io"] # "confirm_prev"
  /\ prev' = install
  /\ unwritten' = unwritten \cup Unwritten({"prev"})
  /\ ap' = [ap EXCEPT ![a].at = "backed_up"]
  /\ UNCHANGED <<install, temp, marker, reverted, agent, launch, cooled, sessions, history>>

PendingMarker_swapped(a) ==   \* mutant: from and to exchanged
  [phase |-> "pending", from |-> ap[a].to, to |-> ap[a].from, attempts |-> 0]

PendingMarker(a) ==
  [phase |-> "pending", from |-> ap[a].from, to |-> ap[a].to, attempts |-> 0]

ApplyMark(a) ==
  /\ ap[a].at = "backed_up"
  /\ marker' = [marker EXCEPT ![DirOf(a)] = PendingMarker(a)]
  /\ ap' = [ap EXCEPT ![a].at = "marked"]
  /\ UNCHANGED <<install, prev, temp, reverted, unwritten, agent, launch, cooled, sessions,
                 history>>

\* write_atomic failed: the backup and the download are removed.
ApplyMarkFails(a) ==
  /\ ap[a].at = "backed_up"
  /\ "write_fails" \in Hazards
  /\ prev' = None /\ temp' = None
  /\ unwritten' = unwritten \ {"prev", "temp"}
  /\ ap' = [ap EXCEPT ![a] = NoApply]
  /\ UNCHANGED <<install, marker, reverted, agent, launch, cooled, sessions, history>>

\* The swap.  The poll loop then raises SIGTERM, the update resource does so after
\* its response was sent, the command line leaves the restart to the operator.
ApplySwap(a) ==
  /\ ap[a].at = "marked"
  /\ temp # None
  /\ install' = temp /\ temp' = None
  /\ unwritten' = (unwritten \ {"install", "temp"})
                    \cup (IF "temp" \in unwritten THEN {"install"} ELSE {})
  /\ stale' = (pc["main"] # "down")
  /\ \/ sigterm' = (sigterm \/ a # "cli")
     \/ a = "iotmp" /\ "response_lost" \in Hazards /\ UNCHANGED sigterm
  /\ ap' = [ap EXCEPT ![a] = NoApply]
  /\ UNCHANGED <<prev, marker, reverted, pc, exe, wd, held, why, connected,
                 launch, cooled, sessions, history>>

\* The rename failed: marker, backup and download are removed.
ApplySwapFails(a) ==
  /\ ap[a].at = "marked"
  /\ "rename_fails" \in Hazards \/ temp = None
  /\ marker' = [marker EXCEPT ![DirOf(a)] = NoMarker]
  /\ prev' = None /\ temp' = None
  /\ unwritten' = unwritten \ {"prev", "temp"}
  /\ ap' = [ap EXCEPT ![a] = NoApply]
  /\ UNCHANGED <<install, reverted, agent, launch, cooled, sessions, history>>

Applying(a) ==
  \/ a = "poller" /\ (Poll \/ PollEnds)
  \/ \E v \in Binary : ApplyBegin(a, v)
  \/ \E b \in Binary : ApplyFetch(a, b)
  \/ ApplyGiveUp(a)
  \/ ApplyBackup(a)
  \/ ApplyMark(a)
  \/ ApplyMarkFails(a)
  \/ ApplySwap(a)
  \/ ApplySwapFails(a)

-----------------------------------------------------------------------------
(* do_rollback, in the thread t that claimed it.                            *)

\* Where a thread goes when its rollback could not restore the backup: the boot
\* continues, the watchdog's threads are done.
AfterFailedRevert(t) == CASE t = "main" -> "ctor" [] t = "io" -> "idle" [] OTHER -> "off"

\* rename(prev -> install).  In a process whose file was replaced the target is
\* the deleted name, so the backup leaves .prev and install_path stays.
Revert(t) ==
  /\ pc[t] = "revert"
  /\ prev # None
  /\ install' = IF stale THEN install ELSE prev
  /\ prev' = None
  /\ unwritten' = (unwritten \ (IF stale THEN {"prev"} ELSE {"install", "prev"}))
                    \cup (IF "prev" \in unwritten /\ ~stale THEN {"install"} ELSE {})
  /\ stale' = TRUE
  /\ pc' = [pc EXCEPT ![t] = "record"]
  /\ bad' = IF why = "deadline" THEN bad \ {held.to} ELSE bad \cup {held.to}
  /\ UNCHANGED <<temp, marker, reverted, exe, wd, held, why, connected, sigterm,
                 ap, launch, cooled, sessions, proven>>

\* No backup, or the rename failed: nothing is touched and no SIGTERM is raised.
RevertFails(t) ==
  /\ pc[t] = "revert"
  /\ prev = None \/ "rename_fails" \in Hazards
  /\ pc' = [pc EXCEPT ![t] = AfterFailedRevert(t)]
  /\ UNCHANGED <<disk, exe, stale, wd, held, why, connected, sigterm,
                 ap, launch, cooled, sessions, history>>

RevertedRecord_from == [version |-> held.from, reason |-> why]   \* mutant: m.from

RevertedRecord == [version |-> held.to, reason |-> why]

\* Write the reverted record; the result of write_atomic is not looked at.
Record(t) ==
  /\ pc[t] = "record"
  /\ \/ /\ reverted' = RevertedRecord
        /\ cooled' = FALSE
     \/ /\ "write_fails" \in Hazards
        /\ UNCHANGED <<reverted, cooled>>
  /\ pc' = [pc EXCEPT ![t] = "mark"]
  /\ UNCHANGED <<install, prev, temp, marker, unwritten, exe, stale, wd, held, why,
                 connected, sigterm, ap, launch, sessions, history>>

\* Rewrite the marker as rolled_back (result again ignored), then end the
\* process: at boot by an exception that leaves main, at run time by SIGTERM.
MarkRolledBack(t) ==
  /\ pc[t] = "mark"
  /\ \/ marker' = [marker EXCEPT ![AgentDir] = [held EXCEPT !.phase = "rolled_back"]]
     \/ "write_fails" \in Hazards /\ UNCHANGED marker
  /\ IF t = "main"
     THEN AgentGone
     ELSE /\ pc' = [pc EXCEPT ![t] = IF t = "io" THEN "idle" ELSE "off"]
          /\ sigterm' = TRUE
          /\ UNCHANGED <<exe, stale, wd, held, why, connected, sessions>>
  /\ UNCHANGED <<install, prev, temp, reverted, unwritten, ap, launch, cooled, history>>

Rollback(t) == Revert(t) \/ RevertFails(t) \/ Record(t) \/ MarkRolledBack(t)

-----------------------------------------------------------------------------
(* Boot.                                                                    *)

\* The init system executes install_path: it restarts an agent that exited, or
\* launches it once per boot of the machine.
Start ==
  /\ pc["main"] = "down"
  /\ launch
  /\ install \in Binary
  /\ "boot_in_apply" \notin Hazards => \A a \in Appliers : ~InApply(a)
  /\ pc' = [pc EXCEPT !["main"] = "check"]
  /\ exe' = install /\ stale' = FALSE
  /\ launch' \in {TRUE, "no_respawn" \notin Hazards}
  /\ UNCHANGED <<disk, wd, held, why, connected, sigterm, ap, cooled, sessions, history>>

BootChoice == BootAction(marker[AgentDir], exe)

\* check_boot on clean_start and report_rolled_back: the disk is left alone.
CheckProceed ==
  /\ pc["main"] = "check"
  /\ BootChoice \in {"clean_start", "report_rolled_back"}
  /\ pc' = [pc EXCEPT !["main"] = "ctor"]
  /\ UNCHANGED <<disk, exe, stale, wd, held, why, connected, sigterm,
                 ap, launch, cooled, sessions, history>>

\* check_boot on clear_no_revert: remove the marker, then the backup.
CheckClear ==
  /\ pc["main"] = "check"
  /\ BootChoice = "clear_no_revert"
  /\ marker' = [marker EXCEPT ![AgentDir] = NoMarker]
  /\ pc' = [pc EXCEPT !["main"] = "clear_prev"]
  /\ UNCHANGED <<install, prev, temp, reverted, unwritten, exe, stale, wd, held, why,
                 connected, sigterm, ap, launch, cooled, sessions, history>>

ClearPrev ==
  /\ pc["main"] = "clear_prev"
  /\ prev' = None
  /\ unwritten' = unwritten \ {"prev"}
  /\ pc' = [pc EXCEPT !["main"] = "ctor"]
  /\ UNCHANGED <<install, temp, marker, reverted, exe, stale, wd, held, why, connected,
                 sigterm, ap, launch, cooled, sessions, history>>

\* check_boot on arm: persist the attempt; a failed write is only logged.
CheckArm ==
  /\ pc["main"] = "check"
  /\ BootChoice = "arm"
  /\ \/ marker' = [marker EXCEPT ![AgentDir] = BootMarker(@, exe)]
     \/ "write_fails" \in Hazards /\ UNCHANGED marker
  /\ pc' = [pc EXCEPT !["main"] = "ctor"]
  /\ UNCHANGED <<install, prev, temp, reverted, unwritten, exe, stale, wd, held, why,
                 connected, sigterm, ap, launch, cooled, sessions, history>>

\* check_boot on rollback: the attempts are used up.
CheckRollback ==
  /\ pc["main"] = "check"
  /\ BootChoice = "rollback"
  /\ held' = BootMarker(marker[AgentDir], exe)
  /\ why' = "crash_loop"
  /\ pc' = [pc EXCEPT !["main"] = "revert"]
  /\ UNCHANGED <<disk, exe, stale, wd, connected, sigterm,
                 ap, launch, cooled, sessions, history>>

Armed_from(m) == m.phase = "pending" /\ m.from = exe   \* mutant: compares with from

Armed(m) == m.phase = "pending" /\ m.to = exe

\* The watchdog's constructor reads the marker again, subscribes, and starts the
\* deadline thread if this binary is on trial; then the agent is started.
Construct ==
  LET m == marker[AgentDir] IN
  /\ pc["main"] = "ctor"
  /\ wd' = [armed |-> Armed(m), report |-> m.phase = "rolled_back", resolved |-> FALSE]
  /\ held' = m /\ why' = "none"
  /\ pc' = [pc EXCEPT !["main"] = "up", !["timer"] = IF Armed(m) THEN "waiting" ELSE "off"]
  /\ UNCHANGED <<disk, exe, stale, connected, sigterm, ap, launch, cooled, sessions, history>>

Boot ==
  \/ Start \/ CheckProceed \/ CheckClear \/ ClearPrev \/ CheckArm \/ CheckRollback
  \/ Construct

-----------------------------------------------------------------------------
(* Run time: client events on the io thread, the deadline on the timer's.   *)

IoReady == pc["main"] = "up" /\ pc["io"] = "idle"

Undecided_unchecked == TRUE   \* mutant: resolved_ is not looked at

\* What each thread asks under mutex_ before it decides the trial.
Undecided == ~wd.resolved

\* STREAMS_READY.  The watchdog is dispatched before the poller, so connected_
\* is set once the watchdog has handled the event.
StreamsReady ==
  /\ IoReady
  /\ exe \in Operational
  /\ proven' = proven \cup {exe} /\ bad' = bad \ {exe}
  /\ IF (wd.armed \/ wd.report) /\ Undecided
     THEN /\ wd' = [wd EXCEPT !.resolved = TRUE]
          /\ pc' = [pc EXCEPT !["io"] = IF wd.report THEN "report" ELSE "confirm"]
          /\ UNCHANGED connected
     ELSE /\ connected' = TRUE
          /\ UNCHANGED <<wd, pc>>
  /\ UNCHANGED <<disk, exe, stale, held, why, sigterm, ap, launch, cooled, sessions>>

\* The report of a rollback is skipped, lost or sent, and the marker removed
\* whichever it was.
ReportRolledBack ==
  /\ pc["io"] = "report"
  /\ marker' = [marker EXCEPT ![AgentDir] = NoMarker]
  /\ wd' = [wd EXCEPT !.report = FALSE]
  /\ pc' = [pc EXCEPT !["io"] = "idle"]
  /\ connected' = TRUE
  /\ UNCHANGED <<install, prev, temp, reverted, unwritten, exe, stale, held, why, sigterm,
                 ap, launch, cooled, sessions, history>>

\* confirm(): remove the marker, then the backup.
Confirm ==
  /\ pc["io"] = "confirm"
  /\ marker' = [marker EXCEPT ![AgentDir] = NoMarker]
  /\ pc' = [pc EXCEPT !["io"] = "confirm_prev"]
  /\ UNCHANGED <<install, prev, temp, reverted, unwritten, exe, stale, wd, held, why,
                 connected, sigterm, ap, launch, cooled, sessions, history>>

ConfirmPrev ==
  /\ pc["io"] = "confirm_prev"
  /\ prev' = None
  /\ unwritten' = unwritten \ {"prev"}
  /\ pc' = [pc EXCEPT !["io"] = "idle"]
  /\ connected' = TRUE
  /\ UNCHANGED <<install, temp, marker, reverted, exe, stale, wd, held, why, sigterm,
                 ap, launch, cooled, sessions, history>>

\* A client state other than STREAMS_READY: a server's rejection reverts a binary
\* on trial at once, a transport error or a lost connection does not.
Disconnected(event) ==
  /\ IoReady
  /\ connected' = FALSE
  /\ IF wd.armed /\ RuntimeAction(event) = "rollback" /\ Undecided
     THEN /\ wd' = [wd EXCEPT !.resolved = TRUE]
          /\ why' = "auth_failed"
          /\ pc' = [pc EXCEPT !["io"] = "revert"]
     ELSE UNCHANGED <<wd, why, pc>>
  /\ UNCHANGED <<disk, exe, stale, held, sigterm, ap, launch, cooled, sessions, history>>

\* The deadline elapses unresolved.
Deadline ==
  /\ pc["timer"] = "waiting"
  /\ Undecided
  /\ wd' = [wd EXCEPT !.resolved = TRUE]
  /\ why' = "deadline"
  /\ pc' = [pc EXCEPT !["timer"] = "revert"]
  /\ UNCHANGED <<disk, exe, stale, held, connected, sigterm, ap, launch, cooled, sessions, history>>

\* SIGTERM: agent::stop joins the deadline thread and the poll thread, and cuts
\* whatever the io thread and the workers are doing.
Stop ==
  /\ pc["main"] = "up"
  /\ sigterm
  /\ pc["timer"] \notin RollbackSteps
  /\ "poller" \in Appliers => ap["poller"].at = "idle"
  /\ AgentGone
  /\ ApplierGone(InAgent)
  /\ UNCHANGED <<disk, launch, cooled, history>>

RunTime ==
  \/ StreamsReady \/ ReportRolledBack \/ Confirm \/ ConfirmPrev
  \/ \E event \in RuntimeEvents \ {"streams_ready", "deadline"} : Disconnected(event)
  \/ Deadline \/ Stop

-----------------------------------------------------------------------------
(* The environment.                                                         *)

CrashAllowed ==
  CASE pc["main"] = "down" -> FALSE
    [] pc["main"] # "down" /\ RollingBack -> "crash_rollback" \in Hazards
    [] pc["main"] = "up" /\ ~RollingBack -> "crash_run" \in Hazards
    [] OTHER -> "crash_boot" \in Hazards

\* The agent dies at once: an abort, the OOM killer, SIGKILL.
Crash ==
  /\ CrashAllowed
  /\ AgentGone
  /\ ApplierGone(InAgent)
  /\ UNCHANGED <<disk, launch, cooled, history>>

\* The command line dies in the middle of its apply and leaves on the disk what it
\* wrote so far; the agent goes on.
CrashCli ==
  /\ "crash_cli" \in Hazards
  /\ \E a \in Appliers \cap {"cli"} : InApply(a)
  /\ ApplierGone({"cli"})
  /\ UNCHANGED <<disk, agent, launch, cooled, sessions, history>>

\* The machine loses power and boots again.
PowerCut ==
  /\ "power_cut" \in Hazards
  /\ AgentGone
  /\ ApplierGone(Appliers)
  /\ launch' = TRUE
  /\ \E lost \in SUBSET unwritten :
       /\ install' = IF "install" \in lost THEN Torn ELSE install
       /\ prev' = IF "prev" \in lost THEN Torn ELSE prev
       /\ temp' = IF "temp" \in lost THEN Torn ELSE temp
  /\ unwritten' = {}
  /\ UNCHANGED <<marker, reverted, cooled, history>>

WriteBack ==
  /\ unwritten # {}
  /\ unwritten' = {}
  /\ UNCHANGED <<install, prev, temp, marker, reverted, agent, ap, launch, cooled, sessions,
                 history>>

CooldownPasses ==
  /\ ~cooled
  /\ cooled' = TRUE
  /\ UNCHANGED <<disk, agent, ap, launch, sessions, history>>

\* A user opens or closes an interactive session.
Session ==
  /\ "sessions" \in Hazards
  /\ pc["main"] = "up"
  /\ sessions' = ~sessions
  /\ UNCHANGED <<disk, agent, ap, launch, cooled, history>>

Environment == Crash \/ CrashCli \/ PowerCut \/ WriteBack \/ CooldownPasses \/ Session

-----------------------------------------------------------------------------
Next ==
  \/ \E a \in Appliers : Applying(a)
  \/ \E t \in Threads : Rollback(t)
  \/ Boot
  \/ RunTime
  \/ Environment

Spec == Init /\ [][Next]_vars

(* What the init system and the scheduler owe the agent: it is started when  *)
(* it is down, its threads go on with what they began, the deadline elapses, *)
(* a signal is handled (strongly: stop() makes the poll loop begin no other  *)
(* cycle) and an apply that began goes on to its end.  Client events, new    *)
(* updates and failures are owed to nobody.                                  *)
ApplyGoesOn(a) ==
  \/ a = "poller" /\ PollEnds
  \/ ap[a].at = "aside" /\ ApplyGiveUp(a)
  \/ ApplyFetch(a, ap[a].to) \/ ApplyBackup(a) \/ ApplyMark(a) \/ ApplySwap(a)

Fairness ==
  /\ WF_vars(Boot)
  /\ \A t \in Threads : WF_vars(Rollback(t))
  /\ WF_vars(ReportRolledBack \/ Confirm \/ ConfirmPrev)
  /\ WF_vars(Deadline)
  /\ SF_vars(Stop)
  /\ \A a \in Appliers : WF_vars(ApplyGoesOn(a))

FairSpec == Spec /\ Fairness

-----------------------------------------------------------------------------
(* Properties.                                                              *)

\* The installed binary is the target of the agent's pending marker: the next
\* boot will arm the watchdog for it.
OnTrial == marker[AgentDir].phase = "pending" /\ marker[AgentDir].to = install

\* A device is never left on an untried binary alone: what is installed has
\* reached STREAMS_READY here, or it is on trial under the agent's marker with
\* the binary it replaced, which has, in .prev.  This is what the order backup,
\* marker, swap of apply_with_watchdog and the order rename, record, marker of
\* do_rollback are for.
KnownGoodKept ==
  \/ install \in proven
  \/ OnTrial /\ prev \in proven /\ prev = marker[AgentDir].from

\* On storage that may also lose data: what is installed and can be executed has worked
\* here, or is on trial under the agent's marker with a fallback that has.  Only a
\* power cut spoils the fallback; no failed write or rename, no process that dies and
\* no step of an apply, a boot or a rollback leaves an untried binary without one.
UntriedHasFallback ==
  install \in Binary =>
    \/ install \in proven
    \/ OnTrial /\ (prev = Torn \/ (prev \in proven /\ prev = marker[AgentDir].from))

\* What KnownGoodKept needs to be inductive, for an agent alone with its own
\* state directory.  It ties the disk to what each thread and applier is about
\* to do with it.
Std == marker["std"]

\* Boots are counted up to the budget; only a rolled_back marker shows one more.
AttemptsInv ==
  \A d \in Dirs : marker[d].phase = "pending" => marker[d].attempts <= MaxAttempts

\* A pending marker is well formed, whatever is installed, and what is installed
\* without one has worked.
MarkerInv ==
  /\ unwritten = {}
  /\ AttemptsInv
  /\ Std.phase = "pending" =>
       /\ Std.from \in Binary /\ Std.to \in Binary /\ Std.from # Std.to
       /\ Std.to = install => prev = Std.from /\ prev \in proven
  /\ ~OnTrial => install \in proven

\* What the process knows of its own file.
AgentInv ==
  /\ pc["main"] # "up" => \A a \in Appliers : ~InApply(a)
  /\ pc["main"] # "down" => exe \in Binary /\ (stale \/ exe = install)
  /\ pc["main"] \in {"check", "clear_prev", "ctor", "revert"} => ~stale
  /\ pc["main"] = "clear_prev" => Std.phase = "none"

\* An apply in progress owns the disk: no marker but its own, the files it wrote.
ApplyInv ==
  /\ \A a, b \in Appliers : InApply(a) /\ InApply(b) => a = b
  /\ \A a \in Appliers : InApply(a) =>
       /\ ap[a].from = exe /\ ap[a].to \in Binary /\ ap[a].to # exe
       /\ ap[a].at # "marked" => Std.phase = "none"
       /\ ap[a].at \in {"verified", "backed_up", "marked"} => temp = ap[a].to
       /\ ap[a].at # "aside" => ~stale
       /\ ap[a].at \in {"backed_up", "marked"} => prev = install /\ pc["io"] # "confirm_prev"
       /\ ap[a].at = "marked" =>
            Std.phase = "pending" /\ Std.from = exe /\ Std.to = ap[a].to

\* What is still true while a trial is undecided, and what the thread that decided
\* it has left to do.
TrialInv ==
  /\ wd.armed /\ ~wd.resolved =>
       /\ ~stale /\ held.to = exe /\ held.from = Std.from
       /\ OnTrial
  /\ wd.report /\ ~wd.resolved => Std.phase = "rolled_back"
  /\ \A t \in Threads :
       /\ pc[t] = "revert" =>
            /\ ~stale /\ held.to = exe /\ held.from = Std.from
            /\ OnTrial
       /\ pc[t] \in {"record", "mark"} =>
            /\ Std.phase = "pending"
            /\ held.from = install /\ held.to = Std.to /\ held.from = Std.from
       /\ pc[t] \in RollbackSteps => \A a \in Appliers : ~InApply(a)
  /\ pc["io"] = "confirm" =>
       /\ OnTrial /\ install \in proven
       /\ \A a \in Appliers : ~InApply(a)
  /\ pc["io"] = "confirm_prev" => Std.phase = "none"
  /\ pc["io"] = "report" => Std.phase = "rolled_back"

\* A trial is decided once: while resolved_ is false neither thread is deciding, and
\* the thread that set it is the only one at work.
ResolveInv ==
  /\ pc["main"] # "up" => pc["io"] = "idle" /\ pc["timer"] = "off" /\ wd = NoWatch
  /\ ~wd.resolved => pc["io"] = "idle" /\ pc["timer"] \in {"off", "waiting"}
  /\ pc["timer"] # "off" => wd.armed
  /\ wd.armed => ~wd.report
  /\ pc["timer"] \in RollbackSteps => pc["io"] = "idle"

IInv == MarkerInv /\ AgentInv /\ ApplyInv /\ TrialInv /\ ResolveInv /\ KnownGoodKept

\* do_rollback restores .prev only while the binary it reverts is still on
\* trial on disk: never after confirm() accepted it, whatever the order in which
\* the deadline, a rejection and STREAMS_READY arrive.
RevertOnlyOnTrial ==
  [][\A t \in Threads :
       pc[t] = "revert" /\ pc'[t] = "record" => OnTrial /\ prev \in proven]_vars

\* resolved_ lets one thread decide a trial: the io thread and the timer thread
\* are never both confirming, reporting or rolling back.
OneResolution ==
  pc["timer"] \in RollbackSteps =>
    pc["io"] \notin RollbackSteps \cup {"confirm", "confirm_prev", "report"}

\* A rolled_back marker tells the next boot the truth: the restored binary is the
\* one installed, and the reverted record names the version it was restored from.
RolledBackTellsTruth ==
  marker[AgentDir].phase = "rolled_back" =>
    /\ install = marker[AgentDir].from
    /\ reverted.version = marker[AgentDir].to

\* check_boot counts a boot of the binary on trial before anything else of the
\* agent runs, and never lets it run beyond the budget.
TrialRunsCounted ==
  pc["main"] = "up" /\ OnTrial /\ exe = install =>
    marker[AgentDir].attempts \in 1 .. MaxAttempts

\* The poll loop never puts back a version that was last reverted for a crash loop
\* or a rejection (skip_reverted_version: "never retry it"); the update resource may,
\* and a version that then works is no longer bad.
BadNeverRetried ==
  [][\A a \in Appliers \cap {"poller"} :
       ap[a].at = "marked" /\ install' # install => ap[a].to \notin bad]_vars

\* A trial ends: a binary that is installed and untried is confirmed or reverted.
TrialResolved == OnTrial /\ install \notin proven ~> install \in proven

\* The device as TrialProtocol sees it: the fallback is .prev for as long as the
\* agent's marker would bring it back.
Device == INSTANCE TrialProtocol WITH
  current <- install,
  fallback <- IF OnTrial THEN prev ELSE None,
  good <- proven

\* The files, markers and threads of the agent implement the trial protocol: what
\* apply_with_watchdog, confirm() and do_rollback do to the disk is a trial begun
\* from a good binary, accepted, or gone back from, and nothing else.
ImplementsTrial == Device!Spec

=============================================================================
