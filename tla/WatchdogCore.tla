---------------------------- MODULE WatchdogCore ----------------------------
(***************************************************************************)
(* The pure decisions of the rollback watchdog: what a process does with   *)
(* the update marker it finds at boot, what a client event means for a     *)
(* binary on trial, and when the poll loop leaves a reverted version       *)
(* alone.  They are the functions of update/watchdog_core.cpp, over the    *)
(* marker and the reverted record of update/update_marker.hpp.             *)
(*                                                                         *)
(* A version string is a member of Version.  Of a marker's fields the      *)
(* decisions read phase, to and attempts; from is carried for the rollback *)
(* record.  prev_binary is always install_path + ".prev" (updater.cpp:490) *)
(* and is left out, as are the timestamps and report_attempts, which no    *)
(* code reads.                                                             *)
(***************************************************************************)
EXTENDS Naturals

CONSTANTS
  Version,      \* version strings an agent can report
  None,         \* the absent version
  MaxAttempts   \* WATCHDOG_MAX_ATTEMPTS

ASSUME VersionAssumption == None \notin Version
ASSUME MaxAttemptsAssumption == MaxAttempts \in Nat \ {0}

Phases == {"none", "pending", "rolled_back"}

Markers == [phase : Phases,
            from : Version \cup {None},
            to : Version \cup {None},
            attempts : 0 .. MaxAttempts + 1]

\* No update.state file.  The code never writes a marker in phase none, and its
\* writes are atomic, so a file that cannot be read is left out.
NoMarker == [phase |-> "none", from |-> None, to |-> None, attempts |-> 0]

Reasons == {"crash_loop", "auth_failed", "deadline"}

RevertedRecords == [version : Version \cup {None}, reason : Reasons \cup {"none"}]

NoRecord == [version |-> None, reason |-> "none"]

-----------------------------------------------------------------------------

\* mutant: the attempts are not limited
BootAction_unlimited(m, running) ==
  CASE m.phase = "none"                             -> "clean_start"
    [] m.phase = "rolled_back"                      -> "report_rolled_back"
    [] m.phase = "pending" /\ running # m.to        -> "clear_no_revert"
    [] OTHER                                        -> "arm"

\* mutant: the running version is compared with from
BootAction_from(m, running) ==
  CASE m.phase = "none"                             -> "clean_start"
    [] m.phase = "rolled_back"                      -> "report_rolled_back"
    [] m.phase = "pending" /\ running # m.from      -> "clear_no_revert"
    [] OTHER                                        -> "arm"

(* boot_action chosen by decide_boot. *)
BootAction(m, running) ==
  CASE m.phase = "none"                                  -> "clean_start"
    [] m.phase = "rolled_back"                           -> "report_rolled_back"
    [] m.phase = "pending" /\ running # m.to             -> "clear_no_revert"
    [] m.phase = "pending" /\ running = m.to
         /\ m.attempts + 1 > MaxAttempts                 -> "rollback"
    [] OTHER                                             -> "arm"

BootMarker_uncounted(m, running) == m   \* mutant: the attempt is not counted

(* The marker decide_boot hands to its caller: one more attempt if the      *)
(* running binary is the swap target, the marker as read otherwise.         *)
BootMarker(m, running) ==
  IF BootAction(m, running) \in {"arm", "rollback"}
  THEN [m EXCEPT !.attempts = @ + 1]
  ELSE m

RuntimeEvents ==
  {"streams_ready", "auth_failed", "auth_failed_io", "state_other", "deadline"}

(* decide_runtime: only a server's rejection and the deadline revert.       *)
RuntimeAction(event) ==
  CASE event = "streams_ready"               -> "confirm"
    [] event \in {"auth_failed", "deadline"} -> "rollback"
    [] OTHER                                 -> "ignore"

\* mutant: the cooldown serves for every reason
SkipReverted_cooldown(rec, candidate, cooled) == rec.version = candidate /\ ~cooled

(* skip_reverted_version, with the age of the revert reduced to whether     *)
(* cooldown_s has elapsed since it was recorded.                            *)
SkipReverted(rec, candidate, cooled) ==
  /\ rec.version = candidate
  /\ rec.reason = "deadline" => ~cooled
=============================================================================
