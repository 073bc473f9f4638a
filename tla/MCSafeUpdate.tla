---------------------------- MODULE MCSafeUpdate ----------------------------
(***************************************************************************)
(* Instances of SafeUpdate for TLC.                                        *)
(***************************************************************************)
EXTENDS SafeUpdate

CONSTANTS v1, v2, v3

\* What may go wrong in one agent process on a disk that takes every write.
AgentHazards ==
  {"crash_boot", "crash_run", "crash_rollback", "power_cut", "rename_fails", "sessions",
   "response_lost"}
=============================================================================
