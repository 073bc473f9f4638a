---------------------------- MODULE TrialProtocol ----------------------------
(***************************************************************************)
(* What the safe updater promises of a device, with no file, process or    *)
(* marker in it: the device runs a binary, may hold the one it replaced as *)
(* a fallback, and knows which binaries have worked on it.  A new binary   *)
(* is taken on trial only from one that works, the fallback is given up    *)
(* only once the current binary works, and a reversal is to the fallback.  *)
(***************************************************************************)
CONSTANTS Binary, None

VARIABLES
  current,   \* the binary a restart would run
  fallback,  \* the binary a failed trial goes back to, or None
  good       \* binaries that have worked on this device

vars == <<current, fallback, good>>

Init ==
  /\ current \in Binary
  /\ good = {current}
  /\ fallback = None

\* Take b on trial.
Begin(b) ==
  /\ fallback = None
  /\ current \in good
  /\ b # current
  /\ current' = b /\ fallback' = current
  /\ UNCHANGED good

\* Some binary is seen to work: the current one, or one whose process still runs.
Work(b) ==
  /\ good' = good \cup {b}
  /\ UNCHANGED <<current, fallback>>

\* The trial succeeded.
Accept ==
  /\ fallback # None
  /\ current \in good
  /\ fallback' = None
  /\ UNCHANGED <<current, good>>

\* The trial failed.
GoBack ==
  /\ fallback # None
  /\ current' = fallback /\ fallback' = None
  /\ UNCHANGED good

Next == (\E b \in Binary : Begin(b) \/ Work(b)) \/ Accept \/ GoBack

Spec == Init /\ [][Next]_vars

-----------------------------------------------------------------------------
TypeOK ==
  /\ current \in Binary
  /\ fallback \in Binary \cup {None}
  /\ good \subseteq Binary

\* The device can always run a binary that has worked on it: the current one or
\* the fallback.
AlwaysRecoverable == current \in good \/ fallback \in good
=============================================================================
