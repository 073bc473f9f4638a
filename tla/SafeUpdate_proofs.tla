-------------------------- MODULE SafeUpdate_proofs --------------------------
(***************************************************************************)
(* Theorems about SafeUpdate, for any set of binaries, any attempt budget  *)
(* and any set of appliers and hazards their assumptions allow.            *)
(***************************************************************************)
EXTENDS SafeUpdate, TLAPS

-----------------------------------------------------------------------------
(* The values the actions are built from have their types.                  *)

LEMMA NoMarkerType == NoMarker \in Markers /\ NoMarker.phase = "none"
BY MaxAttemptsAssumption DEF NoMarker, Markers, Phases

LEMMA NoRecordType == NoRecord \in RevertedRecords
BY DEF NoRecord, RevertedRecords

\* A process that is down has every thread at a step of its own.
LEMMA AllDownType ==
  /\ AllDown \in [Threads -> MainSteps \cup IoSteps \cup TimerSteps]
  /\ AllDown["main"] = "down" /\ AllDown["io"] = "idle" /\ AllDown["timer"] = "off"
  /\ "down" \in MainSteps /\ "idle" \in IoSteps /\ "off" \in TimerSteps
  /\ \A t \in Threads : AllDown[t] \notin RollbackSteps
BY DEF AllDown, Threads, MainSteps, IoSteps, TimerSteps, RollbackSteps

LEMMA NoApplyType == NoApply \in Apply
BY DEF NoApply, Apply, ApplySteps

\* apply_with_watchdog writes a marker with no attempt counted.
LEMMA PendingMarkerType ==
  ASSUME TypeOK, NEW a \in Appliers
  PROVE  PendingMarker(a) \in Markers /\ PendingMarker(a).attempts <= MaxAttempts
BY BinaryAssumption, MaxAttemptsAssumption
   DEF PendingMarker, Markers, Phases, TypeOK, OutsideType, Apply

LEMMA RolledBackMarkerType ==
  \A m \in Markers : /\ [m EXCEPT !.phase = "rolled_back"] \in Markers
                     /\ [m EXCEPT !.phase = "rolled_back"].phase = "rolled_back"
BY DEF Markers, Phases

\* What decide_boot returns stays a marker, and within the budget when the boot
\* goes on.
LEMMA BootMarkerType ==
  ASSUME NEW m \in Markers, NEW running,
         m.phase = "pending" => m.attempts <= MaxAttempts
  PROVE  /\ BootMarker(m, running) \in Markers
         /\ BootAction(m, running) = "arm" => BootMarker(m, running).attempts <= MaxAttempts
BY MaxAttemptsAssumption DEF Markers, Phases, BootMarker, BootAction

-----------------------------------------------------------------------------
(* Type correctness, whatever goes wrong.                                   *)

LEMMA InitType == Init => TypeOK /\ AttemptsInv
<1> SUFFICES ASSUME Init  PROVE TypeOK /\ AttemptsInv
  OBVIOUS
<1>1. DiskType
  BY NoMarkerType, NoRecordType, BinaryAssumption DEF Init, DiskType, Files
<1>2. ThreadType
  BY AllDownType DEF Init, ThreadType
<1>3. AgentType
  BY NoMarkerType DEF Init, AgentType, NoWatch
<1>4. OutsideType
  BY NoApplyType, BinaryAssumption DEF Init, OutsideType
<1>5. AttemptsInv
  BY NoMarkerType DEF Init, AttemptsInv
<1> QED
  BY <1>1, <1>2, <1>3, <1>4, <1>5 DEF TypeOK

\* An applier, whoever it is.
LEMMA ApplyingType ==
  ASSUME TypeOK, AttemptsInv, NEW a \in Appliers, Applying(a)
  PROVE  TypeOK' /\ AttemptsInv'
<1>0. DiskType /\ ThreadType /\ AgentType /\ OutsideType
  BY DEF TypeOK
<1>1. ASSUME a = "poller", Poll  PROVE TypeOK' /\ AttemptsInv'
  <2>1. OutsideType'
    BY <1>0, <1>1, NoApplyType DEF Poll, OutsideType, Apply, ApplySteps, history
  <2> QED
    BY <1>0, <1>1, <2>1
       DEF TypeOK, Poll, DiskType, ThreadType, AgentType, AttemptsInv, disk, agent, history
<1>2. ASSUME a = "poller", PollEnds  PROVE TypeOK' /\ AttemptsInv'
  <2>1. OutsideType'
    BY <1>0, <1>2, NoApplyType DEF PollEnds, OutsideType, history
  <2> QED
    BY <1>0, <1>2, <2>1
       DEF TypeOK, PollEnds, DiskType, ThreadType, AgentType, AttemptsInv, disk, agent, history
<1>3. ASSUME NEW v \in Binary, ApplyBegin(a, v)  PROVE TypeOK' /\ AttemptsInv'
  <2>1. OutsideType'
    BY <1>0, <1>3 DEF ApplyBegin, OutsideType, Apply, ApplySteps, history
  <2> QED
    BY <1>0, <1>3, <2>1
       DEF TypeOK, ApplyBegin, DiskType, ThreadType, AgentType, AttemptsInv, disk, agent,
           history
<1>4. ASSUME NEW b \in Binary, ApplyFetch(a, b)  PROVE TypeOK' /\ AttemptsInv'
  <2>1. DiskType'
    BY <1>0, <1>4 DEF ApplyFetch, DiskType, Unwritten, Files
  <2>2. OutsideType'
    BY <1>0, <1>4 DEF ApplyFetch, OutsideType, Apply, ApplySteps, history
  <2> QED
    BY <1>0, <1>4, <2>1, <2>2
       DEF TypeOK, ApplyFetch, ThreadType, AgentType, AttemptsInv, disk, agent, history
<1>5. CASE ApplyGiveUp(a)
  <2>1. DiskType'
    BY <1>0, <1>5 DEF ApplyGiveUp, DiskType, Files
  <2>2. OutsideType'
    BY <1>0, <1>5, NoApplyType DEF ApplyGiveUp, OutsideType, history
  <2> QED
    BY <1>0, <1>5, <2>1, <2>2
       DEF TypeOK, ApplyGiveUp, ThreadType, AgentType, AttemptsInv, disk, agent, history
<1>6. CASE ApplyBackup(a)
  <2>1. DiskType'
    BY <1>0, <1>6 DEF ApplyBackup, DiskType, Unwritten, Files
  <2>2. OutsideType'
    BY <1>0, <1>6 DEF ApplyBackup, OutsideType, Apply, ApplySteps, history
  <2> QED
    BY <1>0, <1>6, <2>1, <2>2
       DEF TypeOK, ApplyBackup, ThreadType, AgentType, AttemptsInv, disk, agent, history
<1>7. CASE ApplyMark(a)
  <2>1. DiskType'
    BY <1>0, <1>7, PendingMarkerType DEF ApplyMark, DiskType, TypeOK
  <2>2. OutsideType'
    BY <1>0, <1>7 DEF ApplyMark, OutsideType, Apply, ApplySteps, history
  <2>3. AttemptsInv'
    BY <1>0, <1>7, PendingMarkerType DEF ApplyMark, AttemptsInv, TypeOK, DiskType
  <2> QED
    BY <1>0, <1>7, <2>1, <2>2, <2>3
       DEF TypeOK, ApplyMark, ThreadType, AgentType, disk, agent, history
<1>8. CASE ApplyMarkFails(a)
  <2>1. DiskType'
    BY <1>0, <1>8 DEF ApplyMarkFails, DiskType, Files
  <2>2. OutsideType'
    BY <1>0, <1>8, NoApplyType DEF ApplyMarkFails, OutsideType, history
  <2> QED
    BY <1>0, <1>8, <2>1, <2>2
       DEF TypeOK, ApplyMarkFails, ThreadType, AgentType, AttemptsInv, disk, agent, history
<1>9. CASE ApplySwap(a)
  <2>1. DiskType'
    BY <1>0, <1>9 DEF ApplySwap, DiskType, Files
  <2>2. AgentType'
    BY <1>0, <1>9 DEF ApplySwap, AgentType
  <2>3. OutsideType'
    BY <1>0, <1>9, NoApplyType DEF ApplySwap, OutsideType, history
  <2> QED
    BY <1>0, <1>9, <2>1, <2>2, <2>3
       DEF TypeOK, ApplySwap, ThreadType, AttemptsInv, disk, agent, history
<1>10. CASE ApplySwapFails(a)
  <2>1. DiskType'
    BY <1>0, <1>10, NoMarkerType DEF ApplySwapFails, DiskType, Files
  <2>2. OutsideType'
    BY <1>0, <1>10, NoApplyType DEF ApplySwapFails, OutsideType, history
  <2>3. AttemptsInv'
    BY <1>0, <1>10, NoMarkerType DEF ApplySwapFails, AttemptsInv, DiskType
  <2> QED
    BY <1>0, <1>10, <2>1, <2>2, <2>3
       DEF TypeOK, ApplySwapFails, ThreadType, AgentType, disk, agent, history
<1> QED
  BY <1>1, <1>2, <1>3, <1>4, <1>5, <1>6, <1>7, <1>8, <1>9, <1>10 DEF Applying

\* A step of do_rollback.
LEMMA RollbackType ==
  ASSUME TypeOK, AttemptsInv, NEW t \in Threads, Rollback(t)
  PROVE  TypeOK' /\ AttemptsInv'
<1>0. DiskType /\ ThreadType /\ AgentType /\ OutsideType
  BY DEF TypeOK
<1>1. CASE Revert(t)
  <2>1. DiskType'
    BY <1>0, <1>1 DEF Revert, DiskType, Files
  <2>2. ThreadType'
    BY <1>0, <1>1 DEF Revert, ThreadType, Threads, MainSteps, IoSteps, TimerSteps, RollbackSteps
  <2>3. AgentType'
    BY <1>0, <1>1 DEF Revert, AgentType
  <2>4. OutsideType'
    BY <1>0, <1>1, BinaryAssumption DEF Revert, OutsideType, AgentType, Markers, history
  <2> QED
    BY <1>0, <1>1, <2>1, <2>2, <2>3, <2>4 DEF TypeOK, Revert, AttemptsInv, disk, agent, history
<1>2. CASE RevertFails(t)
  <2>1. ThreadType'
    BY <1>0, <1>2
       DEF RevertFails, ThreadType, AfterFailedRevert, Threads, MainSteps, IoSteps, TimerSteps,
           RollbackSteps
  <2> QED
    BY <1>0, <1>2, <2>1
       DEF TypeOK, RevertFails, DiskType, AgentType, OutsideType, AttemptsInv, disk, agent,
           history
<1>3. CASE Record(t)
  <2>1. DiskType'
    BY <1>0, <1>3 DEF Record, DiskType, AgentType, RevertedRecords, RevertedRecord, Markers
  <2>2. ThreadType'
    BY <1>0, <1>3 DEF Record, ThreadType, Threads, MainSteps, IoSteps, TimerSteps, RollbackSteps
  <2>3. OutsideType'
    BY <1>0, <1>3 DEF Record, OutsideType, history
  <2> QED
    BY <1>0, <1>3, <2>1, <2>2, <2>3
       DEF TypeOK, Record, AgentType, AttemptsInv, disk, agent, history
<1>4. CASE MarkRolledBack(t)
  <2>1. DiskType'
    BY <1>0, <1>4, RolledBackMarkerType DEF MarkRolledBack, DiskType, AgentType
  <2>2. ThreadType'
    BY <1>0, <1>4, AllDownType
       DEF MarkRolledBack, ThreadType, AgentGone, Threads, MainSteps, IoSteps, TimerSteps,
           RollbackSteps
  <2>3. AgentType'
    <3>1. CASE t = "main"
      <4>1. AgentGone
        BY <1>4, <3>1 DEF MarkRolledBack
      <4> QED
        BY <1>0, <4>1, NoMarkerType DEF AgentType, AgentGone, NoWatch
    <3>2. CASE t # "main"
      BY <1>0, <1>4, <3>2 DEF MarkRolledBack, AgentType
    <3> QED
      BY <3>1, <3>2
  <2>4. OutsideType'
    BY <1>0, <1>4 DEF MarkRolledBack, OutsideType, AgentGone, history
  <2>5. AttemptsInv'
    BY <1>0, <1>4, RolledBackMarkerType DEF MarkRolledBack, AttemptsInv, DiskType, AgentType
  <2> QED
    BY <1>0, <1>4, <2>1, <2>2, <2>3, <2>4, <2>5
       DEF TypeOK, MarkRolledBack, disk, agent, history, AgentGone
<1> QED
  BY <1>1, <1>2, <1>3, <1>4 DEF Rollback

\* The boot of the agent.
LEMMA BootType ==
  ASSUME TypeOK, AttemptsInv, Boot
  PROVE  TypeOK' /\ AttemptsInv'
<1>0. DiskType /\ ThreadType /\ AgentType /\ OutsideType
  BY DEF TypeOK
<1>1. CASE Start
  <2>1. ThreadType'
    BY <1>0, <1>1 DEF Start, ThreadType, Threads, MainSteps, IoSteps, TimerSteps, RollbackSteps
  <2>2. AgentType'
    BY <1>0, <1>1 DEF Start, AgentType
  <2>3. OutsideType'
    BY <1>0, <1>1 DEF Start, OutsideType, history
  <2> QED
    BY <1>0, <1>1, <2>1, <2>2, <2>3
       DEF TypeOK, Start, DiskType, AttemptsInv, disk, agent, history
<1>2. CASE CheckProceed
  <2>1. ThreadType'
    BY <1>0, <1>2
       DEF CheckProceed, ThreadType, Threads, MainSteps, IoSteps, TimerSteps, RollbackSteps
  <2>2. OutsideType'
    BY <1>0, <1>2 DEF CheckProceed, OutsideType, history
  <2> QED
    BY <1>0, <1>2, <2>1, <2>2
       DEF TypeOK, CheckProceed, DiskType, AgentType, AttemptsInv, disk, agent, history
<1>3. CASE CheckClear
  <2>1. DiskType'
    BY <1>0, <1>3, NoMarkerType DEF CheckClear, DiskType
  <2>2. ThreadType'
    BY <1>0, <1>3
       DEF CheckClear, ThreadType, Threads, MainSteps, IoSteps, TimerSteps, RollbackSteps
  <2>3. AttemptsInv'
    BY <1>0, <1>3, NoMarkerType DEF CheckClear, AttemptsInv, DiskType
  <2> QED
    BY <1>0, <1>3, <2>1, <2>2, <2>3
       DEF TypeOK, CheckClear, AgentType, OutsideType, disk, agent, history
<1>4. CASE ClearPrev
  <2>1. DiskType'
    BY <1>0, <1>4 DEF ClearPrev, DiskType, Files
  <2>2. ThreadType'
    BY <1>0, <1>4
       DEF ClearPrev, ThreadType, Threads, MainSteps, IoSteps, TimerSteps, RollbackSteps
  <2> QED
    BY <1>0, <1>4, <2>1, <2>2
       DEF TypeOK, ClearPrev, AgentType, OutsideType, AttemptsInv, disk, agent, history
<1>5. CASE CheckArm
  <2>1. DiskType'
    BY <1>0, <1>5, SettingAssumption, BootMarkerType
       DEF CheckArm, DiskType, BootChoice, AttemptsInv
  <2>2. ThreadType'
    BY <1>0, <1>5
       DEF CheckArm, ThreadType, Threads, MainSteps, IoSteps, TimerSteps, RollbackSteps
  <2>3. AttemptsInv'
    BY <1>0, <1>5, SettingAssumption, BootMarkerType
       DEF CheckArm, AttemptsInv, DiskType, BootChoice
  <2> QED
    BY <1>0, <1>5, <2>1, <2>2, <2>3
       DEF TypeOK, CheckArm, AgentType, OutsideType, disk, agent, history
<1>6. CASE CheckRollback
  <2>1. ThreadType'
    BY <1>0, <1>6
       DEF CheckRollback, ThreadType, Threads, MainSteps, IoSteps, TimerSteps, RollbackSteps
  <2>2. AgentType'
    BY <1>0, <1>6, SettingAssumption, BootMarkerType
       DEF CheckRollback, AgentType, AttemptsInv, DiskType, Reasons
  <2> QED
    BY <1>0, <1>6, <2>1, <2>2
       DEF TypeOK, CheckRollback, DiskType, OutsideType, AttemptsInv, disk, agent, history
<1>7. CASE Construct
  <2>1. ThreadType'
    BY <1>0, <1>7
       DEF Construct, ThreadType, Threads, MainSteps, IoSteps, TimerSteps, RollbackSteps
  <2>2. AgentType'
    BY <1>0, <1>7, SettingAssumption DEF Construct, AgentType, DiskType, Armed
  <2> QED
    BY <1>0, <1>7, <2>1, <2>2
       DEF TypeOK, Construct, DiskType, OutsideType, AttemptsInv, disk, agent, history
<1> QED
  BY <1>1, <1>2, <1>3, <1>4, <1>5, <1>6, <1>7 DEF Boot

\* Client events, the deadline and the end of the process.
LEMMA RunTimeType ==
  ASSUME TypeOK, AttemptsInv, RunTime
  PROVE  TypeOK' /\ AttemptsInv'
<1>0. DiskType /\ ThreadType /\ AgentType /\ OutsideType
  BY DEF TypeOK
<1>1. CASE StreamsReady
  <2>1. ThreadType'
    BY <1>0, <1>1
       DEF StreamsReady, ThreadType, Threads, MainSteps, IoSteps, TimerSteps, RollbackSteps
  <2>2. AgentType'
    BY <1>0, <1>1 DEF StreamsReady, AgentType
  <2>3. OutsideType'
    BY <1>0, <1>1, BinaryAssumption DEF StreamsReady, OutsideType, history
  <2> QED
    BY <1>0, <1>1, <2>1, <2>2, <2>3
       DEF TypeOK, StreamsReady, DiskType, AttemptsInv, disk, agent, history
<1>2. CASE ReportRolledBack
  <2>1. DiskType'
    BY <1>0, <1>2, NoMarkerType DEF ReportRolledBack, DiskType
  <2>2. ThreadType'
    BY <1>0, <1>2
       DEF ReportRolledBack, ThreadType, Threads, MainSteps, IoSteps, TimerSteps, RollbackSteps
  <2>3. AgentType'
    BY <1>0, <1>2 DEF ReportRolledBack, AgentType
  <2>4. OutsideType'
    BY <1>0, <1>2 DEF ReportRolledBack, OutsideType, history
  <2>5. AttemptsInv'
    BY <1>0, <1>2, NoMarkerType DEF ReportRolledBack, AttemptsInv, DiskType
  <2> QED
    BY <1>0, <1>2, <2>1, <2>2, <2>3, <2>4, <2>5
       DEF TypeOK, ReportRolledBack, disk, agent, history
<1>3. CASE Confirm
  <2>1. DiskType'
    BY <1>0, <1>3, NoMarkerType DEF Confirm, DiskType
  <2>2. ThreadType'
    BY <1>0, <1>3
       DEF Confirm, ThreadType, Threads, MainSteps, IoSteps, TimerSteps, RollbackSteps
  <2>3. AttemptsInv'
    BY <1>0, <1>3, NoMarkerType DEF Confirm, AttemptsInv, DiskType
  <2> QED
    BY <1>0, <1>3, <2>1, <2>2, <2>3
       DEF TypeOK, Confirm, AgentType, OutsideType, disk, agent, history
<1>4. CASE ConfirmPrev
  <2>1. DiskType'
    BY <1>0, <1>4 DEF ConfirmPrev, DiskType, Files
  <2>2. ThreadType'
    BY <1>0, <1>4
       DEF ConfirmPrev, ThreadType, Threads, MainSteps, IoSteps, TimerSteps, RollbackSteps
  <2>3. AgentType'
    BY <1>0, <1>4 DEF ConfirmPrev, AgentType
  <2> QED
    BY <1>0, <1>4, <2>1, <2>2, <2>3
       DEF TypeOK, ConfirmPrev, OutsideType, AttemptsInv, disk, agent, history
<1>5. ASSUME NEW event \in RuntimeEvents \ {"streams_ready", "deadline"}, Disconnected(event)
      PROVE  TypeOK' /\ AttemptsInv'
  <2>1. ThreadType'
    BY <1>0, <1>5
       DEF Disconnected, ThreadType, Threads, MainSteps, IoSteps, TimerSteps, RollbackSteps
  <2>2. AgentType'
    BY <1>0, <1>5 DEF Disconnected, AgentType, Reasons
  <2> QED
    BY <1>0, <1>5, <2>1, <2>2
       DEF TypeOK, Disconnected, DiskType, OutsideType, AttemptsInv, disk, agent, history
<1>6. CASE Deadline
  <2>1. ThreadType'
    BY <1>0, <1>6
       DEF Deadline, ThreadType, Threads, MainSteps, IoSteps, TimerSteps, RollbackSteps
  <2>2. AgentType'
    BY <1>0, <1>6 DEF Deadline, AgentType, Reasons
  <2> QED
    BY <1>0, <1>6, <2>1, <2>2
       DEF TypeOK, Deadline, DiskType, OutsideType, AttemptsInv, disk, agent, history
<1>7. CASE Stop
  <2>1. ThreadType'
    BY <1>0, <1>7, AllDownType DEF Stop, ThreadType, AgentGone
  <2>2. AgentType'
    BY <1>0, <1>7, NoMarkerType DEF Stop, AgentType, AgentGone, NoWatch
  <2>3. OutsideType'
    BY <1>0, <1>7, NoApplyType DEF Stop, OutsideType, AgentGone, ApplierGone, history
  <2> QED
    BY <1>0, <1>7, <2>1, <2>2, <2>3
       DEF TypeOK, Stop, DiskType, AttemptsInv, disk, agent, history, AgentGone
<1> QED
  BY <1>1, <1>2, <1>3, <1>4, <1>5, <1>6, <1>7 DEF RunTime

\* Crashes, power cuts and the passing of time.
LEMMA EnvironmentType ==
  ASSUME TypeOK, AttemptsInv, Environment
  PROVE  TypeOK' /\ AttemptsInv'
<1>0. DiskType /\ ThreadType /\ AgentType /\ OutsideType
  BY DEF TypeOK
<1>1. CASE Crash
  <2>1. ThreadType'
    BY <1>0, <1>1, AllDownType DEF Crash, ThreadType, AgentGone
  <2>2. AgentType'
    BY <1>0, <1>1, NoMarkerType DEF Crash, AgentType, AgentGone, NoWatch
  <2>3. OutsideType'
    BY <1>0, <1>1, NoApplyType DEF Crash, OutsideType, AgentGone, ApplierGone, history
  <2> QED
    BY <1>0, <1>1, <2>1, <2>2, <2>3
       DEF TypeOK, Crash, DiskType, AttemptsInv, disk, agent, history, AgentGone
<1>2. CASE PowerCut
  <2>1. DiskType'
    BY <1>0, <1>2 DEF PowerCut, DiskType
  <2>2. ThreadType'
    BY <1>0, <1>2, AllDownType DEF PowerCut, ThreadType, AgentGone
  <2>3. AgentType'
    BY <1>0, <1>2, NoMarkerType DEF PowerCut, AgentType, AgentGone, NoWatch
  <2>4. OutsideType'
    BY <1>0, <1>2, NoApplyType DEF PowerCut, OutsideType, AgentGone, ApplierGone, history
  <2> QED
    BY <1>0, <1>2, <2>1, <2>2, <2>3, <2>4
       DEF TypeOK, PowerCut, AttemptsInv, disk, agent, history, AgentGone
<1>3. CASE WriteBack
  <2>1. DiskType'
    BY <1>0, <1>3 DEF WriteBack, DiskType
  <2> QED
    BY <1>0, <1>3, <2>1
       DEF TypeOK, WriteBack, ThreadType, AgentType, OutsideType, AttemptsInv, disk, agent,
           history
<1>4. CASE CooldownPasses
  <2>1. OutsideType'
    BY <1>0, <1>4 DEF CooldownPasses, OutsideType, history
  <2> QED
    BY <1>0, <1>4, <2>1
       DEF TypeOK, CooldownPasses, DiskType, ThreadType, AgentType, AttemptsInv, disk, agent,
           history
<1>5. CASE Session
  <2>1. OutsideType'
    BY <1>0, <1>5 DEF Session, OutsideType, history
  <2> QED
    BY <1>0, <1>5, <2>1
       DEF TypeOK, Session, DiskType, ThreadType, AgentType, AttemptsInv, disk, agent, history
<1>6. CASE CrashCli
  <2>1. OutsideType'
    BY <1>0, <1>6, NoApplyType DEF CrashCli, OutsideType, ApplierGone, history
  <2> QED
    BY <1>0, <1>6, <2>1
       DEF TypeOK, CrashCli, DiskType, ThreadType, AgentType, AttemptsInv, disk, agent, history
<1> QED
  BY <1>1, <1>2, <1>3, <1>4, <1>5, <1>6 DEF Environment

LEMMA TypeStep == TypeOK /\ AttemptsInv /\ [Next]_vars => TypeOK' /\ AttemptsInv'
<1> SUFFICES ASSUME TypeOK, AttemptsInv, [Next]_vars  PROVE TypeOK' /\ AttemptsInv'
  OBVIOUS
<1>1. CASE UNCHANGED vars
  BY <1>1
     DEF TypeOK, AttemptsInv, DiskType, ThreadType, AgentType, OutsideType, vars, disk, agent,
         history
<1> QED
  BY <1>1, ApplyingType, RollbackType, BootType, RunTimeType, EnvironmentType DEF Next

\* Every variable keeps its type in every behaviour of the updater, whatever
\* crashes, write errors or power cuts it meets: in particular the attempts that
\* check_boot counts never exceed the budget by more than the boot that reverts.
THEOREM TypeCorrect == Spec => []TypeOK
<1>1. Init => TypeOK /\ AttemptsInv
  BY InitType
<1>2. TypeOK /\ AttemptsInv /\ [Next]_vars => (TypeOK /\ AttemptsInv)'
  BY TypeStep
<1> QED
  BY <1>1, <1>2, PTL DEF Spec

-----------------------------------------------------------------------------
(* One thread decides a trial, whatever goes wrong.                         *)

\* A step that changes neither what a thread is about to do nor the watchdog keeps
\* ResolveInv; each other one is looked at.
LEMMA ResolveStep == TypeOK /\ ResolveInv /\ [Next]_vars => ResolveInv'
<1> SUFFICES ASSUME TypeOK, ResolveInv, [Next]_vars  PROVE ResolveInv'
  OBVIOUS
<1>0. ThreadType /\ AgentType
  BY DEF TypeOK
<1>1. ASSUME NEW t \in Threads, Revert(t)  PROVE ResolveInv'
  BY <1>0, <1>1 DEF Revert, ResolveInv, ThreadType, Threads, RollbackSteps
<1>2. ASSUME NEW t \in Threads, RevertFails(t)  PROVE ResolveInv'
  BY <1>0, <1>2
     DEF RevertFails, AfterFailedRevert, ResolveInv, ThreadType, Threads, RollbackSteps
<1>3. ASSUME NEW t \in Threads, Record(t)  PROVE ResolveInv'
  BY <1>0, <1>3 DEF Record, ResolveInv, ThreadType, Threads, RollbackSteps
<1>4. ASSUME NEW t \in Threads, MarkRolledBack(t)  PROVE ResolveInv'
  BY <1>0, <1>4, AllDownType
     DEF MarkRolledBack, AgentGone, ResolveInv, ThreadType, Threads, RollbackSteps, AgentType,
         NoWatch
<1>5. CASE Start
  BY <1>0, <1>5 DEF Start, ResolveInv, ThreadType, Threads, RollbackSteps, NoWatch
<1>6. CASE CheckProceed
  BY <1>0, <1>6 DEF CheckProceed, ResolveInv, ThreadType, Threads, RollbackSteps, NoWatch
<1>7. CASE CheckClear
  BY <1>0, <1>7 DEF CheckClear, ResolveInv, ThreadType, Threads, RollbackSteps, NoWatch
<1>8. CASE ClearPrev
  BY <1>0, <1>8 DEF ClearPrev, ResolveInv, ThreadType, Threads, RollbackSteps, NoWatch
<1>9. CASE CheckArm
  BY <1>0, <1>9 DEF CheckArm, ResolveInv, ThreadType, Threads, RollbackSteps, NoWatch
<1>10. CASE CheckRollback
  BY <1>0, <1>10 DEF CheckRollback, ResolveInv, ThreadType, Threads, RollbackSteps, NoWatch
<1>11. CASE Construct
  BY <1>0, <1>11 DEF Construct, Armed, ResolveInv, ThreadType, Threads, RollbackSteps, NoWatch
<1>12. CASE StreamsReady
  BY <1>0, <1>12
     DEF StreamsReady, IoReady, Undecided, ResolveInv, ThreadType, Threads, RollbackSteps,
         AgentType
<1>13. CASE ReportRolledBack
  BY <1>0, <1>13 DEF ReportRolledBack, ResolveInv, ThreadType, Threads, RollbackSteps, AgentType
<1>14. CASE Confirm
  BY <1>0, <1>14 DEF Confirm, ResolveInv, ThreadType, Threads, RollbackSteps
<1>15. CASE ConfirmPrev
  BY <1>0, <1>15 DEF ConfirmPrev, ResolveInv, ThreadType, Threads, RollbackSteps
<1>16. ASSUME NEW event \in RuntimeEvents \ {"streams_ready", "deadline"}, Disconnected(event)
      PROVE  ResolveInv'
  BY <1>0, <1>16
     DEF Disconnected, IoReady, Undecided, ResolveInv, ThreadType, Threads, RollbackSteps,
         AgentType
<1>17. CASE Deadline
  BY <1>0, <1>17
     DEF Deadline, Undecided, ResolveInv, ThreadType, Threads, RollbackSteps, AgentType
<1>18. CASE Stop
  BY <1>0, <1>18, AllDownType
     DEF Stop, AgentGone, ResolveInv, ThreadType, Threads, RollbackSteps, NoWatch
<1>19. CASE Crash
  BY <1>0, <1>19, AllDownType
     DEF Crash, AgentGone, ResolveInv, ThreadType, Threads, RollbackSteps, NoWatch
<1>20. CASE PowerCut
  BY <1>0, <1>20, AllDownType
     DEF PowerCut, AgentGone, ResolveInv, ThreadType, Threads, RollbackSteps, NoWatch
<1>21. CASE UNCHANGED <<pc, wd>>
  BY <1>21 DEF ResolveInv
<1> QED
  BY <1>1, <1>2, <1>3, <1>4, <1>5, <1>6, <1>7, <1>8, <1>9, <1>10, <1>11, <1>12, <1>13, <1>14,
     <1>15, <1>16, <1>17, <1>18, <1>19, <1>20, <1>21
     DEF Next, Applying, Rollback, Boot, RunTime, Environment, vars, agent, Poll, PollEnds,
         ApplyBegin, ApplyFetch, ApplyGiveUp, ApplyBackup, ApplyMark, ApplyMarkFails, ApplySwap,
         ApplySwapFails, CrashCli, WriteBack, CooldownPasses, Session

\* resolved_ does what update_watchdog.hpp says of it: of the deadline, a
\* rejection and STREAMS_READY one decides the trial, and no two threads confirm,
\* report or roll back at the same time.
THEOREM TrialDecidedOnce == Spec => []OneResolution
<1>1. Init => ResolveInv
  BY AllDownType DEF Init, ResolveInv, NoWatch, RollbackSteps
<1>2. TypeOK /\ ResolveInv /\ [Next]_vars => ResolveInv'
  BY ResolveStep
<1>3. ResolveInv => OneResolution
  BY DEF ResolveInv, OneResolution, RollbackSteps
<1> QED
  BY <1>1, <1>2, <1>3, TypeCorrect, PTL DEF Spec

-----------------------------------------------------------------------------
(* A good binary is kept, on sound storage.                                 *)

\* The agent is alone with its state directory, a power cut loses no file data, the
\* channel serves what its manifest names, and no apply gets through its download
\* while confirm() goes from one unlink to the next.
Sound ==
  /\ "cli" \notin Appliers
  /\ AgentDir = "std"
  /\ "skew" \notin Hazards /\ "data_loss" \notin Hazards /\ "slow_confirm" \notin Hazards

LEMMA InitInv == Sound /\ Init => IInv
<1> SUFFICES ASSUME Sound, Init  PROVE IInv
  OBVIOUS
<1>1. MarkerInv /\ KnownGoodKept
  BY NoMarkerType DEF Init, MarkerInv, AttemptsInv, KnownGoodKept, OnTrial, Std, Dirs, Sound
<1>2. AgentInv /\ ApplyInv
  BY AllDownType DEF Init, AgentInv, ApplyInv, InApply, NoApply
<1>3. TrialInv /\ ResolveInv
  BY AllDownType DEF Init, TrialInv, ResolveInv, NoWatch, RollbackSteps
<1> QED
  BY <1>1, <1>2, <1>3 DEF IInv

\* An applier, whoever it is.
LEMMA ApplyingStep ==
  ASSUME Sound, TypeOK, TypeOK', IInv, NEW a \in Appliers, Applying(a)
  PROVE  IInv'
<1>1. ASSUME a = "poller", Poll  PROVE IInv'
  <2>1. AgentInv'
    BY <1>1 DEF Poll, IInv, AgentInv, disk, agent
  <2>2. ApplyInv'
    BY <1>1 DEF Poll, IInv, ApplyInv, InApply, Std, disk, agent
  <2>3. TrialInv'
    BY <1>1 DEF Poll, IInv, TrialInv, InApply, OnTrial, Std, disk, agent, history
  <2> QED
    BY <1>1, <2>1, <2>2, <2>3
       DEF IInv, Poll, MarkerInv, ResolveInv, KnownGoodKept, AttemptsInv, OnTrial, Std, disk,
           agent, history
<1>2. ASSUME a = "poller", PollEnds  PROVE IInv'
  <2>1. AgentInv'
    BY <1>2 DEF PollEnds, IInv, AgentInv, InApply, Std, NoApply, disk, agent
  <2>2. ApplyInv'
    BY <1>2 DEF PollEnds, IInv, ApplyInv, InApply, Std, NoApply, disk, agent
  <2>3. TrialInv'
    BY <1>2 DEF PollEnds, IInv, TrialInv, InApply, OnTrial, Std, NoApply, disk, agent, history
  <2> QED
    BY <1>2, <2>1, <2>2, <2>3
       DEF IInv, PollEnds, MarkerInv, ResolveInv, KnownGoodKept, AttemptsInv, OnTrial, Std,
           disk, agent, history
<1>3. ASSUME NEW v \in Binary, ApplyBegin(a, v)  PROVE IInv'
  <2>1. AgentInv'
    BY <1>3 DEF ApplyBegin, IInv, AgentInv, Sound, disk, agent
  <2>2. ApplyInv'
    BY <1>3, SettingAssumption
       DEF ApplyBegin, IInv, ApplyInv, AgentInv, Sound, SameProcess, InAgent, DirOf, InApply,
           Std, TypeOK, OutsideType, Apply, disk, agent
  <2>3. TrialInv'
    BY <1>3
       DEF ApplyBegin, IInv, TrialInv, Sound, DirOf, OnTrial, Std, RollbackSteps, disk, agent
  <2> QED
    BY <1>3, <2>1, <2>2, <2>3
       DEF IInv, ApplyBegin, MarkerInv, ResolveInv, KnownGoodKept, AttemptsInv, OnTrial, Std,
           disk, agent, history
<1>4. ASSUME NEW b \in Binary, ApplyFetch(a, b)  PROVE IInv'
  <2>1. MarkerInv'
    BY <1>4
       DEF ApplyFetch, IInv, MarkerInv, Sound, Unwritten, AttemptsInv, OnTrial, Std, history
  <2>2. AgentInv'
    BY <1>4 DEF ApplyFetch, IInv, AgentInv, InApply, agent
  <2>3. ApplyInv'
    BY <1>4 DEF ApplyFetch, IInv, ApplyInv, Sound, InApply, Std, agent
  <2>4. TrialInv'
    BY <1>4 DEF ApplyFetch, IInv, TrialInv, InApply, OnTrial, Std, agent
  <2> QED
    BY <1>4, <2>1, <2>2, <2>3, <2>4
       DEF IInv, ApplyFetch, ResolveInv, KnownGoodKept, OnTrial, disk, agent, history
<1>5. CASE ApplyGiveUp(a)
  <2>1. MarkerInv'
    BY <1>5 DEF ApplyGiveUp, IInv, MarkerInv, AttemptsInv, OnTrial, Std, history
  <2>2. AgentInv'
    BY <1>5 DEF ApplyGiveUp, IInv, AgentInv, InApply, agent
  <2>3. ApplyInv'
    BY <1>5 DEF ApplyGiveUp, IInv, ApplyInv, TypeOK, InApply, OutsideType, NoApply
  <2>4. TrialInv'
    BY <1>5 DEF ApplyGiveUp, IInv, TrialInv, InApply, OnTrial, Std, agent
  <2> QED
    BY <1>5, <2>1, <2>2, <2>3, <2>4
       DEF IInv, ApplyGiveUp, ResolveInv, KnownGoodKept, OnTrial, disk, agent, history
<1>6. CASE ApplyBackup(a)
  <2>1. MarkerInv'
    BY <1>6
       DEF ApplyBackup, IInv, MarkerInv, Sound, Unwritten, AttemptsInv, ApplyInv, InApply,
           OnTrial, Std, history
  <2>2. AgentInv'
    BY <1>6 DEF ApplyBackup, IInv, AgentInv, InApply, agent
  <2>3. ApplyInv'
    BY <1>6 DEF ApplyBackup, IInv, ApplyInv, Sound, InApply, Std, agent
  <2>4. TrialInv'
    BY <1>6 DEF ApplyBackup, IInv, TrialInv, InApply, OnTrial, Std, agent
  <2>5. KnownGoodKept'
    BY <1>6
       DEF ApplyBackup, IInv, KnownGoodKept, Sound, ApplyInv, InApply, OnTrial, Std, history
  <2> QED
    BY <1>6, <2>1, <2>2, <2>3, <2>4, <2>5
       DEF IInv, ApplyBackup, ResolveInv, disk, agent, history
<1>7. CASE ApplyMark(a)
  <2>1. MarkerInv'
    BY <1>7, MaxAttemptsAssumption
       DEF ApplyMark, IInv, MarkerInv, PendingMarker, AttemptsInv, AgentInv, ApplyInv,
           KnownGoodKept, InApply, Std, history
  <2>2. AgentInv'
    BY <1>7 DEF ApplyMark, IInv, AgentInv, InApply, agent
  <2>3. ApplyInv'
    BY <1>7
       DEF ApplyMark, IInv, ApplyInv, Sound, TypeOK, PendingMarker, DirOf, InApply, Std,
           DiskType, OutsideType, agent
  <2>4. TrialInv'
    BY <1>7 DEF ApplyMark, IInv, TrialInv, Sound, ApplyInv, InApply, OnTrial, Std, agent
  <2>5. KnownGoodKept'
    BY <1>7 DEF ApplyMark, IInv, KnownGoodKept, ApplyInv, InApply, history
  <2> QED
    BY <1>7, <2>1, <2>2, <2>3, <2>4, <2>5 DEF IInv, ApplyMark, ResolveInv, disk, agent, history
<1>8. CASE ApplyMarkFails(a)
  <2>1. MarkerInv'
    BY <1>8
       DEF ApplyMarkFails, IInv, MarkerInv, AttemptsInv, ApplyInv, InApply, OnTrial, Std,
           history
  <2>2. AgentInv'
    BY <1>8 DEF ApplyMarkFails, IInv, AgentInv, InApply, agent
  <2>3. ApplyInv'
    BY <1>8 DEF ApplyMarkFails, IInv, ApplyInv, TypeOK, InApply, OutsideType, NoApply
  <2>4. TrialInv'
    BY <1>8 DEF ApplyMarkFails, IInv, TrialInv, InApply, OnTrial, Std, agent
  <2>5. KnownGoodKept'
    BY <1>8 DEF ApplyMarkFails, IInv, KnownGoodKept, ApplyInv, InApply, history
  <2> QED
    BY <1>8, <2>1, <2>2, <2>3, <2>4, <2>5
       DEF IInv, ApplyMarkFails, ResolveInv, disk, agent, history
<1>9. CASE ApplySwap(a)
  <2>1. MarkerInv'
    BY <1>9
       DEF ApplySwap, IInv, MarkerInv, Sound, AttemptsInv, AgentInv, ApplyInv, InApply, OnTrial,
           Std, history
  <2>2. AgentInv'
    BY <1>9
       DEF ApplySwap, IInv, AgentInv, ApplyInv, InApply, Std, Sound, TypeOK, OutsideType,
           NoApply
  <2>3. ApplyInv'
    BY <1>9 DEF ApplySwap, IInv, ApplyInv, TypeOK, InApply, OutsideType, NoApply
  <2>4. TrialInv'
    BY <1>9
       DEF ApplySwap, IInv, TrialInv, Sound, AgentInv, ApplyInv, InApply, OnTrial, Std,
           RollbackSteps
  <2>5. KnownGoodKept'
    BY <1>9
       DEF ApplySwap, IInv, KnownGoodKept, Sound, AgentInv, ApplyInv, InApply, OnTrial, Std,
           history
  <2> QED
    BY <1>9, <2>1, <2>2, <2>3, <2>4, <2>5 DEF IInv, ApplySwap, ResolveInv, disk, agent, history
<1>10. CASE ApplySwapFails(a)
  <2>1. MarkerInv'
    BY <1>10, NoMarkerType
       DEF ApplySwapFails, IInv, MarkerInv, AttemptsInv, ApplyInv, KnownGoodKept, InApply, Std,
           history
  <2>2. AgentInv'
    BY <1>10 DEF ApplySwapFails, IInv, AgentInv, InApply, agent
  <2>3. ApplyInv'
    BY <1>10 DEF ApplySwapFails, IInv, ApplyInv, TypeOK, InApply, OutsideType, NoApply
  <2>4. TrialInv'
    BY <1>10
       DEF ApplySwapFails, IInv, TrialInv, Sound, AgentInv, ApplyInv, InApply, OnTrial, Std,
           RollbackSteps, agent
  <2>5. KnownGoodKept'
    BY <1>10 DEF ApplySwapFails, IInv, KnownGoodKept, ApplyInv, InApply, history
  <2> QED
    BY <1>10, <2>1, <2>2, <2>3, <2>4, <2>5
       DEF IInv, ApplySwapFails, ResolveInv, disk, agent, history
<1> QED
  BY <1>1, <1>2, <1>3, <1>4, <1>5, <1>6, <1>7, <1>8, <1>9, <1>10 DEF Applying

\* A step of do_rollback.
LEMMA RollbackStep ==
  ASSUME Sound, TypeOK, TypeOK', IInv, NEW t \in Threads, Rollback(t)
  PROVE  IInv'
<1>1. CASE Revert(t)
  <2>1. MarkerInv'
    BY <1>1 DEF Revert, IInv, MarkerInv, Sound, AttemptsInv, TrialInv, OnTrial, Std
  <2>2. AgentInv'
    BY <1>1 DEF Revert, IInv, AgentInv, TypeOK, ResolveInv, InApply, ThreadType, Threads
  <2>3. ApplyInv'
    BY <1>1 DEF Revert, IInv, ApplyInv, TrialInv, InApply, RollbackSteps
  <2>4. TrialInv'
    BY <1>1
       DEF Revert, IInv, TrialInv, Sound, TypeOK, MarkerInv, AgentInv, ResolveInv, InApply,
           OnTrial, Std, ThreadType, NoWatch, Threads, RollbackSteps
  <2>5. ResolveInv'
    BY <1>1 DEF Revert, IInv, ResolveInv, RollbackSteps
  <2>6. KnownGoodKept'
    BY <1>1 DEF Revert, IInv, KnownGoodKept, Sound, MarkerInv, TrialInv, OnTrial, Std
  <2> QED
    BY <2>1, <2>2, <2>3, <2>4, <2>5, <2>6 DEF IInv
<1>2. CASE RevertFails(t)
  <2>1. AgentInv'
    BY <1>2 DEF RevertFails, IInv, AgentInv, AfterFailedRevert, InApply, Std, disk
  <2>2. ApplyInv'
    BY <1>2 DEF RevertFails, IInv, ApplyInv, Sound, AgentInv, TrialInv, InApply, OnTrial, Std
  <2>3. TrialInv'
    BY <1>2
       DEF RevertFails, IInv, TrialInv, TypeOK, AfterFailedRevert, ResolveInv, ThreadType,
           NoWatch, Threads, RollbackSteps
  <2>4. ResolveInv'
    BY <1>2 DEF RevertFails, IInv, ResolveInv, RollbackSteps
  <2> QED
    BY <1>2, <2>1, <2>2, <2>3, <2>4
       DEF IInv, RevertFails, MarkerInv, KnownGoodKept, AttemptsInv, OnTrial, Std, disk, agent,
           history
<1>3. CASE Record(t)
  <2>1. AgentInv'
    BY <1>3 DEF Record, IInv, AgentInv, InApply, Std
  <2>2. ApplyInv'
    BY <1>3 DEF Record, IInv, ApplyInv, InApply, Std
  <2>3. TrialInv'
    BY <1>3 DEF Record, IInv, TrialInv, InApply, OnTrial, Std, RollbackSteps, history
  <2>4. ResolveInv'
    BY <1>3 DEF Record, IInv, ResolveInv, RollbackSteps
  <2> QED
    BY <1>3, <2>1, <2>2, <2>3, <2>4
       DEF IInv, Record, MarkerInv, KnownGoodKept, AttemptsInv, OnTrial, Std, disk, agent,
           history
<1>4. CASE MarkRolledBack(t)
  <2>1. MarkerInv'
    BY <1>4
       DEF MarkRolledBack, IInv, MarkerInv, Sound, TypeOK, AttemptsInv, TrialInv, OnTrial, Std,
           DiskType, Markers, history
  <2>2. AgentInv'
    BY <1>4, AllDownType
       DEF MarkRolledBack, IInv, AgentInv, TypeOK, AgentGone, ResolveInv, InApply, ThreadType,
           Threads
  <2>3. ApplyInv'
    BY <1>4 DEF MarkRolledBack, IInv, ApplyInv, TrialInv, InApply, RollbackSteps
  <2>4. TrialInv'
    BY <1>4, AllDownType
       DEF MarkRolledBack, IInv, TrialInv, TypeOK, AgentGone, MarkerInv, AgentInv, ResolveInv,
           ThreadType, Threads, RollbackSteps
  <2>5. ResolveInv'
    BY <1>4, AllDownType
       DEF MarkRolledBack, IInv, ResolveInv, TypeOK, AgentGone, ThreadType, Threads
  <2>6. KnownGoodKept'
    BY <1>4 DEF MarkRolledBack, IInv, KnownGoodKept, Sound, TrialInv, Std, history
  <2> QED
    BY <2>1, <2>2, <2>3, <2>4, <2>5, <2>6 DEF IInv
<1> QED
  BY <1>1, <1>2, <1>3, <1>4 DEF Rollback

\* The boot of the agent.
LEMMA BootStep ==
  ASSUME Sound, TypeOK, TypeOK', IInv, Boot
  PROVE  IInv'
<1>1. CASE Start
  <2>1. AgentInv'
    BY <1>1 DEF Start, IInv, AgentInv, InApply, disk
  <2>2. ApplyInv'
    BY <1>1 DEF Start, IInv, ApplyInv, AgentInv, InApply
  <2>3. TrialInv'
    BY <1>1 DEF Start, IInv, TrialInv, ResolveInv, NoWatch, Threads, RollbackSteps
  <2>4. ResolveInv'
    BY <1>1 DEF Start, IInv, ResolveInv
  <2> QED
    BY <1>1, <2>1, <2>2, <2>3, <2>4
       DEF IInv, Start, MarkerInv, KnownGoodKept, AttemptsInv, OnTrial, Std, disk, agent,
           history
<1>2. CASE CheckProceed
  <2>1. AgentInv'
    BY <1>2 DEF CheckProceed, IInv, AgentInv, InApply, disk
  <2>2. ApplyInv'
    BY <1>2 DEF CheckProceed, IInv, ApplyInv, InApply, Std, disk
  <2>3. TrialInv'
    BY <1>2
       DEF CheckProceed, IInv, TrialInv, InApply, OnTrial, Std, RollbackSteps, disk, history
  <2>4. ResolveInv'
    BY <1>2 DEF CheckProceed, IInv, ResolveInv
  <2> QED
    BY <1>2, <2>1, <2>2, <2>3, <2>4
       DEF IInv, CheckProceed, MarkerInv, KnownGoodKept, AttemptsInv, OnTrial, Std, disk, agent,
           history
<1>3. CASE CheckClear
  <2>1. MarkerInv'
    BY <1>3, NoMarkerType
       DEF CheckClear, IInv, MarkerInv, BootChoice, BootAction, AttemptsInv, AgentInv, OnTrial,
           Std, history
  <2>2. AgentInv'
    BY <1>3, NoMarkerType DEF CheckClear, IInv, AgentInv, Sound, TypeOK, InApply, Std, DiskType
  <2>3. ApplyInv'
    BY <1>3 DEF CheckClear, IInv, ApplyInv, AgentInv, InApply
  <2>4. TrialInv'
    BY <1>3 DEF CheckClear, IInv, TrialInv, ResolveInv, NoWatch, Threads, RollbackSteps
  <2>5. ResolveInv'
    BY <1>3 DEF CheckClear, IInv, ResolveInv
  <2>6. KnownGoodKept'
    BY <1>3
       DEF CheckClear, IInv, KnownGoodKept, BootChoice, BootAction, AgentInv, OnTrial, history
  <2> QED
    BY <2>1, <2>2, <2>3, <2>4, <2>5, <2>6 DEF IInv
<1>4. CASE ClearPrev
  <2>1. MarkerInv'
    BY <1>4 DEF ClearPrev, IInv, MarkerInv, AttemptsInv, AgentInv, OnTrial, Std, history
  <2>2. AgentInv'
    BY <1>4 DEF ClearPrev, IInv, AgentInv, InApply, Std
  <2>3. ApplyInv'
    BY <1>4 DEF ClearPrev, IInv, ApplyInv, AgentInv, InApply
  <2>4. TrialInv'
    BY <1>4 DEF ClearPrev, IInv, TrialInv, InApply, OnTrial, Std, RollbackSteps, history
  <2>5. ResolveInv'
    BY <1>4 DEF ClearPrev, IInv, ResolveInv
  <2>6. KnownGoodKept'
    BY <1>4 DEF ClearPrev, IInv, KnownGoodKept, Sound, AgentInv, OnTrial, Std, history
  <2> QED
    BY <2>1, <2>2, <2>3, <2>4, <2>5, <2>6 DEF IInv
<1>5. CASE CheckArm
  <2>1. MarkerInv'
    BY <1>5, MaxAttemptsAssumption, VersionAssumption
       DEF CheckArm, IInv, MarkerInv, Sound, TypeOK, BootChoice, BootAction, BootMarker,
           AttemptsInv, OnTrial, Std, DiskType, Markers, history
  <2>2. AgentInv'
    BY <1>5 DEF CheckArm, IInv, AgentInv, InApply
  <2>3. ApplyInv'
    BY <1>5 DEF CheckArm, IInv, ApplyInv, AgentInv, InApply
  <2>4. TrialInv'
    BY <1>5 DEF CheckArm, IInv, TrialInv, ResolveInv, NoWatch, Threads, RollbackSteps
  <2>5. ResolveInv'
    BY <1>5 DEF CheckArm, IInv, ResolveInv
  <2>6. KnownGoodKept'
    BY <1>5
       DEF CheckArm, IInv, KnownGoodKept, TypeOK, BootMarker, OnTrial, DiskType, Markers,
           history
  <2> QED
    BY <2>1, <2>2, <2>3, <2>4, <2>5, <2>6 DEF IInv
<1>6. CASE CheckRollback
  <2>1. AgentInv'
    BY <1>6 DEF CheckRollback, IInv, AgentInv, InApply, disk
  <2>2. ApplyInv'
    BY <1>6 DEF CheckRollback, IInv, ApplyInv, InApply, Std, disk
  <2>3. TrialInv'
    BY <1>6
       DEF CheckRollback, IInv, TrialInv, Sound, BootChoice, BootAction, BootMarker, AgentInv,
           ResolveInv, InApply, OnTrial, Std, disk
  <2>4. ResolveInv'
    BY <1>6 DEF CheckRollback, IInv, ResolveInv
  <2> QED
    BY <1>6, <2>1, <2>2, <2>3, <2>4
       DEF IInv, CheckRollback, MarkerInv, KnownGoodKept, AttemptsInv, OnTrial, Std, disk,
           agent, history
<1>7. CASE Construct
  <2>1. AgentInv'
    BY <1>7 DEF Construct, IInv, AgentInv, TypeOK, ThreadType, Threads, disk
  <2>2. ApplyInv'
    BY <1>7 DEF Construct, IInv, ApplyInv, TypeOK, InApply, Std, ThreadType, Threads, disk
  <2>3. TrialInv'
    BY <1>7
       DEF Construct, IInv, TrialInv, Sound, TypeOK, Armed, AgentInv, ResolveInv, OnTrial, Std,
           ThreadType, AgentType, Threads, RollbackSteps, disk
  <2>4. ResolveInv'
    BY <1>7
       DEF Construct, IInv, ResolveInv, Armed, AgentInv, TypeOK, ThreadType, Threads,
           RollbackSteps
  <2> QED
    BY <1>7, <2>1, <2>2, <2>3, <2>4
       DEF IInv, Construct, MarkerInv, KnownGoodKept, AttemptsInv, OnTrial, Std, disk, agent,
           history
<1> QED
  BY <1>1, <1>2, <1>3, <1>4, <1>5, <1>6, <1>7 DEF Boot

\* Client events, the deadline and the end of the process.
LEMMA RunTimeStep ==
  ASSUME Sound, TypeOK, TypeOK', IInv, RunTime
  PROVE  IInv'
<1>1. CASE StreamsReady
  <2>1. MarkerInv'
    BY <1>1 DEF StreamsReady, IInv, MarkerInv, AttemptsInv, OnTrial, Std, disk
  <2>2. AgentInv'
    BY <1>1 DEF StreamsReady, IInv, AgentInv, TypeOK, InApply, Std, ThreadType, Threads, disk
  <2>3. ApplyInv'
    BY <1>1 DEF StreamsReady, IInv, ApplyInv, TypeOK, InApply, Std, ThreadType, disk
  <2>4. TrialInv'
    BY <1>1
       DEF StreamsReady, IInv, TrialInv, Sound, TypeOK, IoReady, Undecided, AgentInv, ApplyInv,
           InApply, OnTrial, Std, ThreadType, AgentType, disk
  <2>5. ResolveInv'
    BY <1>1
       DEF StreamsReady, IInv, ResolveInv, TypeOK, IoReady, Undecided, ThreadType, AgentType,
           Threads, RollbackSteps
  <2>6. KnownGoodKept'
    BY <1>1 DEF StreamsReady, IInv, KnownGoodKept, OnTrial, disk
  <2> QED
    BY <2>1, <2>2, <2>3, <2>4, <2>5, <2>6 DEF IInv
<1>2. CASE ReportRolledBack
  <2>1. MarkerInv'
    BY <1>2, NoMarkerType
       DEF ReportRolledBack, IInv, MarkerInv, Sound, AttemptsInv, TrialInv, OnTrial, Std,
           history
  <2>2. AgentInv'
    BY <1>2 DEF ReportRolledBack, IInv, AgentInv, ResolveInv
  <2>3. ApplyInv'
    BY <1>2 DEF ReportRolledBack, IInv, ApplyInv, TrialInv, InApply
  <2>4. TrialInv'
    BY <1>2
       DEF ReportRolledBack, IInv, TrialInv, Sound, TypeOK, OnTrial, Std, ThreadType,
           RollbackSteps
  <2>5. ResolveInv'
    BY <1>2 DEF ReportRolledBack, IInv, ResolveInv
  <2>6. KnownGoodKept'
    BY <1>2
       DEF ReportRolledBack, IInv, KnownGoodKept, Sound, TrialInv, OnTrial, Std, history
  <2> QED
    BY <2>1, <2>2, <2>3, <2>4, <2>5, <2>6 DEF IInv
<1>3. CASE Confirm
  <2>1. MarkerInv'
    BY <1>3, NoMarkerType DEF Confirm, IInv, MarkerInv, AttemptsInv, TrialInv, Std, history
  <2>2. AgentInv'
    BY <1>3 DEF Confirm, IInv, AgentInv, ResolveInv
  <2>3. ApplyInv'
    BY <1>3 DEF Confirm, IInv, ApplyInv, TrialInv, InApply
  <2>4. TrialInv'
    BY <1>3, NoMarkerType
       DEF Confirm, IInv, TrialInv, Sound, TypeOK, ResolveInv, Std, DiskType, ThreadType,
           Threads, RollbackSteps
  <2>5. ResolveInv'
    BY <1>3 DEF Confirm, IInv, ResolveInv
  <2>6. KnownGoodKept'
    BY <1>3 DEF Confirm, IInv, KnownGoodKept, TrialInv, history
  <2> QED
    BY <2>1, <2>2, <2>3, <2>4, <2>5, <2>6 DEF IInv
<1>4. CASE ConfirmPrev
  <2>1. MarkerInv'
    BY <1>4 DEF ConfirmPrev, IInv, MarkerInv, AttemptsInv, TrialInv, OnTrial, Std, history
  <2>2. AgentInv'
    BY <1>4 DEF ConfirmPrev, IInv, AgentInv, InApply, Std
  <2>3. ApplyInv'
    BY <1>4 DEF ConfirmPrev, IInv, ApplyInv, InApply, Std
  <2>4. TrialInv'
    BY <1>4 DEF ConfirmPrev, IInv, TrialInv, InApply, OnTrial, Std, RollbackSteps
  <2>5. ResolveInv'
    BY <1>4 DEF ConfirmPrev, IInv, ResolveInv
  <2>6. KnownGoodKept'
    BY <1>4 DEF ConfirmPrev, IInv, KnownGoodKept, Sound, TrialInv, OnTrial, Std, history
  <2> QED
    BY <2>1, <2>2, <2>3, <2>4, <2>5, <2>6 DEF IInv
<1>5. ASSUME NEW event \in RuntimeEvents \ {"streams_ready", "deadline"}, Disconnected(event)
      PROVE  IInv'
  <2>1. AgentInv'
    BY <1>5 DEF Disconnected, IInv, AgentInv, TypeOK, InApply, Std, ThreadType, Threads, disk
  <2>2. ApplyInv'
    BY <1>5 DEF Disconnected, IInv, ApplyInv, TypeOK, InApply, Std, ThreadType, disk
  <2>3. TrialInv'
    BY <1>5
       DEF Disconnected, IInv, TrialInv, Sound, TypeOK, IoReady, Undecided, MarkerInv, ApplyInv,
           InApply, OnTrial, Std, ThreadType, AgentType, disk
  <2>4. ResolveInv'
    BY <1>5
       DEF Disconnected, IInv, ResolveInv, TypeOK, IoReady, Undecided, ThreadType, AgentType,
           Threads, RollbackSteps
  <2> QED
    BY <1>5, <2>1, <2>2, <2>3, <2>4
       DEF IInv, Disconnected, MarkerInv, KnownGoodKept, AttemptsInv, OnTrial, Std, disk, agent,
           history
<1>6. CASE Deadline
  <2>1. AgentInv'
    BY <1>6 DEF Deadline, IInv, AgentInv, InApply, Std, disk
  <2>2. ApplyInv'
    BY <1>6 DEF Deadline, IInv, ApplyInv, InApply, Std, disk
  <2>3. TrialInv'
    BY <1>6
       DEF Deadline, IInv, TrialInv, Sound, Undecided, AgentInv, ApplyInv, ResolveInv, InApply,
           OnTrial, Std, disk
  <2>4. ResolveInv'
    BY <1>6 DEF Deadline, IInv, ResolveInv, Undecided
  <2> QED
    BY <1>6, <2>1, <2>2, <2>3, <2>4
       DEF IInv, Deadline, MarkerInv, KnownGoodKept, AttemptsInv, OnTrial, Std, disk, agent,
           history
<1>7. CASE Stop
  <2>1. AgentInv'
    BY <1>7, AllDownType
       DEF Stop, AgentInv, Sound, AgentGone, ApplierGone, InAgent, InApply, NoApply
  <2>2. ApplyInv'
    BY <1>7 DEF Stop, ApplyInv, Sound, ApplierGone, InAgent, InApply, NoApply
  <2>3. TrialInv'
    BY <1>7, AllDownType DEF Stop, TrialInv, AgentGone, NoWatch, RollbackSteps
  <2>4. ResolveInv'
    BY <1>7, AllDownType DEF Stop, ResolveInv, AgentGone, NoWatch
  <2> QED
    BY <1>7, <2>1, <2>2, <2>3, <2>4
       DEF IInv, Stop, MarkerInv, KnownGoodKept, AttemptsInv, OnTrial, Std, disk, agent,
           history, AgentGone
<1> QED
  BY <1>1, <1>2, <1>3, <1>4, <1>5, <1>6, <1>7 DEF RunTime

\* Crashes, power cuts and the passing of time.
LEMMA EnvironmentStep ==
  ASSUME Sound, TypeOK, TypeOK', IInv, Environment
  PROVE  IInv'
<1>1. CASE Crash
  <2>1. AgentInv'
    BY <1>1, AllDownType
       DEF Crash, AgentInv, Sound, AgentGone, ApplierGone, InAgent, InApply, NoApply
  <2>2. ApplyInv'
    BY <1>1 DEF Crash, ApplyInv, Sound, ApplierGone, InAgent, InApply, NoApply
  <2>3. TrialInv'
    BY <1>1, AllDownType DEF Crash, TrialInv, AgentGone, NoWatch, RollbackSteps
  <2>4. ResolveInv'
    BY <1>1, AllDownType DEF Crash, ResolveInv, AgentGone, NoWatch
  <2> QED
    BY <1>1, <2>1, <2>2, <2>3, <2>4
       DEF IInv, Crash, MarkerInv, KnownGoodKept, AttemptsInv, OnTrial, Std, disk, agent,
           history, AgentGone
<1>2. CASE PowerCut
  <2>1. MarkerInv'
    BY <1>2 DEF PowerCut, IInv, MarkerInv, AttemptsInv, OnTrial, Std, history
  <2>2. AgentInv'
    BY <1>2, AllDownType DEF PowerCut, AgentInv, AgentGone, ApplierGone, InApply, NoApply
  <2>3. ApplyInv'
    BY <1>2 DEF PowerCut, ApplyInv, ApplierGone, InApply, NoApply
  <2>4. TrialInv'
    BY <1>2, AllDownType DEF PowerCut, TrialInv, AgentGone, NoWatch, RollbackSteps
  <2>5. ResolveInv'
    BY <1>2, AllDownType DEF PowerCut, ResolveInv, AgentGone, NoWatch
  <2>6. KnownGoodKept'
    BY <1>2 DEF PowerCut, IInv, KnownGoodKept, MarkerInv, OnTrial, history
  <2> QED
    BY <2>1, <2>2, <2>3, <2>4, <2>5, <2>6 DEF IInv
<1>3. CASE WriteBack
  <2>1. MarkerInv'
    BY <1>3 DEF WriteBack, IInv, MarkerInv
  <2> QED
    BY <1>3, <2>1
       DEF IInv, WriteBack, AgentInv, ApplyInv, TrialInv, ResolveInv, KnownGoodKept, InApply,
           Std, OnTrial, disk, agent, history
<1>4. CASE CooldownPasses
  BY <1>4
     DEF IInv, CooldownPasses, MarkerInv, AgentInv, ApplyInv, TrialInv, ResolveInv,
         KnownGoodKept, AttemptsInv, OnTrial, Std, InApply, disk, agent, history
<1>5. CASE Session
  BY <1>5
     DEF IInv, Session, MarkerInv, AgentInv, ApplyInv, TrialInv, ResolveInv, KnownGoodKept,
         AttemptsInv, OnTrial, Std, InApply, disk, agent, history
<1>6. ~CrashCli
  BY DEF Sound, CrashCli
<1> QED
  BY <1>1, <1>2, <1>3, <1>4, <1>5, <1>6 DEF Environment

LEMMA InvStep == Sound /\ TypeOK /\ TypeOK' /\ IInv /\ [Next]_vars => IInv'
<1> SUFFICES ASSUME Sound, TypeOK, TypeOK', IInv, [Next]_vars  PROVE IInv'
  OBVIOUS
<1>1. CASE UNCHANGED vars
  BY <1>1
     DEF vars, disk, agent, history, IInv, MarkerInv, AttemptsInv, AgentInv, ApplyInv, TrialInv,
         ResolveInv, KnownGoodKept, InApply, OnTrial, Std
<1> QED
  BY <1>1, ApplyingStep, RollbackStep, BootStep, RunTimeStep, EnvironmentStep DEF Next

LEMMA InvHolds ==
  ASSUME Sound
  PROVE  Spec => [](TypeOK /\ IInv)
<1>1. Init => IInv
  BY InitInv
<1>2. TypeOK /\ TypeOK' /\ IInv /\ [Next]_vars => IInv'
  BY InvStep
<1> QED
  BY <1>1, <1>2, TypeCorrect, PTL DEF Spec

\* What each thread and applier is about to do to the disk fits what is on it, at every
\* moment and through every crash: the invariant that the other theorems about the disk
\* rest on (apply_with_watchdog, check_boot, confirm, do_rollback).
THEOREM UpdateInvariant ==
  ASSUME Sound
  PROVE  Spec => []IInv
BY InvHolds, PTL

\* Whatever crashes and fails in between, the device is never left on an untried
\* binary alone: the order of backup, marker and swap in apply_with_watchdog, and of
\* rename, record and marker in do_rollback, keeps a binary that worked installed or
\* ready to be restored.
THEOREM GoodBinaryKept ==
  ASSUME Sound
  PROVE  Spec => []KnownGoodKept
<1>1. IInv => KnownGoodKept
  BY DEF IInv
<1> QED
  BY <1>1, InvHolds, PTL

\* do_rollback never undoes what confirm() accepted: when it renames .prev over
\* install_path, the installed binary is still on trial and .prev has worked.
THEOREM RevertsOnlyTrials ==
  ASSUME Sound
  PROVE  Spec => RevertOnlyOnTrial
<1>1. TypeOK /\ IInv /\ [Next]_vars =>
        [\A t \in Threads :
           pc[t] = "revert" /\ pc'[t] = "record" => OnTrial /\ prev \in proven]_vars
  BY DEF IInv, TrialInv, MarkerInv, OnTrial, Std, Sound
<1> QED
  BY <1>1, InvHolds, PTL DEF Spec, RevertOnlyOnTrial

-----------------------------------------------------------------------------
(* The updater implements the trial protocol.                               *)

LEMMA DeviceInit == Sound /\ Init => Device!Init
BY NoMarkerType, BinaryAssumption DEF Init, Device!Init, OnTrial, Sound, Dirs

\* A step outside a trial that leaves the installed binary alone is not seen.
Unseen ==
  /\ UNCHANGED <<install, proven>>
  /\ \/ ~OnTrial /\ ~OnTrial'
     \/ UNCHANGED prev /\ OnTrial' = OnTrial

LEMMA UnseenStutters == Unseen => UNCHANGED Device!vars
BY DEF Unseen, Device!vars

LEMMA NoneNotBinary == None \notin Binary
BY BinaryAssumption, VersionAssumption

\* Only the swap of an apply is seen: it begins a trial.
LEMMA ApplyingSeen ==
  ASSUME Sound, TypeOK, IInv, NEW a \in Appliers, Applying(a)
  PROVE  [Device!Next]_(Device!vars)
<1>1. CASE ApplySwap(a)
  <2>1. InApply(a) /\ ~stale /\ install = exe /\ exe \in Binary
    BY <1>1 DEF IInv, ApplySwap, ApplyInv, AgentInv, InApply
  <2>2. /\ Std.phase = "pending" /\ Std.to = temp
        /\ temp \in Binary /\ temp # install /\ prev = install
    BY <1>1, <2>1 DEF IInv, ApplySwap, ApplyInv, InApply
  <2>3. ~OnTrial /\ install \in proven
    BY <2>2 DEF IInv, MarkerInv, OnTrial, Std, Sound
  <2>4. install' = temp /\ UNCHANGED <<marker, prev, proven>>
    BY <1>1, <2>1 DEF ApplySwap, history
  <2>5. OnTrial'
    BY <2>2, <2>4 DEF OnTrial, Std, Sound
  <2>6. Device!Begin(temp)
    BY <2>2, <2>3, <2>4, <2>5 DEF Device!Begin
  <2> QED
    BY <2>2, <2>6 DEF Device!Next
<1>2. CASE ~ApplySwap(a)
  <2> SUFFICES Unseen
    BY UnseenStutters
  <2>1. CASE ApplyBackup(a) \/ ApplyMarkFails(a)
    <3>1. Std.phase = "none" /\ UNCHANGED <<install, marker, proven>>
      BY <2>1 DEF ApplyBackup, ApplyMarkFails, IInv, ApplyInv, InApply, history
    <3> QED
      BY <3>1 DEF Unseen, OnTrial, Std, Sound
  <2>2. CASE ApplyMark(a) \/ ApplySwapFails(a)
    <3>1. InApply(a) /\ exe = install /\ ap[a].to # exe /\ DirOf(a) = AgentDir
      BY <2>2 DEF ApplyMark, ApplySwapFails, IInv, ApplyInv, AgentInv, InApply, DirOf, Sound
    <3>2. ~OnTrial
      BY <2>2, <3>1 DEF ApplyMark, ApplySwapFails, IInv, ApplyInv, InApply, OnTrial, Std, Sound
    <3>3. UNCHANGED <<install, proven>> /\ ~OnTrial'
      BY <2>2, <3>1, NoMarkerType
         DEF ApplyMark, ApplySwapFails, PendingMarker, OnTrial, TypeOK, DiskType, Sound, Dirs,
             history
    <3> QED
      BY <3>2, <3>3 DEF Unseen
  <2>3. CASE (a = "poller" /\ (Poll \/ PollEnds)) \/ (\E v \in Binary : ApplyBegin(a, v))
    BY <2>3 DEF Poll, PollEnds, ApplyBegin, Unseen, OnTrial, disk, history
  <2>4. CASE (\E b \in Binary : ApplyFetch(a, b)) \/ ApplyGiveUp(a)
    BY <2>4 DEF ApplyFetch, ApplyGiveUp, Unseen, OnTrial, history
  <2> QED
    BY <1>2, <2>1, <2>2, <2>3, <2>4 DEF Applying
<1> QED
  BY <1>1, <1>2

\* Only the rename of a rollback is seen: it goes back.
LEMMA RollbackSeen ==
  ASSUME Sound, TypeOK, IInv, NEW t \in Threads, Rollback(t)
  PROVE  [Device!Next]_(Device!vars)
<1>1. CASE Revert(t)
  <2>1. OnTrial /\ ~stale /\ prev = Std.from /\ prev # Std.to
    BY <1>1 DEF Revert, IInv, TrialInv, MarkerInv, OnTrial, Std, Sound
  <2>2. install' = prev /\ UNCHANGED <<marker, proven>>
    BY <1>1, <2>1 DEF Revert
  <2>3. ~OnTrial'
    BY <2>1, <2>2 DEF OnTrial, Std, Sound
  <2>4. Device!GoBack
    BY <1>1, <2>1, <2>2, <2>3 DEF Device!GoBack, Revert
  <2> QED
    BY <2>4 DEF Device!Next
<1>2. CASE RevertFails(t) \/ Record(t)
  <2>1. Unseen
    BY <1>2 DEF RevertFails, Record, Unseen, OnTrial, disk, history
  <2> QED
    BY <2>1, UnseenStutters
<1>3. CASE MarkRolledBack(t)
  <2>1. ~OnTrial
    BY <1>3 DEF MarkRolledBack, IInv, TrialInv, MarkerInv, OnTrial, Std, Sound
  <2>2. /\ UNCHANGED <<install, proven>>
        /\ UNCHANGED marker \/ marker'[AgentDir].phase = "rolled_back"
    BY <1>3 DEF MarkRolledBack, TypeOK, DiskType, AgentType, Markers, Sound, Dirs, history
  <2>3. Unseen
    BY <2>1, <2>2 DEF Unseen, OnTrial
  <2> QED
    BY <2>3, UnseenStutters
<1> QED
  BY <1>1, <1>2, <1>3 DEF Rollback

\* Nothing of a boot is seen: it clears markers of other binaries, and counts.
LEMMA BootSeen ==
  ASSUME Sound, TypeOK, IInv, Boot
  PROVE  UNCHANGED Device!vars
<1> SUFFICES Unseen
  BY UnseenStutters
<1>1. CASE Start \/ CheckProceed \/ CheckRollback \/ Construct
  BY <1>1 DEF Start, CheckProceed, CheckRollback, Construct, Unseen, OnTrial, disk, history
<1>2. CASE CheckClear
  <2>1. exe = install
    BY <1>2 DEF CheckClear, IInv, AgentInv
  <2>2. ~OnTrial
    BY <1>2, <2>1 DEF CheckClear, BootChoice, BootAction, OnTrial
  <2> QED
    BY <1>2, <2>2, NoMarkerType
       DEF CheckClear, Unseen, OnTrial, TypeOK, DiskType, Sound, Dirs, history
<1>3. CASE ClearPrev
  BY <1>3 DEF ClearPrev, Unseen, OnTrial, IInv, AgentInv, Std, Sound, history
<1>4. CASE CheckArm
  <2>1. /\ marker'[AgentDir].phase = marker[AgentDir].phase
        /\ marker'[AgentDir].to = marker[AgentDir].to
    BY <1>4 DEF CheckArm, BootChoice, BootAction, BootMarker, TypeOK, DiskType, Markers, Sound, Dirs
  <2> QED
    BY <1>4, <2>1 DEF CheckArm, Unseen, OnTrial, history
<1> QED
  BY <1>1, <1>2, <1>3, <1>4 DEF Boot

\* STREAMS_READY shows that a binary works, and confirm() accepts it.
LEMMA RunTimeSeen ==
  ASSUME Sound, TypeOK, IInv, RunTime
  PROVE  [Device!Next]_(Device!vars)
<1>1. CASE StreamsReady
  <2>1. Device!Work(exe)
    BY <1>1 DEF StreamsReady, Device!Work, OnTrial, disk
  <2>2. exe \in Binary
    BY <1>1, BinaryAssumption DEF StreamsReady
  <2> QED
    BY <2>1, <2>2 DEF Device!Next
<1>2. CASE Confirm
  <2>1. OnTrial /\ install \in proven /\ prev \in Binary
    BY <1>2 DEF Confirm, IInv, TrialInv, MarkerInv, OnTrial, Std, Sound
  <2>2. UNCHANGED <<install, proven>> /\ ~OnTrial'
    BY <1>2, NoMarkerType DEF Confirm, OnTrial, TypeOK, DiskType, Sound, Dirs, history
  <2>3. Device!Accept
    BY <2>1, <2>2, NoneNotBinary DEF Device!Accept
  <2> QED
    BY <2>3 DEF Device!Next
<1>3. CASE ConfirmPrev \/ ReportRolledBack
  <2>1. ~OnTrial
    BY <1>3 DEF ConfirmPrev, ReportRolledBack, IInv, TrialInv, OnTrial, Std, Sound
  <2>2. UNCHANGED <<install, proven>> /\ ~OnTrial'
    BY <1>3, <2>1, NoMarkerType
       DEF ConfirmPrev, ReportRolledBack, OnTrial, TypeOK, DiskType, history
  <2> QED
    BY <2>1, <2>2, UnseenStutters DEF Unseen
<1>4. CASE Deadline \/ Stop \/ \E event \in RuntimeEvents \ {"streams_ready", "deadline"} :
             Disconnected(event)
  <2>1. Unseen
    BY <1>4 DEF Deadline, Stop, Disconnected, Unseen, OnTrial, disk, history
  <2> QED
    BY <2>1, UnseenStutters
<1> QED
  BY <1>1, <1>2, <1>3, <1>4 DEF RunTime

\* Without data loss no crash and no power cut is seen.
LEMMA EnvironmentSeen ==
  ASSUME Sound, TypeOK, IInv, Environment
  PROVE  UNCHANGED Device!vars
<1>1. CASE PowerCut
  <2>1. UNCHANGED <<install, prev, marker, proven>>
    BY <1>1 DEF PowerCut, IInv, MarkerInv, history
  <2> QED
    BY <2>1, UnseenStutters DEF Unseen, OnTrial
<1>2. CASE Crash \/ WriteBack \/ CooldownPasses \/ Session
  BY <1>2, UnseenStutters
     DEF Crash, WriteBack, CooldownPasses, Session, Unseen, OnTrial, disk, history
<1>3. ~CrashCli
  BY DEF Sound, CrashCli
<1> QED
  BY <1>1, <1>2, <1>3 DEF Environment

\* The files, markers and threads of the agent implement the trial protocol, for any
\* binaries, appliers and crashes: apply_with_watchdog, confirm() and do_rollback
\* begin, accept and go back, and everything else they do to the disk is invisible.
THEOREM TrialProtocolImplemented ==
  ASSUME Sound
  PROVE  Spec => ImplementsTrial
<1>1. Init => Device!Init
  BY DeviceInit
<1>2. TypeOK /\ IInv /\ [Next]_vars => [Device!Next]_(Device!vars)
  <2> SUFFICES ASSUME TypeOK, IInv, [Next]_vars  PROVE [Device!Next]_(Device!vars)
    OBVIOUS
  <2>1. CASE UNCHANGED vars
    BY <2>1 DEF vars, disk, history, Device!vars, OnTrial
  <2> QED
    BY <2>1, ApplyingSeen, RollbackSeen, BootSeen, RunTimeSeen, EnvironmentSeen DEF Next
<1> QED
  BY <1>1, <1>2, InvHolds, PTL DEF Spec, ImplementsTrial, Device!Spec
=============================================================================
