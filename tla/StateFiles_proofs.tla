--------------------------- MODULE StateFiles_proofs ---------------------------
(***************************************************************************)
(* What the state files of the updater say is what happened, and the poll  *)
(* loop heeds it: theorems about SafeUpdate on a disk that takes every     *)
(* write.  They rest on the invariant IInv of SafeUpdate_proofs.           *)
(***************************************************************************)
EXTENDS SafeUpdate_proofs

\* Sound, and no write_atomic fails.
Writable == Sound /\ "write_fails" \notin Hazards

\* What RolledBackTellsTruth needs to be inductive: a thread that is about to write
\* the rolled_back marker has left the record that goes with it.
Recorded == \A t \in Threads : pc[t] = "mark" => reverted.version = held.to

TruthInv == RolledBackTellsTruth /\ Recorded

\* What TrialRunsCounted needs: past check_boot the boot is counted, and a rollback at
\* boot has found the whole budget used up.
Counted ==
  pc["main"] \in {"ctor", "up", "revert"} /\ OnTrial /\ exe = install =>
    Std.attempts \in 1 .. MaxAttempts

-----------------------------------------------------------------------------
(* The rolled_back marker and the reverted record.                          *)

LEMMA InitTruth == Writable /\ Init => TruthInv
BY AllDownType, NoMarkerType
   DEF Init, TruthInv, RolledBackTellsTruth, Recorded, Writable, Sound, Dirs, RollbackSteps

LEMMA ApplyingTruth ==
  ASSUME Writable, TypeOK, IInv, TruthInv, NEW a \in Appliers, Applying(a)
  PROVE  TruthInv'
<1> USE DEF Writable, Sound
<1>1. CASE UNCHANGED <<install, marker, reverted, pc, held>>
  BY <1>1 DEF TruthInv, RolledBackTellsTruth, Recorded
<1>2. CASE ApplyMark(a)
  BY <1>2 DEF ApplyMark, PendingMarker, DirOf, agent, TypeOK, DiskType, Dirs, TruthInv,
              RolledBackTellsTruth, Recorded
<1>3. CASE ApplySwap(a)
  BY <1>3 DEF ApplySwap, IInv, ApplyInv, InApply, Std, TruthInv, RolledBackTellsTruth, Recorded
<1>4. CASE ApplySwapFails(a)
  BY <1>4, NoMarkerType
     DEF ApplySwapFails, DirOf, agent, TypeOK, DiskType, Dirs, TruthInv, RolledBackTellsTruth,
         Recorded
<1> QED
  BY <1>1, <1>2, <1>3, <1>4
     DEF Applying, Poll, PollEnds, ApplyBegin, ApplyFetch, ApplyGiveUp, ApplyBackup,
         ApplyMarkFails, disk, agent

LEMMA RollbackTruth ==
  ASSUME Writable, TypeOK, IInv, TruthInv, NEW t \in Threads, Rollback(t)
  PROVE  TruthInv'
<1> USE DEF Writable, Sound
<1>1. CASE Revert(t)
  BY <1>1 DEF Revert, IInv, TrialInv, OnTrial, Std, TypeOK, ThreadType, TruthInv,
              RolledBackTellsTruth, Recorded
<1>2. CASE RevertFails(t)
  BY <1>2 DEF RevertFails, AfterFailedRevert, disk, TypeOK, ThreadType, TruthInv,
              RolledBackTellsTruth, Recorded
<1>3. CASE Record(t)
  BY <1>3 DEF Record, RevertedRecord, IInv, TrialInv, Std, TypeOK, ThreadType, TruthInv,
              RolledBackTellsTruth, Recorded
<1>4. CASE MarkRolledBack(t)
  <2>1. marker' = [marker EXCEPT !["std"] = [held EXCEPT !.phase = "rolled_back"]]
        /\ UNCHANGED <<install, reverted>>
    BY <1>4 DEF MarkRolledBack
  <2>2. held.from = install /\ reverted.version = held.to
    BY <1>4 DEF MarkRolledBack, IInv, TrialInv, TruthInv, Recorded
  <2>3. RolledBackTellsTruth'
    BY <2>1, <2>2
       DEF RolledBackTellsTruth, TypeOK, DiskType, AgentType, Dirs, Markers
  <2>4. Recorded'
    <3>1. CASE t = "main"
      BY <1>4, <3>1, AllDownType DEF MarkRolledBack, AgentGone, Recorded, RollbackSteps
    <3>2. CASE t # "main"
      BY <1>4, <3>2
         DEF MarkRolledBack, Recorded, TruthInv, TypeOK, ThreadType
    <3> QED
      BY <3>1, <3>2
  <2> QED
    BY <2>3, <2>4 DEF TruthInv
<1> QED
  BY <1>1, <1>2, <1>3, <1>4 DEF Rollback

LEMMA BootTruth ==
  ASSUME Writable, TypeOK, IInv, TruthInv, Boot
  PROVE  TruthInv'
<1> USE DEF Writable, Sound
<1>1. CASE Start \/ CheckProceed \/ ClearPrev
  BY <1>1 DEF Start, CheckProceed, ClearPrev, disk, TypeOK, ThreadType, TruthInv,
              RolledBackTellsTruth, Recorded
<1>2. CASE CheckClear
  BY <1>2, NoMarkerType
     DEF CheckClear, TypeOK, DiskType, Dirs, ThreadType, TruthInv, RolledBackTellsTruth, Recorded
<1>3. CASE CheckArm
  <2>1. marker[AgentDir].phase = "pending"
    BY <1>3 DEF CheckArm, BootChoice, BootAction, TypeOK, DiskType, Dirs, Markers, Phases
  <2>2. marker'[AgentDir].phase = "pending"
    BY <1>3, <2>1 DEF CheckArm, BootMarker, TypeOK, DiskType, Dirs, Markers
  <2> QED
    BY <1>3, <2>2 DEF CheckArm, TypeOK, ThreadType, TruthInv, RolledBackTellsTruth, Recorded
<1>4. CASE CheckRollback
  BY <1>4 DEF CheckRollback, disk, IInv, ResolveInv, TypeOK, ThreadType, Threads, TruthInv,
              RolledBackTellsTruth, Recorded
<1>5. CASE Construct
  BY <1>5 DEF Construct, disk, IInv, ResolveInv, TypeOK, ThreadType, Threads, TruthInv,
              RolledBackTellsTruth, Recorded
<1> QED
  BY <1>1, <1>2, <1>3, <1>4, <1>5 DEF Boot

LEMMA RunTimeTruth ==
  ASSUME Writable, TypeOK, IInv, TruthInv, RunTime
  PROVE  TruthInv'
<1> USE DEF Writable, Sound
<1>1. CASE StreamsReady
  BY <1>1 DEF StreamsReady, disk, TypeOK, ThreadType, TruthInv, RolledBackTellsTruth, Recorded
<1>2. CASE ReportRolledBack \/ Confirm
  BY <1>2, NoMarkerType
     DEF ReportRolledBack, Confirm, TypeOK, DiskType, Dirs, ThreadType, TruthInv,
         RolledBackTellsTruth, Recorded
<1>3. CASE ConfirmPrev
  BY <1>3 DEF ConfirmPrev, TypeOK, ThreadType, TruthInv, RolledBackTellsTruth, Recorded
<1>4. ASSUME NEW event \in RuntimeEvents \ {"streams_ready", "deadline"}, Disconnected(event)
      PROVE  TruthInv'
  BY <1>4 DEF Disconnected, disk, TypeOK, ThreadType, TruthInv, RolledBackTellsTruth, Recorded
<1>5. CASE Deadline
  BY <1>5 DEF Deadline, disk, TypeOK, ThreadType, TruthInv, RolledBackTellsTruth, Recorded
<1>6. CASE Stop
  BY <1>6, AllDownType DEF Stop, AgentGone, disk, RollbackSteps, TruthInv, RolledBackTellsTruth,
                           Recorded
<1> QED
  BY <1>1, <1>2, <1>3, <1>4, <1>5, <1>6 DEF RunTime

LEMMA EnvironmentTruth ==
  ASSUME Writable, TypeOK, IInv, TruthInv, Environment
  PROVE  TruthInv'
<1> USE DEF Writable, Sound
<1>1. CASE Crash
  BY <1>1, AllDownType DEF Crash, AgentGone, disk, RollbackSteps, TruthInv,
                           RolledBackTellsTruth, Recorded
<1>2. CASE PowerCut
  <2>1. UNCHANGED <<install, marker, reverted>>
    BY <1>2 DEF PowerCut, IInv, MarkerInv
  <2> QED
    BY <1>2, <2>1, AllDownType DEF PowerCut, AgentGone, RollbackSteps, TruthInv,
                                   RolledBackTellsTruth, Recorded
<1>3. CASE CrashCli \/ WriteBack \/ CooldownPasses \/ Session
  BY <1>3 DEF CrashCli, WriteBack, CooldownPasses, Session, disk, agent, TruthInv,
              RolledBackTellsTruth, Recorded
<1> QED
  BY <1>1, <1>2, <1>3 DEF Environment

\* A rolled_back marker is true: what it says was restored is installed, and the
\* reverted record names what it was restored from, through any crash between rename,
\* record and marker of do_rollback.
THEOREM StateFilesTellTruth ==
  ASSUME Writable
  PROVE  Spec => []RolledBackTellsTruth
<1>1. Init => TruthInv
  BY InitTruth
<1>2. TypeOK /\ IInv /\ TruthInv /\ [Next]_vars => TruthInv'
  <2> SUFFICES ASSUME TypeOK, IInv, TruthInv, [Next]_vars  PROVE TruthInv'
    OBVIOUS
  <2>1. CASE UNCHANGED vars
    BY <2>1 DEF vars, disk, agent, TruthInv, RolledBackTellsTruth, Recorded
  <2> QED
    BY <2>1, ApplyingTruth, RollbackTruth, BootTruth, RunTimeTruth, EnvironmentTruth DEF Next
<1>3. TruthInv => RolledBackTellsTruth
  BY DEF TruthInv
<1>4. Spec => [](TypeOK /\ IInv)
  BY InvHolds DEF Writable
<1> QED
  BY <1>1, <1>2, <1>3, <1>4, PTL DEF Spec

-----------------------------------------------------------------------------
(* The boots of a binary on trial.                                          *)

\* A boot is counted before it goes on, and rolls back only with the budget used up.
LEMMA BootCounts ==
  ASSUME NEW m \in Markers, NEW running, m.phase = "pending", m.attempts <= MaxAttempts
  PROVE  /\ BootAction(m, running) = "arm" => BootMarker(m, running).attempts \in 1 .. MaxAttempts
         /\ BootAction(m, running) = "rollback" => m.attempts \in 1 .. MaxAttempts
BY MaxAttemptsAssumption DEF Markers, BootMarker, BootAction

\* The running binary is on trial only if it was when it was started: a swap installs
\* another one, and a reversal the one the marker came from.
LEMMA ApplyingCounted ==
  ASSUME Writable, TypeOK, IInv, Counted, NEW a \in Appliers, Applying(a)
  PROVE  Counted'
<1> USE DEF Writable, Sound
<1>1. CASE UNCHANGED <<install, marker, pc, exe>>
  BY <1>1 DEF Counted, OnTrial, Std
<1>2. CASE ApplyMark(a)
  <2>1. marker'["std"].to = ap[a].to /\ ap[a].to # exe /\ UNCHANGED <<exe, install>>
    BY <1>2 DEF ApplyMark, PendingMarker, DirOf, agent, TypeOK, DiskType, Dirs, IInv, ApplyInv,
                InApply
  <2> QED
    BY <2>1 DEF Counted, OnTrial, Std
<1>3. CASE ApplySwap(a)
  <2>1. install' = ap[a].to /\ ap[a].to # exe /\ UNCHANGED exe
    BY <1>3 DEF ApplySwap, IInv, ApplyInv, InApply
  <2> QED
    BY <2>1 DEF Counted
<1>4. CASE ApplySwapFails(a)
  BY <1>4, NoMarkerType
     DEF ApplySwapFails, DirOf, TypeOK, DiskType, Dirs, Counted, OnTrial, Std
<1> QED
  BY <1>1, <1>2, <1>3, <1>4
     DEF Applying, Poll, PollEnds, ApplyBegin, ApplyFetch, ApplyGiveUp, ApplyBackup,
         ApplyMarkFails, disk, agent

LEMMA RollbackCounted ==
  ASSUME Writable, TypeOK, IInv, Counted, NEW t \in Threads, Rollback(t)
  PROVE  Counted'
<1> USE DEF Writable, Sound
<1>1. CASE Revert(t)
  <2>1. install' = Std.from /\ Std.from # Std.to /\ UNCHANGED marker
    BY <1>1 DEF Revert, IInv, TrialInv, MarkerInv, OnTrial, Std
  <2> QED
    BY <2>1 DEF Counted, OnTrial, Std
<1>2. CASE RevertFails(t)
  <2>1. pc'["main"] \in {"ctor", "up", "revert"} => pc["main"] \in {"ctor", "up", "revert"}
    BY <1>2 DEF RevertFails, AfterFailedRevert, TypeOK, ThreadType, Threads
  <2> QED
    BY <1>2, <2>1 DEF RevertFails, disk, Counted, OnTrial, Std
<1>3. CASE Record(t)
  <2>1. pc'["main"] \in {"ctor", "up", "revert"} => pc["main"] \in {"ctor", "up", "revert"}
    BY <1>3 DEF Record, TypeOK, ThreadType, Threads
  <2> QED
    BY <1>3, <2>1 DEF Record, Counted, OnTrial, Std
<1>4. CASE MarkRolledBack(t)
  <2>1. marker'["std"].phase = "rolled_back"
    BY <1>4, RolledBackMarkerType DEF MarkRolledBack, TypeOK, DiskType, AgentType, Dirs
  <2> QED
    BY <2>1 DEF Counted, OnTrial
<1> QED
  BY <1>1, <1>2, <1>3, <1>4 DEF Rollback

LEMMA BootCounted ==
  ASSUME Writable, TypeOK, IInv, Counted, Boot
  PROVE  Counted'
<1> USE DEF Writable, Sound
<1>1. CASE Start
  BY <1>1 DEF Start, TypeOK, ThreadType, Threads, Counted
<1>2. CASE CheckProceed
  <2>1. Std.phase # "pending"
    BY <1>2 DEF CheckProceed, BootChoice, BootAction, Std
  <2> QED
    BY <1>2, <2>1 DEF CheckProceed, disk, Counted, OnTrial, Std
<1>3. CASE CheckClear
  BY <1>3 DEF CheckClear, TypeOK, ThreadType, Threads, Counted
<1>4. CASE ClearPrev
  BY <1>4 DEF ClearPrev, IInv, AgentInv, Counted, OnTrial, Std
<1>5. CASE CheckArm
  <2>1. Std \in Markers /\ BootAction(Std, exe) = "arm"
    BY <1>5 DEF CheckArm, BootChoice, Std, TypeOK, DiskType, Dirs
  <2>2. Std.phase = "pending"
    BY <2>1 DEF BootAction, Markers, Phases
  <2>3. Std.attempts <= MaxAttempts
    BY <2>2 DEF IInv, MarkerInv, AttemptsInv, Std, Dirs
  <2>4. BootMarker(Std, exe).attempts \in 1 .. MaxAttempts
    BY <2>1, <2>2, <2>3, BootCounts
  <2>5. marker'["std"] = BootMarker(Std, exe)
    BY <1>5 DEF CheckArm, Std, TypeOK, DiskType, Dirs
  <2> QED
    BY <2>4, <2>5 DEF Counted, Std
<1>6. CASE CheckRollback
  <2>1. Std \in Markers /\ BootAction(Std, exe) = "rollback"
    BY <1>6 DEF CheckRollback, BootChoice, Std, TypeOK, DiskType, Dirs
  <2>2. Std.phase = "pending"
    BY <2>1 DEF BootAction, Markers, Phases
  <2>3. Std.attempts <= MaxAttempts
    BY <2>2 DEF IInv, MarkerInv, AttemptsInv, Std, Dirs
  <2>4. Std.attempts \in 1 .. MaxAttempts
    BY <2>1, <2>2, <2>3, BootCounts
  <2> QED
    BY <1>6, <2>4 DEF CheckRollback, disk, Counted, Std
<1>7. CASE Construct
  BY <1>7 DEF Construct, disk, TypeOK, ThreadType, Threads, Counted, OnTrial, Std
<1> QED
  BY <1>1, <1>2, <1>3, <1>4, <1>5, <1>6, <1>7 DEF Boot

LEMMA RunTimeCounted ==
  ASSUME Writable, TypeOK, IInv, Counted, RunTime
  PROVE  Counted'
<1> USE DEF Writable, Sound
<1>1. CASE StreamsReady \/ Deadline
  BY <1>1 DEF StreamsReady, Deadline, disk, TypeOK, ThreadType, Threads, Counted, OnTrial, Std
<1>2. CASE ReportRolledBack \/ Confirm
  BY <1>2, NoMarkerType
     DEF ReportRolledBack, Confirm, TypeOK, DiskType, Dirs, Counted, OnTrial
<1>3. CASE ConfirmPrev
  BY <1>3 DEF ConfirmPrev, TypeOK, ThreadType, Threads, Counted, OnTrial, Std
<1>4. ASSUME NEW event \in RuntimeEvents \ {"streams_ready", "deadline"}, Disconnected(event)
      PROVE  Counted'
  BY <1>4 DEF Disconnected, disk, TypeOK, ThreadType, Threads, Counted, OnTrial, Std
<1>5. CASE Stop
  BY <1>5, AllDownType DEF Stop, AgentGone, Counted
<1> QED
  BY <1>1, <1>2, <1>3, <1>4, <1>5 DEF RunTime

LEMMA EnvironmentCounted ==
  ASSUME Counted, Environment
  PROVE  Counted'
<1>1. CASE Crash \/ PowerCut
  BY <1>1, AllDownType DEF Crash, PowerCut, AgentGone, Counted
<1>2. CASE CrashCli \/ WriteBack \/ CooldownPasses \/ Session
  BY <1>2 DEF CrashCli, WriteBack, CooldownPasses, Session, disk, agent, Counted, OnTrial, Std
<1> QED
  BY <1>1, <1>2 DEF Environment

\* The agent never runs a binary on trial without having counted that boot, nor beyond
\* the budget, whatever crashes: check_boot persists the attempt before all else, and a
\* failed rollback at boot goes on only with attempts that were counted.
THEOREM BootsOnTrialAreCounted ==
  ASSUME Writable
  PROVE  Spec => []TrialRunsCounted
<1>1. Init => Counted
  BY AllDownType DEF Init, Counted
<1>2. TypeOK /\ IInv /\ Counted /\ [Next]_vars => Counted'
  <2> SUFFICES ASSUME TypeOK, IInv, Counted, [Next]_vars  PROVE Counted'
    OBVIOUS
  <2>1. CASE UNCHANGED vars
    BY <2>1 DEF vars, disk, agent, Counted, OnTrial, Std
  <2> QED
    BY <2>1, ApplyingCounted, RollbackCounted, BootCounted, RunTimeCounted, EnvironmentCounted
       DEF Next
<1>3. Counted => TrialRunsCounted
  BY DEF Counted, TrialRunsCounted, Std, Writable, Sound
<1>4. Spec => [](TypeOK /\ IInv)
  BY InvHolds DEF Writable
<1> QED
  BY <1>1, <1>2, <1>3, <1>4, PTL DEF Spec

-----------------------------------------------------------------------------
(* The versions the poll loop leaves alone.                                 *)

\* Nothing cuts do_rollback short of its record, and one version is published besides
\* the installed one: the reverted record has room for one version.
Remembers ==
  /\ Writable
  /\ "crash_rollback" \notin Hazards /\ "power_cut" \notin Hazards
  /\ \E v \in Binary : Binary = {Genesis, v}

\* skip_reverted_version leaves x alone however long ago it was reverted.
Listed(x) == reverted.version = x /\ reverted.reason # "deadline"

\* A bad version is installed only on trial, and never what a trial goes back to or
\* what confirm() accepts.
GoodFallback ==
  /\ ~OnTrial => install \notin bad
  /\ Std.phase = "pending" => Std.from \notin bad
  /\ pc["io"] = "confirm" => install \notin bad

\* A bad version that is not installed is in the record, or about to be.
BadRecorded ==
  \A x \in bad \ {install} :
    IF \E t \in Threads : pc[t] = "record" THEN held.to = x /\ why # "deadline" ELSE Listed(x)

\* No pending SIGTERM ends a rollback before its record: whoever raised it has replaced
\* the file of this process, and such a process begins no rollback.
Uncut ==
  /\ sigterm => stale /\ pc["main"] = "up"
  /\ \A t \in Threads : pc[t] \in {"record", "mark"} => stale
  /\ \A t \in Threads : pc[t] = "record" => ~sigterm

\* The poller took up no bad version, and none becomes bad in its hands.
PollerHeeds ==
  \A a \in Appliers \cap {"poller"} :
    InApply(a) /\ ap[a].at # "aside" => ap[a].to \notin bad

BadInv == bad \subseteq Binary /\ GoodFallback /\ BadRecorded /\ Uncut /\ PollerHeeds

LEMMA InitBad == Remembers /\ Init => BadInv
<1> SUFFICES ASSUME Remembers, Init  PROVE BadInv
  OBVIOUS
<1>1. GoodFallback
  BY NoMarkerType DEF Init, GoodFallback, Std, Remembers, Writable, Sound, Dirs
<1>2. BadRecorded
  BY DEF Init, BadRecorded
<1>3. Uncut
  BY AllDownType DEF Init, Uncut, RollbackSteps
<1>4. PollerHeeds
  BY DEF Init, PollerHeeds, InApply, NoApply
<1> QED
  BY <1>1, <1>2, <1>3, <1>4 DEF Init, BadInv

\* A version the poller takes up is not the installed one, and skip_reverted_version
\* has looked it up: it is not bad.
LEMMA PollerSkipsBad ==
  ASSUME Remembers, TypeOK, IInv, BadInv, "poller" \in Appliers,
         NEW v \in Binary, ApplyBegin("poller", v), ~stale
  PROVE  v \notin bad
<1> SUFFICES ASSUME v \in bad  PROVE FALSE
  OBVIOUS
<1>1. pc["main"] = "up" /\ v # exe /\ ~SkipReverted(reverted, v, cooled)
  BY DEF ApplyBegin
<1>2. exe = install
  BY <1>1 DEF IInv, AgentInv
<1>3. \A t \in Threads : pc[t] # "record"
  BY DEF BadInv, Uncut
<1>4. Listed(v)
  BY <1>1, <1>2, <1>3 DEF BadInv, BadRecorded
<1> QED
  BY <1>1, <1>4 DEF Listed, SkipReverted

LEMMA ApplyingBad ==
  ASSUME Remembers, TypeOK, IInv, BadInv, NEW a \in Appliers, Applying(a)
  PROVE  BadInv'
<1> USE DEF Remembers, Writable, Sound
<1>0. UNCHANGED <<reverted, bad, pc, held, why>>
  BY DEF Applying, Poll, PollEnds, ApplyBegin, ApplyFetch, ApplyGiveUp, ApplyBackup, ApplyMark,
         ApplyMarkFails, ApplySwap, ApplySwapFails, disk, agent, history
<1>1. GoodFallback'
  <2>1. CASE UNCHANGED <<install, marker>>
    BY <1>0, <2>1 DEF BadInv, GoodFallback, OnTrial, Std
  <2>2. CASE ApplyMark(a)
    <3>1. install = exe /\ ap[a].from = exe /\ Std.phase = "none"
      BY <2>2 DEF ApplyMark, IInv, ApplyInv, AgentInv, InApply
    <3>2. install \notin bad
      BY <3>1 DEF BadInv, GoodFallback, OnTrial, Std
    <3>3. marker'["std"].from = install /\ install' = install
      BY <2>2, <3>1 DEF ApplyMark, PendingMarker, DirOf, agent, TypeOK, DiskType, Dirs
    <3> QED
      BY <1>0, <3>2, <3>3 DEF GoodFallback, Std
  <2>3. CASE ApplySwap(a)
    <3>1. Std.phase = "pending" /\ install' = Std.to /\ UNCHANGED marker
          /\ pc["io"] # "confirm"
      BY <2>3 DEF ApplySwap, IInv, ApplyInv, TrialInv, InApply
    <3> QED
      BY <1>0, <3>1 DEF BadInv, GoodFallback, OnTrial, Std
  <2>4. CASE ApplySwapFails(a)
    <3>1. Std.phase = "pending" /\ Std.from = install /\ install' = install
      BY <2>4 DEF ApplySwapFails, IInv, ApplyInv, AgentInv, InApply
    <3>2. marker'["std"].phase = "none"
      BY <2>4, NoMarkerType DEF ApplySwapFails, DirOf, TypeOK, DiskType, Dirs
    <3> QED
      BY <1>0, <3>1, <3>2 DEF BadInv, GoodFallback, Std
  <2> QED
    BY <2>1, <2>2, <2>3, <2>4
       DEF Applying, Poll, PollEnds, ApplyBegin, ApplyFetch, ApplyGiveUp, ApplyBackup,
           ApplyMarkFails, disk
<1>2. BadRecorded'
  <2>1. CASE ApplySwap(a)
    <3>1. install = Std.from /\ Std.phase = "pending"
      BY <2>1 DEF ApplySwap, IInv, ApplyInv, AgentInv, InApply
    <3>2. install \notin bad
      BY <3>1 DEF BadInv, GoodFallback
    <3> QED
      BY <1>0, <3>2 DEF BadInv, BadRecorded, Listed
  <2>2. CASE UNCHANGED install
    BY <1>0, <2>2 DEF BadInv, BadRecorded, Listed
  <2> QED
    BY <2>1, <2>2
       DEF Applying, Poll, PollEnds, ApplyBegin, ApplyFetch, ApplyGiveUp, ApplyBackup, ApplyMark,
           ApplyMarkFails, ApplySwapFails, disk
<1>3. Uncut'
  <2>1. CASE ApplySwap(a)
    <3>1. pc["main"] = "up" /\ \A t \in Threads : pc[t] \notin RollbackSteps
      BY <2>1 DEF ApplySwap, InApply, IInv, AgentInv, TrialInv
    <3>2. stale'
      BY <2>1, <3>1 DEF ApplySwap
    <3> QED
      BY <1>0, <3>1, <3>2 DEF Uncut, RollbackSteps
  <2>2. CASE UNCHANGED <<sigterm, stale>>
    BY <1>0, <2>2 DEF BadInv, Uncut
  <2> QED
    BY <2>1, <2>2
       DEF Applying, Poll, PollEnds, ApplyBegin, ApplyFetch, ApplyGiveUp, ApplyBackup, ApplyMark,
           ApplyMarkFails, ApplySwapFails, agent
<1>4. PollerHeeds'
  <2> SUFFICES ASSUME "poller" \in Appliers, InApply("poller")', ap'["poller"].at # "aside"
               PROVE  ap'["poller"].to \notin bad'
    BY DEF PollerHeeds
  <2>1. ASSUME NEW v \in Binary, ApplyBegin(a, v), a = "poller"
        PROVE  ap'["poller"].to \notin bad'
    <3>1. ~stale /\ ap'["poller"].to = v
      BY <2>1 DEF ApplyBegin, TypeOK, OutsideType
    <3> QED
      BY <1>0, <2>1, <3>1, PollerSkipsBad
  <2>2. CASE ap'["poller"] = ap["poller"]
    BY <1>0, <2>2 DEF BadInv, PollerHeeds, InApply
  <2>3. CASE ap'["poller"] \in {NoApply, [ap["poller"] EXCEPT !.at = "polled"]}
    BY <2>3 DEF InApply, NoApply, TypeOK, OutsideType, Apply
  <2>4. CASE /\ InApply("poller") /\ ap["poller"].at # "aside"
             /\ ap'["poller"].to = ap["poller"].to
    BY <1>0, <2>4 DEF BadInv, PollerHeeds
  <2>5. CASE a # "poller"
    BY <2>2, <2>5
       DEF Applying, Poll, PollEnds, ApplyBegin, ApplyFetch, ApplyGiveUp, ApplyBackup, ApplyMark,
           ApplyMarkFails, ApplySwap, ApplySwapFails, TypeOK, OutsideType
  <2>6. CASE a = "poller" /\ (Poll \/ PollEnds \/ ApplyGiveUp(a) \/ ApplyMarkFails(a)
                                \/ ApplySwap(a) \/ ApplySwapFails(a))
    BY <2>3, <2>6
       DEF Poll, PollEnds, ApplyGiveUp, ApplyMarkFails, ApplySwap, ApplySwapFails, TypeOK,
           OutsideType
  <2>7. CASE a = "poller" /\ (ApplyBackup(a) \/ ApplyMark(a) \/ \E b \in Binary : ApplyFetch(a, b))
    BY <2>4, <2>7
       DEF ApplyBackup, ApplyMark, ApplyFetch, InApply, TypeOK, OutsideType, Apply
  <2> QED
    BY <2>1, <2>5, <2>6, <2>7 DEF Applying
<1> QED
  BY <1>0, <1>1, <1>2, <1>3, <1>4 DEF BadInv

\* A reversal moves to the record what it makes bad, and the record takes it: only one
\* version besides the one gone back to exists.
LEMMA RollbackBad ==
  ASSUME Remembers, TypeOK, IInv, BadInv, NEW t \in Threads, Rollback(t)
  PROVE  BadInv'
<1> USE DEF Remembers, Writable, Sound
<1>h. \A a \in Appliers : ~InApply(a)
  BY DEF Rollback, Revert, RevertFails, Record, MarkRolledBack, RollbackSteps, IInv, TrialInv
<1>a. ap' = ap
  BY DEF Rollback, Revert, RevertFails, Record, MarkRolledBack
<1>p. PollerHeeds'
  BY <1>h, <1>a DEF PollerHeeds, InApply
<1>o. \A u \in Threads : u # t => pc[u] \notin RollbackSteps
  BY DEF Rollback, Revert, RevertFails, Record, MarkRolledBack, RollbackSteps, IInv, ResolveInv,
         TypeOK, ThreadType, Threads, MainSteps, IoSteps, TimerSteps
<1>1. CASE Revert(t)
  <2>0. pc["main"] # "down"
    BY <1>1 DEF Revert, IInv, ResolveInv, TypeOK, ThreadType, Threads
  <2>1. /\ ~stale /\ OnTrial /\ prev = Std.from /\ Std.phase = "pending" /\ Std.from # Std.to
        /\ held.to = install /\ Std.to = install /\ {Std.from, Std.to} \subseteq Binary
    BY <1>1, <2>0 DEF Revert, IInv, TrialInv, MarkerInv, AgentInv, OnTrial, Std
  <2>2. /\ install' = Std.from /\ UNCHANGED <<marker, reverted, held, why, sigterm>>
        /\ stale' = TRUE /\ pc' = [pc EXCEPT ![t] = "record"]
        /\ bad' \subseteq bad \cup {held.to}
        /\ why = "deadline" => bad' \subseteq bad \ {held.to}
    BY <1>1, <2>1 DEF Revert
  <2>3. GoodFallback'
    BY <2>1, <2>2 DEF BadInv, GoodFallback, Std
  <2>4. bad' \subseteq Binary
    BY <2>1, <2>2 DEF BadInv
  <2>5. BadRecorded'
    <3> SUFFICES ASSUME NEW x \in bad' \ {install'}
                 PROVE  held'.to = x /\ why' # "deadline" /\ \E u \in Threads : pc'[u] = "record"
      BY DEF BadRecorded
    <3>1. x = held.to
      BY <2>1, <2>2, <2>4
    <3>2. pc'[t] = "record"
      BY <2>2 DEF TypeOK, ThreadType
    <3> QED
      BY <2>2, <3>1, <3>2
  <2>6. Uncut'
    BY <1>o, <2>1, <2>2 DEF BadInv, Uncut, RollbackSteps, TypeOK, ThreadType
  <2> QED
    BY <1>p, <2>3, <2>4, <2>5, <2>6 DEF BadInv
<1>2. CASE RevertFails(t)
  <2>1. UNCHANGED <<disk, stale, held, why, sigterm, bad>>
    BY <1>2 DEF RevertFails, history
  <2>2. \A u \in Threads : pc[u] \in {"record", "mark"} <=> pc'[u] \in {"record", "mark"}
    BY <1>2 DEF RevertFails, AfterFailedRevert, TypeOK, ThreadType
  <2>3. \A u \in Threads : pc[u] = "record" <=> pc'[u] = "record"
    BY <1>2 DEF RevertFails, AfterFailedRevert, TypeOK, ThreadType
  <2>4. GoodFallback'
    <3>1. pc'["io"] = "confirm" => pc["io"] = "confirm"
      BY <1>2 DEF RevertFails, AfterFailedRevert, TypeOK, ThreadType, Threads
    <3> QED
      BY <2>1, <3>1 DEF disk, BadInv, GoodFallback, OnTrial, Std
  <2>5. BadRecorded'
    BY <2>1, <2>3 DEF disk, BadInv, BadRecorded, Listed
  <2>6. Uncut'
    <3>1. ~sigterm
      BY <1>2 DEF RevertFails, IInv, TrialInv, BadInv, Uncut
    <3> QED
      BY <2>1, <2>2, <2>3, <3>1 DEF BadInv, Uncut
  <2> QED
    BY <1>p, <2>1, <2>4, <2>5, <2>6 DEF BadInv
<1>3. CASE Record(t)
  <2>1. /\ UNCHANGED <<install, marker, stale, held, why, sigterm, bad>>
        /\ reverted' = [version |-> held.to, reason |-> why]
        /\ pc[t] = "record" /\ pc' = [pc EXCEPT ![t] = "mark"]
    BY <1>3 DEF Record, RevertedRecord, history
  <2>3. GoodFallback'
    BY <2>1 DEF BadInv, GoodFallback, OnTrial, Std
  <2>4. BadRecorded'
    <3>1. \A u \in Threads : pc'[u] # "record"
      BY <1>o, <2>1 DEF RollbackSteps, TypeOK, ThreadType
    <3> SUFFICES ASSUME NEW x \in bad \ {install}  PROVE Listed(x)'
      BY <2>1, <3>1 DEF BadRecorded
    <3>2. held.to = x /\ why # "deadline"
      BY <2>1 DEF BadInv, BadRecorded
    <3> QED
      BY <2>1, <3>2 DEF Listed
  <2>5. Uncut'
    BY <2>1 DEF BadInv, Uncut, TypeOK, ThreadType
  <2> QED
    BY <1>p, <2>1, <2>3, <2>4, <2>5 DEF BadInv
<1>4. CASE MarkRolledBack(t)
  <2>1. /\ UNCHANGED <<install, reverted, bad>>
        /\ marker' = [marker EXCEPT !["std"] = [held EXCEPT !.phase = "rolled_back"]]
        /\ pc[t] = "mark"
    BY <1>4 DEF MarkRolledBack, history
  <2>2. Std.phase = "pending" /\ install = Std.from /\ stale
    BY <2>1 DEF IInv, TrialInv, BadInv, Uncut
  <2>3. install \notin bad
    BY <2>2 DEF BadInv, GoodFallback
  <2>4. GoodFallback'
    <3>1. marker'["std"].phase = "rolled_back"
      BY <2>1, RolledBackMarkerType DEF TypeOK, DiskType, AgentType, Dirs
    <3> QED
      BY <2>1, <2>3, <3>1 DEF GoodFallback, Std
  <2>5. \A u \in Threads : pc[u] # "record" /\ pc'[u] # "record"
    BY <1>4, <1>o, <2>1, AllDownType
       DEF MarkRolledBack, AgentGone, RollbackSteps, TypeOK, ThreadType
  <2>6. BadRecorded'
    BY <2>1, <2>5 DEF BadInv, BadRecorded, Listed
  <2>7. Uncut'
    <3>1. CASE t = "main"
      BY <1>4, <3>1, AllDownType DEF MarkRolledBack, AgentGone, Uncut, RollbackSteps
    <3>2. CASE t # "main"
      <4>1. pc["main"] = "up"
        BY <1>4, <3>2 DEF MarkRolledBack, IInv, ResolveInv, Threads
      <4> QED
        BY <1>4, <1>o, <2>2, <3>2, <4>1
           DEF MarkRolledBack, Uncut, RollbackSteps, TypeOK, ThreadType, Threads
    <3> QED
      BY <3>1, <3>2
  <2> QED
    BY <1>p, <2>1, <2>4, <2>6, <2>7 DEF BadInv
<1> QED
  BY <1>1, <1>2, <1>3, <1>4 DEF Rollback

\* The end of the agent, with no record to write, and what it leaves.
LEMMA AgentGoneBad ==
  ASSUME BadInv, AgentGone, ApplierGone(InAgent), \A t \in Threads : pc[t] # "record",
         UNCHANGED <<disk, bad>>
  PROVE  BadInv'
<1>1. PollerHeeds'
  BY DEF ApplierGone, InAgent, PollerHeeds, InApply, NoApply
<1>2. GoodFallback' /\ Uncut'
  BY AllDownType DEF AgentGone, disk, BadInv, GoodFallback, OnTrial, Std, Uncut, RollbackSteps
<1>3. BadRecorded'
  BY AllDownType DEF AgentGone, disk, BadInv, BadRecorded, Listed, RollbackSteps
<1> QED
  BY <1>1, <1>2, <1>3 DEF BadInv

LEMMA BootBad ==
  ASSUME Remembers, TypeOK, IInv, BadInv, Boot
  PROVE  BadInv'
<1> USE DEF Remembers, Writable, Sound
<1>0. pc["main"] # "up" /\ UNCHANGED <<install, reverted, sigterm, ap, bad>>
  BY DEF Boot, Start, CheckProceed, CheckClear, ClearPrev, CheckArm, CheckRollback, Construct, disk,
         history
<1>1. /\ ~sigterm /\ ~sigterm'
      /\ pc["io"] = "idle" /\ pc'["io"] = "idle"
      /\ \A t \in Threads : pc[t] \notin {"record", "mark"} /\ pc'[t] \notin {"record", "mark"}
  <2>1. pc["io"] = "idle" /\ pc["timer"] = "off"
    BY <1>0 DEF IInv, ResolveInv
  <2>2. /\ pc["main"] \notin {"record", "mark"} /\ pc'["main"] \notin {"record", "mark"}
        /\ pc'["io"] = "idle" /\ pc'["timer"] \in {"off", "waiting"}
    BY <2>1 DEF Boot, Start, CheckProceed, CheckClear, ClearPrev, CheckArm, CheckRollback,
                Construct, TypeOK, ThreadType, Threads
  <2> QED
    BY <1>0, <2>1, <2>2 DEF BadInv, Uncut, Threads
<1>2. GoodFallback'
  <2>1. CASE UNCHANGED marker
    BY <1>0, <1>1, <2>1 DEF BadInv, GoodFallback, OnTrial, Std
  <2>2. CASE CheckClear
    <3>1. ~OnTrial
      BY <2>2 DEF CheckClear, BootChoice, BootAction, OnTrial, IInv, AgentInv
    <3>2. marker'["std"].phase = "none"
      BY <2>2, NoMarkerType DEF CheckClear, TypeOK, DiskType, Dirs
    <3> QED
      BY <1>0, <1>1, <3>1, <3>2 DEF BadInv, GoodFallback, Std
  <2>3. CASE CheckArm
    <3>1. /\ marker'["std"].phase = Std.phase
          /\ marker'["std"].from = Std.from /\ marker'["std"].to = Std.to
      BY <2>3 DEF CheckArm, BootMarker, Std, TypeOK, DiskType, Dirs, Markers
    <3> QED
      BY <1>0, <1>1, <3>1 DEF BadInv, GoodFallback, OnTrial, Std
  <2> QED
    BY <2>1, <2>2, <2>3 DEF Boot, Start, CheckProceed, ClearPrev, CheckRollback, Construct, disk
<1>3. BadRecorded'
  BY <1>0, <1>1 DEF BadInv, BadRecorded, Listed
<1>4. Uncut' /\ PollerHeeds'
  BY <1>0, <1>1 DEF BadInv, Uncut, PollerHeeds, InApply
<1> QED
  BY <1>0, <1>2, <1>3, <1>4 DEF BadInv

LEMMA RunTimeBad ==
  ASSUME Remembers, TypeOK, IInv, BadInv, RunTime
  PROVE  BadInv'
<1> USE DEF Remembers, Writable, Sound
<1>1. CASE Stop
  <2>1. \A t \in Threads : pc[t] # "record"
    BY <1>1 DEF Stop, BadInv, Uncut
  <2> QED
    BY <1>1, <2>1, AgentGoneBad DEF Stop, history
<1>2. CASE ~Stop
  <2>0. /\ UNCHANGED <<install, reverted, stale, held, sigterm, ap>>
        /\ bad' \subseteq bad /\ pc'["main"] = pc["main"]
        /\ \A t \in Threads : pc'[t] \in {"record", "mark"} <=> pc[t] \in {"record", "mark"}
        /\ \A t \in Threads : pc'[t] = "record" <=> pc[t] = "record"
    BY <1>2 DEF RunTime, StreamsReady, ReportRolledBack, Confirm, ConfirmPrev, Disconnected,
                Deadline, IoReady, disk, history, TypeOK, ThreadType, Threads
  <2>1. (\E t \in Threads : pc[t] = "record") => why' = why
    BY <1>2 DEF RunTime, StreamsReady, ReportRolledBack, Confirm, ConfirmPrev, Disconnected,
                Deadline, IoReady, Undecided, IInv, ResolveInv, Threads
  <2>2. GoodFallback'
    <3>1. CASE UNCHANGED marker /\ (pc'["io"] = "confirm" => pc["io"] = "confirm")
      BY <2>0, <3>1 DEF BadInv, GoodFallback, OnTrial, Std
    <3>2. CASE StreamsReady
      <4>1. pc'["io"] = "confirm" => pc["io"] = "confirm" \/ install \notin bad'
        BY <3>2 DEF StreamsReady, IoReady, Undecided, IInv, TrialInv, ResolveInv, AgentInv, TypeOK,
                    ThreadType
      <4> QED
        BY <2>0, <3>2, <4>1 DEF StreamsReady, disk, BadInv, GoodFallback, OnTrial, Std
    <3>3. CASE ReportRolledBack \/ Confirm
      <4>1. install \notin bad
        BY <3>3 DEF ReportRolledBack, Confirm, IInv, TrialInv, BadInv, GoodFallback, OnTrial, Std
      <4>2. marker'["std"].phase = "none"
        BY <3>3, NoMarkerType DEF ReportRolledBack, Confirm, TypeOK, DiskType, Dirs
      <4> QED
        BY <2>0, <4>1, <4>2 DEF GoodFallback, Std
    <3> QED
      BY <1>2, <3>1, <3>2, <3>3
         DEF RunTime, ConfirmPrev, Disconnected, Deadline, disk, TypeOK, ThreadType, Threads
  <2>3. BadRecorded'
    BY <2>0, <2>1 DEF BadInv, BadRecorded, Listed
  <2>4. Uncut'
    BY <2>0 DEF BadInv, Uncut
  <2>5. PollerHeeds'
    BY <2>0 DEF BadInv, PollerHeeds, InApply
  <2> QED
    BY <2>0, <2>2, <2>3, <2>4, <2>5 DEF BadInv
<1> QED
  BY <1>1, <1>2

LEMMA EnvironmentBad ==
  ASSUME Remembers, TypeOK, IInv, BadInv, Environment
  PROVE  BadInv'
<1> USE DEF Remembers, Writable, Sound
<1>1. CASE Crash
  <2>1. ~RollingBack
    BY <1>1 DEF Crash, CrashAllowed
  <2>2. \A t \in Threads : pc[t] # "record"
    BY <2>1 DEF RollingBack, RollbackSteps
  <2> QED
    BY <1>1, <2>2, AgentGoneBad DEF Crash, history
<1>2. CASE WriteBack \/ CooldownPasses \/ Session
  BY <1>2 DEF WriteBack, CooldownPasses, Session, disk, agent, history, BadInv, GoodFallback,
              OnTrial, Std, BadRecorded, Listed, Uncut, PollerHeeds, InApply
<1> QED
  BY <1>1, <1>2 DEF Environment, PowerCut, CrashCli

\* Through any crash that leaves do_rollback whole, and however the update resource
\* and the poll loop alternate, the poll loop does not install a version that was last
\* reverted for a crash loop or a rejection (skip_reverted_version: "never retry it").
THEOREM PollerLeavesBadAlone ==
  ASSUME Remembers
  PROVE  Spec => BadNeverRetried
<1>1. Init => BadInv
  BY InitBad
<1>2. TypeOK /\ IInv /\ BadInv /\ [Next]_vars => BadInv'
  <2> SUFFICES ASSUME TypeOK, IInv, BadInv, [Next]_vars  PROVE BadInv'
    OBVIOUS
  <2>1. CASE UNCHANGED vars
    BY <2>1 DEF vars, disk, agent, history, BadInv, GoodFallback, OnTrial, Std, BadRecorded, Listed,
                Uncut, PollerHeeds, InApply
  <2> QED
    BY <2>1, ApplyingBad, RollbackBad, BootBad, RunTimeBad, EnvironmentBad DEF Next
<1>3. BadInv /\ [Next]_vars =>
        [\A a \in Appliers \cap {"poller"} :
           ap[a].at = "marked" /\ install' # install => ap[a].to \notin bad]_vars
  BY DEF BadInv, PollerHeeds, InApply
<1>4. Spec => [](TypeOK /\ IInv)
  BY InvHolds DEF Remembers, Writable
<1> QED
  BY <1>1, <1>2, <1>3, <1>4, PTL DEF Spec, BadNeverRetried
===============================================================================
