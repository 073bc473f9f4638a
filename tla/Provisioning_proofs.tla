------------------------- MODULE Provisioning_proofs -------------------------
(***************************************************************************)
(* Proofs about Provisioning and the browser flow it runs (DeviceFlow),    *)
(* for any machines, devices, commands and faults, and any lifetime of the *)
(* code, intervals and latency:                                            *)
(*                                                                         *)
(*   the flow ends, and who approves in time is let in by a server that    *)
(*   does not raise its interval;                                          *)
(*   credentials nobody holds are always there to be made;                 *)
(*   a machine that was said to be set up can connect.                     *)
(***************************************************************************)
EXTENDS Provisioning, FiniteSetTheorems, TLAPS

-----------------------------------------------------------------------------
(* The browser flow by itself.                                              *)

\* The types, with the flow as a record.
FlowRecord ==
  flow \in [at : {"idle", "starting", "waiting", "polling", "done"}, clock : Nat, due : Nat,
            began : Nat, result : Results, grant : {"pending", "approved", "denied"},
            when : Nat, last : Int, need : Nat, slowed : Nat]

\* No sleep is longer than Pace.
Pace == Longer(Interval, Penalty)

\* What the clock can be: in a sleep it is not past its end, and the sleep began with an
\* answer that was not late.
ClockInv ==
  /\ flow.began <= Latency /\ flow.when <= flow.clock
  /\ flow.at \in {"idle", "starting"} =>
       /\ flow.began = 0 /\ flow.slowed = 0 /\ flow.grant = "pending"
       /\ flow.when = 0 /\ flow.result = "none"
  /\ flow.at = "idle" => flow.clock = 0 /\ flow.due = 0
  /\ flow.at # "done" => flow.clock <= flow.due /\ flow.result = "none"
  /\ flow.at = "starting" => flow.due <= Latency
  /\ flow.at = "waiting" => /\ flow.due <= flow.clock + Pace
                            /\ flow.due <= Expires + flow.began + Pace
  /\ flow.at = "polling" => /\ flow.due <= flow.clock + Latency
                            /\ flow.due <= Expires + flow.began + Gap
  /\ flow.at = "done" => flow.clock <= Expires + flow.began + Gap

\* An approval is seen by the poll that follows it, or by one round for each slow_down
\* later.
ApprovalInv ==
  /\ flow.grant = "approved" /\ flow.at = "waiting" =>
       flow.due + Latency <= flow.when + (flow.slowed + 1) * Gap
  /\ flow.grant = "approved" /\ flow.at = "polling" =>
       flow.due <= flow.when + (flow.slowed + 1) * Gap

FlowInv == FlowRecord /\ ClockInv

-----------------------------------------------------------------------------
\* The round is a sleep and a request, and no shorter than either wait.
LEMMA GapParts ==
  /\ Pace \in Nat /\ Gap \in Nat /\ Gap = Pace + Latency
  /\ Interval <= Pace /\ Penalty <= Pace
BY TimesAssumption DEF Pace, Gap, Longer

\* One more slow_down is one more round.
LEMMA NextRound ==
  ASSUME NEW n \in Nat
  PROVE  /\ (n + 1) * Gap \in Nat /\ (n + 2) * Gap = (n + 1) * Gap + Gap /\ (n + 1) * Gap >= Gap
<1>1. Gap \in Nat
  BY GapParts
<1> QED BY <1>1

\* The flow begins without a past (start_device_flow).
LEMMA FlowStarts == FlowInit => FlowInv
BY TimesAssumption DEF FlowInit, Idle, FlowInv, FlowRecord, ClockInv, Results

\* A step keeps the record and the clock (poll_device_token).
LEMMA FlowInvStep ==
  ASSUME FlowInv, [StartFlow \/ FlowStep]_flow
  PROVE  FlowInv'
<1>t. /\ Interval \in Nat /\ Penalty \in Nat /\ Latency \in Nat /\ Expires \in Nat
      /\ Pace \in Nat /\ Gap \in Nat /\ Gap = Pace + Latency
      /\ Interval <= Pace /\ Penalty <= Pace
  BY GapParts, TimesAssumption
<1>r. /\ flow.clock \in Nat /\ flow.due \in Nat /\ flow.began \in Nat /\ flow.when \in Nat
      /\ flow.slowed \in Nat /\ flow.need \in Nat /\ flow.last \in Int
  BY DEF FlowInv, FlowRecord
<1>e. ASSUME NEW result \in Results, FlowEnds(result),
             flow.clock <= Expires + flow.began + Gap
      PROVE  FlowInv'
  <2>1. FlowRecord'
    BY <1>e DEF FlowEnds, FlowInv, FlowRecord
  <2>2. /\ flow'.at = "done" /\ flow'.began = flow.began /\ flow'.when = flow.when
        /\ flow'.clock = flow.clock
    BY <1>e DEF FlowEnds, FlowInv, FlowRecord
  <2>3. ClockInv'
    BY <1>e, <2>2 DEF FlowInv, ClockInv
  <2> QED BY <2>1, <2>3 DEF FlowInv
<1>1. CASE StartFlow
  <2>1. flow' = [Idle EXCEPT !.at = "starting", !.due = Latency]
    BY <1>1 DEF StartFlow
  <2>2. Idle \in [at : {"idle"}, clock : Nat, due : Nat, began : Nat, result : Results,
                  grant : {"pending"}, when : Nat, last : Int, need : Nat, slowed : Nat]
    <3>1. -Interval \in Int
      BY <1>t
    <3> QED BY <3>1, <1>t DEF Idle, Results
  <2>3. FlowRecord'
    BY <2>1, <2>2, <1>t DEF FlowRecord
  <2>4. ClockInv'
    BY <2>1, <1>t DEF Idle, ClockInv
  <2> QED BY <2>3, <2>4 DEF FlowInv
<1>2. CASE Started
  <2>1. /\ flow.at = "starting" /\ flow.clock <= flow.due /\ flow.due <= Latency
        /\ flow.result = "none" /\ flow.when <= flow.clock
    BY <1>2 DEF Started, FlowInv, ClockInv
  <2>2. CASE flow' = [flow EXCEPT !.at = "waiting", !.due = flow.clock, !.began = flow.clock]
    <3>1. FlowRecord'
      BY <2>2 DEF FlowInv, FlowRecord
    <3>2. /\ flow'.at = "waiting" /\ flow'.due = flow.clock /\ flow'.began = flow.clock
          /\ flow'.clock = flow.clock /\ flow'.when = flow.when /\ flow'.result = flow.result
      BY <2>2 DEF FlowInv, FlowRecord
    <3>3. ClockInv'
      BY <2>1, <3>2, <1>t, <1>r DEF ClockInv
    <3> QED BY <3>1, <3>3 DEF FlowInv
  <2>3. CASE FlowEnds("failed")
    <3>1. flow.clock <= Expires + flow.began + Gap
      BY <2>1, <1>t, <1>r DEF FlowInv, ClockInv
    <3> QED BY <2>3, <3>1, <1>e DEF Results
  <2> QED BY <1>2, <2>2, <2>3 DEF Started
<1>3. CASE Poll
  <2>1. /\ flow.at = "waiting" /\ flow.clock = flow.due /\ flow.result = "none"
        /\ flow.clock <= Expires + flow.began + Gap
        /\ flow.began <= Latency /\ flow.when <= flow.clock
    BY <1>3, <1>t, <1>r DEF Poll, FlowInv, ClockInv
  <2>2. CASE TimedOut
    BY <1>3, <2>1, <2>2, <1>e DEF Poll, Results
  <2>3. CASE ~TimedOut
    <3>1. flow' = [flow EXCEPT !.at = "polling", !.due = flow.clock + Latency]
      BY <1>3, <2>3 DEF Poll
    <3>2. flow.clock + Latency \in Nat
      BY <1>t, <1>r
    <3>3. FlowRecord'
      BY <3>1, <3>2 DEF FlowInv, FlowRecord
    <3>4. /\ flow'.at = "polling" /\ flow'.due = flow.clock + Latency
          /\ flow'.began = flow.began /\ flow'.result = flow.result
          /\ flow'.clock = flow.clock /\ flow'.when = flow.when
      BY <3>1 DEF FlowInv, FlowRecord
    <3>5. flow.clock <= Expires + flow.began
      BY <2>3, <1>t, <1>r DEF TimedOut
    <3>6. ClockInv'
      BY <2>1, <3>4, <3>5, <1>t, <1>r DEF ClockInv
    <3> QED BY <3>3, <3>6 DEF FlowInv
  <2> QED BY <2>2, <2>3
<1>4. CASE Answer
  <2>1. flow.at = "polling" /\ flow.clock <= Expires + flow.began + Gap
    BY <1>4, <1>t, <1>r DEF Answer, FlowInv, ClockInv
  <2>2. ASSUME NEW result \in Results, FlowEnds(result) PROVE FlowInv'
    BY <2>1, <2>2, <1>e
  <2>3. ASSUME flow.clock <= Expires, NEW wait \in Nat, wait <= Pace, NEW s \in Nat, NEW n \in Nat,
               flow' = [Sleep(wait) EXCEPT !.slowed = s, !.need = n]
        PROVE  FlowInv'
    <3>1. flow.clock + wait \in Nat /\ flow.clock \in Int
      BY <2>3, <1>r
    <3>2. FlowRecord'
      BY <2>3, <3>1 DEF Sleep, FlowInv, FlowRecord
    <3>3. /\ flow'.at = "waiting" /\ flow'.due = flow.clock + wait
          /\ flow'.began = flow.began /\ flow'.result = flow.result
          /\ flow'.clock = flow.clock /\ flow'.when = flow.when
      BY <2>3 DEF Sleep, FlowInv, FlowRecord
    <3>4. ClockInv'
      BY <2>1, <2>3, <3>3, <1>t, <1>r DEF FlowInv, ClockInv
    <3> QED BY <3>2, <3>4 DEF FlowInv
  <2>4. \/ \E result \in Results : FlowEnds(result)
        \/ /\ flow.clock <= Expires
           /\ \E wait \in {Interval, Penalty}, s, n \in Nat :
                flow' = [Sleep(wait) EXCEPT !.slowed = s, !.need = n]
    <3>1. CASE FlowEnds("failed") \/ FlowEnds("expired")
      BY <3>1 DEF Results
    <3>2. CASE /\ flow.clock <= Expires
               /\ flow' = [SlowDown EXCEPT !.slowed = @ + (IF TooFast THEN 0 ELSE 1),
                                           !.need = @ + (IF Enforcing THEN Penalty ELSE 0)]
      <4>1. SlowDown.slowed = flow.slowed /\ SlowDown.need = flow.need
        BY DEF SlowDown, Sleep, FlowInv, FlowRecord
      <4>2. /\ flow.slowed + (IF TooFast THEN 0 ELSE 1) \in Nat
            /\ flow.need + (IF Enforcing THEN Penalty ELSE 0) \in Nat
        BY <1>t, <1>r
      <4> QED BY <3>2, <4>1, <4>2 DEF SlowDown
    <3>3. CASE /\ flow.clock <= Expires
               /\ CASE flow.grant = "pending"  -> flow' = Sleep(Interval)
                    [] flow.grant = "approved" -> FlowEnds("granted")
                    [] flow.grant = "denied"   -> FlowEnds("denied")
      <4>1. flow.grant \in {"pending", "approved", "denied"}
        BY DEF FlowInv, FlowRecord
      <4>2. Sleep(Interval) = [Sleep(Interval) EXCEPT !.slowed = flow.slowed, !.need = flow.need]
        BY DEF Sleep, FlowInv, FlowRecord
      <4> QED BY <3>3, <4>1, <4>2, <1>r DEF Results
    <3> QED BY <1>4, <3>1, <3>2, <3>3 DEF Answer
  <2> QED BY <2>2, <2>3, <2>4, <1>t
<1>5. ASSUME NEW grant \in {"approved", "denied"}, Decide(grant) PROVE FlowInv'
  <2>1. /\ flow' = [flow EXCEPT !.grant = grant, !.when = flow.clock]
        /\ flow.at \in {"waiting", "polling"}
    BY <1>5 DEF Decide
  <2>2. FlowRecord'
    BY <2>1, <1>r DEF FlowInv, FlowRecord
  <2>3. /\ flow'.at = flow.at /\ flow'.due = flow.due /\ flow'.began = flow.began
        /\ flow'.result = flow.result /\ flow'.clock = flow.clock /\ flow'.when = flow.clock
    BY <2>1 DEF FlowInv, FlowRecord
  <2>4. ClockInv'
    BY <2>1, <2>3, <1>r DEF FlowInv, ClockInv
  <2> QED BY <2>2, <2>4 DEF FlowInv
<1>6. CASE Tick
  <2>1. /\ flow' = [flow EXCEPT !.clock = flow.clock + 1]
        /\ flow.at \in {"starting", "waiting", "polling"} /\ flow.clock + 1 <= flow.due
    BY <1>6, <1>r DEF Tick
  <2>2. FlowRecord'
    BY <2>1, <1>r DEF FlowInv, FlowRecord
  <2>3. /\ flow'.at = flow.at /\ flow'.due = flow.due /\ flow'.began = flow.began
        /\ flow'.result = flow.result /\ flow'.clock = flow.clock + 1
        /\ flow'.when = flow.when /\ flow'.slowed = flow.slowed /\ flow'.grant = flow.grant
    BY <2>1 DEF FlowInv, FlowRecord
  <2>4. ClockInv'
    BY <2>1, <2>3, <1>t, <1>r DEF FlowInv, ClockInv
  <2> QED BY <2>2, <2>4 DEF FlowInv
<1>7. CASE UNCHANGED flow
  BY <1>7 DEF FlowInv, FlowRecord, ClockInv
<1> QED BY <1>1, <1>2, <1>3, <1>4, <1>5, <1>6, <1>7 DEF FlowStep

\* The setup does not hang in the flow, whatever the lifetime of the code, the intervals
\* and the latency, and however often the server asks for a slower pace.
THEOREM FlowIsBounded == FlowSpec => []FlowBounded
<1>1. FlowInv => FlowBounded
  BY GapParts, TimesAssumption DEF FlowInv, FlowRecord, ClockInv, FlowBounded
<1> QED BY <1>1, FlowStarts, FlowInvStep, PTL DEF FlowSpec

-----------------------------------------------------------------------------
(* Approval.                                                                *)

\* Against a server that does not raise its interval, each answer to an approved flow
\* is the token, or a slow_down that is followed by one more round.
LEMMA ApprovalStep ==
  ASSUME ~Enforcing, FlowInv, ApprovalInv, [StartFlow \/ FlowStep]_flow
  PROVE  ApprovalInv'
<1>t. /\ Interval \in Nat /\ Penalty \in Nat /\ Latency \in Nat
      /\ Pace \in Nat /\ Gap \in Nat /\ Gap = Pace + Latency
      /\ Interval <= Pace /\ Penalty <= Pace
  BY GapParts, TimesAssumption
<1>r. /\ flow.clock \in Nat /\ flow.due \in Nat /\ flow.when \in Nat /\ flow.slowed \in Nat
      /\ flow.grant \in {"pending", "approved", "denied"}
  BY DEF FlowInv, FlowRecord
<1>n. /\ (flow.slowed + 1) * Gap \in Nat /\ (flow.slowed + 1) * Gap >= Gap
      /\ (flow.slowed + 2) * Gap = (flow.slowed + 1) * Gap + Gap
  BY <1>r, NextRound
<1>1. CASE StartFlow \/ Started
  <2>1. flow'.grant = "pending" \/ flow'.at \notin {"waiting", "polling"}
    BY <1>1 DEF StartFlow, Idle, Started, FlowEnds, FlowInv, FlowRecord, ClockInv
  <2> QED BY <2>1 DEF ApprovalInv
<1>2. CASE Poll
  <2>1. /\ flow.at = "waiting" /\ flow.clock = flow.due
        /\ flow'.at = "polling" => /\ flow'.due = flow.clock + Latency
                                  /\ flow'.grant = flow.grant /\ flow'.when = flow.when
                                  /\ flow'.slowed = flow.slowed
        /\ flow'.at \in {"polling", "done"}
    BY <1>2 DEF Poll, FlowEnds, FlowInv, FlowRecord
  <2> QED BY <2>1, <1>t, <1>r, <1>n DEF ApprovalInv
<1>3. CASE Answer
  <2>1. flow.at = "polling" /\ flow.clock <= flow.due
    BY <1>3 DEF Answer, FlowInv, ClockInv
  <2>2. ASSUME NEW result \in Results, FlowEnds(result) PROVE ApprovalInv'
    BY <2>2 DEF FlowEnds, FlowInv, FlowRecord, ApprovalInv
  <2>3. CASE flow.grant # "approved"
    <3>1. flow'.grant = flow.grant
      BY <1>3 DEF Answer, SlowDown, Sleep, FlowEnds, FlowInv, FlowRecord
    <3> QED BY <2>3, <3>1 DEF ApprovalInv
  <2>4. CASE /\ flow.grant = "approved"
             /\ flow' = [SlowDown EXCEPT !.slowed = @ + (IF TooFast THEN 0 ELSE 1),
                                         !.need = @ + (IF Enforcing THEN Penalty ELSE 0)]
    <3>1. ~TooFast
      BY DEF TooFast
    <3>2. /\ flow'.at = "waiting" /\ flow'.due = flow.clock + Penalty
          /\ flow'.when = flow.when /\ flow'.slowed = flow.slowed + 1
      BY <2>4, <3>1 DEF SlowDown, Sleep, FlowInv, FlowRecord
    <3>3. flow.due <= flow.when + (flow.slowed + 1) * Gap
      BY <2>1, <2>4 DEF ApprovalInv
    <3>4. flow'.due + Latency <= flow'.when + (flow.slowed + 2) * Gap
      BY <2>1, <3>2, <3>3, <1>t, <1>r, <1>n
    <3>5. flow.slowed + 2 = flow'.slowed + 1
      BY <3>2, <1>r
    <3> QED BY <3>2, <3>4, <3>5 DEF ApprovalInv
  <2>5. CASE flow.grant = "approved" /\ FlowEnds("granted")
    BY <2>2, <2>5 DEF Results
  <2>6. CASE FlowEnds("failed") \/ FlowEnds("expired")
    BY <2>2, <2>6 DEF Results
  <2> QED BY <1>3, <2>3, <2>4, <2>5, <2>6 DEF Answer
<1>4. ASSUME NEW grant \in {"approved", "denied"}, Decide(grant) PROVE ApprovalInv'
  <2>1. /\ flow' = [flow EXCEPT !.grant = grant, !.when = flow.clock]
        /\ flow.at \in {"waiting", "polling"}
    BY <1>4 DEF Decide
  <2>2. /\ flow'.at = flow.at /\ flow'.due = flow.due /\ flow'.when = flow.clock
        /\ flow'.slowed = flow.slowed
    BY <2>1 DEF FlowInv, FlowRecord
  <2>3. /\ flow.at = "waiting" => flow.due <= flow.clock + Pace
        /\ flow.at = "polling" => flow.due <= flow.clock + Latency
    BY DEF FlowInv, ClockInv
  <2> QED BY <2>2, <2>3, <1>t, <1>r, <1>n DEF ApprovalInv
<1>5. CASE Tick
  <2>1. /\ flow'.at = flow.at /\ flow'.due = flow.due /\ flow'.when = flow.when
        /\ flow'.slowed = flow.slowed /\ flow'.grant = flow.grant
    BY <1>5 DEF Tick, FlowInv, FlowRecord
  <2> QED BY <2>1 DEF ApprovalInv
<1>6. CASE UNCHANGED flow
  BY <1>6 DEF ApprovalInv
<1> QED BY <1>1, <1>2, <1>3, <1>4, <1>5, <1>6 DEF FlowStep

\* A flow that ends without a token although it was approved ends when the rounds the
\* approval could still wait for are over, or has ended so.
LateEnd ==
  flow.result \in {"timeout", "expired"} /\ flow.grant = "approved" /\ flow.at = "done"
    => flow.when + (flow.slowed + 1) * Gap > Expires

\* A step that ends the flow ends it late, or with a token or a failure.
LEMMA EndStep ==
  ASSUME FlowInv, ApprovalInv, LateEnd, [StartFlow \/ FlowStep]_flow
  PROVE  LateEnd'
<1>t. Latency \in Nat /\ Gap \in Nat /\ Expires \in Nat
  BY GapParts, TimesAssumption
<1>r. /\ flow.clock \in Nat /\ flow.due \in Nat /\ flow.when \in Nat /\ flow.began \in Nat
      /\ (flow.slowed + 1) * Gap \in Nat
  BY NextRound DEF FlowInv, FlowRecord
<1>1. CASE flow.at = "done"
  BY <1>1 DEF StartFlow, FlowStep, Started, Poll, Answer, Decide, Tick, LateEnd
<1>2. CASE flow.at # "done" /\ flow'.at = "done"
  <2>1. \E result \in Results :
          /\ FlowEnds(result)
          /\ result = "timeout" => Poll /\ TimedOut
          /\ result = "expired" => Answer /\ flow.clock > Expires
    BY <1>2 DEF StartFlow, Idle, FlowStep, Started, Poll, Answer, SlowDown, Sleep, Decide, Tick,
                Results, FlowInv, FlowRecord
  <2>2. PICK result \in Results :
          /\ FlowEnds(result)
          /\ result = "timeout" => Poll /\ TimedOut
          /\ result = "expired" => Answer /\ flow.clock > Expires
    BY <2>1
  <2>3. /\ flow'.result = result /\ flow'.grant = flow.grant /\ flow'.when = flow.when
        /\ flow'.slowed = flow.slowed
    BY <2>2 DEF FlowEnds, FlowInv, FlowRecord
  <2>4. CASE result = "timeout"
    <3>1. flow.at = "waiting" /\ flow.clock = flow.due /\ flow.clock > Expires
      BY <2>2, <2>4, <1>t, <1>r DEF Poll, TimedOut
    <3>2. flow.grant = "approved" =>
            flow.due + Latency <= flow.when + (flow.slowed + 1) * Gap
      BY <3>1 DEF ApprovalInv
    <3> QED BY <2>3, <3>1, <3>2, <1>t, <1>r DEF LateEnd
  <2>5. CASE result = "expired"
    <3>1. flow.at = "polling" /\ flow.clock <= flow.due /\ flow.clock > Expires
      BY <2>2, <2>5 DEF Answer, FlowInv, ClockInv
    <3>2. flow.grant = "approved" => flow.due <= flow.when + (flow.slowed + 1) * Gap
      BY <3>1 DEF ApprovalInv
    <3> QED BY <2>3, <3>1, <3>2, <1>t, <1>r DEF LateEnd
  <2>6. CASE result \notin {"timeout", "expired"}
    BY <2>3, <2>6 DEF LateEnd
  <2> QED BY <2>4, <2>5, <2>6
<1>3. CASE flow'.at # "done"
  BY <1>3 DEF LateEnd
<1> QED BY <1>1, <1>2, <1>3

\* A user who approved in time is let in, whatever the lifetime of the code, the
\* intervals and the latency, by a server that does not raise its interval.
THEOREM ApprovalIsServed == ASSUME ~Enforcing PROVE FlowSpec => []ApprovedInTimeServed
<1>1. FlowInit => ApprovalInv /\ LateEnd
  BY DEF FlowInit, Idle, ApprovalInv, LateEnd
<1>2. FlowInv /\ ApprovalInv /\ LateEnd /\ [StartFlow \/ FlowStep]_flow
        => ApprovalInv' /\ LateEnd'
  BY ApprovalStep, EndStep
<1>3. FlowInv /\ LateEnd => ApprovedInTimeServed
  BY DEF FlowInv, FlowRecord, ClockInv, LateEnd, ApprovedInTimeServed
<1> QED BY <1>1, <1>2, <1>3, FlowStarts, FlowInvStep, PTL DEF FlowSpec

-----------------------------------------------------------------------------
(* The flow in the setup, which may run it again.                           *)

\* What the types of the flow need beyond FlowInv: the poll before is not later than now,
\* and a server complains without a reason MaxSlow times at most.
FlowLimits ==
  /\ -Interval <= flow.last /\ flow.last <= flow.clock
  /\ flow.due <= Horizon /\ flow.slowed <= MaxSlow

\* A flow that is over is forgotten, and nothing of it is left for the next one.
LEMMA FlowForgotten ==
  ASSUME flow' = Idle
  PROVE  FlowInv' /\ ApprovalInv' /\ LateEnd' /\ FlowLimits'
<1>1. FlowInv'
  BY TimesAssumption DEF Idle, FlowInv, FlowRecord, ClockInv, Results
<1>2. Horizon \in Nat /\ -Interval <= 0 /\ MaxSlow \in Nat
  BY GapParts, TimesAssumption DEF Horizon
<1>3. FlowLimits'
  BY <1>2, TimesAssumption DEF FlowLimits, Idle
<1> QED BY <1>1, <1>3 DEF Idle, ApprovalInv, LateEnd

\* The first flow begins within the limits.
LEMMA FlowLimitsStart ==
  ASSUME FlowInit
  PROVE  FlowLimits
<1>1. Horizon \in Nat /\ -Interval <= 0 /\ MaxSlow \in Nat
  BY GapParts, TimesAssumption DEF Horizon
<1> QED BY <1>1, TimesAssumption DEF FlowInit, FlowLimits, Idle

\* A step of the flow keeps its limits (poll_device_token).
LEMMA FlowLimitsStep ==
  ASSUME FlowInv, FlowLimits, StartFlow \/ FlowStep
  PROVE  FlowLimits'
<1>t. /\ Interval \in Nat /\ Penalty \in Nat /\ Latency \in Nat /\ Expires \in Nat
      /\ MaxSlow \in Nat /\ Gap \in Nat /\ Horizon = Expires + Latency + Gap
      /\ Gap = Pace + Latency /\ Pace \in Nat
  BY GapParts, TimesAssumption DEF Horizon
<1>r. /\ flow.clock \in Nat /\ flow.due \in Nat /\ flow.began \in Nat
      /\ flow.slowed \in Nat /\ flow.last \in Int
  BY DEF FlowInv, FlowRecord
<1>i. FlowInv'
  BY FlowInvStep
<1>r2. /\ flow'.clock \in Nat /\ flow'.due \in Nat /\ flow'.began \in Nat
       /\ flow'.slowed \in Nat /\ flow'.last \in Int /\ flow'.began <= Latency
  BY <1>i DEF FlowInv, FlowRecord, ClockInv
\* while it is under way the end of the sleep or request is limited by what ClockInv says
<1>d. flow'.due <= Horizon
  <2>1. CASE flow'.at \in {"idle", "starting", "waiting", "polling"}
    BY <1>t, <1>r2, <1>i, <2>1 DEF FlowInv, ClockInv
  <2>2. CASE flow'.at = "done"
    <3>1. \E result \in Results : FlowEnds(result)
      BY <2>2 DEF StartFlow, FlowStep, Started, Poll, Answer, Decide, Tick, SlowDown, Sleep,
                  Results, Idle, FlowInv, FlowRecord
    <3>2. flow'.due = flow.due
      BY <3>1 DEF FlowEnds, FlowInv, FlowRecord
    <3> QED BY <3>2 DEF FlowLimits
  <2> QED BY <2>1, <2>2, <1>i DEF FlowInv, FlowRecord
<1>1. CASE StartFlow
  <2>1. flow'.last = -Interval /\ flow'.clock = 0 /\ flow'.slowed = 0
    BY <1>1 DEF StartFlow, Idle
  <2> QED BY <2>1, <1>d, <1>t DEF FlowLimits
<1>2. CASE flow'.last = flow.last /\ flow'.slowed = flow.slowed
           /\ flow'.clock \in {flow.clock, flow.clock + 1}
  BY <1>2, <1>d, <1>r, <1>r2 DEF FlowLimits
<1>3. CASE flow'.last = flow.clock /\ flow'.clock = flow.clock /\ flow'.slowed <= MaxSlow
  BY <1>3, <1>d, <1>r, <1>t DEF FlowLimits
<1>4. CASE Answer
  <2>1. CASE \E result \in Results : FlowEnds(result)
    BY <2>1, <1>2 DEF FlowEnds, FlowInv, FlowRecord
  <2>2. CASE flow' = Sleep(Interval)
    <3>1. flow'.last = flow.clock /\ flow'.clock = flow.clock /\ flow'.slowed = flow.slowed
      BY <2>2 DEF Sleep, FlowInv, FlowRecord
    <3> QED BY <3>1, <1>3 DEF FlowLimits
  <2>3. CASE /\ MayComplain
             /\ flow' = [SlowDown EXCEPT !.slowed = @ + (IF TooFast THEN 0 ELSE 1),
                                         !.need = @ + (IF Enforcing THEN Penalty ELSE 0)]
    <3>1. /\ flow'.last = flow.clock /\ flow'.clock = flow.clock
          /\ flow'.slowed = flow.slowed + (IF TooFast THEN 0 ELSE 1)
      BY <2>3 DEF SlowDown, Sleep, FlowInv, FlowRecord
    <3>2. flow'.slowed <= MaxSlow
      BY <2>3, <3>1, <1>r, <1>t DEF MayComplain, FlowLimits
    <3> QED BY <3>1, <3>2, <1>3
  <2>4. \/ \E result \in Results : FlowEnds(result)
        \/ flow' = Sleep(Interval)
        \/ /\ MayComplain
           /\ flow' = [SlowDown EXCEPT !.slowed = @ + (IF TooFast THEN 0 ELSE 1),
                                       !.need = @ + (IF Enforcing THEN Penalty ELSE 0)]
    <3>1. flow.grant \in {"pending", "approved", "denied"}
      BY DEF FlowInv, FlowRecord
    <3> QED BY <1>4, <3>1 DEF Answer, Results
  <2> QED BY <2>1, <2>2, <2>3, <2>4
<1>5. CASE Started \/ Poll \/ Tick \/ \E grant \in {"approved", "denied"} : Decide(grant)
  <2>1. /\ flow'.last = flow.last /\ flow'.slowed = flow.slowed
        /\ flow'.clock \in {flow.clock, flow.clock + 1}
    BY <1>5 DEF Started, Poll, Tick, Decide, FlowEnds, FlowInv, FlowRecord
  <2> QED BY <2>1, <1>2
<1> QED BY <1>1, <1>4, <1>5 DEF FlowStep

\* The inductive invariants imply the types the runs check.
LEMMA FlowTypes ==
  ASSUME FlowInv, FlowLimits
  PROVE  FlowTypeOK
<1>t. /\ Latency \in Nat /\ Expires \in Nat /\ Interval \in Nat /\ MaxSlow \in Nat
      /\ Gap \in Nat /\ Pace \in Nat /\ Horizon = Expires + Latency + Gap /\ Gap = Pace + Latency
  BY GapParts, TimesAssumption DEF Horizon
<1>r. /\ flow.clock \in Nat /\ flow.due \in Nat /\ flow.began \in Nat /\ flow.when \in Nat
      /\ flow.slowed \in Nat /\ flow.last \in Int
  BY DEF FlowInv, FlowRecord
<1>1. flow.clock <= Horizon /\ flow.began <= Latency /\ flow.when <= Horizon
  <2>1. flow.began <= Latency /\ flow.when <= flow.clock
    BY DEF FlowInv, ClockInv
  <2>2. CASE flow.at = "done"
    BY <2>1, <2>2, <1>t, <1>r DEF FlowInv, ClockInv
  <2>3. CASE flow.at # "done"
    BY <2>1, <2>3, <1>t, <1>r DEF FlowInv, ClockInv, FlowLimits
  <2> QED BY <2>2, <2>3
<1> QED BY <1>1, <1>t, <1>r DEF FlowInv, FlowRecord, FlowLimits, FlowTypeOK

\* Whatever the machines do, the flow begins, goes on, is over and forgotten, or stays.
LEMMA FlowMoves ==
  ASSUME [Next]_vars
  PROVE  StartFlow \/ FlowStep \/ flow' = Idle \/ UNCHANGED flow
BY DEF Next, Runs, Install, Setup, ChooseMethod, Retry, Browse, Browsed, AskCertificate,
       Authenticate, Provision, ResolveConflict, Rename, DeleteDevice, Reprovision, Save, Test,
       vars

FlowLimited == FlowInv /\ FlowLimits

\* The flow keeps within its limits while the setup runs, browser flow after browser flow.
LEMMA FlowLimitedStep ==
  ASSUME FlowLimited, [Next]_vars
  PROVE  FlowLimited'
<1>1. CASE StartFlow \/ FlowStep
  BY <1>1, FlowInvStep, FlowLimitsStep DEF FlowLimited
<1>2. CASE flow' = Idle
  BY <1>2, FlowForgotten DEF FlowLimited
<1>3. CASE UNCHANGED flow
  BY <1>3 DEF FlowLimited, FlowInv, FlowRecord, ClockInv, FlowLimits
<1> QED BY <1>1, <1>2, <1>3, FlowMoves

\* The setup never hangs in the browser flow, however often its user tries again and whatever
\* the machines do meanwhile.
THEOREM SetupFlowIsBounded == Spec => []FlowBounded
<1>1. Init => FlowLimited
  BY FlowStarts, FlowLimitsStart DEF Init, FlowLimited
<1>2. FlowLimited => FlowBounded
  BY GapParts, TimesAssumption DEF FlowLimited, FlowInv, FlowRecord, ClockInv, FlowBounded
<1> QED BY <1>1, <1>2, FlowLimitedStep, PTL DEF Spec

\* A user of the setup who approved in time is let in, by a server that does not raise its
\* interval, however often the user has tried before.
THEOREM SetupApprovalIsServed == ASSUME ~Enforcing PROVE Spec => []ApprovedInTimeServed
<1> DEFINE Served == FlowLimited /\ ApprovalInv /\ LateEnd
<1>1. Init => Served
  BY FlowStarts, FlowLimitsStart
     DEF Init, FlowLimited, FlowInit, Idle, ApprovalInv, LateEnd
<1>2. Served /\ [Next]_vars => Served'
  <2> SUFFICES ASSUME Served, [Next]_vars PROVE Served'
    OBVIOUS
  <2>1. FlowLimited'
    BY FlowLimitedStep
  <2>2. CASE StartFlow \/ FlowStep \/ UNCHANGED flow
    BY <2>1, <2>2, ApprovalStep, EndStep DEF FlowLimited
  <2>3. CASE flow' = Idle
    BY <2>1, <2>3, FlowForgotten
  <2> QED BY <2>2, <2>3, FlowMoves
<1>3. Served => ApprovedInTimeServed
  BY DEF FlowLimited, FlowInv, FlowRecord, ClockInv, LateEnd, ApprovedInTimeServed
<1> HIDE DEF Served
<1> QED BY <1>1, <1>2, <1>3, PTL DEF Spec

-----------------------------------------------------------------------------
(* Credentials nobody holds are always there to be made.                    *)

\* A nonempty set of numbers has a least one.
LEMMA LeastNumber ==
  ASSUME NEW S \in SUBSET Nat, S # {}
  PROVE  \E t \in S : \A u \in S : t <= u
<1>1. PICK t \in S : \A u \in S : ~(<<u, t>> \in OpToRel(<, Nat))
  BY NatLessThanWellFounded, WFMin, Zenon
<1>2. ASSUME NEW u \in S PROVE t <= u
  <2>1. <<u, t>> \in Nat \X Nat /\ <<u, t>>[1] = u /\ <<u, t>>[2] = t
    OBVIOUS
  <2>2. ~(u < t)
    BY <1>1, <2>1 DEF OpToRel
  <2> QED BY <2>2
<1> QED BY <1>2

\* The values of a function on a finite set are no more than its arguments.
LEMMA FewValues ==
  ASSUME NEW S, IsFiniteSet(S), NEW f, f = [x \in S |-> f[x]]
  PROVE  LET T == {f[x] : x \in S} IN IsFiniteSet(T) /\ Cardinality(T) <= Cardinality(S)
<1> DEFINE T == {f[x] : x \in S}
<1>1. f \in Surjection(S, T)
  BY DEF Surjection
<1> HIDE DEF T
<1>2. IsFiniteSet(T) /\ Cardinality(T) <= Cardinality(S)
  BY <1>1, FS_Surjection
<1> QED BY <1>2 DEF T

\* The types of all but the flow.
MachineTypes ==
  /\ trusted \in BOOLEAN
  /\ record \in [DeviceId -> 0 .. NTokens]
  /\ cmd \in [Machine -> CommandRecords]
  /\ config \in [Machine -> Configs]
  /\ said \in [Machine -> {"failed", "ok", "taken"}]

\* A file holds one token, and a machine one more while it provisions, so that of more
\* tokens than that one is free (generate_device_credentials).
LEMMA FreshIsFree ==
  ASSUME MachineTypes
  PROVE  Fresh \in Tokens \ Held /\ Fresh \in 0 .. NTokens /\ Fresh # 0
<1> DEFINE R == {record[d] : d \in DeviceId}
           got == [m \in Machine |-> cmd[m].got]
           G == {got[m] : m \in Machine}
           tok == [m \in Machine |-> config[m].token]
           F == {tok[m] : m \in Machine}
<1>1. IsFiniteSet(R) /\ Cardinality(R) <= Cardinality(DeviceId)
  <2>1. record = [d \in DeviceId |-> record[d]]
    BY DEF MachineTypes
  <2> QED BY <2>1, ProvisioningAssumption, FewValues
<1>2. IsFiniteSet(G) /\ Cardinality(G) <= Cardinality(Machine)
  <2> HIDE DEF got
  <2>1. got = [m \in Machine |-> got[m]]
    BY DEF got
  <2> QED BY <2>1, ProvisioningAssumption, FewValues
<1>3. IsFiniteSet(F) /\ Cardinality(F) <= Cardinality(Machine)
  <2> HIDE DEF tok
  <2>1. tok = [m \in Machine |-> tok[m]]
    BY DEF tok
  <2> QED BY <2>1, ProvisioningAssumption, FewValues
<1>4. Held \subseteq R \cup (G \cup F)
  <2>1. \A m \in Machine : cmd[m].got \in G
    OBVIOUS
  <2>2. \A m \in Machine : config[m].token \in F
    OBVIOUS
  <2> QED BY <2>1, <2>2 DEF Held
<1>5. /\ IsFiniteSet(Held)
      /\ Cardinality(Held) <= Cardinality(DeviceId) + 2 * Cardinality(Machine)
  <2> HIDE DEF R, G, F
  <2>1. /\ Cardinality(R) \in Nat /\ Cardinality(G) \in Nat /\ Cardinality(F) \in Nat
        /\ Cardinality(DeviceId) \in Nat /\ Cardinality(Machine) \in Nat
    BY <1>1, <1>2, <1>3, ProvisioningAssumption, FS_CardinalityType
  <2>2. IsFiniteSet(G \cup F) /\ Cardinality(G \cup F) <= Cardinality(G) + Cardinality(F)
    <3>1. IsFiniteSet(G \cap F) /\ Cardinality(G \cap F) \in Nat
      BY <1>2, FS_Intersection, FS_CardinalityType
    <3>2. /\ IsFiniteSet(G \cup F)
          /\ Cardinality(G \cup F) = Cardinality(G) + Cardinality(F) - Cardinality(G \cap F)
      BY <1>2, <1>3, FS_Union
    <3>3. \A a, b, c \in Nat : a + b - c <= a + b
      OBVIOUS
    <3> QED BY <2>1, <3>1, <3>2, <3>3
  <2>3. Cardinality(G \cup F) \in Nat
    BY <2>2, FS_CardinalityType
  <2>4. /\ IsFiniteSet(R \cup (G \cup F))
        /\ Cardinality(R \cup (G \cup F)) <= Cardinality(R) + Cardinality(G \cup F)
    <3>1. IsFiniteSet(R \cap (G \cup F)) /\ Cardinality(R \cap (G \cup F)) \in Nat
      BY <1>1, FS_Intersection, FS_CardinalityType
    <3>2. /\ IsFiniteSet(R \cup (G \cup F))
          /\ Cardinality(R \cup (G \cup F))
               = Cardinality(R) + Cardinality(G \cup F) - Cardinality(R \cap (G \cup F))
      BY <1>1, <2>2, FS_Union
    <3>3. \A a, b, c \in Nat : a + b - c <= a + b
      OBVIOUS
    <3> QED BY <2>1, <2>3, <3>1, <3>2, <3>3
  <2>5. /\ IsFiniteSet(Held) /\ Cardinality(Held) <= Cardinality(R \cup (G \cup F))
    BY <1>4, <2>4, FS_Subset
  <2>6. Cardinality(Held) \in Nat /\ Cardinality(R \cup (G \cup F)) \in Nat
    BY <2>4, <2>5, FS_CardinalityType
  <2> QED BY <1>1, <1>2, <1>3, <2>1, <2>2, <2>3, <2>4, <2>5, <2>6
<1>6. Tokens \ Held # {}
  <2>1. IsFiniteSet(Tokens) /\ Cardinality(Tokens) = NTokens
    <3>1. NTokens \in Nat
      BY ProvisioningAssumption
    <3>2. 1 \in Int /\ NTokens \in Int
      BY <3>1
    <3>3. /\ IsFiniteSet(1 .. NTokens)
          /\ Cardinality(1 .. NTokens) = IF 1 > NTokens THEN 0 ELSE NTokens - 1 + 1
      BY <3>2, FS_Interval
    <3> QED BY <3>1, <3>3 DEF Tokens
  <2>2. SUFFICES ASSUME Tokens \subseteq Held PROVE FALSE
    OBVIOUS
  <2>3. Cardinality(Tokens) <= Cardinality(Held)
    BY <1>5, <2>2, FS_Subset
  <2>4. /\ Cardinality(Held) \in Nat /\ NTokens \in Nat /\ Cardinality(DeviceId) \in Nat
        /\ Cardinality(Machine) \in Nat
    BY <1>5, ProvisioningAssumption, FS_CardinalityType
  <2> QED BY <1>5, <2>1, <2>3, <2>4, ProvisioningAssumption
<1>7. \E t \in Tokens \ Held : \A u \in Tokens \ Held : t <= u
  <2>1. Tokens \ Held \in SUBSET Nat
    BY DEF Tokens
  <2> QED BY <1>6, <2>1, LeastNumber
<1>8. Fresh \in Tokens \ Held
  BY <1>7 DEF Fresh
<1>9. ASSUME NEW t \in Tokens PROVE t \in 0 .. NTokens /\ t # 0
  BY ProvisioningAssumption DEF Tokens
<1> QED BY <1>8, <1>9

-----------------------------------------------------------------------------
(* The inductive invariant.                                                 *)

\* Only a machine that is about to test or save its credentials has any.
GotHeld == \A m \in Machine : cmd[m].got # 0 => cmd[m].at \in {"provisioned", "save"}

\* It got them over a connection that was verified, or accepted by its user.
GotReached == \A m \in Machine : cmd[m].got # 0 => trusted \/ cmd[m].ssl = "accepted"

\* The server accepts them, unless another machine deleted the device.
GotOnRecord ==
  \A m \in Machine : cmd[m].got # 0 /\ ~cmd[m].taken => record[cmd[m].id] = cmd[m].got

\* Nobody is told of a success before the command is over.
SaidFailed == \A m \in Machine : cmd[m].at # "idle" => said[m] = "failed"

\* Only the setup asks about the certificate, and offers a test.
OnlySetupAsks ==
  \A m \in Machine : cmd[m].op # "setup" => cmd[m].ssl = "none" /\ cmd[m].at # "provisioned"

\* The setup runs on a machine without a config file.
SetupHasNoFile == \A m \in Machine : cmd[m].op = "setup" => config[m] = NoConfig

CommandInv ==
  GotHeld /\ GotReached /\ GotOnRecord /\ SaidFailed /\ OnlySetupAsks /\ SetupHasNoFile

-----------------------------------------------------------------------------
(* What the actions leave.                                                  *)

OnlyOf(m) == \A n \in Machine \ {m} : cmd'[n] = cmd[n]

\* The command goes on, and keeps what it has got.
Moves(m) ==
  /\ cmd' \in [Machine -> CommandRecords] /\ OnlyOf(m) /\ UNCHANGED <<config, said>>
  /\ cmd[m].at # "idle" /\ cmd'[m].at \notin {"idle", "provisioned"}
  /\ cmd'[m].op = cmd[m].op /\ cmd'[m].got = cmd[m].got /\ cmd'[m].taken = cmd[m].taken
  /\ cmd'[m].ssl = cmd[m].ssl \/ (cmd[m].op = "setup" /\ cmd[m].got = 0)
  /\ cmd[m].got = 0 \/ (cmd'[m].at = "save" /\ cmd'[m].id = cmd[m].id)

\* The command is over and has failed.
Quits(m) ==
  /\ cmd' \in [Machine -> CommandRecords] /\ OnlyOf(m) /\ cmd'[m] = NoCommand
  /\ said' \in [Machine -> {"failed", "ok", "taken"}] /\ said'[m] = "failed"
  /\ \A n \in Machine \ {m} : said'[n] = said[n]
  /\ UNCHANGED config

\* The server has a record of the credentials the command got.
Gets(m) ==
  /\ cmd' \in [Machine -> CommandRecords] /\ OnlyOf(m) /\ UNCHANGED <<config, said>>
  /\ cmd[m].at # "idle" /\ cmd[m].got = 0 /\ Reached(m)
  /\ cmd'[m].at = IF cmd[m].op = "setup" THEN "provisioned" ELSE "save"
  /\ cmd'[m].op = cmd[m].op /\ cmd'[m].ssl = cmd[m].ssl /\ cmd'[m].id = cmd[m].id
  /\ cmd'[m].got # 0 /\ record'[cmd[m].id] = cmd'[m].got

\* A record is made where none was.
Records(m) ==
  /\ record' \in [DeviceId -> 0 .. NTokens]
  /\ \A d \in DeviceId : record[d] # 0 => record'[d] = record[d]

\* No command is under way.
LEMMA NoCommandIs ==
  /\ NoCommand \in CommandRecords /\ NoCommand.at = "idle" /\ NoCommand.op = "none"
  /\ NoCommand.ssl = "none" /\ NoCommand.got = 0 /\ NoCommand.force = FALSE
  /\ NoCommand.taken = FALSE /\ NoCommand.id \in DeviceId
<1>1. (CHOOSE d \in DeviceId : TRUE) \in DeviceId
  BY ProvisioningAssumption
<1>2. 0 \in 0 .. NTokens
  BY ProvisioningAssumption
<1> QED BY <1>1, <1>2 DEF NoCommand, CommandRecords, Steps

\* A command that goes on elsewhere, and perhaps about another device.
LEMMA GoesMoves ==
  ASSUME MachineTypes, NEW m \in Machine, NEW step \in Steps \ {"idle", "provisioned"},
         cmd[m].at # "idle", NEW id \in DeviceId,
         cmd[m].got = 0 \/ (step = "save" /\ id = cmd[m].id),
         cmd' = [cmd EXCEPT ![m].id = id, ![m].at = step], UNCHANGED <<config, said>>
  PROVE  Moves(m)
<1> DEFINE new == [cmd[m] EXCEPT !.id = id, !.at = step]
<1>1. cmd \in [Machine -> CommandRecords] /\ cmd[m] \in CommandRecords
  BY DEF MachineTypes
<1>2. /\ new \in CommandRecords /\ new.at = step /\ new.id = id /\ new.op = cmd[m].op
      /\ new.got = cmd[m].got /\ new.ssl = cmd[m].ssl /\ new.taken = cmd[m].taken
  BY <1>1 DEF CommandRecords
<1>3. cmd' = [cmd EXCEPT ![m] = new]
  OBVIOUS
<1> HIDE DEF new
<1>4. cmd' \in [Machine -> CommandRecords] /\ OnlyOf(m) /\ cmd'[m] = new
  BY <1>1, <1>2, <1>3 DEF OnlyOf
<1> QED BY <1>2, <1>4 DEF Moves

\* The same, about the device it is about.
LEMMA GotoMoves ==
  ASSUME MachineTypes, NEW m \in Machine, NEW step \in Steps \ {"idle", "provisioned"},
         cmd[m].at # "idle", cmd[m].got = 0 \/ step = "save",
         Goto(m, step), UNCHANGED <<config, said>>
  PROVE  Moves(m)
<1>1. cmd \in [Machine -> CommandRecords] /\ cmd[m].id \in DeviceId
  BY DEF MachineTypes, CommandRecords
<1>2. cmd' = [cmd EXCEPT ![m].id = cmd[m].id, ![m].at = step]
  BY <1>1 DEF Goto, CommandRecords
<1> QED BY <1>1, <1>2, GoesMoves

\* A command that failed is over.
LEMMA EndsQuits ==
  ASSUME MachineTypes, NEW m \in Machine, Ends(m, "failed"), UNCHANGED config
  PROVE  Quits(m)
BY NoCommandIs DEF Ends, Quits, OnlyOf, MachineTypes

\* The command line ends where the setup offers its menu (authenticate).
LEMMA GivesUpDoes ==
  ASSUME MachineTypes, NEW m \in Machine, cmd[m].at # "idle", cmd[m].got = 0,
         GivesUp(m), UNCHANGED config
  PROVE  Moves(m) \/ Quits(m)
BY GotoMoves, EndsQuits DEF GivesUp, Steps

\* The steps of a command that make no credentials and end in no success.
Walks(m) ==
  \/ ChooseMethod(m) \/ Retry(m) \/ Browse(m) \/ Browsed(m) \/ AskCertificate(m)
  \/ Authenticate(m) \/ ResolveConflict(m) \/ Rename(m)

\* They go on or give up (authenticate, provision_with_conflict_loop).
LEMMA WalkDoes ==
  ASSUME MachineTypes, CommandInv, NEW m \in Machine, Walks(m)
  PROVE  /\ Moves(m) \/ Quits(m) \/ UNCHANGED <<cmd, config, said>>
         /\ UNCHANGED <<trusted, record>>
<1>t. cmd \in [Machine -> CommandRecords] /\ cmd[m] \in CommandRecords
  BY DEF MachineTypes
<1>g. cmd[m].at \notin {"provisioned", "save"} => cmd[m].got = 0
  BY DEF CommandInv, GotHeld
<1>s. {"browser", "auth", "post", "save", "menu", "retry", "rename", "delete"}
        \subseteq Steps \ {"idle", "provisioned"}
  BY DEF Steps
<1>1. CASE ChooseMethod(m)
  <2>1. cmd[m].at = "menu" /\ UNCHANGED <<trusted, record, config, said>>
    BY <1>1 DEF ChooseMethod
  <2>2. CASE Goto(m, "browser")
    BY <2>1, <2>2, <1>g, <1>s, GotoMoves
  <2>3. ASSUME NEW id \in DeviceId, NEW step \in {"auth", "post", "save"},
               cmd' = [cmd EXCEPT ![m].at = step, ![m].id = id]
        PROVE  Moves(m)
    <3>1. cmd' = [cmd EXCEPT ![m].id = id, ![m].at = step]
      BY <2>3, <1>t DEF CommandRecords
    <3> QED BY <2>1, <3>1, <1>g, <1>s, GoesMoves
  <2> QED BY <1>1, <2>1, <2>2, <2>3 DEF ChooseMethod
<1>2. CASE Retry(m)
  <2>1. cmd[m].at = "retry" /\ UNCHANGED <<trusted, record, config>>
    BY <1>2 DEF Retry
  <2>2. CASE Goto(m, "menu") /\ UNCHANGED said
    BY <2>1, <2>2, <1>g, <1>s, GotoMoves
  <2>3. CASE Ends(m, "failed")
    BY <2>1, <2>3, EndsQuits
  <2> QED BY <1>2, <2>1, <2>2, <2>3 DEF Retry
<1>3. CASE Browse(m)
  BY <1>3 DEF Browse
<1>4. CASE Browsed(m)
  <2>1. cmd[m].at = "browser" /\ UNCHANGED <<trusted, record, config, said>>
    BY <1>4 DEF Browsed
  <2>2. PICK id \in DeviceId :
          cmd' = [cmd EXCEPT ![m].id = id,
                    ![m].at = IF flow.result = "granted" THEN "post" ELSE "retry"]
    BY <1>4 DEF Browsed
  <2> DEFINE step == IF flow.result = "granted" THEN "post" ELSE "retry"
  <2>3. step \in Steps \ {"idle", "provisioned"}
    BY <1>s
  <2>4. cmd' = [cmd EXCEPT ![m].id = id, ![m].at = step]
    BY <2>2
  <2> HIDE DEF step
  <2> QED BY <2>1, <2>3, <2>4, <1>g, GoesMoves
<1>5. CASE AskCertificate(m)
  <2>1. PICK answer \in {"accepted", "rejected"} : cmd' = [cmd EXCEPT ![m].ssl = answer]
    BY <1>5 DEF AskCertificate
  <2>2. /\ cmd[m].at \in Requests /\ cmd[m].ssl = "unasked"
        /\ UNCHANGED <<trusted, record, config, said>>
    BY <1>5 DEF AskCertificate, MustAsk
  <2>3. cmd[m].op = "setup"
    BY <2>2 DEF CommandInv, OnlySetupAsks
  <2> DEFINE new == [cmd[m] EXCEPT !.ssl = answer]
  <2>4. /\ new \in CommandRecords /\ new.at = cmd[m].at /\ new.op = cmd[m].op
        /\ new.got = cmd[m].got /\ new.taken = cmd[m].taken /\ new.id = cmd[m].id
    BY <1>t DEF CommandRecords
  <2>5. cmd' = [cmd EXCEPT ![m] = new]
    BY <2>1
  <2> HIDE DEF new
  <2>6. cmd' \in [Machine -> CommandRecords] /\ OnlyOf(m) /\ cmd'[m] = new
    BY <1>t, <2>4, <2>5 DEF OnlyOf
  <2> QED BY <1>g, <2>2, <2>3, <2>4, <2>6 DEF Moves, Requests
<1>6. CASE Authenticate(m)
  <2>1. cmd[m].at = "auth" /\ UNCHANGED <<trusted, record, config>>
    BY <1>6 DEF Authenticate, Sends
  <2>2. (Goto(m, "post") /\ UNCHANGED said) \/ GivesUp(m)
    BY <1>6 DEF Authenticate
  <2> QED BY <2>1, <2>2, <1>g, <1>s, GotoMoves, GivesUpDoes
<1>7. CASE ResolveConflict(m)
  <2>1. cmd[m].at = "conflict" /\ UNCHANGED <<trusted, record, config>>
    BY <1>7 DEF ResolveConflict
  <2>2. \/ \E step \in {"rename", "delete"} : Goto(m, step) /\ UNCHANGED said
        \/ Ends(m, "failed")
    BY <1>7 DEF ResolveConflict
  <2> QED BY <2>1, <2>2, <1>g, <1>s, GotoMoves, EndsQuits
<1>8. CASE Rename(m)
  <2>1. cmd[m].at = "rename" /\ UNCHANGED <<trusted, record, config, said>>
    BY <1>8 DEF Rename
  <2>2. PICK id \in DeviceId : cmd' = [cmd EXCEPT ![m].id = id, ![m].at = "post"]
    BY <1>8 DEF Rename
  <2> QED BY <2>1, <2>2, <1>g, <1>s, GoesMoves
<1> QED BY <1>1, <1>2, <1>3, <1>4, <1>5, <1>6, <1>7, <1>8 DEF Walks

\* The requests that provision: a record is made only where there was none, and the command
\* goes on, gives up, or has got what the server now has (provision_device).
LEMMA PostDoes ==
  ASSUME MachineTypes, CommandInv, NEW m \in Machine, Provision(m) \/ Reprovision(m)
  PROVE  (Moves(m) \/ Quits(m) \/ Gets(m)) /\ Records(m) /\ UNCHANGED trusted
<1>t. /\ cmd \in [Machine -> CommandRecords] /\ cmd[m] \in CommandRecords
      /\ cmd[m].id \in DeviceId /\ record \in [DeviceId -> 0 .. NTokens]
  BY DEF MachineTypes, CommandRecords
<1>f. Fresh \in 0 .. NTokens /\ Fresh # 0
  BY FreshIsFree
<1>1. cmd[m].at \in {"post", "repost"} /\ UNCHANGED <<trusted, config>>
  BY DEF Provision, Reprovision, Sends
<1>g. cmd[m].got = 0
  BY <1>1 DEF CommandInv, GotHeld
<1>2. PICK o \in Answers(m) :
        /\ Post(m, o)
        /\ \/ o = "ok" /\ record[cmd[m].id] = 0 /\ Provisioned(m)
           \/ o = "ok" /\ Conflict(m)
           \/ Goto(m, "rename") /\ UNCHANGED said
           \/ GivesUp(m)
  BY DEF Provision, Reprovision
<1>3. Records(m)
  BY <1>2, <1>t, <1>f DEF Post, Records
<1>4. CASE o = "ok" /\ record[cmd[m].id] = 0 /\ Provisioned(m)
  <2>1. Reached(m)
    BY <1>4 DEF Answers
  <2>2. record' = [record EXCEPT ![cmd[m].id] = Fresh]
    BY <1>2, <1>4 DEF Post, Done
  <2> DEFINE at == IF cmd[m].op = "setup" THEN "provisioned" ELSE "save"
             new == [cmd[m] EXCEPT !.got = Fresh, !.at = at]
  <2>3. cmd' = [cmd EXCEPT ![m] = new] /\ UNCHANGED said
    BY <1>4 DEF Provisioned
  <2>4. /\ new \in CommandRecords /\ new.at = at /\ new.got = Fresh /\ new.op = cmd[m].op
        /\ new.ssl = cmd[m].ssl /\ new.id = cmd[m].id
    BY <1>t, <1>f DEF CommandRecords, Steps
  <2> HIDE DEF new, at
  <2>5. cmd' \in [Machine -> CommandRecords] /\ OnlyOf(m) /\ cmd'[m] = new
    BY <1>t, <2>3, <2>4 DEF OnlyOf
  <2>6. record'[cmd[m].id] = Fresh
    BY <1>t, <2>2
  <2>7. Gets(m)
    BY <1>1, <1>f, <1>g, <2>1, <2>3, <2>4, <2>5, <2>6 DEF Gets, at
  <2> QED BY <1>1, <1>3, <2>7
<1>5. CASE (o = "ok" /\ Conflict(m)) \/ (Goto(m, "rename") /\ UNCHANGED said) \/ GivesUp(m)
  <2>1. {"conflict", "delete", "rename"} \subseteq Steps \ {"idle", "provisioned"}
    BY DEF Steps
  <2>2. Moves(m) \/ Quits(m)
    BY <1>1, <1>5, <1>g, <2>1, GotoMoves, EndsQuits, GivesUpDoes DEF Conflict
  <2> QED BY <1>1, <1>3, <2>2
<1> QED BY <1>2, <1>4, <1>5

\* A device is deleted, and whoever had its credentials, in hand or in a file, has lost them.
Deletes(m) ==
  \E hit \in 0 .. NTokens :
    /\ \/ record' = record /\ hit = 0
       \/ record' = [record EXCEPT ![cmd[m].id] = 0] /\ hit = record[cmd[m].id]
    /\ UNCHANGED <<trusted, config>>
    /\ cmd' \in [Machine -> CommandRecords]
    /\ said' \in [Machine -> {"failed", "ok", "taken"}]
    /\ \A n \in Machine \ {m} :
         /\ cmd'[n].at = cmd[n].at /\ cmd'[n].op = cmd[n].op /\ cmd'[n].id = cmd[n].id
         /\ cmd'[n].ssl = cmd[n].ssl /\ cmd'[n].got = cmd[n].got
         /\ cmd[n].taken \/ (hit # 0 /\ cmd[n].got = hit) => cmd'[n].taken
         /\ said'[n] = said[n] \/ (said[n] = "ok" /\ said'[n] = "taken")
         /\ hit # 0 /\ config[n] # NoConfig /\ config[n].token = hit => said'[n] # "ok"
    /\ \/ cmd'[m] = NoCommand /\ said'[m] = "failed"
       \/ /\ cmd'[m].at \in {"retry", "repost", "rename"} /\ cmd'[m].got = 0
          /\ cmd'[m].op = cmd[m].op /\ cmd'[m].ssl = cmd[m].ssl
          /\ said'[m] = said[m] /\ said[m] = "failed"

\* What the requests that delete do, answered or not (delete_device).
LEMMA DeleteDoes ==
  ASSUME MachineTypes, CommandInv, NEW m \in Machine, DeleteDevice(m)
  PROVE  Deletes(m)
<1> DEFINE t == record[cmd[m].id]
           setup == cmd[m].op = "setup"
<1>t. /\ cmd \in [Machine -> CommandRecords] /\ cmd[m] \in CommandRecords
      /\ cmd[m].id \in DeviceId /\ record \in [DeviceId -> 0 .. NTokens]
      /\ said \in [Machine -> {"failed", "ok", "taken"}]
      /\ t \in 0 .. NTokens /\ 0 \in 0 .. NTokens
  BY ProvisioningAssumption DEF MachineTypes, CommandRecords
<1>1. cmd[m].at = "delete" /\ UNCHANGED <<trusted, config>>
  BY DEF DeleteDevice, Sends
<1>g. cmd[m].got = 0 /\ said[m] = "failed"
  BY <1>1 DEF CommandInv, GotHeld, SaidFailed
<1>2. PICK o \in Answers(m) :
        LET hit == IF Done(o) THEN t ELSE 0 IN
        /\ record' = IF Done(o) THEN [record EXCEPT ![cmd[m].id] = 0] ELSE record
        /\ IF o \in {"lost", "unheard"} /\ ~setup
           THEN /\ cmd' = [n \in Machine |-> IF n = m THEN NoCommand ELSE Taken(n, hit)]
                /\ said' = [SaidAfter(m, hit) EXCEPT ![m] = "failed"]
           ELSE /\ Deleted(m, CASE o \in {"lost", "unheard"} -> "retry"
                                [] ~setup \/ (o = "ok" /\ t # 0) -> "repost"
                                [] OTHER -> "rename", hit)
                /\ said' = SaidAfter(m, hit)
  BY DEF DeleteDevice
<1> DEFINE hit == IF Done(o) THEN t ELSE 0
           step == CASE o \in {"lost", "unheard"} -> "retry"
                     [] ~setup \/ (o = "ok" /\ t # 0) -> "repost"
                     [] OTHER -> "rename"
<1>3. /\ hit \in 0 .. NTokens
      /\ \/ record' = record /\ hit = 0
         \/ record' = [record EXCEPT ![cmd[m].id] = 0] /\ hit = record[cmd[m].id]
  BY <1>2, <1>t
<1>4. step \in {"retry", "repost", "rename"}
  OBVIOUS
<1>5. \/ /\ cmd' = [n \in Machine |-> IF n = m THEN NoCommand ELSE Taken(n, hit)]
         /\ said' = [SaidAfter(m, hit) EXCEPT ![m] = "failed"]
      \/ /\ cmd' = [n \in Machine |-> IF n = m THEN [cmd[m] EXCEPT !.at = step]
                                      ELSE Taken(n, hit)]
         /\ said' = SaidAfter(m, hit)
  BY <1>2 DEF Deleted
<1> HIDE DEF hit, step, t, setup
\* the other machines
<1>6. ASSUME NEW n \in Machine
      PROVE  /\ Taken(n, hit) \in CommandRecords
             /\ Taken(n, hit).at = cmd[n].at /\ Taken(n, hit).op = cmd[n].op
             /\ Taken(n, hit).id = cmd[n].id /\ Taken(n, hit).ssl = cmd[n].ssl
             /\ Taken(n, hit).got = cmd[n].got
             /\ cmd[n].taken \/ (hit # 0 /\ cmd[n].got = hit) => Taken(n, hit).taken
  <2> DEFINE gone == hit # 0 /\ cmd[n].got = hit
             taken == cmd[n].taken \/ gone
  <2>1. cmd[n] \in CommandRecords /\ cmd[n].taken \in BOOLEAN
    BY <1>t DEF CommandRecords
  <2>2. taken \in BOOLEAN /\ (cmd[n].taken \/ gone => taken)
    BY <2>1
  <2>3. Taken(n, hit) = [cmd[n] EXCEPT !.taken = taken]
    BY DEF Taken
  <2> HIDE DEF taken
  <2> QED BY <2>1, <2>2, <2>3 DEF CommandRecords
<1>7. /\ SaidAfter(m, hit) \in [Machine -> {"failed", "ok", "taken"}]
      /\ SaidAfter(m, hit)[m] = said[m]
      /\ \A n \in Machine \ {m} :
           /\ SaidAfter(m, hit)[n] = said[n]
                \/ (said[n] = "ok" /\ SaidAfter(m, hit)[n] = "taken")
           /\ hit # 0 /\ config[n] # NoConfig /\ config[n].token = hit
                => SaidAfter(m, hit)[n] # "ok"
  BY <1>t DEF SaidAfter
<1>8. /\ said' \in [Machine -> {"failed", "ok", "taken"}] /\ said'[m] = "failed"
      /\ \A n \in Machine \ {m} : said'[n] = SaidAfter(m, hit)[n]
  BY <1>5, <1>7, <1>g
<1> DEFINE moved == [cmd[m] EXCEPT !.at = step]
<1>9. /\ moved \in CommandRecords /\ moved.at = step /\ moved.got = 0
      /\ moved.op = cmd[m].op /\ moved.ssl = cmd[m].ssl
  BY <1>t, <1>g, <1>4 DEF CommandRecords, Steps
<1>10. PICK mine \in {NoCommand, moved} :
         cmd' = [n \in Machine |-> IF n = m THEN mine ELSE Taken(n, hit)]
  BY <1>5
<1> HIDE DEF moved
<1>11. /\ cmd' \in [Machine -> CommandRecords] /\ cmd'[m] = mine
       /\ \A n \in Machine \ {m} : cmd'[n] = Taken(n, hit)
  BY <1>6, <1>9, <1>10, NoCommandIs
<1>12. \/ cmd'[m] = NoCommand /\ said'[m] = "failed"
       \/ /\ cmd'[m].at \in {"retry", "repost", "rename"} /\ cmd'[m].got = 0
          /\ cmd'[m].op = cmd[m].op /\ cmd'[m].ssl = cmd[m].ssl
          /\ said'[m] = said[m] /\ said[m] = "failed"
  BY <1>4, <1>8, <1>9, <1>11, <1>g
<1> QED BY <1>1, <1>3, <1>6, <1>7, <1>8, <1>11, <1>12 DEF Deletes

\* A command begins: the user has been told nothing good since.
Begins(m) ==
  /\ cmd' \in [Machine -> CommandRecords] /\ OnlyOf(m) /\ UNCHANGED <<trusted, record>>
  /\ cmd'[m].at \in {"auth", "post", "menu"} /\ cmd'[m].got = 0
  /\ cmd'[m].op = "setup" => config'[m] = NoConfig
  /\ cmd'[m].op # "setup" => cmd'[m].ssl = "none"
  /\ config' \in [Machine -> Configs] /\ said' \in [Machine -> {"failed", "ok", "taken"}]
  /\ said'[m] = "failed"
  /\ \A n \in Machine \ {m} : config'[n] = config[n] /\ said'[n] = said[n]

\* On the command line and in the setup (handle_install, the setup's run).
LEMMA BeginDoes ==
  ASSUME MachineTypes, NEW m \in Machine,
         \/ \E op \in {"token", "password"}, id \in DeviceId, force \in BOOLEAN :
              Install(m, op, id, force)
         \/ Setup(m)
  PROVE  Begins(m)
<1>t. /\ cmd \in [Machine -> CommandRecords] /\ config \in [Machine -> Configs]
      /\ said \in [Machine -> {"failed", "ok", "taken"}]
  BY DEF MachineTypes
<1>1. ASSUME NEW op \in {"token", "password"}, NEW id \in DeviceId, NEW force \in BOOLEAN,
             Install(m, op, id, force)
      PROVE  Begins(m)
  <2> DEFINE at == IF op = "token" THEN "post" ELSE "auth"
             new == [NoCommand EXCEPT !.at = at, !.op = op, !.id = id, !.force = force]
  <2>1. cmd' = [cmd EXCEPT ![m] = new] /\ UNCHANGED <<trusted, record, config>>
    BY <1>1 DEF Install
  <2>2. /\ new \in CommandRecords /\ new.at \in {"auth", "post"} /\ new.op = op
        /\ new.got = 0 /\ new.ssl = "none"
    BY NoCommandIs DEF CommandRecords, Steps
  <2> HIDE DEF new
  <2>3. cmd' \in [Machine -> CommandRecords] /\ OnlyOf(m) /\ cmd'[m] = new
    BY <1>t, <2>1, <2>2 DEF OnlyOf
  <2>4. said' = [said EXCEPT ![m] = "failed"]
    BY <1>1 DEF Install
  <2> QED BY <1>t, <2>1, <2>2, <2>3, <2>4 DEF Begins
<1>2. CASE Setup(m)
  <2> DEFINE new == [NoCommand EXCEPT !.at = "menu", !.op = "setup", !.ssl = "unasked"]
  <2>1. /\ cmd' = [cmd EXCEPT ![m] = new] /\ UNCHANGED <<trusted, record>>
        /\ config' = [config EXCEPT ![m] = NoConfig]
        /\ said' = [said EXCEPT ![m] = "failed"]
    BY <1>2 DEF Setup
  <2>2. /\ new \in CommandRecords /\ new.at = "menu" /\ new.op = "setup" /\ new.got = 0
    BY NoCommandIs DEF CommandRecords, Steps
  <2> HIDE DEF new
  <2>3. cmd' \in [Machine -> CommandRecords] /\ OnlyOf(m) /\ cmd'[m] = new
    BY <1>t, <2>1, <2>2 DEF OnlyOf
  <2>4. NoConfig \in Configs
    BY DEF Configs
  <2> QED BY <1>t, <2>1, <2>2, <2>3, <2>4 DEF Begins
<1> QED BY <1>1, <1>2

\* A machine that has what it takes to connect, or no credentials of the server.
Connects(m) ==
  config[m] # NoConfig /\ config[m].token # 0 =>
    /\ record[config[m].id] = config[m].token
    /\ config[m].verify => trusted

\* A command that is over: its user is told of a success only if the machine can connect.
Finishes(m) ==
  /\ cmd' \in [Machine -> CommandRecords] /\ OnlyOf(m) /\ cmd'[m] = NoCommand
  /\ UNCHANGED <<trusted, record>>
  /\ config' \in [Machine -> Configs] /\ said' \in [Machine -> {"failed", "ok", "taken"}]
  /\ \A n \in Machine \ {m} : config'[n] = config[n] /\ said'[n] = said[n]
  /\ said'[m] = "ok" => Connects(m)'

\* A saved file holds credentials the server accepts, and does without verification only
\* where it cannot verify (save_and_install_service, install_as_service).
LEMMA SaveDoes ==
  ASSUME MachineTypes, CommandInv, NEW m \in Machine, Save(m)
  PROVE  Finishes(m)
<1>t. /\ cmd \in [Machine -> CommandRecords] /\ cmd[m] \in CommandRecords
      /\ cmd[m].id \in DeviceId /\ cmd[m].got \in 0 .. NTokens
      /\ config \in [Machine -> Configs] /\ said \in [Machine -> {"failed", "ok", "taken"}]
  BY DEF MachineTypes, CommandRecords
<1>1. cmd' = [cmd EXCEPT ![m] = NoCommand] /\ UNCHANGED <<trusted, record>>
  BY DEF Save, Ends
<1>2. PICK verify \in VerifyChoices(m) :
        config' = [config EXCEPT ![m] = [id |-> cmd[m].id, token |-> cmd[m].got,
                                         verify |-> verify]]
  BY DEF Save
<1>3. PICK result \in {"ok", "failed"} :
        said' = [said EXCEPT ![m] = IF result = "ok" /\ cmd[m].taken THEN "taken" ELSE result]
  BY DEF Save, Ends
<1> DEFINE file == [id |-> cmd[m].id, token |-> cmd[m].got, verify |-> verify]
<1>4. verify \in BOOLEAN
  BY DEF VerifyChoices
<1>5. file \in Configs /\ file.id = cmd[m].id /\ file.token = cmd[m].got /\ file.verify = verify
  BY <1>t, <1>4 DEF Configs
<1> HIDE DEF file
<1>6. /\ config' \in [Machine -> Configs] /\ config'[m] = file
      /\ \A n \in Machine \ {m} : config'[n] = config[n]
  BY <1>t, <1>2, <1>5 DEF file
<1>7. /\ said' \in [Machine -> {"failed", "ok", "taken"}]
      /\ \A n \in Machine \ {m} : said'[n] = said[n]
      /\ said'[m] = "ok" => ~cmd[m].taken
  BY <1>t, <1>3
<1>8. cmd[m].got # 0 /\ verify => trusted
  <2>1. cmd[m].got # 0 => trusted \/ cmd[m].ssl = "accepted"
    BY DEF CommandInv, GotReached
  <2>2. cmd[m].op # "setup" => cmd[m].ssl # "accepted"
    BY DEF CommandInv, OnlySetupAsks
  <2>3. cmd[m].op = "setup" /\ verify => cmd[m].ssl # "accepted"
    BY DEF VerifyChoices
  <2> QED BY <2>1, <2>2, <2>3
<1>9. said'[m] = "ok" => Connects(m)'
  BY <1>1, <1>5, <1>6, <1>7, <1>8 DEF CommandInv, GotOnRecord, Connects
<1> QED BY <1>t, <1>1, <1>6, <1>7, <1>9, NoCommandIs DEF Finishes, OnlyOf

\* The setup's test saves nothing (test_connection).
LEMMA TestDoes ==
  ASSUME MachineTypes, CommandInv, NEW m \in Machine, Test(m)
  PROVE  (Moves(m) /\ UNCHANGED <<trusted, record>>) \/ Finishes(m)
<1>t. /\ cmd \in [Machine -> CommandRecords] /\ config \in [Machine -> Configs]
      /\ said \in [Machine -> {"failed", "ok", "taken"}]
  BY DEF MachineTypes
<1>1. cmd[m].at = "provisioned" /\ UNCHANGED <<trusted, record, config>>
  BY DEF Test
<1>2. CASE Goto(m, "save") /\ UNCHANGED said
  BY <1>1, <1>2, GotoMoves DEF Steps
<1>3. CASE Ends(m, "ok") \/ Ends(m, "failed")
  <2>1. config[m] = NoConfig
    BY <1>1 DEF CommandInv, OnlySetupAsks, SetupHasNoFile
  <2>2. PICK word \in {"failed", "ok", "taken"} : said' = [said EXCEPT ![m] = word]
    BY <1>3 DEF Ends
  <2>3. cmd' = [cmd EXCEPT ![m] = NoCommand]
    BY <1>3 DEF Ends
  <2> QED BY <1>t, <1>1, <2>1, <2>2, <2>3, NoCommandIs DEF Finishes, OnlyOf, Connects
<1> QED BY <1>2, <1>3 DEF Test

-----------------------------------------------------------------------------
(* The invariant, kind of step by kind of step.                             *)

MachinesInv == MachineTypes /\ CommandInv /\ \A m \in Machine : said[m] = "ok" => Connects(m)

Still == UNCHANGED <<trusted, record, cmd, config, said>>

\* What any step leaves of the machines.
LEMMA NextDoes ==
  ASSUME MachineTypes, CommandInv, [Next]_vars
  PROVE  \/ \E m \in Machine : (Moves(m) \/ Quits(m)) /\ Records(m) /\ UNCHANGED trusted
         \/ \E m \in Machine : Gets(m) /\ Records(m) /\ UNCHANGED trusted
         \/ \E m \in Machine : Deletes(m) \/ Begins(m) \/ Finishes(m)
         \/ Still
<1>1. CASE UNCHANGED vars
  BY <1>1 DEF vars, Still
<1>2. ASSUME NEW m \in Machine, Runs(m)
      PROVE  \/ (Moves(m) \/ Quits(m)) /\ Records(m) /\ UNCHANGED trusted
             \/ Gets(m) /\ Records(m) /\ UNCHANGED trusted
             \/ Deletes(m) \/ Begins(m) \/ Finishes(m)
             \/ Still
  <2>1. UNCHANGED record => Records(m)
    BY DEF Records, MachineTypes
  <2>2. CASE Walks(m)
    BY <2>1, <2>2, WalkDoes DEF Still
  <2>3. CASE Provision(m) \/ Reprovision(m)
    BY <2>3, PostDoes
  <2>4. CASE \/ \E op \in {"token", "password"}, id \in DeviceId, force \in BOOLEAN :
                  Install(m, op, id, force)
             \/ Setup(m)
    BY <2>4, BeginDoes
  <2>5. CASE DeleteDevice(m)
    BY <2>5, DeleteDoes
  <2>6. CASE Save(m) \/ Test(m)
    BY <2>1, <2>6, SaveDoes, TestDoes
  <2> QED BY <1>2, <2>2, <2>3, <2>4, <2>5, <2>6 DEF Runs, Walks
<1> QED BY <1>1, <1>2 DEF Next

\* A machine that can connect can do so as long as its file and the server's record stay.
LEMMA StillConnects ==
  ASSUME MachineTypes, NEW n \in Machine, Connects(n), config'[n] = config[n], UNCHANGED trusted,
         \A d \in DeviceId : record[d] # 0 => record'[d] = record[d]
  PROVE  Connects(n)'
<1>1. config[n] # NoConfig => config[n].id \in DeviceId
  BY DEF MachineTypes, Configs
<1> QED BY <1>1 DEF Connects

\* Going on or giving up: nothing was got, or what was got stays.
LEMMA WalkKeeps ==
  ASSUME MachinesInv, NEW m \in Machine, Moves(m) \/ Quits(m), Records(m), UNCHANGED trusted
  PROVE  MachinesInv'
<1>1. MachineTypes'
  BY DEF MachinesInv, MachineTypes, Moves, Quits, Records
<1>2. /\ \A n \in Machine \ {m} : cmd'[n] = cmd[n] /\ said'[n] = said[n]
      /\ UNCHANGED config
      /\ \A d \in DeviceId : record[d] # 0 => record'[d] = record[d]
      /\ \A n \in Machine : cmd[n].id \in DeviceId
  BY DEF Moves, Quits, OnlyOf, Records, MachinesInv, MachineTypes, CommandRecords
<1>3. \/ Moves(m)
      \/ cmd'[m] = NoCommand /\ said'[m] = "failed"
  BY DEF Quits
<1>4. GotHeld'
  BY <1>2, <1>3, NoCommandIs DEF MachinesInv, CommandInv, GotHeld, Moves
<1>5. GotReached'
  BY <1>2, <1>3, NoCommandIs DEF MachinesInv, CommandInv, GotReached, Moves
<1>6. GotOnRecord'
  BY <1>2, <1>3, NoCommandIs DEF MachinesInv, CommandInv, GotOnRecord, Moves
<1>7. SaidFailed'
  BY <1>2, <1>3, NoCommandIs DEF MachinesInv, CommandInv, SaidFailed, Moves
<1>8. OnlySetupAsks'
  BY <1>2, <1>3, NoCommandIs DEF MachinesInv, CommandInv, OnlySetupAsks, Moves
<1>9. SetupHasNoFile'
  BY <1>2, <1>3, NoCommandIs DEF MachinesInv, CommandInv, SetupHasNoFile, Moves
<1>10. ASSUME NEW n \in Machine, said'[n] = "ok" PROVE Connects(n)'
  <2>1. said[n] = "ok"
    BY <1>2, <1>3, <1>10 DEF Moves
  <2> QED BY <2>1, <1>2, StillConnects DEF MachinesInv
<1> QED BY <1>1, <1>4, <1>5, <1>6, <1>7, <1>8, <1>9, <1>10 DEF MachinesInv, CommandInv

\* Credentials just made are on record, and the connection that brought them was trusted.
LEMMA GetKeeps ==
  ASSUME MachinesInv, NEW m \in Machine, Gets(m), Records(m), UNCHANGED trusted
  PROVE  MachinesInv'
<1>1. MachineTypes'
  BY DEF MachinesInv, MachineTypes, Gets, Records
<1>2. /\ \A n \in Machine \ {m} : cmd'[n] = cmd[n]
      /\ UNCHANGED <<config, said>>
      /\ \A d \in DeviceId : record[d] # 0 => record'[d] = record[d]
      /\ \A n \in Machine : cmd[n].id \in DeviceId
  BY DEF Gets, OnlyOf, Records, MachinesInv, MachineTypes, CommandRecords
<1>3. GotHeld'
  BY <1>2 DEF MachinesInv, CommandInv, GotHeld, Gets
<1>4. GotReached'
  BY <1>2 DEF MachinesInv, CommandInv, GotReached, Gets, Reached
<1>5. GotOnRecord'
  BY <1>2 DEF MachinesInv, CommandInv, GotOnRecord, Gets
<1>6. SaidFailed'
  BY <1>2 DEF MachinesInv, CommandInv, SaidFailed, Gets
<1>7. OnlySetupAsks'
  BY <1>2 DEF MachinesInv, CommandInv, OnlySetupAsks, Gets
<1>8. SetupHasNoFile'
  BY <1>2 DEF MachinesInv, CommandInv, SetupHasNoFile, Gets
<1>9. ASSUME NEW n \in Machine, said'[n] = "ok" PROVE Connects(n)'
  BY <1>2, <1>9, StillConnects DEF MachinesInv
<1> QED BY <1>1, <1>3, <1>4, <1>5, <1>6, <1>7, <1>8, <1>9 DEF MachinesInv, CommandInv

\* A device that is deleted was nobody's, or whose it was has lost it.
LEMMA DeleteKeeps ==
  ASSUME MachinesInv, NEW m \in Machine, Deletes(m)
  PROVE  MachinesInv'
<1>t. /\ record \in [DeviceId -> 0 .. NTokens] /\ 0 \in 0 .. NTokens
      /\ \A n \in Machine : cmd[n].id \in DeviceId
      /\ \A n \in Machine : config[n] # NoConfig => config[n].id \in DeviceId
  BY ProvisioningAssumption DEF MachinesInv, MachineTypes, CommandRecords, Configs
<1>p. PICK hit \in 0 .. NTokens :
        /\ \/ record' = record /\ hit = 0
           \/ record' = [record EXCEPT ![cmd[m].id] = 0] /\ hit = record[cmd[m].id]
        /\ UNCHANGED <<trusted, config>>
        /\ cmd' \in [Machine -> CommandRecords]
        /\ said' \in [Machine -> {"failed", "ok", "taken"}]
        /\ \A n \in Machine \ {m} :
             /\ cmd'[n].at = cmd[n].at /\ cmd'[n].op = cmd[n].op /\ cmd'[n].id = cmd[n].id
             /\ cmd'[n].ssl = cmd[n].ssl /\ cmd'[n].got = cmd[n].got
             /\ cmd[n].taken \/ (hit # 0 /\ cmd[n].got = hit) => cmd'[n].taken
             /\ said'[n] = said[n] \/ (said[n] = "ok" /\ said'[n] = "taken")
             /\ hit # 0 /\ config[n] # NoConfig /\ config[n].token = hit => said'[n] # "ok"
        /\ \/ cmd'[m] = NoCommand /\ said'[m] = "failed"
           \/ /\ cmd'[m].at \in {"retry", "repost", "rename"} /\ cmd'[m].got = 0
              /\ cmd'[m].op = cmd[m].op /\ cmd'[m].ssl = cmd[m].ssl
              /\ said'[m] = said[m] /\ said[m] = "failed"
  BY DEF Deletes
\* a record that is not 0 stays, unless it is the one that is deleted
<1>r. ASSUME NEW d \in DeviceId, record[d] # 0, record'[d] # record[d]
      PROVE  hit # 0 /\ record[d] = hit
  BY <1>p, <1>r, <1>t
<1>1. MachineTypes'
  BY <1>p, <1>t DEF MachinesInv, MachineTypes
<1>2. GotHeld'
  BY <1>p, NoCommandIs DEF MachinesInv, CommandInv, GotHeld
<1>3. GotReached'
  BY <1>p, NoCommandIs DEF MachinesInv, CommandInv, GotReached
<1>4. GotOnRecord'
  <2>1. cmd'[m].got = 0
    BY <1>p, NoCommandIs
  <2>2. ASSUME NEW n \in Machine \ {m}, cmd'[n].got # 0, ~cmd'[n].taken
        PROVE  record'[cmd'[n].id] = cmd'[n].got
    <3>1. record[cmd[n].id] = cmd[n].got /\ cmd[n].got # 0 /\ ~(hit # 0 /\ cmd[n].got = hit)
      BY <1>p, <2>2 DEF MachinesInv, CommandInv, GotOnRecord
    <3>2. record'[cmd[n].id] = record[cmd[n].id]
      BY <1>r, <1>t, <3>1
    <3> QED BY <1>p, <3>1, <3>2
  <2> QED BY <2>1, <2>2 DEF GotOnRecord
<1>5. SaidFailed'
  BY <1>p, NoCommandIs DEF MachinesInv, CommandInv, SaidFailed
<1>6. OnlySetupAsks'
  BY <1>p, NoCommandIs DEF MachinesInv, CommandInv, OnlySetupAsks
<1>7. SetupHasNoFile'
  BY <1>p, NoCommandIs DEF MachinesInv, CommandInv, SetupHasNoFile
<1>8. ASSUME NEW n \in Machine, said'[n] = "ok" PROVE Connects(n)'
  <2>1. n # m /\ said[n] = "ok"
    BY <1>p, <1>8
  <2>2. Connects(n)
    BY <2>1 DEF MachinesInv
  <2>3. ASSUME config[n] # NoConfig, config[n].token # 0
        PROVE  record'[config[n].id] = config[n].token /\ (config[n].verify => trusted)
    <3>1. record[config[n].id] = config[n].token /\ (config[n].verify => trusted)
      BY <2>2, <2>3 DEF Connects
    <3>2. ~(hit # 0 /\ config[n].token = hit)
      BY <1>p, <1>8, <2>1, <2>3
    <3> QED BY <1>r, <1>t, <2>3, <3>1, <3>2
  <2> QED BY <1>p, <2>3 DEF Connects
<1> QED BY <1>1, <1>2, <1>3, <1>4, <1>5, <1>6, <1>7, <1>8 DEF MachinesInv, CommandInv

\* A command that begins or is over leaves the other machines and the server alone.
LEMMA BeginKeeps ==
  ASSUME MachinesInv, NEW m \in Machine, Begins(m) \/ Finishes(m)
  PROVE  MachinesInv'
<1>1. MachineTypes'
  BY DEF MachinesInv, MachineTypes, Begins, Finishes
<1>2. /\ \A n \in Machine \ {m} : /\ cmd'[n] = cmd[n] /\ config'[n] = config[n]
                                  /\ said'[n] = said[n]
      /\ UNCHANGED <<trusted, record>>
  BY DEF Begins, Finishes, OnlyOf
<1>3. /\ cmd'[m].got = 0 /\ cmd'[m].at # "provisioned"
      /\ cmd'[m].op # "setup" => cmd'[m].ssl = "none"
      /\ cmd'[m].op = "setup" => config'[m] = NoConfig
      /\ cmd'[m].at # "idle" => said'[m] = "failed"
      /\ said'[m] = "ok" => Connects(m)'
  BY NoCommandIs DEF Begins, Finishes
<1>4. GotHeld' /\ GotReached' /\ GotOnRecord'
  BY <1>2, <1>3 DEF MachinesInv, CommandInv, GotHeld, GotReached, GotOnRecord
<1>5. SaidFailed' /\ OnlySetupAsks' /\ SetupHasNoFile'
  BY <1>2, <1>3 DEF MachinesInv, CommandInv, SaidFailed, OnlySetupAsks, SetupHasNoFile
<1>6. ASSUME NEW n \in Machine, said'[n] = "ok" PROVE Connects(n)'
  <2>1. CASE n = m
    BY <1>3, <1>6, <2>1
  <2>2. CASE n # m
    BY <1>2, <1>6, <2>2 DEF MachinesInv, Connects
  <2> QED BY <2>1, <2>2
<1> QED BY <1>1, <1>4, <1>5, <1>6 DEF MachinesInv, CommandInv

\* Every step of every machine keeps the invariant.
LEMMA MachinesInvStep ==
  ASSUME MachinesInv, [Next]_vars
  PROVE  MachinesInv'
<1>1. CASE Still
  BY <1>1 DEF Still, MachinesInv, MachineTypes, CommandInv, GotHeld, GotReached, GotOnRecord,
     SaidFailed, OnlySetupAsks, SetupHasNoFile, Connects
<1>2. MachineTypes /\ CommandInv
  BY DEF MachinesInv
<1> QED BY <1>1, <1>2, NextDoes, WalkKeeps, GetKeeps, DeleteKeeps, BeginKeeps

\* No machine has anything initially.
LEMMA MachinesInvStart ==
  ASSUME Init
  PROVE  MachinesInv
<1>1. 0 \in 0 .. NTokens
  BY ProvisioningAssumption
<1>2. MachineTypes
  BY <1>1, NoCommandIs DEF Init, MachineTypes, Configs
<1>3. CommandInv
  BY NoCommandIs DEF Init, CommandInv, GotHeld, GotReached, GotOnRecord, SaidFailed,
     OnlySetupAsks, SetupHasNoFile
<1> QED BY <1>2, <1>3 DEF Init, MachinesInv

-----------------------------------------------------------------------------
\* Every variable keeps its type; above all, credentials nobody holds are there to be made
\* whenever a device is provisioned, and the browser flow keeps within its horizon.
THEOREM ProvisioningTypeCorrect == Spec => []TypeOK
<1>1. Init => FlowLimited /\ MachinesInv
  BY FlowStarts, FlowLimitsStart, MachinesInvStart DEF Init, FlowLimited
<1>2. FlowLimited /\ MachinesInv /\ [Next]_vars => FlowLimited' /\ MachinesInv'
  BY FlowLimitedStep, MachinesInvStep
<1>3. FlowLimited /\ MachinesInv => TypeOK
  BY FlowTypes DEF FlowLimited, MachinesInv, MachineTypes, TypeOK
<1> QED BY <1>1, <1>2, <1>3, PTL DEF Spec

\* A machine whose user was told that it is set up can connect, for any machines, devices
\* and faults: the server accepts the credentials in its file, and it can verify the server or
\* was told not to, short of another machine that deleted its device since.
THEOREM SavedMachinesAreAccepted == Spec => []AcceptedOnceSaved
<1>1. Init => MachinesInv
  BY MachinesInvStart
<1>2. MachinesInv /\ [Next]_vars => MachinesInv'
  BY MachinesInvStep
<1>3. MachinesInv => AcceptedOnceSaved
  BY DEF MachinesInv, Connects, AcceptedOnceSaved
<1> QED BY <1>1, <1>2, <1>3, PTL DEF Spec
=============================================================================
