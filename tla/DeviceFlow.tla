----------------------------- MODULE DeviceFlow -----------------------------
(***************************************************************************)
(* The browser authentication of the interactive setup: the agent asks the *)
(* server for a code (start_device_flow), the user approves it in a        *)
(* browser, and the agent polls for the token (poll_device_token).         *)
(*                                                                         *)
(* Time is counted in seconds from the moment the server issued the code.  *)
(* A request takes up to Latency seconds, and the server looks at a poll   *)
(* when the request ends; the agent sleeps exactly as long as it asked to. *)
(* The server is external: it may ask for a slower pace, and an Enforcing  *)
(* one keeps asking until polls are as far apart as RFC 8628 wants.        *)
(***************************************************************************)
EXTENDS Integers

CONSTANTS
  Expires,   \* expires_in of the authorization, as the server and the agent use it
  Interval,  \* its interval between two polls
  Penalty,   \* the wait after a slow_down, and what a slow_down adds to the interval
  Latency,   \* bound on the seconds a request takes
  MaxSlow,   \* bound on the slow_down answers to an agent that kept its interval
  Enforcing  \* the server raises the interval with each slow_down

ASSUME TimesAssumption ==
  /\ Expires \in Nat /\ Interval \in Nat \ {0} /\ Penalty \in Nat \ {0}
  /\ Latency \in Nat /\ MaxSlow \in Nat /\ Enforcing \in BOOLEAN

VARIABLE flow

-----------------------------------------------------------------------------
Results == {"none", "granted", "denied", "timeout", "expired", "failed"}

Longer(a, b) == IF a > b THEN a ELSE b

\* The longest the agent takes from one look of the server at a poll to the next.
Gap == Longer(Interval, Penalty) + Latency

\* No flow is under way later than this.
Horizon == Expires + Latency + Gap

\* at    "starting" and "polling" while a request is on its way, "waiting" in a sleep
\* due   when the sleep ends, and when the request ends at the latest
\* began start_time of poll_device_token
\* grant what the user decided, and when
\* last, need  the server's: the poll before, and the distance it asks for
\* slowed      slow_down answers that the agent had not deserved
Idle == [at |-> "idle", clock |-> 0, due |-> 0, began |-> 0, result |-> "none",
         grant |-> "pending", when |-> 0, last |-> -Interval, need |-> Interval, slowed |-> 0]

\* The device flow keeps its types.
FlowTypeOK ==
  /\ flow.at \in {"idle", "starting", "waiting", "polling", "done"}
  /\ flow.clock \in 0 .. Horizon /\ flow.due \in 0 .. Horizon + Gap
  /\ flow.began \in 0 .. Latency
  /\ flow.result \in Results
  /\ flow.grant \in {"pending", "approved", "denied"} /\ flow.when \in 0 .. Horizon
  /\ flow.last \in -Interval .. Horizon /\ flow.need \in Nat /\ flow.slowed \in 0 .. MaxSlow

FlowEnds(result) == flow' = [flow EXCEPT !.at = "done", !.result = result]

Sleep(seconds) == [flow EXCEPT !.at = "waiting", !.due = flow.clock + seconds,
                               !.last = flow.clock]

-----------------------------------------------------------------------------
(* start_device_flow.                                                       *)

StartFlow ==
  /\ flow.at = "idle"
  /\ flow' = [Idle EXCEPT !.at = "starting", !.due = Latency]

\* The code arrives, and poll_device_token begins with a poll; or there is no code.
Started ==
  /\ flow.at = "starting"
  /\ \/ flow' = [flow EXCEPT !.at = "waiting", !.due = flow.clock, !.began = flow.clock]
     \/ FlowEnds("failed")

-----------------------------------------------------------------------------
(* poll_device_token.                                                       *)

\* mutant: the agent gives up one interval early
TimedOut_early == flow.clock - flow.began + Longer(Interval, Penalty) > Expires

TimedOut == flow.clock - flow.began > Expires

\* The head of the loop.
Poll ==
  /\ flow.at = "waiting" /\ flow.clock = flow.due
  /\ IF TimedOut THEN FlowEnds("timeout")
     ELSE flow' = [flow EXCEPT !.at = "polling", !.due = flow.clock + Latency]

\* mutant: the wait after a slow_down is added to the interval that follows it
SlowDown_twice == Sleep(2 * Penalty + Interval)

\* The wait of Penalty seconds takes the place of the interval, once: the next
\* answer is followed by the old interval again.
SlowDown == Sleep(Penalty)

\* What the server thinks of the pace: an enforcing one keeps count, and any may ask
\* for a slower pace a few times though the agent kept its interval.
TooFast == Enforcing /\ flow.clock - flow.last < flow.need
MayComplain == TooFast \/ flow.slowed < MaxSlow

\* The answer to a poll, as the server finds things.  An exception ends the flow.
Answer ==
  /\ flow.at = "polling"
  /\ \/ FlowEnds("failed")
     \/ flow.clock > Expires /\ FlowEnds("expired")
     \/ /\ flow.clock <= Expires
        /\ \/ /\ MayComplain
              /\ flow' = [SlowDown EXCEPT !.slowed = @ + (IF TooFast THEN 0 ELSE 1),
                                          !.need = @ + (IF Enforcing THEN Penalty ELSE 0)]
           \/ /\ ~TooFast
              /\ CASE flow.grant = "pending"  -> flow' = Sleep(Interval)
                   [] flow.grant = "approved" -> FlowEnds("granted")
                   [] flow.grant = "denied"   -> FlowEnds("denied")

-----------------------------------------------------------------------------
(* The user, and time.                                                      *)

\* Once the address and the code are shown.
Decide(grant) ==
  /\ flow.at \in {"waiting", "polling"}
  /\ flow.grant = "pending" /\ flow.clock <= Expires
  /\ flow' = [flow EXCEPT !.grant = grant, !.when = flow.clock]

Tick ==
  /\ flow.at \in {"starting", "waiting", "polling"}
  /\ flow.clock < flow.due
  /\ flow' = [flow EXCEPT !.clock = @ + 1]

FlowStep ==
  \/ Started \/ Poll \/ Answer
  \/ \E grant \in {"approved", "denied"} : Decide(grant)
  \/ Tick

FlowInit == flow = Idle
FlowSpec == FlowInit /\ [][StartFlow \/ FlowStep]_flow

-----------------------------------------------------------------------------
(* Properties.                                                              *)

\* A user who approved in time is let in: the flow ends without a token only if
\* the approval came so late that no poll could still see it, every undeserved
\* slow_down costing one more round (auth_manager.cpp:1141, 1176).
ApprovedInTimeServed ==
  flow.result \in {"timeout", "expired"} /\ flow.grant = "approved"
    => flow.when + (flow.slowed + 1) * Gap > Expires

\* The setup does not hang in the flow: it is over one round after the code
\* expired, however the answers and the user fall.
FlowBounded ==
  flow.at # "idle" => flow.clock <= Expires + flow.began + Gap
=============================================================================
