--------------------------- MODULE Rollout_proofs ---------------------------
(***************************************************************************)
(* Proofs about Rollout, for any fleet, versions, hash fractions, soak and *)
(* ramp times and clocks that are behind: the types, and what the exposure *)
(* of a release may do from one moment to the next.                        *)
(***************************************************************************)
EXTENDS Rollout, TLAPS

\* What a panic is about to write leaves no device out, and no clock is behind the
\* epoch.
PanicInv ==
  /\ now >= Behind
  /\ \A r \in Runner : job[r].kind = "panic" =>
       /\ job[r].manifest.staging = "ok" /\ job[r].manifest.published = 0
       /\ job[r].manifest.soak = 0 /\ job[r].manifest.ramp = 0

-----------------------------------------------------------------------------
(* Types.                                                                   *)

\* A manifest that a publication or a panic stages is a manifest (gen-manifest.sh).
LEMMA StagedType ==
  ASSUME NEW v \in Version, NEW sums \in SUBSET Device, NEW published \in 0 .. Horizon,
         NEW soak \in Soaks \cup {0}, NEW ramp \in Ramps \cup {0}
  PROVE  Staged(v, sums, published, soak, ramp) \in Manifests
BY RolloutAssumption DEF Staged, Manifests

\* At first the types hold.
LEMMA InitType == Init => TypeOK
<1> SUFFICES ASSUME Init PROVE TypeOK
  OBVIOUS
<1>1. now \in 0 .. Horizon
  BY RolloutAssumption DEF Init
<1>2. Staged(Genesis, Device, 0, 0, 0) \in Manifests
  BY StagedType, RolloutAssumption
<1>3. latest \in Manifests
  BY <1>2 DEF Init, Manifests
<1>4. blobs \in [Device -> Version] /\ archived \in [Version -> SUBSET Device]
  BY RolloutAssumption DEF Init
<1>5. job \in [Runner -> Jobs] /\ jobs \in 0 .. MaxJobs
  BY RolloutAssumption DEF Init, Jobs
<1>6. /\ fraction \in [Device -> [Version -> 0 .. Parts - 1]] /\ skew \in [Device -> 0 .. Behind]
  BY RolloutAssumption DEF Init
<1>7. running \in [Device -> Version] /\ fetched \in [Device -> Manifests \cup {None}]
  BY RolloutAssumption DEF Init
<1> QED BY <1>1, <1>3, <1>4, <1>5, <1>6, <1>7 DEF TypeOK

\* A release job keeps the types (gen-manifest.sh, panic.sh, freeze.sh).
LEMMA ReleaseType ==
  ASSUME TypeOK, NEW r \in Runner, ReleaseStep(r)
  PROVE  TypeOK'
<1>k. ASSUME UNCHANGED <<now, fraction, skew, devices>>, latest' \in Manifests,
             blobs' \in [Device -> Version], archived' \in [Version -> SUBSET Device],
             job' \in [Runner -> Jobs], jobs' \in 0 .. MaxJobs
      PROVE  TypeOK'
  BY <1>k DEF TypeOK, devices
<1>s. ASSUME NEW kind \in {"publish", "panic", "freeze"}, NEW step \in {"binaries", "manifest"},
             NEW m \in Manifests, Starts(r, kind, step, m)
      PROVE  job' \in [Runner -> Jobs] /\ jobs' \in 0 .. MaxJobs
  <2>1. [kind |-> kind, at |-> step, manifest |-> m] \in Jobs
    BY DEF Jobs
  <2>2. job' = [job EXCEPT ![r] = [kind |-> kind, at |-> step, manifest |-> m]]
    BY <1>s DEF Starts
  <2>3. job' \in [Runner -> Jobs]
    BY <2>1, <2>2 DEF TypeOK
  <2> QED BY <1>s, <2>3, RolloutAssumption DEF Starts, TypeOK
<1>1. ASSUME NEW v \in Version, NEW built \in Builds, NEW soak \in Soaks, NEW ramp \in Ramps,
             Publish(r, v, built, soak, ramp)
      PROVE  TypeOK'
  <2>0. built \in SUBSET Device
    BY RolloutAssumption
  <2>1. Staged(v, built, now, soak, ramp) \in Manifests
    BY <2>0, StagedType DEF TypeOK
  <2>2. Starts(r, "publish", "binaries", Staged(v, built, now, soak, ramp))
    BY <1>1 DEF Publish
  <2>3. job' \in [Runner -> Jobs] /\ jobs' \in 0 .. MaxJobs
    BY <1>s, <2>1, <2>2
  <2>4. archived' \in [Version -> SUBSET Device]
    BY <1>1, <2>0 DEF Publish, TypeOK
  <2> QED BY <1>1, <1>k, <2>3, <2>4 DEF Publish, TypeOK
<1>2. ASSUME NEW v \in Version, Panic(r, v) PROVE TypeOK'
  <2>0. latest.sums \in SUBSET Device
    BY DEF TypeOK, Manifests
  <2>1. PanicManifest(v) \in Manifests
    BY <2>0, StagedType, RolloutAssumption DEF PanicManifest
  <2> QED BY <1>2, <1>k, <1>s, <2>1 DEF Panic, TypeOK
<1>3. ASSUME NEW on \in BOOLEAN, Freeze(r, on) PROVE TypeOK'
  <2> DEFINE m == [latest EXCEPT !.frozen = IF on THEN now ELSE -1]
  <2>1. (IF on THEN now ELSE -1) \in -1 .. Horizon
    BY RolloutAssumption DEF TypeOK
  <2>4. m \in Manifests
    BY <2>1 DEF TypeOK, Manifests
  <2>2. Starts(r, "freeze", "manifest", m)
    BY <1>3 DEF Freeze
  <2> HIDE DEF m
  <2>3. job' \in [Runner -> Jobs] /\ jobs' \in 0 .. MaxJobs
    BY <1>s, <2>2, <2>4
  <2> QED BY <1>3, <1>k, <2>3 DEF Freeze, TypeOK
<1>j. job[r] \in Jobs /\ (job[r] # NoJob => job[r].manifest \in Manifests)
  BY DEF TypeOK, Jobs
<1>4. ASSUME WriteBinaries(r) PROVE TypeOK'
  <2>1. job[r].manifest.version \in Version
    BY <1>4, <1>j DEF WriteBinaries, Manifests
  <2>2. [job[r] EXCEPT !.at = "manifest"] \in Jobs
    BY <1>4, <1>j DEF WriteBinaries, Jobs
  <2>3. job' = [job EXCEPT ![r] = [job[r] EXCEPT !.at = "manifest"]]
    BY <1>4 DEF WriteBinaries, TypeOK
  <2>4. job' \in [Runner -> Jobs]
    BY <2>2, <2>3 DEF TypeOK
  <2>5. blobs' \in [Device -> Version]
    BY <1>4, <2>1 DEF WriteBinaries, TypeOK
  <2> QED BY <1>4, <1>k, <2>4, <2>5 DEF WriteBinaries, TypeOK
<1>n. NoJob \in Jobs
  BY DEF Jobs
<1>5. ASSUME WriteManifest(r) PROVE TypeOK'
  <2>1. job[r].manifest \in Manifests
    BY <1>5, <1>j DEF WriteManifest
  <2>2. [job[r].manifest EXCEPT !.published = now] \in Manifests
    BY <2>1 DEF TypeOK, Manifests
  <2>3. job' \in [Runner -> Jobs]
    BY <1>5, <1>n DEF WriteManifest, TypeOK
  <2> QED BY <1>5, <1>k, <2>1, <2>2, <2>3 DEF WriteManifest, TypeOK
<1>6. ASSUME JobFails(r) PROVE TypeOK'
  BY <1>6, <1>k, <1>n DEF JobFails, TypeOK
<1> QED BY <1>1, <1>2, <1>3, <1>4, <1>5, <1>6 DEF ReleaseStep

\* A device and the passing of time keep the types (run_cycle, apply_with_watchdog).
LEMMA DeviceType ==
  ASSUME TypeOK, (\E d \in Device : Poll(d) \/ Apply(d)) \/ Tick
  PROVE  TypeOK'
<1>1. ASSUME NEW d \in Device, Poll(d) PROVE TypeOK'
  BY <1>1 DEF Poll, TypeOK, releases
<1>2. ASSUME NEW d \in Device, Apply(d) PROVE TypeOK'
  <2>1. Installed(d, fetched[d]) \in Version
    BY DEF Installed, TypeOK
  <2>2. running' \in [Device -> Version]
    BY <1>2, <2>1 DEF Apply, TypeOK
  <2>3. fetched' \in [Device -> Manifests \cup {None}]
    BY <1>2 DEF Apply, TypeOK
  <2> QED BY <1>2, <2>2, <2>3 DEF Apply, TypeOK, releases
<1>3. ASSUME Tick PROVE TypeOK'
  <2>1. now' \in 0 .. Horizon
    BY <1>3, RolloutAssumption DEF Tick, TypeOK
  <2> QED BY <1>3, <2>1 DEF Tick, TypeOK, releases, devices
<1> QED BY <1>1, <1>2, <1>3

\* A step keeps the types.
LEMMA StepType == TypeOK /\ [Next]_vars => TypeOK'
<1> SUFFICES ASSUME TypeOK, [Next]_vars PROVE TypeOK'
  OBVIOUS
<1>1. CASE UNCHANGED vars
  BY <1>1 DEF TypeOK, vars, releases, devices
<1> QED BY <1>1, ReleaseType, DeviceType DEF Next

\* Every variable keeps its type, for any fleet and any releases.
THEOREM RolloutTypeCorrect == Spec => []TypeOK
BY InitType, StepType, PTL DEF Spec

-----------------------------------------------------------------------------
(* Exposure.                                                                *)

\* What the staging of a manifest can be.
Staging == {"none", "ok", "invalid"}

\* The parts of a manifest are of the sorts the arithmetic needs.
LEMMA ManifestParts ==
  ASSUME NEW m \in Manifests
  PROVE  /\ m.version \in Version /\ m.staging \in Staging
         /\ m.published \in Nat /\ m.soak \in Nat /\ m.ramp \in Nat /\ m.frozen \in Int
<1>1. m.version \in Version /\ m.staging \in Staging
  BY DEF Manifests, Staging
<1>2. m.soak \in Soaks \cup {0} /\ m.ramp \in Ramps \cup {0}
  BY DEF Manifests
<1>3. m.published \in 0 .. Horizon
  BY DEF Manifests
<1>4. m.frozen \in -1 .. Horizon
  BY DEF Manifests
<1>5. \A n \in (Soaks \cup {0}) \cup (Ramps \cup {0}) : n \in Nat
  BY RolloutAssumption
<1>6. Horizon \in Nat
  BY RolloutAssumption
<1>7. m.published \in Nat
  BY <1>3, <1>6
<1>8. m.frozen \in Int
  BY <1>4, <1>6
<1> QED BY <1>1, <1>2, <1>5, <1>7, <1>8

\* A device that is past its turn stays past it: where a moment of the ramp is reached,
\* every later one is (device_fraction against elapsed / ramp_h).
LEMMA PastTurn ==
  ASSUME NEW a \in Int, NEW b \in Int, a <= b, NEW part \in Nat, NEW ramp \in Nat,
         a * Parts > part * ramp
  PROVE  b * Parts > part * ramp
<1>1. Parts \in Nat /\ a * Parts \in Int /\ b * Parts \in Int /\ part * ramp \in Int
  BY RolloutAssumption
<1>2. (b - a) * Parts >= 0
  BY <1>1
<1>3. b * Parts = a * Parts + (b - a) * Parts
  BY <1>1
<1> QED BY <1>1, <1>2, <1>3

\* Eligibility is monotonic in local time, with or without a freeze.
LEMMA EligibleStays ==
  ASSUME NEW m \in Manifests, NEW s \in Int, NEW t \in Int, s <= t, NEW part \in Nat,
         Eligible(m, s, part)
  PROVE  Eligible(m, t, part)
<1>1. /\ m.published \in Int /\ m.soak \in Nat /\ m.ramp \in Nat /\ m.frozen \in Int
      /\ m.staging \in Staging
  BY ManifestParts
<1>2. CASE m.staging = "none"
  BY <1>2 DEF Eligible
<1>3. CASE m.staging = "ok"
  <2>1. SoakEnd(m) \in Int /\ RampRef(m, s) \in Int /\ RampRef(m, t) \in Int
    BY <1>1 DEF SoakEnd, RampRef
  <2>2. RampRef(m, s) <= RampRef(m, t)
    BY <1>1 DEF RampRef
  <2>3. InRamp(m, s, part) => InRamp(m, t, part)
    <3> DEFINE a == RampRef(m, s) - SoakEnd(m)
               b == RampRef(m, t) - SoakEnd(m)
    <3>1. a \in Int /\ b \in Int /\ a <= b
      BY <2>1, <2>2
    <3> HIDE DEF a, b
    <3>2. a * Parts > part * m.ramp => b * Parts > part * m.ramp
      BY <1>1, <3>1, PastTurn
    <3> QED BY <3>2 DEF InRamp, a, b
  <2>4. s >= m.published /\ s >= SoakEnd(m) /\ (m.ramp = 0 \/ InRamp(m, s, part))
    BY <1>3 DEF Eligible
  <2> QED BY <1>1, <1>3, <2>1, <2>3, <2>4 DEF Eligible
<1>4. CASE m.staging = "invalid"
  BY <1>4 DEF Eligible
<1> QED BY <1>1, <1>2, <1>3, <1>4 DEF Staging

\* While a freeze lasts only a device whose clock has not reached it becomes eligible.
LEMMA FrozenStays ==
  ASSUME NEW m \in Manifests, NEW s \in Int, NEW t \in Int, s <= t, NEW part \in Nat,
         m.frozen # -1, m.ramp > 0, s > m.frozen, Eligible(m, t, part)
  PROVE  Eligible(m, s, part)
<1>1. /\ m.published \in Int /\ m.soak \in Nat /\ m.ramp \in Nat /\ m.frozen \in Int
      /\ m.staging \in Staging
  BY ManifestParts
<1>2. CASE m.staging = "none"
  BY <1>2 DEF Eligible
<1>3. CASE m.staging = "ok"
  <2>1. RampRef(m, s) = m.frozen /\ RampRef(m, t) = m.frozen
    BY <1>1 DEF RampRef
  <2>2. InRamp(m, t, part)
    BY <1>1, <1>3 DEF Eligible
  <2>3. InRamp(m, s, part)
    BY <2>1, <2>2 DEF InRamp
  <2>4. m.frozen > SoakEnd(m)
    <3> DEFINE a == m.frozen - SoakEnd(m)
    <3>1. a \in Int /\ a * Parts > part * m.ramp
      BY <1>1, <2>1, <2>2 DEF InRamp, SoakEnd
    <3> HIDE DEF a
    <3>2. part * m.ramp \in Nat /\ Parts \in Nat
      BY <1>1, RolloutAssumption
    <3>3. a * Parts > 0
      BY <3>1, <3>2
    <3>4. a > 0
      BY <3>1, <3>2, <3>3
    <3> QED BY <1>1, <3>4 DEF a, SoakEnd
  <2>5. s >= m.published /\ s >= SoakEnd(m)
    BY <1>1, <2>4 DEF SoakEnd
  <2> QED BY <1>3, <2>3, <2>5 DEF Eligible
<1>4. CASE m.staging = "invalid"
  BY <1>4 DEF Eligible
<1> QED BY <1>1, <1>2, <1>3, <1>4 DEF Staging

\* Time does not go back.
LEMMA NowAdvances ==
  ASSUME TypeOK, [Next]_vars
  PROVE  now \in Int /\ (now' = now \/ now' = now + 1) /\ UNCHANGED <<fraction, skew>>
<1>1. now \in Int
  BY DEF TypeOK
<1>2. CASE \E r \in Runner : ReleaseStep(r)
  BY <1>1, <1>2
     DEF ReleaseStep, Publish, Panic, Freeze, WriteBinaries, WriteManifest, JobFails
<1>3. CASE \E d \in Device : Poll(d) \/ Apply(d)
  BY <1>1, <1>3 DEF Poll, Apply
<1>4. CASE Tick \/ UNCHANGED vars
  BY <1>1, <1>4 DEF Tick, vars
<1> QED BY <1>2, <1>3, <1>4 DEF Next

\* Nor does it on a device, however far its clock is behind.
LEMMA TimePasses ==
  ASSUME TypeOK, [Next]_vars, NEW d \in Device
  PROVE  /\ LocalTime(d) \in Int /\ LocalTime(d)' \in Int /\ LocalTime(d) <= LocalTime(d)'
         /\ UNCHANGED <<fraction, skew>>
         /\ now \in Int /\ now' >= now
<1>1. now \in Int /\ skew[d] \in Int
  BY RolloutAssumption DEF TypeOK
<1>2. UNCHANGED <<fraction, skew>> /\ (now' = now \/ now' = now + 1)
  BY NowAdvances
<1> QED BY <1>1, <1>2 DEF LocalTime

\* As long as the manifest stays, devices are only added, whatever the fractions, the
\* clocks, soak, ramp and freeze (evaluate_eligibility).
THEOREM ExposureIsNested == Spec => NestedExposure
<1>1. TypeOK /\ [Next]_vars =>
        (latest' = latest => \A d \in Device : EligibleFor(d, latest) => EligibleFor(d, latest)')
  <2> SUFFICES ASSUME TypeOK, [Next]_vars, latest' = latest, NEW d \in Device,
                      EligibleFor(d, latest)
               PROVE  EligibleFor(d, latest)'
    OBVIOUS
  <2>1. latest \in Manifests /\ fraction[d][latest.version] \in Nat
    BY RolloutAssumption DEF TypeOK, Manifests
  <2>2. Eligible(latest, LocalTime(d)', fraction[d][latest.version])
    BY <2>1, TimePasses, EligibleStays DEF EligibleFor
  <2> QED BY <2>2, TimePasses DEF EligibleFor
<1> QED BY <1>1, RolloutTypeCorrect, PTL DEF Spec, NestedExposure

\* A freeze holds the exposure of a ramp where it is, whatever the fractions and the
\* clocks (evaluate_eligibility with frozen_at).
THEOREM FreezeHoldsExposure == Spec => FreezeHolds
<1>1. TypeOK /\ [Next]_vars =>
        (latest' = latest /\ latest.frozen # -1 /\ latest.ramp > 0 =>
           \A d \in Device : ~EligibleFor(d, latest) /\ EligibleFor(d, latest)'
             => LocalTime(d) <= latest.frozen)
  <2> SUFFICES ASSUME TypeOK, [Next]_vars, latest' = latest, latest.frozen # -1,
                      latest.ramp > 0, NEW d \in Device, EligibleFor(d, latest)',
                      ~(LocalTime(d) <= latest.frozen)
               PROVE  EligibleFor(d, latest)
    OBVIOUS
  <2>1. latest \in Manifests /\ fraction[d][latest.version] \in Nat /\ latest.frozen \in Int
    BY RolloutAssumption DEF TypeOK, Manifests
  <2>2. Eligible(latest, LocalTime(d)', fraction[d][latest.version])
    BY TimePasses DEF EligibleFor
  <2>3. LocalTime(d) > latest.frozen
    BY <2>1, TimePasses
  <2> QED BY <2>1, <2>2, <2>3, TimePasses, FrozenStays DEF EligibleFor
<1> QED BY <1>1, RolloutTypeCorrect, PTL DEF Spec, FreezeHolds

-----------------------------------------------------------------------------
(* Panic.                                                                   *)

\* A step keeps what a panic is about to write (panic.sh).
LEMMA PanicStep ==
  ASSUME TypeOK, PanicInv, [Next]_vars
  PROVE  PanicInv'
<1>1. now' >= Behind
  <2>1. now \in Int /\ Behind \in Int /\ (now' = now \/ now' = now + 1)
    BY NowAdvances, RolloutAssumption
  <2> QED BY <2>1 DEF PanicInv
<1>2. ASSUME NEW r \in Runner,
             job'[r].kind = "panic" =>
               /\ job'[r].manifest.staging = "ok" /\ job'[r].manifest.published = 0
               /\ job'[r].manifest.soak = 0 /\ job'[r].manifest.ramp = 0,
             \A s \in Runner \ {r} : job'[s] = job[s]
      PROVE  PanicInv'
  BY <1>1, <1>2 DEF PanicInv
<1>3. ASSUME NEW r \in Runner, ReleaseStep(r) PROVE PanicInv'
  <2>1. \A s \in Runner \ {r} : job'[s] = job[s]
    BY <1>3 DEF ReleaseStep, Publish, Panic, Freeze, Starts, WriteBinaries, WriteManifest,
                JobFails, TypeOK
  <2>2. ASSUME NEW v \in Version, Panic(r, v) PROVE PanicInv'
    <3>1. job'[r] = [kind |-> "panic", at |-> "binaries", manifest |-> PanicManifest(v)]
      BY <2>2 DEF Panic, Starts, TypeOK
    <3> QED BY <1>2, <2>1, <3>1 DEF PanicManifest, Staged
  <2>3. ASSUME WriteBinaries(r) PROVE PanicInv'
    <3>1. job'[r] = [job[r] EXCEPT !.at = "manifest"]
      BY <2>3 DEF WriteBinaries, TypeOK
    <3>2. job'[r].kind = job[r].kind /\ job'[r].manifest = job[r].manifest
      BY <2>3, <3>1 DEF WriteBinaries, TypeOK, Jobs
    <3> QED BY <1>2, <2>1, <3>2 DEF PanicInv
  <2>4. CASE job'[r].kind # "panic"
    BY <1>2, <2>1, <2>4
  <2>5. \/ \E v \in Version : Panic(r, v)
        \/ WriteBinaries(r) \/ job'[r].kind # "panic"
    BY <1>3 DEF ReleaseStep, Publish, Freeze, Starts, WriteManifest, JobFails, NoJob, TypeOK
  <2> QED BY <2>2, <2>3, <2>4, <2>5
<1>4. CASE UNCHANGED job
  BY <1>1, <1>4 DEF PanicInv
<1>5. (\E r \in Runner : ReleaseStep(r)) \/ UNCHANGED job
  BY DEF Next, Poll, Apply, Tick, vars, releases
<1> QED BY <1>3, <1>4, <1>5

\* When the manifest of a panic is out no device waits for its turn or its clock,
\* whatever the fractions and however far clocks are behind (panic.sh).
THEOREM PanicExposesAll == Spec => PanicReachesAll
<1>1. Init => PanicInv
  BY RolloutAssumption DEF Init, PanicInv, NoJob
<1>2. TypeOK /\ PanicInv /\ [Next]_vars => PanicInv'
  BY PanicStep
<1>3. TypeOK /\ PanicInv /\ [Next]_vars =>
        (\A r \in Runner : job[r].kind = "panic" /\ job'[r] # job[r] /\ latest' # latest
           => \A d \in Device : EligibleFor(d, latest)')
  <2> SUFFICES ASSUME TypeOK, PanicInv, [Next]_vars, NEW r \in Runner, job[r].kind = "panic",
                      job'[r] # job[r], latest' # latest, NEW d \in Device
               PROVE  EligibleFor(d, latest)'
    OBVIOUS
  <2>1. WriteManifest(r)
    <3>1. PICK s \in Runner : WriteManifest(s)
      BY DEF Next, ReleaseStep, Publish, Panic, Freeze, WriteBinaries, JobFails, Poll, Apply,
             Tick, vars, releases
    <3> QED BY <3>1 DEF WriteManifest, TypeOK
  <2>2. latest' = job[r].manifest /\ job[r].manifest \in Manifests
    BY <2>1 DEF WriteManifest, TypeOK, Jobs
  <2>3. /\ latest'.staging = "ok" /\ latest'.published = 0 /\ latest'.soak = 0
        /\ latest'.ramp = 0
    BY <2>2 DEF PanicInv
  <2>4. LocalTime(d)' \in Int /\ LocalTime(d)' >= 0
    <3>1. now \in Int /\ skew[d] \in 0 .. Behind /\ Behind \in Int /\ now >= Behind
      BY RolloutAssumption DEF TypeOK, PanicInv
    <3> QED BY <3>1, TimePasses DEF LocalTime
  <2> QED BY <2>3, <2>4 DEF EligibleFor, Eligible, SoakEnd
<1> QED BY <1>1, <1>2, <1>3, RolloutTypeCorrect, PTL DEF Spec, PanicReachesAll
=============================================================================
