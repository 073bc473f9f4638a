------------------------------ MODULE Rollout ------------------------------
(***************************************************************************)
(* The staged rollout of a release on the stable channel: the jobs that    *)
(* write latest.json and binaries/latest, and the devices that read them.  *)
(*                                                                         *)
(*   release jobs  publication (gen-manifest.sh in build.yml), panic.sh,   *)
(*                 freeze.sh                                               *)
(*   agent         evaluate_eligibility and the part of run_cycle and      *)
(*                 apply_with_watchdog that decides what is installed      *)
(*                                                                         *)
(* Time is counted in hours.  A manifest and the binaries are two objects  *)
(* that a job writes one after the other, beside other jobs.  Every device *)
(* stands for its architecture.  device_fraction is a hash: the            *)
(* fraction of a device for a version is any multiple of 1/Parts below 1.  *)
(* What becomes of an installed version on its device is in SafeUpdate.    *)
(***************************************************************************)
EXTENDS Integers, FiniteSets

CONSTANTS
  Device, Version,
  Builds,     \* sets of devices for whose architectures a release may be built
  Runner,     \* the machines that run release jobs, at the same time
  Genesis,    \* the version of every device and of the channel at first
  Parts,      \* how finely device_fraction tells devices apart
  Horizon,    \* bound on time; a release is published only if its ramp ends by then
  Soaks, Ramps,  \* soak_h and ramp_h a release may be published with
  Behind,     \* hours by which some device's clock may be behind
  MaxJobs,    \* bound on the release jobs run
  None

ASSUME RolloutAssumption ==
  /\ Genesis \in Version /\ Builds \subseteq SUBSET Device
  /\ Parts \in Nat \ {0} /\ Horizon \in Nat /\ MaxJobs \in Nat
  /\ Soaks \subseteq Nat /\ Ramps \subseteq Nat /\ Behind \in 0 .. Horizon

VARIABLES
  now,
  latest,    \* latest.json
  blobs,     \* for each device the version of its binary in binaries/latest
  archived,  \* for each version the devices its own directory has a binary for
  job,       \* of each runner: the release job it runs
  jobs,      \* jobs started so far
  fraction, skew,       \* of each device: for each version, and of its clock
  running, fetched      \* of each device: its version, the manifest it goes by

releases == <<latest, blobs, archived, job, jobs>>
devices == <<running, fetched>>
vars == <<now, releases, fraction, skew, devices>>

-----------------------------------------------------------------------------
(* manifest.cpp.                                                            *)

\* staging  "none" in a manifest of an older release, "invalid" for a partial or
\*          malformed block
\* frozen   frozen_at, -1 if absent
\* sums     the devices whose architecture has a checksum
Manifests == [version : Version, sums : SUBSET Device,
              staging : {"none", "ok", "invalid"}, published : 0 .. Horizon,
              soak : Soaks \cup {0}, ramp : Ramps \cup {0}, frozen : -1 .. Horizon]

Staged_swapped(v, sums, published, soak, ramp) ==   \* mutant: soak_h and ramp_h swapped
  [version |-> v, sums |-> sums, staging |-> "ok", published |-> published,
   soak |-> ramp, ramp |-> soak, frozen |-> -1]

\* gen-manifest.sh: a checksum of every binary there is.
Staged(v, sums, published, soak, ramp) ==
  [version |-> v, sums |-> sums, staging |-> "ok", published |-> published,
   soak |-> soak, ramp |-> ramp, frozen |-> -1]

SoakEnd(m) == m.published + m.soak

RampRef_unfrozen(m, t) == t   \* mutant: frozen_at is not looked at

\* The moment the ramp is measured at.
RampRef(m, t) == IF m.frozen # -1 /\ m.frozen < t THEN m.frozen ELSE t

InRamp_window(m, t, part) ==   \* mutant: only while the ramp lasts
  /\ t - SoakEnd(m) <= m.ramp
  /\ (RampRef(m, t) - SoakEnd(m)) * Parts > part * m.ramp

\* elapsed / ramp_h > fraction, where fraction is part / Parts.
InRamp(m, t, part) == (RampRef(m, t) - SoakEnd(m)) * Parts > part * m.ramp

\* evaluate_eligibility at local time t.
Eligible(m, t, part) ==
  CASE m.staging = "invalid" -> FALSE
    [] m.staging = "none"    -> TRUE
    [] OTHER -> /\ t >= m.published /\ t >= SoakEnd(m)
                /\ m.ramp = 0 \/ InRamp(m, t, part)

-----------------------------------------------------------------------------
NoJob == [kind |-> "none", at |-> "idle", manifest |-> None]
Jobs == [kind : {"publish", "panic", "freeze"}, at : {"binaries", "manifest"},
         manifest : Manifests] \cup {NoJob}

\* Every variable keeps its type.
TypeOK ==
  /\ now \in 0 .. Horizon
  /\ latest \in Manifests /\ blobs \in [Device -> Version]
  /\ archived \in [Version -> SUBSET Device]
  /\ job \in [Runner -> Jobs] /\ jobs \in 0 .. MaxJobs
  /\ fraction \in [Device -> [Version -> 0 .. Parts - 1]]
  /\ skew \in [Device -> 0 .. Behind]
  /\ running \in [Device -> Version] /\ fetched \in [Device -> Manifests \cup {None}]

\* The channel serves a release for every architecture from before staged rollouts,
\* which no device's fraction is ever asked for.
Init ==
  /\ now = Behind
  /\ latest = [Staged(Genesis, Device, 0, 0, 0) EXCEPT !.staging = "none"]
  /\ blobs = [d \in Device |-> Genesis]
  /\ archived = [v \in Version |-> IF v = Genesis THEN Device ELSE {}]
  /\ job = [r \in Runner |-> NoJob] /\ jobs = 0
  /\ fraction \in {f \in [Device -> [Version -> 0 .. Parts - 1]] :
                   \A d \in Device : f[d][Genesis] = 0}
  /\ skew \in [Device -> {0, Behind}]
  /\ running = [d \in Device |-> Genesis] /\ fetched = [d \in Device |-> None]

-----------------------------------------------------------------------------
(* Release jobs.                                                            *)

\* The workflows are started one by one and nothing makes one wait for another.
Starts(r, kind, step, manifest) ==
  /\ job[r] = NoJob /\ jobs < MaxJobs
  /\ jobs' = jobs + 1
  /\ job' = [job EXCEPT ![r] = [kind |-> kind, at |-> step, manifest |-> manifest]]

\* build.yml on a stable tag: binaries, a directory of their own and a manifest.
Publish(r, v, built, soak, ramp) ==
  /\ archived[v] = {}
  /\ now + soak + ramp + Behind < Horizon
  /\ Starts(r, "publish", "binaries", Staged(v, built, now, soak, ramp))
  /\ archived' = [archived EXCEPT ![v] = built]
  /\ UNCHANGED <<now, latest, blobs, fraction, skew, devices>>

PanicManifest_now(v) == Staged(v, latest.sums, now, 0, 0)   \* mutant: published now

\* No soak, no ramp, not frozen, and published long ago for clocks that are behind.
PanicManifest(v) == Staged(v, latest.sums, 0, 0, 0)

\* panic.sh validates before it writes: v has a binary for every architecture of the
\* version served, which is another.
Panic(r, v) ==
  /\ latest.sums \subseteq archived[v] /\ v # latest.version
  /\ Starts(r, "panic", "binaries", PanicManifest(v))
  /\ UNCHANGED <<now, latest, blobs, archived, fraction, skew, devices>>

\* freeze.sh --freeze and --unfreeze read the manifest and will write it back; each does
\* nothing where there is nothing to do.
Freeze(r, on) ==
  /\ on <=> latest.frozen = -1
  /\ Starts(r, "freeze", "manifest", [latest EXCEPT !.frozen = IF on THEN now ELSE -1])
  /\ UNCHANGED <<now, latest, blobs, archived, fraction, skew, devices>>

\* Binaries first; those of other architectures stay (sync without --delete).
WriteBinaries(r) ==
  /\ job[r] # NoJob /\ job[r].at = "binaries"
  /\ blobs' = [d \in Device |->
       IF d \in job[r].manifest.sums THEN job[r].manifest.version ELSE blobs[d]]
  /\ job' = [job EXCEPT ![r].at = "manifest"]
  /\ UNCHANGED <<now, latest, archived, jobs, fraction, skew, devices>>

\* The manifest last; a publication takes published_at when it writes it.
WriteManifest(r) ==
  /\ job[r] # NoJob /\ job[r].at = "manifest"
  /\ latest' = IF job[r].kind = "publish" THEN [job[r].manifest EXCEPT !.published = now]
               ELSE job[r].manifest
  /\ job' = [job EXCEPT ![r] = NoJob]
  /\ UNCHANGED <<now, blobs, archived, jobs, fraction, skew, devices>>

\* A job fails before its next write.
JobFails(r) ==
  /\ job[r] # NoJob
  /\ job' = [job EXCEPT ![r] = NoJob]
  /\ UNCHANGED <<now, latest, blobs, archived, jobs, fraction, skew, devices>>

-----------------------------------------------------------------------------
(* Devices.                                                                 *)

LocalTime(d) == now - skew[d]
EligibleFor(d, m) == Eligible(m, LocalTime(d), fraction[d][m.version])

\* run_cycle up to the apply.
Poll(d) ==
  /\ fetched[d] = None
  /\ latest.version # running[d]
  /\ EligibleFor(d, latest)
  /\ fetched' = [fetched EXCEPT ![d] = latest]
  /\ UNCHANGED <<now, releases, fraction, skew, running>>

\* The binary downloaded is the one the manifest describes, or the manifest has no
\* checksum for the device and any binary will do; else all stays as it is.
Installed(d, m) ==
  IF d \in m.sums => blobs[d] = m.version THEN blobs[d] ELSE running[d]

Apply(d) ==
  /\ fetched[d] # None
  /\ running' = [running EXCEPT ![d] = Installed(d, fetched[d])]
  /\ fetched' = [fetched EXCEPT ![d] = None]
  /\ UNCHANGED <<now, releases, fraction, skew>>

\* No hour passes while a job is between its two writes.
Tick ==
  /\ now < Horizon /\ \A r \in Runner : job[r] = NoJob
  /\ now' = now + 1
  /\ UNCHANGED <<releases, fraction, skew, devices>>

-----------------------------------------------------------------------------
ReleaseStep(r) ==
  \/ \E v \in Version, built \in Builds, soak \in Soaks, ramp \in Ramps :
       Publish(r, v, built, soak, ramp)
  \/ \E v \in Version : Panic(r, v)
  \/ \E on \in BOOLEAN : Freeze(r, on)
  \/ WriteBinaries(r) \/ WriteManifest(r) \/ JobFails(r)

Next ==
  \/ \E r \in Runner : ReleaseStep(r)
  \/ \E d \in Device : Poll(d) \/ Apply(d)
  \/ Tick

Spec == Init /\ [][Next]_vars

\* Time passes, jobs end, and every device polls for good.
FairSpec ==
  /\ Spec
  /\ WF_vars(Tick)
  /\ \A r \in Runner : WF_vars(WriteBinaries(r) \/ WriteManifest(r))
  /\ \A d \in Device : WF_vars(Poll(d)) /\ WF_vars(Apply(d))

-----------------------------------------------------------------------------
(* Properties.                                                              *)

\* As long as the manifest stays, devices are only added: who was exposed once stays
\* exposed, so a device that saw the release late is not left behind.
NestedExposure ==
  [][latest' = latest => \A d \in Device : EligibleFor(d, latest) => EligibleFor(d, latest)']_vars

\* A freeze holds the exposure of a ramp where it is: no device becomes eligible
\* while it lasts, but one whose own clock has not reached it yet.
FreezeHolds ==
  [][latest' = latest /\ latest.frozen # -1 /\ latest.ramp > 0 =>
       \A d \in Device : ~EligibleFor(d, latest) /\ EligibleFor(d, latest)'
         => LocalTime(d) <= latest.frozen]_vars

\* A panic reaches the whole fleet at once: when its manifest is out no device waits
\* for its turn or for its clock (panic.sh:26).
PanicReachesAll ==
  [][\A r \in Runner : job[r].kind = "panic" /\ job'[r] # job[r] /\ latest' # latest
       => \A d \in Device : EligibleFor(d, latest)']_vars

\* When the releases are over every device ends on the version the channel names or,
\* for want of a checksum, on the binary the channel has for it: unless the ramp is
\* frozen, or jobs that failed or overlapped left another binary than the checksum's.
FleetConverges ==
  <>[](latest.frozen = -1 => \A d \in Device :
         (d \in latest.sums => blobs[d] = latest.version)
           => running[d] \in {latest.version, blobs[d]})
=============================================================================
