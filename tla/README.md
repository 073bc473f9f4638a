# A verification of the ThinRemote agent

`thinr-agent` is a device agent in C++: it keeps a tunnel to a ThinRemote server
(the IOTMP client library), exposes resources over it (shell, scripts, monitoring,
updates), is installed as a service by its own command line, and replaces its own
binary while it runs, in a rollout that the release scripts stage over the fleet. This
directory has TLA+ modules translated from `src/thinr` and `scripts/release`, TLC
configurations, and theorems proved with TLAPS. The update of a running device, which can
take it out of reach for good, comes first; then how a release reaches the fleet, how a
machine gets its credentials, how the service is installed and kept alive, and what a
running agent does for the cloud.

Paths below are relative to the repository.

## The system

| Component | Code | State it keeps | Operations |
| --- | --- | --- | --- |
| watchdog core | `src/thinr/update/watchdog_core.cpp`, `update_marker.*` | none (pure) | `decide_boot`, `decide_runtime`, `skip_reverted_version` |
| update watchdog | `src/thinr/runtime/update_watchdog.cpp` | `armed_`, `report_pending_`, `resolved_`, `marker_`; files `update.state`, `update.reverted`, `.prev` | `check_boot`, constructor, `on_state` (io thread), `deadline_loop` (its own thread), `stop` |
| updater | `src/thinr/extensions/updater.cpp` | `in_progress`; files `install_path`, `.new`, `.prev`, `update.state` | the IOTMP resource `update`, `run`, `apply_with_watchdog` |
| update poller | `src/thinr/runtime/update_poller.cpp` | `connected_`, `remote_policy_` | `poll_loop`, `run_cycle`, `on_state`, `set_remote_policy` |
| state dispatcher | `src/thinr/runtime/client_state_dispatcher.hpp` | observers, last state | `subscribe`, `unsubscribe`, `dispatch` |
| agent | `src/thinr/agent/agent.cpp` | owns all of the above | constructor, `start`, `stop`, `apply_config` |
| configuration | `src/thinr/config/config_manager.cpp`, `update/update_settings.*` | `config.json` | `save`, `load`, `remove`, `read/write_update_section`, `effective_policy` |
| command line | `src/thinr/cli/*` | none beyond the files | `install`, `bootstrap`, `reconfigure`, `update`, `uninstall`, the service menus |
| manifest and eligibility | `src/thinr/update/manifest.cpp`, `scripts/release/*` | the channel manifest and binaries on the CDN | `parse`, `evaluate_eligibility`; publish, freeze, panic |
| authentication | `src/thinr/auth/auth_manager.cpp` | devices, tokens, products and alarm rules of the account | device flow, `provision_device`, `delete_device`, `ensure_default_alarms` |
| interactive setup | `src/thinr/installer/interactive_setup.cpp` | the session's answers | authenticate, provision, resolve conflicts, test, save and install |
| installers | `src/thinr/installer/*` | service files, links, pid file | install, start, stop, status, uninstall per init system |
| scripts, monitoring | `src/thinr/extensions/{scripts,monitoring}.cpp` | resource map; counters, disk paths | reload, call; collect |
| utilities | `src/thinr/utils/*` | none | `write_atomic`, console, host information |

How they interact in an update. Three callers reach `apply_with_watchdog`: the poll
thread, the `update` resource (a worker of the IOTMP client) and `thinr-agent update
--apply` (a process of its own). It downloads beside the binary, copies the binary to
`.prev`, writes a `pending` marker and renames the download over the binary; the agent
then ends itself with SIGTERM and the init system starts the new binary. `check_boot`
reads the marker before anything else is up, counts the boot or, when the budget is used
up, rolls back. The watchdog object subscribes to the client's states and starts a
deadline thread: STREAMS_READY confirms (removes marker and backup), a rejection or the
deadline rolls back: `.prev` is renamed over the binary, the version is recorded in
`update.reverted`, the marker becomes `rolled_back`, and the process ends again.

What the poll thread applies is decided elsewhere: a release job writes the binaries and
then `latest.json`, with the hour it was published, a soak, a ramp and perhaps a freeze;
each device compares its own clock and the hash of its identity with them. Whether a
device polls at all is its policy, from `config.json` and, as long as the process lives,
from the `config` property the cloud pushes.

How a machine comes to run the agent. `install` (a token or a password) and the
interactive setup (a browser, a password, a token or typed credentials) authenticate
over TLS that may ask about the certificate, seed product and alarm rules, create the
device, delete and create it again on a conflict, save `config.json`, copy the binary and
install the service for the init system found. Later commands (service menus,
reconfigure, update, uninstall) meet whatever state the earlier ones left.

What is hard: the disk is changed by several threads and processes, in steps between
which any process can die; three events race to decide a trial; a process whose file was
replaced no longer knows its own path; a marker means different things to different
readers; some of the exclusion is per process while the files are per device; requests
are lost on either side of the server; the init system restarts what the command line has
just stopped; and rollouts depend on clocks that disagree. The hazards in `PROJECT.json`
list these at their lines.

What makes each component correct:

- watchdog core: a binary gets its attempts and not one more, only a rejection or the
  deadline reverts, and a bad version is not retried;
- watchdog and updater together: a device always has a binary that has worked on it,
  installed or ready to be restored; a trial is decided once; every trial ends;
- state files: what they say is what happened;
- configuration: an explicit opt-out survives every command and every remote change, and
  the credentials survive every rewrite; the policy of the cloud is reached;
- eligibility: exposure only grows while a manifest stays, a freeze holds it, a panic
  reaches everyone, and the fleet ends on the version the channel names;
- provisioning: who was told that a machine is set up has credentials the server accepts;
  the browser flow ends, and in favour of who approved in time;
- alarm rules: what a command reported to be there is there;
- service life cycle: what the command line reports is what is there, and an installed
  service comes back;
- scripts: what is listed is what is served, and a reload tells the truth;
- dispatcher: no observer runs after it was destroyed, and each sees the states in order.

## Modules

| Module | What it models |
| --- | --- |
| `WatchdogCore` | the three decisions, over markers and reverted records |
| `SafeUpdate` | one device: disk, agent process with its three threads, appliers, init system, power; and its mapping to `TrialProtocol` |
| `TrialProtocol` | the promise: a binary on trial with a fallback, accepted or gone back from |
| `UpdateSettings` | `config.json` shared by commands in separate processes, and the effective policy |
| `Rollout` | the stable channel: release jobs, the CDN, and the eligibility of devices with clocks of their own |
| `DeviceFlow` | the browser authentication, in seconds |
| `Provisioning` | machines that set up devices on one account; runs `DeviceFlow` as the browser method |
| `AccountSetup` | products and default alarm rules seeded by commands side by side |
| `ServiceLifecycle` | the service of one machine and the command line that operates it, on five kinds of init system |
| `AgentRuntime` | a running agent: the policy in the `config` property, and the scripts |
| `MCSafeUpdate`, `MCAgentRuntime` | TLC instances |
| `SafeUpdate_proofs`, `StateFiles_proofs`, `UpdateSettings_proofs`, `Rollout_proofs`, `Provisioning_proofs`, `AccountSetup_proofs`, `ServiceLifecycle_proofs`, `AgentRuntime_proofs` | theorems |

`SafeUpdate` extends `WatchdogCore` and implements `TrialProtocol`; `Provisioning`
extends `DeviceFlow`. The modules meet where the code's components hand over: what
`Rollout.Apply` installs is one `ApplySwap` of `SafeUpdate` that is confirmed; a `Save` of
`Provisioning` is the `save` of `UpdateSettings`, and the installation after it the
`Install` of `ServiceLifecycle`; the policy that `AgentRuntime` keeps is `remote` of
`UpdateSettings`. They are not one specification, since no property of ours relates, say,
a marker to an alarm rule; the one place where two of them do meet is named under Not
modelled.

### SafeUpdate

State. `install`, `prev` and `temp` are the contents of `install_path`, `.prev` and
`.new`: a binary, nothing, or `Torn` when a power cut lost its data. `marker` is
`update.state` in each of two directories, since the agent's directory follows
`--config` and the one of the other two appliers does not. `reverted` is
`update.reverted`. `pc` says what each thread is about to do: the main thread boots
(`check`, `clear_prev`, `ctor`, `up`), the io thread handles client states (`confirm`,
`confirm_prev`, `report`), the timer thread waits for the deadline, and each of them can
be inside `do_rollback` (`revert`, `record`, `mark`). `exe` is the binary the process
runs and `stale` says that `install_path` was replaced since: `/proc/self/exe` then names
a deleted file. `wd` and `held` are the fields of the watchdog. `ap` is the progress of
each apply. `proven` and `bad` are history that no step reads.

Versions and binaries are one set: a binary reports its own version. Actions are one
change of the disk or of shared state each, so a crash can fall between any two. What is
merged: download, checksum, permissions and preflight are one step (`ApplyFetch`) that
succeeds or leads to `ApplyGiveUp`; a copy to `.prev.tmp` with its rename is one step, as
nobody reads `.prev.tmp`; `write_atomic` is one step that happens or not, with its result
looked at only where the code looks at it. The check of `in_progress`, of the marker and
of the sessions at the head of an apply is one step, `ApplyBegin`; the marker is not
looked at again, and all that the download leaves time for comes after it.

`Hazards` names what an instance lets go wrong; each is a disjunct or a guard in the
action it concerns.

### UpdateSettings

`file` holds whether `config.json` exists, the age of its credentials and its update
section (policy and source). A rewrite of the file is atomic, while reading it and
writing it back are two steps: `WriteSectionCheck`, `WriteSectionRead`, `WriteSection`
and `SaveRead`, `SaveWrite`. `cmd` is what each command process has read and is about to
do. `chosen` (what the user last asked for), `saved` (the credentials saved last) and
`parked` (a reconfigure removed the section and the choice is not back since) are history.

### Rollout

`latest` and `blobs` are the objects of the channel (`latest.json` and, for each device's
architecture, the binary in `binaries/latest`), `archived` the binaries of each version in
its own directory. A release `job` writes the binaries first and the manifest last, in two
steps between which it may fail (`JobFails`); `Publish` stands for the upload steps of
`build.yml` with `gen-manifest.sh`, `Panic` for `panic.sh`, `Freeze` for `freeze.sh`, which
reads the manifest when it begins. Jobs run beside each other, one per `Runner`, since the
workflows have no concurrency group; no hour passes while one is under way. A release may
lack a binary for some devices: its manifest has no checksum for them (`sums`), and the
binary they had in `binaries/latest` stays, which they then install unchecked
(`Installed`). `Eligible` is `evaluate_eligibility` with exact rationals: a device's
fraction is `part / Parts`, compared by multiplication. A device has a clock `skew`
behind; `Poll` is `run_cycle` up to the apply, `Apply` the download, the checksum if there
is one and the installation. The hash that makes a fraction is any function from devices
and versions, and parsing is one of three outcomes (`staging`).

### DeviceFlow and Provisioning

`flow` is the browser flow: `clock` in seconds since the code was issued, `due` the end of
the sleep or request under way, `grant` and `when` the user's decision. `Poll` is the head
of the loop of `poll_device_token`, `Answer` what the server says of the poll, `SlowDown`
the wait that takes the place of the interval. `Enforcing` is a server that raises the
interval it asks for, as RFC 8628 says.

In `Provisioning` a request is one step with an outcome: done and answered, refused, lost
before the server, or not heard after it. `record` is what the server holds for each
device, a `token` standing for a pair of credentials that one call generated and nobody
else knows. `cmd.at` follows `handle_install` and the interactive setup request by
request: `auth`, `post` (provision), `conflict`, `delete`, `repost` (provision again),
`rename`, `provisioned` (the connection test), `save`. `cmd.ssl` is the session's answer
about the certificate. `said` is what the user was told, with "taken" if another machine
deleted the device since.

### AccountSetup

`rules` is what the account has of each default rule: nothing, the default, or an edited
one. `ensure_default_alarms` is a list, then with `--force` a removal per rule, then a
creation per rule; `known` is `existing_ids`. Every request may be refused, lost or not
answered. Another command and the user's edits fall between any two requests. `promised`
and `reset` are what commands reported, `unheard` the rules that are gone by a removal that
was not answered.

### ServiceLifecycle

`binary`, `unit`, `starts` and `config` are what is on disk, `job` whether the init system
restarts the process, `service` what runs, `pidfile` whom the pid file names. `cli` is the
operation the command line carries out: one step per command or file. `StartService`,
`StopService`, `Status`, `EnableOutcomes` and `Disable` say what each init system does of
it, `EnableOutcomes` and `Disable` with the tool orders of the sysv installer; nobody looks
at the result of disabling, so any place may stay enabled. Meanwhile the process exits
(`Exit`), is restarted (`Respawn`) or, by procd, given up (`GiveUp`), pids are reused
(`ReusePid`) and the machine reboots (`Reboot`), which also ends the command line. The
files of a trial (`.prev`, `update.state`, `update.reverted`) are not among its state: no
operation of the command line touches them.

### AgentRuntime

`inbox` holds the configurations the stream delivers in order; a new subscription begins
with the present value. `override` is `remote_policy_`.
`resources` is the client's map from names to handlers, `table` is `scripts_`. A reload
runs on a worker: `ScanFile` comes to the files one at a time in any order while `Edit`
changes the directory, `Register` replaces the scripts on the io thread, `Answer` lists
`scripts_` as it then is. `kept`, `seen` and `alone` are history: the files that were there
all the time, those that were there at some time, and whether no other reload overlapped.

## Runs

All run with TLC in breadth-first mode, without symmetry. They check for deadlock except
where a system really may stop, which the table says.

| Run | Bounds | Shows |
| --- | --- | --- |
| `agent` | 3 binaries of which one never connects, 3 attempts, poller and resource, every failure of one process on sound storage whose writes succeed | types, a known-good binary is kept, the inductive invariant of the proofs, one decision per trial, state files that tell the truth, no boot on trial uncounted, no reversal of what was accepted, the refinement |
| `live` | 2 binaries, 3 attempts, poller and resource, crashes while up | every trial ends, and the poll loop never puts back a version reverted as bad |
| `command_line` | 3 binaries, 2 attempts, command line beside the agent, failing writes and renames, lost data, either process or the power cut anywhere, an init system that may not restart the agent; the agent may stay down, but always has a step left | an untried binary always has its fallback, and only a power cut spoils that |
| `settings` | one command at a time, 3 provisionings, all commands, which die or fail half way | the file holds the credentials saved last, and an opt-out is honoured unless a reconfigure holds it in memory |
| `rollout` | 2 devices with any fractions in halves, one clock an hour behind, 2 versions, one of which may lack a binary for a device, soaks of 0 and 1 and ramps of 0 and 2 hours, 3 jobs of which 2 at once, 6 hours; time ends, so no deadlock check | exposure only grows, a freeze holds it, a panic reaches everyone, the fleet converges |
| `provisioning` | 2 machines, one with a terminal, 2 identifiers, tokens for every holder at once and one more, every fault; code valid for 2 seconds, rounds of 1 second, 1 undeserved slow_down; users may rest, so no deadlock check | who was told so has working credentials; the browser flow ends, and for who approved in time |
| `alarms` | 2 commands, 2 rules, every fault for every request; the user may leave, so no deadlock check | rules that were promised are there, a reset rule is the default one |
| `service` | 5 kinds of machine, 6 sets of enabling tools, pids reused, every failing step, ignored failures of disable and stop included; a machine without a service may rest, so no deadlock check | what install, update and stop-and-run report is there; what was uninstalled stays off; the pid file names the service; the service comes back |
| `runtime` | 2 scripts, one named like an early and one like a late native resource, 2 workers, 2 edits, 1 change in the cloud among the 4 kinds of update section | what is listed is served, a lone reload tells the truth, the cloud's policy is reached |

Why the bounds are enough. Two binaries are needed for a trial and a third for a trial
after a reversal or for an update of an updated device, so that `proven`, `reverted` and
`.prev` can each name a different one; one of the three never connects, so that a trial
can end in each of its ways. The attempt budget is the code's 3 wherever it is counted;
runs that do not count boots use 2. Two appliers in one process show `in_progress`. `live`
has one version besides the installed one, because the reverted record holds one (see
Observed). In `rollout` the fractions are 0 and 1/2 of a ramp of two
hours, so that a freeze inside it parts the devices, and three jobs are a publication, a
freeze and an unfreeze or a panic, any two of them side by side. In `provisioning` two
identifiers are a conflict and a way out of it, and two machines one that deletes the
other's device. In `alarms` and `runtime` two of each are one that acts and one that is
overtaken. The theorems then lift the bounds of the main properties.

The other three runs each end in a counterexample to something the repository says of
itself; `PROJECT.json` quotes the line and says what the trace shows:

| Run | What the code does |
| --- | --- |
| `forgotten` | a crash between rename and record of a rollback forgets the bad version |
| `previous_binary` | an update from the service menu that fails while copying starts the partial file, not the previous binary |
| `parked` | a reconfigure whose setup saves credentials and then fails to install the service loses the opt-out it said it preserves |

### Where properties stop

Properties hold under the hazards their runs list, and some except cases that TLC refutes.
Each of these is reproduced by changing the constants or the condition named.

- `KnownGoodKept` with `data_loss`: the new binary is not synced before the swap, so a
  power cut may leave a file without its data. `UntriedHasFallback` is the same for such
  storage: it excepts the file the cut hit and nothing else.
- Both with `skew`: a manifest without a checksum for the architecture lets a binary be
  installed that the marker does not name. With `slow_confirm`: an apply that gets through
  download and preflight between the two unlinks of `confirm` loses its fresh backup.
- `UntriedHasFallback` with `Appliers = {"poller", "cli"}`: `in_progress` is per process, both
  pass the check of the marker, and both swap. With `boot_in_apply` and the command line:
  an agent that boots inside an apply removes its marker and backup. With the resource as
  applier and `AgentDir = "cfg"`: the marker is written where the agent does not look.
- `OptOutHonoured` while a reconfigure holds the section in memory, and after one that
  never wrote it back: run `parked` is that loss. A reconfigure that is killed in between
  loses the section too.
- `CredentialsKept` and `OptOutHonoured` with two commands: the mutex of the config file is
  per process, and one can put back the credentials or the section the other replaced.
- `ApprovedInTimeServed` with `Enforcing = TRUE`: the agent goes back to the old interval
  after each slow_down, so that a server which raises it refuses an approved user until
  the code expires.
- `PromisedRulesPresent` excepts the rules in `unheard`: a rule whose removal was done but
  not answered (`auth_manager.cpp:1012`) stays in `existing_ids`, is not created again and
  is reported present.
- `UninstalledStaysOff` is about what starts again. An uninstall that says "completely
  uninstalled" may leave a process (the init script's, or one that a second stop of systemd
  or launchd did not end, whose result is ignored), boot links (disabling chooses its tool
  in another order than enabling, and its result is ignored), and always leaves the `.prev`
  of a trial, `update.state` and `update.reverted` with their directory: only `config.json`
  and the binary are removed (`config_manager.cpp:180`, `base_service_installer.cpp:207`).
  Nothing of it starts the agent, since binary and unit file are gone.
- `ManualRunsAlone` outside systemd and `UpdatedRunsNew` on launchd: the init system
  restarts the agent between stop and manual run, or between stop and copy.
- `ReloadTellsTruth` for reloads that overlap: the older scan may be registered last, and
  an answer may list what another reload registered.
- `FleetConverges` excepts a frozen ramp, and binaries that are not those of the checksum:
  a job failed between its writes, or one wrote its manifest after another's (a `freeze.sh`
  that read `latest.json` before a publication undoes it, `freeze.sh:80`). Until a later job
  succeeds the devices refuse the checksum, which is what it is for. A device for which the
  manifest has no checksum ends on whatever binary the channel has for it.

Observed while modelling, with no property of its own: a second reversal overwrites the
record of the first, so a bad version is retried once another one was reverted; the
report budget of `watchdog_core.hpp:15` is read by nothing, and a device that does not
reach STREAMS_READY owes its report, and refuses updates, for ever; a report that is lost
is not repeated; an `update.state` that cannot be parsed is no marker to `decide_boot` and
a pending one to an apply, so updates are refused until it is removed by hand; a clean
start leaves a stale `.prev` of an apply that died between backup and marker; a session
opened after the last look at the session count is cut by the swap; a release without a
ramp does not look at its freeze, and one whose ramp is unfrozen continues as if the
freeze had not been, exposing at once what it held back; `docs/releasing.md:117` gives a
panic `published_at = now` where `panic.sh:113` writes 1, which is what devices with a
clock behind need.

### Fairness

`SafeUpdate.FairSpec` assumes what the scheduler and the init system owe: a started agent
goes on booting and one that is down is started (weak fairness of `Boot`), a thread that
is in `do_rollback`, `confirm` or the report goes on, the deadline elapses (`wait_for` has
a timeout), an apply that began ends, and SIGTERM is handled. The last is strong fairness:
`Stop` waits for the poll thread, which may begin cycles until `stopping_` is seen, so it
can be disabled again and again, while the code lets the poller begin none once it is
set. Nothing is assumed of the server, of updates offered, or of failures. In `live` the
agent may crash whenever it is up: the attempts bound that. The init system is one that
restarts it each time; procd's default limits, which end that after quick exits, are
`no_respawn` in `command_line` and `GiveUp` in `ServiceLifecycle`. Crashes during boot are left
out there: an agent that crashes before `check_boot` writes is restarted for ever, and no
code of the agent can help.

`Rollout.FairSpec`: time passes, the job of every runner writes or fails once it has begun,
and every device goes on polling and applying (`poll_loop` has no end but the process's).
That a job begins is owed by nobody.

`ServiceLifecycle.FairSpec`: an operation of the command line goes on, and so does
`Respawn`, for a job that the init system still keeps. That it keeps it for ever is so of
systemd (`Restart=always` with `StartLimitIntervalSec=0`,
`systemd_service_installer.cpp:182`) and launchd (`KeepAlive`), and not of procd:
`procd_set_param respawn` without limits (`sysv_service_installer.cpp:250`) keeps procd's
defaults, which halt an instance after repeated quick exits. How quick is not modelled:
`GiveUp` may drop the job of procd whenever the process is away. So `ServiceComesBack`
says of procd only that the agent returns or is given up. That it is started by the user,
or exits, is not assumed.

`AgentRuntime.FairSpec`: the io thread handles configurations that have arrived;
`PolicyReached` is about agents that stay connected in the end. The other modules state no
liveness.

## Proofs

Every theorem holds with the constants arbitrary under the named assumptions of its
modules.

`SafeUpdate_proofs`:

- `TypeCorrect`: `Spec => []TypeOK`, whatever hazards are enabled. The strengthening is
  `AttemptsInv`: only a `rolled_back` marker carries one attempt more than the budget, so
  counting a boot stays within `Markers`.
- `TrialDecidedOnce`: `Spec => []OneResolution`, whatever hazards are enabled, by
  `ResolveInv`: the timer is off unless the watchdog is armed, and a thread is past its
  waiting point only once `resolved_` is set, by itself.
- `GoodBinaryKept`: `Spec => []KnownGoodKept`, under `Sound`: appliers in the agent's
  process only, the agent in the default directory, and data loss, wrong binaries and
  `slow_confirm` off.
- `RevertsOnlyTrials`: `Spec => RevertOnlyOnTrial`, under `Sound`.
- `UpdateInvariant`: `Spec => []IInv`, under `Sound`, the invariant the others use.
- `TrialProtocolImplemented`: `Spec => ImplementsTrial`, under `Sound`: `ApplySwap` is
  `Begin`, `Confirm` is `Accept`, `Revert` is `GoBack`, `StreamsReady` is `Work`, and every
  other step leaves what the protocol sees alone (`Unseen`).

The last four rest on `IInv`. `KnownGoodKept` alone is not inductive: that a swap is safe
depends on the apply having written its own marker over no other (`ApplyInv`), that a
reversal is safe on the trial being still undecided and the process not stale
(`TrialInv`), that removing a marker at boot is safe on the swap not having happened
(`MarkerInv`, `AgentInv`), and that two threads do not do both on `ResolveInv`. The step
lemma has one step per action, and under it one step per conjunct the action can disturb.
`IInv` is also an invariant of run `agent`.

`StateFiles_proofs`, under `Writable` (`Sound`, and no `write_atomic` fails):

- `StateFilesTellTruth`: `Spec => []RolledBackTellsTruth`. To be inductive it needs
  `Recorded` (a thread about to write the `rolled_back` marker has left the record), and of
  `IInv` that a thread there has restored what its marker says.
- `BootsOnTrialAreCounted`: `Spec => []TrialRunsCounted`, by `Counted`, which says the same
  from the end of `check_boot` on, and of a rollback at boot: when that fails, the boot goes
  on with a budget that was counted to its end.
- `PollerLeavesBadAlone`: `Spec => BadNeverRetried`, under `Remembers`: nothing cuts
  `do_rollback` between its rename and its record (no `crash_rollback`, no `power_cut`), and
  one version is published besides the installed one, since `update.reverted` has room for
  one. Both are needed: TLC breaks `BadRecorded` with either hazard on (run `forgotten` is
  such a behaviour), and a second bad version overwrites the first. `BadInv` says that a
  bad version that is not installed is in the record, or a thread is about to write it there
  (`BadRecorded`); that one that is installed is on trial, and neither what a trial goes back
  to nor what `confirm()` accepts is bad (`GoodFallback`); that no SIGTERM of a finished apply
  ends a rollback early, because the process that raised it is stale and begins none (`Uncut`);
  and that what the poller has in hand stays good (`PollerHeeds`). So the update resource may
  put a bad version on trial in between, and the agent may crash at any other point.

`UpdateSettings_proofs`:

- `SettingsTypeCorrect`: `Spec => []TypeOK`, for any number of commands at once.
- `SavedCredentialsAreKept` and `OptOutIsHonoured`, under `OneCommand` (the mutex of the
  file is per process, and both fail without it): `Spec => []CredentialsKept` by `ReadInv`
  (what a command has read is still what the file holds), and `Spec => []OptOutHonoured` by
  `OptOutInv`: only an explicit choice writes a section that opts out, what a command is
  about to write does not undo one (`WritesFit`), and a section kept by a reconfigure is
  parked.

`Rollout_proofs`:

- `RolloutTypeCorrect`: `Spec => []TypeOK`.
- `ExposureIsNested` and `FreezeHoldsExposure`: the two action properties, for any soak,
  ramp, freeze, fractions and clocks. Both come from the monotonicity of `Eligible` in
  time (`EligibleStays`, `FrozenStays`), since a step that keeps the manifest changes
  nothing of it but the time.
- `PanicExposesAll`: from `PanicInv`, that the manifest a panic job carries has no soak,
  no ramp, no freeze and the earliest publication, whatever other jobs run beside it,
  together with a clock that is never before it.

`Provisioning_proofs`, about the browser flow first and then about the machines:

- `FlowIsBounded`: `FlowSpec => []FlowBounded`. `ClockInv` ties the clock to the end of the
  sleep or request under way, and that to the last poll.
- `ApprovalIsServed`: `FlowSpec => []ApprovedInTimeServed` for a server that does not
  raise its interval. `ApprovalInv` bounds how long ago the approval was by the rounds of
  undeserved slow_downs since, and `LateEnd` carries that over the end of the flow.
- `SetupFlowIsBounded` and `SetupApprovalIsServed`: the same two in the setup
  (`Spec` of `Provisioning`), which starts a flow anew as often as its user tries again: a
  step of the setup is a step of the flow, the end of one, or leaves it alone (`FlowMoves`).
- `ProvisioningTypeCorrect`: `Spec => []TypeOK`. That `Fresh` is a token at all rests on
  `FreshIsFree`: no more tokens are held than there are records, machines and files, and
  `ProvisioningAssumption` has one more than that. This is an assumption about the model's
  supply only: a pair of credentials is random in the code and there is always another.
- `SavedMachinesAreAccepted`: `Spec => []AcceptedOnceSaved`, by `MachinesInv`. That the
  file just saved is good depends on what the command got some steps earlier: it is still
  on record unless the device was taken (`GotOnRecord`), it came over a connection that
  was verified or accepted (`GotReached`), and it has not been put to another device
  (`GotHeld`); that a deletion spoils no machine whose user was told "ok" depends on no user
  being told so before the command is over (`SaidFailed`).

`AccountSetup_proofs`:

- `AccountTypeCorrect`: `Spec => []TypeOK`.
- `PromisedRulesArePresent`: `Spec => []PromisedRulesPresent`, for every failure of every
  request. The property speaks of the moment when no command is at the rules, and of the
  rules that are not `unheard`; in between a promised rule may be gone, but then some
  command `Owes` it: will create it again or report a failure (`PromisesKept`). That the
  command can pay rests on what it takes for present being present or unheard
  (`KnownPresent`) and on what it has come past being there (`PassedPresent`), unless
  another one removed it since.
- `ResetCountsDefaultRules`: `Spec => []ResetMeansDefault`, for every failure, by the same
  argument about what a `--force` has created (`PassedDefault`).

`ServiceLifecycle_proofs`, for any platforms, tool sets and failures, by one invariant,
`ServiceInv`. Its parts say that under sysv nothing runs without the init script
(`Unregistered`) and its process has its pid file and binary (`SysvInv`), how far each
operation has come (`InstallInv`, `UninstallInv`, `ManualInv`, `UpdateInv`), and that what
was said last still holds (`SaidInv`):

- `ServiceTypeCorrect`: `Spec => []TypeOK`.
- `UninstalledAgentStaysOff`: `Spec => UninstalledStaysOff`, an action property, through any
  failure of a stop or of disabling whose result the code ignores: what was said of an
  uninstall rests on the binary and the unit file being gone.
- `InstallationStartsAtBoot`: `Spec => []InstalledStartsAtBoot`, where a machine whose
  `update-rc.d` or `chkconfig` may fail has one of the directories or `rc.conf` to fall back
  on (`FallbackPlaces`). Without any of them the code warns and still reports success.
- `PidFileNamesService`: `Spec => []PidFileFindsService`.
- `ManualAgentIsAlone`: `Spec => []ManualRunsAlone`.
- `UpdateRunsNewBinary`: `Spec => UpdatedRunsNew`, an action property: between its steps the
  service may exit, come back and be rebooted, but never into an older binary than the
  one copied last.

`AgentRuntime_proofs`:

- `RuntimeTypeCorrect`: `Spec => []TypeOK`.
- `WhatIsServedIsListed`: `Spec => []ServedAreListed`, for any files, names, natives and
  number of workers: what erase and register leave depends on `table` alone
  (`RegisteredServes`).
- `LoneReloadsTellTruth`: `Spec => []ReloadTellsTruth`, by the conjunction of `Lone` (of
  two reloads neither is alone), `Bracketed` (what was there all the time is part of what
  was there at some time), `ScanSound` (what a scan found or will still come to covers
  what was there all the time) and `LoneTable` (the table is what a lone reload
  registered).

Only model-checked: liveness (`TrialResolved`, `FleetConverges`, `PolicyReached`,
`ServiceComesBack`) and `ENABLED`, which are out of the prover's reach, and
`UntriedHasFallback`, whose storage loses data and whose applier is killed alone: outside
`Sound`, on which the invariant of `SafeUpdate_proofs` rests. Every other property of the
passing runs is stated by a theorem.

## Plan

What is left, in order of importance; each with its module, its main property and its
theorem.

1. `StateDispatcher`: snapshot dispatch on the io thread against subscription and the
   teardown of `agent::stop`; no observer of a destroyed object runs. Composed with the
   watchdog's and the poller's `on_state`.
2. `SafeUpdate`: an update copied in place by the service menu during a trial.
3. The user services of systemd and launchd, and the tests channels of the release scripts.

## Not modelled

Parsing of arguments, JSON, JWT and manifests, HTTP, TLS and certificates, token
encryption, console output and host information are conversions and I/O with no state of
their own; where a property needs one it is an outcome (a request that fails, a manifest
that is invalid, a certificate that cannot be verified). `getUserChoice` reads for ever
from a closed terminal (`console.cpp:270`); the models have a user who answers. Android is
left out of the updater (`apply_with_watchdog` refuses there) and of the installers. The
length and jitter of the poller's delays, and the clamping of the intervals, are left out.

Directory entries are taken to be durable once changed: an unlink or a rename that a power
cut takes back is not modelled (the removals of `update_watchdog.cpp:36` are not followed
by an fsync). The IOTMP client is external: the models use the client states it reports,
`after_response`, the session count, the delivery of a property and posted work, as `src/`
uses them. The teardown in `agent::stop` is one step: that it destroys the watchdog and the
extensions before it stops the client whose threads call them (`agent.cpp:109`), and that
the dispatcher calls a snapshot of observers, are lifetime errors that no state of the
models shows.

The manual update of the service menu copies over the binary while a trial's marker and
backup may be there (`service_manager.cpp:449`): the next boot judges the copied binary by
them. `ServiceLifecycle` has no trials and `SafeUpdate` no manual update.

What an uninstall leaves of a trial (`.prev`, `update.state`, `update.reverted` and their
directory) is not followed into the next installation, whose first boot would judge it.

Monitoring is not modelled: its counters are readings of the kernel that feed no decision.
Unsigned deltas wrap when a counter goes back (`monitoring.cpp:154`) or an interface
disappears (`monitoring.cpp:496`), and the disk paths are replaced while `collect_disk`
iterates over them. Scripts are modelled as names; running one and its `describe` output
touch no state of the agent.

CDN caching and the tests channels of the release scripts are left out. The installer
script, the build and the packaging run once, by hand or in CI.
