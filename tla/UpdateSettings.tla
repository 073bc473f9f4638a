--------------------------- MODULE UpdateSettings ---------------------------
(***************************************************************************)
(* The update settings of a device: what config.json says of them, how the *)
(* commands that rewrite that file share it, and what the poll loop of the *)
(* running agent makes of it together with the remote override.            *)
(*                                                                         *)
(*   config_manager   save, write_update_section, read_update_section,     *)
(*                    remove                                               *)
(*   commands         update --policy, install, reconfigure and uninstall, *)
(*                    each in a process of its own                         *)
(*   agent            apply_config (the "config" property) and run_cycle   *)
(*                                                                         *)
(* A rewrite of the file is atomic (write_atomic); a read and the write    *)
(* that follows it are two steps, since file_mutex excludes the threads of *)
(* one process only.  Of the update section the policy and its source are  *)
(* kept; the channel and the two intervals travel with them.  Of the       *)
(* credentials only their age is kept.                                     *)
(***************************************************************************)
EXTENDS Naturals

CONSTANTS
  Command,     \* processes that run commands, one command at a time each
  Operations,  \* of "policy", "install", "reconfigure", "uninstall"
  MaxIssued,   \* bound on the credentials provisioned
  Mishaps      \* of "killed" (a command dies half way) and "setup_fails"

ASSUME OperationsAssumption ==
  Operations \subseteq {"policy", "install", "reconfigure", "uninstall"}
ASSUME MaxIssuedAssumption == MaxIssued \in Nat
ASSUME MishapsAssumption == Mishaps \subseteq {"killed", "setup_fails"}

VARIABLES
  file,    \* config.json
  cmd,     \* what each process is about to do, and what it has read
  remote,  \* remote_policy_ of the agent's poller, "none" if unset
  issued,  \* credentials provisioned so far
  \* history, read by no step
  chosen,  \* the policy the user last set, "none" if there is none
  saved,   \* the credentials saved last and not removed since, 0 if there are none
  parked   \* a reconfigure removed the section, and the choice is not back since

history == <<chosen, saved, parked>>
vars == <<file, cmd, remote, issued, history>>

-----------------------------------------------------------------------------
Policies == {"auto", "managed"}
Choices == Policies \cup {"none"}
Sources == {"local_explicit", "remote", "default"}
Settings == [policy : Policies, source : Sources]

\* update_settings as constructed, and a file without an update section.
Defaults == [policy |-> "auto", source |-> "default"]
NoSection == [policy |-> "none", source |-> "default"]
Sections == Settings \cup {NoSection}

\* device is 0 in a file that holds no credentials.
Files == [exists : BOOLEAN, device : 0 .. MaxIssued, update : Sections]
NoFile == [exists |-> FALSE, device |-> 0, update |-> NoSection]

Steps == {"idle", "remove", "setup", "save_read", "save_write", "saved",
          "check", "read", "write"}

\* op and arg are the command and the policy it was given, device the credentials
\* it saves, want the section it writes, kept the one it saved up, raw the file as
\* it read it.
Commands == [at : Steps, op : Operations \cup {"none"}, arg : Choices,
             device : 0 .. MaxIssued, want : Sections, kept : Sections, raw : Files]
NoCommand == [at |-> "idle", op |-> "none", arg |-> "none", device |-> 0,
              want |-> NoSection, kept |-> NoSection, raw |-> NoFile]

\* Every variable keeps its type.
TypeOK ==
  /\ file \in Files
  /\ cmd \in [Command -> Commands]
  /\ remote \in Choices
  /\ issued \in 0 .. MaxIssued
  /\ chosen \in Choices /\ saved \in 0 .. MaxIssued /\ parked \in BOOLEAN

Init ==
  /\ file = NoFile
  /\ cmd = [c \in Command |-> NoCommand]
  /\ remote = "none"
  /\ issued = 0
  /\ chosen = "none" /\ saved = 0 /\ parked = FALSE

-----------------------------------------------------------------------------
(* update_settings::from_json and effective_policy.                         *)

FromJson(section) == IF section = NoSection THEN Defaults ELSE section

\* mutant: the source of the local policy is not looked at
EffectivePolicy_anysource(local, override) ==
  IF override = "none" THEN local.policy ELSE override

EffectivePolicy(local, override) ==
  CASE override = "none"    -> local.policy
    [] override = "managed" -> "managed"
    [] OTHER                -> IF local = [policy |-> "managed", source |-> "local_explicit"]
                               THEN "managed" ELSE "auto"

\* What the next poll cycle goes by.
AgentPolicy == EffectivePolicy(FromJson(file.update), remote)

-----------------------------------------------------------------------------
(* config_manager, in a process that runs a command.                        *)

Goto(c, step) == cmd' = [cmd EXCEPT ![c].at = step]
Ends(c) == cmd' = [cmd EXCEPT ![c] = NoCommand]

\* write_update_section: the file must exist, is read, and is written with the
\* new section.  A read that finds no file yields an empty object.
WriteSectionCheck(c) ==
  /\ cmd[c].at = "check"
  /\ IF file.exists THEN Goto(c, "read") ELSE Ends(c)
  /\ UNCHANGED <<file, remote, issued, history>>

WriteSectionRead(c) ==
  /\ cmd[c].at = "read"
  /\ cmd' = [cmd EXCEPT ![c].raw = file, ![c].at = "write"]
  /\ UNCHANGED <<file, remote, issued, history>>

RewrittenFile_bare(c) ==   \* mutant: the other keys are not kept
  [exists |-> TRUE, device |-> 0, update |-> cmd[c].want]

RewrittenFile(c) == [exists |-> TRUE, device |-> cmd[c].raw.device, update |-> cmd[c].want]

\* The command ends with the write; what the user asked for is now on disk.
WriteSection(c) ==
  /\ cmd[c].at = "write"
  /\ file' = RewrittenFile(c)
  /\ chosen' = IF cmd[c].arg = "none" THEN chosen ELSE cmd[c].arg
  /\ parked' = (parked /\ cmd[c].want.policy # chosen')
  /\ Ends(c)
  /\ UNCHANGED <<remote, issued, saved>>

\* save: new credentials in a file that keeps its update section.
SaveRead(c) ==
  /\ cmd[c].at = "save_read"
  /\ cmd' = [cmd EXCEPT ![c].raw = file, ![c].at = "save_write"]
  /\ UNCHANGED <<file, remote, issued, history>>

SavedFile(c) == [exists |-> TRUE, device |-> cmd[c].device, update |-> cmd[c].raw.update]

SaveWrite(c) ==
  /\ cmd[c].at = "save_write"
  /\ file' = SavedFile(c)
  /\ Goto(c, "saved")
  /\ saved' = cmd[c].device
  /\ UNCHANGED <<remote, issued, chosen, parked>>

-----------------------------------------------------------------------------
(* The commands.                                                            *)

\* handle_update with --policy.
SetPolicy(c, p) ==
  /\ cmd[c].at = "idle" /\ "policy" \in Operations
  /\ file.exists
  /\ cmd' = [cmd EXCEPT ![c] = [NoCommand EXCEPT
       !.at = "check", !.op = "policy", !.arg = p,
       !.want = [policy |-> p, source |-> "local_explicit"]]]
  /\ UNCHANGED <<file, remote, issued, history>>

\* handle_install, once the device is provisioned; p is --update-policy, or none.
Install(c, p) ==
  /\ cmd[c].at = "idle" /\ "install" \in Operations
  /\ issued < MaxIssued
  /\ issued' = issued + 1
  /\ cmd' = [cmd EXCEPT ![c] = [NoCommand EXCEPT
       !.at = "save_read", !.op = "install", !.arg = p, !.device = issued + 1]]
  /\ UNCHANGED <<file, remote, history>>

PolicyToRecord_unasked(c) ==   \* mutant: recorded though no policy was given
  [policy |-> cmd[c].arg, source |-> "local_explicit"]

\* An explicit policy is recorded, a file without a section gets the defaults,
\* another one is left alone.
PolicyToRecord(c) ==
  CASE cmd[c].arg # "none"     -> [policy |-> cmd[c].arg, source |-> "local_explicit"]
    [] cmd[c].arg = "none" /\ file.update = NoSection -> Defaults
    [] OTHER                   -> NoSection

\* save_and_install_service after save.
InstallSaved(c) ==
  /\ cmd[c].at = "saved" /\ cmd[c].op = "install"
  /\ IF PolicyToRecord(c) = NoSection THEN Ends(c)
     ELSE cmd' = [cmd EXCEPT ![c].want = PolicyToRecord(c), ![c].at = "check"]
  /\ UNCHANGED <<file, remote, issued, history>>

\* handle_reconfigure: keep the section, remove the file, run the interactive
\* setup, put the section back.
Reconfigure(c) ==
  /\ cmd[c].at = "idle" /\ "reconfigure" \in Operations
  /\ cmd' = [cmd EXCEPT ![c] = [NoCommand EXCEPT
       !.at = IF file.exists THEN "remove" ELSE "setup",
       !.op = "reconfigure",
       !.kept = IF file.exists THEN file.update ELSE NoSection]]
  /\ UNCHANGED <<file, remote, issued, history>>

\* remove(), in reconfigure and in uninstall.
Remove(c) ==
  /\ cmd[c].at = "remove"
  /\ file' = NoFile /\ saved' = 0
  /\ IF cmd[c].op = "uninstall"
     THEN Ends(c) /\ chosen' = "none" /\ parked' = FALSE
     ELSE Goto(c, "setup") /\ parked' = TRUE /\ UNCHANGED chosen
  /\ UNCHANGED <<remote, issued>>

\* The setup provisions the device, or is left before that.
Setup(c) ==
  /\ cmd[c].at = "setup"
  /\ \/ /\ issued < MaxIssued
        /\ issued' = issued + 1
        /\ cmd' = [cmd EXCEPT ![c].at = "save_read", ![c].device = issued + 1]
     \/ /\ "setup_fails" \in Mishaps \/ issued = MaxIssued
        /\ Ends(c)
        /\ UNCHANGED issued
  /\ UNCHANGED <<file, remote, history>>

\* After the setup's save: its service installation fails and so does the setup,
\* or the section that was kept is written back.
SetupSaved(c) ==
  /\ cmd[c].at = "saved" /\ cmd[c].op = "reconfigure"
  /\ \/ "setup_fails" \in Mishaps /\ Ends(c)
     \/ /\ IF cmd[c].kept = NoSection \/ ~file.exists THEN Ends(c)
           ELSE cmd' = [cmd EXCEPT ![c].want = cmd[c].kept, ![c].at = "check"]
  /\ UNCHANGED <<file, remote, issued, history>>

\* remove_configuration_and_data.
Uninstall(c) ==
  /\ cmd[c].at = "idle" /\ "uninstall" \in Operations
  /\ file.exists
  /\ cmd' = [cmd EXCEPT ![c] = [NoCommand EXCEPT !.at = "remove", !.op = "uninstall"]]
  /\ UNCHANGED <<file, remote, issued, history>>

\* The process of a command ends before the command does.
Killed(c) ==
  /\ "killed" \in Mishaps
  /\ cmd[c].at # "idle"
  /\ Ends(c)
  /\ UNCHANGED <<file, remote, issued, history>>

\* apply_config: the property sets the override or, without an update key, clears
\* it.  A malformed one changes nothing.
SetRemotePolicy(p) ==
  /\ remote' = p
  /\ UNCHANGED <<file, cmd, issued, history>>

Runs(c) ==
  \/ \E p \in Policies : SetPolicy(c, p)
  \/ \E p \in Choices : Install(c, p)
  \/ Reconfigure(c) \/ Uninstall(c)
  \/ WriteSectionCheck(c) \/ WriteSectionRead(c) \/ WriteSection(c)
  \/ SaveRead(c) \/ SaveWrite(c) \/ InstallSaved(c)
  \/ Remove(c) \/ Setup(c) \/ SetupSaved(c)
  \/ Killed(c)

Next == (\E c \in Command : Runs(c)) \/ (\E p \in Choices : SetRemotePolicy(p))

Spec == Init /\ [][Next]_vars

-----------------------------------------------------------------------------
(* Properties.                                                              *)

\* A device whose user opted out of automatic updates does not poll for them,
\* whatever the cloud sets, whichever command rewrites the file next and wherever
\* it dies: short of the section being parked in the memory of a reconfigure.
OptOutHonoured == chosen = "managed" /\ ~parked => AgentPolicy = "managed"

\* Once no command runs, a user who opted out has not been flipped back to auto
\* by a reconfigure: handle_reconfigure says that it preserves the policy.  It does
\* so in memory only, and writes it back only after a setup that succeeded.
OptOutPreserved ==
  file.exists /\ (\A c \in Command : cmd[c].at = "idle") /\ chosen = "managed"
    => AgentPolicy = "managed"

\* The file holds the credentials that were provisioned and saved last, whichever
\* commands rewrote its update section since: the agent can load it and connect.
CredentialsKept == file.exists => file.device = saved /\ saved # 0
=============================================================================
