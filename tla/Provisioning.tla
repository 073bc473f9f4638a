---------------------------- MODULE Provisioning ----------------------------
(***************************************************************************)
(* How machines get their credentials, and what that leaves on the server. *)
(*                                                                         *)
(*   command line      install with a token or a password                 *)
(*   interactive setup browser (DeviceFlow), password, token or typed      *)
(*                     credentials, the conflict menu, the connection test *)
(*   auth_manager      provision_device, delete_device, TLS with the       *)
(*                     callback that asks                                  *)
(*                                                                         *)
(* All machines use one account of one server.  A request is one step: the *)
(* server does it or refuses it, and the agent hears the answer or gets an *)
(* exception.  Each provision_device call makes credentials that nobody    *)
(* else holds; a token stands for them.  What else an install does on the  *)
(* account, its product and its alarm rules, is in AccountSetup: it fails  *)
(* without stopping the install.                                           *)
(***************************************************************************)
EXTENDS DeviceFlow, FiniteSets

CONSTANTS
  Machine,      \* each runs one command at a time
  Interactive,  \* those of them with a user at a terminal
  DeviceId,     \* identifiers a device may be given
  NTokens,      \* tokens, enough that one is always held by nobody
  Commands,     \* of "token", "password", "setup"
  Faults,       \* of "refused", "lost" (before the server) and "unheard" (after it)
  NoConfig      \* a machine without a config file

ASSUME ProvisioningAssumption ==
  /\ Interactive \subseteq Machine
  /\ IsFiniteSet(Machine) /\ IsFiniteSet(DeviceId) /\ DeviceId # {}
  /\ NTokens \in Nat /\ NTokens > Cardinality(DeviceId) + 2 * Cardinality(Machine)
  /\ Commands \subseteq {"token", "password", "setup"}
  /\ Faults \subseteq {"refused", "lost", "unheard"}

VARIABLES
  trusted,   \* the machines can verify the server's certificate
  record,    \* the token the server accepts for each device, 0 without a record
  cmd,       \* the command each machine runs
  config,    \* the config file of each machine
  \* history, read by no step
  said       \* what the user of each machine was told last: "ok", or nothing good;
             \* "taken" if another machine deleted the device since

vars == <<flow, trusted, record, cmd, config, said>>

-----------------------------------------------------------------------------
Tokens == 1 .. NTokens

Outcomes == {"ok", "refused", "lost", "unheard"}

Steps == {"idle", "menu", "retry", "browser", "auth", "post", "conflict", "delete", "repost",
          "rename", "provisioned", "save"}

\* The steps at which a request is sent.
Requests == {"auth", "post", "delete", "repost"}

\* force  --overwrite            ssl    "none" where no callback is set
\* got    the token provisioned  taken  (history) another machine deleted the device
CommandRecords ==
  [at : Steps, op : {"none", "token", "password", "setup"}, id : DeviceId, force : BOOLEAN,
   ssl : {"none", "unasked", "accepted", "rejected"}, got : 0 .. NTokens, taken : BOOLEAN]

NoCommand == [at |-> "idle", op |-> "none", id |-> CHOOSE d \in DeviceId : TRUE,
              force |-> FALSE, ssl |-> "none", got |-> 0, taken |-> FALSE]

\* token is 0 in credentials typed by hand.
Configs == [id : DeviceId, token : 0 .. NTokens, verify : BOOLEAN] \cup {NoConfig}

\* Every variable keeps its type.
TypeOK ==
  /\ FlowTypeOK
  /\ trusted \in BOOLEAN
  /\ record \in [DeviceId -> 0 .. NTokens]
  /\ cmd \in [Machine -> CommandRecords]
  /\ config \in [Machine -> Configs]
  /\ said \in [Machine -> {"failed", "ok", "taken"}]

Init ==
  /\ FlowInit
  /\ trusted \in BOOLEAN
  /\ record = [d \in DeviceId |-> 0]
  /\ cmd = [m \in Machine |-> NoCommand]
  /\ config = [m \in Machine |-> NoConfig]
  /\ said = [m \in Machine |-> "failed"]

-----------------------------------------------------------------------------
(* Requests.                                                                *)

Goto(m, step) == cmd' = [cmd EXCEPT ![m].at = step]

\* With no answer to a certificate question yet, the setup's callback asks.
MustAsk(m) == ~trusted /\ cmd[m].ssl = "unasked"

\* Whether a request gets through, over a connection verified or accepted as it is.
Reached(m) == trusted \/ cmd[m].ssl = "accepted"

\* The outcomes of a request.
Answers(m) == IF Reached(m) THEN {"ok"} \cup Faults ELSE {"lost"}
Done(o) == o \in {"ok", "unheard"}

\* The callback of the setup asks once in a session, whatever the answer.
AskCertificate(m) ==
  /\ cmd[m].at \in Requests /\ MustAsk(m)
  /\ \E answer \in {"accepted", "rejected"} : cmd' = [cmd EXCEPT ![m].ssl = answer]
  /\ UNCHANGED <<flow, trusted, record, config, said>>

Sends(m, step) == cmd[m].at = step /\ ~MustAsk(m)

\* A command that provisions is over.
Ends(m, result) ==
  /\ cmd' = [cmd EXCEPT ![m] = NoCommand]
  /\ said' = [said EXCEPT ![m] = IF result = "ok" /\ cmd[m].taken THEN "taken" ELSE result]

\* The command line gives up where the setup offers its menu.
GivesUp(m) ==
  IF cmd[m].op = "setup" THEN Goto(m, "retry") /\ UNCHANGED said ELSE Ends(m, "failed")

-----------------------------------------------------------------------------
(* The commands.                                                            *)

\* handle_install up to its first request.  A second install needs --overwrite and
\* a token.
Install(m, op, id, force) ==
  /\ cmd[m].at = "idle" /\ op \in Commands
  /\ op = "password" => m \in Interactive
  /\ config[m] = NoConfig \/ (force /\ op = "token")
  /\ said' = [said EXCEPT ![m] = "failed"]
  /\ cmd' = [cmd EXCEPT ![m] = [NoCommand EXCEPT
       !.at = IF op = "token" THEN "post" ELSE "auth", !.op = op,
       !.id = id, !.force = force]]
  /\ UNCHANGED <<flow, trusted, record, config>>

\* The setup runs on a machine without a config file; reconfigure removes it first.
Setup(m) ==
  /\ cmd[m].at = "idle" /\ "setup" \in Commands /\ m \in Interactive
  /\ cmd' = [cmd EXCEPT ![m] = [NoCommand EXCEPT
       !.at = "menu", !.op = "setup", !.ssl = "unasked"]]
  /\ config' = [config EXCEPT ![m] = NoConfig]
  /\ said' = [said EXCEPT ![m] = "failed"]
  /\ UNCHANGED <<flow, trusted, record>>

\* select_auth_method and the questions that follow it; one browser flow at a time.
ChooseMethod(m) ==
  /\ cmd[m].at = "menu"
  /\ \/ StartFlow /\ Goto(m, "browser")
     \/ \E id \in DeviceId, step \in {"auth", "post", "save"} :
          /\ cmd' = [cmd EXCEPT ![m].at = step, ![m].id = id]
          /\ UNCHANGED flow
  /\ UNCHANGED <<trusted, record, config, said>>

\* The menu of authenticate() after an exception.
Retry(m) ==
  /\ cmd[m].at = "retry"
  /\ \/ Goto(m, "menu") /\ UNCHANGED said
     \/ Ends(m, "failed")
  /\ UNCHANGED <<flow, trusted, record, config>>

\* device_flow_auth: while the flow is under way, and when it has ended.
Browse(m) ==
  /\ cmd[m].at = "browser" /\ flow.at # "done"
  /\ FlowStep
  /\ UNCHANGED <<trusted, record, cmd, config, said>>

Browsed(m) ==
  /\ cmd[m].at = "browser" /\ flow.at = "done"
  /\ flow' = Idle
  /\ \E id \in DeviceId :
       cmd' = [cmd EXCEPT ![m].id = id,
                 ![m].at = IF flow.result = "granted" THEN "post" ELSE "retry"]
  /\ UNCHANGED <<trusted, record, config, said>>

\* oauth_password_flow.
Authenticate(m) ==
  /\ Sends(m, "auth")
  /\ \E o \in Answers(m) :
       IF o = "ok" THEN Goto(m, "post") /\ UNCHANGED said ELSE GivesUp(m)
  /\ UNCHANGED <<flow, trusted, record, config>>

-----------------------------------------------------------------------------
(* Devices: complete_provisioning and provision_with_conflict_loop.         *)

Held == {record[d] : d \in DeviceId} \cup {cmd[m].got : m \in Machine}
          \cup {config[m].token : m \in {n \in Machine : config[n] # NoConfig}}

\* generate_device_credentials.
Fresh == CHOOSE t \in Tokens \ Held : \A u \in Tokens \ Held : t <= u

\* provision_device.  A device that has a record is a conflict (409) and is left.
Post(m, o) ==
  record' = IF Done(o) /\ record[cmd[m].id] = 0
            THEN [record EXCEPT ![cmd[m].id] = Fresh] ELSE record

Provisioned(m) ==
  /\ cmd' = [cmd EXCEPT ![m].got = Fresh,
                        ![m].at = IF cmd[m].op = "setup" THEN "provisioned" ELSE "save"]
  /\ UNCHANGED said

Conflict_ignored(m) == Provisioned(m)   \* mutant: the existing device is taken for ours

\* A 409 at the first attempt.
Conflict(m) ==
  IF cmd[m].op = "setup" THEN Goto(m, "conflict") /\ UNCHANGED said
  ELSE IF cmd[m].force THEN Goto(m, "delete") /\ UNCHANGED said
  ELSE Ends(m, "failed")

Provision(m) ==
  /\ Sends(m, "post")
  /\ \E o \in Answers(m) :
       /\ Post(m, o)
       /\ IF o = "ok" /\ record[cmd[m].id] = 0 THEN Provisioned(m)
          ELSE IF o = "ok" THEN Conflict(m)
          ELSE GivesUp(m)
  /\ UNCHANGED <<flow, trusted, config>>

\* handle_device_conflict: another identifier, overwrite, or back (which cancels).
ResolveConflict(m) ==
  /\ cmd[m].at = "conflict"
  /\ \/ \E step \in {"rename", "delete"} : Goto(m, step) /\ UNCHANGED said
     \/ Ends(m, "failed")
  /\ UNCHANGED <<flow, trusted, record, config>>

Rename(m) ==
  /\ cmd[m].at = "rename"
  /\ \E id \in DeviceId : cmd' = [cmd EXCEPT ![m].id = id, ![m].at = "post"]
  /\ UNCHANGED <<flow, trusted, record, config, said>>

\* (history) What the deletion of token t by m means for the other machines.
Taken(n, t) == [cmd[n] EXCEPT !.taken = @ \/ (t # 0 /\ cmd[n].got = t)]
SaidAfter(m, t) ==
  [n \in Machine |-> IF n # m /\ said[n] = "ok" /\ config[n] # NoConfig /\ t # 0
                          /\ config[n].token = t THEN "taken" ELSE said[n]]

\* delete_device; the command line does not look at its result.
Deleted(m, step, t) ==
  cmd' = [n \in Machine |-> IF n = m THEN [cmd[m] EXCEPT !.at = step] ELSE Taken(n, t)]

DeleteDevice(m) ==
  LET t == record[cmd[m].id]
      setup == cmd[m].op = "setup"
  IN
  /\ Sends(m, "delete")
  /\ \E o \in Answers(m) :
       LET hit == IF Done(o) THEN t ELSE 0 IN
       /\ record' = IF Done(o) THEN [record EXCEPT ![cmd[m].id] = 0] ELSE record
       /\ IF o \in {"lost", "unheard"} /\ ~setup
          THEN /\ cmd' = [n \in Machine |-> IF n = m THEN NoCommand ELSE Taken(n, hit)]
               /\ said' = [SaidAfter(m, hit) EXCEPT ![m] = "failed"]
          ELSE /\ Deleted(m, CASE o \in {"lost", "unheard"} -> "retry"
                               [] ~setup \/ (o = "ok" /\ t # 0) -> "repost"
                               [] OTHER -> "rename", hit)
               /\ said' = SaidAfter(m, hit)
  /\ UNCHANGED <<flow, trusted, config>>

\* The second attempt, with credentials of its own.
Reprovision(m) ==
  /\ Sends(m, "repost")
  /\ \E o \in Answers(m) :
       /\ Post(m, o)
       /\ IF o = "ok" /\ record[cmd[m].id] = 0 THEN Provisioned(m)
          ELSE IF cmd[m].op = "setup" /\ o \in {"ok", "refused"}
          THEN Goto(m, "rename") /\ UNCHANGED said
          ELSE GivesUp(m)
  /\ UNCHANGED <<flow, trusted, config>>

-----------------------------------------------------------------------------
(* What is done with the credentials.                                       *)

\* The setup's answer on the certificate, or --no-verify-ssl.
VerifyChoices(m) == IF cmd[m].op = "setup" THEN {cmd[m].ssl # "accepted"} ELSE BOOLEAN

\* save_and_install_service, install_as_service and save_configuration_only: the
\* file is written, and installing the service may fail after that.
Save(m) ==
  /\ cmd[m].at = "save"
  /\ \E verify \in VerifyChoices(m) :
       config' = [config EXCEPT ![m] = [id |-> cmd[m].id, token |-> cmd[m].got,
                                        verify |-> verify]]
  /\ \E result \in {"ok", "failed"} : Ends(m, result)
  /\ UNCHANGED <<flow, trusted, record>>

\* The setup goes on to save, or its test_connection first runs an agent on the
\* credentials as they are, which verify the server's certificate.
Test(m) ==
  /\ cmd[m].at = "provisioned"
  /\ \/ Goto(m, "save") /\ UNCHANGED said
     \/ /\ trusted /\ record[cmd[m].id] = cmd[m].got
        /\ Ends(m, "ok")
     \/ Ends(m, "failed")
  /\ UNCHANGED <<flow, trusted, record, config>>

-----------------------------------------------------------------------------
Runs(m) ==
  \/ \E op \in {"token", "password"}, id \in DeviceId, force \in BOOLEAN :
       Install(m, op, id, force)
  \/ Setup(m) \/ ChooseMethod(m) \/ Retry(m) \/ Browse(m) \/ Browsed(m)
  \/ AskCertificate(m) \/ Authenticate(m)
  \/ Provision(m) \/ ResolveConflict(m) \/ Rename(m) \/ DeleteDevice(m) \/ Reprovision(m)
  \/ Save(m) \/ Test(m)

Next == \E m \in Machine : Runs(m)

Spec == Init /\ [][Next]_vars

-----------------------------------------------------------------------------
(* Properties.                                                              *)

\* A machine whose user was told that it is set up can connect: the server accepts
\* the credentials in its file, and it can verify the server or was told not to;
\* short of another machine that deleted its device since.
AcceptedOnceSaved ==
  \A m \in Machine :
    said[m] = "ok" /\ config[m] # NoConfig /\ config[m].token # 0 =>
    /\ record[config[m].id] = config[m].token
    /\ config[m].verify => trusted
=============================================================================
