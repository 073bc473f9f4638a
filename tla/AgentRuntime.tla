---------------------------- MODULE AgentRuntime ----------------------------
(***************************************************************************)
(* What a running agent does for the cloud beside its update trial:        *)
(*                                                                         *)
(*   apply_config    the "config" property: the remote update policy       *)
(*   scripts         executable files served as resources, rescanned by    *)
(*                   $scripts/reload                                       *)
(*                                                                         *)
(* The io thread handles configurations and changes the resources, worker  *)
(* threads run the handlers of resources.  The cloud, the IOTMP client and *)
(* the scripts directory are external.  What a poll cycle makes of the     *)
(* policy is in UpdateSettings, and of an update in SafeUpdate.            *)
(***************************************************************************)
EXTENDS Naturals, Sequences, FiniteSets

CONSTANTS
  File,        \* executable files that may be in the scripts directory
  Stem,        \* their names without extension
  Early, Late, \* native resources registered before and after the scripts
  Worker,      \* threads of the client's pool
  MaxEdits, MaxConfigs,  \* bounds on changes of the directory and in the cloud
  None

Names == {Stem[f] : f \in File} \cup Early \cup Late

\* What a configuration says of the update policy: "absent" is no update section, "bad"
\* one that cannot be used.  No configuration, or one that is no object, has the effect
\* of an absent section.
Configs == {"absent", "bad", "auto", "managed"}

ASSUME RuntimeAssumption ==
  /\ Early \cap Late = {}
  /\ "native" \notin File /\ None \notin File
  /\ MaxEdits \in Nat /\ MaxConfigs \in Nat

VARIABLES
  cloud,     \* the configuration the cloud holds, and how often it changed
  inbox,     \* configurations on their way
  connected, \* STREAMS_READY
  override,  \* the remote policy, None without
  dir,       \* the scripts directory, and how often it changed
  resources, \* what each name is registered to: "native", a script, or None
  table,     \* scripts_
  worker     \* the reload each worker thread carries out

remote == <<cloud, inbox, connected, override>>
scripts == <<dir, resources, table, worker>>
vars == <<remote, scripts>>

Free == [at |-> "free", todo |-> {}, found |-> {}, kept |-> {}, seen |-> {}, alone |-> TRUE]

\* Every variable keeps its type.
TypeOK ==
  /\ cloud \in [config : Configs, changes : 0 .. MaxConfigs]
  /\ inbox \in Seq(Configs) /\ connected \in BOOLEAN
  /\ override \in {None, "auto", "managed"}
  /\ dir \in [files : SUBSET File, edits : 0 .. MaxEdits]
  /\ resources \in [Names -> File \cup {"native", None}] /\ table \subseteq File
  /\ worker \in [Worker -> [at : {"free", "scan", "posted", "answered"}, todo : SUBSET File,
                            found : SUBSET File, kept : SUBSET File, seen : SUBSET File,
                            alone : BOOLEAN]]

-----------------------------------------------------------------------------
(* The configuration.                                                       *)

OverrideAfter_sticky(c) ==   \* mutant: no update section leaves the override alone
  IF c \in {"auto", "managed"} THEN c ELSE override

OverrideAfter_unchecked(c) ==   \* mutant: an invalid policy is taken over
  IF c = "absent" THEN None ELSE c

\* No update section clears the override, a bad one leaves it.
OverrideAfter(c) ==
  CASE c = "absent" -> None
    [] c = "bad"    -> override
    [] OTHER               -> c

\* The cloud changes the property, and sends it to a device that has subscribed.
Configure(c) ==
  /\ cloud.changes < MaxConfigs /\ c # cloud.config
  /\ cloud' = [config |-> c, changes |-> cloud.changes + 1]
  /\ inbox' = IF connected THEN Append(inbox, c) ELSE inbox
  /\ UNCHANGED <<connected, override, scripts>>

\* The stream is subscribed to, and sends the present value.
Connect ==
  /\ ~connected
  /\ connected' = TRUE /\ inbox' = <<cloud.config>>
  /\ UNCHANGED <<cloud, override, scripts>>

Disconnect ==
  /\ connected
  /\ connected' = FALSE /\ inbox' = <<>>
  /\ UNCHANGED <<cloud, override, scripts>>

\* set_input's handler with apply_config.
HandleConfig ==
  /\ inbox # <<>>
  /\ override' = OverrideAfter(Head(inbox))
  /\ inbox' = Tail(inbox)
  /\ UNCHANGED <<cloud, connected, scripts>>

-----------------------------------------------------------------------------
(* Scripts.                                                                 *)

StemsOf(files) == {Stem[f] : f \in files}

\* The last one registered wins a name; files come in any order.
Served(files, n) == {f \in files : Stem[f] = n}

Registered_kept(files, old, base) ==   \* mutant: a reload erases nothing
  {r \in [Names -> File \cup {"native", None}] :
     \A n \in Names : IF n \in StemsOf(files) THEN r[n] \in Served(files, n) ELSE r[n] = base[n]}

\* What the resources can be after the scripts `old` are erased by name, and `files`
\* registered over whatever has their names.
Registered(files, old, base) ==
  {r \in [Names -> File \cup {"native", None}] :
     \A n \in Names : IF n \in StemsOf(files) THEN r[n] \in Served(files, n)
                      ELSE r[n] = IF n \in StemsOf(old) THEN None ELSE base[n]}

Natives == [n \in Names |-> IF n \in Early \cup Late THEN "native" ELSE None]

\* A new process: the scripts are registered after the early natives, and the late
\* natives over them.
BootResources(files) ==
  {[n \in Names |-> IF n \in Late THEN "native" ELSE r[n]] : r \in Registered(files, {}, Natives)}

Edit(f) ==
  /\ dir.edits < MaxEdits
  /\ LET files == IF f \in dir.files THEN dir.files \ {f} ELSE dir.files \cup {f} IN
       /\ dir' = [files |-> files, edits |-> dir.edits + 1]
       /\ worker' = [w \in Worker |->
            [worker[w] EXCEPT !.kept = IF worker[w].at = "free" THEN @ ELSE @ \cap files,
                              !.seen = IF worker[w].at = "free" THEN @ ELSE @ \cup files]]
  /\ UNCHANGED <<remote, resources, table>>

Reloading(w) == worker[w].at # "free"

\* A request for $scripts/reload.
BeginReload(w) ==
  /\ connected /\ worker[w].at = "free"
  /\ LET alone == \A v \in Worker : ~Reloading(v) IN
       worker' = [v \in Worker |->
         CASE v = w -> [at |-> "scan", todo |-> File, found |-> {}, kept |-> dir.files,
                        seen |-> dir.files, alone |-> alone]
           [] v # w /\ Reloading(v) -> [worker[v] EXCEPT !.alone = FALSE]
           [] OTHER -> worker[v]]
  /\ UNCHANGED <<remote, dir, resources, table>>

FoundAt_cached(f, found) ==   \* mutant: scripts that are known are not looked for again
  IF f \in dir.files \cup table THEN found \cup {f} ELSE found

FoundAt(f, found) == IF f \in dir.files THEN found \cup {f} ELSE found

\* scan_directory comes to f, with run_describe up to two seconds after the last.
ScanFile(w, f) ==
  /\ worker[w].at = "scan" /\ f \in worker[w].todo
  /\ worker' = [worker EXCEPT ![w].todo = @ \ {f}, ![w].found = FoundAt(f, @)]
  /\ UNCHANGED <<remote, dir, resources, table>>

\* client.run: the io thread replaces the scripts, under the mutex.
Register(w) ==
  /\ worker[w].at = "scan" /\ worker[w].todo = {}
  /\ resources' \in Registered(worker[w].found, table, resources)
  /\ table' = worker[w].found
  /\ worker' = [worker EXCEPT ![w].at = "posted"]
  /\ UNCHANGED <<remote, dir>>

\* info(): the answer lists scripts_, which another reload may have replaced.
Answer(w) ==
  /\ worker[w].at = "posted"
  /\ worker' = [worker EXCEPT ![w].at = "answered", ![w].found = table]
  /\ UNCHANGED <<remote, dir, resources, table>>

Finish(w) ==
  /\ worker[w].at = "answered"
  /\ worker' = [worker EXCEPT ![w] = Free]
  /\ UNCHANGED <<remote, dir, resources, table>>

-----------------------------------------------------------------------------
(* The process.                                                             *)

\* The process ends, however it does, and the init system starts it again.
Restart ==
  /\ inbox' = <<>> /\ connected' = FALSE /\ override' = None
  /\ table' = dir.files /\ resources' \in BootResources(dir.files)
  /\ worker' = [w \in Worker |-> Free]
  /\ UNCHANGED <<cloud, dir>>

Init ==
  /\ cloud \in [config : Configs, changes : {0}]
  /\ inbox = <<>> /\ connected = FALSE /\ override = None
  /\ dir \in [files : SUBSET File, edits : {0}]
  /\ table = dir.files /\ resources \in BootResources(dir.files)
  /\ worker = [w \in Worker |-> Free]

ScriptStep ==
  \/ \E f \in File : Edit(f)
  \/ \E w \in Worker : BeginReload(w) \/ Register(w) \/ Answer(w) \/ Finish(w)
  \/ \E w \in Worker, f \in File : ScanFile(w, f)

ConfigStep ==
  \/ \E c \in Configs : Configure(c)
  \/ Connect \/ Disconnect \/ HandleConfig

Next == ScriptStep \/ ConfigStep \/ Restart

Spec == Init /\ [][Next]_vars

\* The io thread handles what has arrived; the cloud, the connection and the callers
\* of $scripts/reload owe nothing.
FairSpec == Spec /\ WF_vars(HandleConfig)

-----------------------------------------------------------------------------
(* Properties.                                                              *)

\* Requests find the scripts that $scripts/info lists and no other: a name is served
\* by a script only if it is in scripts_, and every listed name by one of its files,
\* whatever reloads run at the same time (scripts::reload, erase and register).
\* Only natives registered after the scripts may hide one.
ServedAreListed ==
  \A n \in Names :
    /\ resources[n] \in File => resources[n] \in Served(table, n)
    /\ n \in StemsOf(table) =>
         resources[n] \in File \cup (IF n \in Late THEN {"native"} ELSE {})

\* The answer of a reload that no other overlapped lists every script that was there
\* all the time and none that was never there (scan_directory, info).
ReloadTellsTruth ==
  \A w \in Worker : worker[w].at = "answered" /\ worker[w].alone =>
    worker[w].kept \subseteq worker[w].found /\ worker[w].found \subseteq worker[w].seen

\* An agent that stays connected comes to follow the policy the cloud holds, and to none
\* when the cloud has no update section any more, through restarts and lost connections
\* (apply_config, the subscription with the present value).
PolicyReached ==
  <>[]connected =>
    <>[](cloud.config # "bad" =>
           override = IF cloud.config = "absent" THEN None ELSE cloud.config)
=============================================================================
