------------------------ MODULE AgentRuntime_proofs ------------------------
(***************************************************************************)
(* Proofs about AgentRuntime, for any files, names, workers and            *)
(* configurations: the types, that what is served is what is listed, and   *)
(* that the answer of a reload no other overlapped is true.                *)
(***************************************************************************)
EXTENDS AgentRuntime, TLAPS

\* A reload that is alone is the only one under way.
Lone ==
  \A v, w \in Worker : v # w /\ Reloading(v) /\ Reloading(w) => ~worker[v].alone

\* The bookkeeping of a reload: what was there all the time is there now, and what is
\* there now has been there.
Bracketed ==
  \A w \in Worker : Reloading(w) =>
    worker[w].kept \subseteq dir.files /\ dir.files \subseteq worker[w].seen

\* A scan that has not come to a file yet may still find it.
ScanSound ==
  \A w \in Worker : worker[w].at \in {"scan", "posted"} =>
    /\ worker[w].found \subseteq worker[w].seen
    /\ worker[w].kept \subseteq
         worker[w].found \cup (IF worker[w].at = "scan" THEN worker[w].todo ELSE {})

\* What a lone reload has registered is still what scripts_ holds.
LoneTable ==
  \A w \in Worker : worker[w].at = "posted" /\ worker[w].alone => table = worker[w].found

ReloadInv == Lone /\ Bracketed /\ ScanSound /\ LoneTable /\ ReloadTellsTruth

-----------------------------------------------------------------------------
(* Types.                                                                   *)

WorkerState == [at : {"free", "scan", "posted", "answered"}, todo : SUBSET File,
                found : SUBSET File, kept : SUBSET File, seen : SUBSET File,
                alone : BOOLEAN]

\* What the registration of scripts can make of the resources is a map of the names.
LEMMA RegisteredType ==
  ASSUME NEW files, NEW old, NEW base, NEW r \in Registered(files, old, base)
  PROVE  r \in [Names -> File \cup {"native", None}]
BY DEF Registered

\* The resources of a new process are a map of the names.
LEMMA BootType ==
  ASSUME NEW files, NEW r \in BootResources(files)
  PROVE  r \in [Names -> File \cup {"native", None}]
<1>1. PICK q \in Registered(files, {}, Natives) :
        r = [n \in Names |-> IF n \in Late THEN "native" ELSE q[n]]
  BY DEF BootResources
<1>2. q \in [Names -> File \cup {"native", None}]
  BY RegisteredType
<1> QED BY <1>1, <1>2

\* An agent that starts has its types (agent::run).
LEMMA InitType == Init => TypeOK
<1> SUFFICES ASSUME Init PROVE TypeOK
  OBVIOUS
<1>1. resources \in [Names -> File \cup {"native", None}]
  BY BootType DEF Init
<1>2. inbox \in Seq(Configs)
  BY DEF Init
<1>3. \A w \in Worker : worker[w] = Free
  BY DEF Init
<1>4. worker \in [Worker -> WorkerState]
  BY DEF Init, Free, WorkerState
<1>5. /\ cloud \in [config : Configs, changes : 0 .. MaxConfigs]
      /\ dir \in [files : SUBSET File, edits : 0 .. MaxEdits]
  BY RuntimeAssumption DEF Init
<1>6. /\ connected \in BOOLEAN /\ override \in {None, "auto", "managed"}
      /\ table \subseteq File
  BY <1>5 DEF Init
<1> QED BY <1>1, <1>2, <1>4, <1>5, <1>6 DEF TypeOK, WorkerState

\* A configuration keeps the types of what it changes (apply_config).
LEMMA ConfigType ==
  ASSUME TypeOK, ConfigStep
  PROVE  TypeOK'
<1> USE DEF TypeOK
<1>1. ASSUME NEW c \in Configs, Configure(c) PROVE TypeOK'
  <2>1. cloud' \in [config : Configs, changes : 0 .. MaxConfigs]
    BY <1>1, RuntimeAssumption DEF Configure
  <2>2. inbox' \in Seq(Configs)
    BY <1>1 DEF Configure
  <2> QED BY <1>1, <2>1, <2>2 DEF Configure, scripts
<1>2. ASSUME Connect PROVE TypeOK'
  <2>1. inbox' \in Seq(Configs)
    BY <1>2 DEF Connect
  <2> QED BY <1>2, <2>1 DEF Connect, scripts
<1>3. ASSUME Disconnect PROVE TypeOK'
  <2>1. inbox' \in Seq(Configs)
    BY <1>3 DEF Disconnect
  <2> QED BY <1>3, <2>1 DEF Disconnect, scripts
<1>4. ASSUME HandleConfig PROVE TypeOK'
  <2>1. Head(inbox) \in Configs
    BY <1>4 DEF HandleConfig
  <2>2. override' \in {None, "auto", "managed"}
    BY <1>4, <2>1 DEF HandleConfig, OverrideAfter, Configs
  <2>3. inbox' \in Seq(Configs)
    BY <1>4 DEF HandleConfig
  <2> QED BY <1>4, <2>2, <2>3 DEF HandleConfig, scripts
<1> QED BY <1>1, <1>2, <1>3, <1>4 DEF ConfigStep

\* A change of the directory and each step of a reload keep the types (scripts::reload).
LEMMA ScriptType ==
  ASSUME TypeOK, ScriptStep
  PROVE  TypeOK'
<1>w. worker \in [Worker -> WorkerState]
  BY DEF TypeOK, WorkerState
<1>k. ASSUME UNCHANGED remote, dir' \in [files : SUBSET File, edits : 0 .. MaxEdits],
             resources' \in [Names -> File \cup {"native", None}], table' \subseteq File,
             worker' \in [Worker -> WorkerState]
      PROVE  TypeOK'
  BY <1>k DEF TypeOK, remote, WorkerState
<1>1. ASSUME NEW f \in File, Edit(f) PROVE TypeOK'
  <2>1. dir' \in [files : SUBSET File, edits : 0 .. MaxEdits]
    <3>1. PICK files \in SUBSET File : dir' = [files |-> files, edits |-> dir.edits + 1]
      BY <1>1 DEF Edit, TypeOK
    <3>2. dir.edits \in 0 .. MaxEdits /\ dir.edits < MaxEdits
      BY <1>1 DEF Edit, TypeOK
    <3>3. dir.edits + 1 \in 0 .. MaxEdits
      BY <3>2, RuntimeAssumption
    <3> QED BY <3>1, <3>3
  <2>2. worker' \in [Worker -> WorkerState]
    <3>1. PICK files \in SUBSET File :
            worker' = [w \in Worker |->
              [worker[w] EXCEPT !.kept = IF worker[w].at = "free" THEN @ ELSE @ \cap files,
                                !.seen = IF worker[w].at = "free" THEN @ ELSE @ \cup files]]
      <4>1. dir.files \subseteq File
        BY DEF TypeOK
      <4> QED BY <1>1, <4>1 DEF Edit
    <3> DEFINE after(w) ==
           [worker[w] EXCEPT !.kept = IF worker[w].at = "free" THEN @ ELSE @ \cap files,
                             !.seen = IF worker[w].at = "free" THEN @ ELSE @ \cup files]
    <3>2. ASSUME NEW w \in Worker PROVE after(w) \in WorkerState
      <4>1. worker[w] \in WorkerState
        BY <1>w
      <4> QED BY <4>1 DEF WorkerState
    <3>3. worker' = [w \in Worker |-> after(w)]
      BY <3>1
    <3> QED BY <3>2, <3>3
  <2> QED BY <1>1, <1>k, <2>1, <2>2 DEF Edit, TypeOK
<1>2. ASSUME NEW w \in Worker, BeginReload(w) PROVE TypeOK'
  <2>1. PICK alone \in BOOLEAN :
          worker' = [v \in Worker |->
            CASE v = w -> [at |-> "scan", todo |-> File, found |-> {}, kept |-> dir.files,
                           seen |-> dir.files, alone |-> alone]
              [] v # w /\ Reloading(v) -> [worker[v] EXCEPT !.alone = FALSE]
              [] OTHER -> worker[v]]
    BY <1>2 DEF BeginReload
  <2>2. dir.files \subseteq File
    BY DEF TypeOK
  <2>3. [at |-> "scan", todo |-> File, found |-> {}, kept |-> dir.files,
         seen |-> dir.files, alone |-> alone] \in WorkerState
    BY <2>2 DEF WorkerState
  <2>4. \A v \in Worker : [worker[v] EXCEPT !.alone = FALSE] \in WorkerState
    BY <1>w DEF WorkerState
  <2>5. worker' \in [Worker -> WorkerState]
    BY <2>1, <2>3, <2>4, <1>w
  <2> QED BY <1>2, <1>k, <2>5 DEF BeginReload, TypeOK
<1>3. ASSUME NEW w \in Worker, Register(w) PROVE TypeOK'
  <2>1. worker' \in [Worker -> WorkerState]
    BY <1>3, <1>w DEF Register, WorkerState
  <2>2. resources' \in [Names -> File \cup {"native", None}]
    BY <1>3, RegisteredType DEF Register
  <2>3. table' \subseteq File
    BY <1>3, <1>w DEF Register, WorkerState
  <2> QED BY <1>3, <1>k, <2>1, <2>2, <2>3 DEF Register, TypeOK
<1>4. ASSUME NEW w \in Worker, Answer(w) PROVE TypeOK'
  <2>1. table \subseteq File
    BY DEF TypeOK
  <2>2. [worker[w] EXCEPT !.at = "answered", !.found = table] \in WorkerState
    BY <1>w, <2>1 DEF WorkerState
  <2>3. worker' = [worker EXCEPT ![w] = [worker[w] EXCEPT !.at = "answered", !.found = table]]
    BY <1>4 DEF Answer
  <2>4. worker' \in [Worker -> WorkerState]
    BY <1>w, <2>2, <2>3
  <2> QED BY <1>4, <1>k, <2>4 DEF Answer, TypeOK
<1>5. ASSUME NEW w \in Worker, Finish(w) PROVE TypeOK'
  <2>1. worker' \in [Worker -> WorkerState]
    BY <1>5, <1>w DEF Finish, Free, WorkerState
  <2> QED BY <1>5, <1>k, <2>1 DEF Finish, TypeOK
<1>6. ASSUME NEW w \in Worker, NEW f \in File, ScanFile(w, f) PROVE TypeOK'
  <2> DEFINE found == FoundAt(f, worker[w].found)
             scanned == [worker[w] EXCEPT !.todo = worker[w].todo \ {f}, !.found = found]
  <2>1. worker[w] \in WorkerState
    BY <1>w
  <2>2. worker[w].todo \ {f} \in SUBSET File /\ found \in SUBSET File
    BY <2>1 DEF FoundAt, WorkerState
  <2>3. scanned \in WorkerState
    <3> HIDE DEF found
    <3> QED BY <2>1, <2>2 DEF WorkerState
  <2>4. worker' = [worker EXCEPT ![w] = scanned]
    BY <1>6 DEF ScanFile
  <2>5. worker' \in [Worker -> WorkerState]
    BY <1>w, <2>3, <2>4
  <2> QED BY <1>6, <1>k, <2>5 DEF ScanFile, TypeOK
<1> QED BY <1>1, <1>2, <1>3, <1>4, <1>5, <1>6 DEF ScriptStep

\* A new process has its types (agent::run).
LEMMA RestartType ==
  ASSUME TypeOK, Restart
  PROVE  TypeOK'
<1>1. resources' \in [Names -> File \cup {"native", None}]
  BY BootType DEF Restart
<1>2. worker' \in [Worker -> WorkerState]
  BY DEF Restart, Free, WorkerState
<1>3. inbox' \in Seq(Configs)
  BY DEF Restart
<1> QED BY <1>1, <1>2, <1>3 DEF Restart, TypeOK, WorkerState

\* Every variable keeps its type, for any files, workers and configurations.
THEOREM RuntimeTypeCorrect == Spec => []TypeOK
<1>1. TypeOK /\ [Next]_vars => TypeOK'
  <2> SUFFICES ASSUME TypeOK, [Next]_vars PROVE TypeOK'
    OBVIOUS
  <2>1. CASE UNCHANGED vars
    BY <2>1 DEF TypeOK, vars, remote, scripts
  <2> QED BY <2>1, ConfigType, ScriptType, RestartType DEF Next
<1> QED BY <1>1, InitType, PTL DEF Spec

-----------------------------------------------------------------------------
(* What is served is what is listed.                                        *)

\* After scripts are registered, a name is served by a script that is listed under it
\* and by no other, if that was so of the names the old ones leave alone.
LEMMA RegisteredServes ==
  ASSUME NEW files \in SUBSET File, NEW old, NEW base, NEW r \in Registered(files, old, base),
         NEW n \in Names, n \notin StemsOf(old) => base[n] \notin File
  PROVE  /\ r[n] \in File => r[n] \in Served(files, n)
         /\ n \in StemsOf(files) => r[n] \in File
<1>1. CASE n \in StemsOf(files)
  BY <1>1 DEF Registered, Served
<1>2. CASE n \notin StemsOf(files)
  <2>1. r[n] = IF n \in StemsOf(old) THEN None ELSE base[n]
    BY <1>2 DEF Registered
  <2> QED BY <1>2, <2>1, RuntimeAssumption
<1> QED BY <1>1, <1>2

\* The resources of a new process serve the scripts it lists, natives that come after
\* the scripts excepted (agent::run, scripts::install).
LEMMA BootServes ==
  ASSUME NEW files \in SUBSET File, NEW r \in BootResources(files), NEW n \in Names
  PROVE  /\ r[n] \in File => r[n] \in Served(files, n)
         /\ n \in StemsOf(files) => r[n] \in File \cup (IF n \in Late THEN {"native"} ELSE {})
<1>1. PICK q \in Registered(files, {}, Natives) :
        r = [m \in Names |-> IF m \in Late THEN "native" ELSE q[m]]
  BY DEF BootResources
<1>2. Natives[n] \notin File
  BY RuntimeAssumption DEF Natives
<1>3. /\ q[n] \in File => q[n] \in Served(files, n)
      /\ n \in StemsOf(files) => q[n] \in File
  BY <1>2, RegisteredServes
<1> QED BY <1>1, <1>3, RuntimeAssumption

\* A step keeps what is served what is listed (scripts::reload, agent::run).
LEMMA ServedStep ==
  ASSUME TypeOK, ServedAreListed, [Next]_vars
  PROVE  ServedAreListed'
<1>1. CASE UNCHANGED <<resources, table>>
  BY <1>1 DEF ServedAreListed
<1>2. ASSUME NEW w \in Worker, Register(w) PROVE ServedAreListed'
  <2>1. worker[w].found \in SUBSET File
    BY DEF TypeOK
  <2>2. resources' \in Registered(worker[w].found, table, resources) /\ table' = worker[w].found
    BY <1>2 DEF Register
  <2>3. \A n \in Names : n \notin StemsOf(table) => resources[n] \notin File
    BY DEF ServedAreListed, Served, StemsOf
  <2>4. ASSUME NEW n \in Names
        PROVE  /\ resources'[n] \in File => resources'[n] \in Served(table', n)
               /\ n \in StemsOf(table') => resources'[n] \in File
    BY <2>1, <2>2, <2>3, RegisteredServes
  <2> QED BY <2>4 DEF ServedAreListed
<1>3. CASE Restart
  <2>1. dir.files \in SUBSET File
    BY DEF TypeOK
  <2>2. resources' \in BootResources(dir.files) /\ table' = dir.files
    BY <1>3 DEF Restart
  <2> QED BY <2>1, <2>2, BootServes DEF ServedAreListed
<1>4. CASE ConfigStep
  BY <1>1, <1>4 DEF ConfigStep, Configure, Connect, Disconnect, HandleConfig, scripts
<1>5. CASE ScriptStep
  BY <1>1, <1>2, <1>5 DEF ScriptStep, Edit, BeginReload, Answer, Finish, ScanFile
<1> QED BY <1>1, <1>3, <1>4, <1>5 DEF Next, vars, scripts

\* Requests find the scripts that $scripts/info lists and no other, for any files,
\* names and number of worker threads.
THEOREM WhatIsServedIsListed == Spec => []ServedAreListed
<1>1. Init => ServedAreListed
  <2> SUFFICES ASSUME Init PROVE ServedAreListed
    OBVIOUS
  <2>1. /\ dir.files \in SUBSET File
        /\ resources \in BootResources(dir.files) /\ table = dir.files
    BY DEF Init
  <2> QED BY <2>1, BootServes DEF ServedAreListed
<1>2. TypeOK /\ ServedAreListed /\ [Next]_vars => ServedAreListed'
  BY ServedStep
<1> QED BY <1>1, <1>2, RuntimeTypeCorrect, PTL DEF Spec

-----------------------------------------------------------------------------
(* The answer of a reload that was alone.                                   *)

\* A step that leaves the reloads, scripts_ and the directory alone keeps the invariant.
LEMMA ReloadUntouched ==
  ASSUME ReloadInv, UNCHANGED <<dir, table, worker>>
  PROVE  ReloadInv'
BY DEF ReloadInv, Lone, Bracketed, ScanSound, LoneTable, ReloadTellsTruth, Reloading

\* A change of the directory keeps the invariant (a script is installed or removed).
LEMMA EditKeepsReloads ==
  ASSUME TypeOK, ReloadInv, NEW f \in File, Edit(f)
  PROVE  ReloadInv'
<1>1. PICK files :
        /\ (dir.files)' = files
        /\ worker' = [w \in Worker |->
             [worker[w] EXCEPT !.kept = IF worker[w].at = "free" THEN @ ELSE @ \cap files,
                               !.seen = IF worker[w].at = "free" THEN @ ELSE @ \cup files]]
  BY DEF Edit
<1>2. ASSUME NEW w \in Worker
      PROVE  /\ worker'[w].at = worker[w].at /\ worker'[w].alone = worker[w].alone
             /\ worker'[w].todo = worker[w].todo /\ worker'[w].found = worker[w].found
             /\ Reloading(w) => /\ worker'[w].kept = worker[w].kept \cap files
                               /\ worker'[w].seen = worker[w].seen \cup files
  <2>1. worker[w] \in WorkerState
    BY DEF TypeOK, WorkerState
  <2>2. worker'[w] =
          [worker[w] EXCEPT !.kept = IF worker[w].at = "free" THEN @ ELSE @ \cap files,
                            !.seen = IF worker[w].at = "free" THEN @ ELSE @ \cup files]
    BY <1>1
  <2>3. CASE worker[w].at = "free"
    BY <2>1, <2>2, <2>3 DEF WorkerState, Reloading
  <2>4. CASE worker[w].at # "free"
    <3>1. worker'[w] = [worker[w] EXCEPT !.kept = @ \cap files, !.seen = @ \cup files]
      BY <2>2, <2>4
    <3> QED BY <2>1, <3>1 DEF WorkerState
  <2> QED BY <2>3, <2>4
<1>3. table' = table
  BY DEF Edit
<1>4. Lone'
  BY <1>2 DEF ReloadInv, Lone, Reloading
<1>5. Bracketed'
  BY <1>1, <1>2 DEF ReloadInv, Bracketed, Reloading
<1>6. ScanSound'
  BY <1>2 DEF ReloadInv, ScanSound, Reloading
<1>7. LoneTable'
  BY <1>2, <1>3 DEF ReloadInv, LoneTable
<1>8. ReloadTellsTruth'
  BY <1>2 DEF ReloadInv, ReloadTellsTruth, Reloading
<1> QED BY <1>4, <1>5, <1>6, <1>7, <1>8 DEF ReloadInv

\* A request for $scripts/reload keeps the invariant: the reloads it overlaps are no
\* longer alone.
LEMMA BeginKeepsReloads ==
  ASSUME TypeOK, ReloadInv, NEW w \in Worker, BeginReload(w)
  PROVE  ReloadInv'
<1>1. /\ worker'[w].at = "scan" /\ worker'[w].todo = File /\ worker'[w].found = {}
      /\ worker'[w].kept = dir.files /\ worker'[w].seen = dir.files
      /\ worker'[w].alone => \A v \in Worker : ~Reloading(v)
  BY DEF BeginReload
<1>2. \A v \in Worker \ {w} :
        /\ worker'[v].at = worker[v].at /\ worker'[v].todo = worker[v].todo
        /\ worker'[v].found = worker[v].found /\ worker'[v].kept = worker[v].kept
        /\ worker'[v].seen = worker[v].seen
        /\ Reloading(v) => ~worker'[v].alone
  BY DEF BeginReload, TypeOK
<1>3. dir' = dir /\ table' = table /\ dir.files \subseteq File
  BY DEF BeginReload, TypeOK
<1>4. Lone'
  BY <1>1, <1>2 DEF Lone, Reloading
<1>5. Bracketed'
  BY <1>1, <1>2, <1>3 DEF ReloadInv, Bracketed, Reloading
<1>6. ScanSound'
  BY <1>1, <1>2, <1>3 DEF ReloadInv, ScanSound
<1>7. LoneTable'
  BY <1>1, <1>2 DEF LoneTable, Reloading
<1>8. ReloadTellsTruth'
  BY <1>1, <1>2 DEF ReloadTellsTruth, Reloading
<1> QED BY <1>4, <1>5, <1>6, <1>7, <1>8 DEF ReloadInv

\* A scan that comes to a file keeps the invariant (scan_directory).
LEMMA ScanKeepsReloads ==
  ASSUME TypeOK, ReloadInv, NEW w \in Worker, NEW f \in File, ScanFile(w, f)
  PROVE  ReloadInv'
<1>1. /\ worker[w].at = "scan" /\ worker'[w].at = "scan"
      /\ worker'[w].todo = worker[w].todo \ {f}
      /\ worker'[w].found = FoundAt(f, worker[w].found)
      /\ worker'[w].kept = worker[w].kept /\ worker'[w].seen = worker[w].seen
      /\ worker'[w].alone = worker[w].alone
  BY DEF ScanFile, TypeOK
<1>2. \A v \in Worker \ {w} : worker'[v] = worker[v]
  BY DEF ScanFile, TypeOK
<1>3. dir' = dir /\ table' = table
  BY DEF ScanFile
<1>4. Lone'
  BY <1>1, <1>2 DEF ReloadInv, Lone, Reloading
<1>5. Bracketed'
  BY <1>1, <1>2, <1>3 DEF ReloadInv, Bracketed, Reloading
<1>6. ScanSound'
  <2>1. worker[w].kept \subseteq dir.files /\ dir.files \subseteq worker[w].seen
    BY <1>1 DEF ReloadInv, Bracketed, Reloading
  <2>2. /\ worker[w].found \subseteq worker[w].seen
        /\ worker[w].kept \subseteq worker[w].found \cup worker[w].todo
    BY <1>1 DEF ReloadInv, ScanSound
  <2>3. /\ worker'[w].found \subseteq worker'[w].seen
        /\ worker'[w].kept \subseteq worker'[w].found \cup worker'[w].todo
    BY <1>1, <2>1, <2>2 DEF FoundAt
  <2> QED BY <1>1, <1>2, <2>3 DEF ReloadInv, ScanSound
<1>7. LoneTable'
  BY <1>1, <1>2, <1>3 DEF ReloadInv, LoneTable
<1>8. ReloadTellsTruth'
  BY <1>1, <1>2 DEF ReloadInv, ReloadTellsTruth
<1> QED BY <1>4, <1>5, <1>6, <1>7, <1>8 DEF ReloadInv

\* The registration of what a scan found keeps the invariant: scripts_ changes under no
\* other reload that is alone.
LEMMA RegisterKeepsReloads ==
  ASSUME TypeOK, ReloadInv, NEW w \in Worker, Register(w)
  PROVE  ReloadInv'
<1>1. /\ worker[w].at = "scan" /\ worker[w].todo = {} /\ worker'[w].at = "posted"
      /\ worker'[w].found = worker[w].found /\ worker'[w].kept = worker[w].kept
      /\ worker'[w].seen = worker[w].seen /\ worker'[w].alone = worker[w].alone
  BY DEF Register, TypeOK
<1>2. \A v \in Worker \ {w} : worker'[v] = worker[v]
  BY DEF Register, TypeOK
<1>3. dir' = dir /\ table' = worker[w].found
  BY DEF Register
<1>4. Lone'
  BY <1>1, <1>2 DEF ReloadInv, Lone, Reloading
<1>5. Bracketed'
  BY <1>1, <1>2, <1>3 DEF ReloadInv, Bracketed, Reloading
<1>6. ScanSound'
  BY <1>1, <1>2 DEF ReloadInv, ScanSound
<1>7. LoneTable'
  BY <1>1, <1>2, <1>3 DEF ReloadInv, Lone, LoneTable, Reloading
<1>8. ReloadTellsTruth'
  BY <1>1, <1>2 DEF ReloadInv, ReloadTellsTruth
<1> QED BY <1>4, <1>5, <1>6, <1>7, <1>8 DEF ReloadInv

\* The answer keeps the invariant: what scripts_ holds is what a lone reload found.
LEMMA AnswerKeepsReloads ==
  ASSUME TypeOK, ReloadInv, NEW w \in Worker, Answer(w)
  PROVE  ReloadInv'
<1>1. /\ worker[w].at = "posted" /\ worker'[w].at = "answered"
      /\ worker'[w].found = table /\ worker'[w].kept = worker[w].kept
      /\ worker'[w].seen = worker[w].seen /\ worker'[w].alone = worker[w].alone
  BY DEF Answer, TypeOK
<1>2. \A v \in Worker \ {w} : worker'[v] = worker[v]
  BY DEF Answer, TypeOK
<1>3. dir' = dir /\ table' = table
  BY DEF Answer
<1>4. Lone'
  BY <1>1, <1>2 DEF ReloadInv, Lone, Reloading
<1>5. Bracketed'
  BY <1>1, <1>2, <1>3 DEF ReloadInv, Bracketed, Reloading
<1>6. ScanSound'
  BY <1>1, <1>2 DEF ReloadInv, ScanSound
<1>7. LoneTable'
  BY <1>1, <1>2, <1>3 DEF ReloadInv, LoneTable
<1>8. ReloadTellsTruth'
  <2>1. worker[w].alone => /\ table = worker[w].found
                           /\ worker[w].kept \subseteq worker[w].found
                           /\ worker[w].found \subseteq worker[w].seen
    BY <1>1 DEF ReloadInv, LoneTable, ScanSound
  <2> QED BY <1>1, <1>2, <2>1 DEF ReloadInv, ReloadTellsTruth
<1> QED BY <1>4, <1>5, <1>6, <1>7, <1>8 DEF ReloadInv

\* The end of a reload, or of the process, keeps the invariant.
LEMMA EndKeepsReloads ==
  ASSUME TypeOK, ReloadInv, (\E w \in Worker : Finish(w)) \/ Restart
  PROVE  ReloadInv'
<1>1. \A v \in Worker :
        worker'[v].at = "free" \/ (worker'[v] = worker[v] /\ dir' = dir /\ table' = table)
  BY DEF Finish, Restart, Free, TypeOK
<1> QED
  BY <1>1 DEF ReloadInv, Lone, Bracketed, ScanSound, LoneTable, ReloadTellsTruth, Reloading

\* The answer of a reload that no other overlapped lists every script that was there all
\* the time and none that was never there, for any files and number of worker threads.
THEOREM LoneReloadsTellTruth == Spec => []ReloadTellsTruth
<1>1. Init => ReloadInv
  BY DEF Init, Free, ReloadInv, Lone, Bracketed, ScanSound, LoneTable, ReloadTellsTruth,
         Reloading
<1>2. TypeOK /\ ReloadInv /\ [Next]_vars => ReloadInv'
  <2> SUFFICES ASSUME TypeOK, ReloadInv, [Next]_vars PROVE ReloadInv'
    OBVIOUS
  <2>1. CASE UNCHANGED vars
    BY <2>1, ReloadUntouched DEF vars, scripts
  <2>2. CASE ConfigStep
    BY <2>2, ReloadUntouched
       DEF ConfigStep, Configure, Connect, Disconnect, HandleConfig, scripts
  <2>3. CASE ScriptStep
    BY <2>3, EditKeepsReloads, BeginKeepsReloads, ScanKeepsReloads, RegisterKeepsReloads,
       AnswerKeepsReloads, EndKeepsReloads DEF ScriptStep
  <2>4. CASE Restart
    BY <2>4, EndKeepsReloads
  <2> QED BY <2>1, <2>2, <2>3, <2>4 DEF Next
<1>3. ReloadInv => ReloadTellsTruth
  BY DEF ReloadInv
<1> QED BY <1>1, <1>2, <1>3, RuntimeTypeCorrect, PTL DEF Spec
=============================================================================
