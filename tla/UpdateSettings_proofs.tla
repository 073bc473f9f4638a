------------------------ MODULE UpdateSettings_proofs ------------------------
(***************************************************************************)
(* Theorems about config.json, for any number of credentials.  Types hold  *)
(* for any number of commands at once; that credentials and an opt-out are *)
(* kept is proved for one command at a time, since the mutex of the file   *)
(* is per process.                                                         *)
(***************************************************************************)
EXTENDS UpdateSettings, TLAPS

-----------------------------------------------------------------------------
(* Types.                                                                   *)

LEMMA SectionTypes ==
  /\ NoSection \in Sections /\ Defaults \in Sections /\ "none" \in Choices
  /\ Policies \subseteq Choices
  /\ \A p \in Policies : [policy |-> p, source |-> "local_explicit"] \in Sections
BY DEF NoSection, Defaults, Sections, Settings, Sources, Policies, Choices

LEMMA NoFileType == NoFile \in Files
BY SectionTypes, MaxIssuedAssumption DEF NoFile, Files

LEMMA NoCommandType == NoCommand \in Commands
BY SectionTypes, NoFileType, MaxIssuedAssumption DEF NoCommand, Commands, Steps

LEMMA InitType == Init => TypeOK
<1> SUFFICES ASSUME Init  PROVE TypeOK
  OBVIOUS
<1>1. parked \in BOOLEAN
  BY DEF Init
<1>2. /\ file \in Files /\ cmd \in [Command -> Commands]
      /\ remote \in Choices /\ chosen \in Choices
  BY SectionTypes, NoFileType, NoCommandType DEF Init
<1>3. issued \in 0 .. MaxIssued /\ saved \in 0 .. MaxIssued
  BY MaxIssuedAssumption DEF Init
<1> QED
  BY <1>1, <1>2, <1>3 DEF TypeOK

\* One command's record in a step that gives it another.
LEMMA CommandType ==
  ASSUME TypeOK, NEW c \in Command, NEW r \in Commands, cmd' = [cmd EXCEPT ![c] = r]
  PROVE  cmd' \in [Command -> Commands]
BY DEF TypeOK

LEMMA GotoType ==
  ASSUME TypeOK, NEW c \in Command, NEW step \in Steps, Goto(c, step)
  PROVE  cmd' \in [Command -> Commands]
BY DEF TypeOK, Goto, Commands

LEMMA EndsType ==
  ASSUME TypeOK, NEW c \in Command, Ends(c)
  PROVE  cmd' \in [Command -> Commands]
BY NoCommandType DEF TypeOK, Ends

LEMMA StartType ==
  ASSUME TypeOK, NEW c \in Command,
         \/ \E p \in Policies : SetPolicy(c, p)
         \/ \E p \in Choices : Install(c, p)
         \/ Reconfigure(c) \/ Uninstall(c) \/ Killed(c)
  PROVE  TypeOK'
<1>1. ASSUME NEW p \in Policies, SetPolicy(c, p)  PROVE TypeOK'
  <2>1. cmd' \in [Command -> Commands]
    BY <1>1, SectionTypes, NoCommandType, OperationsAssumption
       DEF SetPolicy, TypeOK, Commands, Steps, NoCommand
  <2> QED
    BY <1>1, <2>1 DEF SetPolicy, TypeOK, history
<1>2. ASSUME NEW p \in Choices, Install(c, p)  PROVE TypeOK'
  <2>1. issued' \in 0 .. MaxIssued
    <3>1. issued < MaxIssued /\ issued' = issued + 1 /\ issued \in 0 .. MaxIssued
      BY <1>2 DEF Install, TypeOK
    <3> QED
      BY <3>1, MaxIssuedAssumption
  <2>2. cmd' \in [Command -> Commands]
    BY <1>2, <2>1, NoCommandType DEF Install, TypeOK, Commands, Steps, NoCommand
  <2> QED
    BY <1>2, <2>1, <2>2 DEF Install, TypeOK, history
<1>3. CASE Reconfigure(c)
  <2>1. cmd' \in [Command -> Commands]
    BY <1>3, SectionTypes, NoCommandType
       DEF Reconfigure, TypeOK, Commands, Steps, NoCommand, Files
  <2> QED
    BY <1>3, <2>1 DEF Reconfigure, TypeOK, history
<1>4. CASE Uninstall(c)
  <2>1. cmd' \in [Command -> Commands]
    BY <1>4, NoCommandType DEF Uninstall, TypeOK, Commands, Steps, NoCommand
  <2> QED
    BY <1>4, <2>1 DEF Uninstall, TypeOK, history
<1>5. CASE Killed(c)
  BY <1>5, EndsType DEF Killed, TypeOK, history
<1> QED
  BY <1>1, <1>2, <1>3, <1>4, <1>5

LEMMA StepType ==
  ASSUME TypeOK, NEW c \in Command,
         \/ WriteSectionCheck(c) \/ WriteSectionRead(c) \/ WriteSection(c)
         \/ SaveRead(c) \/ SaveWrite(c) \/ InstallSaved(c)
         \/ Remove(c) \/ Setup(c) \/ SetupSaved(c)
  PROVE  TypeOK'
<1> USE DEF Steps
<1>1. CASE WriteSectionCheck(c)
  <2>1. cmd' \in [Command -> Commands]
    BY <1>1, GotoType, EndsType DEF WriteSectionCheck
  <2> QED
    BY <1>1, <2>1 DEF WriteSectionCheck, TypeOK, history
<1>2. CASE WriteSectionRead(c) \/ SaveRead(c)
  <2>1. cmd' \in [Command -> Commands]
    BY <1>2 DEF WriteSectionRead, SaveRead, TypeOK, Commands
  <2> QED
    BY <1>2, <2>1 DEF WriteSectionRead, SaveRead, TypeOK, history
<1>3. CASE WriteSection(c)
  <2>1. cmd' \in [Command -> Commands]
    BY <1>3, EndsType DEF WriteSection
  <2>2. file' \in Files /\ chosen' \in Choices /\ parked' \in BOOLEAN
    BY <1>3 DEF WriteSection, RewrittenFile, TypeOK, Commands, Files
  <2> QED
    BY <1>3, <2>1, <2>2 DEF WriteSection, TypeOK
<1>4. CASE SaveWrite(c)
  <2>1. cmd' \in [Command -> Commands]
    BY <1>4, GotoType DEF SaveWrite
  <2>2. file' \in Files /\ saved' \in 0 .. MaxIssued
    BY <1>4 DEF SaveWrite, SavedFile, TypeOK, Commands, Files
  <2> QED
    BY <1>4, <2>1, <2>2 DEF SaveWrite, TypeOK
<1>5. CASE InstallSaved(c)
  <2>1. PolicyToRecord(c) \in Sections
    BY SectionTypes DEF PolicyToRecord, TypeOK, Commands, Choices
  <2>2. cmd' \in [Command -> Commands]
    BY <1>5, <2>1, EndsType DEF InstallSaved, TypeOK, Commands
  <2> QED
    BY <1>5, <2>2 DEF InstallSaved, TypeOK, history
<1>6. CASE Remove(c)
  <2>1. cmd' \in [Command -> Commands]
    BY <1>6, GotoType, EndsType DEF Remove
  <2>2. parked' \in BOOLEAN
    BY <1>6 DEF Remove
  <2>3. file' \in Files /\ chosen' \in Choices
    BY <1>6, NoFileType, SectionTypes DEF Remove, TypeOK
  <2>4. saved' \in 0 .. MaxIssued
    BY <1>6, MaxIssuedAssumption DEF Remove
  <2> QED
    BY <1>6, <2>1, <2>2, <2>3, <2>4 DEF Remove, TypeOK
<1>7. CASE Setup(c)
  <2>1. issued' \in 0 .. MaxIssued
    BY <1>7, MaxIssuedAssumption DEF Setup, TypeOK
  <2>2. cmd' \in [Command -> Commands]
    BY <1>7, <2>1, EndsType DEF Setup, TypeOK, Commands
  <2> QED
    BY <1>7, <2>1, <2>2 DEF Setup, TypeOK, history
<1>8. CASE SetupSaved(c)
  <2>1. cmd' \in [Command -> Commands]
    BY <1>8, EndsType DEF SetupSaved, TypeOK, Commands
  <2> QED
    BY <1>8, <2>1 DEF SetupSaved, TypeOK, history
<1> QED
  BY <1>1, <1>2, <1>3, <1>4, <1>5, <1>6, <1>7, <1>8

\* Every variable keeps its type, whatever commands rewrite config.json at once and
\* wherever they die (config_manager's save, write_update_section and remove).
THEOREM SettingsTypeCorrect == Spec => []TypeOK
<1>1. TypeOK /\ [Next]_vars => TypeOK'
  <2> SUFFICES ASSUME TypeOK, [Next]_vars  PROVE TypeOK'
    OBVIOUS
  <2>1. CASE UNCHANGED vars
    BY <2>1 DEF vars, history, TypeOK
  <2>2. ASSUME NEW p \in Choices, SetRemotePolicy(p)  PROVE TypeOK'
    BY <2>2 DEF SetRemotePolicy, history, TypeOK
  <2>3. ASSUME NEW c \in Command, Runs(c)  PROVE TypeOK'
    BY <2>3, StartType, StepType DEF Runs
  <2> QED
    BY <2>1, <2>2, <2>3 DEF Next
<1> QED
  BY <1>1, InitType, PTL DEF Spec

-----------------------------------------------------------------------------
(* One command at a time.                                                   *)

OneCommand == \A c, d \in Command : c = d

\* What a command has read is still what the file holds, and what it saves was
\* provisioned.
ReadInv ==
  \A c \in Command :
    /\ cmd[c].at \in {"save_read", "save_write"} => cmd[c].device # 0
    /\ cmd[c].at \in {"read", "write"} => file.exists
    /\ cmd[c].at \in {"write", "save_write"} => cmd[c].raw = file

CredentialsInv == ReadInv /\ CredentialsKept

LEMMA CredentialsStep ==
  ASSUME OneCommand, TypeOK, CredentialsInv, NEW c \in Command, Runs(c)
  PROVE  CredentialsInv'
<1>0. cmd \in [Command -> Commands] /\ file \in Files /\ issued \in Nat
  BY MaxIssuedAssumption DEF TypeOK
<1> USE <1>0 DEF OneCommand, CredentialsInv, ReadInv, CredentialsKept, Goto, Ends, NoCommand,
                 Commands, Files, history
<1>1. ASSUME NEW p \in Policies, SetPolicy(c, p)  PROVE CredentialsInv'
  BY <1>1 DEF SetPolicy
<1>2. ASSUME NEW p \in Choices, Install(c, p)  PROVE CredentialsInv'
  BY <1>2 DEF Install
<1>3. CASE Reconfigure(c)
  BY <1>3 DEF Reconfigure
<1>4. CASE Uninstall(c)
  BY <1>4 DEF Uninstall
<1>5. CASE Killed(c)
  BY <1>5 DEF Killed
<1>6. CASE WriteSectionCheck(c)
  BY <1>6 DEF WriteSectionCheck
<1>7. CASE WriteSectionRead(c) \/ SaveRead(c)
  BY <1>7 DEF WriteSectionRead, SaveRead
<1>8. CASE WriteSection(c)
  BY <1>8 DEF WriteSection, RewrittenFile
<1>9. CASE SaveWrite(c)
  BY <1>9 DEF SaveWrite, SavedFile
<1>10. CASE InstallSaved(c)
  BY <1>10 DEF InstallSaved
<1>11. CASE Remove(c)
  BY <1>11 DEF Remove, NoFile
<1>12. CASE Setup(c)
  BY <1>12 DEF Setup
<1>13. CASE SetupSaved(c)
  BY <1>13 DEF SetupSaved
<1> QED
  BY <1>1, <1>2, <1>3, <1>4, <1>5, <1>6, <1>7, <1>8, <1>9, <1>10, <1>11, <1>12, <1>13
     DEF Runs

LEMMA CredentialsHold ==
  ASSUME OneCommand
  PROVE  Spec => [](TypeOK /\ CredentialsInv)
<1>1. Init => CredentialsInv
  BY DEF Init, CredentialsInv, ReadInv, CredentialsKept, NoFile, NoCommand
<1>2. TypeOK /\ CredentialsInv /\ [Next]_vars => CredentialsInv'
  <2> SUFFICES ASSUME TypeOK, CredentialsInv, [Next]_vars  PROVE CredentialsInv'
    OBVIOUS
  <2>1. CASE UNCHANGED vars
    BY <2>1 DEF vars, history, CredentialsInv, ReadInv, CredentialsKept
  <2>2. ASSUME NEW p \in Choices, SetRemotePolicy(p)  PROVE CredentialsInv'
    BY <2>2 DEF SetRemotePolicy, history, CredentialsInv, ReadInv, CredentialsKept
  <2> QED
    BY <2>1, <2>2, CredentialsStep DEF Next
<1> QED
  BY <1>1, <1>2, SettingsTypeCorrect, PTL DEF Spec

\* The file always holds the credentials that were saved last, and never exists
\* without any, wherever a command that rewrites it dies (save, write_update_section,
\* remove).
THEOREM SavedCredentialsAreKept ==
  ASSUME OneCommand
  PROVE  Spec => []CredentialsKept
<1>1. CredentialsInv => CredentialsKept
  BY DEF CredentialsInv
<1> QED
  BY <1>1, CredentialsHold, PTL

-----------------------------------------------------------------------------
(* The opt-out.                                                             *)

\* Nothing but an explicit choice writes a section that opts out.
Explicit(section) == section.policy = "managed" => section.source = "local_explicit"

OptOut == [policy |-> "managed", source |-> "local_explicit"]

\* What a command is about to write: the policy it was given, and otherwise nothing
\* that undoes an opt-out; a section that a reconfigure keeps is parked.
WritesFit(c) ==
  /\ Explicit(cmd[c].want) /\ Explicit(cmd[c].kept)
  /\ cmd[c].at \in {"check", "read", "write"} =>
       IF cmd[c].arg # "none" THEN cmd[c].want.policy = cmd[c].arg
       ELSE chosen = "managed" /\ ~parked => cmd[c].want.policy = "managed"
  /\ cmd[c].op = "reconfigure" =>
       /\ cmd[c].arg = "none"
       /\ cmd[c].at # "remove" /\ cmd[c].kept # NoSection => parked

OptOutInv ==
  /\ chosen = "managed" /\ ~parked => file.update = OptOut
  /\ Explicit(file.update)
  /\ \A c \in Command : WritesFit(c)

LEMMA OptOutSection ==
  ASSUME NEW section \in Sections, Explicit(section), section.policy = "managed"
  PROVE  section = OptOut
BY DEF Sections, Settings, NoSection, Explicit, OptOut

LEMMA NoSectionExplicit ==
  /\ Explicit(NoSection) /\ Explicit(Defaults) /\ NoSection # OptOut
  /\ \A p \in Policies : Explicit([policy |-> p, source |-> "local_explicit"])
BY DEF Explicit, NoSection, Defaults, OptOut, Policies

\* A step of the only command that leaves the file alone and the choice where it was.
LEMMA OnlyWrites ==
  ASSUME OneCommand, OptOutInv, NEW c \in Command, UNCHANGED <<file, chosen, parked>>,
         WritesFit(c)'
  PROVE  OptOutInv'
BY DEF OneCommand, OptOutInv, Explicit, OptOut

LEMMA IdleFits ==
  ASSUME TypeOK, NEW c \in Command, Ends(c)
  PROVE  WritesFit(c)'
BY NoSectionExplicit DEF TypeOK, Ends, WritesFit, NoCommand

LEMMA OptOutStart ==
  ASSUME OneCommand, TypeOK, OptOutInv, NEW c \in Command,
         \/ \E p \in Policies : SetPolicy(c, p)
         \/ \E p \in Choices : Install(c, p)
         \/ Reconfigure(c) \/ Uninstall(c) \/ Killed(c)
  PROVE  OptOutInv'
<1>1. ASSUME NEW p \in Policies, SetPolicy(c, p)  PROVE OptOutInv'
  <2>1. WritesFit(c)'
    BY <1>1, NoSectionExplicit DEF SetPolicy, TypeOK, WritesFit, NoCommand, Policies
  <2> QED
    BY <1>1, <2>1, OnlyWrites DEF SetPolicy, history
<1>2. ASSUME NEW p \in Choices, Install(c, p)  PROVE OptOutInv'
  <2>1. WritesFit(c)'
    BY <1>2, NoSectionExplicit DEF Install, TypeOK, WritesFit, NoCommand
  <2> QED
    BY <1>2, <2>1, OnlyWrites DEF Install, history
<1>3. CASE Reconfigure(c)
  <2>1. WritesFit(c)'
    BY <1>3, NoSectionExplicit DEF Reconfigure, TypeOK, WritesFit, NoCommand, OptOutInv
  <2> QED
    BY <1>3, <2>1, OnlyWrites DEF Reconfigure, history
<1>4. CASE Uninstall(c)
  <2>1. WritesFit(c)'
    BY <1>4, NoSectionExplicit DEF Uninstall, TypeOK, WritesFit, NoCommand
  <2> QED
    BY <1>4, <2>1, OnlyWrites DEF Uninstall, history
<1>5. CASE Killed(c)
  BY <1>5, IdleFits, OnlyWrites DEF Killed, history
<1> QED
  BY <1>1, <1>2, <1>3, <1>4, <1>5

LEMMA OptOutStep ==
  ASSUME OneCommand, TypeOK, CredentialsInv, OptOutInv, NEW c \in Command,
         \/ WriteSectionCheck(c) \/ WriteSectionRead(c) \/ WriteSection(c)
         \/ SaveRead(c) \/ SaveWrite(c) \/ InstallSaved(c)
         \/ Remove(c) \/ Setup(c) \/ SetupSaved(c)
  PROVE  OptOutInv'
<1>0. WritesFit(c) /\ cmd \in [Command -> Commands]
  BY DEF OptOutInv, TypeOK
<1>1. CASE WriteSectionCheck(c)
  <2>1. WritesFit(c)'
    BY <1>0, <1>1, IdleFits DEF WriteSectionCheck, Goto, WritesFit, Commands, history
  <2> QED
    BY <1>1, <2>1, OnlyWrites DEF WriteSectionCheck, history
<1>2. CASE WriteSectionRead(c) \/ SaveRead(c)
  <2>1. WritesFit(c)'
    BY <1>0, <1>2 DEF WriteSectionRead, SaveRead, WritesFit, Commands, history
  <2> QED
    BY <1>2, <2>1, OnlyWrites DEF WriteSectionRead, SaveRead, history
<1>3. CASE WriteSection(c)
  <2>1. file'.update = cmd[c].want /\ cmd[c].want \in Sections
    BY <1>0, <1>3 DEF WriteSection, RewrittenFile, Commands
  <2>2. chosen' = "managed" /\ ~parked' => cmd[c].want.policy = "managed"
    BY <1>0, <1>3 DEF WriteSection, WritesFit
  <2>3. \A d \in Command : WritesFit(d)'
    BY <1>3, IdleFits DEF WriteSection, OneCommand
  <2> QED
    BY <1>0, <2>1, <2>2, <2>3, OptOutSection DEF OptOutInv, WritesFit, Explicit
<1>4. CASE SaveWrite(c)
  <2>1. file'.update = file.update /\ UNCHANGED <<chosen, parked>>
    BY <1>4 DEF SaveWrite, SavedFile, CredentialsInv, ReadInv
  <2>2. WritesFit(c)'
    BY <1>0, <1>4 DEF SaveWrite, Goto, WritesFit, Commands
  <2> QED
    BY <2>1, <2>2 DEF OptOutInv, OneCommand, Explicit, OptOut
<1>5. CASE InstallSaved(c)
  <2>1. cmd[c].arg = "none" /\ PolicyToRecord(c) = Defaults => chosen # "managed" \/ parked
    BY NoSectionExplicit DEF PolicyToRecord, OptOutInv, Defaults, NoSection, OptOut
  <2>2. ASSUME PolicyToRecord(c) = NoSection  PROVE WritesFit(c)'
    BY <1>5, <2>2, IdleFits DEF InstallSaved
  <2>3. ASSUME PolicyToRecord(c) # NoSection  PROVE WritesFit(c)'
    <3>1. \/ cmd[c].arg \in Policies
             /\ PolicyToRecord(c) = [policy |-> cmd[c].arg, source |-> "local_explicit"]
          \/ cmd[c].arg = "none" /\ PolicyToRecord(c) = Defaults
      BY <1>0, <2>3 DEF PolicyToRecord, Commands, Choices, Policies
    <3> QED
      BY <1>0, <1>5, <2>1, <2>3, <3>1, NoSectionExplicit
         DEF InstallSaved, WritesFit, Commands, history
  <2>4. WritesFit(c)'
    BY <2>2, <2>3
  <2> QED
    BY <1>5, <2>4, OnlyWrites DEF InstallSaved, history
<1>6. CASE Remove(c)
  <2>1. file'.update = NoSection /\ (chosen' = "none" \/ parked')
    BY <1>6 DEF Remove, NoFile
  <2>2. WritesFit(c)'
    BY <1>0, <1>6, IdleFits DEF Remove, Goto, WritesFit, Commands
  <2> QED
    BY <2>1, <2>2, NoSectionExplicit DEF OptOutInv, OneCommand
<1>7. CASE Setup(c)
  <2>1. WritesFit(c)'
    BY <1>0, <1>7, IdleFits DEF Setup, WritesFit, Commands, history
  <2> QED
    BY <1>7, <2>1, OnlyWrites DEF Setup, history
<1>8. CASE SetupSaved(c)
  <2>1. WritesFit(c)'
    BY <1>0, <1>8, IdleFits DEF SetupSaved, WritesFit, Commands, history
  <2> QED
    BY <1>8, <2>1, OnlyWrites DEF SetupSaved, history
<1> QED
  BY <1>1, <1>2, <1>3, <1>4, <1>5, <1>6, <1>7, <1>8

\* A device whose user opted out stays opted out: no remote policy, no install, no
\* change of the policy by another command and no death of a command undoes it, short of
\* the section that a reconfigure holds in memory (effective_policy,
\* write_update_section, handle_reconfigure).
THEOREM OptOutIsHonoured ==
  ASSUME OneCommand
  PROVE  Spec => []OptOutHonoured
<1>1. Init => OptOutInv
  BY NoSectionExplicit DEF Init, OptOutInv, WritesFit, NoFile, NoCommand
<1>2. TypeOK /\ CredentialsInv /\ OptOutInv /\ [Next]_vars => OptOutInv'
  <2> SUFFICES ASSUME TypeOK, CredentialsInv, OptOutInv, [Next]_vars  PROVE OptOutInv'
    OBVIOUS
  <2>1. CASE UNCHANGED vars
    BY <2>1 DEF vars, history, OptOutInv, WritesFit, Explicit, OptOut
  <2>2. ASSUME NEW p \in Choices, SetRemotePolicy(p)  PROVE OptOutInv'
    BY <2>2 DEF SetRemotePolicy, history, OptOutInv, WritesFit, Explicit, OptOut
  <2>3. ASSUME NEW c \in Command, Runs(c)  PROVE OptOutInv'
    BY <2>3, OptOutStart, OptOutStep DEF Runs
  <2> QED
    BY <2>1, <2>2, <2>3 DEF Next
<1>3. TypeOK /\ OptOutInv => OptOutHonoured
  BY DEF OptOutInv, OptOutHonoured, OptOut, AgentPolicy, EffectivePolicy, FromJson, NoSection
<1> QED
  BY <1>1, <1>2, <1>3, CredentialsHold, PTL DEF Spec
==============================================================================
