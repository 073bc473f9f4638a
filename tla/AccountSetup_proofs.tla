------------------------- MODULE AccountSetup_proofs -------------------------
(***************************************************************************)
(* Proofs about AccountSetup, for any commands at a time and any number of *)
(* rules: the types, that the rules a command reported are there, and that *)
(* --force counts only rules that are the default ones.                    *)
(***************************************************************************)
EXTENDS AccountSetup, TLAPS

\* The command will create the rule again, or report that it could not.
Owes(c, r) ==
  \/ cmd[c].at = "reset" /\ r \notin cmd[c].known
  \/ cmd[c].at = "create" /\ (r \in cmd[c].failed \/ (r \notin cmd[c].known /\ cmd[c].todo <= r))

\* A command that is not at the rules has come past none of them.
NotBegun == \A c \in Caller : ~AtRules(c) => cmd[c].todo = 1

\* There, or gone by a removal that was not answered.
There(r) == rules[r] # "absent" \/ r \in unheard

\* A rule that was promised and is gone was removed by a command that still owes it.
PromisesKept == \A r \in promised : ~There(r) => \E c \in Caller : Owes(c, r)

\* What a command takes for present is, unless another one removed it since.
KnownPresent ==
  \A c \in Caller : AtRules(c) => \A r \in cmd[c].known \ cmd[c].dropped : There(r)

\* What a command has come past is there, unless it failed or another one removed it.
PassedPresent ==
  \A c \in Caller : cmd[c].at = "create" =>
    \A r \in Rule \ (cmd[c].dropped \cup cmd[c].failed) : r < cmd[c].todo => There(r)

\* What a bootstrap --force has created is the default rule, unless edited since.
PassedDefault ==
  \A c \in Caller : cmd[c].at = "create" /\ cmd[c].force =>
    \A r \in Rule \ (cmd[c].known \cup cmd[c].dropped \cup cmd[c].failed) :
      r < cmd[c].todo => rules[r] # "edited"

\* What the last one counted as created is the default rule, at any time.
ResetUnedited == \A r \in reset : rules[r] # "edited"

PromiseInv == NotBegun /\ PromisesKept /\ KnownPresent /\ PassedPresent
ResetInv == NotBegun /\ PassedDefault /\ ResetUnedited

-----------------------------------------------------------------------------
(* Types, and what the turns of the loops do.                               *)

\* A new command has the type of commands.
LEMMA NoCommandType ==
  /\ NoCommand \in Commands /\ NoCommand.at = "idle" /\ NoCommand.todo = 1
  /\ 1 \in Rule
<1>1. 1 \in Rule
  BY AccountAssumption DEF Rule
<1> QED BY <1>1 DEF NoCommand, Commands, Steps

\* The next turn of the loop that removes, or the first of the one that creates
\* (ensure_default_alarms).
LEMMA AfterResetIs ==
  ASSUME NEW k \in Commands, k.at = "reset"
  PROVE  /\ AfterReset(k) \in Commands
         /\ AfterReset(k).known = k.known /\ AfterReset(k).dropped = k.dropped
         /\ AfterReset(k).force = k.force /\ AfterReset(k).failed = k.failed
         /\ \/ AfterReset(k).at = "reset"
            \/ AfterReset(k).at = "create" /\ AfterReset(k).todo = 1
<1>1. CASE k.todo < NRules
  <2>1. k.todo + 1 \in Rule
    BY <1>1, AccountAssumption DEF Commands, Rule
  <2>2. AfterReset(k) = [k EXCEPT !.todo = k.todo + 1]
    BY <1>1 DEF AfterReset
  <2> QED BY <2>1, <2>2 DEF Commands
<1>2. CASE ~(k.todo < NRules)
  <2>1. AfterReset(k) = [k EXCEPT !.at = "create", !.todo = 1]
    BY <1>2 DEF AfterReset
  <2> QED BY <2>1, NoCommandType DEF Commands, Steps
<1> QED BY <1>1, <1>2

\* A step of a command leaves the commands of other callers alone.
Only(c) == \A d \in Caller \ {c} : cmd'[d] = cmd[d]

\* A command that goes on elsewhere.
LEMMA GotoIs ==
  ASSUME TypeOK, NEW c \in Caller, NEW step \in Steps, Goto(c, step)
  PROVE  /\ cmd' \in [Caller -> Commands] /\ Only(c)
         /\ cmd'[c].at = step /\ cmd'[c].todo = cmd[c].todo
BY DEF Goto, TypeOK, Commands, Only

\* A command that is over.
LEMMA EndsIs ==
  ASSUME TypeOK, NEW c \in Caller, Ends(c)
  PROVE  cmd' \in [Caller -> Commands] /\ Only(c) /\ cmd'[c] = NoCommand
BY NoCommandType DEF Ends, TypeOK, Only

\* The steps outside the loops: a command begins, ends, sees to the product, or takes the
\* list of the rules that are there.
Outside(c) ==
  \/ \E op \in {"install", "setup", "bootstrap"}, force \in BOOLEAN : Begin(c, op, force)
  \/ ListProducts(c) \/ CreateProduct(c) \/ ListRules(c)

\* What those steps leave (handle_bootstrap, resolve_product, ensure_default_alarms).
LEMMA OutsideDoes ==
  ASSUME TypeOK, NEW c \in Caller, NotBegun, Outside(c)
  PROVE  /\ cmd' \in [Caller -> Commands] /\ Only(c) /\ product' \in BOOLEAN
         /\ UNCHANGED <<rules, history>> /\ ~AtRules(c) /\ cmd'[c].todo = 1
         /\ cmd'[c].at \in {"reset", "create"} => cmd'[c].known = Present
<1>t. cmd \in [Caller -> Commands] /\ product \in BOOLEAN
  BY DEF TypeOK
<1>1. ASSUME NEW op \in {"install", "setup", "bootstrap"}, NEW force \in BOOLEAN,
             Begin(c, op, force)
      PROVE  /\ cmd' \in [Caller -> Commands] /\ Only(c) /\ product' \in BOOLEAN
             /\ UNCHANGED <<rules, history>> /\ ~AtRules(c) /\ cmd'[c].todo = 1
             /\ cmd'[c].at \notin {"reset", "create"}
  <2> DEFINE at == IF op = "bootstrap" THEN "list" ELSE "products"
             new == [NoCommand EXCEPT !.at = at, !.op = op, !.force = force]
  <2>1. cmd' = [cmd EXCEPT ![c] = new]
    BY <1>1 DEF Begin
  <2>2. new \in Commands /\ new.at \in {"list", "products"} /\ new.todo = 1
    BY NoCommandType DEF Commands, Steps
  <2> HIDE DEF new
  <2>3. cmd' \in [Caller -> Commands] /\ Only(c) /\ cmd'[c] = new
    BY <1>t, <2>1, <2>2 DEF Only
  <2>4. product' \in BOOLEAN
    BY <1>1, <1>t DEF Begin
  <2> QED BY <1>1, <2>2, <2>3, <2>4 DEF Begin, AtRules
<1>2. ASSUME ListProducts(c) \/ CreateProduct(c)
      PROVE  /\ cmd' \in [Caller -> Commands] /\ Only(c) /\ product' \in BOOLEAN
             /\ UNCHANGED <<rules, history>> /\ ~AtRules(c) /\ cmd'[c].todo = 1
             /\ cmd'[c].at \notin {"reset", "create"}
  <2>1. Ends(c) \/ Goto(c, "list") \/ Goto(c, "new_product")
    BY <1>2 DEF ListProducts, CreateProduct
  <2>2. ~AtRules(c) /\ UNCHANGED <<rules, history>>
    BY <1>2 DEF ListProducts, CreateProduct, AtRules
  <2>3. product' \in BOOLEAN
    BY <1>2, <1>t DEF ListProducts, CreateProduct
  <2>4. cmd[c].todo = 1
    BY <2>2 DEF NotBegun
  <2>5. /\ cmd' \in [Caller -> Commands] /\ Only(c) /\ cmd'[c].todo = 1
        /\ cmd'[c].at \notin {"reset", "create"}
    BY <2>1, <2>4, EndsIs, GotoIs, NoCommandType DEF Steps
  <2> QED BY <2>2, <2>3, <2>5
<1>3. ASSUME ListRules(c)
      PROVE  /\ cmd' \in [Caller -> Commands] /\ Only(c) /\ product' \in BOOLEAN
             /\ UNCHANGED <<rules, history>> /\ ~AtRules(c) /\ cmd'[c].todo = 1
             /\ cmd'[c].at \in {"reset", "create"} => cmd'[c].known = Present
  <2>1. /\ ~AtRules(c) /\ UNCHANGED <<rules, history>> /\ product' \in BOOLEAN
    BY <1>3, <1>t DEF ListRules, AtRules
  <2>2. cmd[c].todo = 1
    BY <2>1 DEF NotBegun
  <2>3. CASE Ends(c)
    BY <2>1, <2>3, EndsIs, NoCommandType
  <2>4. CASE ~Ends(c)
    <3> DEFINE at == IF cmd[c].force THEN "reset" ELSE "create"
               new == [cmd[c] EXCEPT !.known = Present, !.at = at]
    <3>1. cmd' = [cmd EXCEPT ![c] = new]
      BY <1>3, <2>4 DEF ListRules
    <3>2. Present \in SUBSET Rule /\ at \in Steps /\ cmd[c] \in Commands
      BY <1>t DEF Present, Steps
    <3>3. new \in Commands /\ new.todo = 1 /\ new.known = Present
      BY <2>2, <3>2 DEF Commands
    <3> HIDE DEF new
    <3>4. cmd' \in [Caller -> Commands] /\ Only(c) /\ cmd'[c] = new
      BY <1>t, <3>1, <3>3 DEF Only
    <3> QED BY <2>1, <3>3, <3>4
  <2> QED BY <2>3, <2>4
<1> QED BY <1>1, <1>2, <1>3 DEF Outside

\* A turn of the loop that removes: the rule is left and stays known, or it is gone and
\* every other command at the rules has lost it.  Only a removal that was not answered
\* leaves a rule known that is gone by it (delete_alarm_rule).
Resets(c, gone) ==
  /\ rules' = [r \in Rule |-> IF r \in gone THEN "absent" ELSE rules[r]]
  /\ cmd' \in [Caller -> Commands] /\ UNCHANGED <<product, promised, reset>>
  /\ cmd[c].at = "reset" /\ cmd'[c].dropped = cmd[c].dropped
  /\ cmd'[c].known \in SUBSET cmd[c].known
  /\ unheard \subseteq unheard' /\ unheard' \subseteq unheard \cup gone
  /\ \A r \in gone \cap cmd'[c].known : There(r) => r \in unheard'
  /\ cmd'[c].at = "reset" \/ (cmd'[c].at = "create" /\ cmd'[c].todo = 1)
  /\ \A d \in Caller \ {c} :
       /\ cmd'[d].at = cmd[d].at /\ cmd'[d].known = cmd[d].known
       /\ cmd'[d].todo = cmd[d].todo /\ cmd'[d].failed = cmd[d].failed
       /\ cmd'[d].force = cmd[d].force
       /\ cmd[d].dropped \subseteq cmd'[d].dropped
       /\ AtRules(d) => gone \subseteq cmd'[d].dropped

\* Each of its turns, whether it asks the server or skips a rule that is not there.
LEMMA ResetDoes ==
  ASSUME TypeOK, NEW c \in Caller, ResetSkips(c) \/ ResetRule(c)
  PROVE  \E gone \in {{}, {cmd[c].todo}} : Resets(c, gone)
<1> DEFINE t == cmd[c].todo
<1>a. cmd \in [Caller -> Commands] /\ cmd[c] \in Commands /\ t \in Rule
  BY DEF TypeOK, Commands
<1>b. cmd[c].at = "reset" /\ UNCHANGED <<product, promised, reset>>
  BY DEF ResetSkips, ResetRule, history
<1>c. rules = [r \in Rule |-> IF r \in {} THEN "absent" ELSE rules[r]]
  BY DEF TypeOK
<1>1. ASSUME NEW known \in SUBSET cmd[c].known, known = cmd[c].known, rules' = rules,
             cmd' = [cmd EXCEPT ![c] = AfterReset([cmd[c] EXCEPT !.known = known])]
      PROVE  /\ rules' = [r \in Rule |-> IF r \in {} THEN "absent" ELSE rules[r]]
             /\ cmd' \in [Caller -> Commands] /\ cmd'[c].dropped = cmd[c].dropped
             /\ cmd'[c].known = cmd[c].known
             /\ cmd'[c].at = "reset" \/ (cmd'[c].at = "create" /\ cmd'[c].todo = 1)
             /\ Only(c)
  <2> DEFINE k == [cmd[c] EXCEPT !.known = known]
  <2>1. k \in Commands /\ k.at = "reset" /\ k.known = cmd[c].known /\ k.dropped = cmd[c].dropped
    BY <1>1, <1>a, <1>b DEF Commands
  <2>2. /\ AfterReset(k) \in Commands
        /\ AfterReset(k).known = cmd[c].known /\ AfterReset(k).dropped = cmd[c].dropped
        /\ \/ AfterReset(k).at = "reset"
           \/ AfterReset(k).at = "create" /\ AfterReset(k).todo = 1
    BY <2>1, AfterResetIs
  <2> HIDE DEF k
  <2>3. cmd' = [cmd EXCEPT ![c] = AfterReset(k)]
    BY <1>1 DEF k
  <2>4. cmd' \in [Caller -> Commands] /\ cmd'[c] = AfterReset(k) /\ Only(c)
    BY <1>a, <2>2, <2>3 DEF Only
  <2>5. rules' = [r \in Rule |-> IF r \in {} THEN "absent" ELSE rules[r]]
    BY <1>1, <1>c
  <2> QED BY <2>2, <2>4, <2>5
<1>2. CASE ResetSkips(c)
  <2>1. [cmd[c] EXCEPT !.known = cmd[c].known] = cmd[c]
    BY <1>a DEF Commands
  <2>2. /\ rules' = rules
        /\ cmd' = [cmd EXCEPT ![c] = AfterReset([cmd[c] EXCEPT !.known = cmd[c].known])]
    BY <1>2, <2>1 DEF ResetSkips
  <2>3. unheard' = unheard
    BY <1>2 DEF ResetSkips, history
  <2> QED BY <1>b, <1>1, <2>2, <2>3 DEF Only, Resets
<1>3. CASE ResetRule(c)
  <2> DEFINE K(o) == KnownAfter(cmd[c].known, t, o)
  <2>1. PICK o \in Answers :
          LET mine == AfterReset([cmd[c] EXCEPT !.known = K(o)]) IN
          /\ unheard' = IF o = "unheard" THEN unheard \cup ({t} \cap Present) ELSE unheard
          /\ IF Done(o)
             THEN /\ rules' = [rules EXCEPT ![t] = "absent"]
                  /\ cmd' = [d \in Caller |->
                       IF d = c THEN mine
                       ELSE IF AtRules(d)
                            THEN [cmd[d] EXCEPT !.dropped = @ \cup {t}] ELSE cmd[d]]
             ELSE rules' = rules /\ cmd' = [cmd EXCEPT ![c] = mine]
    BY <1>3 DEF ResetRule
  <2>2. CASE ~Done(o)
    <3>1. K(o) = cmd[c].known
      BY <2>2 DEF KnownAfter, Done
    <3>2. rules' = rules /\ cmd' = [cmd EXCEPT ![c] = AfterReset([cmd[c] EXCEPT !.known = K(o)])]
      BY <2>1, <2>2
    <3>3. unheard' = unheard
      BY <2>1, <2>2 DEF Done
    <3> HIDE DEF K
    <3> QED BY <1>b, <1>1, <3>1, <3>2, <3>3 DEF Only, Resets
  <2>3. CASE Done(o)
    <3> DEFINE k == [cmd[c] EXCEPT !.known = K(o)]
               other(d) == IF AtRules(d)
                           THEN [cmd[d] EXCEPT !.dropped = @ \cup {t}] ELSE cmd[d]
    <3>1. /\ K(o) \in SUBSET cmd[c].known
          /\ t \in K(o) => o = "unheard"
      BY <2>3 DEF KnownAfter, Done
    <3>2. k \in Commands /\ k.at = "reset" /\ k.known = K(o) /\ k.dropped = cmd[c].dropped
      <4> HIDE DEF K
      <4> QED BY <1>a, <1>b, <3>1 DEF Commands
    <3>3. /\ AfterReset(k) \in Commands
          /\ AfterReset(k).known = K(o) /\ AfterReset(k).dropped = cmd[c].dropped
          /\ \/ AfterReset(k).at = "reset"
             \/ AfterReset(k).at = "create" /\ AfterReset(k).todo = 1
      <4> HIDE DEF K, k
      <4> QED BY <3>2, AfterResetIs
    <3>4. /\ rules' = [rules EXCEPT ![t] = "absent"]
          /\ cmd' = [d \in Caller |-> IF d = c THEN AfterReset(k) ELSE other(d)]
      BY <2>1, <2>3
    <3>5. ASSUME NEW d \in Caller
          PROVE  /\ other(d) \in Commands
                 /\ other(d).at = cmd[d].at /\ other(d).known = cmd[d].known
                 /\ other(d).todo = cmd[d].todo /\ other(d).failed = cmd[d].failed
                 /\ other(d).force = cmd[d].force
                 /\ cmd[d].dropped \subseteq other(d).dropped
                 /\ AtRules(d) => {t} \subseteq other(d).dropped
      <4>1. cmd[d] \in Commands
        BY <1>a
      <4> HIDE DEF t
      <4> QED BY <1>a, <4>1 DEF Commands, AtRules
    <3>6. rules' = [r \in Rule |-> IF r \in {t} THEN "absent" ELSE rules[r]]
      BY <3>4, <1>a DEF TypeOK
    <3>9. /\ unheard \subseteq unheard' /\ unheard' \subseteq unheard \cup {t}
          /\ t \in K(o) => (There(t) => t \in unheard')
      <4>1. unheard' = IF o = "unheard" THEN unheard \cup ({t} \cap Present) ELSE unheard
        BY <2>1
      <4>2. rules[t] # "absent" => t \in Present
        BY <1>a DEF Present
      <4> HIDE DEF K, t
      <4> QED BY <3>1, <4>1, <4>2 DEF There
    <3> HIDE DEF k, K, other, t
    <3>7. cmd' \in [Caller -> Commands] /\ cmd'[c] = AfterReset(k)
      BY <3>3, <3>4, <3>5
    <3>8. \A d \in Caller \ {c} : cmd'[d] = other(d)
      BY <3>4
    <3> QED BY <1>b, <3>1, <3>3, <3>5, <3>6, <3>7, <3>8, <3>9 DEF t, Resets
  <2> QED BY <2>2, <2>3
<1> QED BY <1>2, <1>3

\* A turn of the loop that creates: no rule changes but from absent to default, a turn that
\* did not fail leaves its rule known or new, and the last one is the end of the command
\* (create_alarm_rule).
Creates(c, failed) ==
  /\ rules' \in [Rule -> RuleStates]
  /\ \A r \in Rule : rules'[r] # rules[r] => rules[r] = "absent" /\ rules'[r] = "default"
  /\ cmd' \in [Caller -> Commands] /\ Only(c) /\ UNCHANGED product
  /\ cmd[c].at = "create"
  /\ failed \in {cmd[c].failed, cmd[c].failed \cup {cmd[c].todo}}
  /\ cmd[c].todo \notin failed =>
       cmd[c].todo \in cmd[c].known \/ rules'[cmd[c].todo] = "default"
  /\ unheard' \subseteq unheard /\ \A r \in unheard \ unheard' : rules'[r] # "absent"
  /\ \/ /\ cmd[c].todo < NRules /\ UNCHANGED <<promised, reset>>
        /\ cmd'[c].at = "create" /\ cmd'[c].todo = cmd[c].todo + 1
        /\ cmd'[c].failed = failed /\ cmd'[c].force = cmd[c].force
        /\ cmd'[c].known = cmd[c].known /\ cmd'[c].dropped = cmd[c].dropped
     \/ /\ cmd[c].todo = NRules /\ cmd'[c] = NoCommand
        /\ promised' = IF failed = {} THEN promised \cup (Rule \ cmd[c].dropped)
                       ELSE promised \ failed
        /\ reset' = IF cmd[c].force
                    THEN Rule \ (cmd[c].known \cup cmd[c].dropped \cup failed) ELSE reset

\* Each of its turns, whether it asks the server or skips a rule that is there.
LEMMA CreateDoes ==
  ASSUME TypeOK, NEW c \in Caller, CreateSkips(c) \/ CreateRule(c)
  PROVE  \E failed \in SUBSET Rule : Creates(c, failed)
<1> DEFINE t == cmd[c].todo
<1>a. cmd \in [Caller -> Commands] /\ cmd[c] \in Commands /\ t \in Rule
  BY DEF TypeOK, Commands
<1>n. NRules \in Nat /\ t \in Nat /\ t <= NRules
  BY <1>a, AccountAssumption DEF Rule
<1>1. cmd[c].at = "create" /\ UNCHANGED product
  BY DEF CreateSkips, CreateRule
<1>2. ASSUME NEW failed \in SUBSET Rule, Created(c, failed)
      PROVE  /\ cmd' \in [Caller -> Commands] /\ Only(c)
             /\ \/ /\ t < NRules /\ UNCHANGED <<promised, reset>>
                   /\ cmd'[c].at = "create" /\ cmd'[c].todo = t + 1
                   /\ cmd'[c].failed = failed /\ cmd'[c].force = cmd[c].force
                   /\ cmd'[c].known = cmd[c].known /\ cmd'[c].dropped = cmd[c].dropped
                \/ /\ t = NRules /\ cmd'[c] = NoCommand
                   /\ promised' = IF failed = {} THEN promised \cup (Rule \ cmd[c].dropped)
                                  ELSE promised \ failed
                   /\ reset' = IF cmd[c].force
                               THEN Rule \ (cmd[c].known \cup cmd[c].dropped \cup failed)
                               ELSE reset
  <2>1. CASE t < NRules
    <3> DEFINE new == [cmd[c] EXCEPT !.todo = t + 1, !.failed = failed]
    <3>1. cmd' = [cmd EXCEPT ![c] = new] /\ UNCHANGED <<promised, reset>>
      BY <1>2, <2>1 DEF Created
    <3>2. t + 1 \in Rule
      BY <1>a, <2>1, AccountAssumption DEF Rule
    <3>3. /\ new \in Commands /\ new.at = "create" /\ new.todo = t + 1
          /\ new.failed = failed /\ new.force = cmd[c].force
          /\ new.known = cmd[c].known /\ new.dropped = cmd[c].dropped
      <4> HIDE DEF t
      <4> QED BY <1>a, <1>1, <1>2, <3>2 DEF Commands
    <3> HIDE DEF new
    <3>4. cmd' \in [Caller -> Commands] /\ Only(c) /\ cmd'[c] = new
      BY <1>a, <3>1, <3>3 DEF Only
    <3> QED BY <2>1, <3>1, <3>3, <3>4
  <2>2. CASE ~(t < NRules)
    <3>1. t = NRules
      BY <1>n, <2>2
    <3>2. cmd' \in [Caller -> Commands] /\ Only(c) /\ cmd'[c] = NoCommand
      BY <1>2, <2>2, EndsIs DEF Created
    <3> QED BY <1>2, <2>2, <3>1, <3>2 DEF Created
  <2> QED BY <2>1, <2>2
<1>3. CASE CreateSkips(c)
  <2>1. cmd[c].failed \in SUBSET Rule
    BY <1>a DEF Commands
  <2>2. /\ Created(c, cmd[c].failed) /\ t \in cmd[c].known /\ rules' = rules
        /\ unheard' = unheard
    BY <1>3 DEF CreateSkips
  <2>3. rules' \in [Rule -> RuleStates]
    BY <2>2 DEF TypeOK
  <2> QED BY <1>1, <1>2, <2>1, <2>2, <2>3 DEF Creates
<1>4. CASE CreateRule(c)
  <2>1. PICK o \in Answers :
          /\ rules' = IF Done(o) /\ rules[t] = "absent"
                      THEN [rules EXCEPT ![t] = "default"] ELSE rules
          /\ unheard' = IF Done(o) THEN unheard \ {t} ELSE unheard
          /\ Created(c, IF o # "ok" \/ Collides(t) THEN cmd[c].failed \cup {t}
                        ELSE cmd[c].failed)
    BY <1>4 DEF CreateRule
  <2> DEFINE failed == IF o # "ok" \/ Collides(t) THEN cmd[c].failed \cup {t}
                       ELSE cmd[c].failed
  <2>2. cmd[c].failed \in SUBSET Rule
    BY <1>a DEF Commands
  <2>3. /\ failed \in SUBSET Rule /\ Created(c, failed)
        /\ failed \in {cmd[c].failed, cmd[c].failed \cup {t}}
    BY <2>1, <2>2, <1>a
  <2>4. /\ rules' \in [Rule -> RuleStates]
        /\ \A r \in Rule : rules'[r] # rules[r] => rules[r] = "absent" /\ rules'[r] = "default"
    BY <2>1, <1>a DEF TypeOK, RuleStates
  <2>5. t \notin failed => rules'[t] = "default"
    <3> SUFFICES ASSUME t \notin failed PROVE rules'[t] = "default"
      OBVIOUS
    <3>1. o = "ok" /\ rules[t] = "absent"
      BY DEF Collides
    <3>2. rules' = [rules EXCEPT ![t] = "default"]
      BY <2>1, <3>1 DEF Done
    <3> QED BY <1>a, <3>2 DEF TypeOK
  <2>6. unheard' \subseteq unheard /\ \A r \in unheard \ unheard' : rules'[r] # "absent"
    <3>1. Done(o) => rules'[t] # "absent"
      BY <2>1, <1>a DEF TypeOK
    <3> QED BY <2>1, <3>1
  <2> HIDE DEF failed
  <2> QED BY <1>1, <1>2, <2>3, <2>4, <2>5, <2>6 DEF Creates
<1> QED BY <1>3, <1>4

\* The user's edit makes one default rule an edited one, and only a command that creates
\* rules after it removed them takes note.
LEMMA EditDoes ==
  ASSUME TypeOK, NEW r \in Rule, Edit(r)
  PROVE  /\ rules' \in [Rule -> RuleStates] /\ rules[r] = "default" /\ rules'[r] = "edited"
         /\ \A q \in Rule \ {r} : rules'[q] = rules[q]
         /\ cmd' \in [Caller -> Commands] /\ UNCHANGED <<product, promised, unheard>>
         /\ reset' = reset \ {r}
         /\ \A c \in Caller :
              /\ cmd'[c].at = cmd[c].at /\ cmd'[c].known = cmd[c].known
              /\ cmd'[c].todo = cmd[c].todo /\ cmd'[c].failed = cmd[c].failed
              /\ cmd'[c].force = cmd[c].force
              /\ cmd[c].dropped \subseteq cmd'[c].dropped
              /\ cmd[c].force /\ cmd[c].at = "create" => r \in cmd'[c].dropped
<1> DEFINE new(c) == [cmd[c] EXCEPT !.dropped =
                        IF cmd[c].force /\ cmd[c].at = "create" THEN @ \cup {r} ELSE @]
<1>1. ASSUME NEW c \in Caller
      PROVE  /\ new(c) \in Commands
             /\ new(c).at = cmd[c].at /\ new(c).known = cmd[c].known
             /\ new(c).todo = cmd[c].todo /\ new(c).failed = cmd[c].failed
             /\ new(c).force = cmd[c].force
             /\ cmd[c].dropped \subseteq new(c).dropped
             /\ cmd[c].force /\ cmd[c].at = "create" => r \in new(c).dropped
  BY DEF TypeOK, Commands
<1>2. cmd' = [c \in Caller |-> new(c)]
  BY DEF Edit
<1> HIDE DEF new
<1>3. cmd' \in [Caller -> Commands] /\ \A c \in Caller : cmd'[c] = new(c)
  BY <1>1, <1>2
<1>4. /\ rules' \in [Rule -> RuleStates] /\ rules[r] = "default" /\ rules'[r] = "edited"
      /\ \A q \in Rule \ {r} : rules'[q] = rules[q]
  BY DEF Edit, TypeOK, RuleStates
<1> QED BY <1>1, <1>3, <1>4 DEF Edit

\* What a command and its user do, in four kinds of step.
LEMMA NextKinds ==
  ASSUME [Next]_vars
  PROVE  \/ \E c \in Caller : Outside(c)
         \/ \E c \in Caller : ResetSkips(c) \/ ResetRule(c)
         \/ \E c \in Caller : CreateSkips(c) \/ CreateRule(c)
         \/ \E r \in Rule : Edit(r)
         \/ UNCHANGED vars
BY DEF Next, Runs, Outside

-----------------------------------------------------------------------------
(* Types, and where a command is that is not at the rules.                  *)

\* Initially no command runs and the account has no rule.
LEMMA InitHolds ==
  ASSUME Init
  PROVE  TypeOK /\ PromiseInv /\ ResetInv
<1>1. TypeOK
  BY NoCommandType DEF Init, TypeOK, RuleStates
<1>2. \A c \in Caller : cmd[c] = NoCommand
  BY DEF Init
<1> QED
  BY <1>1, <1>2, NoCommandType DEF Init, PromiseInv, ResetInv, NotBegun, PromisesKept,
     KnownPresent, PassedPresent, PassedDefault, ResetUnedited, AtRules

\* A step keeps the types, and resets the loop's counter before and after the rules.
LEMMA NextKeepsTypes ==
  ASSUME TypeOK, NotBegun, [Next]_vars
  PROVE  TypeOK' /\ NotBegun'
<1>t. /\ product \in BOOLEAN /\ rules \in [Rule -> RuleStates] /\ cmd \in [Caller -> Commands]
      /\ promised \subseteq Rule /\ reset \subseteq Rule /\ unheard \subseteq Rule
  BY DEF TypeOK
<1>1. CASE \E c \in Caller : Outside(c)
  <2>1. PICK c \in Caller : Outside(c)
    BY <1>1
  <2>2. /\ cmd' \in [Caller -> Commands] /\ Only(c) /\ product' \in BOOLEAN
        /\ UNCHANGED <<rules, history>> /\ cmd'[c].todo = 1
    BY <2>1, OutsideDoes
  <2>3. TypeOK'
    BY <1>t, <2>2 DEF TypeOK, history
  <2>4. NotBegun'
    BY <2>2 DEF NotBegun, AtRules, Only
  <2> QED BY <2>3, <2>4
<1>2. CASE \E c \in Caller : ResetSkips(c) \/ ResetRule(c)
  <2>1. PICK c \in Caller : ResetSkips(c) \/ ResetRule(c)
    BY <1>2
  <2>2. PICK gone \in {{}, {cmd[c].todo}} : Resets(c, gone)
    BY <2>1, ResetDoes
  <2>3. rules' \in [Rule -> RuleStates]
    BY <1>t, <2>2 DEF RuleStates, Resets
  <2>6. gone \subseteq Rule
    BY <2>2 DEF TypeOK, Commands
  <2>4. TypeOK'
    BY <1>t, <2>2, <2>3, <2>6 DEF TypeOK, Resets
  <2>5. NotBegun'
    BY <2>2 DEF NotBegun, AtRules, Resets
  <2> QED BY <2>4, <2>5
<1>3. CASE \E c \in Caller : CreateSkips(c) \/ CreateRule(c)
  <2>1. PICK c \in Caller : CreateSkips(c) \/ CreateRule(c)
    BY <1>3
  <2>2. PICK failed \in SUBSET Rule : Creates(c, failed)
    BY <2>1, CreateDoes
  <2>3. promised' \subseteq Rule /\ reset' \subseteq Rule
    BY <1>t, <2>2 DEF Creates
  <2>4. TypeOK'
    BY <1>t, <2>2, <2>3 DEF TypeOK, Creates
  <2>5. NotBegun'
    BY <2>2, NoCommandType DEF NotBegun, AtRules, Only, Creates
  <2> QED BY <2>4, <2>5
<1>4. CASE \E r \in Rule : Edit(r)
  <2>1. PICK r \in Rule : Edit(r)
    BY <1>4
  <2>2. /\ rules' \in [Rule -> RuleStates] /\ cmd' \in [Caller -> Commands]
        /\ UNCHANGED <<product, promised, unheard>> /\ reset' = reset \ {r}
        /\ \A c \in Caller : cmd'[c].at = cmd[c].at /\ cmd'[c].todo = cmd[c].todo
    BY <2>1, EditDoes
  <2> QED BY <1>t, <2>2 DEF TypeOK, NotBegun, AtRules
<1>5. CASE UNCHANGED vars
  BY <1>5 DEF vars, history, TypeOK, NotBegun, AtRules
<1> QED BY <1>1, <1>2, <1>3, <1>4, <1>5, NextKinds

\* Every variable keeps its type, whatever the server answers and the commands interleave.
THEOREM AccountTypeCorrect == Spec => []TypeOK
<1>1. Init => TypeOK /\ NotBegun
  BY InitHolds DEF PromiseInv
<1>2. TypeOK /\ NotBegun /\ [Next]_vars => TypeOK' /\ NotBegun'
  BY NextKeepsTypes
<1> QED BY <1>1, <1>2, PTL DEF Spec

-----------------------------------------------------------------------------
(* A rule that a command reported is there.                                 *)

\* A step that removes no rule and lets a command get to the rules breaks no promise.
LEMMA OutsideKeepsPromises ==
  ASSUME TypeOK, PromiseInv, NEW c \in Caller, Outside(c)
  PROVE  PromisesKept' /\ KnownPresent' /\ PassedPresent'
<1>1. /\ Only(c) /\ UNCHANGED <<rules, history>> /\ ~AtRules(c) /\ cmd'[c].todo = 1
      /\ cmd'[c].at \in {"reset", "create"} => cmd'[c].known = Present
  BY OutsideDoes DEF PromiseInv
<1>2. PromisesKept'
  BY <1>1 DEF PromiseInv, PromisesKept, Owes, There, AtRules, Only, history
<1>3. KnownPresent'
  BY <1>1 DEF PromiseInv, KnownPresent, Present, There, AtRules, Only, history
<1>4. PassedPresent'
  <2>1. ASSUME NEW d \in Caller \ {c},
               NEW r \in Rule \ (cmd'[d].dropped \cup cmd'[d].failed),
               cmd'[d].at = "create", r < cmd'[d].todo
        PROVE  There(r)'
    BY <1>1, <2>1 DEF PromiseInv, PassedPresent, There, Only, history
  <2>2. ASSUME NEW r \in Rule PROVE ~(r < cmd'[c].todo)
    BY <1>1 DEF Rule
  <2> QED BY <2>1, <2>2 DEF PassedPresent
<1> QED BY <1>2, <1>3, <1>4

\* A rule that --force removes is owed by the command that removed it.
LEMMA ResetKeepsPromises ==
  ASSUME TypeOK, PromiseInv, NEW c \in Caller, ResetSkips(c) \/ ResetRule(c)
  PROVE  PromisesKept' /\ KnownPresent' /\ PassedPresent'
<1>p. PICK gone \in {{}, {cmd[c].todo}} : Resets(c, gone)
  BY ResetDoes
<1>1. /\ rules' = [r \in Rule |-> IF r \in gone THEN "absent" ELSE rules[r]]
      /\ UNCHANGED promised /\ unheard \subseteq unheard'
      /\ cmd[c].at = "reset" /\ cmd'[c].dropped = cmd[c].dropped
      /\ cmd'[c].known \in SUBSET cmd[c].known
      /\ \A r \in gone \cap cmd'[c].known : There(r) => r \in unheard'
      /\ cmd'[c].at = "reset" \/ (cmd'[c].at = "create" /\ cmd'[c].todo = 1)
      /\ \A d \in Caller \ {c} :
           /\ cmd'[d].at = cmd[d].at /\ cmd'[d].known = cmd[d].known
           /\ cmd'[d].todo = cmd[d].todo /\ cmd'[d].failed = cmd[d].failed
           /\ cmd[d].dropped \subseteq cmd'[d].dropped
           /\ AtRules(d) => gone \subseteq cmd'[d].dropped
  BY <1>p DEF Resets
<1>t. promised \subseteq Rule /\ \A r \in Rule : 1 <= r /\ ~(r < 1)
  BY DEF TypeOK, Rule
\* a rule it leaves stays as it was
<1>s. ASSUME NEW r \in Rule \ gone, There(r) PROVE There(r)'
  BY <1>1, <1>s DEF There
<1>2. PromisesKept'
  <2>1. ASSUME NEW r \in promised, ~There(r)'
        PROVE  \E d \in Caller : Owes(d, r)'
    <3>1. CASE r \in gone /\ There(r)
      <4>1. r \notin cmd'[c].known
        BY <1>1, <2>1, <3>1 DEF There
      <4> QED BY <1>1, <1>t, <4>1 DEF Owes
    <3>2. CASE ~There(r)
      <4>1. PICK d \in Caller : Owes(d, r)
        BY <3>2 DEF PromiseInv, PromisesKept
      <4>2. CASE d = c
        <5>1. r \notin cmd'[c].known
          BY <1>1, <4>1, <4>2 DEF Owes
        <5> QED BY <1>1, <1>t, <5>1 DEF Owes
      <4>3. CASE d # c
        BY <1>1, <4>1, <4>3 DEF Owes
      <4> QED BY <4>2, <4>3
    <3>3. There(r) => r \in gone
      BY <1>s, <1>t, <2>1
    <3> QED BY <3>1, <3>2, <3>3
  <2> QED BY <1>1, <2>1 DEF PromisesKept
<1>3. KnownPresent'
  <2>1. ASSUME NEW d \in Caller, AtRules(d)', NEW r \in cmd'[d].known \ cmd'[d].dropped
        PROVE  There(r)'
    <3>1. AtRules(d) /\ r \in cmd[d].known \ cmd[d].dropped
      BY <1>1, <2>1 DEF AtRules
    <3>2. r \in Rule /\ There(r)
      BY <3>1 DEF PromiseInv, KnownPresent, TypeOK, Commands
    <3>3. CASE r \notin gone
      BY <1>s, <3>2, <3>3
    <3>4. CASE r \in gone
      <4>1. d = c
        BY <1>1, <2>1, <3>1, <3>4
      <4> QED BY <1>1, <2>1, <3>2, <3>4, <4>1 DEF There
    <3> QED BY <3>3, <3>4
  <2> QED BY <2>1 DEF KnownPresent
<1>4. PassedPresent'
  <2>1. ASSUME NEW d \in Caller, cmd'[d].at = "create",
               NEW r \in Rule \ (cmd'[d].dropped \cup cmd'[d].failed), r < cmd'[d].todo
        PROVE  There(r)'
    <3>1. d # c
      BY <1>1, <1>t, <2>1
    <3>2. r \notin gone /\ There(r)
      BY <1>1, <2>1, <3>1 DEF PromiseInv, PassedPresent, AtRules
    <3> QED BY <1>s, <3>2
  <2> QED BY <2>1 DEF PassedPresent
<1> QED BY <1>2, <1>3, <1>4

\* What a command has come past when it reports success is there, and a turn that brings
\* a rule back pays what was owed.
LEMMA CreateKeepsPromises ==
  ASSUME TypeOK, PromiseInv, NEW c \in Caller, CreateSkips(c) \/ CreateRule(c)
  PROVE  PromisesKept' /\ KnownPresent' /\ PassedPresent'
<1> DEFINE t == cmd[c].todo
<1>p. PICK failed \in SUBSET Rule : Creates(c, failed)
  BY CreateDoes
<1>1. /\ rules' \in [Rule -> RuleStates]
      /\ \A r \in Rule : rules'[r] # rules[r] => rules[r] = "absent" /\ rules'[r] = "default"
      /\ Only(c) /\ cmd[c].at = "create"
      /\ cmd[c].failed \subseteq failed
      /\ t \notin failed => t \in cmd[c].known \/ rules'[t] = "default"
      /\ \A r \in unheard \ unheard' : rules'[r] # "absent"
      /\ \/ /\ t < NRules /\ UNCHANGED promised
            /\ cmd'[c].at = "create" /\ cmd'[c].todo = t + 1
            /\ cmd'[c].failed = failed
            /\ cmd'[c].known = cmd[c].known /\ cmd'[c].dropped = cmd[c].dropped
         \/ /\ t = NRules /\ cmd'[c] = NoCommand
            /\ promised' = IF failed = {} THEN promised \cup (Rule \ cmd[c].dropped)
                           ELSE promised \ failed
  BY <1>p DEF Creates
<1>t. /\ promised \subseteq Rule /\ t \in Rule /\ cmd[c].known \subseteq Rule
      /\ t \in Nat /\ NRules \in Nat /\ \A r \in Rule : r \in Nat /\ r <= NRules
  BY AccountAssumption DEF TypeOK, Commands, Rule
<1>2. \A r \in Rule : There(r) => There(r)'
  BY <1>1 DEF There
\* what it has come past without a failure, this rule included, is there
<1>3. ASSUME NEW r \in Rule \ (cmd[c].dropped \cup failed), r <= t
      PROVE  There(r)'
  <2>1. CASE r < t
    BY <1>1, <1>2, <1>3, <2>1 DEF PromiseInv, PassedPresent
  <2>2. CASE r = t
    <3>1. CASE t \in cmd[c].known
      BY <1>1, <1>2, <1>3, <2>2, <3>1 DEF PromiseInv, KnownPresent, AtRules
    <3>2. CASE rules'[t] = "default"
      BY <2>2, <3>2 DEF There
    <3> QED BY <1>1, <1>3, <2>2, <3>1, <3>2
  <2>3. r < t \/ r = t
    BY <1>t, <1>3
  <2> QED BY <2>1, <2>2, <2>3
\* what it owed and does not owe any more is there, or it reports the failure
<1>4. ASSUME NEW r \in Rule, Owes(c, r), ~There(r)', r \notin failed
      PROVE  r \notin cmd[c].known /\ t < r
  <2>1. r \notin cmd[c].known /\ t <= r
    BY <1>1, <1>4 DEF Owes
  <2>2. r # t
    BY <1>1, <1>4, <2>1 DEF There
  <2> QED BY <1>t, <2>1, <2>2
<1>5. PromisesKept'
  <2>1. ASSUME NEW r \in promised, r \in promised', ~There(r)'
        PROVE  \E d \in Caller : Owes(d, r)'
    <3>1. ~There(r) /\ r \in Rule
      BY <1>2, <1>t, <2>1
    <3>2. PICK d \in Caller : Owes(d, r)
      BY <3>1 DEF PromiseInv, PromisesKept
    <3>3. CASE d # c
      BY <1>1, <3>2, <3>3 DEF Owes, Only
    <3>4. CASE d = c
      <4>1. CASE r \in failed
        BY <1>1, <2>1, <4>1 DEF Owes
      <4>2. CASE r \notin failed
        <5>1. r \notin cmd[c].known /\ t < r
          BY <1>4, <2>1, <3>1, <3>2, <3>4, <4>2
        <5>2. t < NRules /\ t + 1 <= r
          BY <1>t, <3>1, <5>1
        <5>3. t # NRules
          BY <1>t, <5>2
        <5> QED BY <1>1, <5>1, <5>2, <5>3 DEF Owes
      <4> QED BY <4>1, <4>2
    <3> QED BY <3>3, <3>4
  <2>2. ASSUME NEW r \in promised' \ promised PROVE There(r)'
    <3>1. t = NRules /\ failed = {} /\ r \in Rule \ cmd[c].dropped
      BY <1>1, <2>2
    <3>2. r \in Rule \ (cmd[c].dropped \cup failed) /\ r <= t
      BY <1>t, <3>1
    <3> QED BY <1>3, <3>2
  <2> QED BY <2>1, <2>2 DEF PromisesKept
<1>6. KnownPresent'
  <2>1. ASSUME NEW d \in Caller, AtRules(d)', NEW r \in cmd'[d].known \ cmd'[d].dropped
        PROVE  There(r)'
    <3>1. AtRules(d) /\ r \in cmd[d].known \ cmd[d].dropped
      BY <1>1, <2>1, NoCommandType DEF AtRules, Only
    <3>2. r \in Rule /\ There(r)
      BY <3>1 DEF PromiseInv, KnownPresent, TypeOK, Commands
    <3> QED BY <1>2, <3>2
  <2> QED BY <2>1 DEF KnownPresent
<1>7. PassedPresent'
  <2>1. ASSUME NEW d \in Caller, cmd'[d].at = "create",
               NEW r \in Rule \ (cmd'[d].dropped \cup cmd'[d].failed), r < cmd'[d].todo
        PROVE  There(r)'
    <3>1. CASE d # c
      BY <1>1, <1>2, <2>1, <3>1 DEF PromiseInv, PassedPresent, Only
    <3>2. CASE d = c
      <4>1. /\ cmd'[c].todo = t + 1 /\ cmd'[c].failed = failed
            /\ cmd'[c].dropped = cmd[c].dropped
        BY <1>1, <2>1, <3>2, NoCommandType
      <4>2. r <= t
        BY <1>t, <2>1, <3>2, <4>1
      <4> QED BY <1>3, <2>1, <3>2, <4>1, <4>2
    <3> QED BY <3>1, <3>2
  <2> QED BY <2>1 DEF PassedPresent
<1> QED BY <1>5, <1>6, <1>7

\* The user's edit leaves a rule that is there, and every command its promises.
LEMMA EditKeepsPromises ==
  ASSUME TypeOK, PromiseInv, NEW q \in Rule, Edit(q)
  PROVE  PromisesKept' /\ KnownPresent' /\ PassedPresent'
<1>1. /\ \A r \in Rule : There(r) <=> There(r)'
      /\ UNCHANGED promised
      /\ \A c \in Caller :
           /\ cmd'[c].at = cmd[c].at /\ cmd'[c].known = cmd[c].known
           /\ cmd'[c].todo = cmd[c].todo /\ cmd'[c].failed = cmd[c].failed
           /\ cmd[c].dropped \subseteq cmd'[c].dropped
  BY EditDoes DEF There
<1>t. promised \subseteq Rule /\ \A c \in Caller : cmd[c].known \subseteq Rule
  BY DEF TypeOK, Commands
<1>2. PromisesKept'
  <2>1. ASSUME NEW r \in promised, ~There(r)
        PROVE  \E c \in Caller : Owes(c, r)'
    <3>1. PICK c \in Caller : Owes(c, r)
      BY <2>1 DEF PromiseInv, PromisesKept
    <3> QED BY <1>1, <3>1 DEF Owes
  <2> QED BY <1>1, <1>t, <2>1 DEF PromisesKept
<1>3. KnownPresent'
  BY <1>1, <1>t DEF PromiseInv, KnownPresent, AtRules
<1>4. PassedPresent'
  BY <1>1 DEF PromiseInv, PassedPresent
<1> QED BY <1>2, <1>3, <1>4

\* No step breaks a promise.
LEMMA NextKeepsPromises ==
  ASSUME TypeOK, PromiseInv, [Next]_vars
  PROVE  PromiseInv'
<1>1. NotBegun'
  BY NextKeepsTypes DEF PromiseInv
<1>2. CASE UNCHANGED vars
  <2>1. PromisesKept'
    BY <1>2 DEF vars, history, PromiseInv, PromisesKept, Owes, There
  <2>2. KnownPresent' /\ PassedPresent'
    BY <1>2 DEF vars, history, PromiseInv, KnownPresent, PassedPresent, AtRules, There
  <2> QED BY <1>1, <2>1, <2>2 DEF PromiseInv
<1>3. CASE ~UNCHANGED vars
  <2>1. PromisesKept' /\ KnownPresent' /\ PassedPresent'
    BY <1>3, NextKinds, OutsideKeepsPromises, ResetKeepsPromises, CreateKeepsPromises,
       EditKeepsPromises
  <2> QED BY <1>1, <2>1 DEF PromiseInv
<1> QED BY <1>2, <1>3

\* Once no command is at the rules, a rule that a command reported to be there is there,
\* whatever is refused, lost or not answered: one that --force removed and could not bring
\* back is reported, and so is one that another command removed meanwhile, by that command
\* (auth_manager.cpp:1030).  Only a removal that was done and not answered takes one away.
THEOREM PromisedRulesArePresent == Spec => []PromisedRulesPresent
<1>1. Init => TypeOK /\ PromiseInv
  BY InitHolds
<1>2. TypeOK /\ PromiseInv /\ [Next]_vars => TypeOK' /\ PromiseInv'
  BY NextKeepsTypes, NextKeepsPromises DEF PromiseInv
<1>3. TypeOK /\ PromiseInv => PromisedRulesPresent
  BY DEF TypeOK, PromiseInv, PromisesKept, Owes, There, AtRules, Present, PromisedRulesPresent
<1> QED BY <1>1, <1>2, <1>3, PTL DEF Spec

-----------------------------------------------------------------------------
(* A rule that --force counts as created is the default one.                *)

\* A command that gets to the rules has created none, and what it left behind stays.
LEMMA OutsideKeepsReset ==
  ASSUME TypeOK, ResetInv, NEW c \in Caller, Outside(c)
  PROVE  PassedDefault' /\ ResetUnedited'
<1>1. Only(c) /\ UNCHANGED <<rules, history>> /\ cmd'[c].todo = 1
  BY OutsideDoes DEF ResetInv
<1>2. PassedDefault'
  <2>1. \A r \in Rule : ~(r < cmd'[c].todo)
    BY <1>1 DEF Rule
  <2> QED BY <1>1, <2>1 DEF ResetInv, PassedDefault, Only
<1>3. ResetUnedited'
  BY <1>1 DEF ResetInv, ResetUnedited, history
<1> QED BY <1>2, <1>3

\* A removal makes no rule an edited one.
LEMMA ResetKeepsReset ==
  ASSUME TypeOK, ResetInv, NEW c \in Caller, ResetSkips(c) \/ ResetRule(c)
  PROVE  PassedDefault' /\ ResetUnedited'
<1>p. PICK gone \in {{}, {cmd[c].todo}} : Resets(c, gone)
  BY ResetDoes
<1>1. /\ \A r \in Rule : rules'[r] = "edited" => rules[r] = "edited"
      /\ UNCHANGED reset
      /\ cmd'[c].at = "reset" \/ (cmd'[c].at = "create" /\ cmd'[c].todo = 1)
      /\ \A d \in Caller \ {c} :
           /\ cmd'[d].at = cmd[d].at /\ cmd'[d].known = cmd[d].known
           /\ cmd'[d].todo = cmd[d].todo /\ cmd'[d].failed = cmd[d].failed
           /\ cmd'[d].force = cmd[d].force
           /\ cmd[d].dropped \subseteq cmd'[d].dropped
  BY <1>p DEF Resets
<1>t. reset \subseteq Rule /\ \A r \in Rule : ~(r < 1)
  BY DEF TypeOK, Rule
<1>2. PassedDefault'
  <2>1. ASSUME NEW d \in Caller, cmd'[d].at = "create", cmd'[d].force,
               NEW r \in Rule \ (cmd'[d].known \cup cmd'[d].dropped \cup cmd'[d].failed),
               r < cmd'[d].todo
        PROVE  rules'[r] # "edited"
    <3>1. d # c
      BY <1>1, <1>t, <2>1
    <3>2. rules[r] # "edited"
      BY <1>1, <2>1, <3>1 DEF ResetInv, PassedDefault
    <3> QED BY <1>1, <3>2
  <2> QED BY <2>1 DEF PassedDefault
<1>3. ResetUnedited'
  BY <1>1, <1>t DEF ResetInv, ResetUnedited
<1> QED BY <1>2, <1>3

\* What the command has created itself, to the last rule, is the default rule.
LEMMA CreateKeepsReset ==
  ASSUME TypeOK, ResetInv, NEW c \in Caller, CreateSkips(c) \/ CreateRule(c)
  PROVE  PassedDefault' /\ ResetUnedited'
<1> DEFINE t == cmd[c].todo
<1>p. PICK failed \in SUBSET Rule : Creates(c, failed)
  BY CreateDoes
<1>1. /\ \A r \in Rule : rules'[r] # rules[r] => rules[r] = "absent" /\ rules'[r] = "default"
      /\ Only(c) /\ cmd[c].at = "create"
      /\ cmd[c].failed \subseteq failed
      /\ t \notin failed => t \in cmd[c].known \/ rules'[t] = "default"
      /\ \/ /\ t < NRules /\ UNCHANGED reset
            /\ cmd'[c].at = "create" /\ cmd'[c].todo = t + 1
            /\ cmd'[c].failed = failed /\ cmd'[c].force = cmd[c].force
            /\ cmd'[c].known = cmd[c].known /\ cmd'[c].dropped = cmd[c].dropped
         \/ /\ t = NRules /\ cmd'[c] = NoCommand
            /\ reset' = IF cmd[c].force
                        THEN Rule \ (cmd[c].known \cup cmd[c].dropped \cup failed) ELSE reset
  BY <1>p DEF Creates
<1>t. /\ reset \subseteq Rule /\ t \in Nat /\ NRules \in Nat
      /\ \A r \in Rule : r \in Nat /\ r <= NRules
  BY AccountAssumption DEF TypeOK, Commands, Rule
<1>2. \A r \in Rule : rules'[r] = "edited" => rules[r] = "edited"
  BY <1>1
<1>3. ASSUME cmd[c].force, NEW r \in Rule \ (cmd[c].known \cup cmd[c].dropped \cup failed), r <= t
      PROVE  rules'[r] # "edited"
  <2>1. CASE r < t
    BY <1>1, <1>2, <1>3, <2>1 DEF ResetInv, PassedDefault
  <2>2. CASE r = t
    BY <1>1, <1>3, <2>2
  <2>3. r < t \/ r = t
    BY <1>t, <1>3
  <2> QED BY <2>1, <2>2, <2>3
<1>4. PassedDefault'
  <2>1. ASSUME NEW d \in Caller, cmd'[d].at = "create", cmd'[d].force,
               NEW r \in Rule \ (cmd'[d].known \cup cmd'[d].dropped \cup cmd'[d].failed),
               r < cmd'[d].todo
        PROVE  rules'[r] # "edited"
    <3>1. CASE d # c
      BY <1>1, <1>2, <2>1, <3>1 DEF ResetInv, PassedDefault, Only
    <3>2. CASE d = c
      <4>1. /\ cmd'[c].todo = t + 1 /\ cmd'[c].failed = failed /\ cmd'[c].force = cmd[c].force
            /\ cmd'[c].known = cmd[c].known /\ cmd'[c].dropped = cmd[c].dropped
        BY <1>1, <2>1, <3>2, NoCommandType
      <4>2. r <= t
        BY <1>t, <2>1, <3>2, <4>1
      <4> QED BY <1>3, <2>1, <3>2, <4>1, <4>2
    <3> QED BY <3>1, <3>2
  <2> QED BY <2>1 DEF PassedDefault
<1>5. ResetUnedited'
  <2>1. ASSUME NEW r \in reset' \cap reset PROVE rules'[r] # "edited"
    BY <1>2, <1>t, <2>1 DEF ResetInv, ResetUnedited
  <2>2. ASSUME NEW r \in reset' \ reset PROVE rules'[r] # "edited"
    <3>1. /\ t = NRules /\ cmd[c].force
          /\ r \in Rule \ (cmd[c].known \cup cmd[c].dropped \cup failed)
      BY <1>1, <2>2
    <3>2. r <= t
      BY <1>t, <3>1
    <3> QED BY <1>3, <3>1, <3>2
  <2> QED BY <2>1, <2>2 DEF ResetUnedited
<1> QED BY <1>4, <1>5

\* An edited rule counts for no --force, the one at work included.
LEMMA EditKeepsReset ==
  ASSUME TypeOK, ResetInv, NEW q \in Rule, Edit(q)
  PROVE  PassedDefault' /\ ResetUnedited'
<1>1. /\ \A r \in Rule \ {q} : rules'[r] = rules[r]
      /\ reset' = reset \ {q} /\ reset \subseteq Rule
      /\ \A c \in Caller :
           /\ cmd'[c].at = cmd[c].at /\ cmd'[c].known = cmd[c].known
           /\ cmd'[c].todo = cmd[c].todo /\ cmd'[c].failed = cmd[c].failed
           /\ cmd'[c].force = cmd[c].force
           /\ cmd[c].dropped \subseteq cmd'[c].dropped
           /\ cmd[c].force /\ cmd[c].at = "create" => q \in cmd'[c].dropped
  BY EditDoes DEF TypeOK
<1>2. PassedDefault'
  BY <1>1 DEF ResetInv, PassedDefault
<1>3. ResetUnedited'
  BY <1>1 DEF ResetInv, ResetUnedited
<1> QED BY <1>2, <1>3

\* No step makes a rule that --force counts as created an edited one.
LEMMA NextKeepsReset ==
  ASSUME TypeOK, ResetInv, [Next]_vars
  PROVE  ResetInv'
<1>1. NotBegun'
  BY NextKeepsTypes DEF ResetInv
<1>2. CASE UNCHANGED vars
  <2>1. PassedDefault' /\ ResetUnedited'
    BY <1>2 DEF vars, history, ResetInv, PassedDefault, ResetUnedited
  <2> QED BY <1>1, <2>1 DEF ResetInv
<1>3. CASE ~UNCHANGED vars
  <2>1. PassedDefault' /\ ResetUnedited'
    BY <1>3, NextKinds, OutsideKeepsReset, ResetKeepsReset, CreateKeepsReset, EditKeepsReset
  <2> QED BY <1>1, <2>1 DEF ResetInv
<1> QED BY <1>2, <1>3

\* A rule that bootstrap --force counts as created is the default rule, and not one the user
\* had edited before, whatever fails and whoever else removes or creates rules meanwhile: a
\* rule that could not be removed stays known and is not counted (argument_parser.cpp:123).
THEOREM ResetCountsDefaultRules == Spec => []ResetMeansDefault
<1>1. Init => TypeOK /\ ResetInv
  BY InitHolds
<1>2. TypeOK /\ ResetInv /\ [Next]_vars => TypeOK' /\ ResetInv'
  BY NextKeepsTypes, NextKeepsReset DEF ResetInv
<1>3. ResetInv => ResetMeansDefault
  BY DEF ResetInv, ResetUnedited, ResetMeansDefault
<1> QED BY <1>1, <1>2, <1>3, PTL DEF Spec
=============================================================================
