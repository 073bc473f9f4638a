---------------------------- MODULE AccountSetup ----------------------------
(***************************************************************************)
(* What installs leave on the user's account beside the device: a product, *)
(* and the default alarm rules.                                            *)
(*                                                                         *)
(*   resolve_product           install on the command line                 *)
(*   select_or_create_product  the interactive setup                       *)
(*   ensure_default_alarms     both of them, and bootstrap [--force]       *)
(*                                                                         *)
(* A request is one step: the server does it or refuses it, and the agent  *)
(* hears the answer or gets an exception.  Users change the rules meanwhile *)
(* in the console of the server.                                           *)
(***************************************************************************)
EXTENDS Naturals

CONSTANTS
  Caller,       \* processes that run a command at a time, on one account
  NRules,       \* rules of default_alarm_rules(), numbered in its order
  Faults        \* of "refused", "lost" (before the server) and "unheard" (after it)

ASSUME AccountAssumption ==
  /\ NRules \in Nat \ {0}
  /\ Faults \subseteq {"refused", "lost", "unheard"}

VARIABLES
  product,   \* the account has the product that devices go into
  rules,     \* what the account has of each default rule
  cmd,       \* the command of each caller
  \* history, read by no step
  promised,  \* rules that some command reported to be there, and none failed to create since
  reset,     \* rules that the last bootstrap --force counted as created
  unheard    \* rules that are gone by a removal whose answer was not heard

history == <<promised, reset, unheard>>
vars == <<product, rules, cmd, history>>

-----------------------------------------------------------------------------
Rule == 1 .. NRules
RuleStates == {"absent", "default", "edited"}

Steps == {"idle", "products", "new_product", "list", "reset", "create"}

\* known, todo, failed  existing_ids, the rule the loop is at, what result.failed counts
\* dropped  (history) rules removed by others since the list was taken
Commands == [at : Steps, op : {"none", "install", "setup", "bootstrap"}, force : BOOLEAN,
             known : SUBSET Rule, todo : Rule, failed : SUBSET Rule, dropped : SUBSET Rule]

NoCommand == [at |-> "idle", op |-> "none", force |-> FALSE, known |-> {}, todo |-> 1,
              failed |-> {}, dropped |-> {}]

\* Every variable keeps its type.
TypeOK ==
  /\ product \in BOOLEAN
  /\ rules \in [Rule -> RuleStates]
  /\ cmd \in [Caller -> Commands]
  /\ promised \subseteq Rule /\ reset \subseteq Rule /\ unheard \subseteq Rule

Init ==
  /\ product \in BOOLEAN
  /\ rules = [r \in Rule |-> "absent"]
  /\ cmd = [c \in Caller |-> NoCommand]
  /\ promised = {} /\ reset = {} /\ unheard = {}

-----------------------------------------------------------------------------
Answers == {"ok"} \cup Faults
Done(o) == o \in {"ok", "unheard"}

Present == {r \in Rule : rules[r] # "absent"}

AtRules(c) == cmd[c].at \in {"reset", "create"}

Goto(c, step) == cmd' = [cmd EXCEPT ![c].at = step]
Ends(c) == cmd' = [cmd EXCEPT ![c] = NoCommand]

\* handle_bootstrap, or the part of an install that comes before its device.
Begin(c, op, force) ==
  /\ cmd[c].at = "idle"
  /\ force => op = "bootstrap"
  /\ cmd' = [cmd EXCEPT ![c] = [NoCommand EXCEPT
       !.at = IF op = "bootstrap" THEN "list" ELSE "products", !.op = op, !.force = force]]
  /\ UNCHANGED <<product, rules, history>>

-----------------------------------------------------------------------------
(* Products.                                                                *)

\* Without the list no product is used and no rule is seeded.  The command line may
\* name a product that is not there, the user of the setup may skip or want another.
ListProducts(c) ==
  /\ cmd[c].at = "products"
  /\ \E o \in Answers :
       \/ o # "ok" /\ Ends(c)
       \/ o = "ok" /\ product /\ Goto(c, "list")
       \/ o = "ok" /\ Goto(c, "new_product")
       \/ o = "ok" /\ product /\ cmd[c].op = "setup" /\ Ends(c)
  /\ UNCHANGED <<product, rules, history>>

\* A product that cannot be created is done without, unless the command line named
\* it: then it is used all the same.
CreateProduct(c) ==
  /\ cmd[c].at = "new_product"
  /\ \E o \in Answers :
       /\ product' = (product \/ Done(o))
       /\ \/ o = "ok" /\ Goto(c, "list")
          \/ o # "ok" /\ Ends(c)
          \/ cmd[c].op = "install" /\ Goto(c, "list")
  /\ UNCHANGED <<rules, history>>

-----------------------------------------------------------------------------
(* ensure_default_alarms.                                                   *)

\* Without the list, bootstrap fails and an install goes on.
ListRules(c) ==
  /\ cmd[c].at = "list"
  /\ \/ cmd' = [cmd EXCEPT ![c].known = Present,
                           ![c].at = IF cmd[c].force THEN "reset" ELSE "create"]
     \/ Faults # {} /\ Ends(c)
  /\ UNCHANGED <<product, rules, history>>

KnownAfter_kept(known, r, o) == known   \* mutant: a removed rule still counts as present

\* A rule is created again only if its removal was answered.
KnownAfter(known, r, o) == IF o = "ok" THEN known \ {r} ELSE known

AfterReset_past(command) ==   \* mutant: the loop goes one rule too far
  IF command.todo <= NRules THEN [command EXCEPT !.todo = @ + 1]
  ELSE [command EXCEPT !.at = "create", !.todo = 1]

\* The next turn of a loop, or the loop that creates after the one that removes.
AfterReset(command) ==
  IF command.todo < NRules THEN [command EXCEPT !.todo = @ + 1]
  ELSE [command EXCEPT !.at = "create", !.todo = 1]

ResetSkips(c) ==
  /\ cmd[c].at = "reset" /\ cmd[c].todo \notin cmd[c].known
  /\ cmd' = [cmd EXCEPT ![c] = AfterReset(cmd[c])]
  /\ UNCHANGED <<product, rules, history>>

\* delete_alarm_rule; a rule that is gone already (404) counts as removed.
ResetRule(c) ==
  LET r == cmd[c].todo IN
  /\ cmd[c].at = "reset" /\ r \in cmd[c].known
  /\ \E o \in Answers :
       LET mine == AfterReset([cmd[c] EXCEPT !.known = KnownAfter(@, r, o)]) IN
       /\ unheard' = IF o = "unheard" THEN unheard \cup ({r} \cap Present) ELSE unheard
       /\ IF Done(o)
          THEN /\ rules' = [rules EXCEPT ![r] = "absent"]
               /\ cmd' = [d \in Caller |->
                    IF d = c THEN mine
                    ELSE IF AtRules(d) THEN [cmd[d] EXCEPT !.dropped = @ \cup {r}] ELSE cmd[d]]
          ELSE rules' = rules /\ cmd' = [cmd EXCEPT ![c] = mine]
  /\ UNCHANGED <<product, promised, reset>>

\* The turn of the creating loop is over, for the last rule the command is: what it
\* reported is what a reader of its output and exit code may rely on.
Created(c, failed) ==
  IF cmd[c].todo < NRules
  THEN /\ cmd' = [cmd EXCEPT ![c].todo = @ + 1, ![c].failed = failed]
       /\ UNCHANGED <<promised, reset>>
  ELSE /\ Ends(c)
       /\ promised' = IF failed = {} THEN promised \cup (Rule \ cmd[c].dropped)
                      ELSE promised \ failed
       /\ reset' = IF cmd[c].force THEN Rule \ (cmd[c].known \cup cmd[c].dropped \cup failed)
                   ELSE reset

CreateSkips(c) ==
  /\ cmd[c].at = "create" /\ cmd[c].todo \in cmd[c].known
  /\ Created(c, cmd[c].failed)
  /\ UNCHANGED <<product, rules, unheard>>

Collides_ok(r) == FALSE   \* mutant: a 409 is as good as a new rule

\* create_alarm_rule is refused by a server that has the rule.
Collides(r) == rules[r] # "absent"

CreateRule(c) ==
  LET r == cmd[c].todo IN
  /\ cmd[c].at = "create" /\ r \notin cmd[c].known
  /\ \E o \in Answers :
       /\ rules' = IF Done(o) /\ rules[r] = "absent"
                   THEN [rules EXCEPT ![r] = "default"] ELSE rules
       /\ unheard' = IF Done(o) THEN unheard \ {r} ELSE unheard
       /\ Created(c, IF o # "ok" \/ Collides(r) THEN cmd[c].failed \cup {r} ELSE cmd[c].failed)
  /\ UNCHANGED product

\* The user edits a rule in the console.
Edit(r) ==
  /\ rules[r] = "default"
  /\ rules' = [rules EXCEPT ![r] = "edited"]
  /\ reset' = reset \ {r}
  /\ cmd' = [c \in Caller |-> [cmd[c] EXCEPT !.dropped =
                IF cmd[c].force /\ cmd[c].at = "create" THEN @ \cup {r} ELSE @]]
  /\ UNCHANGED <<product, promised, unheard>>

-----------------------------------------------------------------------------
Runs(c) ==
  \/ \E op \in {"install", "setup", "bootstrap"}, force \in BOOLEAN : Begin(c, op, force)
  \/ ListProducts(c) \/ CreateProduct(c)
  \/ ListRules(c) \/ ResetSkips(c) \/ ResetRule(c) \/ CreateSkips(c) \/ CreateRule(c)

Next == (\E c \in Caller : Runs(c)) \/ (\E r \in Rule : Edit(r))

Spec == Init /\ [][Next]_vars

-----------------------------------------------------------------------------
(* Properties.                                                              *)

\* A rule that a command reported to be there, and that no later command failed to
\* create, is there once no command is at work on the rules.  Stale lists, commands side
\* by side and refused or lost requests take none away; the one thing that does is a
\* removal whose answer was not heard (auth_manager.cpp:1012): its rule stays counted
\* as present.
PromisedRulesPresent ==
  (\A c \in Caller : ~AtRules(c)) => promised \subseteq Present \cup unheard

\* A rule that bootstrap --force counts as created is the default rule, and not one
\* the user had edited before, whoever else creates rules (argument_parser.cpp:123).
ResetMeansDefault ==
  (\A c \in Caller : ~AtRules(c)) => \A r \in reset : rules[r] # "edited"
=============================================================================
