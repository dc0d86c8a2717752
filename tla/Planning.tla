------------------------------ MODULE Planning ------------------------------
(***************************************************************************)
(* module-logic-v3.c: from what the user says to a plan.  mod_plan gathers *)
(* what a mode and, one after the other, its bases want up and down, and   *)
(* spells out "all" and "all-but-feedback" at the end of every mode;       *)
(* mod_modaction turns a verb for one service into a plan, or into a       *)
(* custom call of its modules.  Plans takes it from there: here a plan is  *)
(* merged into the target state and some of it is done.                    *)
(***************************************************************************)
EXTENDS Naturals, Sequences

CONSTANTS
  ServiceNames,   \* service names, groups among them
  Listed,         \* those some module provides
  Feedback,       \* those some feedback module provides
  Modes,          \* the modes of the configuration
  Mode,           \* [enable, disable, critical, base, wait, shutdown] of each
  Checkpoint,     \* the name of each mode's checkpoint
  MaxMade         \* bound: plans

\* The names that stand for other services
Everything == {"all", "all-but-feedback"}

\* are no names of services; a mode may be based on what is no mode.
PlanningAssumption ==
  /\ Listed \subseteq ServiceNames /\ Feedback \subseteq Listed
  /\ ServiceNames \cap Everything = {}
  /\ MaxMade \in Nat
  /\ \A m \in Modes :
       /\ Checkpoint[m] \in ServiceNames
       /\ Mode[m].enable \subseteq ServiceNames /\ Mode[m].critical \subseteq ServiceNames
       /\ Mode[m].disable \subseteq ServiceNames \cup Everything
       /\ Mode[m].base \in Seq(STRING)

VARIABLES
  stack,          \* modes being gathered, the innermost first: [mode, at]
  mloadplan,      \* struct mloadplan
  planning,       \* "idle", "gather", "commit" or "carry out"
  provided,       \* services that are provided
  wanted,         \* target_state
  made            \* plans made

planningvars == <<stack, mloadplan, planning, provided, wanted, made>>

Block0 == [enable |-> {}, disable |-> {}, critical |-> {}]
NoPlan == [changes |-> Block0, used |-> {}, shutdown |-> FALSE]

PlanningInit ==
  /\ stack = << >> /\ mloadplan = NoPlan /\ planning = "idle"
  /\ provided \in SUBSET ServiceNames
  /\ \E X \in SUBSET ServiceNames : wanted = [Block0 EXCEPT !.enable = X]
  /\ made = 0

-----------------------------------------------------------------------------
\* mod_plan

\* Entering a mode: its own lists, and its checkpoint if it waits for its bases.
Gathered(p, m) ==
  LET own == Mode[m]
      point == IF own.wait THEN {Checkpoint[m]} ELSE {}
  IN [p EXCEPT !.changes = [enable |-> @.enable \cup own.enable \cup point,
                            disable |-> @.disable \cup own.disable,
                            critical |-> @.critical \cup own.critical],
               !.shutdown = @ \/ own.shutdown]

Enter(m, at) == [mode |-> m, at |-> at]

Switch ==
  /\ planning = "idle" /\ made < MaxMade
  /\ \E m \in Modes :
       /\ stack' = <<Enter(m, 1)>>
       /\ mloadplan' = Gathered(NoPlan, m)
  /\ planning' = "gather"
  /\ made' = made + 1
  /\ UNCHANGED <<provided, wanted>>

\* The next base of the innermost mode, unless it is undefined or done with: a mode
\* counts as used once its own bases are, so bases that form a circle never end.
Descend ==
  LET top == Head(stack)
      bases == Mode[top.mode].base
  IN /\ planning = "gather"
     /\ top.at <= Len(bases)
     /\ LET b == bases[top.at]
            rest == <<Enter(top.mode, top.at + 1)>> \o Tail(stack)
        IN IF b \in Modes \ mloadplan.used
             THEN stack' = <<Enter(b, 1)>> \o rest /\ mloadplan' = Gathered(mloadplan, b)
             ELSE stack' = rest /\ UNCHANGED mloadplan
     /\ UNCHANGED <<planning, provided, wanted, made>>

\* (Mutant: what is up without being wanted any more is left out.)
Expanded_Target(disable) ==
  IF disable \cap Everything = {} THEN disable
  ELSE {s \in wanted.enable \cup (disable \ Everything) :
          /\ s \in Listed \/ s \in provided
          /\ ~("all-but-feedback" \in disable /\ s \in Feedback)}

\* (Mutant: "all" itself stays on the list.)
Expanded_WithAll(disable) ==
  {s \in provided \cup wanted.enable \cup disable :
     /\ s \in Listed \/ s \in provided \/ s \in Everything
     /\ ~("all-but-feedback" \in disable /\ s \in Feedback)}

\* "all" stands for what is provided or wanted up, as far as some module provides it
\* or it is up.  Feedback is spared by the second name, even if it is on the list.
Expanded(disable) ==
  IF disable \cap Everything = {} THEN disable
  ELSE {s \in provided \cup wanted.enable \cup (disable \ Everything) :
          /\ s \in Listed \/ s \in provided
          /\ ~("all-but-feedback" \in disable /\ s \in Feedback)}

FinishMode ==
  LET top == Head(stack)
  IN /\ planning = "gather"
     /\ top.at > Len(Mode[top.mode].base)
     /\ mloadplan' = [mloadplan EXCEPT !.used = @ \cup {top.mode},
                             !.changes.disable = Expanded(@)]
     /\ stack' = Tail(stack)
     /\ planning' = IF Tail(stack) = << >> THEN "commit" ELSE "gather"
     /\ UNCHANGED <<provided, wanted, made>>

-----------------------------------------------------------------------------
\* mod_modaction

\* "enable" and "disable" (or "start" and "stop") make a plan for the one service.
Ask ==
  /\ planning = "idle" /\ made < MaxMade
  /\ \E s \in ServiceNames, verb \in {"enable", "disable"} :
       LET changes == [Block0 EXCEPT ![verb] = {s}]
       IN mloadplan' = [NoPlan EXCEPT !.changes = changes]
  /\ planning' = "commit"
  /\ made' = made + 1
  /\ UNCHANGED <<stack, provided, wanted>>

\* "zap" makes the module logic forget the service, then its modules.
Zap ==
  /\ planning = "idle" /\ made < MaxMade
  /\ \E s \in ServiceNames :
       /\ wanted' = [k \in DOMAIN wanted |-> wanted[k] \ {s}]
       /\ provided' = IF s \in Listed THEN provided \ {s} ELSE provided
  /\ made' = made + 1
  /\ UNCHANGED <<stack, mloadplan, planning>>

-----------------------------------------------------------------------------
\* The rest of a plan, in brief.

\* cross_taskblock
Merge ==
  LET c == mloadplan.changes
  IN /\ planning = "commit"
     /\ wanted' = [enable |-> (wanted.enable \cup c.enable) \ c.disable,
                   disable |-> (wanted.disable \ c.enable) \cup c.disable,
                   critical |-> (wanted.critical \cup c.critical) \ c.disable]
     /\ planning' = "carry out"
     /\ UNCHANGED <<stack, mloadplan, provided, made>>

\* What is to go down goes; of what is to come up, some does.
CarryOut ==
  /\ planning = "carry out"
  /\ \E X \in SUBSET (wanted.enable \cap Listed) :
       provided' = (provided \ wanted.disable) \cup X
  /\ mloadplan' = NoPlan
  /\ planning' = "idle"
  /\ UNCHANGED <<stack, wanted, made>>

\* A service of the present target state comes up while a plan is being made.
ComeUp ==
  /\ planning = "gather"
  /\ \E s \in wanted.enable \cap Listed : provided' = provided \cup {s}
  /\ UNCHANGED <<stack, mloadplan, planning, wanted, made>>

PlanningNext ==
  Switch \/ Descend \/ FinishMode \/ Ask \/ Zap \/ Merge \/ CarryOut \/ ComeUp

PlanningSpec == PlanningInit /\ [][PlanningNext]_planningvars

PlanningFairSpec == PlanningSpec /\ WF_planningvars(Descend \/ FinishMode)

-----------------------------------------------------------------------------
\* Every variable holds a value of its kind.
PlanningTypeOK ==
  /\ \A i \in DOMAIN stack : stack[i].mode \in Modes
  /\ mloadplan.changes.enable \subseteq ServiceNames
  /\ mloadplan.changes.disable \subseteq ServiceNames \cup Everything
  /\ mloadplan.used \subseteq Modes
  /\ planning \in {"idle", "gather", "commit", "carry out"}
  /\ provided \subseteq ServiceNames
  /\ \A k \in DOMAIN wanted : wanted[k] \subseteq ServiceNames
  /\ (stack = << >>) <=> (planning # "gather")

Bases(m) == {Mode[m].base[i] : i \in DOMAIN Mode[m].base} \cap Modes

\* A mode's plan wants what any of the modes it is based on wants, however they are
\* based on each other: when a mode has been used, so have all its bases, and their
\* services are in the plan.
Inherited ==
  \A m \in mloadplan.used :
    /\ Bases(m) \subseteq mloadplan.used
    /\ Mode[m].enable \subseteq mloadplan.changes.enable

\* Whether a used mode asked for everything to go down.
Wipes(name) == \E m \in mloadplan.used : name \in Mode[m].disable

\* "all" reaches everything some module provides: whatever was up or wanted when a
\* plan is merged, or came up while it was made, is wanted down from then on - unless
\* it is feedback and one of the modes spares that, whatever the others say.
AllGoesDown ==
  [][Merge /\ (Wipes("all") \/ Wipes("all-but-feedback")) =>
       (provided \cup wanted.enable) \cap Listed
         \subseteq wanted'.disable \cup (IF Wipes("all-but-feedback") THEN Feedback ELSE {})
    ]_planningvars

\* module-logic-v3.c, mod_plan: a plan wants what every mode that its mode is based on
\* wants, and "all" reaches everything some module provides.
PlanComplete == []Inherited /\ AllGoesDown

\* (Contradicted by modes that are based on each other.)
\* Gathering a mode ends.
PlanningEnds == planning = "gather" ~> planning # "gather"
=============================================================================
