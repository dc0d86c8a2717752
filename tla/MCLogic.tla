------------------------------ MODULE MCLogic ------------------------------
(***************************************************************************)
(* Small instances of what surrounds plans and work threads in             *)
(* module-logic-v3.c: groups, the loose order, the preferences between     *)
(* modules, and the making of plans from modes.  One run checks them all:  *)
(* the first step of a behaviour has settled for one of them.  Groups and  *)
(* Ordering share the variables of Workers; the rest stays as it is at the *)
(* start.                                                                  *)
(***************************************************************************)
EXTENDS Groups, Planning, Preferences

VARIABLES
  scene,          \* what takes the steps
  left, dospawn, order, queued

groupvars == <<providers, examination, planvars>>
ordering == <<left, dospawn, order, queued>>
scenevars == <<scene, workervars, groupvars, ordering, prefvars, planningvars>>

-----------------------------------------------------------------------------
\* c is a group of a and b; in the loose order it is a module that needs b, and the module
\* of a wants to go after both.
Simple == [s \in {"a", "b", "c"} |-> << {} >>]
Grouped == [s \in {"a", "b", "c"} |-> [group |-> IF s = "c" THEN <<"a", "b">> ELSE << >>,
                                     seq |-> "all"]]
Change(X, Y) == [enable |-> X, disable |-> Y]
Changes == {Change({"c"}, {}), Change({}, {"c"})}

Only(x, X) == [s \in {"a", "b", "c"} |-> IF s = x THEN X ELSE {}]
Needy == [s \in {"a", "b", "c"} |-> IF s = "c" THEN <<{"b"}>> ELSE << {} >>]
BeforeA == Only("b", {"a"})
AfterBC == Only("a", {"b", "c"})
AfterC == Only("a", {"c"})
Nothing == Only("a", {})

Ordering == INSTANCE Ordering WITH
  Requires <- Needy, Fragile <- {"b"}, Before <- BeforeA, After <- AfterBC,
  ShutdownBefore <- Nothing, ShutdownAfter <- AfterC, asked <- queued

\* Three display managers, one of them deprecated but preferred, one of them with a
\* second service.
Modules == {"gdm", "kdm", "xdm"}
Provided3 == [gdm |-> {"dm"}, kdm |-> {"dm", "kde"}, xdm |-> {"dm"}]
XdmFirst ==
  [n \in {"dm", "kde"} \cup Modules |-> IF n = "dm" THEN <<"xdm", "gdm">> ELSE << >>]
Displays == {Change({"dm", "gdm"}, {"kdm"}), Change({}, {"dm", "kde"})}

\* A mode based on two others, one of them unfinished, one that ends everything but the
\* feedback, and one based on it that ends everything.
Mode0 == [enable |-> {}, disable |-> {}, critical |-> {}, base |-> << >>, wait |-> FALSE,
          shutdown |-> FALSE]
Configured ==
  [default |-> [Mode0 EXCEPT !.enable = {"net"}, !.base = <<"boot", "local">>, !.wait = TRUE],
   local |-> [Mode0 EXCEPT !.base = <<"boot", "none">>, !.critical = {"tty"},
                           !.enable = {"tty"}],
   boot |-> [Mode0 EXCEPT !.enable = {"tty"}, !.disable = {"mount"}],
   off |-> [Mode0 EXCEPT !.disable = {"all-but-feedback"}, !.shutdown = TRUE],
   halt |-> [Mode0 EXCEPT !.disable = {"all"}, !.base = <<"off">>]]
Checkpoints == [m \in DOMAIN Configured |-> "point"]

ASSUME PreferencesAssumption /\ PlanningAssumption

-----------------------------------------------------------------------------
\* Where it is asked whether the work ends there is one plan.
OnePlanLeft ==
  /\ Idle
  /\ up = [s \in Services |-> 0] /\ listed = up
  /\ providers = [g \in Groups |-> {}] /\ task = [g \in Groups |-> "none"]
  /\ member = [g \in Groups |-> 0] /\ tally = [g \in Groups |-> NoTally]
  /\ looks = [g \in Groups |-> 0] /\ plan = "idle" /\ plans = MaxPlans - 1

\* What does not take the steps has one of its initial states.
SceneInit ==
  /\ scene \in {"groups", "once", "ordering", "preferences", "planning"}
  /\ IF scene = "ordering"
       THEN /\ Ordering!Init
            /\ providers = << >> /\ task = << >> /\ member = << >> /\ tally = << >>
            /\ looks = << >> /\ plan = "idle" /\ plans = 0
       ELSE /\ IF scene = "once" THEN OnePlanLeft ELSE Init
            /\ left = {} /\ dospawn = {} /\ queued = {}
            /\ order = [s \in Services |-> Ordering!NoOrder]
  /\ PreferencesInit
  /\ scene # "preferences" => lists["dm"] = Sorted(<<"gdm", "kdm", "xdm">>, "dm")
  /\ PlanningInit
  /\ scene # "planning" => provided = {} /\ wanted = Block0

InGroups(name, A) == scene = name /\ A /\ UNCHANGED <<scene, ordering, prefvars, planningvars>>
InOrdering(A) == scene = "ordering" /\ A /\ UNCHANGED <<scene, groupvars, prefvars, planningvars>>
InPlanning(A) ==
  scene = "planning" /\ A /\ UNCHANGED <<scene, workervars, groupvars, ordering, prefvars>>

SceneNext ==
  \/ InGroups("groups", Next) \/ InGroups("once", Next)
  \/ InOrdering(Ordering!Next)
  \/ InPlanning(PlanningNext)
  \/ /\ scene = "preferences" /\ PreferencesNext
     /\ UNCHANGED <<scene, workervars, groupvars, ordering, planningvars>>

\* That of Groups, Ordering and Planning.
SceneFairness ==
  /\ WF_scenevars(InGroups("once", Flatten)) /\ WF_scenevars(InGroups("once", Start))
  /\ \A g \in Groups : WF_scenevars(InGroups("once", GroupStep(g)))
  /\ \A s \in Plain : WF_scenevars(InGroups("once", MemberStep(s)))
  /\ WF_scenevars(InOrdering(Ordering!Spawned))
  /\ \A s \in Services : WF_scenevars(InOrdering(Ordering!Step(s)))
  /\ WF_scenevars(InPlanning(Descend \/ FinishMode))

SceneSpec == SceneInit /\ [][SceneNext]_scenevars /\ SceneFairness

-----------------------------------------------------------------------------
\* Every variable holds a value of its kind; the usage table has a group as provided just
\* when it has providers for it.
TypesOK ==
  /\ IF scene = "ordering" THEN Ordering!TypeOK ELSE TypeOK
  /\ PreferencesTypeOK /\ PlanningTypeOK

\* Nothing is enabled or disabled before what it goes after (mod_reorder).
AfterKept == scene = "ordering" => Ordering!AfterKept

\* A group that is queued comes up or breaks (mod_examine_group); the threads of a queue
\* come to an end although they defer themselves after one another (mod_reorder); the
\* making of a plan ends (mod_plan).
WorkEnds ==
  /\ scene = "once" => GroupsSettle
  /\ scene = "ordering" => Ordering!OrderEnds
  /\ PlanningEnds
=============================================================================
