----------------------------- MODULE Preferences -----------------------------
(***************************************************************************)
(* module-logic-v3.c: which module of a service is tried first.  The       *)
(* service list has the candidates of every service; each plan, once it is *)
(* merged into the target state, sorts the whole list by deprecation, by   *)
(* services-prefer nodes, by unambiguous services and by the module names  *)
(* (RIDs) that are requested: those to be disabled, too.  The walks of     *)
(* mod_apply_enable and mod_apply_disable rotate the same lists in place,  *)
(* also those that began before the sort.                                  *)
(*                                                                         *)
(* Modules need nothing here; Workers has the rest of a walk, Planning the *)
(* plans that end everything.                                              *)
(***************************************************************************)
EXTENDS Naturals, Sequences, FiniteSets

CONSTANTS
  Mods,           \* modules, each under its own name (RID) a service, too
  Kinds,          \* the other service names
  Provides,       \* what each module provides
  Deprecated,     \* modules marked as such
  Prefer,         \* the services-prefer node of each service: RIDs
  Wishes,         \* what a plan may ask for: [enable, disable]
  MayFail,        \* modules whose enable() and disable() may fail
  MaxCommits      \* bound: plans, zaps, and updates of the module list

Names == Kinds \cup Mods
CandidatesFor(n) == IF n \in Mods THEN {n} ELSE {m \in Mods : n \in Provides[m]}

\* A name is on the service list because a module provides it.  A services-prefer node
\* that names a module twice would have the sort move the end of the list.
PreferencesAssumption ==
  /\ Mods \cap Kinds = {} /\ IsFiniteSet(Mods)
  /\ \A m \in Mods : Provides[m] \subseteq Names
  /\ Wishes \subseteq [enable : SUBSET Names, disable : SUBSET Names] /\ MaxCommits \in Nat
  /\ \A n \in Names :
       /\ CandidatesFor(n) # {}
       /\ Prefer[n] \in Seq(Mods)
       /\ \A i, j \in DOMAIN Prefer[n] : Prefer[n][i] = Prefer[n][j] => i = j

VARIABLES
  lists,          \* module_logics_service_list
  goals,          \* target_state: [enable, disable]
  wishes,         \* current.enable
  unwanted,       \* current.disable
  sorting,        \* plans that are merged, but have not sorted yet
  awaited,        \* plans that wait for what they want (ml_commits)
  unusable,       \* broken_services
  recent,         \* changed_recently
  running,        \* modules that are enabled
  walking,        \* the thread of each name: [at, first, current]
  stopped,        \* names whose thread has found a module disabled (any_ok)
  asked,          \* history: the RIDs that were asked for together with a name
  failed,         \* history: modules that have failed to come up
  commits         \* plans, zaps and updates so far

prefplans == <<goals, sorting, awaited, commits>>
prefqueue == <<wishes, unwanted, unusable, recent>>
prefwalks == <<running, walking, stopped>>
prefvars == <<lists, prefplans, prefqueue, prefwalks, asked, failed>>

requested == goals.enable \cup goals.disable                  \* mod_is_requested

NoWalk == [at |-> "none", first |-> "none", current |-> "none"]
WalkAt(n, stage) == walking[n].at = stage

-----------------------------------------------------------------------------
\* The order of the candidates.  The loops are functions of the number of rounds.

Swapped(l, i, j) == [l EXCEPT ![i] = l[j], ![j] = l[i]]

\* The first loop: a deprecated module changes places with the last that has not been
\* changed, and the one that comes from there is not looked at.
DeprecatedBack(l) ==
  LET pass[i \in 0 .. Len(l)] ==
        IF i = 0 THEN [list |-> l, last |-> Len(l)]
        ELSE LET a == pass[i - 1]
             IN IF i < a.last /\ a.list[i] \in Deprecated
                  THEN [list |-> Swapped(a.list, i, a.last), last |-> a.last - 1] ELSE a
  IN pass[Len(l)].list

\* One pass of the other loops: what is in X moves to the place a.at, which moves on.
ToFront(a, X) ==
  LET pass[i \in 0 .. Len(a.list)] ==
        IF i = 0 THEN a
        ELSE LET b == pass[i - 1]
             IN IF b.list[i] \in X
                  THEN [list |-> Swapped(b.list, i, b.at), at |-> b.at + 1] ELSE b
  IN pass[Len(a.list)]

InFront(l, X) == ToFront([list |-> l, at |-> 1], X).list

Preferred(l, n) ==
  LET pass[i \in 0 .. Len(Prefer[n])] ==
        IF i = 0 THEN [list |-> l, at |-> 1] ELSE ToFront(pass[i - 1], {Prefer[n][i]})
  IN pass[Len(Prefer[n])].list

\* Modules that provide something requested that nothing else provides.
Indirect == {m \in Mods : \E s \in Provides[m] \cap requested : Cardinality(CandidatesFor(s)) = 1}

\* (Mutant: the configured preference outranks the request.)
Sorted_PreferLast(l, n) ==
  Preferred(InFront(InFront(DeprecatedBack(l), Indirect), requested), n)

Sorted(l, n) == InFront(InFront(Preferred(DeprecatedBack(l), n), Indirect), requested)

Orders(X) == {l \in [1 .. Cardinality(X) -> X] : \A x \in X : \E i \in DOMAIN l : l[i] = x}

\* module_logic_einit_event_handler: the candidates in the order of the module list.
Listing(order, n) ==
  LET places == {k \in DOMAIN order : order[k] \in CandidatesFor(n)}
      Place(j) == CHOOSE k \in places : Cardinality({l \in places : l <= k}) = j
  IN [j \in 1 .. Cardinality(CandidatesFor(n)) |-> order[Place(j)]]

PreferencesInit ==
  /\ goals = [enable |-> {}, disable |-> {}] /\ wishes = {} /\ unwanted = {}
  /\ sorting = {} /\ awaited = {} /\ unusable = {} /\ recent = {}
  /\ running = {} /\ walking = [n \in Names |-> NoWalk] /\ stopped = {}
  /\ asked = [n \in Names |-> {}] /\ failed = {} /\ commits = 0
  /\ \E order \in Orders(Mods) :
       lists = [n \in Names |-> Sorted(Listing(order, n), n)]

-----------------------------------------------------------------------------
\* Plans.

Supplied(n) == IF n \in Mods THEN n \in running ELSE running \cap CandidatesFor(n) # {}

\* What the usage table knows of: a RID is not a service.
InTable(n) == n \in Kinds /\ Supplied(n)

Crossed(source, sink) ==
  [enable |-> (sink.enable \cup source.enable) \ source.disable,
   disable |-> (sink.disable \ source.enable) \cup source.disable]

\* mod_plan_commit up to mod_commit_and_wait
CommitWish ==
  /\ commits < MaxCommits /\ commits' = commits + 1
  /\ \E w \in Wishes \ (sorting \cup awaited) :
       LET g == Crossed(w, goals)
           q == Crossed(g, [enable |-> wishes, disable |-> unwanted])
       IN /\ goals' = g
          /\ wishes' = {n \in q.enable : ~InTable(n)}
          /\ unwanted' = {n \in q.disable : InTable(n)}
          /\ sorting' = sorting \cup {w}
  /\ UNCHANGED <<lists, awaited, unusable, recent, prefwalks, asked, failed>>

\* mod_commit_and_wait up to mod_spawn_workthreads: the lists are sorted, whatever
\* walks are under way, the queue is tidied, and the first plan wipes the marks.  Another
\* plan may have spawned threads for the names of this one before; what is asked for
\* takes effect for the threads to come.
SortLists ==
  \E w \in sorting :
    LET up == {n \in wishes : ~Supplied(n) /\ n \notin unusable}
    IN /\ lists' = [n \in Names |-> Sorted(lists[n], n)]
       /\ sorting' = sorting \ {w} /\ awaited' = awaited \cup {w}
       /\ wishes' = up
       /\ unwanted' = {n \in unwanted : Supplied(n) /\ n \notin unusable}
       /\ unusable' = IF awaited = {} THEN {} ELSE unusable
       /\ recent' = IF awaited = {} THEN {} ELSE recent
       /\ asked' = [n \in Names |-> IF n \in w.enable \cap up /\ WalkAt(n, "none")
                                      THEN w.enable \cap CandidatesFor(n) \cap requested
                                      ELSE asked[n]]
       /\ UNCHANGED <<goals, commits, prefwalks, failed>>

\* A look of a plan at what it waits for: what is still up is queued again, but not
\* counted.  The last plan wipes the marks.
AwaitWish ==
  \E w \in awaited :
    LET Unsettled == Names \ (unusable \cup recent)
        down == {n \in w.disable \cap Unsettled : Supplied(n)}
        over == {n \in w.enable \cap Unsettled : ~Supplied(n)} \cap wishes = {}
                /\ down \cap unwanted = {}
        last == over /\ awaited = {w}
    IN /\ awaited' = IF over THEN awaited \ {w} ELSE awaited
       /\ unwanted' = unwanted \cup down
       /\ unusable' = IF last THEN {} ELSE unusable
       /\ recent' = IF last THEN {} ELSE recent
       /\ UNCHANGED <<lists, goals, sorting, commits, wishes, prefwalks, asked, failed>>

\* mod_modaction: a name that is zapped is not wanted any more, and its modules count as
\* disabled.
ZapName(x) ==
  LET gone == UNION {Provides[m] : m \in CandidatesFor(x)}
  IN
  /\ commits < MaxCommits /\ commits' = commits + 1
  /\ goals' = [enable |-> goals.enable \ {x}, disable |-> goals.disable \ {x}]
  /\ wishes' = wishes \ {x} /\ unwanted' = unwanted \ ({x} \cup gone)
  /\ running' = running \ CandidatesFor(x)
  /\ recent' = recent \cup gone
  /\ asked' = [n \in Names |-> IF x \in CandidatesFor(n) THEN {} ELSE asked[n]]
  /\ UNCHANGED <<lists, sorting, awaited, unusable, walking, stopped, failed>>

\* The module list has been read anew; walks that are under way go on over the old
\* lists (Plans looks at that).
ReadList ==
  /\ commits < MaxCommits /\ commits' = commits + 1
  /\ \A n \in Names : WalkAt(n, "none")
  /\ \E order \in Orders(Mods) :
       lists' = [n \in Names |-> Sorted(Listing(order, n), n)]
  /\ unusable' = {}
  /\ UNCHANGED <<goals, sorting, awaited, wishes, unwanted, recent, prefwalks, asked, failed>>

-----------------------------------------------------------------------------
\* The thread of a name.  One is created whenever a plan or a thread spawns the queue.

Stage(n, s) == walking' = [walking EXCEPT ![n].at = s]
EndWalk(n) == walking' = [walking EXCEPT ![n] = NoWalk]
BeginAt(n, s) ==
  walking' = [walking EXCEPT ![n] = [at |-> s, first |-> lists[n][1], current |-> "none"]]
Take(n, s) ==
  walking' = [walking EXCEPT ![n] = [@ EXCEPT !.at = s, !.current = lists[n][1]]]

\* Unless somebody else has changed the head of the list, it goes to the end.
Turned(n) ==
  [lists EXCEPT ![n] = IF Head(@) = walking[n].current THEN Append(Tail(@), Head(@)) ELSE @]

Ready(n) == WalkAt(n, "none") /\ n \notin unusable \cup recent

BeginWalk(n) ==
  /\ n \in wishes \ unwanted /\ Ready(n) /\ BeginAt(n, "look")
  /\ UNCHANGED <<lists, prefplans, prefqueue, running, stopped, asked, failed>>

LookAt(n) ==
  /\ WalkAt(n, "look")
  /\ IF Supplied(n)
       THEN EndWalk(n) /\ wishes' = wishes \ {n} /\ recent' = recent \cup {n}
       ELSE Take(n, "run") /\ UNCHANGED <<wishes, recent>>
  /\ UNCHANGED <<lists, prefplans, unwanted, unusable, running, stopped, asked, failed>>

\* mod(), mod_examine_module and the test behind them.
RunModule(n) ==
  LET m == walking[n].current
  IN /\ WalkAt(n, "run")
     /\ \E ok \in {TRUE} \cup (IF m \in MayFail \ running THEN {FALSE} ELSE {}) :
          LET over == ok \/ Supplied(n)
              news == IF m \in running THEN {} ELSE Provides[m]
          IN /\ running' = IF ok THEN running \cup {m} ELSE running
             /\ failed' = IF ok THEN failed ELSE failed \cup {m}
             /\ asked' = [k \in Names |-> IF ok \/ m \notin asked[k] THEN asked[k] ELSE {}]
             /\ wishes' = (IF ok THEN wishes \ news ELSE wishes)
                            \ (IF over THEN {n} ELSE {})
             /\ unwanted' = IF ok THEN unwanted ELSE unwanted \ news
             /\ recent' = recent \cup news \cup (IF over THEN {n} ELSE {})
             /\ IF over THEN EndWalk(n) ELSE Stage(n, "rotate")
     /\ UNCHANGED <<lists, prefplans, unusable, stopped>>

RotateList(n) ==
  /\ WalkAt(n, "rotate") /\ lists' = Turned(n) /\ Stage(n, "test")
  /\ UNCHANGED <<prefplans, prefqueue, running, stopped, asked, failed>>

\* When the first one heads the list again, all have been tried - or so it seems.
TestList(n) ==
  /\ WalkAt(n, "test")
  /\ IF lists[n][1] # walking[n].first
       THEN Stage(n, "look") /\ UNCHANGED <<wishes, unusable>>
       ELSE EndWalk(n) /\ wishes' = wishes \ {n} /\ unusable' = unusable \cup {n}
  /\ UNCHANGED <<lists, prefplans, unwanted, recent, running, stopped, asked, failed>>

\* mod_apply_disable.
BeginLower(n) ==
  /\ n \in unwanted /\ Ready(n) /\ BeginAt(n, "lower")
  /\ stopped' = stopped \ {n}
  /\ UNCHANGED <<lists, prefplans, prefqueue, running, asked, failed>>

LowerAt(n) ==
  /\ WalkAt(n, "lower")
  /\ IF ~Supplied(n) \/ n \in recent \cup unusable
       THEN /\ EndWalk(n) /\ recent' = recent \cup {n}
            /\ unwanted' = IF Supplied(n) THEN unwanted ELSE unwanted \ {n}
            /\ UNCHANGED stopped
       ELSE /\ IF lists[n][1] \in running
                 THEN Take(n, "stop") /\ UNCHANGED stopped
                 ELSE Take(n, "turn") /\ stopped' = stopped \cup {n}
            /\ UNCHANGED <<recent, unwanted>>
  /\ UNCHANGED <<lists, prefplans, wishes, unusable, running, asked, failed>>

StopModule(n) ==
  LET m == walking[n].current
      news == IF m \in running THEN Provides[m] ELSE {}
  IN /\ WalkAt(n, "stop")
     /\ \E ok \in {TRUE} \cup (IF m \in MayFail \cap running THEN {FALSE} ELSE {}) :
          /\ running' = IF ok THEN running \ {m} ELSE running
          /\ stopped' = IF ok THEN stopped \cup {n} ELSE stopped
          /\ wishes' = IF ok THEN wishes ELSE wishes \ news
          /\ unwanted' = IF ok THEN unwanted \ news ELSE unwanted
          /\ recent' = recent \cup news
     /\ Stage(n, "stopped")
     /\ UNCHANGED <<lists, prefplans, unusable, asked, failed>>

AfterStop(n) ==
  /\ WalkAt(n, "stopped")
  /\ IF Supplied(n) THEN Stage(n, "turn") /\ UNCHANGED <<unwanted, recent>>
     ELSE EndWalk(n) /\ unwanted' = unwanted \ {n} /\ recent' = recent \cup {n}
  /\ UNCHANGED <<lists, prefplans, wishes, unusable, running, stopped, asked, failed>>

\* Taking a service down turns its list as well, and what was asked for may go behind.
TurnList(n) ==
  /\ WalkAt(n, "turn") /\ lists' = Turned(n) /\ Stage(n, "back")
  /\ asked' = [asked EXCEPT ![n] = {}]
  /\ UNCHANGED <<prefplans, prefqueue, running, stopped, failed>>

TestDown(n) ==
  /\ WalkAt(n, "back")
  /\ IF lists[n][1] # walking[n].first
       THEN Stage(n, "lower") /\ UNCHANGED <<unwanted, recent, unusable>>
       ELSE /\ EndWalk(n) /\ unwanted' = unwanted \ {n}
            /\ recent' = IF n \in stopped THEN recent \cup {n} ELSE recent
            /\ unusable' = IF n \in stopped THEN unusable ELSE unusable \cup {n}
  /\ UNCHANGED <<lists, prefplans, wishes, running, stopped, asked, failed>>

WalkStep(n) ==
  \/ BeginWalk(n) \/ LookAt(n) \/ RunModule(n) \/ RotateList(n) \/ TestList(n)
  \/ BeginLower(n) \/ LowerAt(n) \/ StopModule(n) \/ AfterStop(n) \/ TurnList(n)
  \/ TestDown(n)

PreferencesNext ==
  \/ CommitWish \/ SortLists \/ AwaitWish \/ ReadList
  \/ \E n \in Names : ZapName(n) \/ WalkStep(n)

PreferencesSpec == PreferencesInit /\ [][PreferencesNext]_prefvars

-----------------------------------------------------------------------------
\* Every variable holds a value of its kind, and no sort or rotation loses a
\* candidate or lists one twice.
PreferencesTypeOK ==
  /\ lists \in [Names -> Seq(Mods)] /\ \A n \in Names : lists[n] \in Orders(CandidatesFor(n))
  /\ goals \in [enable : SUBSET Names, disable : SUBSET Names]
  /\ wishes \cup unwanted \cup unusable \cup recent \cup stopped \subseteq Names
  /\ sorting \cup awaited \subseteq Wishes
  /\ running \cup failed \subseteq Mods
  /\ asked \in [Names -> SUBSET Mods]
  /\ walking \in [Names -> [at : {"none", "look", "run", "rotate", "test",
                                  "lower", "stop", "stopped", "turn", "back"},
                            first : Mods \cup {"none"}, current : Mods \cup {"none"}]]
  /\ commits \in 0 .. MaxCommits

\* Who asks for a service and for one of its modules by name in the same plan gets, from
\* the threads that begin once the plan has sorted the lists, no module for the service
\* that no plan has spoken of, as long as none of the modules asked for has failed, no
\* candidate was zapped and the list was not turned to take the service down - however
\* deprecated, configured and rotated the list is, and whatever other plans sort it for
\* ("to be clear about which displaymanager to start", einit-concepts).
ChosenFirst ==
  \A n \in Names :
    WalkAt(n, "run") /\ asked[n] # {} => walking[n].current \in requested

\* (Contradicted: mod_is_requested does not ask what for.)
\* The module that comes up first is one that is to be enabled.
WantedFirst ==
  \A n \in Names :
    WalkAt(n, "run") /\ asked[n] # {} => walking[n].current \in goals.enable

\* (Contradicted by a sort during a walk.)
\* A service is not given up while it has an alternative that was not tried ("it can
\* try to bring up alternatives that still do the same thing", einit-concepts).
AlternativesTried ==
  [][\A n \in Names : TestList(n) /\ n \in unusable' => CandidatesFor(n) \subseteq failed]_prefvars

\* (Contradicted by a list of one module between two deprecated ones.)
\* "Make sure all modules marked as deprecated are last."
DeprecatedLast ==
  [][\A n \in Kinds :
       SortLists /\ Prefer[n] = << >> /\ CandidatesFor(n) \cap (Indirect \cup requested) = {} =>
         \A i, j \in DOMAIN lists'[n] :
           lists'[n][i] \in Deprecated /\ lists'[n][j] \notin Deprecated => j < i]_prefvars
=============================================================================
