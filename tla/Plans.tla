------------------------------- MODULE Plans -------------------------------
(***************************************************************************)
(* module-logic-v3.c: plans.  A mode switch or a request to enable or      *)
(* disable services becomes a plan.  The thread that commits it merges the *)
(* plan into the target state and the target state into the queue of the   *)
(* work threads ("current"), adds what the queued services need, starts    *)
(* the work threads and waits until nothing of the plan is left to do, the *)
(* critical devices are there - or nothing has happened for too long.      *)
(* Plans of several threads overlap; broken and changed services are       *)
(* remembered from the first of them to the end of the last.               *)
(***************************************************************************)
EXTENDS Workers, Integers, FiniteSets

CONSTANTS
  Plans,          \* the threads that commit a plan; each commits one
  Requests,       \* what may be asked: [mode, enable, disable, shutdown]
  NoMode,         \* mode of a request that is not a mode switch
  Defined,        \* modes the configuration defines
  StallTimeout,   \* whether ten quiet seconds can pass
  MaxRevision     \* bound: updates of the module list

ASSUME PlansAssumption ==
  /\ IsFiniteSet(Plans)
  /\ \A r \in Requests : r.enable \subseteq Services /\ r.disable \subseteq Services

VARIABLES
  pc,             \* stage of each plan's thread
  req,            \* its plan
  todo,           \* services its current look at the plan has not reached
  remainder,      \* whether that look found something left to do
  seen_revision,  \* currentlistrev
  revision,       \* einit_module_logic_list_revision
  forgotten,      \* the revision for which what was broken has been forgotten
  commits,        \* ml_commits
  clean,          \* clean_broken of mod_commits_inc and mod_commits_dec
  switching,      \* current_switches
  critical_ok     \* mod_critical_devices_ok

planvars == <<pc, req, todo, remainder, seen_revision, clean>>
shared == <<revision, forgotten, commits, switching, critical_ok>>
vars == <<workervars, planvars, shared>>

PlanStages == {"idle", "switch", "lookup", "rejected", "undefined", "begin", "cross",
               "flatten", "count", "spawn", "look", "wait", "abort", "finished",
               "aborted", "cleanup", "done", "returned"}

NoRequest == [mode |-> NoMode, enable |-> {}, disable |-> {}, shutdown |-> FALSE]

PlanAt(p, stage) == pc[p] = stage
PlanGoto(p, stage) == pc' = [pc EXCEPT ![p] = stage]

Init ==
  /\ Idle
  /\ up \in [Services -> {0, 1}]
  /\ \A s \in Services : up[s] = 1 =>
       1 \in Candidates(s) /\ \A r \in Requires[s][1] : up[r] = 1
  /\ listed = up
  /\ pc = [p \in Plans |-> "idle"]
  /\ req = [p \in Plans |-> NoRequest]
  /\ todo = [p \in Plans |-> {}]
  /\ remainder = [p \in Plans |-> FALSE]
  /\ seen_revision = [p \in Plans |-> 0]
  /\ clean = [p \in Plans |-> FALSE]
  /\ revision = 0 /\ forgotten = 0 /\ commits = 0 /\ switching = {} /\ critical_ok = FALSE

-----------------------------------------------------------------------------
\* The handlers of einit_core_switch_mode, einit_core_manipulate_services and
\* einit_core_change_service_status.

Request(p) ==
  /\ PlanAt(p, "idle")
  /\ \E r \in Requests :
       /\ req' = [req EXCEPT ![p] = r]
       /\ PlanGoto(p, IF r.mode = NoMode THEN "begin" ELSE "switch")
  /\ UNCHANGED <<workervars, todo, remainder, seen_revision, clean, shared>>

\* (Mutant: the list of switches in progress is not consulted.)
SwitchMode_Unguarded(p) ==
  LET m == req[p].mode
  IN /\ PlanAt(p, "switch")
     /\ PlanGoto(p, "lookup")
     /\ switching' = switching \cup {m}
     /\ UNCHANGED <<workervars, req, todo, remainder, seen_revision, clean, revision, forgotten,
                    commits, critical_ok>>

\* mod_switchmode: one switch to a mode at a time...
SwitchMode(p) ==
  LET m == req[p].mode
  IN /\ PlanAt(p, "switch")
     /\ \/ m \in switching /\ PlanGoto(p, "rejected") /\ UNCHANGED switching
        \/ m \notin switching /\ PlanGoto(p, "lookup") /\ switching' = switching \cup {m}
     /\ UNCHANGED <<workervars, req, todo, remainder, seen_revision, clean, revision, forgotten,
                    commits, critical_ok>>

\* ... and a mode that is not defined ends it, the entry in place.
FindMode(p) ==
  /\ PlanAt(p, "lookup")
  /\ PlanGoto(p, IF req[p].mode \in Defined THEN "begin" ELSE "undefined")
  /\ UNCHANGED <<workervars, req, todo, remainder, seen_revision, clean, shared>>

-----------------------------------------------------------------------------
\* mod_plan_commit

\* A mode with the shutdown option makes the whole program shut down.
Begin(p) ==
  /\ PlanAt(p, "begin")
  /\ shutting_down' = (shutting_down \/ req[p].shutdown)
  /\ PlanGoto(p, "cross")
  /\ UNCHANGED <<modstate, queue, target_enable, target_disable, marks, chains, threads,
                 req, todo, remainder, seen_revision, clean, shared>>

\* cross_taskblock: later wishes override earlier ones, and disable wins within
\* one task block.
CrossEnable(src, tgt) == (tgt.enable \cup src.enable) \ src.disable
CrossDisable(src, tgt) == (tgt.disable \ src.enable) \cup src.disable

\* (Mutant: the target state does not forget what it wanted down before.)
Cross_StaleTarget(p) ==
  LET wanted == [enable |-> target_enable, disable |-> target_disable]
      current == [enable |-> enable, disable |-> disable]
      merged == [enable |-> CrossEnable(req[p], wanted),
                 disable |-> target_disable \cup req[p].disable]
  IN /\ PlanAt(p, "cross")
     /\ Unlocked
     /\ seen_revision' = [seen_revision EXCEPT ![p] = revision]
     /\ target_enable' = merged.enable /\ target_disable' = merged.disable
     /\ enable' = {s \in CrossEnable(merged, current) : ~Provided(s)}
     /\ disable' = {s \in CrossDisable(merged, current) : Provided(s)}
     /\ PlanGoto(p, "flatten")
     /\ UNCHANGED <<modstate, tbmutex, shutting_down, marks, chains, threads, req, todo,
                    remainder, clean, shared>>

\* One iteration begins: the plan goes into the target state, the target state
\* into the queue, and what is in place already leaves it.
Cross(p) ==
  LET wanted == [enable |-> target_enable, disable |-> target_disable]
      current == [enable |-> enable, disable |-> disable]
      merged == [enable |-> CrossEnable(req[p], wanted),
                 disable |-> CrossDisable(req[p], wanted)]
  IN /\ PlanAt(p, "cross")
     /\ Unlocked
     /\ seen_revision' = [seen_revision EXCEPT ![p] = revision]
     /\ target_enable' = merged.enable /\ target_disable' = merged.disable
     /\ enable' = {s \in CrossEnable(merged, current) : ~Provided(s)}
     /\ disable' = {s \in CrossDisable(merged, current) : Provided(s)}
     /\ PlanGoto(p, "flatten")
     /\ UNCHANGED <<modstate, tbmutex, shutting_down, marks, chains, threads, req, todo,
                    remainder, clean, shared>>

\* mod_flatten_current_tb: under ml_tb_current_mutex the queue is completed by
\* what its services require, or by what uses them; a candidate with a broken
\* requirement makes room for the next one.
Lacking(s) == {r \in Requires[s][head[s]] : ~Provided(r)}

\* (Mutant: the mark itself is lost.)
Mark_DeferOnly(X) ==
  /\ UNCHANGED broken
  /\ after' = [s \in Services |-> IF s \in X THEN {} ELSE after[s]]

Mark(X) ==
  /\ broken' = broken \cup X
  /\ after' = [s \in Services |-> IF s \in X THEN {} ELSE after[s]]

FlattenEnable(s) ==
  /\ s \in enable
  /\ \/ /\ Provided(s) \/ s \in broken
        /\ enable' = enable \ {s}
        /\ UNCHANGED <<head, broken, after>>
     \/ /\ ~Provided(s) /\ s \notin broken
        /\ Candidates(s) = {}
        /\ Mark({s})
        /\ UNCHANGED <<head, enable>>
     \/ /\ ~Provided(s) /\ s \notin broken
        /\ Candidates(s) # {}
        /\ Lacking(s) \cap broken = {}
        /\ ~(Lacking(s) \subseteq enable)
        /\ enable' = enable \cup Lacking(s)
        /\ UNCHANGED <<head, broken, after>>
     \/ /\ ~Provided(s) /\ s \notin broken
        /\ Candidates(s) # {}
        /\ Lacking(s) \cap broken # {}
        /\ \E D \in SUBSET (Lacking(s) \ broken) : enable' = enable \cup D
        /\ IF Len(Requires[s]) > 1
             THEN head' = [head EXCEPT ![s] = Rotated(s)] /\ UNCHANGED <<broken, after>>
             ELSE Mark({s}) /\ UNCHANGED head
  /\ UNCHANGED disable

FlattenDisable(s) ==
  LET more == {t \in Users(s) : t \notin broken} \ disable
  IN /\ s \in disable
     /\ \/ /\ ~Provided(s) \/ s \in broken
           /\ disable' = disable \ {s}
           /\ UNCHANGED <<broken, after>>
        \/ /\ Provided(s) /\ s \notin broken
           /\ Candidates(s) = {}
           /\ Mark({s})
           /\ UNCHANGED disable
        \/ /\ Provided(s) /\ s \notin broken
           /\ more # {}
           /\ disable' = disable \cup more
           /\ UNCHANGED <<broken, after>>
     /\ UNCHANGED <<head, enable>>

Flat ==
  /\ \A s \in enable \ broken :
       /\ ~Provided(s)
       /\ Candidates(s) # {}
       /\ Lacking(s) \subseteq enable
  /\ \A s \in disable \ broken :
       Provided(s) /\ Candidates(s) # {} /\ Users(s) \subseteq disable \cup broken

Flatten(p) ==
  /\ PlanAt(p, "flatten")
  /\ tbmutex \in {Nobody, p}
  /\ \/ /\ \E s \in Services : FlattenEnable(s) \/ FlattenDisable(s)
        /\ tbmutex' = p
        /\ UNCHANGED pc
     \/ /\ Flat
        /\ tbmutex' = Nobody
        /\ PlanGoto(p, "count")
        /\ UNCHANGED <<head, enable, disable, broken, after>>
  /\ UNCHANGED <<up, listed, target, changed, before, threads, req, todo, remainder,
                 seen_revision, clean, shared>>

-----------------------------------------------------------------------------
\* mod_commit_and_wait

\* (Mutant: only the first of overlapping plans is counted.)
Count_FirstOnly(p) ==
  /\ PlanAt(p, "count")
  /\ commits' = IF commits = 0 THEN 1 ELSE commits
  /\ clean' = [clean EXCEPT ![p] = commits = 0]
  /\ PlanGoto(p, "spawn")
  /\ UNCHANGED <<workervars, req, todo, remainder, seen_revision, revision, forgotten, switching,
                 critical_ok>>

\* mod_commits_inc, its first half.
Count(p) ==
  /\ PlanAt(p, "count")
  /\ commits' = commits + 1
  /\ clean' = [clean EXCEPT ![p] = commits = 0]
  /\ PlanGoto(p, "spawn")
  /\ UNCHANGED <<workervars, req, todo, remainder, seen_revision, revision, forgotten, switching,
                 critical_ok>>

Wanted(p) == req[p].enable \cup req[p].disable

\* Its second half: the first of overlapping plans starts with nothing broken and
\* nothing changed; then the work threads are spawned.
StartWork(p) ==
  /\ PlanAt(p, "spawn")
  /\ Unlocked
  /\ broken' = IF clean[p] THEN {} ELSE broken
  /\ changed' = IF clean[p] THEN {} ELSE changed
  /\ Spawn(enable, disable, work)
  /\ todo' = [todo EXCEPT ![p] = Wanted(p)]
  /\ remainder' = [remainder EXCEPT ![p] = FALSE]
  /\ PlanGoto(p, "look")
  /\ UNCHANGED <<modstate, tbmutex, target, walk, leaving, req, seen_revision, clean,
                 shared>>

\* What a service of the plan still lacks.
Missing(p, s) == s \in req[p].enable /\ ~Provided(s) /\ s \notin Settled
Lingering(p, s) == s \in req[p].disable /\ Provided(s) /\ s \notin Settled

\* (Mutant: a service that is still being worked on is not waited for.)
Look_Hasty(p) ==
  /\ PlanAt(p, "look")
  /\ Unlocked
  /\ \E s \in todo[p] :
       /\ todo' = [todo EXCEPT ![p] = @ \ {s}]
       /\ remainder' = [remainder EXCEPT
                          ![p] = @ \/ (Missing(p, s) /\ work[s] = "none")
                                   \/ (Lingering(p, s) /\ s \in disable)]
       /\ disable' = IF Lingering(p, s) THEN disable \cup {s} ELSE disable
  /\ UNCHANGED <<modstate, enable, tbmutex, target, marks, chains, threads, pc, req,
                 seen_revision, clean, shared>>

\* One service of the plan at a time: one that is not queued any more is not
\* waited for; if it should go down it is queued again.
Look(p) ==
  /\ PlanAt(p, "look")
  /\ Unlocked
  /\ \E s \in todo[p] :
       /\ todo' = [todo EXCEPT ![p] = @ \ {s}]
       /\ remainder' = [remainder EXCEPT
                          ![p] = @ \/ (Missing(p, s) /\ s \in enable)
                                   \/ (Lingering(p, s) /\ s \in disable)]
       /\ disable' = IF Lingering(p, s) THEN disable \cup {s} ELSE disable
  /\ UNCHANGED <<modstate, enable, tbmutex, target, marks, chains, threads, pc, req,
                 seen_revision, clean, shared>>

\* Nothing left, and the critical devices are there: the plan is finished.
Judge(p) ==
  /\ PlanAt(p, "look")
  /\ todo[p] = {}
  /\ PlanGoto(p, IF ~remainder[p] /\ critical_ok THEN "finished" ELSE "wait")
  /\ UNCHANGED <<workervars, req, todo, remainder, seen_revision, clean, shared>>

\* mod_wait_for_ping returns, after a second at the latest.
Ping(p) ==
  /\ PlanAt(p, "wait")
  /\ todo' = [todo EXCEPT ![p] = Wanted(p)]
  /\ remainder' = [remainder EXCEPT ![p] = FALSE]
  /\ PlanGoto(p, "look")
  /\ UNCHANGED <<workervars, req, seen_revision, clean, shared>>

\* "PLAN ABORTED: didn't do anything at all for too long": no module function is
\* running and none has returned for ten seconds.
Stall(p) ==
  /\ PlanAt(p, "wait")
  /\ StallTimeout
  /\ \A s \in Services : work[s] \notin {"run", "update"}
  /\ Mark({s \in Services : Missing(p, s) \/ Lingering(p, s)})
  /\ PlanGoto(p, "abort")
  /\ UNCHANGED <<modstate, queue, target, changed, before, threads, req, todo, remainder,
                 seen_revision, clean, shared>>

\* An aborted plan marks whatever has a work thread until none is left.
Abort(p) ==
  /\ PlanAt(p, "abort")
  /\ \/ Working # {} /\ Mark(Working) /\ UNCHANGED pc
     \/ Working = {} /\ PlanGoto(p, "aborted") /\ UNCHANGED <<broken, after>>
  /\ UNCHANGED <<modstate, queue, target, changed, before, threads, req, todo, remainder,
                 seen_revision, clean, shared>>

\* mod_commits_dec: the last of overlapping plans forgets what was broken.
Uncount(p) ==
  /\ pc[p] \in {"finished", "aborted"}
  /\ commits' = commits - 1
  /\ clean' = [clean EXCEPT ![p] = commits = 1]
  /\ PlanGoto(p, "cleanup")
  /\ UNCHANGED <<workervars, req, todo, remainder, seen_revision, revision, forgotten, switching,
                 critical_ok>>

\* The plan is committed again if the module list was updated meanwhile.
Cleanup(p) ==
  /\ PlanAt(p, "cleanup")
  /\ IF clean[p]
       THEN /\ broken' = {} /\ changed' = {}
            /\ after' = [s \in Services |-> {}]
            /\ before' = [s \in Services |-> {}]
       ELSE UNCHANGED <<marks, chains>>
  /\ PlanGoto(p, IF revision # seen_revision[p] THEN "cross" ELSE "done")
  /\ UNCHANGED <<modstate, queue, target, threads, req, todo, remainder, seen_revision,
                 clean, shared>>

\* mod_plan_commit returns; a mode switch is taken off the list.
Return(p) ==
  /\ PlanAt(p, "done")
  /\ switching' = switching \ {req[p].mode}
  /\ PlanGoto(p, "returned")
  /\ UNCHANGED <<workervars, req, todo, remainder, seen_revision, clean, revision,
                 forgotten, commits, critical_ok>>

-----------------------------------------------------------------------------
\* Events from elsewhere.

\* einit_core_module_list_update puts a new service list in the place of the old one (a
\* thread that walks that keeps to it)...
NewList ==
  /\ revision < MaxRevision /\ forgotten = revision
  /\ Unlocked
  /\ revision' = revision + 1
  /\ head' = [s \in Services |-> IF candidate[s] = 0 THEN 1 ELSE head[s]]
  /\ UNCHANGED <<up, listed, queue, target, marks, chains, threads, planvars, forgotten, commits,
                 switching, critical_ok>>

\* ... and then, under another mutex, forgets what was broken.
ForgetBroken ==
  /\ forgotten # revision
  /\ forgotten' = revision
  /\ broken' = {}
  /\ UNCHANGED <<modstate, queue, target, changed, chains, threads, planvars, revision,
                 commits, switching, critical_ok>>

UpdateModuleList == NewList \/ ForgetBroken

\* einit_boot_critical_devices_ok
CriticalDevicesOk ==
  /\ ~critical_ok
  /\ critical_ok' = TRUE
  /\ UNCHANGED <<workervars, planvars, revision, forgotten, commits, switching>>

PlanStep(p) ==
  \/ SwitchMode(p) \/ FindMode(p) \/ Begin(p) \/ Cross(p) \/ Flatten(p) \/ Count(p)
  \/ StartWork(p) \/ Look(p) \/ Judge(p) \/ Ping(p) \/ Stall(p) \/ Abort(p) \/ Uncount(p) \/ Cleanup(p)
  \/ Return(p)

Work(s) == WorkStep(s) /\ UNCHANGED <<planvars, shared>>
LateClear(s) == Clear(s) /\ UNCHANGED <<planvars, shared>>

Next ==
  \/ \E p \in Plans : Request(p) \/ PlanStep(p)
  \/ \E s \in Services : Work(s) \/ LateClear(s)
  \/ UpdateModuleList \/ CriticalDevicesOk

Spec == Init /\ [][Next]_vars

\* Every thread runs on.
Progress ==
  /\ \A p \in Plans : WF_vars(PlanStep(p))
  /\ \A s \in Services : WF_vars(Work(s)) /\ WF_vars(LateClear(s))
  /\ WF_vars(CriticalDevicesOk)

\* A plan whose wait goes on for ever sees ten quiet seconds pass if there are any.
Fairness == Progress /\ \A p \in Plans : SF_vars(Stall(p))

FairSpec == Spec /\ Fairness

-----------------------------------------------------------------------------
\* Every variable holds a value of its kind.
PlanTypes ==
  /\ pc \in [Plans -> PlanStages]
  /\ req \in [Plans -> Requests \cup {NoRequest}]
CommitTypes ==
  /\ todo \in [Plans -> SUBSET Services]
  /\ seen_revision \in [Plans -> Nat] /\ revision \in Nat /\ forgotten \in Nat
  /\ commits \in Int
  /\ tbmutex \in Plans \cup {Nobody}
  /\ switching \subseteq {r.mode : r \in Requests}
Flags ==
  /\ remainder \in [Plans -> BOOLEAN] /\ clean \in [Plans -> BOOLEAN]
  /\ shutting_down \in BOOLEAN /\ critical_ok \in BOOLEAN
TypeOK == WorkerTypes /\ PlanTypes /\ CommitTypes /\ Flags

\* The target state never wants a service both up and down, whatever order the
\* plans are merged in (cross_taskblock), so mod_gettask has one answer for it.
TargetDisjoint == target_enable \cap target_disable = {}

\* The plans between the two halves of mod_commit_and_wait.
Committing ==
  {p \in Plans : pc[p] \in {"spawn", "look", "wait", "abort", "finished", "aborted"}}

\* ml_commits counts exactly the plans that are being committed, so the marks of
\* a plan are dropped only when the last of them is over (mod_commits_inc and
\* mod_commits_dec).
CommitsCounted == commits = Cardinality(Committing)

\* A plan that stands for a mode, from its entry in current_switches on.
Switching(p) ==
  req[p].mode # NoMode /\ pc[p] \notin {"idle", "switch", "rejected", "returned"}

\* Two threads never switch to one mode at the same time (current_switches).
OneSwitchPerMode ==
  \A p, q \in Plans :
    Switching(p) /\ Switching(q) /\ req[p].mode = req[q].mode => p = q

\* What a service needs, whichever of its candidates provides it; and whether a plan
\* wants it, or something it needs, down.
Needs == [s \in Services |-> UNION {Requires[s][i] : i \in Candidates(s)}]
Opposed(s) == \E q \in Plans : Reached({s}, Needs) \cap req[q].disable # {}

\* No service that should come up is left behind while a plan waits: when no work
\* thread is alive, none is at its end and no plan is about to start some, whatever is
\* queued to be enabled is up, broken or has changed (mod_workthreads_dec).  Nobody would
\* ever retry it.  (A service that another plan wants down may be, one that should
\* go down - mod_commit_and_wait puts it back into the queue and starts no thread - and
\* one whose module failed: the property is about modules that do not fail.)
NothingStranded ==
  (/\ Working = {} /\ leaving = {}
   /\ \A p \in Plans : pc[p] \notin {"flatten", "count", "spawn", "cleanup"}
   /\ \E p \in Plans : pc[p] \in {"look", "wait"})
     => {s \in enable : ~Provided(s) /\ ~Opposed(s)} \subseteq Settled

\* A plan that is finished has brought up everything it should, except what is
\* broken or wanted down by another plan: mod_commit_and_wait never mistakes work in
\* progress for work done.  (A service that is about to be marked broken, its module
\* having failed or its requirement needing it in turn, it does take for done: the
\* property is about modules that do not fail and services that do not need each other.)
PlanDelivers ==
  \A p \in Plans :
    PlanAt(p, "finished") =>
      \A s \in req[p].enable : up[s] # 0 \/ s \in broken \/ Opposed(s)

\* (Contradicted by a service that is brought down right after its last user.)
\* "mark service broken if stuff went completely wrong" (mod_apply_disable): where
\* no module fails and no plan is aborted, nothing is marked broken.
BrokenOnlyByFailure == broken = {}

\* The requests of the plans that have begun, and what they want up or down, directly
\* or by what services need.
Asked ==
  {req[p] : p \in {q \in Plans :
                    pc[q] \notin {"switch", "lookup", "rejected", "undefined"}}}
WantedUp == {s \in Services : \E r \in Asked : s \in Reached(r.enable, Needs)}
WantedDown == {s \in Services : \E r \in Asked : Reached({s}, Needs) \cap r.disable # {}}

\* Only what was asked for happens: a service comes up only if it, or something that
\* needs it, was to be enabled, and goes down only if it, or something it needs, was to
\* be disabled or the program shuts down.  (mod_gettask takes a service that is queued
\* nowhere for one to enable, or, in a shutdown, for one to disable.)
OnlyWhatWasAsked ==
  [][\A s \in Services :
       /\ up[s] = 0 /\ up'[s] # 0 => s \in WantedUp
       /\ up[s] # 0 /\ up'[s] = 0 => s \in WantedDown \/ shutting_down]_vars

\* Every request is answered in the end: deferred services, circular requirements
\* and failing modules never keep a plan waiting for ever.
PlansReturn ==
  \A p \in Plans :
    pc[p] \notin {"idle", "rejected", "undefined", "returned"}
      ~> pc[p] \in {"rejected", "undefined", "returned"}

\* (Contradicted by a service all of whose candidates have a broken requirement.)
\* Completing the queue ends, and ml_tb_current_mutex is released.
FlattenEnds == \A p \in Plans : PlanAt(p, "flatten") ~> ~PlanAt(p, "flatten")
=============================================================================
