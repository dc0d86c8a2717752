------------------------------ MODULE Ordering ------------------------------
(***************************************************************************)
(* module-logic-v3.c: the loose order of services.  A module may name      *)
(* services it goes before or after "if they're loaded to begin with":     *)
(* mod_reorder looks at what is queued and defers the one until the other, *)
(* unless that would close a circle.  mod_spawn_batch does so for each     *)
(* queued service before any of them gets a thread, and every thread again *)
(* for its own service before it calls the module.  The chains and the     *)
(* threads are those of Workers.                                           *)
(*                                                                         *)
(* One queue is brought up, or down, here; patterns are given by what they *)
(* match, and no service is a group.                                       *)
(***************************************************************************)
EXTENDS Workers

CONSTANTS
  Before, After,  \* for each service the services its module goes before and after
  ShutdownBefore, ShutdownAfter   \* the same at a shutdown

VARIABLES
  left,           \* services mod_spawn_batch has yet to look at
  dospawn,        \* those it is going to create threads for
  order,          \* for each service the mod_reorder under way: [at, todo, entry, late]
  asked           \* history: what was queued at first

loosevars == <<left, dospawn, order>>
vars == <<workervars, loosevars, asked>>

None == [who |-> "none", whom |-> "none"]
NoOrder == [at |-> "new", todo |-> {}, entry |-> None, late |-> FALSE]

Batch == "batch"

\* A plan has just flattened its queue.
Init ==
  /\ \E up0 \in {0, 1} :
       /\ up = [s \in Services |-> up0] /\ listed = up
       /\ enable = IF up0 = 0 THEN Services ELSE {}
       /\ disable = Services \ enable
       /\ shutting_down \in (IF up0 = 0 THEN {FALSE} ELSE BOOLEAN)
  /\ target_enable = enable /\ target_disable = disable
  /\ head = [s \in Services |-> 1]
  /\ broken = {} /\ changed = {}
  /\ after = [s \in Services |-> {}] /\ before = [s \in Services |-> {}]
  /\ work = [s \in Services |-> "none"] /\ leaving = {}
  /\ goal = [s \in Services |-> "none"]
  /\ first = [s \in Services |-> 0] /\ candidate = first
  /\ tbmutex = Batch
  /\ left = Services /\ dospawn = {}
  /\ order = [s \in Services |-> NoOrder]
  /\ asked = Services

-----------------------------------------------------------------------------
\* mod_reorder.

\* The lists of a module that names nothing to go before or after are not looked at,
\* those for a shutdown included.
Ahead(s, t) ==
  IF Before[s] \cup After[s] = {} THEN {}
  ELSE IF t = "enable" THEN Before[s]
  ELSE IF shutting_down /\ ShutdownBefore[s] # {} THEN ShutdownBefore[s] ELSE After[s]

Behind(s, t) ==
  IF Before[s] \cup After[s] = {} THEN {}
  ELSE IF t = "enable" THEN After[s]
  ELSE IF shutting_down /\ ShutdownAfter[s] # {} THEN ShutdownAfter[s] ELSE Before[s]

\* What of it is queued; what the module requires is ordered elsewhere.
Loose(s, X, t) ==
  (X \cap (IF t = "enable" THEN enable ELSE disable)) \ ({s} \cup Requires[s][head[s]] \cup Settled)

\* The deferrals to be entered.
Pairs(s, t) ==
  LET ahead == Loose(s, Ahead(s, t), t)
      behind == Loose(s, Behind(s, t), t) \ ahead
  IN {[who |-> b, whom |-> s] : b \in ahead} \cup {[who |-> s, whom |-> a] : a \in behind}

BeginOrder(s, t) ==
  order' = [order EXCEPT ![s] =
              [at |-> "busy", todo |-> Pairs(s, t), entry |-> None, late |-> FALSE]]

Busy(s) == order[s].at = "busy"
Over(s) == Busy(s) /\ order[s].todo = {} /\ order[s].entry = None

\* mod_defer_until: the look for a circle, those that go behind s first...
Check(s) ==
  LET o == order[s]
      mine == {p \in o.todo : p.whom = s}
  IN /\ Busy(s) /\ o.entry = None
     /\ \E p \in IF mine # {} THEN mine ELSE o.todo :
          order' = [order EXCEPT ![s].todo = @ \ {p},
                                 ![s].entry = IF Circular(p.who, p.whom) THEN None ELSE p]
     /\ UNCHANGED <<workervars, left, dospawn, asked>>

\* ... and the entry in the chains, in a critical section of its own.
Enter(s) ==
  LET p == order[s].entry
  IN /\ Busy(s) /\ p # None
     /\ after' = [after EXCEPT ![p.who] = @ \cup {p.whom}]
     /\ before' = [before EXCEPT ![p.whom] = @ \cup {p.who}]
     /\ order' = [order EXCEPT ![s].entry = None, ![s].late = @ \/ p.who = s]
     /\ UNCHANGED <<modstate, queue, target, marks, threads, left, dospawn, asked>>

-----------------------------------------------------------------------------
\* mod_spawn_batch, with ml_tb_current_mutex held by its caller.

InBatch == tbmutex = Batch
Ordering == {s \in Services : Busy(s)}

\* The look at a deferred service creates threads for those it is deferred after.
Look(s) ==
  /\ InBatch /\ s \in left /\ Ordering = {}
  /\ UNCHANGED marks
  /\ IF s \in broken \/ Deferred(s)
       THEN /\ left' = left \ {s}
            /\ Create(IF s \in broken THEN {} ELSE after[s], work, before)
            /\ UNCHANGED order
       ELSE /\ BeginOrder(s, IF s \in enable THEN "enable" ELSE "disable")
            /\ UNCHANGED <<work, before, left>>
  /\ UNCHANGED <<modstate, queue, target, after, walk, leaving, dospawn, asked>>

\* One that is in the right state leaves the queue, and everything is looked at again.
Looked(s) ==
  LET done == InRightState(s, IF s \in enable THEN "enable" ELSE "disable")
      again == ~order[s].late /\ done
  IN /\ InBatch /\ s \in left /\ Over(s)
     /\ enable' = IF again THEN enable \ {s} ELSE enable
     /\ disable' = IF again THEN disable \ {s} ELSE disable
     /\ left' = IF again THEN (enable \cup disable) \ {s} ELSE left \ {s}
     /\ dospawn' = IF again THEN {} ELSE IF order[s].late THEN dospawn ELSE dospawn \cup {s}
     /\ order' = [order EXCEPT ![s] = NoOrder]
     /\ UNCHANGED <<modstate, tbmutex, target, marks, chains, threads, asked>>

\* If none is free to go, all chains are cut.
Spawned ==
  /\ InBatch /\ left = {}
  /\ UNCHANGED marks
  /\ Create(dospawn, work, IF dospawn = {} THEN [s \in Services |-> {}] ELSE before)
  /\ after' = IF dospawn = {} THEN [s \in Services |-> {}] ELSE after
  /\ tbmutex' = Nobody
  /\ dospawn' = {}
  /\ UNCHANGED <<modstate, enable, disable, target, walk, leaving, left, order, asked>>

\* mod_workthreads_dec and mod_spawn_workthreads
LeaveLoosely(s) ==
  /\ IF Working = {s} /\ Queued \ broken # {}
       THEN /\ after' = [x \in Services |-> {}] /\ before' = after'
            /\ left' = enable \cup disable
            /\ tbmutex' = Batch
       ELSE UNCHANGED <<chains, left, tbmutex>>
  /\ work' = Moved(work, s, "none")
  /\ UNCHANGED <<enable, disable>>

-----------------------------------------------------------------------------
\* The threads.  (With one plan at a time none finds its own service settled.)

EndLoosely(s) ==
  /\ work[s] \in {"settle", "leave"}
  /\ Unlocked
  /\ changed' = IF work[s] = "settle" THEN changed \cup {s} ELSE changed
  /\ LeaveLoosely(s)
  /\ goal' = [goal EXCEPT ![s] = "none"]
  /\ first' = [first EXCEPT ![s] = 0]
  /\ candidate' = [candidate EXCEPT ![s] = 0]
  /\ order' = [order EXCEPT ![s] = NoOrder]
  /\ UNCHANGED <<modstate, target, broken, leaving, dospawn, asked>>

\* mod_examine: what its service goes after is looked up once more, and waited for.
Reorder(s) ==
  /\ At(s, "apply") /\ order[s].at = "new"
  /\ Unlocked
  /\ BeginOrder(s, goal[s])
  /\ UNCHANGED <<workervars, left, dospawn, asked>>

\* (Mutant: having deferred its service, the thread goes on.)
Reordered_Eager(s) ==
  /\ At(s, "apply") /\ Over(s)
  /\ order' = [order EXCEPT ![s].at = "done"]
  /\ UNCHANGED <<workervars, left, dospawn, asked>>

Reordered(s) ==
  /\ At(s, "apply") /\ Over(s)
  /\ Goto(s, IF order[s].late THEN "wait" ELSE "apply")
  /\ order' = [order EXCEPT ![s] = IF @.late THEN NoOrder ELSE [@ EXCEPT !.at = "done"]]
  /\ UNCHANGED <<modstate, queue, target, marks, chains, walk, leaving, left, dospawn, asked>>

\* mod_disable_users looks a last time when nothing uses the module.
ReorderLast(s) ==
  /\ At(s, "apply") /\ order[s].at = "done"
  /\ goal[s] = "disable" /\ Provided(s) /\ s \notin Settled
  /\ up[s] = candidate[s] /\ Users(s) = {}
  /\ Unlocked
  /\ BeginOrder(s, "disable")
  /\ Goto(s, "need")
  /\ UNCHANGED <<modstate, queue, target, marks, chains, walk, leaving, left, dospawn, asked>>

ReorderedLast(s) ==
  /\ At(s, "need") /\ Over(s)
  /\ Goto(s, IF order[s].late THEN "pre" ELSE "call")
  /\ order' = [order EXCEPT ![s].at = "done"]
  /\ UNCHANGED <<modstate, queue, target, marks, chains, walk, leaving, left, dospawn, asked>>

Apply(s) ==
  /\ order[s].at = "done"
  /\ \/ ApplyEnable(s)
     \/ ApplyDisable(s) /\ ~At(s, "call")'
     \/ EnableRequirements(s) \/ DisableUsers(s)
  /\ UNCHANGED <<loosevars, asked>>

Toil(s) ==
  /\ \/ Examine(s) \/ GiveUp(s) \/ Decide(s) \/ DeferAfterRequirements(s)
     \/ PreExamine(s) \/ Call(s) \/ Run(s) \/ Update(s) \/ NextCandidate(s)
     \/ MarkBroken(s) \/ Finish(s)
  /\ UNCHANGED <<loosevars, asked>>

ThreadStep(s) ==
  \/ EndLoosely(s) \/ Reorder(s) \/ Reordered(s)
  \/ ReorderLast(s) \/ ReorderedLast(s) \/ Apply(s) \/ Toil(s)

Step(s) == Look(s) \/ Looked(s) \/ Check(s) \/ Enter(s) \/ ThreadStep(s)

Next == Spawned \/ \E s \in Services : Step(s)

Spec == Init /\ [][Next]_vars

\* Threads run on, and whoever creates them.
FairSpec == Spec /\ WF_vars(Spawned) /\ \A s \in Services : WF_vars(Step(s))

-----------------------------------------------------------------------------
\* Every variable holds a value of its kind; while the queue is being looked at no
\* thread gets beyond its own first look.
TypeOK ==
  /\ left \cup dospawn \cup asked \cup enable \cup disable \subseteq Services
  /\ work \in [Services -> Stages]
  /\ \A s \in Services : order[s].at \in {"new", "busy", "done"}
  /\ InBatch => \A s \in Services : work[s] \in {"none", "examine", "wait", "decide", "leave"}

\* What has to be done with before s, by what the modules say about the task t.
Earlier(t) ==
  [s \in Services |-> Behind(s, t) \cup {a \in Services : s \in Ahead(a, t)}]

Circle(s, d, t) == s \in Reached({d}, Earlier(t))

Pending(s, X) ==
  {d \in (X \cap asked \cap (enable \cup disable)) \ Settled : ~Circle(s, d, goal[s])}

\* No module is enabled or disabled while one that its own goes after is still queued
\* ("load this module after these services, but only if they're loaded to begin with",
\* module.h) - unless the two are in a circle.
AfterKept ==
  \A s \in Services : At(s, "run") => Pending(s, Behind(s, goal[s])) = {}

\* (Contradicted by three modules each of which goes before the next.)
\* "Load this module before these services, but only if they're loaded to begin with"
\* (module.h).
BeforeKept ==
  \A s \in Services :
    At(s, "run") => Pending(s, {a \in Services : s \in Ahead(a, goal[s])}) = {}

\* No order keeps a service from being brought up or down, circles included.
OrderEnds == <>[](Queued \subseteq broken /\ Working = {})
=============================================================================
