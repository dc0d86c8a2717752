------------------------------ MODULE Workers ------------------------------
(***************************************************************************)
(* module-logic-v3.c: the work threads that bring services up and down.    *)
(*                                                                         *)
(* Whatever is queued in the task block "current" gets a thread of its own *)
(* (mod_workthread_create, at most one per service).  The thread examines  *)
(* its service, waits while it is deferred after others, then walks the    *)
(* candidate modules of the service in the order of the service list until *)
(* one of them is enabled (or all are disabled).  A thread that finds a    *)
(* requirement missing queues it, defers its service after it and ends;    *)
(* whoever finishes a service starts the threads of those deferred after   *)
(* it, and the last thread to end starts the whole queue again.            *)
(*                                                                         *)
(* One step of a thread is what it does under one of the many mutexes, or  *)
(* a chain of such pieces whose order no other thread can tell.  Left out: *)
(* groups, and the loose ordering of "before" and "after" (mod_reorder).   *)
(***************************************************************************)
EXTENDS Naturals, Sequences

CONSTANTS
  Services,       \* service names
  Requires,       \* for each service the requirements of each candidate module
  Fragile,        \* services whose modules may fail to enable or disable
  Nobody          \* owner of a free mutex

ASSUME WorkersAssumption == Requires \in [Services -> Seq(SUBSET Services)]

Stages == {"none", "examine", "wait", "decide", "apply", "need", "defer", "pre", "call",
           "run", "update", "next", "mark", "post", "settle", "quit", "leave"}

VARIABLES
  up,             \* index of the candidate that is enabled (lmodule.status), or 0
  listed,         \* its index in the service-usage table, or 0
  head,           \* index of lm[0], the first candidate in the service list
  enable, disable,   \* current.enable, current.disable
  target_enable, target_disable,   \* target_state.enable, target_state.disable
  tbmutex,        \* owner of ml_tb_current_mutex while it is held for long
  broken,         \* broken_services and unresolved_services
  changed,        \* changed_recently
  after,          \* module_logics_chain_examine_reverse: what a service waits for
  before,         \* module_logics_chain_examine: what waits for a service
  work,           \* stage of the thread working on a service (lm_workthreads_list)
  goal,           \* the task it settled on
  first,          \* lm[0] when it began to walk the candidates
  candidate,      \* the candidate of the present round
  leaving,        \* services whose thread is off the list, but not yet at its end
  shutting_down

modstate == <<up, listed, head>>
queue == <<enable, disable, tbmutex>>
target == <<target_enable, target_disable, shutting_down>>
marks == <<broken, changed>>
chains == <<after, before>>
walk == <<goal, first, candidate>>
threads == <<work, walk, leaving>>
workervars == <<modstate, queue, target, marks, chains, threads>>

-----------------------------------------------------------------------------
Candidates(s) == DOMAIN Requires[s]
Provided(s) == listed[s] # 0                    \* mod_isprovided
Settled == broken \cup changed                  \* mod_isbroken, mod_haschanged
Working == {s \in Services : work[s] # "none"}
Unlocked == tbmutex = Nobody

\* (Mutant: what a service needs is taken for what uses it.)
Users_Swapped(s) ==
  IF Provided(s) THEN {t \in Requires[s][listed[s]] : Provided(t)} ELSE {}

\* Services provided by the modules that the usage table lists as users of s.
Users(s) == {t \in Services : Provided(t) /\ s \in Requires[t][listed[t]]}

Met(s) == \A r \in Requires[s][candidate[s]] : Provided(r)

Deferred(s) == ~(after[s] \subseteq Settled)    \* mod_isdeferred

\* What a relation between services reaches from a set, in any number of steps.
Reached(X, step) ==
  {y \in Services : \A R \in SUBSET Services :
     (X \subseteq R /\ \A x \in R : step[x] \subseteq R) => y \in R}

\* mod_check_circular_defer: is s already behind a, so that a cannot go first?
Circular(s, a) == s \in Reached({a}, after)

\* mod_gettask: disable wins over enable.
Task(s) ==
  IF s \in disable THEN "disable"
  ELSE IF s \in enable THEN "enable"
  ELSE IF s \in target_disable THEN "disable"
  ELSE IF s \in target_enable THEN "enable"
  ELSE IF shutting_down THEN "disable" ELSE "enable"

InRightState(s, t) == Provided(s) <=> t = "enable"

-----------------------------------------------------------------------------
\* Starting threads.

Moved(w, s, stage) == [w EXCEPT ![s] = stage]

\* mod_workthread_create for each service in X: a settled one is post-examined,
\* which empties its list of waiting services and creates threads for them
\* (their own lists of what they wait for stay as they are: the removal names
\* the wrong string); any other gets a thread unless it has one.
Create(X, w, bf) ==
  LET seen == Reached(X, [x \in Services |-> IF x \in Settled' THEN bf[x] ELSE {}])
  IN /\ work' = [x \in Services |-> IF x \in seen \ Settled' /\ w[x] = "none"
                                      THEN "examine" ELSE w[x]]
     /\ before' = [x \in Services |-> IF x \in seen \cap Settled' THEN {} ELSE bf[x]]

\* mod_post_examine(s) by the thread of s, which goes on to the given stage.
PostExamine(s, stage) ==
  Create(before[s], Moved(work, s, stage), [before EXCEPT ![s] = {}])

\* mod_spawn_workthreads: the chains are forgotten, what is in the right state
\* leaves the queue, and all the rest of it gets threads.
Spawn(en, dis, w) ==
  /\ after' = [s \in Services |-> {}]
  /\ before' = [s \in Services |-> {}]
  /\ enable' = {s \in en : s \in broken' \/ ~Provided(s)}
  /\ disable' = {s \in dis : s \in broken' \/ Provided(s)}
  /\ work' = [s \in Services |->
                IF s \in (enable' \cup disable') \ Settled' /\ w[s] = "none"
                  THEN "examine" ELSE w[s]]

Queued == {s \in enable : ~Provided(s)} \cup {s \in disable : Provided(s)}

\* (Mutant: the last thread does not look at the queue.)
Leave_NoSpawn(s) ==
  /\ work' = Moved(work, s, "none")
  /\ UNCHANGED <<queue, chains>>

\* mod_workthreads_dec: the last thread restarts the queue if it is not done.
Leave(s) ==
  /\ IF Working = {s} /\ Queued \ broken # {}
       THEN Spawn(enable, disable, Moved(work, s, "none"))
       ELSE work' = Moved(work, s, "none") /\ UNCHANGED <<enable, disable, chains>>
  /\ UNCHANGED tbmutex

-----------------------------------------------------------------------------
\* mod_examine.

At(s, stage) == work[s] = stage
Goto(s, stage) == work' = Moved(work, s, stage)

\* A thread ends if its service is broken; so does one that has waited if its
\* service has changed.
Abandon(s) ==
  /\ \/ At(s, "examine") /\ s \in broken
     \/ At(s, "wait") /\ s \in Settled
  /\ Unlocked
  /\ UNCHANGED marks
  /\ Leave(s)
  /\ leaving' = leaving \cup {s}
  /\ UNCHANGED <<modstate, target, walk>>

\* Only then does it take the service off the queue and start what waits for it.
Clear(s) ==
  /\ s \in leaving
  /\ Unlocked
  /\ disable' = disable \ {s}
  /\ enable' = IF Task(s) = "enable" THEN enable \ {s} ELSE enable
  /\ UNCHANGED marks
  /\ Create(before[s], work, [before EXCEPT ![s] = {}])
  /\ leaving' = leaving \ {s}
  /\ UNCHANGED <<modstate, tbmutex, target, after, walk>>

\* mod_isdeferred also creates threads for whatever the service is deferred
\* after.
Examine(s) ==
  /\ \/ At(s, "examine") /\ s \notin broken
     \/ At(s, "wait") /\ s \notin Settled
  /\ UNCHANGED marks
  /\ Create(after[s], Moved(work, s, IF Deferred(s) THEN "wait" ELSE "decide"), before)
  /\ UNCHANGED <<modstate, queue, target, after, walk, leaving>>

\* Five pings, or five seconds without one, and a waiting thread ends.
GiveUp(s) ==
  /\ At(s, "wait")
  /\ s \notin Settled
  /\ Goto(s, "leave")
  /\ UNCHANGED <<modstate, queue, target, marks, chains, walk, leaving>>

\* A service without candidates is marked unresolved; one in the right state is
\* done; for any other the walk over its candidates begins.
Decide(s) ==
  LET task == Task(s)
  IN /\ At(s, "decide")
     /\ Unlocked
     /\ CASE InRightState(s, task) ->
               Goto(s, "post") /\ UNCHANGED <<broken, after, walk>>
          [] ~InRightState(s, task) /\ Candidates(s) = {} ->
               /\ Goto(s, "leave")
               /\ broken' = broken \cup {s}
               /\ after' = [after EXCEPT ![s] = {}]
               /\ UNCHANGED walk
          [] OTHER ->
               /\ Goto(s, "apply")
               /\ goal' = [goal EXCEPT ![s] = task]
               /\ first' = [first EXCEPT ![s] = head[s]]
               /\ candidate' = [candidate EXCEPT ![s] = head[s]]
               /\ UNCHANGED <<broken, after>>
     /\ UNCHANGED <<modstate, queue, target, changed, before, leaving>>

-----------------------------------------------------------------------------
\* mod_apply_enable and mod_apply_disable: one round of their loops.

ApplyEnable(s) ==
  /\ At(s, "apply")
  /\ goal[s] = "enable"
  /\ Goto(s, IF Provided(s) \/ up[s] = candidate[s] THEN "post"
             ELSE IF Met(s) THEN "call" ELSE "need")
  /\ UNCHANGED <<modstate, queue, target, marks, chains, walk, leaving>>

ApplyDisable(s) ==
  /\ At(s, "apply")
  /\ goal[s] = "disable"
  /\ Goto(s, IF ~Provided(s) \/ s \in Settled THEN "post"
             ELSE IF up[s] # candidate[s] THEN "next"
             ELSE IF Users(s) = {} THEN "call" ELSE "need")
  /\ UNCHANGED <<modstate, queue, target, marks, chains, walk, leaving>>

\* mod_defer_until for each service in X.
DeferAfter(s, X) == after' = [after EXCEPT ![s] = @ \cup X]
WaitersWith(s, X) == [x \in Services |-> before[x] \cup (IF x \in X THEN {s} ELSE {})]

\* mod_enable_requirements and mod_disable_users give up at the first service of
\* the given set that stands in the way, having deferred s after some others;
\* mod() is then called all the same.
Bail(s, deferred, obstacles) ==
  /\ obstacles # {}
  /\ \E D \in SUBSET (deferred \ obstacles) :
       DeferAfter(s, D) /\ before' = WaitersWith(s, D)
  /\ Goto(s, "call")
  /\ UNCHANGED <<enable, disable>>

\* mod_enable_requirements looks for circles first...
EnableRequirements(s) ==
  LET R == Requires[s][candidate[s]]
      obstacles == {r \in R : r \in broken \/ Circular(s, r)}
  IN /\ At(s, "need")
     /\ goal[s] = "enable"
     /\ \/ Bail(s, R, obstacles)
        \/ obstacles = {} /\ Goto(s, "defer") /\ UNCHANGED <<enable, disable, chains>>
     /\ UNCHANGED <<modstate, tbmutex, target, marks, walk, leaving>>

\* ... and then enters the deferral, without another look at the chains.
DeferAfterRequirements(s) ==
  LET R == Requires[s][candidate[s]]
      missing == {r \in R : ~Provided(r)} \ enable
  IN /\ At(s, "defer")
     /\ Unlocked
     /\ UNCHANGED marks
     /\ DeferAfter(s, R)
     /\ enable' = enable \cup missing
     /\ Create(missing, Moved(work, s, "pre"), WaitersWith(s, R))
     /\ UNCHANGED <<modstate, disable, tbmutex, target, walk, leaving>>

\* mod_disable_users: users that have changed already are not waited for.
DisableUsers(s) ==
  LET U == Users(s)
      fresh == U \ changed
      obstacles == {t \in U : \/ t \in broken /\ ~shutting_down
                              \/ t \in fresh /\ Circular(s, t)}
      need == fresh \cup (U \ disable)
  IN /\ At(s, "need")
     /\ goal[s] = "disable"
     /\ Unlocked
     /\ UNCHANGED marks
     /\ \/ Bail(s, fresh, obstacles)
        \/ /\ obstacles = {}
           /\ DeferAfter(s, fresh)
           /\ disable' = disable \cup need
           /\ Create(need, Moved(work, s, IF fresh = {} THEN "call" ELSE "pre"),
                     WaitersWith(s, fresh))
           /\ UNCHANGED enable
     /\ UNCHANGED <<modstate, tbmutex, target, walk, leaving>>

\* mod_pre_examine: start what s is deferred after, unless all of that turns out
\* to be broken or in place.
PreExamine(s) ==
  LET sound == after[s] \ broken
      done == {p \in sound : InRightState(p, Task(s))}
      free == after[s] # {} /\ sound = done
  IN /\ At(s, "pre")
     /\ Unlocked
     /\ UNCHANGED marks
     /\ Create(sound \cup (UNION {before[p] : p \in done})
                 \cup (IF free THEN {s} ELSE {}),
               Moved(work, s, "leave"),
               [x \in Services |-> IF x \in done THEN {} ELSE before[x]])
     /\ after' = IF free THEN [after EXCEPT ![s] = {}] ELSE after
     /\ UNCHANGED <<modstate, queue, target, walk, leaving>>

-----------------------------------------------------------------------------
\* mod(): its own look at the usage table, the module's function, the event that
\* tells mod_examine_module, and last the update of the usage table.

Call(s) ==
  LET allowed == IF goal[s] = "enable" THEN up[s] # candidate[s] /\ Met(s)
                                       ELSE up[s] = candidate[s] /\ Users(s) = {}
  IN /\ At(s, "call")
     /\ Goto(s, IF allowed THEN "run" ELSE "next")
     /\ UNCHANGED <<modstate, queue, target, marks, chains, walk, leaving>>

\* A failed enable() leaves the module disabled, a failed disable() enabled; the
\* service counts as changed either way.
Run(s) ==
  /\ At(s, "run")
  /\ Unlocked
  /\ \E ok \in {TRUE} \cup (IF s \in Fragile THEN {FALSE} ELSE {}) :
       LET enabled == (goal[s] = "enable") = ok
       IN /\ up' = [up EXCEPT ![s] = IF enabled THEN candidate[s] ELSE 0]
          /\ enable' = IF enabled THEN enable \ {s} ELSE enable
          /\ disable' = IF enabled THEN disable ELSE disable \ {s}
  /\ changed' = changed \cup {s}
  /\ UNCHANGED broken
  /\ PostExamine(s, "update")
  /\ UNCHANGED <<listed, head, tbmutex, target, after, walk, leaving>>

Update(s) ==
  /\ At(s, "update")
  /\ listed' = [listed EXCEPT ![s] = up[s]]
  /\ Goto(s, IF (up[s] # 0) = (goal[s] = "enable") THEN "post" ELSE "next")
  /\ UNCHANGED <<up, head, queue, target, marks, chains, walk, leaving>>

-----------------------------------------------------------------------------
\* The end of a round and of the thread.

Rotated(s) == (head[s] % Len(Requires[s])) + 1

\* The next candidate is tried until the walk is back where it began; then the
\* service leaves the queue.  Nobody moves the list if somebody else did.  A
\* shutdown zaps what could not be disabled.  (Of several candidates at least one
\* is disabled, so only a lone one can end a disabling walk as broken.)
NextCandidate(s) ==
  LET lm == IF head[s] = candidate[s] THEN Rotated(s) ELSE head[s]
      round == lm = first[s]
      zap == round /\ goal[s] = "disable" /\ shutting_down /\ Provided(s)
  IN /\ At(s, "next")
     /\ Unlocked
     /\ head' = [head EXCEPT ![s] = lm]
     /\ candidate' = [candidate EXCEPT ![s] = lm]
     /\ up' = IF zap THEN [up EXCEPT ![s] = 0] ELSE up
     /\ listed' = IF zap THEN [listed EXCEPT ![s] = 0] ELSE listed
     /\ changed' = IF zap THEN changed \cup {s} ELSE changed
     /\ enable' = IF round /\ goal[s] = "enable" THEN enable \ {s} ELSE enable
     /\ disable' = IF round /\ goal[s] = "disable" THEN disable \ {s} ELSE disable
     /\ Goto(s, IF ~round THEN "apply"
                ELSE IF goal[s] = "disable" /\ Len(Requires[s]) > 1 THEN "post"
                ELSE "mark")
     /\ UNCHANGED <<tbmutex, target, broken, chains, goal, first, leaving>>

\* mod_mark (MARK_BROKEN), with mod_remove_defer
MarkBroken(s) ==
  /\ At(s, "mark")
  /\ broken' = broken \cup {s}
  /\ after' = [after EXCEPT ![s] = {}]
  /\ Goto(s, "quit")
  /\ UNCHANGED <<modstate, queue, target, changed, before, walk, leaving>>

\* mod_post_examine before the thread ends.
Finish(s) ==
  /\ work[s] \in {"post", "quit"}
  /\ UNCHANGED marks
  /\ PostExamine(s, IF work[s] = "post" THEN "settle" ELSE "leave")
  /\ UNCHANGED <<modstate, queue, target, after, walk, leaving>>

\* mod_workthreads_dec_changed and mod_workthreads_dec
End(s) ==
  /\ work[s] \in {"settle", "leave"}
  /\ Unlocked
  /\ changed' = IF work[s] = "settle" THEN changed \cup {s} ELSE changed
  /\ UNCHANGED broken
  /\ Leave(s)
  /\ goal' = [goal EXCEPT ![s] = "none"]
  /\ first' = [first EXCEPT ![s] = 0]
  /\ candidate' = [candidate EXCEPT ![s] = 0]
  /\ UNCHANGED <<modstate, target, leaving>>

WorkStep(s) ==
  \/ Abandon(s) \/ Examine(s) \/ GiveUp(s) \/ Decide(s) \/ ApplyEnable(s)
  \/ ApplyDisable(s) \/ EnableRequirements(s) \/ DeferAfterRequirements(s)
  \/ DisableUsers(s) \/ PreExamine(s)
  \/ Call(s) \/ Run(s) \/ Update(s) \/ NextCandidate(s) \/ MarkBroken(s)
  \/ Finish(s) \/ End(s)

-----------------------------------------------------------------------------
\* Every variable holds a value of its kind.
ModuleTypes ==
  /\ up \in [Services -> Nat] /\ listed \in [Services -> Nat] /\ head \in [Services -> Nat]
  /\ \A s \in Services :
       /\ {up[s], listed[s]} \subseteq {0} \cup Candidates(s)
       /\ head[s] \in {1} \cup Candidates(s)
QueueTypes ==
  /\ enable \cup disable \subseteq Services
  /\ target_enable \cup target_disable \subseteq Services
  /\ broken \cup changed \cup leaving \subseteq Services
ChainTypes ==
  after \in [Services -> SUBSET Services] /\ before \in [Services -> SUBSET Services]
ThreadTypes ==
  /\ work \in [Services -> Stages] /\ goal \in [Services -> {"none", "enable", "disable"}]
  /\ first \in [Services -> Nat] /\ candidate \in [Services -> Nat]
  /\ \A s \in Services : {first[s], candidate[s]} \subseteq {0} \cup Candidates(s)
WorkerTypes == ModuleTypes /\ QueueTypes /\ ChainTypes /\ ThreadTypes

-----------------------------------------------------------------------------
Idle ==
  /\ head = [s \in Services |-> 1]
  /\ enable = {} /\ disable = {}
  /\ target_enable = {} /\ target_disable = {}
  /\ tbmutex = Nobody
  /\ broken = {} /\ changed = {}
  /\ after = [s \in Services |-> {}]
  /\ before = [s \in Services |-> {}]
  /\ work = [s \in Services |-> "none"]
  /\ goal = [s \in Services |-> "none"]
  /\ first = [s \in Services |-> 0]
  /\ candidate = [s \in Services |-> 0]
  /\ leaving = {}
  /\ shutting_down = FALSE
============================================================================
