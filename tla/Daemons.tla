------------------------------ MODULE Daemons ------------------------------
(***************************************************************************)
(* exec.c and scheduler.c: one module whose function is a daemon.          *)
(*                                                                         *)
(* Enabling the module forks the daemon and gives it a control block;      *)
(* disabling it sends SIGTERM, then SIGKILL, and waits on the mutex of the *)
(* control block for whoever unlocks it first: the thread that learns of   *)
(* the death, or a timer.  The scheduler thread reaps the processes it was *)
(* told to watch and has a thread started for each that died: the watcher, *)
(* which lets a pending stop go on, starts the daemon anew, or has the     *)
(* module disabled.  mod() is taken from Modules: one call at a time, and  *)
(* nothing to do if the module is in the right state.  The watcher starts  *)
(* the daemon without calling mod().                                       *)
(*                                                                         *)
(* Control blocks are numbered in the order of their making, and a block   *)
(* stands for its process (pids are not reused) and for its watcher.       *)
(* Left out: daemons that fork away themselves and are known by a pidfile. *)
(***************************************************************************)
EXTENDS Naturals

CONSTANTS
  Manager,        \* the thread that calls mod() to enable and disable
  Nobody,         \* owner of a free mutex
  Restart,        \* dx->restart
  Fragile,        \* whether preparing, forking and the tests is_up and
                  \* is_down may fail
  InUse,          \* whether the module's service may be in use
  MaxBlocks,      \* bound: control blocks
  MaxCalls        \* bound: calls of the manager

ASSUME DaemonsAssumption ==
  /\ MaxBlocks \in Nat /\ MaxCalls \in Nat
  /\ Manager \notin 0..MaxBlocks /\ Nobody \notin 0..MaxBlocks \cup {Manager}

Blocks == 1..MaxBlocks
NoBlock == 0
Agents == Blocks \cup {Manager}

VARIABLES
  cb,             \* dx->cb
  made,           \* control blocks made so far
  process,        \* state of the process of each block
  doomed,         \* processes that got SIGKILL
  running,        \* the list of control blocks
  watched,        \* cpids
  posted,         \* whether signal_semaphore is positive
  scheduler,      \* what the scheduler thread does
  locked, destroyed,   \* state of the mutex of each block
  expired,        \* blocks whose timer is zero (as that of a new block)
  sleeping,       \* whether the timer thread of the present stop sleeps
  waking,         \* timer threads that have slept enough
  pc,             \* stage of the manager and of each watcher
  block,          \* the control block each of them has made
  victim,         \* the pid stop_daemon_f has read
  awaited,        \* the block whose mutex it waits for
  enabled,        \* status of the module
  owner,          \* owner of its mutex
  shutting_down, crashed, calls

blockvars == <<cb, made, process, doomed, running, watched>>
mutexvars == <<locked, destroyed, expired, sleeping, waking>>
schedvars == <<posted, scheduler>>
stopvars == <<victim, awaited>>
modvars == <<enabled, owner, calls>>
vars == <<blockvars, mutexvars, schedvars, stopvars, modvars, pc, block, shutting_down,
          crashed>>

StartStages == {"begin", "fork", "list", "watch", "ready"}
StopStages == {"stop", "grab", "term", "await", "await again", "unlock", "destroy",
               "clear", "down"}
WatchStages == {"find", "claimed", "nicely", "held", "revive", "drop", "disable"}
EndStages == {"none", "done", "up", "failed", "refused"}

Init ==
  /\ cb = NoBlock /\ made = 0
  /\ process = [b \in Blocks |-> "none"]
  /\ doomed = {} /\ running = {} /\ watched = {}
  /\ posted = FALSE /\ scheduler = "scan"
  /\ locked = {} /\ destroyed = {} /\ expired = {}
  /\ sleeping = FALSE /\ waking = 0
  /\ pc = [a \in Agents |-> "none"]
  /\ block = [a \in Agents |-> NoBlock]
  /\ victim = NoBlock /\ awaited = NoBlock
  /\ enabled = FALSE /\ owner = Nobody /\ calls = 0
  /\ shutting_down = FALSE /\ crashed = FALSE

At(a, stage) == pc[a] = stage /\ ~crashed
Goto(a, stage) == pc' = [pc EXCEPT ![a] = stage]

Exists(b) == b \in Blocks /\ process[b] \in {"alive", "zombie"}    \* pidexists
Forked(b) == b \in Blocks /\ process[b] # "none"

-----------------------------------------------------------------------------
\* mod(): at most one call at a time, and none that has nothing to do.

Call ==
  /\ At(Manager, "none") \/ At(Manager, "refused")
  /\ calls < MaxCalls
  /\ owner = Nobody
  /\ owner' = Manager
  /\ calls' = calls + 1
  /\ Goto(Manager, IF enabled THEN "stop" ELSE "begin")
  /\ UNCHANGED <<blockvars, mutexvars, schedvars, stopvars, enabled, block, shutting_down,
                 crashed>>

\* The manager's call to enable the module comes back from start_daemon_f.
Enabled ==
  /\ At(Manager, "up") \/ At(Manager, "failed")
  /\ enabled' = At(Manager, "up")
  /\ owner' = Nobody
  /\ Goto(Manager, "none")
  /\ UNCHANGED <<blockvars, mutexvars, schedvars, stopvars, calls, block, shutting_down,
                 crashed>>

-----------------------------------------------------------------------------
\* start_daemon_f

Prepare(a) ==
  /\ At(a, "begin")
  /\ \/ /\ Fragile \/ made = MaxBlocks
        /\ Goto(a, "failed")
        /\ UNCHANGED <<cb, made, block, expired>>
     \/ /\ made < MaxBlocks
        /\ made' = made + 1
        /\ cb' = made'
        /\ block' = [block EXCEPT ![a] = made']
        /\ expired' = expired \cup {made'}
        /\ Goto(a, "fork")
  /\ UNCHANGED <<process, doomed, running, watched, locked, destroyed, sleeping, waking,
                 schedvars, stopvars, modvars, shutting_down, crashed>>

Fork(a) ==
  /\ At(a, "fork")
  /\ \/ process' = [process EXCEPT ![block[a]] = "alive"] /\ Goto(a, "list")
     \/ Fragile /\ UNCHANGED process /\ Goto(a, "failed")
  /\ UNCHANGED <<cb, made, doomed, running, watched, mutexvars, schedvars, stopvars,
                 modvars, block, shutting_down, crashed>>

\* (Mutant: the new block is not put on the list.)
List_Omitted(a) ==
  /\ At(a, "list")
  /\ Goto(a, "watch")
  /\ UNCHANGED <<blockvars, mutexvars, schedvars, stopvars, modvars, block, shutting_down,
                 crashed>>

List(a) ==
  /\ At(a, "list")
  /\ running' = running \cup {block[a]}
  /\ Goto(a, "watch")
  /\ UNCHANGED <<cb, made, process, doomed, watched, mutexvars, schedvars, stopvars,
                 modvars, block, shutting_down, crashed>>

\* (Mutant: the semaphore is not posted for a process that may be dead already.)
Watch_NoPost(a) ==
  /\ At(a, "watch")
  /\ watched' = watched \cup {block[a]}
  /\ Goto(a, "ready")
  /\ UNCHANGED <<cb, made, process, doomed, running, mutexvars, schedvars, stopvars,
                 modvars, block, shutting_down, crashed>>

\* __sched_watch_pid
Watch(a) ==
  /\ At(a, "watch")
  /\ watched' = watched \cup {block[a]}
  /\ posted' = TRUE
  /\ Goto(a, "ready")
  /\ UNCHANGED <<cb, made, process, doomed, running, scheduler, mutexvars, stopvars,
                 modvars, block, shutting_down, crashed>>

\* A daemon that fails the test is left running.
Ready(a) ==
  /\ At(a, "ready")
  /\ Goto(a, "up") \/ (Fragile /\ Goto(a, "failed"))
  /\ UNCHANGED <<blockvars, mutexvars, schedvars, stopvars, modvars, block, shutting_down,
                 crashed>>

Start(a) == Prepare(a) \/ Fork(a) \/ List(a) \/ Watch(a) \/ Ready(a)

-----------------------------------------------------------------------------
\* stop_daemon_f.  It follows dx->cb anew at every use; the watcher may have
\* cleared or replaced it.

Crash == crashed' = TRUE /\ UNCHANGED pc

Stop(a) ==
  /\ At(a, "stop")
  /\ \/ Exists(cb) /\ victim' = cb /\ Goto(a, "grab")
     \/ ~Exists(cb) /\ UNCHANGED victim /\ Goto(a, "clear")
  /\ UNCHANGED <<blockvars, mutexvars, schedvars, modvars, awaited, block, shutting_down,
                 crashed>>

Grab(a) ==
  /\ At(a, "grab")
  /\ \/ /\ cb # NoBlock
        /\ locked' = locked \cup {cb}
        /\ expired' = expired \ {cb}
        /\ Goto(a, "term") /\ UNCHANGED crashed
     \/ cb = NoBlock /\ Crash /\ UNCHANGED <<locked, expired>>
  /\ UNCHANGED <<blockvars, destroyed, sleeping, waking, schedvars, stopvars, modvars,
                 block, shutting_down>>

\* SIGTERM; a process that is gone already is assumed dead.  (The pid of a block
\* that is not forked yet is 0, which stands for this very process.)
Term(a) ==
  /\ At(a, "term")
  /\ \/ /\ Exists(cb)
        /\ sleeping' = TRUE
        /\ awaited' = cb
        /\ Goto(a, "await") /\ UNCHANGED crashed
     \/ /\ Forked(cb) /\ ~Exists(cb)
        /\ Goto(a, "clear") /\ UNCHANGED <<sleeping, awaited, crashed>>
     \/ /\ ~Forked(cb)
        /\ Crash /\ UNCHANGED <<sleeping, awaited>>
  /\ UNCHANGED <<blockvars, locked, destroyed, expired, waking, schedvars, victim, modvars,
                 block, shutting_down>>

\* The mutex was unlocked: SIGKILL if the timer did it and the process is there.
Await(a) ==
  LET late == Exists(victim) /\ cb \in expired
  IN /\ At(a, "await")
     /\ awaited \notin locked
     /\ \/ /\ Exists(victim) /\ cb = NoBlock
           /\ Crash /\ UNCHANGED <<doomed, locked, expired, sleeping, awaited>>
        \/ /\ late /\ cb # NoBlock
           /\ locked' = locked \cup {awaited, cb}
           /\ expired' = expired \ {cb}
           /\ doomed' = IF Exists(cb) THEN doomed \cup {cb} ELSE doomed
           /\ sleeping' = TRUE
           /\ awaited' = cb
           /\ Goto(a, "await again") /\ UNCHANGED crashed
        \/ /\ ~late /\ ~(Exists(victim) /\ cb = NoBlock)
           /\ locked' = locked \cup {awaited}
           /\ Goto(a, "unlock") /\ UNCHANGED <<doomed, expired, sleeping, awaited, crashed>>
     /\ UNCHANGED <<cb, made, process, running, watched, destroyed, waking, schedvars,
                    victim, modvars, block, shutting_down>>

AwaitAgain(a) ==
  /\ At(a, "await again")
  /\ awaited \notin locked
  /\ locked' = locked \cup {awaited}
  /\ Goto(a, "unlock")
  /\ UNCHANGED <<blockvars, destroyed, expired, sleeping, waking, schedvars, stopvars,
                 modvars, block, shutting_down, crashed>>

\* The timer is cancelled, the mutex unlocked ...
Unlock(a) ==
  /\ At(a, "unlock")
  /\ sleeping' = FALSE
  /\ \/ cb # NoBlock /\ locked' = locked \ {cb} /\ Goto(a, "destroy") /\ UNCHANGED crashed
     \/ cb = NoBlock /\ Crash /\ UNCHANGED locked
  /\ UNCHANGED <<blockvars, destroyed, expired, waking, schedvars, stopvars, modvars, block,
                 shutting_down>>

\* ... and destroyed.
Destroy(a) ==
  /\ At(a, "destroy")
  /\ \/ cb # NoBlock /\ destroyed' = destroyed \cup {cb} /\ Goto(a, "clear")
        /\ UNCHANGED crashed
     \/ cb = NoBlock /\ Crash /\ UNCHANGED destroyed
  /\ UNCHANGED <<blockvars, locked, expired, sleeping, waking, schedvars, stopvars, modvars,
                 block, shutting_down>>

\* assume_dead
Clear(a) ==
  /\ At(a, "clear")
  /\ cb' = NoBlock
  /\ Goto(a, "down")
  /\ UNCHANGED <<made, process, doomed, running, watched, mutexvars, schedvars, stopvars,
                 modvars, block, shutting_down, crashed>>

\* Cleaned up, and tested; mod() marks the module disabled, or enabled still if the test
\* has failed, and unlocks it.
Disabled(a) ==
  /\ At(a, "down")
  /\ \/ enabled' = FALSE /\ Goto(a, IF a = Manager THEN "none" ELSE "done")
     \/ Fragile /\ enabled' = TRUE /\ Goto(a, "refused")
  /\ owner' = Nobody
  /\ UNCHANGED <<blockvars, mutexvars, schedvars, stopvars, calls, block, shutting_down,
                 crashed>>

StopStep(a) ==
  \/ Stop(a) \/ Grab(a) \/ Term(a) \/ Await(a) \/ AwaitAgain(a) \/ Unlock(a) \/ Destroy(a)
  \/ Clear(a) \/ Disabled(a)

\* (Mutant: the block is not looked at.)
Expire_Unchecked ==
  /\ ~crashed /\ sleeping
  /\ sleeping' = FALSE
  /\ expired' = expired \cup {cb} /\ waking' = waking + 1
  /\ UNCHANGED <<blockvars, locked, destroyed, schedvars, stopvars, modvars, pc, block,
                 shutting_down, crashed>>

\* dexec_resume_timer: the time is up (nothing to do if the block is gone) ...
Expire ==
  /\ ~crashed /\ sleeping
  /\ sleeping' = FALSE
  /\ IF cb = NoBlock THEN UNCHANGED <<expired, waking>>
     ELSE expired' = expired \cup {cb} /\ waking' = waking + 1
  /\ UNCHANGED <<blockvars, locked, destroyed, schedvars, stopvars, modvars, pc, block,
                 shutting_down, crashed>>

\* (Mutant: the timer leaves the mutex as it is.)
Resume_NoUnlock ==
  /\ ~crashed /\ waking > 0
  /\ waking' = waking - 1
  /\ UNCHANGED <<blockvars, locked, destroyed, expired, sleeping, schedvars, stopvars,
                 modvars, pc, block, shutting_down, crashed>>

\* ... and the mutex is made sure to be locked, and unlocked.
Resume ==
  /\ ~crashed /\ waking > 0
  /\ waking' = waking - 1
  /\ \/ cb # NoBlock /\ locked' = locked \ {cb} /\ UNCHANGED <<pc, crashed>>
     \/ cb = NoBlock /\ Crash /\ UNCHANGED locked
  /\ UNCHANGED <<blockvars, destroyed, expired, sleeping, schedvars, stopvars, modvars, block,
                 shutting_down>>

-----------------------------------------------------------------------------
\* Processes, and the scheduler's loop (sched_run_sigchild).

\* A process ends, by a signal or by itself: SIGCHLD.
Die(b) ==
  /\ ~crashed /\ process[b] = "alive"
  /\ process' = [process EXCEPT ![b] = "zombie"]
  /\ posted' = TRUE
  /\ UNCHANGED <<cb, made, doomed, running, watched, scheduler, mutexvars, stopvars,
                 modvars, pc, block, shutting_down, crashed>>

\* A dead process is reaped, taken off the list, and einit_process_died emitted.
Reap(b) ==
  /\ ~crashed /\ scheduler = "scan"
  /\ b \in watched /\ process[b] = "zombie"
  /\ process' = [process EXCEPT ![b] = "gone"]
  /\ watched' = watched \ {b}
  /\ Goto(b, "find")
  /\ UNCHANGED <<cb, made, doomed, running, schedvars, mutexvars, stopvars, modvars,
                 block, shutting_down, crashed>>

Rest ==
  /\ ~crashed /\ scheduler = "scan"
  /\ \A b \in watched : process[b] # "zombie"
  /\ scheduler' = "wait"
  /\ UNCHANGED <<blockvars, posted, mutexvars, stopvars, modvars, pc, block, shutting_down,
                 crashed>>

Wake ==
  /\ ~crashed /\ scheduler = "wait" /\ posted
  /\ posted' = FALSE /\ scheduler' = "scan"
  /\ UNCHANGED <<blockvars, mutexvars, stopvars, modvars, pc, block, shutting_down, crashed>>

-----------------------------------------------------------------------------
\* dexec_watcher, the thread started for the death of b.

Find(b) ==
  /\ At(b, "find")
  /\ Goto(b, IF b \in running THEN "claimed" ELSE "done")
  /\ running' = running \ {b}
  /\ UNCHANGED <<cb, made, process, doomed, watched, mutexvars, schedvars, stopvars,
                 modvars, block, shutting_down, crashed>>

\* A locked mutex (or a destroyed one, which cannot be locked) is taken for a stop
\* that waits ...
TryLock(b) ==
  /\ At(b, "claimed")
  /\ Goto(b, IF b \in locked \cup destroyed THEN "nicely" ELSE "held")
  /\ locked' = locked \cup ({b} \ destroyed)
  /\ UNCHANGED <<blockvars, destroyed, expired, sleeping, waking, schedvars, stopvars,
                 modvars, block, shutting_down, crashed>>

\* ... which is let go on.
Nicely(b) ==
  /\ At(b, "nicely")
  /\ locked' = locked \ {b}
  /\ Goto(b, "done")
  /\ UNCHANGED <<blockvars, destroyed, expired, sleeping, waking, schedvars, stopvars,
                 modvars, block, shutting_down, crashed>>

\* (Mutant: the module of a daemon that is not started anew is left as it is.)
Decide_Idle(b) ==
  /\ At(b, "held")
  /\ locked' = locked \ {b}
  /\ (~shutting_down /\ Restart /\ Goto(b, "revive")) \/ Goto(b, "done")
  /\ UNCHANGED <<blockvars, destroyed, expired, sleeping, waking, schedvars, stopvars,
                 modvars, block, shutting_down, crashed>>

\* Otherwise the mutex is unlocked again, whoever counts on it by now, and a daemon that
\* wants it is started anew unless it died too swiftly.
Decide(b) ==
  /\ At(b, "held")
  /\ locked' = locked \ {b}
  /\ (~shutting_down /\ Restart /\ Goto(b, "revive")) \/ Goto(b, "drop")
  /\ UNCHANGED <<blockvars, destroyed, expired, sleeping, waking, schedvars, stopvars,
                 modvars, block, shutting_down, crashed>>

Forget(b) ==
  /\ At(b, "revive") \/ At(b, "drop")
  /\ cb' = NoBlock
  /\ Goto(b, IF At(b, "revive") THEN "begin" ELSE "disable")
  /\ UNCHANGED <<made, process, doomed, running, watched, mutexvars, schedvars, stopvars,
                 modvars, block, shutting_down, crashed>>

\* mod (einit_module_disable), which refuses if the service is in use.
Dismiss(b) ==
  /\ At(b, "disable")
  /\ owner = Nobody
  /\ \/ enabled /\ owner' = b /\ Goto(b, "stop")
     \/ enabled /\ InUse /\ Goto(b, "refused") /\ UNCHANGED owner
     \/ ~enabled /\ Goto(b, "done") /\ UNCHANGED owner
  /\ UNCHANGED <<blockvars, mutexvars, schedvars, stopvars, enabled, calls, block,
                 shutting_down, crashed>>

Shutdown ==
  /\ ~crashed /\ ~shutting_down
  /\ shutting_down' = TRUE
  /\ UNCHANGED <<blockvars, mutexvars, schedvars, stopvars, modvars, pc, block, crashed>>

Decides(b) == TryLock(b) \/ Nicely(b) \/ Decide(b)
Watcher(b) == Find(b) \/ Decides(b) \/ Forget(b) \/ Dismiss(b)
Scheduler == Rest \/ Wake \/ \E b \in Blocks : Reap(b)
Timer == Expire \/ Resume

Next ==
  \/ Call \/ Enabled \/ Timer \/ Scheduler \/ Shutdown
  \/ \E a \in Agents : Start(a) \/ StopStep(a)
  \/ \E b \in Blocks : Watcher(b) \/ Die(b)

Spec == Init /\ [][Next]_vars

\* Threads run on, timers expire and a process that got SIGKILL ends.
Fairness ==
  /\ \A a \in Agents : WF_vars(Start(a) \/ StopStep(a))
  /\ \A b \in Blocks : WF_vars(Watcher(b)) /\ WF_vars(b \in doomed /\ Die(b))
  /\ WF_vars(Enabled) /\ WF_vars(Expire) /\ WF_vars(Resume) /\ WF_vars(Scheduler)

FairSpec == Spec /\ Fairness

-----------------------------------------------------------------------------
\* Every variable holds a value of its kind.
BlockTypes ==
  /\ made \in 0..MaxBlocks
  /\ process \in [Blocks -> {"none", "alive", "zombie", "gone"}]
  /\ running \subseteq Blocks /\ watched \subseteq Blocks

MutexTypes ==
  /\ doomed \subseteq Blocks
  /\ locked \subseteq Blocks /\ destroyed \subseteq Blocks /\ expired \subseteq Blocks
  /\ waking \in Nat

ThreadTypes ==
  /\ pc \in [Agents -> StartStages \cup StopStages \cup WatchStages \cup EndStages]
  /\ block \in [Agents -> 0..made]
  /\ cb \in 0..made /\ victim \in 0..made /\ awaited \in 0..made

Booleans ==
  /\ posted \in BOOLEAN /\ sleeping \in BOOLEAN /\ enabled \in BOOLEAN
  /\ shutting_down \in BOOLEAN /\ crashed \in BOOLEAN

OtherTypes ==
  /\ scheduler \in {"scan", "wait"}
  /\ owner \in Agents \cup {Nobody} /\ calls \in 0..MaxCalls

TypeOK == BlockTypes /\ MutexTypes /\ ThreadTypes /\ OtherTypes /\ Booleans

\* The scheduler never goes to sleep on a death: while a process it watches is dead it
\* is scanning or has been woken, even if the process died before it was watched.
DeathPending ==
  \A b \in watched : process[b] = "zombie" => posted \/ scheduler = "scan"

\* A watcher finds the block of the process it was started for: no process can be
\* reaped before start_daemon_f has put it on the list, nor be claimed twice.
FoundOnList == \A b \in Blocks : pc[b] = "find" => b \in running

\* stop_daemon_f comes back, whether the daemon heeds SIGTERM or not and whoever
\* unlocks the mutex first, unless the watcher of an earlier daemon takes the control
\* block from under it.
StopReturns ==
  \A a \in Agents :
    pc[a] \in StopStages ~>
      \/ pc[a] \notin StopStages \/ crashed
      \/ pc[a] \in {"await", "await again"} /\ cb # awaited

\* (Contradicted by the watcher of an earlier daemon, which clears dx->cb; the timer
\* then unlocks nothing, and a daemon that does not heed SIGTERM is waited for without
\* end.)  "sending SIGTERM, daemon has %i seconds to exit...": a stop does come back.
SecondsToExit ==
  \A a \in Agents : pc[a] \in StopStages ~> (pc[a] \notin StopStages \/ crashed)

\* A module that says it is enabled while no daemon of its own is alive does not stay
\* so: the daemon is started anew or the module disabled, unless a restart or the test
\* that the daemon is down has failed, or the service is in use (then nobody tries again).
StatusFollowsDaemon ==
  (enabled /\ \A b \in Blocks : process[b] # "alive") ~>
    (\/ ~enabled \/ crashed \/ pc[Manager] = "refused"
     \/ \E b \in Blocks : process[b] = "alive" \/ pc[b] \in {"failed", "refused"})

\* Processes as Reaping sees them: what is reaped has been reported, and leaves cpids.
Died == {b \in Blocks : process[b] \in {"zombie", "gone"}}
Reaped == {b \in Blocks : process[b] = "gone"}
Life == [b \in Blocks |-> IF b \in Died THEN "dead" ELSE process[b]]

Deaths == INSTANCE Reaping WITH
  Processes <- Blocks,
  life <- Life,
  watched <- watched \cup Reaped,
  reported <- Reaped,
  halted <- crashed

\* What the scheduler does, by the abstract specification of Reaping: a watched process
\* is reported once, whether it died before or after it was watched.
DeathsReported == Deaths!FairSpec

\* (Contradicted by a stop that comes between a death and its watcher.)  "if we're
\* already deactivating this daemon, resume the original function": when the module is
\* disabled, and every thread is done with it, no daemon of its own is alive but one
\* that got SIGKILL.
NoOrphans ==
  (/\ ~enabled /\ owner = Nobody /\ ~crashed
   /\ \A b \in Blocks : pc[b] \in EndStages)
    => \A b \in Blocks : process[b] = "alive" => b \in doomed
=============================================================================
