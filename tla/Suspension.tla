----------------------------- MODULE Suspension -----------------------------
(***************************************************************************)
(* event.c, einit-core.c and the suspend functions of the modules: events  *)
(* are passed along a list of listeners; a module nobody uses leaves the   *)
(* list, leaves a wake-up instead and is unloaded; the next event of the   *)
(* kind loads it again, and sets a timer whose tick unloads it once more.  *)
(* The loader may fail either way, dlopen and dlclose.                     *)
(*                                                                         *)
(* Every module listens to the one kind of event the callers emit.  A      *)
(* module counts the calls of its handlers (its usage).  mod() is the try  *)
(* for the module's mutex, as in Modules.                                  *)
(*                                                                         *)
(* SnoozeTime stands for 60 seconds, Slack for the 30 by which a snooze    *)
(* must grow to be set anew.                                               *)
(***************************************************************************)
EXTENDS Timers

CONSTANTS
  Modules,        \* modules that can be suspended (suspend, resume, do_suspend, do_resume)
  Fragile,        \* those the loader may fail to unload or to load again
  Free,           \* owner of a free mutex
  SnoozeTime, Slack,
  MaxEvents       \* bound: events and calls of suspend_all

SuspensionAssumption ==
  /\ SnoozeTime \in Nat \ {0} /\ Slack \in Nat /\ MaxEvents \in Nat
  /\ Free \notin Threads

VARIABLES
  listening,      \* event_functions: modules with a handler on the list
  wakeups,        \* event_wd: modules with a wake-up entry
  suspended,      \* status_suspended
  deaf,           \* modules that could not be unloaded when they had left the list
  mutex,          \* owner of each module's mutex
  usage,          \* handlers of each module that run
  event_snooze_time,
  job,            \* what each thread does
  todo,           \* modules it still has to look at
  at,             \* the module it is at, {} if none
  handled,        \* modules that got the event
  disturbed,      \* modules another thread was suspending or resuming meanwhile, or that
                  \* could not be loaded
  events,
  crashed,        \* a thread has followed a pointer to a freed entry
  sweep,          \* modules each thread has still to suspend
  suspending,     \* what it does with the one it is at
  victim,         \* which one this is, as a set
  nap             \* the time suspend_all has set a timer for

modulevars == <<listening, wakeups, suspended, deaf, mutex, usage>>
jobvars == <<job, todo, at>>
eventvars == <<handled, disturbed, events, crashed>>
sweepvars == <<sweep, suspending, victim>>
vars == <<timervars, modulevars, event_snooze_time, jobvars, eventvars, sweepvars, nap>>

Jobs == {"idle", "wake", "resume", "resuming", "snooze", "set", "walk", "enter", "leave",
         "suspend all", "nap"}
SweepStages == {"none", "try", "suspend", "ignore", "wakeup", "unload"}

Init ==
  /\ TimersInit
  /\ listening = Modules /\ wakeups = {} /\ suspended = {} /\ deaf = {}
  /\ mutex = [m \in Modules |-> Free] /\ usage = [m \in Modules |-> 0]
  /\ event_snooze_time = 0
  /\ job = [t \in Threads |-> "idle"]
  /\ todo = [t \in Threads |-> {}] /\ at = [t \in Threads |-> {}]
  /\ handled = [t \in Threads |-> {}] /\ disturbed = [t \in Threads |-> {}]
  /\ events = 0 /\ crashed = FALSE
  /\ sweep = [t \in Threads |-> {}] /\ suspending = [t \in Threads |-> "none"]
  /\ victim = [t \in Threads |-> {}] /\ nap = [t \in Threads |-> 0]

\* A thread goes on with its job when the timer it has set is dealt with.
Doing(t, stage) == job[t] = stage /\ timer[t] = "none" /\ ~crashed
Do(t, stage) == job' = [job EXCEPT ![t] = stage]
AtIs(t, set) == at' = [at EXCEPT ![t] = set]

-----------------------------------------------------------------------------
\* event_emit, called by t: the wake-ups come first ...

Emit(t) ==
  /\ Doing(t, "idle") /\ events < MaxEvents
  /\ events' = events + 1
  /\ handled' = [handled EXCEPT ![t] = {}]
  /\ disturbed' = [disturbed EXCEPT ![t] = {m \in Modules : mutex[m] # Free}]
  /\ todo' = [todo EXCEPT ![t] = Modules]
  /\ Do(t, "wake")
  /\ UNCHANGED <<timervars, modulevars, event_snooze_time, at, crashed, sweepvars, nap>>

\* event_do_wakeup_calls, one entry: a module that is suspended now will be resumed.
Wake(t) ==
  /\ Doing(t, "wake")
  /\ \E m \in todo[t] :
       /\ todo' = [todo EXCEPT ![t] = @ \ {m}]
       /\ IF m \in wakeups \cap suspended
          THEN Do(t, "resume") /\ AtIs(t, {m})
          ELSE UNCHANGED <<job, at>>
  /\ UNCHANGED <<timervars, modulevars, event_snooze_time, eventvars, sweepvars, nap>>

\* mod (einit_module_resume): gives up, unnoticed, if somebody holds the mutex.
Resume(t) ==
  /\ Doing(t, "resume")
  /\ \E m \in at[t] :
       \/ /\ mutex[m] = Free
          /\ mutex' = [mutex EXCEPT ![m] = t]
          /\ disturbed' = [u \in Threads |-> IF u = t THEN disturbed[u] ELSE disturbed[u] \cup {m}]
          /\ Do(t, "resuming")
       \/ mutex[m] # Free /\ Do(t, "snooze") /\ UNCHANGED <<mutex, disturbed>>
  /\ UNCHANGED <<timervars, listening, wakeups, suspended, deaf, usage, event_snooze_time, todo,
                 at, handled, events, crashed, sweepvars, nap>>

\* do_resume loads the code and has it listen again (its configure function); the
\* module's own resume function cancels the wake-up.  A module that cannot be loaded stays
\* suspended, with its wake-up.
Resumed(t) ==
  /\ Doing(t, "resuming")
  /\ \/ /\ listening' = IF at[t] \subseteq suspended THEN listening \cup at[t] ELSE listening
        /\ wakeups' = IF at[t] \subseteq suspended THEN wakeups \ at[t] ELSE wakeups
        /\ suspended' = suspended \ at[t]
        /\ UNCHANGED disturbed
     \/ /\ at[t] \subseteq suspended \cap Fragile
        /\ disturbed' = [disturbed EXCEPT ![t] = @ \cup at[t]]
        /\ UNCHANGED <<listening, wakeups, suspended>>
  /\ mutex' = [m \in Modules |-> IF m \in at[t] THEN Free ELSE mutex[m]]
  /\ Do(t, "snooze")
  /\ UNCHANGED <<timervars, deaf, usage, event_snooze_time, todo, at, handled, events, crashed,
                 sweepvars, nap>>

\* The time to sleep again, decided under the mutex of the wake-ups ...
Snooze(t) ==
  LET nt == now + SnoozeTime
      renew == event_snooze_time = 0 \/ event_snooze_time + Slack < nt
  IN /\ Doing(t, "snooze")
     /\ event_snooze_time' = IF renew THEN nt ELSE event_snooze_time
     /\ Do(t, IF renew THEN "set" ELSE "wake")
     /\ AtIs(t, {})
     /\ UNCHANGED <<timervars, modulevars, todo, eventvars, sweepvars, nap>>

\* ... and read once more for the timer, without it.
Set(t) ==
  /\ Doing(t, "set")
  /\ due' = [due EXCEPT ![t] = event_snooze_time]
  /\ TimerTo(t, "insert")
  /\ Do(t, "wake")
  /\ UNCHANGED <<clockvars, copy, modulevars, event_snooze_time, todo, at, eventvars, sweepvars, nap>>

\* ... then the list is walked.  Modules that begin to listen now are put before its head
\* and not met.
Walk(t) ==
  /\ Doing(t, "wake") /\ todo[t] = {}
  /\ todo' = [todo EXCEPT ![t] = listening]
  /\ Do(t, "walk")
  /\ UNCHANGED <<timervars, modulevars, event_snooze_time, at, eventvars, sweepvars, nap>>

\* cur = cur->next, for an entry that may have been freed since.
Step(t) ==
  /\ Doing(t, "walk")
  /\ IF at[t] \subseteq listening
     THEN /\ \/ \E m \in todo[t] :
                  /\ AtIs(t, {m}) /\ Do(t, "enter")
                  /\ todo' = [todo EXCEPT ![t] = @ \ {m}]
             \/ todo[t] = {} /\ AtIs(t, {}) /\ Do(t, "idle") /\ UNCHANGED todo
          /\ UNCHANGED crashed
     ELSE crashed' = TRUE /\ UNCHANGED jobvars
  /\ UNCHANGED <<timervars, modulevars, event_snooze_time, handled, disturbed, events, sweepvars, nap>>

\* (Mutant: the handler does not count itself in.)
Enter_Uncounted(t) ==
  /\ Doing(t, "enter")
  /\ at[t] \subseteq listening
  /\ handled' = [handled EXCEPT ![t] = @ \cup at[t]]
  /\ Do(t, "leave")
  /\ UNCHANGED <<timervars, modulevars, event_snooze_time, todo, at, disturbed, events,
                 crashed, sweepvars, nap>>

\* cur->handler (event): the handler counts itself in ...
Enter(t) ==
  /\ Doing(t, "enter")
  /\ IF at[t] \subseteq listening
     THEN /\ usage' = [m \in Modules |-> IF m \in at[t] THEN usage[m] + 1 ELSE usage[m]]
          /\ handled' = [handled EXCEPT ![t] = @ \cup at[t]]
          /\ Do(t, "leave") /\ UNCHANGED crashed
     ELSE crashed' = TRUE /\ UNCHANGED <<usage, handled, job>>
  /\ UNCHANGED <<timervars, listening, wakeups, suspended, deaf, mutex, event_snooze_time, todo,
                 at, disturbed, events, sweepvars, nap>>

\* ... and out.
Leave(t) ==
  /\ Doing(t, "leave")
  /\ usage' = [m \in Modules |-> IF m \in at[t] THEN usage[m] - 1 ELSE usage[m]]
  /\ Do(t, "walk")
  /\ UNCHANGED <<timervars, listening, wakeups, suspended, deaf, mutex, event_snooze_time, todo,
                 at, eventvars, sweepvars, nap>>

EmitStep(t) ==
  \/ Emit(t) \/ Wake(t) \/ Resume(t) \/ Resumed(t) \/ Snooze(t) \/ Set(t)
  \/ Walk(t) \/ Step(t) \/ Enter(t) \/ Leave(t)

-----------------------------------------------------------------------------
\* mod (einit_module_suspend) for every module: by a tick, in whatever thread it comes
\* up and whatever that thread was doing, or on request (einit_core_suspend_all).

\* core_timer_event_handler
Tick(t) ==
  /\ timer[t] = "emit" /\ suspending[t] = "none" /\ ~crashed
  /\ \/ /\ event_snooze_time # 0
        /\ sweep' = [sweep EXCEPT ![t] = Modules]
        /\ suspending' = [suspending EXCEPT ![t] = "try"]
        /\ UNCHANGED timer
     \/ event_snooze_time = 0 /\ TimerTo(t, "delete") /\ UNCHANGED <<sweep, suspending>>
  /\ UNCHANGED <<clockvars, due, copy, modulevars, event_snooze_time, jobvars, eventvars,
                 victim, nap>>

SuspendAll(t) ==
  /\ Doing(t, "idle") /\ events < MaxEvents
  /\ events' = events + 1
  /\ sweep' = [sweep EXCEPT ![t] = Modules]
  /\ suspending' = [suspending EXCEPT ![t] = "try"]
  /\ Do(t, "suspend all")
  /\ UNCHANGED <<timervars, modulevars, event_snooze_time, todo, at, handled, disturbed,
                 crashed, victim, nap>>

Stage(t, stage) == suspending' = [suspending EXCEPT ![t] = stage]

\* The next module: none of the try, a handler that runs, or a module that sleeps
\* already makes the attempt more than a failure.
Try(t) ==
  /\ suspending[t] = "try" /\ ~crashed
  /\ \E m \in sweep[t] :
       /\ sweep' = [sweep EXCEPT ![t] = @ \ {m}]
       /\ \/ /\ mutex[m] = Free /\ m \notin suspended /\ usage[m] = 0
             /\ mutex' = [mutex EXCEPT ![m] = t]
             /\ disturbed' = [u \in Threads |-> disturbed[u] \cup {m}]
             /\ victim' = [victim EXCEPT ![t] = {m}]
             /\ Stage(t, "suspend")
          \/ /\ mutex[m] # Free \/ m \in suspended \/ usage[m] # 0
             /\ UNCHANGED <<mutex, disturbed, victim, suspending>>
  /\ UNCHANGED <<timervars, listening, wakeups, suspended, deaf, usage, event_snooze_time,
                 jobvars, handled, events, crashed, nap>>

\* The module's suspend function: event_ignore and event_wakeup, one of them first.
Ignore(t) ==
  /\ suspending[t] \in {"suspend", "ignore"} /\ ~crashed
  /\ listening' = listening \ victim[t]
  /\ todo' = [u \in Threads |-> IF job[u] = "wake" THEN todo[u] ELSE todo[u] \ victim[t]]
  /\ Stage(t, IF suspending[t] = "suspend" THEN "wakeup" ELSE "unload")
  /\ UNCHANGED <<timervars, wakeups, suspended, deaf, mutex, usage, event_snooze_time, job, at,
                 eventvars, sweep, victim, nap>>

\* (Mutant: no wake-up is left behind.)
Wakeup_Forgotten(t) ==
  /\ suspending[t] \in {"suspend", "wakeup"} /\ ~crashed
  /\ Stage(t, IF suspending[t] = "suspend" THEN "ignore" ELSE "unload")
  /\ UNCHANGED <<timervars, modulevars, event_snooze_time, jobvars, eventvars, sweep, victim,
                 nap>>

Wakeup(t) ==
  /\ suspending[t] \in {"suspend", "wakeup"} /\ ~crashed
  /\ wakeups' = wakeups \cup victim[t]
  /\ Stage(t, IF suspending[t] = "suspend" THEN "ignore" ELSE "unload")
  /\ UNCHANGED <<timervars, listening, suspended, deaf, mutex, usage, event_snooze_time,
                 jobvars, eventvars, sweep, victim, nap>>

\* The loader's do_suspend: dlclose; and the end of mod().  When it fails the module is not
\* suspended, so that nothing but another attempt to suspend it brings it back.
Unload(t) ==
  /\ suspending[t] = "unload" /\ ~crashed
  /\ \/ suspended' = suspended \cup victim[t] /\ deaf' = deaf \ victim[t]
     \/ victim[t] \subseteq Fragile /\ deaf' = deaf \cup victim[t] /\ UNCHANGED suspended
  /\ mutex' = [m \in Modules |-> IF m \in victim[t] THEN Free ELSE mutex[m]]
  /\ victim' = [victim EXCEPT ![t] = {}]
  /\ Stage(t, "try")
  /\ UNCHANGED <<timervars, listening, wakeups, usage, event_snooze_time, jobvars,
                 eventvars, sweep, nap>>

\* After a tick there is no snooze; after a request there is a new one, whose timer is
\* set first.
Swept(t) ==
  /\ suspending[t] = "try" /\ sweep[t] = {} /\ ~crashed
  /\ Stage(t, "none")
  /\ \/ /\ timer[t] = "emit"
        /\ event_snooze_time' = 0
        /\ TimerTo(t, "delete")
        /\ UNCHANGED <<due, job, nap>>
     \/ /\ timer[t] = "none"
        /\ due' = [due EXCEPT ![t] = now + SnoozeTime]
        /\ nap' = [nap EXCEPT ![t] = now + SnoozeTime]
        /\ TimerTo(t, "insert")
        /\ Do(t, "nap")
        /\ UNCHANGED event_snooze_time
  /\ UNCHANGED <<clockvars, copy, modulevars, todo, at, eventvars, sweep, victim>>

Nap(t) ==
  /\ Doing(t, "nap")
  /\ event_snooze_time' = nap[t]
  /\ Do(t, "idle")
  /\ UNCHANGED <<timervars, modulevars, todo, at, eventvars, sweepvars, nap>>

SweepStep(t) == Tick(t) \/ Try(t) \/ Ignore(t) \/ Wakeup(t) \/ Unload(t) \/ Swept(t)

\* event_timer_register_timeout, as cron's enable function calls it; nothing but the
\* tick comes of it.
RegisterTimeout(t) ==
  /\ Doing(t, "idle") /\ events < MaxEvents
  /\ events' = events + 1
  /\ due' = [due EXCEPT ![t] = now + 1]
  /\ TimerTo(t, "insert")
  /\ UNCHANGED <<clockvars, copy, modulevars, event_snooze_time, jobvars, handled, disturbed,
                 crashed, sweepvars, nap>>

-----------------------------------------------------------------------------
Rest == <<modulevars, event_snooze_time, jobvars, eventvars, sweepvars, nap>>

Next ==
  \/ ~crashed /\ Clock /\ UNCHANGED Rest
  \/ \E t \in Threads :
       \/ ~crashed /\ TimerStep(t) /\ UNCHANGED Rest
       \/ SweepStep(t)
  \/ \E t \in Callers : EmitStep(t) \/ SuspendAll(t) \/ Nap(t) \/ RegisterTimeout(t)

Spec == Init /\ [][Next]_vars

-----------------------------------------------------------------------------
ModuleTypes ==
  /\ listening \subseteq Modules /\ wakeups \subseteq Modules
  /\ suspended \subseteq Modules /\ deaf \subseteq Modules
  /\ mutex \in [Modules -> Threads \cup {Free}] /\ usage \in [Modules -> 0..Cardinality(Threads)]

JobTypes ==
  /\ job \in [Threads -> Jobs] /\ event_snooze_time \in Nat
  /\ todo \in [Threads -> SUBSET Modules] /\ at \in [Threads -> SUBSET Modules]

EventTypes ==
  /\ handled \in [Threads -> SUBSET Modules] /\ disturbed \in [Threads -> SUBSET Modules]
  /\ events \in Nat

SweepTypes ==
  /\ sweep \in [Threads -> SUBSET Modules] /\ victim \in [Threads -> SUBSET Modules]
  /\ suspending \in [Threads -> SweepStages]
  /\ nap \in [Threads -> Nat]

\* Every variable holds a value of its kind.
TypeOK ==
  /\ TimersTypes /\ ModuleTypes /\ JobTypes /\ EventTypes /\ SweepTypes
  /\ woken \in BOOLEAN /\ crashed \in BOOLEAN

\* When nobody is suspending or resuming a module it listens, or it is suspended and an event
\* will wake it up: unless the loader could not unload it when it had left the list.
Wakeable ==
  \A m \in Modules \ deaf :
    mutex[m] = Free => m \in (IF m \in suspended THEN wakeups ELSE listening)

\* An event reaches every module, asleep or not, unless another thread was suspending or
\* resuming the module at some time while the event was passed on, or the loader has failed.
EventReaches ==
  \A t \in Threads :
    (Doing(t, "walk") /\ todo[t] = {}) =>
      Modules \subseteq handled[t] \cup disturbed[t] \cup deaf

\* event.c, einit-core.c: while the loader does not fail no module goes deaf by being
\* suspended and resumed, and an event reaches every module, asleep or not.
EventsReach == Wakeable /\ EventReaches

\* (Contradicted: do_suspend comes after the module's own suspend function, and nothing takes
\* that back when dlclose fails, module.c:65, module-so.c:114-120.)  A module that nobody
\* suspends or resumes listens, or it is suspended and an event will wake it up.
NeverDeaf ==
  \A m \in Modules :
    mutex[m] = Free => m \in (IF m \in suspended THEN wakeups ELSE listening)

\* "suspending and unloading unused modules...": a thread is never in, or about to enter,
\* code that has been unloaded, nor does it follow an entry that has been freed.
\* (Contradicted by a suspension between the choice of a listener and its call.)
OnlyUnusedUnloaded == ~crashed

\* "set/receive timer ticks": a timer that has been set is not taken off the list before
\* its time.  (Contradicted by a deletion that writes back an older list, and by a
\* snooze time that a tick has cleared between its test and its use.)
TimersKept == [][\A x \in ticks : x \in ticks' \/ x <= now]_vars
=============================================================================
