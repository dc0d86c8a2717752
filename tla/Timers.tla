------------------------------- MODULE Timers -------------------------------
(***************************************************************************)
(* scheduler.c and event.c: the list of times at which a tick is due.      *)
(*                                                                         *)
(* Any thread may set a timer: the event is handled in the thread that     *)
(* emits it, which adds the time to the list under a mutex and then looks  *)
(* at the list itself, emits what is due, and arms the one alarm of the    *)
(* process for the next time.  The alarm wakes the scheduler thread, which *)
(* looks at the list likewise.  A tick is taken off the list without the   *)
(* mutex: the list is read, and written back later.                        *)
(*                                                                         *)
(* The list is kept sorted and without duplicates by setadd and setsort,   *)
(* so a set of times stands for it.                                        *)
(***************************************************************************)
EXTENDS Naturals, FiniteSetsExt

CONSTANTS
  Callers,        \* threads that set timers
  Scheduler,      \* the scheduler thread
  MaxTime         \* bound: the last moment

TimersAssumption ==
  /\ MaxTime \in Nat \ {0}
  /\ IsFiniteSet(Callers) /\ Scheduler \notin Callers

VARIABLES
  now,            \* time(NULL)
  ticks,          \* sched_timer_data
  alarm,          \* when the alarm goes off; 0 if it is not armed
  woken,          \* whether the alarm has posted signal_semaphore
  timer,          \* what each thread does about timers
  due,            \* the time each thread is setting, emitting or waiting for
  copy            \* the list as setdel has read it

clockvars == <<now, ticks, alarm, woken>>
timervars == <<clockvars, timer, due, copy>>

Times == 1..MaxTime
Threads == Callers \cup {Scheduler}
TimerStages == {"none", "insert", "look", "arm", "emit", "delete", "store"}

TimersInit ==
  /\ now = 1 /\ ticks = {} /\ alarm = 0 /\ woken = FALSE
  /\ timer = [t \in Threads |-> "none"]
  /\ due = [t \in Threads |-> 0]
  /\ copy = [t \in Threads |-> {}]

TimerTo(t, stage) == timer' = [timer EXCEPT ![t] = stage]

\* (Mutant: the alarm is left as it was.)
Arm_Omitted(t) ==
  /\ timer[t] = "arm"
  /\ TimerTo(t, "none")
  /\ UNCHANGED <<clockvars, due, copy>>

\* alarm (next_tick - now): reckoned when the list was looked at.
Arm(t) ==
  /\ timer[t] = "arm"
  /\ alarm' = due[t]
  /\ TimerTo(t, "none")
  /\ UNCHANGED <<now, ticks, woken, due, copy>>

\* sched_timer_event_handler.  setadd takes the time 0 for a missing item and returns no
\* list at all.
Insert(t) ==
  /\ timer[t] = "insert"
  /\ ticks' = IF due[t] = 0 THEN {} ELSE ticks \cup {due[t]}
  /\ TimerTo(t, "look")
  /\ UNCHANGED <<now, alarm, woken, due, copy>>

\* sched_handle_timers, from its beginning ...
Look(t) ==
  /\ timer[t] = "look"
  /\ \/ ticks = {} /\ TimerTo(t, "none") /\ UNCHANGED due
     \/ /\ ticks # {}
        /\ TimerTo(t, IF Min(ticks) <= now THEN "emit" ELSE "arm")
        /\ due' = [due EXCEPT ![t] = Min(ticks)]
  /\ UNCHANGED <<clockvars, copy>>

\* ... and after the tick: setdel reads the list ...
Delete(t) ==
  /\ timer[t] = "delete"
  /\ copy' = [copy EXCEPT ![t] = ticks]
  /\ TimerTo(t, "store")
  /\ UNCHANGED <<clockvars, due>>

\* ... and what it returns becomes the list, whatever has been added meanwhile.
Store(t) ==
  /\ timer[t] = "store"
  /\ ticks' = copy[t] \ {due[t]}
  /\ copy' = [copy EXCEPT ![t] = {}]
  /\ TimerTo(t, "look")
  /\ UNCHANGED <<now, alarm, woken, due>>

TimerStep(t) == Insert(t) \/ Look(t) \/ Arm(t) \/ Delete(t) \/ Store(t)

-----------------------------------------------------------------------------
\* Time passes; SIGALRM posts the semaphore (sched_signal_sigalrm), and the scheduler
\* thread comes back from sem_wait and finds no dead process (sched_run_sigchild).
Pass ==
  /\ now < MaxTime
  /\ now' = now + 1
  /\ UNCHANGED <<ticks, alarm, woken, timer, due, copy>>

Ring ==
  /\ alarm # 0 /\ alarm <= now
  /\ alarm' = 0 /\ woken' = TRUE
  /\ UNCHANGED <<now, ticks, timer, due, copy>>

Rouse ==
  /\ woken /\ timer[Scheduler] = "none"
  /\ woken' = FALSE
  /\ TimerTo(Scheduler, "look")
  /\ UNCHANGED <<now, ticks, alarm, due, copy>>

Clock == Pass \/ Ring \/ Rouse

-----------------------------------------------------------------------------
TimersTypes ==
  /\ now \in Times /\ ticks \subseteq Nat /\ alarm \in Nat
  /\ timer \in [Threads -> TimerStages]
  /\ due \in [Threads -> Nat] /\ copy \in [Threads -> SUBSET Nat]

\* While a tick is waiting nobody has forgotten the alarm: it is armed, has just gone off,
\* or some thread is about to look at the list or to arm the alarm for what it has seen.
TickPending ==
  ticks # {} =>
    \/ alarm # 0 \/ woken
    \/ \E t \in Threads : timer[t] # "none"
=============================================================================
