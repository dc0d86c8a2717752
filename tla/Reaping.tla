------------------------------ MODULE Reaping ------------------------------
(***************************************************************************)
(* What the scheduler promises about processes: a process that somebody    *)
(* has asked to be watched, before or after its death, is reported dead    *)
(* once, after it has died.  Daemons implements this with waitpid, a list  *)
(* of pids and a semaphore (scheduler.c); Terminals is built upon it.      *)
(***************************************************************************)
CONSTANT Processes

VARIABLES
  life,           \* "none", "alive" or "dead"
  watched,        \* processes somebody has asked to be watched
  reported,       \* processes whose death has been reported
  halted          \* the worker itself has ended

Init ==
  /\ life = [p \in Processes |-> "none"]
  /\ watched = {} /\ reported = {}
  /\ halted = FALSE

Fork(p) ==
  /\ ~halted /\ life[p] = "none"
  /\ life' = [life EXCEPT ![p] = "alive"]
  /\ UNCHANGED <<watched, reported>> /\ halted' = halted

Die(p) ==
  /\ ~halted /\ life[p] = "alive"
  /\ life' = [life EXCEPT ![p] = "dead"]
  /\ UNCHANGED <<watched, reported>> /\ halted' = halted

\* Watching a process that is not watched yet (alive or dead).
Watch(p) ==
  /\ ~halted /\ life[p] # "none" /\ p \notin watched
  /\ watched' = watched \cup {p}
  /\ UNCHANGED <<life, reported>> /\ halted' = halted

\* einit_process_died
Report(p) ==
  /\ ~halted /\ life[p] = "dead" /\ p \in watched /\ p \notin reported
  /\ reported' = reported \cup {p}
  /\ UNCHANGED <<life, watched>> /\ halted' = halted

Halt ==
  /\ ~halted /\ halted' = TRUE
  /\ UNCHANGED <<life, watched, reported>>

Next == Halt \/ \E p \in Processes : Fork(p) \/ Die(p) \/ Watch(p) \/ Report(p)

Spec == Init /\ [][Next]_<<life, watched, reported, halted>>

FairSpec ==
  Spec /\ \A p \in Processes : WF_<<life, watched, reported, halted>>(Report(p))
=============================================================================
