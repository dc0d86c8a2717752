----------------------------- MODULE Supervisor -----------------------------
(***************************************************************************)
(* einit-core.c, last-rites.c and the ends of scheduler.c: process 1 and   *)
(* its worker.                                                             *)
(*                                                                         *)
(* Process 1 forks the worker and waits for processes to die.  If it is    *)
(* the worker, its exit status says whether to run last-rites or to fork   *)
(* another worker, which then recovers; after some crashes the worker is a *)
(* new image under a debugger.  If it is another process, an orphan, the   *)
(* worker is told through a pipe, which it reads once it has booted.       *)
(*                                                                         *)
(* What the worker does between its boot and its end is one stage.         *)
(***************************************************************************)
EXTENDS Naturals, Sequences

CONSTANTS
  Orphans,        \* processes that process 1 inherits
  CrashThreshold, \* crash_threshold (5 in the code)
  MaxTries,       \* max_retries of last-rites (20 in the code)
  MaxCrashes,     \* bound: crashes of workers
  ForkFails       \* whether fork may fail

SupervisorAssumption ==
  /\ CrashThreshold \in Nat /\ MaxTries \in Nat \ {0} /\ MaxCrashes \in Nat

VARIABLES
  init,           \* what process 1 does
  einit_sub,      \* "worker", or "-1" if it could not be forked
  crash_threshold, need_recovery, crash_data, debug,
  worker,         \* stage of the worker
  image,          \* what it was given: recovery flag, crash data, debugger
  recovered,      \* whether this worker has called the recover functions
  status,         \* how the worker has ended
  pipe,           \* messages to the present worker
  orphan,         \* state of each orphan
  told,           \* deaths the present worker has been told
  interrupted,    \* whether the worker has got SIGINT
  shutting_down,
  kexec,          \* linux_reboot_use_kexec
  crashes,
  busy,           \* file systems that processes keep busy, for last-rites
  tries           \* rounds of last-rites

bootvars == <<crash_threshold, need_recovery, crash_data, debug>>
workvars == <<worker, image, recovered, told, interrupted, shutting_down, kexec>>
ritevars == <<busy, tries>>
vars == <<init, einit_sub, bootvars, workvars, status, pipe, orphan, crashes, ritevars>>

Boot == <<"configure", "recover", "crash data", "early", "switches", "main">>
Booting == {Boot[i] : i \in 1..5}
Alive == Booting \cup {"main"}
Ends == {"halt", "reboot", "kexec", "other", "respawn"}     \* exit status, or a signal
RitesFor == [s \in {"halt", "reboot", "kexec"} |->
               CASE s = "halt" -> "h" [] s = "reboot" -> "r" [] OTHER -> "k"]

Init ==
  /\ init = "fork" /\ einit_sub = "none"
  /\ crash_threshold = CrashThreshold
  /\ need_recovery = FALSE /\ crash_data = FALSE /\ debug = FALSE
  /\ worker = "none" /\ recovered = FALSE /\ status = "none"
  /\ image = [recover |-> FALSE, data |-> FALSE, debug |-> FALSE]
  /\ pipe = <<>> /\ told = {} /\ orphan = [p \in Orphans |-> "alive"]
  /\ interrupted = FALSE /\ shutting_down = FALSE /\ kexec = FALSE
  /\ crashes = 0 /\ busy \in BOOLEAN /\ tries = 0

-----------------------------------------------------------------------------
\* Process 1 (main).

\* A new pipe and a worker, which gets what process 1 knows; under the debugger it is a
\* new image that knows nothing.  If fork fails, process 1 goes on to wait all the same.
Fork ==
  /\ init = "fork"
  /\ \/ /\ einit_sub' = "worker" /\ worker' = "configure"
        /\ image' = [recover |-> need_recovery /\ ~debug, data |-> crash_data /\ ~debug,
                     debug |-> debug]
     \/ ForkFails /\ einit_sub' = "-1" /\ UNCHANGED <<worker, image>>
  /\ pipe' = <<>> /\ told' = {} /\ recovered' = FALSE /\ interrupted' = FALSE
  /\ shutting_down' = FALSE /\ kexec' = FALSE
  /\ crash_data' = FALSE
  /\ init' = "wait"
  /\ UNCHANGED <<crash_threshold, need_recovery, debug, status, orphan, crashes, ritevars>>

\* waitpid returns an orphan: the worker is told, whether there is one or not.
ReapOrphan(p) ==
  /\ init = "wait" /\ orphan[p] = "dead"
  /\ orphan' = [orphan EXCEPT ![p] = "reaped"]
  /\ pipe' = Append(pipe, p)
  /\ UNCHANGED <<init, einit_sub, bootvars, workvars, status, crashes, ritevars>>

\* waitpid returns the worker; or fails, for lack of children, with the value a failed
\* fork has left in einit_sub, and rstatus is whatever was there before.
ReapWorker ==
  /\ init = "wait"
  /\ \/ einit_sub = "worker" /\ worker = "dead" /\ UNCHANGED status
     \/ /\ einit_sub = "-1" /\ \A p \in Orphans : orphan[p] = "reaped"
        /\ status' \in Ends
  /\ worker' = "none"
  /\ init' = "judge"
  /\ UNCHANGED <<einit_sub, bootvars, image, recovered, told, interrupted, shutting_down,
                 kexec, pipe, orphan, crashes, ritevars>>

\* It has quit properly ...
Quit ==
  /\ init = "judge" /\ status # "respawn"
  /\ init' = IF status \in DOMAIN RitesFor THEN "kill" ELSE "exited"
  /\ UNCHANGED <<einit_sub, bootvars, workvars, status, pipe, orphan, crashes, ritevars>>

\* (Mutant: a worker that has crashed too often is not replaced.)
Respawn_Limited ==
  /\ init = "judge" /\ status = "respawn" /\ crash_threshold > 0
  /\ crash_threshold' = crash_threshold - 1
  /\ need_recovery' = TRUE /\ crash_data' \in BOOLEAN
  /\ init' = "fork"
  /\ UNCHANGED <<einit_sub, debug, workvars, status, pipe, orphan, crashes, ritevars>>

\* ... or is replaced, after a while.
Respawn ==
  /\ init = "judge" /\ status = "respawn"
  /\ crash_threshold' = IF crash_threshold > 0 THEN crash_threshold - 1 ELSE 0
  /\ debug' = (debug \/ crash_threshold = 0)
  /\ need_recovery' = TRUE
  /\ crash_data' \in BOOLEAN
  /\ init' = "fork"
  /\ UNCHANGED <<einit_sub, workvars, status, pipe, orphan, crashes, ritevars>>

\* einit_sigint: passed on to the worker, if there is one just now.
Interrupt ==
  /\ init \in {"wait", "judge"} /\ ~interrupted
  /\ interrupted' = (worker = "main")
  /\ UNCHANGED <<init, einit_sub, bootvars, worker, image, recovered, told, shutting_down,
                 kexec, status, pipe, orphan, crashes, ritevars>>

-----------------------------------------------------------------------------
\* The worker.

\* main, from the configuration events to the main loop; recover and crash-data events
\* only if there is something to recover from or to hand over.
Advance ==
  \E i \in 1..5 :
    /\ worker = Boot[i]
    /\ worker' = Boot[i + 1]
    /\ recovered' = (recovered \/ (Boot[i] = "recover" /\ image.recover))
    /\ UNCHANGED <<init, einit_sub, bootvars, image, told, interrupted, shutting_down, kexec,
                   status, pipe, orphan, crashes, ritevars>>

\* sched_pidthread_processor: "pid N died" becomes einit_process_died.
Hear ==
  /\ worker = "main" /\ pipe # <<>>
  /\ pipe' = Tail(pipe)
  /\ told' = told \cup {Head(pipe)}
  /\ UNCHANGED <<init, einit_sub, bootvars, worker, image, recovered, interrupted,
                 shutting_down, kexec, status, orphan, crashes, ritevars>>

\* SIGINT, handled by the scheduler thread.
HandleInterrupt ==
  /\ worker = "main" /\ interrupted
  /\ shutting_down' = TRUE /\ interrupted' = FALSE
  /\ UNCHANGED <<init, einit_sub, bootvars, worker, image, recovered, told, kexec, status, pipe,
                 orphan, crashes, ritevars>>

\* "power down", "power reset", or a mode switch to one of them, from anywhere.
RequestPower ==
  /\ worker = "main" /\ ~shutting_down
  /\ shutting_down' = TRUE
  /\ UNCHANGED <<init, einit_sub, bootvars, worker, image, recovered, told, interrupted, kexec,
                 status, pipe, orphan, crashes, ritevars>>

\* linux_sysconf_enable: the new kernel has been loaded.
LoadKernel ==
  /\ worker = "main" /\ ~kexec
  /\ kexec' = TRUE
  /\ UNCHANGED <<init, einit_sub, bootvars, worker, image, recovered, told, interrupted,
                 shutting_down, status, pipe, orphan, crashes, ritevars>>

\* "scheduler power-down" and "scheduler power-reset", when a mode has been switched to
\* the end: linux_power_off, linux_reboot, or nothing registered for this.
PowerOff ==
  /\ worker = "main" /\ shutting_down
  /\ worker' = "dead"
  /\ status' \in {"halt", IF kexec THEN "kexec" ELSE "reboot"}
  /\ UNCHANGED <<init, einit_sub, bootvars, image, recovered, told, interrupted, shutting_down,
                 kexec, pipe, orphan, crashes, ritevars>>

\* A signal; sched_signal_trace ends with the status that asks for a respawn.  Other
\* ends (bitch with a mortality, a failing pthread_key_create) have other statuses.
Crash ==
  /\ worker \in Alive /\ crashes < MaxCrashes
  /\ crashes' = crashes + 1
  /\ worker' = "dead"
  /\ status' \in {"respawn", "other"}
  /\ UNCHANGED <<init, einit_sub, bootvars, image, recovered, told, interrupted, shutting_down,
                 kexec, pipe, orphan, ritevars>>

OrphanDies(p) ==
  /\ orphan[p] = "alive"
  /\ orphan' = [orphan EXCEPT ![p] = "dead"]
  /\ UNCHANGED <<init, einit_sub, bootvars, workvars, status, pipe, crashes, ritevars>>

-----------------------------------------------------------------------------
\* last-rites, in place of process 1.

\* kill_everything, sync, close_all_loops.
KillEverything ==
  /\ init = "kill"
  /\ orphan' = [p \in Orphans |-> IF orphan[p] = "alive" THEN "dead" ELSE orphan[p]]
  /\ tries' = tries + 1
  /\ init' = "unmount"
  /\ UNCHANGED <<einit_sub, bootvars, workvars, status, pipe, crashes, busy>>

\* unmount_everything: what is busy is remounted and tried again, a few times.
Unmount ==
  /\ init = "unmount"
  /\ \/ busy' = FALSE /\ init' = "down"
     \/ busy /\ UNCHANGED busy /\ init' = IF tries < MaxTries THEN "kill" ELSE "down"
  /\ UNCHANGED <<einit_sub, bootvars, workvars, status, pipe, orphan, crashes, tries>>

\* The machine starts anew or is off: 'k' falls through to 'r' and this to 'h'.
Down ==
  /\ init = "down"
  /\ init' = "off"
  /\ UNCHANGED <<einit_sub, bootvars, workvars, status, pipe, orphan, crashes, ritevars>>

-----------------------------------------------------------------------------
ProcessOne == Fork \/ ReapWorker \/ Quit \/ Respawn
Rites == KillEverything \/ Unmount \/ Down
Worker == Advance \/ HandleInterrupt \/ PowerOff

Next ==
  \/ ProcessOne \/ Rites \/ Worker \/ Hear \/ Interrupt \/ RequestPower \/ LoadKernel \/ Crash
  \/ \E p \in Orphans : ReapOrphan(p) \/ OrphanDies(p)

Spec == Init /\ [][Next]_vars

Fairness ==
  /\ WF_vars(ProcessOne) /\ WF_vars(Rites) /\ WF_vars(Worker) /\ WF_vars(Hear)
  /\ \A p \in Orphans : WF_vars(ReapOrphan(p))

FairSpec == Spec /\ Fairness

-----------------------------------------------------------------------------
\* Every variable holds a value of its kind.
TypeOK ==
  /\ init \in {"fork", "wait", "judge", "kill", "unmount", "down", "off", "exited"}
  /\ einit_sub \in {"none", "worker", "-1"}
  /\ worker \in Alive \cup {"none", "dead"} /\ status \in Ends \cup {"none"}
  /\ crash_threshold \in 0..CrashThreshold
  /\ crashes \in 0..MaxCrashes /\ tries \in 0..MaxTries
  /\ pipe \in Seq(Orphans) /\ told \subseteq Orphans
  /\ orphan \in [Orphans -> {"alive", "dead", "reaped"}]
  /\ \A b \in {need_recovery, crash_data, debug, recovered, interrupted, shutting_down,
               kexec, busy} : b \in BOOLEAN

\* Process 1 does not stay without a worker: whenever there is none alive there will be
\* one in its main loop, or last-rites take the machine down, unless workers keep dying
\* until one of them ends with a status nobody knows, which ends process 1.
WorkerOrDown ==
  worker \notin Alive ~> (worker = "main" \/ init \in {"off", "exited"} \/ einit_sub = "-1")

\* A worker that replaces another one recovers before it starts anything, except for the
\* image under the debugger.
RecoversFirst ==
  (worker \in {"early", "switches", "main"} /\ crashes > 0 /\ ~image.debug) => recovered

\* An orphan's death reaches the worker it was reaped for, once that worker has booted,
\* unless the worker ends first.
DeathsTold ==
  \A p \in Orphans :
    (orphan[p] = "reaped" /\ worker \in Alive /\ \E i \in DOMAIN pipe : pipe[i] = p) ~>
      (p \in told \/ worker \notin Alive)

\* last-rites come to an end, even if a file system stays busy.
RitesEnd == init = "kill" ~> init = "off"

\* "Haven't been able to fork a secondary worker process ... you will get a lot of zombie
\* processes! (provided that things work at all)": without a worker this process goes on
\* by itself.  (Contradicted: it waits for children that do not exist, takes the error
\* for the worker's death and acts on a status that was never written.)
GoesOnWithoutWorker == einit_sub = "-1" => init \in {"wait", "fork"}
=============================================================================
