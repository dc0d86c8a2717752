------------------------------- MODULE Actions -------------------------------
(* The modules that are written in XML (module-xml.c): what they do is a      *)
(* command of the configuration, or a script, for each action, which pexec()  *)
(* of exec.c runs and listens to.  Around it the commands of the mode that    *)
(* shadow a service are run (shadow-exec.c).  Modules that are daemons are    *)
(* Daemons.                                                                   *)
(*                                                                            *)
(* A command is a process that writes lines into a pipe and exits; it may     *)
(* leave a process behind that still holds the pipe.  Of what it writes only  *)
(* the last word counts: whether it said that it failed.                      *)
EXTENDS Naturals, Sequences, SequencesExt

CONSTANTS Mods,        \* the modules
          Has,         \* the actions a module has, by module
          Modes,       \* the modes
          Shadows,     \* the shadow commands of a mode: [mode -> [module -> set]]
          PipeSize,    \* lines a pipe holds; what is written beyond is lost
          MayFail,     \* what may go wrong: subset of {"pipe", "clone", "fdopen", "files"}
          MaxTasks,    \* bound: calls of mod()
          MaxWords     \* bound: lines a command writes

VARIABLES status,    \* of the module: "enabled", "disabled"
          job,       \* the call of mod() for a module: its task, what is left to do
          pexec,     \* the call of pexec(): where it is, the last word it heard
          child,     \* the process: "none", "stopped", "running" or its exit code
          pipe,      \* lines that are written and not read
          holder,    \* a process left behind holds the pipe
          words,     \* lines the command has written
          pidfile,   \* the modules whose pid file is there
          mode,      \* the mode
          shadowing, \* the mode shadows were last updated for: einit_shadow_exec_ecmode
          tasks      \* calls of mod()

avars == <<status, job, pexec, child, pipe, holder, words, pidfile, mode, shadowing, tasks>>
process == <<child, pipe, holder, words>>

None == "none"
Idle == [task |-> None, todo |-> <<>>]
NotRunning == [pc |-> None, action |-> None, word |-> "ok"]
Exited == {"success", "failure"}
Own == {"prepare", "enable", "disable", "cleanup", "reload"}
Before(t) == IF t = "enable" THEN "before-enable" ELSE "before-disable"
After(t) == IF t = "enable" THEN "after-enable" ELSE "after-disable"

Start ==
    /\ status = [m \in Mods |-> "disabled"] /\ job = [m \in Mods |-> Idle]
    /\ pexec = [m \in Mods |-> NotRunning]
    /\ child = [m \in Mods |-> None] /\ pipe = [m \in Mods |-> <<>>]
    /\ holder = [m \in Mods |-> FALSE] /\ words = [m \in Mods |-> 0]
    /\ pidfile = {} /\ mode \in Modes /\ shadowing = None /\ tasks = 0

(***************************************************************************)
(* The actions of a module.                                                *)
(***************************************************************************)
\* module_xml_v2_module_enable, _disable and _custom_action: the actions in
\* turn, between what shadows the service.
Todo(m, t) ==
    LET Maybe(a) == IF a \in Has[m] THEN <<a>> ELSE <<>>
    IN  CASE t = "enable" -> <<Before(t), "unlink">> \o Maybe("prepare") \o <<"enable", "settle", After(t)>>
          [] t = "disable" -> <<Before(t), "disable">> \o Maybe("cleanup") \o <<"unlink", "settle", After(t)>>
          [] OTHER -> <<t>>

Begin(m, t) ==
    /\ job[m] = Idle /\ tasks < MaxTasks
    /\ CASE t = "enable" -> status[m] = "disabled"
         [] t = "disable" -> status[m] = "enabled"
         [] OTHER -> t \in Has[m]
    /\ job' = [job EXCEPT ![m] = [task |-> t, todo |-> Todo(m, t)]]
    /\ tasks' = tasks + 1
    /\ UNCHANGED <<status, pexec, process, pidfile, mode, shadowing>>

Doing(m, s) == job[m] # Idle /\ pexec[m] = NotRunning /\ job[m].todo # <<>> /\ Head(job[m].todo) = s
NextTodo(m) == job' = [job EXCEPT ![m] = IF Len(@.todo) = 1 THEN Idle ELSE [@ EXCEPT !.todo = Tail(@)]]
Failed(m) == job' = [job EXCEPT ![m] = Idle]

\* The pid file goes before a module is enabled and when it has been disabled.
Unlink(m) ==
    /\ Doing(m, "unlink")
    /\ pidfile' = pidfile \ {m} /\ NextTodo(m)
    /\ UNCHANGED <<status, pexec, process, mode, shadowing, tasks>>

Settle(m) ==
    /\ Doing(m, "settle")
    /\ status' = [status EXCEPT ![m] = IF job[m].task = "enable" THEN "enabled" ELSE "disabled"]
    /\ NextTodo(m)
    /\ UNCHANGED <<pexec, process, pidfile, mode, shadowing, tasks>>

\* module_xml_v2_check_files fails, or the module has no such action.
Cannot(m, a) ==
    /\ Doing(m, a) /\ a \in Own
    /\ a \notin Has[m] \/ "files" \in MayFail
    /\ Failed(m)
    /\ UNCHANGED <<status, pexec, process, pidfile, mode, shadowing, tasks>>

\* einit_shadow_exec_einit_event_handler, with the shadows of the mode they
\* were last updated for.
Shadowed(m, s) == shadowing # None /\ s \in Shadows[shadowing][m]

NoShadow(m, s) ==
    /\ Doing(m, s) /\ s \notin Own \cup {"unlink", "settle"} /\ ~Shadowed(m, s)
    /\ NextTodo(m)
    /\ UNCHANGED <<status, pexec, process, pidfile, mode, shadowing, tasks>>

\* The mode is switched; the event that tells so updates the shadows.
SwitchMode(x) ==
    /\ x # mode /\ tasks < MaxTasks
    /\ mode' = x /\ tasks' = tasks + 1
    /\ UNCHANGED <<status, job, pexec, process, pidfile, shadowing>>

UpdateShadows ==
    /\ shadowing # mode /\ shadowing' = mode
    /\ UNCHANGED <<status, job, pexec, process, pidfile, mode, tasks>>

(***************************************************************************)
(* pexec().                                                                *)
(***************************************************************************)
Piped(a) == a \in Own

\* The process is created, stopped.
Clone(m, a) ==
    /\ Doing(m, a)
    /\ IF a \in Own THEN a \in Has[m] ELSE Shadowed(m, a)
    /\ child' = [child EXCEPT ![m] = "stopped"]
    /\ pexec' = [pexec EXCEPT ![m] = [pc |-> "clone", action |-> a, word |-> "ok"]]
    /\ pipe' = [pipe EXCEPT ![m] = <<>>] /\ holder' = [holder EXCEPT ![m] = FALSE]
    /\ words' = [words EXCEPT ![m] = 0]
    /\ UNCHANGED <<status, job, pidfile, mode, shadowing, tasks>>

\* No pipe, or no process: the action has failed.
CloneFails(m, a) ==
    /\ Doing(m, a) /\ a \in Own \cap Has[m] /\ MayFail \cap {"pipe", "clone"} # {}
    /\ Failed(m)
    /\ UNCHANGED <<status, pexec, process, pidfile, mode, shadowing, tasks>>

Go(m, pc) == pexec' = [pexec EXCEPT ![m].pc = pc]

\* SIGCONT, after the pipe is opened, when there is one to be opened.
Continue(m) ==
    /\ pexec[m].pc = "clone"
    /\ child' = [child EXCEPT ![m] = "running"]
    /\ Go(m, IF Piped(pexec[m].action) THEN "first" ELSE "reap")
    /\ UNCHANGED <<status, job, pipe, holder, words, pidfile, mode, shadowing, tasks>>

\* The pipe cannot be opened: the process is waited for as it is.
FdopenFails(m) ==
    /\ pexec[m].pc = "clone" /\ Piped(pexec[m].action) /\ "fdopen" \in MayFail
    /\ Go(m, "reap")
    /\ UNCHANGED <<status, job, process, pidfile, mode, shadowing, tasks>>

Reaped(m) ==
    /\ child[m] \in Exited
    /\ Go(m, "done")
    /\ UNCHANGED <<status, job, process, pidfile, mode, shadowing, tasks>>

\* A process that is over by now is not listened to.
First(m) ==
    /\ pexec[m].pc = "first"
    /\ \/ Reaped(m)
       \/ /\ child[m] \notin Exited /\ Go(m, "read")
          /\ UNCHANGED <<status, job, process, pidfile, mode, shadowing, tasks>>

\* A line: one that is meant as feedback is the last word from now on.
Read(m) ==
    /\ pexec[m].pc = "read" /\ pipe[m] # <<>>
    /\ pipe' = [pipe EXCEPT ![m] = Tail(@)]
    /\ pexec' = [pexec EXCEPT ![m].word = IF Head(pipe[m]) = "plain" THEN @ ELSE Head(pipe[m])]
    /\ UNCHANGED <<status, job, child, holder, words, pidfile, mode, shadowing, tasks>>

\* End of file: nobody holds the pipe.
Eof(m) ==
    /\ pexec[m].pc = "read" /\ pipe[m] = <<>> /\ ~holder[m] /\ child[m] \in Exited
    /\ Go(m, "reap")
    /\ UNCHANGED <<status, job, process, pidfile, mode, shadowing, tasks>>

Again(m) ==
    /\ pexec[m].pc = "read" /\ pipe[m] = <<>> /\ (holder[m] \/ child[m] \notin Exited)
    /\ Go(m, "poll")
    /\ UNCHANGED <<status, job, process, pidfile, mode, shadowing, tasks>>

\* Mutant: the process is not asked after while there is nothing to read.
Poll_ReadOnly(m) ==
    /\ pexec[m].pc = "poll" /\ Go(m, "read")
    /\ UNCHANGED <<status, job, process, pidfile, mode, shadowing, tasks>>

\* Nothing to read: the process may be over.  What it wrote last is then lost.
Poll(m) ==
    /\ pexec[m].pc = "poll"
    /\ \/ Reaped(m)
       \/ /\ child[m] \notin Exited /\ Go(m, "read")
          /\ UNCHANGED <<status, job, process, pidfile, mode, shadowing, tasks>>

Reap(m) == pexec[m].pc = "reap" /\ Reaped(m)

Ok(m) == pexec[m].word # "failure" /\ child[m] = "success"

\* What a shadow returns does not matter.
Return(m) ==
    /\ pexec[m].pc = "done"
    /\ pexec' = [pexec EXCEPT ![m] = NotRunning] /\ child' = [child EXCEPT ![m] = None]
    /\ IF Ok(m) \/ ~Piped(pexec[m].action) THEN NextTodo(m) ELSE Failed(m)
    /\ UNCHANGED <<status, pipe, holder, words, pidfile, mode, shadowing, tasks>>

(***************************************************************************)
(* The command.                                                            *)
(***************************************************************************)
Say(m, w) ==
    /\ child[m] = "running" /\ words[m] < MaxWords
    /\ words' = [words EXCEPT ![m] = @ + 1]
    /\ pipe' = [pipe EXCEPT ![m] = IF Piped(pexec[m].action) /\ Len(@) < PipeSize THEN Append(@, w) ELSE @]
    /\ UNCHANGED <<status, job, pexec, child, holder, pidfile, mode, shadowing, tasks>>

WritePidfile(m) ==
    /\ child[m] = "running" /\ pexec[m].action = "enable" /\ m \notin pidfile
    /\ pidfile' = pidfile \cup {m}
    /\ UNCHANGED <<status, job, pexec, process, mode, shadowing, tasks>>

\* exec_run_sh: a command that ends in "&" is run by another process, with
\* the pipe; the one that was started exits, and has succeeded.
Background(m) ==
    /\ child[m] = "running" /\ words[m] = 0
    /\ child' = [child EXCEPT ![m] = "success"] /\ holder' = [holder EXCEPT ![m] = TRUE]
    /\ UNCHANGED <<status, job, pexec, pipe, words, pidfile, mode, shadowing, tasks>>

Exit(m, code) ==
    /\ child[m] = "running"
    /\ child' = [child EXCEPT ![m] = code]
    /\ UNCHANGED <<status, job, pexec, pipe, holder, words, pidfile, mode, shadowing, tasks>>

Step(m) ==
    \/ Unlink(m) \/ Settle(m)
    \/ \E a \in Own : Cannot(m, a) \/ CloneFails(m, a)
    \/ \E s \in {"before-enable", "after-enable", "before-disable", "after-disable"} : NoShadow(m, s) \/ Clone(m, s)
    \/ \E a \in Own : Clone(m, a)
    \/ Continue(m) \/ FdopenFails(m) \/ First(m) \/ Read(m) \/ Eof(m) \/ Again(m) \/ Poll(m) \/ Reap(m) \/ Return(m)

Next ==
    \/ \E m \in Mods :
         \/ \E t \in {"enable", "disable", "reload"} : Begin(m, t)
         \/ Step(m)
         \/ \E w \in {"plain", "failure", "ok"} : Say(m, w)
         \/ WritePidfile(m) \/ Background(m)
         \/ \E c \in Exited : Exit(m, c)
    \/ \E x \in Modes : SwitchMode(x)
    \/ UpdateShadows

Spec == Start /\ [][Next]_avars

\* The caller runs; a command ends, the process it may leave behind need not.
Fairness == \A m \in Mods : WF_avars(Step(m)) /\ WF_avars(\E c \in Exited : Exit(m, c))

FairSpec == Spec /\ Fairness

-----------------------------------------------------------------------------
TypeOK ==
    /\ status \in [Mods -> {"enabled", "disabled"}]
    /\ \A m \in Mods : child[m] \in {None, "stopped", "running"} \cup Exited
    /\ \A m \in Mods : Len(pipe[m]) <= PipeSize /\ words[m] \in 0..MaxWords
    /\ pidfile \subseteq Mods /\ shadowing \in Modes \cup {None}

-----------------------------------------------------------------------------
(* Properties.                                                             *)

\* The calls for a module come back, and leave no process behind that nobody
\* has waited for, as long as its commands exit: a process that a command has
\* left running, with the pipe in its hands, does not keep anybody.  (When the
\* pipe could not be opened, the process is never continued, and waited for
\* for ever.)
Forgotten(m) == pexec[m].pc = "reap" /\ child[m] = "stopped"

ActionsEnd == \A m \in Mods : job[m] # Idle ~> (job[m] = Idle \/ Forgotten(m))

\* (Contradicted by a command that ends right after it has written.)
\* A command that wrote that it failed has failed, even if that was not read
\* in time (pexec() looks whether the process is over before it reads).
FailureHeard ==
    [][\A m \in Mods : pexec[m].pc = "done" /\ pexec'[m].pc # "done" /\ "failure" \in ToSet(pipe[m]) => ~Ok(m)]_avars

=============================================================================
