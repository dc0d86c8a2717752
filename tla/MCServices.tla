----------------------------- MODULE MCServices -----------------------------
(***************************************************************************)
(* Small instances of the services that run beside the plans, checked in   *)
(* one run: the first step of a behaviour has settled for one of them, and *)
(* the others stay as they are at the start.  The variables of the         *)
(* feedback are this module's own.                                         *)
(***************************************************************************)
EXTENDS Feedback, Sequences

CONSTANTS u1, u2      \* threads that update the terminals

VARIABLES
  scene,          \* what takes the steps
  init, einit_sub, crash_threshold, need_recovery, crash_data, debug, core, image, recovered,
  exit_status, deaths, orphan, told, interrupted, shutting_down, kexec, crashes, busy, tries,
  life, watched, reported, tty, ttys, restart, ended, wanted, updates, pc, names, node, cpid,
  live,
  fifo, stage, serving, cancelled, stop, powered, request, command, emitted, requests,
  logbuffer, syslogged, have_syslog, logmutex, log_flushmutex, einit_log_in_switch, said,
  speaking, saying, finishing,
  status, job, pexec, child, pipe, holder, words, pidfile, mode, shadowing, tasks,
  listener, nfd, table, backlog, link, input, replies, reader, count, aborted

supervisor == <<init, einit_sub, crash_threshold, need_recovery, crash_data, debug, core,
                image, recovered, exit_status, deaths, orphan, told, interrupted, shutting_down,
                kexec, crashes, busy, tries>>
terminals == <<life, watched, reported, tty, ttys, restart, ended, wanted, updates, pc, names,
               node, cpid, live>>
initctl == <<fifo, stage, serving, cancelled, stop, powered, request, command, emitted,
             requests>>
logging == <<logbuffer, syslogged, have_syslog, logmutex, log_flushmutex, einit_log_in_switch,
             said, speaking, saying, finishing>>
actions == <<status, job, pexec, child, pipe, holder, words, pidfile, mode, shadowing, tasks>>
ipc == <<listener, nfd, table, backlog, link, input, replies, reader, count, aborted>>
allvars == <<scene, supervisor, terminals, initctl, logging, actions, ipc, fvars>>

-----------------------------------------------------------------------------
\* An orphan; the second crash starts the debugger; fork may fail.
Supervisor == INSTANCE Supervisor WITH
  Orphans <- {"p"}, CrashThreshold <- 1, MaxTries <- 2, MaxCrashes <- 2, ForkFails <- TRUE,
  status <- exit_status, pipe <- deaths, worker <- core

\* A terminal whose getty comes back, and the one the feedback is shown on.
Terminals == INSTANCE Terminals WITH
  Ttys <- {"a", "f"}, Unknown <- {}, Feedback <- {"f"}, Lasting <- {"a"}, Fallible <- TRUE,
  Updaters <- {u1, u2}, MaxGettys <- 2, MaxUpdates <- 2,
  told <- ended, todo <- names

Initctl == INSTANCE Initctl WITH
  Runlevels <- {"3", "5"}, MaxRequests <- 3, shutting_down <- powered,
  running <- serving

Log == INSTANCE Log WITH
  Speakers <- {"s1", "s2"}, Free <- "free", Logger <- TRUE, MaxMessages <- 2

\* A service with a script for every action, shadowed in one of two modes.
Has == [full |-> {"prepare", "enable", "disable", "cleanup", "reload"}]
Shadows == [m1 |-> [full |-> {"before-enable", "after-disable"}], m2 |-> [full |-> {}]]

Actions == INSTANCE Actions WITH
  Mods <- {"full"}, Modes <- {"m1", "m2"}, PipeSize <- 1, MaxTasks <- 2, MaxWords <- 1,
  Has <- Has, Shadows <- Shadows, MayFail <- {"files", "clone", "fdopen"}

Ipc == INSTANCE Ipc WITH
  Clients <- {"c1"}, Commands <- {"list", "log"},
  Chain <- [list |-> <<"log">>, log |-> << >>], Interrupted <- TRUE, MaxConnections <- 2,
  MaxFd <- 4

\* A client that follows the boot, and one module that says something: Services.cfg.
ASSUME FeedbackAssumption

ASSUME /\ Supervisor!SupervisorAssumption /\ Terminals!TerminalsAssumption
       /\ Initctl!InitctlAssumption /\ Log!LogAssumption

-----------------------------------------------------------------------------
\* What does not take the steps has one of its initial states.
ServicesInit ==
  /\ scene \in {"supervisor", "terminals", "initctl", "log", "actions", "ipc",
               "feedback"}
  /\ Supervisor!Init /\ Terminals!Init /\ Initctl!Init /\ Log!Init /\ Actions!Start
  /\ Ipc!Init /\ Start
  /\ scene # "supervisor" => ~busy
  /\ scene # "actions" => mode = "m1"

InSupervisor(A) ==
  /\ scene = "supervisor" /\ A
  /\ UNCHANGED <<scene, terminals, initctl, logging, actions, ipc, fvars>>
InTerminals(A) ==
  /\ scene = "terminals" /\ A
  /\ UNCHANGED <<scene, supervisor, initctl, logging, actions, ipc, fvars>>
InInitctl(A) ==
  /\ scene = "initctl" /\ A
  /\ UNCHANGED <<scene, supervisor, terminals, logging, actions, ipc, fvars>>
InLog(A) ==
  /\ scene = "log" /\ A
  /\ UNCHANGED <<scene, supervisor, terminals, initctl, actions, ipc, fvars>>
InActions(A) ==
  /\ scene = "actions" /\ A
  /\ UNCHANGED <<scene, supervisor, terminals, initctl, logging, ipc, fvars>>
InIpc(A) ==
  /\ scene = "ipc" /\ A
  /\ UNCHANGED <<scene, supervisor, terminals, initctl, logging, actions, fvars>>
InFeedback(A) ==
  /\ scene = "feedback" /\ A
  /\ UNCHANGED <<scene, supervisor, terminals, initctl, logging, actions, ipc>>

ServicesNext ==
  \/ InSupervisor(Supervisor!Next) \/ InTerminals(Terminals!Next) \/ InInitctl(Initctl!Next)
  \/ InLog(Log!Next) \/ InActions(Actions!Next) \/ InIpc(Ipc!Next) \/ InFeedback(Next)

\* The death of a getty is reported, then handled.
Watcher(g) == Terminals!Report(g) \/ Terminals!Find(g) \/ Terminals!Texec(g)

\* That of the modules.  A behaviour keeps to its scene, so that fairness towards a choice
\* of steps from different scenes is fairness towards each of them.
ServicesFairness ==
  /\ WF_allvars(\/ InSupervisor(Supervisor!ProcessOne) \/ InTerminals(Terminals!Consider(u1))
             \/ InInitctl(Initctl!Serve) \/ InLog(Log!Speak("s1"))
             \/ InActions(Actions!Step("full")) \/ InIpc(Ipc!Accept))
  /\ WF_allvars(\/ InSupervisor(Supervisor!Rites) \/ InTerminals(Terminals!Consider(u2))
             \/ InLog(Log!Speak("s2")) \/ InIpc(Ipc!Spawn)
             \/ InInitctl(Initctl!GoDown)
             \/ InActions(\E c \in Actions!Exited : Actions!Exit("full", c)))
  /\ WF_allvars(\/ InSupervisor(Supervisor!Worker) \/ InTerminals(Terminals!Texec(u1))
             \/ InIpc(Ipc!ReaderStep(1)))
  /\ WF_allvars(\/ InSupervisor(Supervisor!Hear) \/ InTerminals(Terminals!Texec(u2))
             \/ InIpc(Ipc!ReaderStep(2)))
  /\ WF_allvars(\/ InSupervisor(Supervisor!ReapOrphan("p")) \/ InTerminals(Watcher(1)))
  /\ WF_allvars(InTerminals(Watcher(2)) \/ InIpc(Ipc!HangUp("c1")))

ServicesSpec == ServicesInit /\ [][ServicesNext]_allvars /\ ServicesFairness

-----------------------------------------------------------------------------
\* Every variable of every component holds a value of its kind.
TypesOK ==
  /\ Supervisor!TypeOK /\ Terminals!TypeOK /\ Initctl!TypeOK
  /\ Log!TypeOK /\ Actions!TypeOK /\ Ipc!TypeOK
  /\ TypeOK

\* einit-core.c: there is a worker in its main loop again, or the machine goes down; a
\* worker that replaces another one recovers before it starts anything, and hears of the
\* deaths of orphans.
WorkerComesBack ==
  /\ scene = "supervisor" => Supervisor!WorkerOrDown
  /\ []Supervisor!RecoversFirst
  /\ Supervisor!DeathsTold

\* tty.c: a getty that is to come back does, and nobody loses sight of one that runs.
GettyComesBack == []Terminals!Accounted /\ Terminals!GettyComesBack

\* What was begun is ended, whoever dies or fails meanwhile: the initctl thread that is
\* cancelled, the buffering of a message, an action of a shell module, the answer to a
\* client, the last rites.
ServicesEnd ==
  /\ Initctl!InitctlEnds
  /\ Log!MessagesTaken
  /\ Actions!ActionsEnd
  /\ Ipc!Answered
  /\ Supervisor!RitesEnd
=============================================================================
