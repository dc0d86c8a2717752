------------------------------ MODULE Feedback ------------------------------
(* The textual feedback (feedback-visual-textual.c): whoever has something to *)
(* say about a module queues it, whoever wants to follow what happens has a   *)
(* stream registered and unregistered, and a thread that is created when      *)
(* there is something to do works on the queue and ends when it is empty.     *)
(* That the thread runs is kept in a flag that is read and set without lock.  *)
(*                                                                            *)
(* What is written is left out, except which messages reach which stream.     *)
EXTENDS Naturals, FiniteSetsExt

CONSTANTS Clients,     \* who has a stream registered: the connections of the socket
          Reporters,   \* threads that say something, each about a module of its own
          Workers,     \* bound: threads that may work on the queue
          MaxEvents    \* bound: events that are emitted

Console == "stdout"

\* Connections are no modules.
FeedbackAssumption ==
    /\ Clients \cap Reporters = {} /\ Console \notin Clients /\ MaxEvents \in Nat

Callers == Clients \cup Reporters

VARIABLES queue,     \* feedback_textual_commandQ
          running,   \* einit_feedback_visual_textual_worker_thread_running
          worker,    \* the threads: where they are, and the command they took
          streams,   \* feedback_streams: the file, last_seqid
          log,       \* feedback_textual_modules: the messages of each module
          caller,    \* the threads that emit events, and the event they emit
          open,      \* the files of clients that are open
          events,    \* the seqid of the last event
          calm       \* the flag has always said what it is meant to say

fvars == <<queue, running, worker, streams, log, caller, open, events, calm>>

Command(k, c, s) == [kind |-> k, of |-> c, seq |-> s]
NoCommand == Command("none", Console, 0)
At(pc) == [pc |-> pc, command |-> NoCommand]
Active == {w \in Workers : worker[w].pc # "none"}

Start ==
    /\ queue = {} /\ running = FALSE /\ worker = [w \in Workers |-> At("none")]
    /\ streams = {} /\ log = [r \in Reporters |-> {}]
    /\ caller = [c \in Callers |-> At("idle")]
    /\ open = {} /\ events = 0 /\ calm = TRUE

(***************************************************************************)
(* Threads that emit an event of the feedback.                             *)
(***************************************************************************)
Emit(c, kind) ==
    /\ events < MaxEvents /\ events' = events + 1
    /\ caller' = [caller EXCEPT ![c] = [pc |-> "queue", command |-> Command(kind, c, events + 1)]]

Report(r) ==
    /\ caller[r].pc = "idle" /\ Emit(r, "update")
    /\ UNCHANGED <<queue, running, worker, streams, log, open, calm>>

\* A command comes in at the socket that has the plan followed.
Register(c) ==
    /\ caller[c].pc = "idle" /\ Emit(c, "register")
    /\ open' = open \cup {c}
    /\ UNCHANGED <<queue, running, worker, streams, log, calm>>

Unregister(c) ==
    /\ caller[c].pc = "working" /\ Emit(c, "unregister")
    /\ UNCHANGED <<queue, running, worker, streams, log, open, calm>>

Queue(c) ==
    /\ caller[c].pc = "queue"
    /\ queue' = queue \cup {caller[c].command}
    /\ caller' = [caller EXCEPT ![c].pc = "look"]
    /\ UNCHANGED <<running, worker, streams, log, open, events, calm>>

\* Where a caller goes on when the command is queued.
Queued(c) ==
    CASE caller[c].command.kind = "update" -> At("idle")
      [] caller[c].command.kind = "register" -> At("working")
      [] OTHER -> [caller[c] EXCEPT !.pc = "wait"]

\* The flag is looked at; a thread that is about to reset it counts as one
\* that works.
Look(c) ==
    /\ caller[c].pc = "look"
    /\ caller' = [caller EXCEPT ![c] = IF running THEN Queued(c) ELSE [@ EXCEPT !.pc = "create"]]
    /\ calm' = (calm /\ ~(running /\ \E w \in Workers : worker[w].pc = "stop"))
    /\ UNCHANGED <<queue, running, worker, streams, log, open, events>>

Create ==
    LET w == CHOOSE x \in Workers : worker[x].pc = "none"
    IN  /\ Active # Workers
        /\ worker' = [worker EXCEPT ![w] = At("start")]
        /\ calm' = (calm /\ Active = {})

CreateWorker(c) ==
    /\ caller[c].pc = "create"
    /\ running' = TRUE /\ Create
    /\ caller' = [caller EXCEPT ![c] = Queued(c)]
    /\ UNCHANGED <<queue, streams, log, open, events>>

\* feedback_textual_enable: the console, and a thread whether one runs or not.
Enable ==
    /\ \A s \in streams : s.file # Console
    /\ streams' = streams \cup {[file |-> Console, last |-> 0]}
    /\ Create
    /\ UNCHANGED <<queue, running, log, caller, open, events>>

\* feedback_textual_wait_for_commandQ_to_finish.
Wait(c) ==
    /\ caller[c].pc = "wait" /\ (queue = {} \/ ~running)
    /\ caller' = [caller EXCEPT ![c].pc = "check"]
    /\ UNCHANGED <<queue, running, worker, streams, log, open, events, calm>>

\* Mutant: the list is not looked at.
Check_Once(c) ==
    /\ caller[c].pc = "check"
    /\ caller' = [caller EXCEPT ![c] = At("idle")] /\ open' = open \ {c}
    /\ UNCHANGED <<queue, running, worker, streams, log, events, calm>>

\* The stream is still there: all over again.  Else the handler returns, and
\* the connection is closed once its command is done.
Check(c) ==
    /\ caller[c].pc = "check"
    /\ IF \E s \in streams : s.file = c
       THEN caller' = [caller EXCEPT ![c].pc = "queue"] /\ UNCHANGED open
       ELSE caller' = [caller EXCEPT ![c] = At("idle")] /\ open' = open \ {c}
    /\ UNCHANGED <<queue, running, worker, streams, log, events, calm>>

(***************************************************************************)
(* The threads that work on the queue.                                     *)
(***************************************************************************)
WorkerStarts(w) ==
    /\ worker[w].pc = "start"
    /\ running' = TRUE /\ worker' = [worker EXCEPT ![w].pc = "loop"]
    /\ UNCHANGED <<queue, streams, log, caller, open, events, calm>>

\* The oldest command.
Take(w) ==
    LET first == CHOOSE x \in queue : \A y \in queue : x.seq <= y.seq
    IN  /\ worker[w].pc = "loop" /\ queue # {}
        /\ queue' = queue \ {first}
        /\ worker' = [worker EXCEPT ![w] = [pc |-> "do", command |-> first]]
        /\ UNCHANGED <<running, streams, log, caller, open, events, calm>>

\* feedback_textual_update_screen: what is younger than the last message a
\* stream has seen is written, and the youngest of all is remembered.
Screen(ss, l) ==
    LET youngest == Max({0} \cup UNION {l[r] : r \in Reporters})
    IN  {[s EXCEPT !.last = IF youngest > @ THEN youngest ELSE @] : s \in ss}

Without(ss, c) == {s \in ss : s.file # c}

Do(w) ==
    LET k == worker[w].command
    IN  /\ worker[w].pc = "do"
        /\ worker' = [worker EXCEPT ![w] = At("loop")]
        /\ CASE k.kind = "update" ->
                  /\ log' = [log EXCEPT ![k.of] = @ \cup {k.seq}]
                  /\ streams' = Screen(streams, log')
             [] k.kind = "register" ->
                  /\ streams' = Screen(streams \cup {[file |-> k.of, last |-> k.seq]}, log)
                  /\ UNCHANGED log
             [] OTHER ->
                  /\ streams' = Without(Screen(streams, log), k.of)
                  /\ UNCHANGED log
        /\ UNCHANGED <<queue, running, caller, open, events, calm>>

\* The queue is empty: those who wait are told, and after a moment it is
\* looked at once more.
Pause(w) ==
    /\ worker[w].pc = "loop" /\ queue = {}
    /\ streams' = Screen(streams, log)
    /\ worker' = [worker EXCEPT ![w].pc = "pause"]
    /\ UNCHANGED <<queue, running, log, caller, open, events, calm>>

LookAgain(w) ==
    /\ worker[w].pc = "pause"
    /\ worker' = [worker EXCEPT ![w].pc = IF queue # {} THEN "loop" ELSE "stop"]
    /\ UNCHANGED <<queue, running, streams, log, caller, open, events, calm>>

Stop(w) ==
    /\ worker[w].pc = "stop"
    /\ running' = FALSE /\ worker' = [worker EXCEPT ![w] = At("none")]
    /\ UNCHANGED <<queue, streams, log, caller, open, events, calm>>

Call(c) == Queue(c) \/ Look(c) \/ CreateWorker(c) \/ (c \in Clients /\ (Wait(c) \/ Check(c)))
Work(w) == WorkerStarts(w) \/ Take(w) \/ Do(w) \/ Pause(w) \/ LookAgain(w) \/ Stop(w)

Next ==
    \/ \E r \in Reporters : Report(r)
    \/ \E c \in Clients : Register(c) \/ Unregister(c)
    \/ Enable
    \/ \E c \in Callers : Call(c)
    \/ \E w \in Workers : Work(w)

Spec == Start /\ [][Next]_fvars

\* Threads run.
Fairness == (\A c \in Callers : WF_fvars(Call(c))) /\ (\A w \in Workers : WF_fvars(Work(w)))

FairSpec == Spec /\ Fairness

-----------------------------------------------------------------------------
TypeOK ==
    /\ running \in BOOLEAN /\ calm \in BOOLEAN /\ events \in 0..MaxEvents
    /\ \A k \in queue : k.of \in Callers /\ k.seq \in 1..events
    /\ \A s \in streams : s.file \in Clients \cup {Console}
    /\ open \subseteq Clients

-----------------------------------------------------------------------------
(* Properties.                                                             *)

\* No stream is written to whose file has been closed: the handler that
\* unregisters it returns when no thread has the stream or may still add it.
\* It takes for granted that one thread works on the queue and that its flag
\* is up to date.
StreamsOpen == calm => \A s \in streams : s.file \in open \cup {Console}

\* (Contradicted by the flag of the thread, which is read and set without a lock.)
\* The same without taking anything for granted.
StreamsAlwaysOpen == \A s \in streams : s.file \in open \cup {Console}

\* (Contradicted by a thread that is about to reset its flag.)
\* A command that was queued is carried out, though nobody queues another.
QueueWorkedOff == queue # {} ~> queue = {}

=============================================================================
