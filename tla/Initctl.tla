------------------------------ MODULE Initctl ------------------------------
(***************************************************************************)
(* compatibility-sysv-initctl.c: a thread that serves the FIFO of          *)
(* System-V programs.                                                      *)
(*                                                                         *)
(* It is started when the devices are there and stopped when the machine   *)
(* is about to go down; it may be stopped before it has begun, while it    *)
(* does so, or in the middle of a request.  A FIFO that cannot be opened   *)
(* ends it.                                                                *)
(***************************************************************************)
EXTENDS Naturals

CONSTANTS
  Runlevels,      \* runlevels that are related to a mode
  MaxRequests     \* bound: requests written

InitctlAssumption == MaxRequests \in Nat

\* What a program may write: a change to a runlevel (related to a mode or not), power
\* events, INIT_HALT, or something else.
Requests == Runlevels \cup {"other level", "failing", "imminent", "restored", "halt", "bad"}

VARIABLES
  fifo,           \* whether the FIFO is there
  stage,          \* of the thread
  running,        \* compatibility_sysv_initctl_running
  cancelled,      \* whether it has been cancelled
  stop,           \* how far compatibility_sysv_initctl_shutdown is
  shutting_down,
  request,        \* what has been written and not been read yet, as a set
  command,        \* what the thread has read, as a set
  emitted,        \* events that have been emitted
  requests

initctlvars == <<fifo, stage, running, cancelled, stop, shutting_down, request, command,
                 emitted, requests>>

Init ==
  /\ fifo = FALSE /\ stage = "none" /\ running = FALSE
  /\ cancelled = FALSE /\ stop = "none" /\ shutting_down = FALSE
  /\ request = {} /\ command = {} /\ emitted = {} /\ requests = 0

\* compatibility_sysv_initctl_run: a new FIFO, unless it is configured away, or a stale
\* one cannot be removed; it may be missing even so.  (The devices become available
\* before the machine goes down.)
Run ==
  /\ stage = "none" /\ stop = "none"
  /\ \/ fifo' \in BOOLEAN /\ stage' = "created"
     \/ stage' = "ended" /\ UNCHANGED fifo
  /\ UNCHANGED <<running, cancelled, stop, shutting_down, request, command, emitted, requests>>

\* initctl_wait begins.
Begin ==
  /\ stage = "created"
  /\ running' = TRUE
  /\ stage' = "open"
  /\ UNCHANGED <<fifo, cancelled, stop, shutting_down, request, command, emitted, requests>>

\* Open waits in the FIFO that is there, or fails ...
Open ==
  /\ stage = "open" /\ ~cancelled
  /\ stage' = IF fifo THEN "wait" ELSE "disable"
  /\ UNCHANGED <<fifo, running, cancelled, stop, shutting_down, request, command, emitted,
                 requests>>

\* ... until somebody writes.
Opened ==
  /\ stage = "wait" /\ ~cancelled /\ request # {}
  /\ stage' = "read"
  /\ UNCHANGED <<fifo, running, cancelled, stop, shutting_down, request, command, emitted,
                 requests>>

\* A thread that could not open it ends, by way of mod() for its module, which has nothing
\* to disable.
GiveUp ==
  /\ stage = "disable"
  /\ running' = FALSE
  /\ stage' = "ended"
  /\ UNCHANGED <<fifo, cancelled, stop, shutting_down, request, command, emitted, requests>>

Read ==
  /\ stage = "read" /\ ~cancelled
  /\ command' = request
  /\ request' = {}
  /\ stage' = "act"
  /\ UNCHANGED <<fifo, running, cancelled, stop, shutting_down, emitted, requests>>

\* The request becomes an event: a switch to the runlevel's mode, a power event, a switch
\* to power-down; or nothing.
Act ==
  /\ stage = "act"
  /\ emitted' = emitted \cup (command \ {"other level", "bad"})
  /\ shutting_down' = (shutting_down \/ "halt" \in command)
  /\ command' = {}
  /\ stage' = "open"
  /\ UNCHANGED <<fifo, running, cancelled, stop, request, requests>>

\* open and read are where the cancellation takes effect.
Cancel ==
  /\ cancelled /\ stage \in {"open", "wait", "read"}
  /\ stage' = "ended"
  /\ UNCHANGED <<fifo, running, cancelled, stop, shutting_down, request, command, emitted,
                 requests>>

\* compatibility_sysv_initctl_shutdown, when the machine is about to go down: is there a
\* thread that has begun ...
Shutdown ==
  /\ stop = "none"
  /\ stop' = IF running THEN "cancel" ELSE "remove"
  /\ UNCHANGED <<fifo, stage, running, cancelled, shutting_down, request, command, emitted,
                 requests>>

\* ... then it is cancelled ...
CancelThread ==
  /\ stop = "cancel"
  /\ cancelled' = TRUE
  /\ stop' = "remove"
  /\ UNCHANGED <<fifo, stage, running, shutting_down, request, command, emitted, requests>>

\* ... the FIFO is removed, if that can be done ...
Unlink ==
  /\ stop = "remove"
  /\ fifo' \in {FALSE, fifo}
  /\ stop' = "clear"
  /\ UNCHANGED <<stage, running, cancelled, shutting_down, request, command, emitted, requests>>

\* ... and nothing is running.
ClearRunning ==
  /\ stop = "clear"
  /\ running' = FALSE
  /\ stop' = "done"
  /\ UNCHANGED <<fifo, stage, cancelled, shutting_down, request, command, emitted, requests>>

\* A program writes a request and waits for it to be read.
Write ==
  /\ fifo /\ request = {} /\ requests < MaxRequests
  /\ \E r \in Requests : request' = {r}
  /\ requests' = requests + 1
  /\ UNCHANGED <<fifo, stage, running, cancelled, stop, shutting_down, command, emitted>>

Serve == Begin \/ Open \/ Opened \/ GiveUp \/ Read \/ Act \/ Cancel

\* What the handler still does once it has looked for the thread.
GoDown == CancelThread \/ Unlink \/ ClearRunning

Next == Run \/ Serve \/ Shutdown \/ GoDown \/ Write

Spec == Init /\ [][Next]_initctlvars
FairSpec == Spec /\ WF_initctlvars(Serve) /\ WF_initctlvars(GoDown)

-----------------------------------------------------------------------------
\* Every variable holds a value of its kind.
TypeOK ==
  /\ stage \in {"none", "created", "open", "wait", "disable", "read", "act", "ended"}
  /\ stop \in {"none", "cancel", "remove", "clear", "done"}
  /\ \A b \in {fifo, running, cancelled, shutting_down} : b \in BOOLEAN
  /\ request \subseteq Requests /\ command \subseteq Requests
  /\ emitted \subseteq Requests \ {"other level", "bad"}
  /\ requests \in 0..MaxRequests

\* Once the machine is about to go down the thread ends, even if it was created and had
\* not begun when it was to be cancelled: the FIFO it would open is gone by then.  The
\* exceptions are a FIFO that could not be removed, and a thread that began after it had
\* been looked for and opened the FIFO before that was removed, which waits there for ever.
InitctlEnds ==
  stop = "done" /\ stage # "none"
    ~> stage = "ended" \/ (~cancelled /\ (fifo \/ stage = "wait"))

\* The thread never outlives compatibility_sysv_initctl_shutdown.  (Contradicted by the
\* exceptions above.)
NoneLeftBehind == stop = "done" /\ stage # "none" ~> stage = "ended"
=============================================================================
