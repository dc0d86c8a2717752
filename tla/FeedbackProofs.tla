--------------------------- MODULE FeedbackProofs ---------------------------
(***************************************************************************)
(* The textual feedback never draws to a stream whose file is closed, for  *)
(* any clients, reporters and bounds, as long as the flag of its worker    *)
(* thread has said what it is meant to say.                                *)
(*                                                                         *)
(* The handler that unregisters a stream waits for an empty queue or for a *)
(* flag that is down, and closes the file when the stream is off the list. *)
(* That is enough because commands are carried out in the order of their   *)
(* numbers by one thread: as long as a registration of the stream is ahead *)
(* its own command is in the queue as well (Held), so the queue is not     *)
(* empty; and a flag that is down while somebody's command is in the queue *)
(* would mean that the thread has looked at the queue before.              *)
(***************************************************************************)
EXTENDS Feedback, WellFoundedInduction, TLAPS

Stages == {"none", "start", "loop", "do", "pause", "stop"}
CallStages == {"idle", "queue", "look", "create", "working", "wait", "check"}
Kinds == {"none", "update", "register", "unregister"}
Commands == [kind : Kinds, of : Callers \cup {Console}, seq : Nat]

Types ==
  /\ queue \subseteq Commands
  /\ worker \in [Workers -> [pc : Stages, command : Commands]]
  /\ caller \in [Callers -> [pc : CallStages, command : Commands]]
  /\ events \in Nat

\* Nobody has a command with a number that no event has had.
Numbered ==
  /\ \A k \in queue : k.seq <= events
  /\ \A w \in Workers : worker[w].command.seq <= events
  /\ \A c \in Callers : caller[c].command.seq <= events

\* What a caller says is about itself.
Own(c) ==
  caller[c].pc \in {"queue", "look", "create", "wait", "check"} => caller[c].command.of = c

\* What the handler of a client does.
Handler(c) ==
  /\ caller[c].pc = "idle" <=> c \notin open
  /\ caller[c].pc \in {"queue", "look", "create", "wait", "check"} =>
       caller[c].command.kind \in {"register", "unregister"}
  /\ caller[c].pc \in {"wait", "check"} => caller[c].command.kind = "unregister"

\* A stream is a record of its file and of what it has seen.
Streams == \A s \in streams : s = [file |-> s.file, last |-> s.last]

\* One thread works on the queue, and the flag is up only while one does.
OneWorker ==
  /\ \A v, w \in Workers : worker[v].pc # "none" /\ worker[w].pc # "none" => v = w
  /\ running => \E w \in Workers : worker[w].pc # "none"

\* The registrations of c that have not been carried out yet.
Awaits(c, k) ==
  /\ k.kind = "register" /\ k.of = c
  /\ k \in queue \/ \E w \in Workers : worker[w].pc = "do" /\ worker[w].command = k

\* A handler past the queueing of its wish to unregister.
Leaving(c) ==
  /\ caller[c].pc \in {"look", "create", "wait"}
  /\ caller[c].command.kind = "unregister"

Held(c) ==
  /\ c \notin open => \A s \in streams : s.file # c
  /\ c \notin open \/ caller[c].pc = "check" => \A k : ~Awaits(c, k)
  /\ caller[c].command.kind = "unregister" =>
       \A k : Awaits(c, k) => k.seq < caller[c].command.seq
  /\ Leaving(c) => \A k : Awaits(c, k) => caller[c].command \in queue

\* A handler that waits with its command in the queue has seen that it will be taken.
Attended(c) ==
  caller[c].pc = "wait" /\ caller[c].command \in queue =>
    running /\ \E w \in Workers : worker[w].pc \in {"start", "loop", "do", "pause"}



\* A command has been emitted, and only clients have streams registered.
Genuine(k) ==
  k.kind # "none" =>
    k.of \in Callers /\ k.seq >= 1 /\ (k.kind = "register" => k.of \in Clients)

Genuines ==
  /\ \A k \in queue : k.kind # "none" /\ Genuine(k)
  /\ \A w \in Workers : Genuine(worker[w].command)
  /\ \A c \in Callers :
       /\ Genuine(caller[c].command)
       /\ caller[c].pc = "queue" => caller[c].command.kind # "none"

\* Only clients have streams.
Files ==
  /\ \A s \in streams : s.file \in Clients \cup {Console}
  /\ events \in 0..MaxEvents /\ open \subseteq Clients

Flags == running \in BOOLEAN /\ calm \in BOOLEAN

FeedbackInv ==
  /\ Types /\ Numbered /\ Streams /\ Genuines /\ Files /\ Flags
  /\ \A c \in Callers : Own(c)
  /\ \A c \in Clients : Handler(c)
  /\ calm => OneWorker /\ \A c \in Clients : (Held(c) /\ Attended(c))



-----------------------------------------------------------------------------
\* A set of commands that is not empty has an oldest.
LEMMA Oldest ==
  ASSUME NEW Q \in SUBSET Commands, Q # {}
  PROVE  \E k \in Q : \A j \in Q : k.seq <= j.seq
<1> DEFINE N == {k.seq : k \in Q}
<1> DEFINE R == {ss \in Nat \X Nat : ss[1] < ss[2]}
<1>1. N \subseteq Nat /\ N # {} BY DEF Commands
<1>2. IsWellFoundedOn(R, Nat) BY NatLessThanWellFounded DEF OpToRel
<1>3. PICK n \in N : \A m \in N : ~(<<m, n>> \in R)
  <2> HIDE DEF N, R
  <2> QED BY <1>1, <1>2, WFMin
<1>4. ASSUME NEW m \in N PROVE n <= m
  <2>1. m \in Nat /\ n \in Nat BY <1>1
  <2>2. <<m, n>> \notin R BY <1>3
  <2>3. <<m, n>> \in Nat \X Nat BY <2>1
  <2>4. ~(m < n) BY <2>2, <2>3
  <2> QED BY <2>1, <2>4
<1> QED BY <1>4

LEMMA TakesOldest ==
  ASSUME Types, NEW w \in Workers, Take(w)
  PROVE  \E first \in queue :
           /\ \A k \in queue : first.seq <= k.seq
           /\ queue' = queue \ {first}
           /\ worker' = [worker EXCEPT ![w] = [pc |-> "do", command |-> first]]
<1>1. queue \in SUBSET Commands /\ queue # {} BY DEF Types, Take
<1>2. \E k \in queue : \A j \in queue : k.seq <= j.seq BY <1>1, Oldest
<1> QED BY <1>2 DEF Take

\* What a new thread is.
LEMMA Created ==
  ASSUME Create
  PROVE  /\ calm' => calm /\ \A w \in Workers : worker[w].pc = "none"
         /\ \E w \in Workers : worker[w].pc = "none" /\ worker' = [worker EXCEPT ![w] = At("start")]
BY DEF Create, Active

LEMMA Blank ==
  /\ NoCommand \in Commands /\ NoCommand.kind = "none" /\ NoCommand.seq = 0
  /\ \A pc : At(pc) = [pc |-> pc, command |-> NoCommand]
BY DEF NoCommand, Command, Commands, Kinds, At

LEMMA Following ==
  ASSUME Types, NEW c \in Callers
  PROVE  /\ Queued(c) \in [pc : CallStages, command : Commands]
         /\ Queued(c).command \in {NoCommand, caller[c].command}
         /\ Queued(c).pc \in {"idle", "working", "wait"}
         /\ Queued(c).pc = "wait" <=> caller[c].command.kind \notin {"register", "update"}
         /\ Queued(c).pc = "wait" => Queued(c).command = caller[c].command
         /\ Queued(c).pc = "idle" <=> caller[c].command.kind = "update"
         /\ Queued(c).pc # "wait" => Queued(c).command = NoCommand
BY Blank DEF Types, Queued, At, CallStages

LEMMA TypesKept ==
  ASSUME Types, [Next]_fvars
  PROVE  Types'
<1>0. /\ queue \subseteq Commands /\ events \in Nat
      /\ worker \in [Workers -> [pc : Stages, command : Commands]]
      /\ caller \in [Callers -> [pc : CallStages, command : Commands]]
  BY DEF Types
<1> USE DEF Types, CallStages, Stages
<1>1. ASSUME NEW r \in Reporters, Report(r) PROVE Types'
  <2>1. [pc |-> "queue", command |-> Command("update", r, events + 1)]
          \in [pc : CallStages, command : Commands]
    BY <1>0 DEF Command, Commands, Kinds, Callers
  <2> QED BY <1>0, <1>1, <2>1 DEF Report, Emit, Callers
<1>2. ASSUME NEW c \in Clients, Register(c) PROVE Types'
  <2>1. [pc |-> "queue", command |-> Command("register", c, events + 1)]
          \in [pc : CallStages, command : Commands]
    BY <1>0 DEF Command, Commands, Kinds, Callers
  <2> QED BY <1>0, <1>2, <2>1 DEF Register, Emit, Callers
<1>3. ASSUME NEW c \in Clients, Unregister(c) PROVE Types'
  <2>1. [pc |-> "queue", command |-> Command("unregister", c, events + 1)]
          \in [pc : CallStages, command : Commands]
    BY <1>0 DEF Command, Commands, Kinds, Callers
  <2> QED BY <1>0, <1>3, <2>1 DEF Unregister, Emit, Callers
<1>4. ASSUME Enable PROVE Types'
  <2>1. At("start") \in [pc : Stages, command : Commands] BY Blank
  <2>2. worker' \in [Workers -> [pc : Stages, command : Commands]]
    BY <1>0, <1>4, <2>1, Created DEF Enable
  <2> QED BY <1>0, <1>4, <2>2 DEF Enable
<1>5. ASSUME NEW c \in Callers, Queue(c) PROVE Types'
  BY <1>0, <1>5 DEF Queue
<1>6. ASSUME NEW c \in Callers, Look(c) PROVE Types'
  <2>1. Queued(c) \in [pc : CallStages, command : Commands] BY Following
  <2> QED BY <1>0, <1>6, <2>1 DEF Look
<1>7. ASSUME NEW c \in Callers, CreateWorker(c) PROVE Types'
  <2>1. At("start") \in [pc : Stages, command : Commands] BY Blank
  <2>2. worker' \in [Workers -> [pc : Stages, command : Commands]]
    BY <1>0, <1>7, <2>1, Created DEF CreateWorker
  <2>3. Queued(c) \in [pc : CallStages, command : Commands] BY Following
  <2> QED BY <1>0, <1>7, <2>2, <2>3 DEF CreateWorker
<1>8. ASSUME NEW c \in Clients, Wait(c) PROVE Types'
  BY <1>0, <1>8 DEF Wait, Callers
<1>9. ASSUME NEW c \in Clients, Check(c) PROVE Types'
  <2>1. At("idle") \in [pc : CallStages, command : Commands] BY Blank
  <2> QED BY <1>0, <1>9, <2>1 DEF Check, Callers
<1>10. ASSUME NEW w \in Workers, WorkerStarts(w) PROVE Types'
  BY <1>0, <1>10 DEF WorkerStarts
<1>11. ASSUME NEW w \in Workers, Take(w) PROVE Types'
  <2>1. PICK first \in queue :
          /\ queue' = queue \ {first}
          /\ worker' = [worker EXCEPT ![w] = [pc |-> "do", command |-> first]]
    BY <1>11, TakesOldest
  <2>2. UNCHANGED <<caller, events>> BY <1>11 DEF Take
  <2> QED BY <1>0, <2>1, <2>2
<1>12. ASSUME NEW w \in Workers, Do(w) PROVE Types'
  <2>1. At("loop") \in [pc : Stages, command : Commands] BY Blank
  <2> QED BY <1>0, <1>12, <2>1 DEF Do
<1>13. ASSUME NEW w \in Workers, Pause(w) PROVE Types'
  BY <1>0, <1>13 DEF Pause
<1>14. ASSUME NEW w \in Workers, LookAgain(w) PROVE Types'
  BY <1>0, <1>14 DEF LookAgain
<1>15. ASSUME NEW w \in Workers, Stop(w) PROVE Types'
  <2>1. At("none") \in [pc : Stages, command : Commands] BY Blank
  <2> QED BY <1>0, <1>15, <2>1 DEF Stop
<1>16. ASSUME UNCHANGED fvars PROVE Types'
  BY <1>0, <1>16 DEF fvars
<1> QED BY <1>1, <1>2, <1>3, <1>4, <1>5, <1>6, <1>7, <1>8, <1>9,
           <1>10, <1>11, <1>12, <1>13, <1>14, <1>15, <1>16 DEF Next, Call, Work, Callers

LEMMA NumberedKept ==
  ASSUME Types, Numbered, [Next]_fvars
  PROVE  Numbered'
<1>0. /\ queue \subseteq Commands /\ events \in Nat
      /\ worker \in [Workers -> [pc : Stages, command : Commands]]
      /\ caller \in [Callers -> [pc : CallStages, command : Commands]]
      /\ \A k \in queue : k.seq <= events
      /\ \A w \in Workers : worker[w].command.seq <= events
      /\ \A c \in Callers : caller[c].command.seq <= events
      /\ \A k \in Commands : k.seq \in Nat
  BY DEF Types, Numbered, Commands
<1>a. \A k \in Commands : k.seq <= events => k.seq <= events + 1 BY <1>0
<1> USE DEF Numbered
<1>1. ASSUME NEW r \in Reporters, Report(r) PROVE Numbered'
  <2>1. /\ events' = events + 1 /\ UNCHANGED <<queue, worker>>
        /\ caller' = [caller EXCEPT ![r] =
              [pc |-> "queue", command |-> Command("update", r, events + 1)]]
    BY <1>1 DEF Report, Emit
  <2>2. Command("update", r, events + 1).seq = events + 1 BY DEF Command
  <2>3. \A x \in Callers : caller'[x].command.seq <= events + 1
    BY <1>0, <1>a, <2>1, <2>2
  <2>4. \A x \in Workers : worker[x].command.seq <= events + 1 BY <1>0, <1>a
  <2> QED BY <1>0, <1>a, <2>1, <2>3, <2>4
<1>2. ASSUME NEW c \in Clients, Register(c) PROVE Numbered'
  <2>1. /\ events' = events + 1 /\ UNCHANGED <<queue, worker>>
        /\ caller' = [caller EXCEPT ![c] =
              [pc |-> "queue", command |-> Command("register", c, events + 1)]]
    BY <1>2 DEF Register, Emit
  <2>2. Command("register", c, events + 1).seq = events + 1 BY DEF Command
  <2>3. \A x \in Callers : caller'[x].command.seq <= events + 1
    BY <1>0, <1>a, <2>1, <2>2
  <2>4. \A x \in Workers : worker[x].command.seq <= events + 1 BY <1>0, <1>a
  <2> QED BY <1>0, <1>a, <2>1, <2>3, <2>4
<1>3. ASSUME NEW c \in Clients, Unregister(c) PROVE Numbered'
  <2>1. /\ events' = events + 1 /\ UNCHANGED <<queue, worker>>
        /\ caller' = [caller EXCEPT ![c] =
              [pc |-> "queue", command |-> Command("unregister", c, events + 1)]]
    BY <1>3 DEF Unregister, Emit
  <2>2. Command("unregister", c, events + 1).seq = events + 1 BY DEF Command
  <2>3. \A x \in Callers : caller'[x].command.seq <= events + 1
    BY <1>0, <1>a, <2>1, <2>2
  <2>4. \A x \in Workers : worker[x].command.seq <= events + 1 BY <1>0, <1>a
  <2> QED BY <1>0, <1>a, <2>1, <2>3, <2>4
<1>4. ASSUME Enable PROVE Numbered'
  <2>1. At("start").command.seq = 0 BY Blank
  <2>2. \A w \in Workers : worker'[w].command.seq <= events
    BY <1>0, <1>4, <2>1, Created DEF Enable
  <2> QED BY <1>0, <1>4, <2>2 DEF Enable
<1>5. ASSUME NEW c \in Callers, Queue(c) PROVE Numbered'
  BY <1>0, <1>5 DEF Queue
<1>6. ASSUME NEW c \in Callers, Look(c) PROVE Numbered'
  <2>1. Queued(c).command.seq <= events BY <1>0, Following, Blank
  <2> QED BY <1>0, <1>6, <2>1 DEF Look
<1>7. ASSUME NEW c \in Callers, CreateWorker(c) PROVE Numbered'
  <2>1. At("start").command.seq = 0 BY Blank
  <2>2. \A w \in Workers : worker'[w].command.seq <= events
    BY <1>0, <1>7, <2>1, Created DEF CreateWorker
  <2>3. Queued(c).command.seq <= events BY <1>0, Following, Blank
  <2> QED BY <1>0, <1>7, <2>2, <2>3 DEF CreateWorker
<1>8. ASSUME NEW c \in Clients, Wait(c) PROVE Numbered'
  BY <1>0, <1>8 DEF Wait, Callers
<1>9. ASSUME NEW c \in Clients, Check(c) PROVE Numbered'
  <2>1. At("idle").command.seq = 0 BY Blank
  <2> QED BY <1>0, <1>9, <2>1 DEF Check, Callers
<1>10. ASSUME NEW w \in Workers, WorkerStarts(w) PROVE Numbered'
  BY <1>0, <1>10 DEF WorkerStarts
<1>11. ASSUME NEW w \in Workers, Take(w) PROVE Numbered'
  <2>1. PICK first \in queue :
          /\ queue' = queue \ {first}
          /\ worker' = [worker EXCEPT ![w] = [pc |-> "do", command |-> first]]
    BY <1>11, TakesOldest
  <2>2. UNCHANGED <<caller, events>> BY <1>11 DEF Take
  <2> QED BY <1>0, <2>1, <2>2
<1>12. ASSUME NEW w \in Workers, Do(w) PROVE Numbered'
  <2>1. At("loop").command.seq = 0 BY Blank
  <2> QED BY <1>0, <1>12, <2>1 DEF Do
<1>13. ASSUME NEW w \in Workers, Pause(w) PROVE Numbered'
  BY <1>0, <1>13 DEF Pause
<1>14. ASSUME NEW w \in Workers, LookAgain(w) PROVE Numbered'
  BY <1>0, <1>14 DEF LookAgain
<1>15. ASSUME NEW w \in Workers, Stop(w) PROVE Numbered'
  <2>1. At("none").command.seq = 0 BY Blank
  <2> QED BY <1>0, <1>15, <2>1 DEF Stop
<1>16. ASSUME UNCHANGED fvars PROVE Numbered'
  BY <1>0, <1>16 DEF fvars
<1> QED BY <1>1, <1>2, <1>3, <1>4, <1>5, <1>6, <1>7, <1>8, <1>9,
           <1>10, <1>11, <1>12, <1>13, <1>14, <1>15, <1>16 DEF Next, Call, Work, Callers

LEMMA OwnKept ==
  ASSUME Types, NEW x \in Callers, Own(x), [Next]_fvars
  PROVE  Own(x)'
<1>0. caller \in [Callers -> [pc : CallStages, command : Commands]] /\ Own(x)
  BY DEF Types
<1> USE DEF Own
<1>1. ASSUME NEW r \in Reporters, Report(r) PROVE Own(x)'
  BY <1>0, <1>1 DEF Report, Emit, Command
<1>2. ASSUME NEW c \in Clients, Register(c) PROVE Own(x)'
  BY <1>0, <1>2 DEF Register, Emit, Command
<1>3. ASSUME NEW c \in Clients, Unregister(c) PROVE Own(x)'
  BY <1>0, <1>3 DEF Unregister, Emit, Command
<1>4. ASSUME Enable PROVE Own(x)'
  BY <1>0, <1>4 DEF Enable
<1>5. ASSUME NEW c \in Callers, Queue(c) PROVE Own(x)'
  BY <1>0, <1>5 DEF Queue
<1>6. ASSUME NEW c \in Callers, Look(c) PROVE Own(x)'
  <2>1. Queued(c).pc = "wait" => Queued(c).command = caller[c].command BY Following
  <2>2. Queued(c).pc \in {"idle", "working", "wait"} BY Following
  <2> QED BY <1>0, <1>6, <2>1, <2>2 DEF Look
<1>7. ASSUME NEW c \in Callers, CreateWorker(c) PROVE Own(x)'
  <2>1. Queued(c).pc = "wait" => Queued(c).command = caller[c].command BY Following
  <2>2. Queued(c).pc \in {"idle", "working", "wait"} BY Following
  <2> QED BY <1>0, <1>7, <2>1, <2>2 DEF CreateWorker
<1>8. ASSUME NEW c \in Clients, Wait(c) PROVE Own(x)'
  BY <1>0, <1>8 DEF Wait
<1>9. ASSUME NEW c \in Clients, Check(c) PROVE Own(x)'
  BY <1>0, <1>9, Blank DEF Check
<1>10. ASSUME NEW w \in Workers, WorkerStarts(w) PROVE Own(x)'
  BY <1>0, <1>10 DEF WorkerStarts
<1>11. ASSUME NEW w \in Workers, Take(w) PROVE Own(x)'
  BY <1>0, <1>11 DEF Take
<1>12. ASSUME NEW w \in Workers, Do(w) PROVE Own(x)'
  BY <1>0, <1>12 DEF Do
<1>13. ASSUME NEW w \in Workers, Pause(w) PROVE Own(x)'
  BY <1>0, <1>13 DEF Pause
<1>14. ASSUME NEW w \in Workers, LookAgain(w) PROVE Own(x)'
  BY <1>0, <1>14 DEF LookAgain
<1>15. ASSUME NEW w \in Workers, Stop(w) PROVE Own(x)'
  BY <1>0, <1>15 DEF Stop
<1>16. ASSUME UNCHANGED fvars PROVE Own(x)'
  BY <1>0, <1>16 DEF fvars
<1> QED BY <1>1, <1>2, <1>3, <1>4, <1>5, <1>6, <1>7, <1>8, <1>9,
           <1>10, <1>11, <1>12, <1>13, <1>14, <1>15, <1>16 DEF Next, Call, Work, Callers

LEMMA HandlerKept ==
  ASSUME FeedbackAssumption, Types, NEW x \in Clients, Handler(x), [Next]_fvars
  PROVE  Handler(x)'
<1>0. /\ caller \in [Callers -> [pc : CallStages, command : Commands]]
      /\ x \in Callers /\ x \notin Reporters /\ Handler(x)
  BY DEF Types, Callers, FeedbackAssumption
<1> USE DEF Handler
<1>1. ASSUME NEW r \in Reporters, Report(r) PROVE Handler(x)'
  BY <1>0, <1>1 DEF Report, Emit, Command
<1>2. ASSUME NEW c \in Clients, Register(c) PROVE Handler(x)'
  BY <1>0, <1>2 DEF Register, Emit, Command
<1>3. ASSUME NEW c \in Clients, Unregister(c) PROVE Handler(x)'
  BY <1>0, <1>3 DEF Unregister, Emit, Command
<1>4. ASSUME Enable PROVE Handler(x)'
  BY <1>0, <1>4 DEF Enable
<1>5. ASSUME NEW c \in Callers, Queue(c) PROVE Handler(x)'
  BY <1>0, <1>5 DEF Queue
<1>6. ASSUME NEW c \in Callers, Look(c) PROVE Handler(x)'
  <2>1. /\ Queued(c).pc = "wait" => Queued(c).command = caller[c].command
        /\ Queued(c).pc \in {"idle", "working", "wait"}
        /\ Queued(c).pc = "wait" <=> caller[c].command.kind \notin {"register", "update"}
        /\ Queued(c).pc = "idle" <=> caller[c].command.kind = "update"
    BY Following
  <2> QED BY <1>0, <1>6, <2>1 DEF Look
<1>7. ASSUME NEW c \in Callers, CreateWorker(c) PROVE Handler(x)'
  <2>1. /\ Queued(c).pc = "wait" => Queued(c).command = caller[c].command
        /\ Queued(c).pc \in {"idle", "working", "wait"}
        /\ Queued(c).pc = "wait" <=> caller[c].command.kind \notin {"register", "update"}
        /\ Queued(c).pc = "idle" <=> caller[c].command.kind = "update"
    BY Following
  <2> QED BY <1>0, <1>7, <2>1 DEF CreateWorker
<1>8. ASSUME NEW c \in Clients, Wait(c) PROVE Handler(x)'
  BY <1>0, <1>8 DEF Wait
<1>9. ASSUME NEW c \in Clients, Check(c) PROVE Handler(x)'
  BY <1>0, <1>9, Blank DEF Check
<1>10. ASSUME NEW w \in Workers, WorkerStarts(w) PROVE Handler(x)'
  BY <1>0, <1>10 DEF WorkerStarts
<1>11. ASSUME NEW w \in Workers, Take(w) PROVE Handler(x)'
  BY <1>0, <1>11 DEF Take
<1>12. ASSUME NEW w \in Workers, Do(w) PROVE Handler(x)'
  BY <1>0, <1>12 DEF Do
<1>13. ASSUME NEW w \in Workers, Pause(w) PROVE Handler(x)'
  BY <1>0, <1>13 DEF Pause
<1>14. ASSUME NEW w \in Workers, LookAgain(w) PROVE Handler(x)'
  BY <1>0, <1>14 DEF LookAgain
<1>15. ASSUME NEW w \in Workers, Stop(w) PROVE Handler(x)'
  BY <1>0, <1>15 DEF Stop
<1>16. ASSUME UNCHANGED fvars PROVE Handler(x)'
  BY <1>0, <1>16 DEF fvars
<1> QED BY <1>1, <1>2, <1>3, <1>4, <1>5, <1>6, <1>7, <1>8, <1>9,
           <1>10, <1>11, <1>12, <1>13, <1>14, <1>15, <1>16 DEF Next, Call, Work, Callers

-----------------------------------------------------------------------------
\* Drawing changes what a stream has seen, and nothing else of it.
LEMMA ScreenFiles ==
  ASSUME NEW ss, NEW l, \A s \in ss : s = [file |-> s.file, last |-> s.last],
         NEW t \in Screen(ss, l)
  PROVE  t = [file |-> t.file, last |-> t.last] /\ \E s \in ss : s.file = t.file
<1>1. PICK s \in ss : \E n : t = [s EXCEPT !.last = n]
  BY DEF Screen
<1>2. PICK n : t = [s EXCEPT !.last = n] BY <1>1
<1>3. t = [file |-> s.file, last |-> n] BY <1>2
<1> QED BY <1>3

LEMMA Drawn ==
  ASSUME Streams, NEW w \in Workers, Do(w) \/ Pause(w)
  PROVE  /\ Streams'
         /\ \A t \in streams' :
              \/ \E s \in streams : s.file = t.file
              \/ /\ worker[w].pc = "do" /\ worker[w].command.kind = "register"
                 /\ worker[w].command.of = t.file
<1> DEFINE new == [file |-> worker[w].command.of, last |-> worker[w].command.seq]
<1> DEFINE all == streams \cup {new}
<1>1. \A s \in all : s = [file |-> s.file, last |-> s.last] BY DEF Streams
<1>2. \A s \in streams : s = [file |-> s.file, last |-> s.last] BY DEF Streams
<1>3. CASE streams' \subseteq Screen(streams, log) \/ streams' = Screen(streams, log')
  <2>1. \A t \in streams' : t = [file |-> t.file, last |-> t.last] /\ \E s \in streams : s.file = t.file
    BY <1>2, <1>3, ScreenFiles
  <2> QED BY <2>1 DEF Streams
<1>4. CASE /\ streams' = Screen(all, log)
           /\ worker[w].pc = "do" /\ worker[w].command.kind = "register"
  <2> HIDE DEF all
  <2>1. \A t \in streams' : t = [file |-> t.file, last |-> t.last] /\ \E s \in all : s.file = t.file
    BY <1>1, <1>4, ScreenFiles
  <2>2. Streams' BY <2>1 DEF Streams
  <2>3. \A t \in streams' : (\E s \in streams : s.file = t.file) \/ worker[w].command.of = t.file
    BY <2>1 DEF all
  <2> QED BY <1>4, <2>2, <2>3
<1>5. CASE Pause(w) BY <1>3, <1>5 DEF Pause
<1>6. CASE Do(w)
  <2>1. CASE worker[w].command.kind = "update" BY <1>3, <1>6, <2>1 DEF Do
  <2>2. CASE worker[w].command.kind = "register"
    <3>1. streams' = Screen(all, log) /\ worker[w].pc = "do" BY <1>6, <2>2 DEF Do
    <3> QED BY <1>4, <2>2, <3>1
  <2>3. CASE worker[w].command.kind \notin {"update", "register"}
    <3>1. streams' = Without(Screen(streams, log), worker[w].command.of)
      BY <1>6, <2>3 DEF Do
    <3> QED BY <1>3, <3>1 DEF Without
  <2> QED BY <2>1, <2>2, <2>3
<1> QED BY <1>5, <1>6

LEMMA StreamsKept ==
  ASSUME Streams, [Next]_fvars
  PROVE  Streams'
<1>0. Streams OBVIOUS
<1> USE DEF Streams
<1>1. ASSUME NEW r \in Reporters, Report(r) PROVE Streams'
  BY <1>0, <1>1 DEF Report, Emit
<1>2. ASSUME NEW c \in Clients, Register(c) PROVE Streams'
  BY <1>0, <1>2 DEF Register, Emit
<1>3. ASSUME NEW c \in Clients, Unregister(c) PROVE Streams'
  BY <1>0, <1>3 DEF Unregister, Emit
<1>4. ASSUME Enable PROVE Streams'
  BY <1>0, <1>4 DEF Enable
<1>5. ASSUME NEW c \in Callers, Queue(c) PROVE Streams'
  BY <1>0, <1>5 DEF Queue
<1>6. ASSUME NEW c \in Callers, Look(c) PROVE Streams'
  BY <1>0, <1>6 DEF Look
<1>7. ASSUME NEW c \in Callers, CreateWorker(c) PROVE Streams'
  BY <1>0, <1>7 DEF CreateWorker
<1>8. ASSUME NEW c \in Clients, Wait(c) PROVE Streams'
  BY <1>0, <1>8 DEF Wait
<1>9. ASSUME NEW c \in Clients, Check(c) PROVE Streams'
  BY <1>0, <1>9 DEF Check
<1>10. ASSUME NEW w \in Workers, WorkerStarts(w) PROVE Streams'
  BY <1>0, <1>10 DEF WorkerStarts
<1>11. ASSUME NEW w \in Workers, Take(w) PROVE Streams'
  BY <1>0, <1>11 DEF Take
<1>12. ASSUME NEW w \in Workers, Do(w) PROVE Streams'
  BY <1>0, <1>12, Drawn
<1>13. ASSUME NEW w \in Workers, Pause(w) PROVE Streams'
  BY <1>0, <1>13, Drawn
<1>14. ASSUME NEW w \in Workers, LookAgain(w) PROVE Streams'
  BY <1>0, <1>14 DEF LookAgain
<1>15. ASSUME NEW w \in Workers, Stop(w) PROVE Streams'
  BY <1>0, <1>15 DEF Stop
<1>16. ASSUME UNCHANGED fvars PROVE Streams'
  BY <1>0, <1>16 DEF fvars
<1> QED BY <1>1, <1>2, <1>3, <1>4, <1>5, <1>6, <1>7, <1>8, <1>9,
           <1>10, <1>11, <1>12, <1>13, <1>14, <1>15, <1>16 DEF Next, Call, Work, Callers

\* A thread that is created while the flag tells the truth is the only one.
LEMMA OneWorkerKept ==
  ASSUME Types, calm => OneWorker, [Next]_fvars, calm'
  PROVE  calm /\ OneWorker'
<1> DEFINE Good == calm /\ OneWorker'
<1>0. calm => OneWorker OBVIOUS
<1>a. worker \in [Workers -> [pc : Stages, command : Commands]] BY DEF Types
<1>b. \A pc : At(pc).pc = pc BY Blank
<1> USE DEF OneWorker
<1>1. ASSUME NEW r \in Reporters, Report(r) PROVE Good
  BY <1>0, <1>1 DEF Report, Emit
<1>2. ASSUME NEW c \in Clients, Register(c) PROVE Good
  BY <1>0, <1>2 DEF Register, Emit
<1>3. ASSUME NEW c \in Clients, Unregister(c) PROVE Good
  BY <1>0, <1>3 DEF Unregister, Emit
<1>4. ASSUME Enable PROVE Good
  <2>1. calm /\ (\A w \in Workers : worker[w].pc = "none") /\ UNCHANGED running
    BY <1>4, Created DEF Enable
  <2>2. PICK w \in Workers : worker' = [worker EXCEPT ![w] = At("start")]
    BY <1>4, Created DEF Enable
  <2> QED BY <1>0, <1>a, <1>b, <2>1, <2>2
<1>5. ASSUME NEW c \in Callers, Queue(c) PROVE Good
  BY <1>0, <1>5 DEF Queue
<1>6. ASSUME NEW c \in Callers, Look(c) PROVE Good
  BY <1>0, <1>6 DEF Look
<1>7. ASSUME NEW c \in Callers, CreateWorker(c) PROVE Good
  <2>1. calm /\ (\A w \in Workers : worker[w].pc = "none")
    BY <1>7, Created DEF CreateWorker
  <2>2. PICK w \in Workers : worker' = [worker EXCEPT ![w] = At("start")]
    BY <1>7, Created DEF CreateWorker
  <2> QED BY <1>0, <1>a, <1>b, <2>1, <2>2
<1>8. ASSUME NEW c \in Clients, Wait(c) PROVE Good
  BY <1>0, <1>8 DEF Wait
<1>9. ASSUME NEW c \in Clients, Check(c) PROVE Good
  BY <1>0, <1>9 DEF Check
<1>10. ASSUME NEW w \in Workers, WorkerStarts(w) PROVE Good
  BY <1>0, <1>a, <1>b, <1>10 DEF WorkerStarts
<1>11. ASSUME NEW w \in Workers, Take(w) PROVE Good
  <2>1. PICK first \in queue :
          worker' = [worker EXCEPT ![w] = [pc |-> "do", command |-> first]]
    BY <1>11, TakesOldest
  <2>2. UNCHANGED <<running, calm>> /\ worker[w].pc = "loop" BY <1>11 DEF Take
  <2> QED BY <1>0, <1>a, <2>1, <2>2
<1>12. ASSUME NEW w \in Workers, Do(w) PROVE Good
  BY <1>0, <1>a, <1>b, <1>12 DEF Do
<1>13. ASSUME NEW w \in Workers, Pause(w) PROVE Good
  BY <1>0, <1>a, <1>b, <1>13 DEF Pause
<1>14. ASSUME NEW w \in Workers, LookAgain(w) PROVE Good
  BY <1>0, <1>a, <1>b, <1>14 DEF LookAgain
<1>15. ASSUME NEW w \in Workers, Stop(w) PROVE Good
  BY <1>0, <1>a, <1>b, <1>15 DEF Stop
<1>16. ASSUME UNCHANGED fvars PROVE Good
  BY <1>0, <1>16 DEF fvars
<1> QED BY <1>1, <1>2, <1>3, <1>4, <1>5, <1>6, <1>7, <1>8, <1>9,
           <1>10, <1>11, <1>12, <1>13, <1>14, <1>15, <1>16 DEF Next, Call, Work, Callers

-----------------------------------------------------------------------------
LEMMA AwaitsKept ==
  ASSUME NEW x, \A k \in queue' : k \in queue \/ k.of # x \/ k.kind # "register",
         \A w \in Workers : worker'[w].pc = "do" => worker'[w] = worker[w]
  PROVE  \A k : Awaits(x, k)' => Awaits(x, k)
BY DEF Awaits

\* A step that leaves the handler of x alone.
LEMMA HeldAside ==
  ASSUME NEW x, Held(x), caller'[x] = caller[x], x \in open' <=> x \in open,
         \A t \in streams' : t.file = x => \E s \in streams : s.file = x,
         \A k : Awaits(x, k)' => Awaits(x, k),
         caller[x].command \in queue => caller[x].command \in queue'
  PROVE  Held(x)'
BY DEF Held, Leaving

\* What a step that does not come from a worker or from x leaves alone.
LEMMA HeldQuiet ==
  ASSUME NEW x, Held(x), caller'[x] = caller[x], x \in open' <=> x \in open,
         UNCHANGED <<streams, queue>>,
         \A w \in Workers : worker'[w].pc = "do" => worker'[w] = worker[w]
  PROVE  Held(x)'
<1>1. \A k : Awaits(x, k)' => Awaits(x, k) BY AwaitsKept
<1> QED BY <1>1, HeldAside

\* The handler of x goes on to create a thread, or to what it does once its command is
\* queued.
LEMMA HeldOnward ==
  ASSUME Types, NEW x \in Callers, Held(x), UNCHANGED <<queue, streams, open>>,
         \A w \in Workers : worker'[w].pc = "do" => worker'[w] = worker[w],
         caller[x].pc \in {"look", "create"},
         \/ caller'[x].pc = "create" /\ caller'[x].command = caller[x].command
         \/ caller'[x] = Queued(x)
  PROVE  Held(x)'
<1>1. \A k : Awaits(x, k)' => Awaits(x, k) BY AwaitsKept
<1>2. caller'[x].pc # "check" BY Following
<1>3. caller'[x].command = caller[x].command \/ caller'[x].command = NoCommand
  BY Following
<1>4. NoCommand.kind = "none" BY Blank
<1> QED BY <1>1, <1>2, <1>3, <1>4 DEF Held, Leaving

LEMMA HeldKept ==
  ASSUME FeedbackAssumption, Types, Numbered, Streams, \A c \in Callers : Own(c),
         NEW x \in Clients, Handler(x), OneWorker, Held(x), Attended(x), [Next]_fvars
  PROVE  Held(x)'
<1>0. /\ caller \in [Callers -> [pc : CallStages, command : Commands]]
      /\ worker \in [Workers -> [pc : Stages, command : Commands]]
      /\ x \in Callers /\ x \notin Reporters /\ Held(x) /\ x # Console
  BY DEF Types, Callers, FeedbackAssumption
<1>a. \A w \in Workers : worker[w].pc = "do" => worker[w] = worker[w] OBVIOUS
<1>b. \A pc : At(pc).pc = pc /\ At(pc).command = NoCommand BY Blank
<1>1. ASSUME NEW r \in Reporters, Report(r) PROVE Held(x)'
  <2>1. caller'[x] = caller[x] /\ UNCHANGED <<streams, queue, worker, open>>
    BY <1>0, <1>1 DEF Report, Emit
  <2> QED BY <1>0, <2>1, HeldQuiet
<1>2. ASSUME NEW c \in Clients, Register(c) PROVE Held(x)'
  <2>1. UNCHANGED <<streams, queue, worker>> /\ open' = open \cup {c} BY <1>2 DEF Register
  <2>2. CASE c = x
    <3>1. x \in open' /\ caller'[x].pc = "queue" /\ caller'[x].command.kind = "register"
      BY <1>0, <1>2, <2>1, <2>2 DEF Register, Emit, Command
    <3> QED BY <3>1 DEF Held, Leaving
  <2>3. CASE c # x
    <3>1. caller'[x] = caller[x] BY <1>0, <1>2, <2>3 DEF Register, Emit
    <3> QED BY <1>0, <2>1, <2>3, <3>1, HeldQuiet
  <2> QED BY <2>2, <2>3
<1>3. ASSUME NEW c \in Clients, Unregister(c) PROVE Held(x)'
  <2>1. UNCHANGED <<streams, queue, worker, open>> BY <1>3 DEF Unregister
  <2>2. CASE c = x
    <3>1. /\ x \in open /\ caller'[x].pc = "queue" /\ caller'[x].command.seq = events + 1
      BY <1>0, <1>3, <2>2 DEF Unregister, Emit, Command, Handler
    <3>2. \A k : Awaits(x, k) => k.seq < events + 1
      <4>1. ASSUME NEW k, Awaits(x, k) PROVE k \in Commands /\ k.seq <= events
        BY <1>0, <4>1 DEF Awaits, Types, Numbered
      <4>2. events \in Nat /\ \A k \in Commands : k.seq \in Nat BY DEF Types, Commands
      <4> QED BY <4>1, <4>2
    <3>3. \A k : Awaits(x, k)' => Awaits(x, k) BY <2>1 DEF Awaits
    <3> QED BY <2>1, <3>1, <3>2, <3>3 DEF Held, Leaving
  <2>3. CASE c # x
    <3>1. caller'[x] = caller[x] BY <1>0, <1>3, <2>3 DEF Unregister, Emit
    <3> QED BY <1>0, <2>1, <3>1, HeldQuiet
  <2> QED BY <2>2, <2>3
<1>4. ASSUME Enable PROVE Held(x)'
  <2>1. /\ UNCHANGED <<queue, caller, open>>
        /\ streams' = streams \cup {[file |-> Console, last |-> 0]}
    BY <1>4 DEF Enable
  <2>2. PICK w \in Workers : worker' = [worker EXCEPT ![w] = At("start")]
    BY <1>4, Created DEF Enable
  <2>3. \A v \in Workers : worker'[v].pc = "do" => worker'[v] = worker[v]
    BY <1>0, <1>b, <2>2
  <2>4. \A k : Awaits(x, k)' => Awaits(x, k) BY <2>1, <2>3, AwaitsKept
  <2>5. \A t \in streams' : t.file = x => \E s \in streams : s.file = x BY <1>0, <2>1
  <2> QED BY <1>0, <2>1, <2>4, <2>5, HeldAside
<1>5. ASSUME NEW c \in Callers, Queue(c) PROVE Held(x)'
  <2> DEFINE K == caller[c].command
  <2>1. /\ queue' = queue \cup {K} /\ UNCHANGED <<worker, streams, open>>
        /\ caller[c].pc = "queue" /\ K.of = c
        /\ caller' = [caller EXCEPT ![c].pc = "look"]
    BY <1>0, <1>5 DEF Queue, Own
  <2>2. CASE c # x
    <3>1. \A k : Awaits(x, k)' => Awaits(x, k) BY <2>1, <2>2, AwaitsKept
    <3> QED BY <1>0, <2>1, <2>2, <3>1, HeldAside
  <2>3. CASE c = x
    <3>1. /\ caller'[x].pc = "look" /\ caller'[x].command = K /\ x \in open
          /\ K.kind \in {"register", "unregister"}
      BY <1>0, <2>1, <2>3 DEF Handler
    <3>2. CASE K.kind = "register" BY <2>1, <3>1, <3>2 DEF Held, Leaving
    <3>3. CASE K.kind = "unregister"
      <4>1. \A k : Awaits(x, k)' => Awaits(x, k) BY <2>1, <3>3, AwaitsKept
      <4>2. \A k : Awaits(x, k)' => k.seq < K.seq BY <1>0, <2>3, <3>3, <4>1 DEF Held
      <4> HIDE DEF K
      <4> QED BY <2>1, <3>1, <4>2 DEF Held, Leaving
    <3> QED BY <3>1, <3>2, <3>3
  <2> QED BY <2>2, <2>3
<1>6. ASSUME NEW c \in Callers, Look(c) PROVE Held(x)'
  <2>1. UNCHANGED <<queue, worker, streams, open>> /\ caller[c].pc = "look"
    BY <1>6 DEF Look
  <2>2. CASE c # x
    <3>1. caller'[x] = caller[x] BY <1>0, <1>6, <2>2 DEF Look
    <3> QED BY <1>0, <2>1, <3>1, HeldQuiet
  <2>3. CASE c = x
    <3>1. \/ caller'[x].pc = "create" /\ caller'[x].command = caller[x].command
          \/ caller'[x] = Queued(x)
      BY <1>0, <1>6, <2>3 DEF Look
    <3> QED BY <1>0, <2>1, <2>3, <3>1, HeldOnward
  <2> QED BY <2>2, <2>3
<1>7. ASSUME NEW c \in Callers, CreateWorker(c) PROVE Held(x)'
  <2>1. UNCHANGED <<queue, streams, open>> /\ caller[c].pc = "create"
    BY <1>7 DEF CreateWorker
  <2>2. PICK w \in Workers : worker' = [worker EXCEPT ![w] = At("start")]
    BY <1>7, Created DEF CreateWorker
  <2>3. \A v \in Workers : worker'[v].pc = "do" => worker'[v] = worker[v]
    BY <1>0, <1>b, <2>2
  <2>4. CASE c # x
    <3>1. caller'[x] = caller[x] BY <1>0, <1>7, <2>4 DEF CreateWorker
    <3> QED BY <1>0, <2>1, <2>3, <3>1, HeldQuiet
  <2>5. CASE c = x
    <3>1. caller'[x] = Queued(x) BY <1>0, <1>7, <2>5 DEF CreateWorker
    <3> QED BY <1>0, <2>1, <2>3, <2>5, <3>1, HeldOnward
  <2> QED BY <2>4, <2>5
<1>8. ASSUME NEW c \in Clients, Wait(c) PROVE Held(x)'
  <2>1. UNCHANGED <<queue, worker, streams, open>> BY <1>8 DEF Wait
  <2>2. CASE c # x
    <3>1. caller'[x] = caller[x] BY <1>0, <1>8, <2>2 DEF Wait
    <3> QED BY <1>0, <2>1, <3>1, HeldQuiet
  <2>3. CASE c = x
    <3>1. /\ caller[x].pc = "wait" /\ (queue = {} \/ ~running)
          /\ caller'[x].pc = "check" /\ caller'[x].command = caller[x].command
      BY <1>0, <1>8, <2>3 DEF Wait
    <3>2. \A k : ~Awaits(x, k)
      <4>1. Leaving(x) BY <3>1 DEF Leaving, Handler
      <4>2. ASSUME NEW k, Awaits(x, k) PROVE FALSE
        <5>1. caller[x].command \in queue BY <1>0, <4>1, <4>2 DEF Held
        <5>2. running BY <3>1, <5>1 DEF Attended
        <5> QED BY <3>1, <5>1, <5>2
      <4> QED BY <4>2
    <3>3. \A k : Awaits(x, k)' => Awaits(x, k) BY <2>1 DEF Awaits
    <3> QED BY <1>0, <2>1, <3>1, <3>2, <3>3 DEF Held, Leaving
  <2> QED BY <2>2, <2>3
<1>9. ASSUME NEW c \in Clients, Check(c) PROVE Held(x)'
  <2>1. UNCHANGED <<queue, worker, streams>> BY <1>9 DEF Check
  <2>2. CASE c # x
    <3>1. caller'[x] = caller[x] /\ (x \in open' <=> x \in open)
      BY <1>0, <1>9, <2>2 DEF Check
    <3> QED BY <1>0, <2>1, <3>1, HeldQuiet
  <2>3. CASE c = x
    <3>1. \A k : ~Awaits(x, k)' BY <1>0, <1>9, <2>1, <2>3 DEF Held, Check, Awaits
    <3>2. \/ caller'[x].pc = "queue" /\ open' = open
          \/ /\ caller'[x].pc = "idle" /\ \A s \in streams : s.file # x
      BY <1>0, <1>b, <1>9, <2>3 DEF Check
    <3> QED BY <1>0, <2>1, <3>1, <3>2 DEF Held, Leaving
  <2> QED BY <2>2, <2>3
<1>10. ASSUME NEW w \in Workers, WorkerStarts(w) PROVE Held(x)'
  <2>1. UNCHANGED <<queue, streams, caller, open>> BY <1>10 DEF WorkerStarts
  <2>2. \A v \in Workers : worker'[v].pc = "do" => worker'[v] = worker[v]
    BY <1>0, <1>b, <1>10 DEF WorkerStarts
  <2> QED BY <1>0, <2>1, <2>2, HeldQuiet
<1>11. ASSUME NEW w \in Workers, Take(w) PROVE Held(x)'
  <2>1. PICK first \in queue :
          /\ \A k \in queue : first.seq <= k.seq
          /\ queue' = queue \ {first}
          /\ worker' = [worker EXCEPT ![w] = [pc |-> "do", command |-> first]]
    BY <1>11, TakesOldest
  <2>2. UNCHANGED <<streams, caller, open>> /\ worker[w].pc = "loop" BY <1>11 DEF Take
  <2>3. \A k : Awaits(x, k)' => Awaits(x, k) BY <1>0, <2>1 DEF Awaits
  <2>4. Leaving(x) => \A k : Awaits(x, k)' => caller[x].command \in queue'
    <3> SUFFICES ASSUME Leaving(x), NEW k, Awaits(x, k)', caller[x].command \notin queue'
                 PROVE  FALSE
      OBVIOUS
    <3>1. Awaits(x, k) BY <2>3
    <3>2. caller[x].command = first BY <1>0, <2>1, <3>1 DEF Held
    <3>3. k.seq < first.seq BY <1>0, <3>1, <3>2 DEF Held, Leaving
    <3>4. k \in queue
      <4>1. k # first BY <3>2 DEF Leaving, Awaits
      <4>2. \A v \in Workers : worker'[v].pc = "do" => v = w \/ worker[v].pc = "do"
        BY <1>0, <2>1
      <4>3. \A v \in Workers : worker[v].pc # "do" BY <2>2 DEF OneWorker
      <4> QED BY <1>0, <2>1, <4>1, <4>2, <4>3 DEF Awaits
    <3>5. first \in Commands /\ k \in Commands BY <2>1, <3>4 DEF Types
    <3> QED BY <2>1, <3>3, <3>4, <3>5 DEF Commands
  <2> QED BY <1>0, <2>2, <2>3, <2>4 DEF Held, Leaving
<1>12. ASSUME NEW w \in Workers, Do(w) PROVE Held(x)'
  <2>1. UNCHANGED <<queue, caller, open>> /\ worker[w].pc = "do" BY <1>12 DEF Do
  <2>2. \A v \in Workers : worker'[v].pc = "do" => worker'[v] = worker[v]
    BY <1>0, <1>b, <1>12 DEF Do
  <2>3. \A k : Awaits(x, k)' => Awaits(x, k) BY <2>1, <2>2, AwaitsKept
  <2>4. \A t \in streams' :
          \/ \E s \in streams : s.file = t.file
          \/ worker[w].command.kind = "register" /\ worker[w].command.of = t.file
    BY <1>12, Drawn
  <2>5. x \notin open => \A t \in streams' : t.file # x
    <3> SUFFICES ASSUME x \notin open, NEW t \in streams', t.file = x PROVE FALSE OBVIOUS
    <3>1. ~(\E s \in streams : s.file = x) BY <1>0 DEF Held
    <3>2. worker[w].command.kind = "register" /\ worker[w].command.of = x BY <2>4, <3>1
    <3>3. Awaits(x, worker[w].command) BY <2>1, <3>2 DEF Awaits
    <3> QED BY <1>0, <3>3 DEF Held
  <2> QED BY <1>0, <2>1, <2>3, <2>5 DEF Held, Leaving
<1>13. ASSUME NEW w \in Workers, Pause(w) PROVE Held(x)'
  <2>1. UNCHANGED <<queue, caller, open>> /\ worker[w].pc = "loop" BY <1>13 DEF Pause
  <2>2. \A v \in Workers : worker'[v].pc = "do" => worker'[v] = worker[v]
    BY <1>0, <1>13 DEF Pause
  <2>3. \A k : Awaits(x, k)' => Awaits(x, k) BY <2>1, <2>2, AwaitsKept
  <2>4. \A t \in streams' : \E s \in streams : s.file = t.file BY <1>13, <2>1, Drawn
  <2> QED BY <1>0, <2>1, <2>3, <2>4, HeldAside
<1>14. ASSUME NEW w \in Workers, LookAgain(w) PROVE Held(x)'
  <2>1. UNCHANGED <<queue, streams, caller, open>> BY <1>14 DEF LookAgain
  <2>2. \A v \in Workers : worker'[v].pc = "do" => worker'[v] = worker[v]
    BY <1>0, <1>b, <1>14 DEF LookAgain
  <2> QED BY <1>0, <2>1, <2>2, HeldQuiet
<1>15. ASSUME NEW w \in Workers, Stop(w) PROVE Held(x)'
  <2>1. UNCHANGED <<queue, streams, caller, open>> BY <1>15 DEF Stop
  <2>2. \A v \in Workers : worker'[v].pc = "do" => worker'[v] = worker[v]
    BY <1>0, <1>b, <1>15 DEF Stop
  <2> QED BY <1>0, <2>1, <2>2, HeldQuiet
<1>16. ASSUME UNCHANGED fvars PROVE Held(x)'
  <2>1. UNCHANGED <<queue, streams, worker, caller, open>> BY <1>16 DEF fvars
  <2> QED BY <1>0, <2>1, HeldQuiet
<1> QED BY <1>1, <1>2, <1>3, <1>4, <1>5, <1>6, <1>7, <1>8, <1>9,
           <1>10, <1>11, <1>12, <1>13, <1>14, <1>15, <1>16 DEF Next, Call, Work, Callers

\* A step that keeps the flag and the thread in what it says.
LEMMA AttendedKept ==
  ASSUME FeedbackAssumption, Types, \A c \in Callers : Own(c), NEW x \in Clients, Handler(x),
         OneWorker, Attended(x), [Next]_fvars, calm'
  PROVE  Attended(x)'
<1> DEFINE At4 == {"start", "loop", "do", "pause"}
<1> DEFINE Busy == running /\ \E w \in Workers : worker[w].pc \in At4
<1>0. /\ caller \in [Callers -> [pc : CallStages, command : Commands]]
      /\ worker \in [Workers -> [pc : Stages, command : Commands]]
      /\ x \in Callers /\ x \notin Reporters /\ Attended(x)
  BY DEF Types, Callers, FeedbackAssumption
<1>b. \A pc : At(pc).pc = pc BY Blank
<1>c. \A c \in Callers : c # x /\ caller[c].pc = "queue" /\ caller[x].pc = "wait" =>
        caller[c].command # caller[x].command
  BY <1>0 DEF Own
<1> USE DEF Attended
<1>1. ASSUME NEW r \in Reporters, Report(r) PROVE Attended(x)'
  BY <1>0, <1>1 DEF Report, Emit
<1>2. ASSUME NEW c \in Clients, Register(c) PROVE Attended(x)'
  BY <1>0, <1>2 DEF Register, Emit
<1>3. ASSUME NEW c \in Clients, Unregister(c) PROVE Attended(x)'
  BY <1>0, <1>3 DEF Unregister, Emit
<1>4. ASSUME Enable PROVE Attended(x)'
  <2>1. UNCHANGED <<queue, running, caller>> BY <1>4 DEF Enable
  <2>2. PICK w \in Workers : worker[w].pc = "none" /\ worker' = [worker EXCEPT ![w] = At("start")]
    BY <1>4, Created DEF Enable
  <2> QED BY <1>0, <1>b, <2>1, <2>2
<1>5. ASSUME NEW c \in Callers, Queue(c) PROVE Attended(x)'
  <2>1. /\ queue' = queue \cup {caller[c].command} /\ UNCHANGED <<worker, running>>
        /\ caller[c].pc = "queue" /\ caller' = [caller EXCEPT ![c].pc = "look"]
    BY <1>5 DEF Queue
  <2> QED BY <1>0, <1>c, <2>1
<1>6. ASSUME NEW c \in Callers, Look(c) PROVE Attended(x)'
  <2>1. UNCHANGED <<queue, worker, running>> /\ caller[c].pc = "look" BY <1>6 DEF Look
  <2>2. CASE c # x BY <1>0, <1>6, <2>1, <2>2 DEF Look
  <2>3. CASE c = x /\ ~running BY <1>0, <1>6, <2>3 DEF Look
  <2>4. CASE running
    <3>1. PICK w \in Workers : worker[w].pc # "none" BY <2>4 DEF OneWorker
    <3>2. worker[w].pc # "stop" BY <1>6, <2>4 DEF Look
    <3>3. worker[w].pc \in At4 BY <1>0, <3>1, <3>2 DEF Stages
    <3> QED BY <2>1, <2>4, <3>3
  <2> QED BY <2>2, <2>3, <2>4
<1>7. ASSUME NEW c \in Callers, CreateWorker(c) PROVE Attended(x)'
  <2>1. PICK w \in Workers : worker' = [worker EXCEPT ![w] = At("start")]
    BY <1>7, Created DEF CreateWorker
  <2>2. running' BY <1>7 DEF CreateWorker
  <2>3. worker'[w].pc = "start" BY <1>0, <1>b, <2>1
  <2> QED BY <2>2, <2>3
<1>8. ASSUME NEW c \in Clients, Wait(c) PROVE Attended(x)'
  BY <1>0, <1>8 DEF Wait, Callers
<1>9. ASSUME NEW c \in Clients, Check(c) PROVE Attended(x)'
  BY <1>0, <1>b, <1>9 DEF Check, Callers
<1>10. ASSUME NEW w \in Workers, WorkerStarts(w) PROVE Attended(x)'
  <2>1. UNCHANGED <<queue, caller>> /\ (running => running') BY <1>10 DEF WorkerStarts
  <2>2. worker'[w].pc = "loop" BY <1>0, <1>b, <1>10 DEF WorkerStarts
  <2> QED BY <1>0, <2>1, <2>2
<1>11. ASSUME NEW w \in Workers, Take(w) PROVE Attended(x)'
  <2>1. PICK first \in queue :
          /\ queue' = queue \ {first}
          /\ worker' = [worker EXCEPT ![w] = [pc |-> "do", command |-> first]]
    BY <1>11, TakesOldest
  <2>2. UNCHANGED <<caller, running>> BY <1>11 DEF Take
  <2>3. worker'[w].pc = "do" BY <1>0, <2>1
  <2> QED BY <1>0, <2>1, <2>2, <2>3
<1>12. ASSUME NEW w \in Workers, Do(w) PROVE Attended(x)'
  <2>1. UNCHANGED <<queue, caller>> /\ (running => running') BY <1>12 DEF Do
  <2>2. worker'[w].pc = "loop" BY <1>0, <1>b, <1>12 DEF Do
  <2> QED BY <1>0, <2>1, <2>2
<1>13. ASSUME NEW w \in Workers, Pause(w) PROVE Attended(x)'
  BY <1>13 DEF Pause
<1>14. ASSUME NEW w \in Workers, LookAgain(w) PROVE Attended(x)'
  <2>1. UNCHANGED <<queue, caller, running>> BY <1>14 DEF LookAgain
  <2>2. queue # {} => worker'[w].pc = "loop" BY <1>0, <1>14 DEF LookAgain
  <2> QED BY <1>0, <2>1, <2>2
<1>15. ASSUME NEW w \in Workers, Stop(w) PROVE Attended(x)'
  <2>1. UNCHANGED <<queue, caller>> /\ worker[w].pc = "stop" BY <1>15 DEF Stop
  <2>2. \A v \in Workers : worker[v].pc \notin At4 BY <2>1 DEF OneWorker
  <2> QED BY <1>0, <2>1, <2>2
<1>16. ASSUME UNCHANGED fvars PROVE Attended(x)'
  BY <1>0, <1>16 DEF fvars
<1> QED BY <1>1, <1>2, <1>3, <1>4, <1>5, <1>6, <1>7, <1>8, <1>9,
           <1>10, <1>11, <1>12, <1>13, <1>14, <1>15, <1>16 DEF Next, Call, Work, Callers

-----------------------------------------------------------------------------
LEMMA GenuinesKept ==
  ASSUME FeedbackAssumption, Types, \A c \in Clients : Handler(c), Genuines, [Next]_fvars
  PROVE  Genuines'
<1>0. /\ caller \in [Callers -> [pc : CallStages, command : Commands]]
      /\ worker \in [Workers -> [pc : Stages, command : Commands]]
      /\ queue \subseteq Commands /\ events \in Nat
      /\ \A k \in queue : k.kind # "none" /\ Genuine(k)
      /\ \A w \in Workers : Genuine(worker[w].command)
      /\ \A c \in Callers :
           /\ Genuine(caller[c].command)
           /\ caller[c].pc = "queue" => caller[c].command.kind # "none"
  BY DEF Types, Genuines
<1>b. Genuine(NoCommand) /\ \A pc : At(pc).pc = pc /\ At(pc).command = NoCommand
  BY Blank DEF Genuine
<1>c. \A pc : Genuine(At(pc).command) BY <1>b
<1> HIDE DEF Genuine
<1> USE DEF Genuines
<1>1. ASSUME NEW r \in Reporters, Report(r) PROVE Genuines'
  <2> DEFINE K == Command("update", r, events + 1)
  <2>1. /\ UNCHANGED <<queue, worker>>
        /\ caller' = [caller EXCEPT ![r] = [pc |-> "queue", command |-> K]]
    BY <1>1 DEF Report, Emit
  <2>2. K.kind # "none" /\ Genuine(K) BY <1>0 DEF Genuine, Command, Callers
  <2> HIDE DEF K
  <2> QED BY <1>0, <2>1, <2>2
<1>2. ASSUME NEW c \in Clients, Register(c) PROVE Genuines'
  <2> DEFINE K == Command("register", c, events + 1)
  <2>1. /\ UNCHANGED <<queue, worker>>
        /\ caller' = [caller EXCEPT ![c] = [pc |-> "queue", command |-> K]]
    BY <1>2 DEF Register, Emit
  <2>2. K.kind # "none" /\ Genuine(K) BY <1>0 DEF Genuine, Command, Callers
  <2> HIDE DEF K
  <2> QED BY <1>0, <2>1, <2>2
<1>3. ASSUME NEW c \in Clients, Unregister(c) PROVE Genuines'
  <2> DEFINE K == Command("unregister", c, events + 1)
  <2>1. /\ UNCHANGED <<queue, worker>>
        /\ caller' = [caller EXCEPT ![c] = [pc |-> "queue", command |-> K]]
    BY <1>3 DEF Unregister, Emit
  <2>2. K.kind # "none" /\ Genuine(K) BY <1>0 DEF Genuine, Command, Callers
  <2> HIDE DEF K
  <2> QED BY <1>0, <2>1, <2>2
<1>4. ASSUME Enable PROVE Genuines'
  <2>1. PICK w \in Workers : worker' = [worker EXCEPT ![w] = At("start")]
    BY <1>4, Created DEF Enable
  <2>2. \A v \in Workers : Genuine(worker'[v].command) BY <1>0, <1>c, <2>1
  <2>3. UNCHANGED <<queue, caller>> BY <1>4 DEF Enable
  <2> QED BY <1>0, <2>2, <2>3
<1>5. ASSUME NEW c \in Callers, Queue(c) PROVE Genuines'
  <2>1. /\ queue' = queue \cup {caller[c].command} /\ UNCHANGED worker
        /\ caller[c].pc = "queue" /\ caller' = [caller EXCEPT ![c].pc = "look"]
    BY <1>5 DEF Queue
  <2> QED BY <1>0, <2>1
<1>6. ASSUME NEW c \in Callers, Look(c) PROVE Genuines'
  <2>1. /\ Genuine(Queued(c).command) /\ Queued(c).pc # "queue"
    BY <1>0, <1>b, Following
  <2>2. UNCHANGED <<queue, worker>> BY <1>6 DEF Look
  <2>3. \/ caller' = [caller EXCEPT ![c] = Queued(c)]
        \/ caller' = [caller EXCEPT ![c] = [@ EXCEPT !.pc = "create"]]
    BY <1>6 DEF Look
  <2> QED BY <1>0, <2>1, <2>2, <2>3
<1>7. ASSUME NEW c \in Callers, CreateWorker(c) PROVE Genuines'
  <2>1. PICK w \in Workers : worker' = [worker EXCEPT ![w] = At("start")]
    BY <1>7, Created DEF CreateWorker
  <2>2. \A v \in Workers : Genuine(worker'[v].command) BY <1>0, <1>c, <2>1
  <2>3. /\ Genuine(Queued(c).command) /\ Queued(c).pc # "queue"
    BY <1>0, <1>b, Following
  <2>4. UNCHANGED queue /\ caller' = [caller EXCEPT ![c] = Queued(c)]
    BY <1>7 DEF CreateWorker
  <2> QED BY <1>0, <2>2, <2>3, <2>4
<1>8. ASSUME NEW c \in Clients, Wait(c) PROVE Genuines'
  <2>1. UNCHANGED <<queue, worker>> /\ caller' = [caller EXCEPT ![c].pc = "check"]
    BY <1>8 DEF Wait
  <2> QED BY <1>0, <2>1
<1>9. ASSUME NEW c \in Clients, Check(c) PROVE Genuines'
  <2>1. UNCHANGED <<queue, worker>> BY <1>9 DEF Check
  <2>2. caller' = [caller EXCEPT ![c].pc = "queue"] \/ caller' = [caller EXCEPT ![c] = At("idle")]
    BY <1>9 DEF Check
  <2>3. c \in Callers /\ caller[c].command.kind # "none" BY <1>9 DEF Check, Handler, Callers
  <2> QED BY <1>0, <1>b, <2>1, <2>2, <2>3
<1>10. ASSUME NEW w \in Workers, WorkerStarts(w) PROVE Genuines'
  BY <1>0, <1>10 DEF WorkerStarts
<1>11. ASSUME NEW w \in Workers, Take(w) PROVE Genuines'
  <2>1. PICK first \in queue :
          /\ queue' = queue \ {first}
          /\ worker' = [worker EXCEPT ![w] = [pc |-> "do", command |-> first]]
    BY <1>11, TakesOldest
  <2>2. UNCHANGED caller BY <1>11 DEF Take
  <2> QED BY <1>0, <2>1, <2>2
<1>12. ASSUME NEW w \in Workers, Do(w) PROVE Genuines'
  <2>1. UNCHANGED <<queue, caller>> BY <1>12 DEF Do
  <2>2. \A v \in Workers : Genuine(worker'[v].command) BY <1>0, <1>c, <1>12 DEF Do
  <2> QED BY <1>0, <2>1, <2>2
<1>13. ASSUME NEW w \in Workers, Pause(w) PROVE Genuines'
  BY <1>0, <1>13 DEF Pause
<1>14. ASSUME NEW w \in Workers, LookAgain(w) PROVE Genuines'
  BY <1>0, <1>14 DEF LookAgain
<1>15. ASSUME NEW w \in Workers, Stop(w) PROVE Genuines'
  <2>1. UNCHANGED <<queue, caller>> BY <1>15 DEF Stop
  <2>2. \A v \in Workers : Genuine(worker'[v].command) BY <1>0, <1>c, <1>15 DEF Stop
  <2> QED BY <1>0, <2>1, <2>2
<1>16. ASSUME UNCHANGED fvars PROVE Genuines'
  BY <1>0, <1>16 DEF fvars
<1> QED BY <1>1, <1>2, <1>3, <1>4, <1>5, <1>6, <1>7, <1>8, <1>9,
           <1>10, <1>11, <1>12, <1>13, <1>14, <1>15, <1>16 DEF Next, Call, Work, Callers

LEMMA FilesKept ==
  ASSUME FeedbackAssumption, Types, Streams, Genuines, Files, [Next]_fvars
  PROVE  Files'
<1>0. /\ \A s \in streams : s.file \in Clients \cup {Console}
      /\ events \in 0..MaxEvents /\ open \subseteq Clients /\ MaxEvents \in Nat
  BY DEF Files, FeedbackAssumption
<1> USE DEF Files
<1>1. ASSUME NEW r \in Reporters, Report(r) PROVE Files'
  BY <1>0, <1>1 DEF Report, Emit
<1>2. ASSUME NEW c \in Clients, Register(c) PROVE Files'
  BY <1>0, <1>2 DEF Register, Emit
<1>3. ASSUME NEW c \in Clients, Unregister(c) PROVE Files'
  BY <1>0, <1>3 DEF Unregister, Emit
<1>4. ASSUME Enable PROVE Files'
  BY <1>0, <1>4 DEF Enable
<1>5. ASSUME NEW c \in Callers, Queue(c) PROVE Files'
  BY <1>0, <1>5 DEF Queue
<1>6. ASSUME NEW c \in Callers, Look(c) PROVE Files'
  BY <1>0, <1>6 DEF Look
<1>7. ASSUME NEW c \in Callers, CreateWorker(c) PROVE Files'
  BY <1>0, <1>7 DEF CreateWorker
<1>8. ASSUME NEW c \in Clients, Wait(c) PROVE Files'
  BY <1>0, <1>8 DEF Wait
<1>9. ASSUME NEW c \in Clients, Check(c) PROVE Files'
  BY <1>0, <1>9 DEF Check
<1>10. ASSUME NEW w \in Workers, WorkerStarts(w) PROVE Files'
  BY <1>0, <1>10 DEF WorkerStarts
<1>11. ASSUME NEW w \in Workers, Take(w) PROVE Files'
  BY <1>0, <1>11 DEF Take
<1>12. ASSUME NEW w \in Workers, Do(w) PROVE Files'
  <2>1. UNCHANGED <<events, open>> BY <1>12 DEF Do
  <2>2. Genuine(worker[w].command) BY DEF Genuines
  <2>3. \A s \in streams' : s.file \in Clients \cup {Console}
    BY <1>0, <1>12, <2>2, Drawn DEF Genuine
  <2> QED BY <1>0, <2>1, <2>3
<1>13. ASSUME NEW w \in Workers, Pause(w) PROVE Files'
  <2>1. UNCHANGED <<events, open>> /\ worker[w].pc # "do" BY <1>13 DEF Pause
  <2>2. \A s \in streams' : s.file \in Clients \cup {Console} BY <1>0, <1>13, <2>1, Drawn
  <2> QED BY <1>0, <2>1, <2>2
<1>14. ASSUME NEW w \in Workers, LookAgain(w) PROVE Files'
  BY <1>0, <1>14 DEF LookAgain
<1>15. ASSUME NEW w \in Workers, Stop(w) PROVE Files'
  BY <1>0, <1>15 DEF Stop
<1>16. ASSUME UNCHANGED fvars PROVE Files'
  BY <1>0, <1>16 DEF fvars
<1> QED BY <1>1, <1>2, <1>3, <1>4, <1>5, <1>6, <1>7, <1>8, <1>9,
           <1>10, <1>11, <1>12, <1>13, <1>14, <1>15, <1>16 DEF Next, Call, Work, Callers

LEMMA FlagsKept ==
  ASSUME Flags, [Next]_fvars
  PROVE  Flags'
<1>0. running \in BOOLEAN /\ calm \in BOOLEAN BY Zenon DEF Flags
<1> USE DEF Flags
<1>1. ASSUME NEW r \in Reporters, Report(r) PROVE Flags'
  <2>1. UNCHANGED <<running, calm>> BY <1>1 DEF Report
  <2> QED BY <1>0, <2>1, Zenon
<1>2. ASSUME NEW c \in Clients, Register(c) PROVE Flags'
  <2>1. UNCHANGED <<running, calm>> BY <1>2 DEF Register
  <2> QED BY <1>0, <2>1, Zenon
<1>3. ASSUME NEW c \in Clients, Unregister(c) PROVE Flags'
  <2>1. UNCHANGED <<running, calm>> BY <1>3 DEF Unregister
  <2> QED BY <1>0, <2>1, Zenon
<1>4. ASSUME Enable PROVE Flags'
  <2>1. UNCHANGED running BY <1>4 DEF Enable
  <2>2. calm' \in BOOLEAN BY <1>4, Zenon DEF Enable, Create
  <2> QED BY <1>0, <2>1, <2>2, Zenon
<1>5. ASSUME NEW c \in Callers, Queue(c) PROVE Flags'
  <2>1. UNCHANGED <<running, calm>> BY <1>5 DEF Queue
  <2> QED BY <1>0, <2>1, Zenon
<1>6. ASSUME NEW c \in Callers, Look(c) PROVE Flags'
  <2>1. UNCHANGED running BY <1>6 DEF Look
  <2>2. calm' \in BOOLEAN BY <1>6, Zenon DEF Look
  <2> QED BY <1>0, <2>1, <2>2, Zenon
<1>7. ASSUME NEW c \in Callers, CreateWorker(c) PROVE Flags'
  <2>1. running' \in BOOLEAN BY <1>7, Zenon DEF CreateWorker
  <2>2. calm' \in BOOLEAN BY <1>7, Zenon DEF CreateWorker, Create
  <2> QED BY <2>1, <2>2, Zenon
<1>8. ASSUME NEW c \in Clients, Wait(c) PROVE Flags'
  <2>1. UNCHANGED <<running, calm>> BY <1>8 DEF Wait
  <2> QED BY <1>0, <2>1, Zenon
<1>9. ASSUME NEW c \in Clients, Check(c) PROVE Flags'
  <2>1. UNCHANGED <<running, calm>> BY <1>9 DEF Check
  <2> QED BY <1>0, <2>1, Zenon
<1>10. ASSUME NEW w \in Workers, WorkerStarts(w) PROVE Flags'
  <2>1. UNCHANGED calm BY <1>10 DEF WorkerStarts
  <2>2. running' \in BOOLEAN BY <1>10, Zenon DEF WorkerStarts
  <2> QED BY <1>0, <2>1, <2>2, Zenon
<1>11. ASSUME NEW w \in Workers, Take(w) PROVE Flags'
  <2>1. UNCHANGED <<running, calm>> BY <1>11 DEF Take
  <2> QED BY <1>0, <2>1, Zenon
<1>12. ASSUME NEW w \in Workers, Do(w) PROVE Flags'
  <2>1. UNCHANGED <<running, calm>> BY <1>12 DEF Do
  <2> QED BY <1>0, <2>1, Zenon
<1>13. ASSUME NEW w \in Workers, Pause(w) PROVE Flags'
  <2>1. UNCHANGED <<running, calm>> BY <1>13 DEF Pause
  <2> QED BY <1>0, <2>1, Zenon
<1>14. ASSUME NEW w \in Workers, LookAgain(w) PROVE Flags'
  <2>1. UNCHANGED <<running, calm>> BY <1>14 DEF LookAgain
  <2> QED BY <1>0, <2>1, Zenon
<1>15. ASSUME NEW w \in Workers, Stop(w) PROVE Flags'
  <2>1. UNCHANGED calm BY <1>15 DEF Stop
  <2>2. running' \in BOOLEAN BY <1>15, Zenon DEF Stop
  <2> QED BY <1>0, <2>1, <2>2, Zenon
<1>16. ASSUME UNCHANGED fvars PROVE Flags'
  <2>1. UNCHANGED <<running, calm>> BY <1>16 DEF fvars
  <2> QED BY <1>0, <2>1, Zenon
<1> QED BY <1>1, <1>2, <1>3, <1>4, <1>5, <1>6, <1>7, <1>8, <1>9,
           <1>10, <1>11, <1>12, <1>13, <1>14, <1>15, <1>16 DEF Next, Call, Work, Callers

-----------------------------------------------------------------------------
LEMMA FeedbackStart ==
  ASSUME FeedbackAssumption, Start
  PROVE  FeedbackInv
<1>1. Types
  <2>1. At("none") \in [pc : Stages, command : Commands] BY Blank DEF Stages
  <2>2. At("idle") \in [pc : CallStages, command : Commands] BY Blank DEF CallStages
  <2> QED BY <2>1, <2>2 DEF Start, Types
<1>2. \A c \in Callers : caller[c].pc = "idle" /\ caller[c].command = NoCommand
  BY Blank DEF Start
<1>3. \A w \in Workers : worker[w].pc = "none" /\ worker[w].command = NoCommand
  BY Blank DEF Start
<1>4. Numbered BY <1>2, <1>3, Blank DEF Start, Numbered
<1>5. Streams BY DEF Start, Streams
<1>6. \A c \in Callers : Own(c) BY <1>2 DEF Own
<1>7. ASSUME NEW c \in Clients PROVE Handler(c) /\ Held(c) /\ Attended(c)
  <2>1. caller[c].pc = "idle" /\ caller[c].command.kind = "none" /\ c \notin open
    BY <1>2, Blank DEF Start, Callers
  <2>2. \A k : ~Awaits(c, k) BY <1>3 DEF Start, Awaits
  <2> QED BY <2>1, <2>2 DEF Handler, Held, Leaving, Attended, Start
<1>8. OneWorker BY <1>3 DEF Start, OneWorker
<1>9. Genuines BY <1>2, <1>3, Blank DEF Start, Genuines, Genuine
<1>10. Files BY DEF Start, Files, FeedbackAssumption
<1>11. running = FALSE /\ calm = TRUE BY DEF Start
<1>12. Flags BY <1>11, Zenon DEF Flags
<1> QED BY <1>1, <1>4, <1>5, <1>6, <1>7, <1>8, <1>9, <1>10, <1>12 DEF FeedbackInv

LEMMA FeedbackStep ==
  ASSUME FeedbackAssumption, FeedbackInv, [Next]_fvars
  PROVE  FeedbackInv'
<1>0. /\ Types /\ Numbered /\ Streams /\ \A c \in Callers : Own(c)
      /\ \A c \in Clients : Handler(c)
      /\ calm => OneWorker /\ \A c \in Clients : Held(c) /\ Attended(c)
      /\ Genuines /\ Files /\ Flags
  BY DEF FeedbackInv
<1>1. Types' /\ Numbered' /\ Streams' BY <1>0, TypesKept, NumberedKept, StreamsKept
<1>2. \A c \in Callers : Own(c)' BY <1>0, OwnKept
<1>3. \A c \in Clients : Handler(c)' BY <1>0, HandlerKept
<1>4. ASSUME calm' PROVE OneWorker' /\ \A c \in Clients : Held(c)' /\ Attended(c)'
  <2>1. calm /\ OneWorker' BY <1>0, <1>4, OneWorkerKept
  <2>2. ASSUME NEW c \in Clients PROVE Held(c)' /\ Attended(c)'
    <3>1. Handler(c) /\ OneWorker /\ Held(c) /\ Attended(c) BY <1>0, <2>1
    <3> QED BY <1>0, <1>4, <3>1, HeldKept, AttendedKept
  <2> QED BY <2>1, <2>2
<1>5. Genuines' /\ Files' /\ Flags' BY <1>0, GenuinesKept, FilesKept, FlagsKept
<1> QED BY <1>1, <1>2, <1>3, <1>4, <1>5 DEF FeedbackInv

\* The invariant: as long as the flag of the worker thread tells the truth, a handler that
\* unregisters a stream leaves no registration of it behind.
THEOREM FeedbackAlways == FeedbackAssumption /\ Spec => []FeedbackInv
<1> SUFFICES ASSUME FeedbackAssumption PROVE Spec => []FeedbackInv OBVIOUS
<1>1. Start => FeedbackInv BY FeedbackStart
<1>2. FeedbackInv /\ [Next]_fvars => FeedbackInv' BY FeedbackStep
<1> QED BY <1>1, <1>2, PTL DEF Spec

\* No stream is drawn to whose file has been closed, whoever comes and goes and however
\* often the worker thread ends and is started again.
THEOREM StreamsStayOpen == FeedbackAssumption /\ Spec => []StreamsOpen
<1>1. FeedbackInv => StreamsOpen BY DEF FeedbackInv, Files, Held, StreamsOpen
<1> QED BY <1>1, FeedbackAlways, PTL

\* Every variable keeps to its kind; commands have the number of an event.
THEOREM FeedbackTypes == FeedbackAssumption /\ Spec => []TypeOK
<1>1. FeedbackInv => TypeOK
  <2> SUFFICES ASSUME FeedbackInv PROVE TypeOK OBVIOUS
  <2>1. /\ events \in 0..MaxEvents /\ open \subseteq Clients
        /\ \A s \in streams : s.file \in Clients \cup {Console}
    BY DEF FeedbackInv, Files
  <2>2. \A k \in queue : k.of \in Callers /\ k.seq \in 1..events
    BY DEF FeedbackInv, Genuines, Genuine, Types, Commands, Numbered
  <2>3. running \in BOOLEAN /\ calm \in BOOLEAN BY Zenon DEF FeedbackInv, Flags
  <2> QED BY <2>1, <2>2, <2>3, Zenon DEF TypeOK
<1> QED BY <1>1, FeedbackAlways, PTL
=============================================================================
