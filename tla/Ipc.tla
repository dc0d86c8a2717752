--------------------------------- MODULE Ipc ---------------------------------
(***************************************************************************)
(* modules/ipc.c: the control socket.  One thread accepts connections and  *)
(* starts a thread for each, which is handed a pointer to the variable the *)
(* next connection is going to be accepted into.  The reader follows that  *)
(* pointer twice, to get a stream to read commands from and one to write   *)
(* replies to.  A command is an event whose handlers answer it; a chain    *)
(* node in the configuration may add further commands to it.               *)
(*                                                                         *)
(* A client connects, sends one command and hangs up when it has read      *)
(* "IPC//processed."                                                       *)
(***************************************************************************)
EXTENDS Naturals, Integers, Sequences, FiniteSetsExt

CONSTANTS
  Clients,        \* processes that talk to the socket
  Commands,       \* what they may ask
  Chain,          \* for each command those that are to be run behind it
  Interrupted,    \* whether a signal or an abort may interrupt accept()
  MaxConnections, \* bound: connections made
  MaxFd           \* bound: descriptors 1..MaxFd are free at first

VARIABLES
  listener,       \* "off", "accept", "spawn", "cancelled" or "failed"
  nfd,            \* nfd of ipc_wait, which the readers point to
  table,          \* connection behind each descriptor; 0 if it is closed
  backlog,        \* connections that have not been accepted
  link,           \* connection of each client; 0 if it has none
  input,          \* command sent over each connection and not yet read
  replies,        \* connections whose commands have been answered on each
  reader,         \* threads: [at, in, out, of, todo]
  count,          \* connections made
  aborted         \* history: accept has failed

vars == <<listener, nfd, table, backlog, link, input, replies, reader, count, aborted>>

Connections == 1 .. MaxConnections
Fds == 1 .. MaxFd
NoReader == [at |-> "none", in |-> -1, out |-> -1, of |-> 0, todo |-> << >>]

Free == {fd \in Fds : table[fd] = 0}
IsOpen(fd) == fd \in Fds /\ table[fd] # 0

Init ==
  /\ listener = "off" /\ nfd = -1
  /\ table = [fd \in Fds |-> 0]
  /\ backlog = << >>
  /\ link = [c \in Clients |-> 0]
  /\ input = [k \in Connections |-> "none"]
  /\ replies = [k \in Connections |-> {}]
  /\ reader = [k \in Connections |-> NoReader]
  /\ count = 0 /\ aborted = FALSE

-----------------------------------------------------------------------------
\* Clients.

Connect(c) ==
  /\ listener \in {"accept", "spawn"}
  /\ link[c] = 0 /\ count < MaxConnections
  /\ count' = count + 1
  /\ link' = [link EXCEPT ![c] = count']
  /\ backlog' = Append(backlog, count')
  /\ \E cmd \in Commands : input' = [input EXCEPT ![count'] = cmd]
  /\ UNCHANGED <<listener, nfd, table, replies, reader, aborted>>

\* Once it has a reply, or the connection was closed, the client hangs up.
HangUp(c) ==
  LET k == link[c]
  IN /\ k # 0
     /\ \/ replies[k] # {}
        \/ k \notin {backlog[i] : i \in DOMAIN backlog} /\ \A fd \in Fds : table[fd] # k
     /\ link' = [link EXCEPT ![c] = 0]
     /\ UNCHANGED <<listener, nfd, table, backlog, input, replies, reader, count, aborted>>

-----------------------------------------------------------------------------
\* ipc_wait, started when the root device is there and cancelled by a shutdown.

Boot ==
  /\ listener = "off"
  /\ listener' \in {"accept", "failed"}
  /\ UNCHANGED <<nfd, table, backlog, link, input, replies, reader, count, aborted>>

Accept ==
  /\ listener = "accept" /\ backlog # << >> /\ Free # {}
  /\ nfd' = Min(Free)
  /\ table' = [table EXCEPT ![nfd'] = Head(backlog)]
  /\ backlog' = Tail(backlog)
  /\ listener' = "spawn"
  /\ UNCHANGED <<link, input, replies, reader, count, aborted>>

\* Whatever the error is, the loop goes on.
AcceptFails ==
  /\ Interrupted /\ listener = "accept"
  /\ nfd' = -1 /\ aborted' = TRUE
  /\ UNCHANGED <<listener, table, backlog, link, input, replies, reader, count>>

\* The new thread gets the address of nfd (readers are numbered by what was accepted).
Spawn ==
  /\ listener = "spawn"
  /\ reader' = [reader EXCEPT ![table[nfd]].at = "dup"]
  /\ listener' = "accept"
  /\ UNCHANGED <<nfd, table, backlog, link, input, replies, count, aborted>>

Cancel ==
  /\ listener = "accept"
  /\ listener' = "cancelled"
  /\ UNCHANGED <<nfd, table, backlog, link, input, replies, reader, count, aborted>>

-----------------------------------------------------------------------------
\* ipc_read, by the reader started for connection k.

At(k, stage) == reader[k].at = stage

Dup(k) ==
  /\ At(k, "dup")
  /\ LET fits == IsOpen(nfd) /\ Free # {}
         in == Min(Free)
     IN IF fits
          THEN /\ table' = [table EXCEPT ![in] = table[nfd]]
               /\ reader' = [reader EXCEPT ![k] = [@ EXCEPT !.at = "open", !.in = in]]
          ELSE reader' = [reader EXCEPT ![k].at = "fail"] /\ UNCHANGED table
  /\ UNCHANGED <<listener, nfd, backlog, link, input, replies, count, aborted>>

\* Without a stream to read from it closes what nfd is now; without one to write to,
\* only its own.
OpenOutput(k) ==
  /\ At(k, "open")
  /\ IF IsOpen(nfd)
       THEN reader' = [reader EXCEPT ![k] = [@ EXCEPT !.at = "read", !.out = nfd]]
            /\ UNCHANGED table
       ELSE /\ table' = [table EXCEPT ![reader[k].in] = 0]
            /\ reader' = [reader EXCEPT ![k] = NoReader]
  /\ UNCHANGED <<listener, nfd, backlog, link, input, replies, count, aborted>>

Fail(k) ==
  /\ At(k, "fail")
  /\ table' = IF IsOpen(nfd) THEN [table EXCEPT ![nfd] = 0] ELSE table
  /\ reader' = [reader EXCEPT ![k] = NoReader]
  /\ UNCHANGED <<listener, nfd, backlog, link, input, replies, count, aborted>>

\* fgets: a command, or the end of the connection.
Read(k) ==
  LET from == table[reader[k].in]
  IN /\ At(k, "read") /\ from # 0
     /\ input[from] # "none"
     /\ reader' = [reader EXCEPT ![k] = [@ EXCEPT !.at = "process", !.of = from,
                                                  !.todo = <<input[from]>>]]
     /\ input' = [input EXCEPT ![from] = "none"]
     /\ UNCHANGED <<listener, nfd, table, backlog, link, replies, count, aborted>>

\* ipc_process_f: the event, and then the same for what is chained to the command.
Process(k) ==
  LET cmd == Head(reader[k].todo)
  IN /\ At(k, "process") /\ reader[k].todo # << >>
     /\ reader' = [reader EXCEPT ![k].todo = Chain[cmd] \o Tail(@)]
     /\ UNCHANGED <<listener, nfd, table, backlog, link, input, replies, count, aborted>>

Gone(k) == k = 0 \/ k \notin {link[c] : c \in Clients}

\* "IPC//processed." goes to whatever the output descriptor is by then.
Reply(k) ==
  LET to == table[reader[k].out]
  IN /\ At(k, "process") /\ reader[k].todo = << >>
     /\ replies' = IF Gone(to) THEN replies
                   ELSE [replies EXCEPT ![to] = @ \cup {reader[k].of}]
     /\ reader' = [reader EXCEPT ![k] = [@ EXCEPT !.at = "read", !.of = 0]]
     /\ UNCHANGED <<listener, nfd, table, backlog, link, input, count, aborted>>

Eof(k) ==
  LET from == table[reader[k].in]
  IN /\ At(k, "read")
     /\ from = 0 \/ (Gone(from) /\ input[from] = "none")
     /\ table' = [fd \in Fds |-> IF fd \in {reader[k].in, reader[k].out} THEN 0 ELSE table[fd]]
     /\ reader' = [reader EXCEPT ![k] = NoReader]
     /\ UNCHANGED <<listener, nfd, backlog, link, input, replies, count, aborted>>

ReaderStep(k) ==
  Dup(k) \/ OpenOutput(k) \/ Fail(k) \/ Read(k) \/ Process(k) \/ Reply(k) \/ Eof(k)

Next ==
  \/ \E c \in Clients : Connect(c) \/ HangUp(c)
  \/ Boot \/ Accept \/ AcceptFails \/ Spawn \/ Cancel
  \/ \E k \in Connections : ReaderStep(k)

Spec == Init /\ [][Next]_vars

\* The threads run on, and clients hang up.
Fairness ==
  /\ WF_vars(Accept) /\ WF_vars(Spawn)
  /\ \A k \in Connections : WF_vars(ReaderStep(k))
  /\ \A c \in Clients : WF_vars(HangUp(c))

FairSpec == Spec /\ Fairness

-----------------------------------------------------------------------------
\* Every variable holds a value of its kind.
TypeOK ==
  /\ listener \in {"off", "accept", "spawn", "cancelled", "failed"}
  /\ nfd \in Fds \cup {-1}
  /\ table \in [Fds -> Connections \cup {0}]
  /\ link \in [Clients -> Connections \cup {0}]
  /\ input \in [Connections -> Commands \cup {"none"}]
  /\ \A k \in Connections : At(k, "process") => reader[k].of # 0

\* (Contradicted by two connections that are accepted in quick succession.)
\* "The output of that is redirected to the client" (einit-concepts): nobody gets the
\* reply to the command of another.
RepliesReachSender == \A k \in Connections : replies[k] \subseteq {k}

\* A single client that has been accepted gets its answer when everything chained to its
\* command is through (ipc_process_f), unless accept() has failed meanwhile.
Answered ==
  \A k \in Connections :
    (\E fd \in Fds : table[fd] = k) ~> (replies[k] # {} \/ aborted)
=============================================================================
