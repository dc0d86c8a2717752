-------------------------------- MODULE Log --------------------------------
(***************************************************************************)
(* log.c: messages are kept until there is a syslog, in a buffer under a   *)
(* mutex, which every thread uses that has something to say.               *)
(*                                                                         *)
(* When the service "logger" comes or goes, when a mode switch is done and *)
(* on request the buffer is flushed to the syslog; if there is none and no *)
(* mode is being switched to, the buffer is emptied.  Both loops let go of *)
(* the mutex after every message, only try to lock it again, and give up   *)
(* if another thread has it by then.                                       *)
(***************************************************************************)
EXTENDS Naturals, FiniteSets

CONSTANTS
  Speakers,       \* threads that emit events
  Free,           \* owner of a free mutex
  Logger,         \* whether the service "logger" comes and goes
  MaxMessages     \* bound: messages

LogAssumption == MaxMessages \in Nat /\ Free \notin Speakers

Messages == 1..MaxMessages

VARIABLES
  logbuffer,      \* messages that wait for a syslog
  syslogged,      \* messages the syslog has got
  have_syslog,
  logmutex, log_flushmutex,
  einit_log_in_switch,
  said,           \* messages so far
  speaking,       \* what each thread does
  saying,         \* the message each thread has in hand, as a set
  finishing       \* threads that handle the end of a mode switch

messagevars == <<logbuffer, syslogged, said, saying>>
logvars == <<messagevars, have_syslog, logmutex, log_flushmutex, einit_log_in_switch, speaking,
             finishing>>

Init ==
  /\ logbuffer = {} /\ syslogged = {} /\ said = 0
  /\ have_syslog = FALSE /\ logmutex = Free /\ log_flushmutex = Free
  /\ einit_log_in_switch = 0
  /\ speaking = [t \in Speakers |-> "none"] /\ saying = [t \in Speakers |-> {}]
  /\ finishing = {}

To(t, stage) == speaking' = [speaking EXCEPT ![t] = stage]

\* A message goes to the syslog, after which t is at another stage, or is to be put into
\* the buffer.
Say(t, stage) ==
  /\ speaking[t] = "none" /\ said < MaxMessages
  /\ said' = said + 1
  /\ IF have_syslog
     THEN syslogged' = syslogged \cup {said'} /\ To(t, stage) /\ UNCHANGED saying
     ELSE saying' = [saying EXCEPT ![t] = {said'}] /\ To(t, "add") /\ UNCHANGED syslogged
  /\ UNCHANGED <<logbuffer, have_syslog, logmutex, log_flushmutex>>

\* einit_log_feedback_event_handler: notices, status changes, broken and unresolved
\* services.
Notice(t) ==
  /\ Say(t, "none")
  /\ UNCHANGED <<einit_log_in_switch, finishing>>

\* einit_core_mode_switching ...
Switching(t) ==
  /\ Say(t, "none")
  /\ einit_log_in_switch' = einit_log_in_switch + 1
  /\ UNCHANGED finishing

\* ... and einit_core_mode_switch_done.
SwitchDone(t) ==
  /\ einit_log_in_switch > 0
  /\ Say(t, "forget")
  /\ einit_log_in_switch' = einit_log_in_switch - 1
  /\ finishing' = finishing \cup {t}

\* The buffer's mutex ...
LockBuffer(t) ==
  /\ speaking[t] = "add" /\ logmutex = Free
  /\ logmutex' = t
  /\ To(t, "store")
  /\ UNCHANGED <<messagevars, have_syslog, log_flushmutex, einit_log_in_switch, finishing>>

\* ... for one message more; after the end of a mode switch the buffer is flushed.
Add(t) ==
  /\ speaking[t] = "store"
  /\ logbuffer' = logbuffer \cup saying[t]
  /\ saying' = [saying EXCEPT ![t] = {}]
  /\ logmutex' = Free
  /\ To(t, IF t \in finishing THEN "flush" ELSE "none")
  /\ UNCHANGED <<syslogged, said, have_syslog, log_flushmutex, einit_log_in_switch, finishing>>

-----------------------------------------------------------------------------
\* einit_log_einit_event_handler: the service "logger" has been enabled or disabled.
LoggerChanges(t) ==
  /\ Logger /\ speaking[t] = "none"
  /\ have_syslog' = ~have_syslog
  /\ To(t, "flush")
  /\ UNCHANGED <<messagevars, logmutex, log_flushmutex, einit_log_in_switch, finishing>>

\* einit_log_ipc_event_handler: "flush log".
FlushLog(t) ==
  /\ speaking[t] = "none"
  /\ To(t, "flush")
  /\ UNCHANGED <<messagevars, have_syslog, logmutex, log_flushmutex, einit_log_in_switch,
                 finishing>>

\* flush_log_buffer
Flush(t) ==
  /\ speaking[t] = "flush"
  /\ IF log_flushmutex = Free
     THEN log_flushmutex' = t /\ To(t, IF have_syslog THEN "try" ELSE "flushed")
     ELSE To(t, "forget") /\ UNCHANGED log_flushmutex
  /\ UNCHANGED <<messagevars, have_syslog, logmutex, einit_log_in_switch, finishing>>

First == {m \in logbuffer : \A n \in logbuffer : m <= n}

\* A loop over the buffer, by a thread that holds the mutex: it unlocks at the end ...
Leave(t, to) ==
  /\ logbuffer = {}
  /\ logmutex' = Free
  /\ To(t, to)
  /\ UNCHANGED <<messagevars, have_syslog, log_flushmutex, einit_log_in_switch, finishing>>

\* ... and for every message, before what is done with it.
TakeFirst(t, to) ==
  /\ logbuffer # {}
  /\ logbuffer' = logbuffer \ First
  /\ logmutex' = Free
  /\ To(t, to)
  /\ UNCHANGED <<said, saying, have_syslog, log_flushmutex, einit_log_in_switch, finishing>>

\* pthread_mutex_trylock (&logmutex): on with it, or enough.
TryLock(t, to, otherwise) ==
  /\ IF logmutex = Free
     THEN logmutex' = t /\ To(t, to)
     ELSE To(t, otherwise) /\ UNCHANGED logmutex
  /\ UNCHANGED <<messagevars, have_syslog, log_flushmutex, einit_log_in_switch, finishing>>

\* flush_log_buffer_to_syslog, if there is something to do: the messages one by one, to
\* whatever syslog there is by then, until another thread has the mutex.
Try(t) ==
  /\ speaking[t] = "try"
  /\ \/ logbuffer # {} /\ have_syslog /\ TryLock(t, "send", "flushed")
     \/ /\ logbuffer = {} \/ ~have_syslog
        /\ To(t, "flushed")
        /\ UNCHANGED <<messagevars, have_syslog, logmutex, log_flushmutex, einit_log_in_switch,
                       finishing>>

Send(t) ==
  /\ speaking[t] = "send"
  /\ \/ Leave(t, "flushed")
     \/ TakeFirst(t, "sent") /\ syslogged' = syslogged \cup First

Sent(t) == speaking[t] = "sent" /\ TryLock(t, "send", "flushed")

Flushed(t) ==
  /\ speaking[t] = "flushed"
  /\ log_flushmutex' = Free
  /\ To(t, "forget")
  /\ UNCHANGED <<messagevars, have_syslog, logmutex, einit_log_in_switch, finishing>>

\* The end of a handler: after the last mode switch, and still without a syslog, the
\* buffer is cleared.
Forget(t) ==
  /\ speaking[t] = "forget"
  /\ To(t, IF t \in finishing /\ einit_log_in_switch = 0 /\ ~have_syslog THEN "clear" ELSE "none")
  /\ finishing' = finishing \ {t}
  /\ UNCHANGED <<messagevars, have_syslog, logmutex, log_flushmutex, einit_log_in_switch>>

\* flush_log_buffer_free is the same loop, and drops what it takes.
Clear(t) ==
  /\ speaking[t] = "clear"
  /\ \/ logbuffer # {} /\ TryLock(t, "delete", "none")
     \/ /\ logbuffer = {}
        /\ To(t, "none")
        /\ UNCHANGED <<messagevars, have_syslog, logmutex, log_flushmutex, einit_log_in_switch,
                       finishing>>

Delete(t) ==
  /\ speaking[t] = "delete"
  /\ \/ Leave(t, "none")
     \/ TakeFirst(t, "deleted") /\ UNCHANGED syslogged

Deleted(t) == speaking[t] = "deleted" /\ TryLock(t, "delete", "none")

-----------------------------------------------------------------------------
Speak(t) ==
  \/ LockBuffer(t) \/ Add(t) \/ Flush(t) \/ Try(t) \/ Send(t) \/ Sent(t) \/ Flushed(t)
  \/ Forget(t) \/ Clear(t) \/ Delete(t) \/ Deleted(t)

Next ==
  \E t \in Speakers :
    Notice(t) \/ Switching(t) \/ SwitchDone(t) \/ LoggerChanges(t) \/ FlushLog(t) \/ Speak(t)

Spec == Init /\ [][Next]_logvars
FairSpec == Spec /\ \A t \in Speakers : WF_logvars(Speak(t))

-----------------------------------------------------------------------------
\* Every variable holds a value of its kind.
TypeOK ==
  /\ logbuffer \subseteq Messages /\ syslogged \subseteq Messages
  /\ have_syslog \in BOOLEAN
  /\ logmutex \in Speakers \cup {Free} /\ log_flushmutex \in Speakers \cup {Free}
  /\ einit_log_in_switch \in 0..MaxMessages /\ said \in 0..MaxMessages
  /\ finishing \subseteq Speakers
  /\ speaking \in [Speakers -> {"none", "add", "store", "flush", "try", "send", "sent",
                                "flushed", "forget", "clear", "delete", "deleted"}]

\* Whoever has something to say gets through, however the flushes end: each of their ways
\* out leaves the mutex free.
MessagesTaken == \A t \in Speakers : speaking[t] = "add" ~> speaking[t] # "add"

\* "no more switches... and still no syslog": "clear buffer".  (Contradicted where another
\* thread holds the mutex when it is tried: the clearing gives up.)
BufferCleared ==
  \A t \in Speakers :
    speaking[t] = "clear" ~> (logbuffer = {} \/ have_syslog \/ einit_log_in_switch > 0)
=============================================================================
