----------------------------- MODULE Terminals -----------------------------
(***************************************************************************)
(* tty.c and compatibility-sysv-utmp.c: the gettys.                        *)
(*                                                                         *)
(* A mode switch, or the devices becoming available, updates the terminals *)
(* in the thread that emits the event: gettys the mode does not want are   *)
(* told to end and not to come back, and a getty is started for every      *)
(* wanted terminal that has none on the list.  The watcher of a death      *)
(* takes the getty off the list and starts it anew if it is to come back.  *)
(* The mutex of the list is held for one look or one change at a time.     *)
(*                                                                         *)
(* The watching of processes is that of Reaping, which Daemons implements. *)
(* A getty is numbered by its start and stands for its process and for the *)
(* thread of its watcher.  Of utmp only whether a getty's record is live.  *)
(***************************************************************************)
EXTENDS Naturals, FiniteSets

CONSTANTS
  Ttys,           \* terminals with a node in the configuration
  Unknown,        \* names in "ttys" without a node
  Feedback,       \* terminals the feedback is shown on (blocked_tty)
  Lasting,        \* terminals whose node says restart="yes"
  Fallible,       \* whether the command may be missing, or fork fail
  Updaters,       \* threads that emit the events
  MaxGettys, MaxUpdates    \* bounds: gettys started, updates

TerminalsAssumption ==
  /\ MaxGettys \in Nat /\ MaxUpdates \in Nat
  /\ Ttys \cap Unknown = {} /\ Updaters \cap (1..MaxGettys) = {}

Gettys == 1..MaxGettys
Threads == Updaters \cup Gettys

VARIABLES
  life, watched, reported,   \* see Reaping
  tty,            \* the terminal of each getty, as a set
  ttys,           \* the list: gettys
  restart,        \* gettys on the list that come back
  told,           \* gettys that got SIGTERM
  wanted,         \* "ttys" in the configuration of the mode
  updates,
  pc,             \* stage of each thread
  todo,           \* names an updater has still to look at
  node,           \* the terminal each thread starts a getty for, as a set
  cpid,           \* the getty it has forked, as a set
  live            \* gettys whose record in utmp says they are there

procvars == <<life, watched, reported>>
listvars == <<ttys, restart>>
modevars == <<wanted, updates>>
jobvars == <<pc, todo, node, cpid>>
termvars == <<procvars, tty, listvars, told, modevars, jobvars, live>>

Scheduler == INSTANCE Reaping WITH Processes <- Gettys, halted <- FALSE

Init ==
  /\ Scheduler!Init
  /\ tty = [g \in Gettys |-> {}]
  /\ ttys = {} /\ restart = {} /\ told = {}
  /\ wanted = {} /\ updates = 0
  /\ pc = [t \in Threads |-> "none"] /\ todo = [t \in Threads |-> {}]
  /\ node = [t \in Threads |-> {}] /\ cpid = [t \in Threads |-> {}]
  /\ live = {}

Goto(t, stage) == pc' = [pc EXCEPT ![t] = stage]
Set(f, t, set) == [f EXCEPT ![t] = set]

\* einit_tty_is_present
Present(name) == \E g \in ttys : name \in tty[g]

-----------------------------------------------------------------------------
\* einit_tty_update

\* A mode with its own terminals: einit_tty_disable_unused, under the mutex.
Update(u) ==
  /\ pc[u] = "none" /\ updates < MaxUpdates
  /\ updates' = updates + 1
  /\ \E names \in SUBSET (Ttys \cup Unknown) :
       /\ wanted' = names
       /\ todo' = Set(todo, u, names)
       /\ LET unused == {g \in ttys : tty[g] \cap names = {}}
          IN restart' = restart \ unused /\ told' = told \cup unused
  /\ Goto(u, "update")
  /\ UNCHANGED <<procvars, tty, ttys, node, cpid, live>>

\* The next name of the list: nothing to do if there is a getty, no node, or the feedback
\* is there.
Consider(u) ==
  /\ pc[u] = "update"
  /\ \/ \E name \in todo[u] :
          /\ todo' = Set(todo, u, todo[u] \ {name})
          /\ IF Present(name) \/ name \in Unknown \cup Feedback
             THEN UNCHANGED <<pc, node>>
             ELSE Goto(u, "fork") /\ node' = Set(node, u, {name})
     \/ todo[u] = {} /\ Goto(u, "none") /\ UNCHANGED <<todo, node>>
  /\ UNCHANGED <<procvars, tty, listvars, told, modevars, cpid, live>>

-----------------------------------------------------------------------------
\* einit_tty_texec

After(t) == IF t \in Updaters THEN "update" ELSE "done"

\* The process, and its record in utmp; or nothing.
Fork(t) ==
  /\ pc[t] = "fork"
  /\ \/ \E g \in Gettys :
          /\ \A h \in Gettys : h < g => life[h] # "none"
          /\ Scheduler!Fork(g)
          /\ tty' = Set(tty, g, node[t])
          /\ cpid' = Set(cpid, t, {g})
          /\ live' = live \cup {g}
          /\ Goto(t, "watch")
     \/ /\ Fallible \/ \A g \in Gettys : life[g] # "none"
        /\ Goto(t, After(t))
        /\ UNCHANGED <<procvars, tty, cpid, live>>
  /\ UNCHANGED <<listvars, told, modevars, todo, node>>

\* sched_watch_pid
Watch(t) ==
  /\ pc[t] = "watch"
  /\ \E g \in cpid[t] : Scheduler!Watch(g)
  /\ Goto(t, "list")
  /\ UNCHANGED <<tty, listvars, told, modevars, todo, node, cpid, live>>

\* (Mutant: the node's wish to restart is not noted.)
List_Fleeting(t) ==
  /\ pc[t] = "list"
  /\ ttys' = ttys \cup cpid[t]
  /\ cpid' = Set(cpid, t, {})
  /\ Goto(t, After(t))
  /\ UNCHANGED <<procvars, tty, restart, told, modevars, todo, node, live>>

List(t) ==
  /\ pc[t] = "list"
  /\ ttys' = ttys \cup cpid[t]
  /\ restart' = IF node[t] \subseteq Lasting THEN restart \cup cpid[t] ELSE restart
  /\ cpid' = Set(cpid, t, {})
  /\ Goto(t, After(t))
  /\ UNCHANGED <<procvars, tty, told, modevars, todo, node, live>>

Texec(t) == Fork(t) \/ Watch(t) \/ List(t)

-----------------------------------------------------------------------------
\* Processes end, when told to or by themselves.
Die(g) ==
  /\ Scheduler!Die(g)
  /\ UNCHANGED <<tty, listvars, told, modevars, jobvars, live>>

\* einit_process_died, for g ...
Report(g) ==
  /\ Scheduler!Report(g)
  /\ Goto(g, "find")
  /\ UNCHANGED <<tty, listvars, told, modevars, todo, node, cpid, live>>

\* (Mutant: a dead getty is still to be restarted.)
Find_Kept(g) ==
  /\ pc[g] = "find"
  /\ ttys' = ttys \ {g}
  /\ live' = IF g \in ttys THEN live \ {g} ELSE live
  /\ IF g \in restart THEN Goto(g, "fork") /\ node' = Set(node, g, tty[g])
                      ELSE Goto(g, "gone") /\ UNCHANGED node
  /\ UNCHANGED <<procvars, tty, restart, told, modevars, todo, cpid>>

\* ... and einit_tty_watcher: nobody's getty if it is not on the list.
Find(g) ==
  /\ pc[g] = "find"
  /\ ttys' = ttys \ {g} /\ restart' = restart \ {g}
  /\ live' = IF g \in ttys THEN live \ {g} ELSE live
  /\ IF g \in restart THEN Goto(g, "fork") /\ node' = Set(node, g, tty[g])
                      ELSE Goto(g, "gone") /\ UNCHANGED node
  /\ UNCHANGED <<procvars, tty, told, modevars, todo, cpid>>

\* compatibility_sysv_utmp_clean, when /var is mounted: records of processes that are
\* not there any more (a zombie still is) are marked dead.
Clean ==
  /\ live' = live \ reported
  /\ live' # live
  /\ UNCHANGED <<procvars, tty, listvars, told, modevars, jobvars>>

-----------------------------------------------------------------------------
Next ==
  \/ Clean
  \/ \E u \in Updaters : Update(u) \/ Consider(u)
  \/ \E t \in Threads : Texec(t)
  \/ \E g \in Gettys : Die(g) \/ Report(g) \/ Find(g)

Spec == Init /\ [][Next]_termvars

\* Threads run on and deaths are reported; a getty need not end, even when told to.
Fairness ==
  /\ \A u \in Updaters : WF_termvars(Consider(u))
  /\ \A t \in Threads : WF_termvars(Texec(t))
  /\ \A g \in Gettys : WF_termvars(Report(g)) /\ WF_termvars(Find(g))

FairSpec == Spec /\ Fairness

-----------------------------------------------------------------------------
\* Every variable holds a value of its kind.
TypeOK ==
  /\ tty \in [Gettys -> SUBSET Ttys] /\ ttys \subseteq Gettys /\ restart \subseteq ttys
  /\ told \subseteq Gettys /\ live \subseteq Gettys
  /\ updates \in 0..MaxUpdates /\ wanted \subseteq Ttys \cup Unknown
  /\ pc \in [Threads -> {"none", "update", "fork", "watch", "list", "find", "gone", "done"}]
  /\ \A t \in Threads : todo[t] \subseteq wanted \cup Ttys \cup Unknown /\ node[t] \subseteq Ttys

\* Nobody loses sight of a getty that runs: it is on the list, or a thread that has
\* forked it will put it there, once.  When its death has been handled its record says so,
\* unless the watcher came before it was on the list: then both entries stay.
Accounted ==
  \A g \in Gettys :
    /\ life[g] = "alive" => g \in ttys \/ \E t \in Threads : g \in cpid[t]
    /\ (\E t \in Threads : g \in cpid[t]) => g \notin ttys
    /\ g \in live /\ pc[g] \notin {"none", "find"} => g \in ttys \/ \E t \in Threads : g \in cpid[t]

\* A getty that is to come back does: when it has died on the list, a later one is
\* started on its terminal, unless it was told to end or the start fails.  (One whose
\* death was reported before it was on the list stays there for ever.)
GettyComesBack ==
  \A g \in Gettys :
    (g \in ttys /\ tty[g] \subseteq Lasting /\ life[g] = "dead" /\ pc[g] \in {"none", "find"}) ~>
      (g \in told \/ pc[g] = "done" \/ \E h \in Gettys : h > g /\ tty[h] = tty[g])

\* "not enabling tty %s (already enabled)": when an update is over and nothing goes on,
\* a terminal that is to have a lasting getty has one that runs.  (Contradicted by a
\* getty that was told to end by an earlier mode and is still on the list.)
WantedHasGetty ==
  (updates > 0 /\ \A t \in Threads : pc[t] \in {"none", "gone", "done"} /\ \A g \in Gettys :
       life[g] = "dead" => pc[g] # "none") =>
    \A name \in (wanted \cap Lasting) \ Feedback :
      (\E g \in Gettys : tty[g] = {name} /\ life[g] = "alive")
=============================================================================
