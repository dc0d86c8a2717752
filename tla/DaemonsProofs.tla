--------------------------- MODULE DaemonsProofs ---------------------------
(***************************************************************************)
(* Safety of Daemons for any number of control blocks and calls.  A block  *)
(* goes through the hands of the thread that starts its daemon, of the     *)
(* scheduler and of its watcher, in this order; Handed says what each may  *)
(* rely on when it gets it.                                                *)
(***************************************************************************)
EXTENDS Daemons, TLAPS

Starting == {"fork", "list", "watch"}

\* A block that is being started is nobody else's: made, distinct, not watched yet;
\* what is watched is on the list and was not reaped; what was reaped is on the list
\* until its watcher takes it off.
Handed ==
  /\ \A a \in Agents : pc[a] \in Starting => block[a] \in 1..made /\ block[a] \notin watched
  /\ \A a, c \in Agents :
       a # c /\ pc[a] \in Starting /\ pc[c] \in Starting => block[a] # block[c]
  /\ \A a \in Agents : pc[a] = "fork" => process[block[a]] = "none"
  /\ \A a \in Agents : pc[a] \in {"list", "watch"} => process[block[a]] \in {"alive", "zombie"}
  /\ \A a \in Agents : pc[a] = "watch" => block[a] \in running
  /\ \A b \in Blocks : b > made => process[b] = "none"
  /\ watched \subseteq running
  /\ \A b \in watched : process[b] \in {"alive", "zombie"}
  /\ \A b \in Blocks : pc[b] = "find" => process[b] = "gone" /\ b \in running

\* A stop waits for a block.
Awaits == \A a \in Agents : pc[a] \in {"await", "await again"} => awaited \in Blocks

DaemonInv == TypeOK /\ Handed /\ Awaits

LEMMA DaemonInit == Init => DaemonInv
<1> SUFFICES ASSUME Init PROVE DaemonInv
  OBVIOUS
<1> USE DEF Init, Blocks, Agents, NoBlock
<1>1. BlockTypes /\ MutexTypes
  BY DaemonsAssumption DEF BlockTypes, MutexTypes
<1>2. ThreadTypes
  BY DaemonsAssumption
  DEF ThreadTypes, StartStages, StopStages, WatchStages, EndStages
<1>3. OtherTypes
  BY DaemonsAssumption DEF OtherTypes
<1>6. Booleans
  BY Zenon DEF Booleans
<1>4. Handed
  BY DaemonsAssumption DEF Handed, Starting
<1>5. Awaits
  BY DEF Awaits
<1> QED BY <1>1, <1>2, <1>3, <1>4, <1>5, <1>6 DEF DaemonInv, TypeOK

\* A thread that moves on to a stage where it has nothing in its hands, and touches
\* none of the blocks, leaves Handed as it is.
LEMMA HandedMove ==
  ASSUME TypeOK, Handed, NEW a \in Agents, NEW x,
         x \notin Starting \cup {"find"},
         pc' = [pc EXCEPT ![a] = x],
         UNCHANGED <<block, made, process, running, watched>>
  PROVE  Handed'
<1>1. \A c \in Agents : pc'[c] \in Starting \cup {"find"} => pc'[c] = pc[c] /\ c # a
  BY DEF TypeOK, ThreadTypes, Starting
<1>2. Blocks \subseteq Agents
  BY DEF Agents
<1> QED BY <1>1, <1>2 DEF Handed, Starting

-----------------------------------------------------------------------------
\* What the type invariant says of the numbers of blocks.
LEMMA Numbers ==
  ASSUME TypeOK
  PROVE  /\ Blocks \subseteq Agents
         /\ \A x \in 0..made : x # NoBlock => x \in Blocks
         /\ made < MaxBlocks => made + 1 \in Blocks
<1>1. made \in 0..MaxBlocks
  BY DEF TypeOK, BlockTypes
<1> QED BY <1>1, DaemonsAssumption DEF Blocks, Agents, NoBlock

\* Each group of variables keeps its type; only the actions that touch the group
\* are looked at one by one.
LEMMA BlockTypesStep ==
  ASSUME DaemonInv, Next
  PROVE  BlockTypes'
<1> USE DEF DaemonInv, TypeOK
<1>1. ASSUME NEW a \in Agents, Prepare(a) PROVE BlockTypes'
  BY <1>1, DaemonsAssumption DEF Prepare, BlockTypes
<1>2. ASSUME NEW a \in Agents, Fork(a) PROVE BlockTypes'
  BY <1>2 DEF Fork, BlockTypes
<1>3. ASSUME NEW a \in Agents, List(a) PROVE BlockTypes'
  <2>1. block[a] \in Blocks
    BY <1>3, Numbers
    DEF List, Handed, Starting, At, Blocks, BlockTypes
  <2> QED BY <1>3, <2>1 DEF List, BlockTypes
<1>4. ASSUME NEW a \in Agents, Watch(a) PROVE BlockTypes'
  <2>1. block[a] \in Blocks
    BY <1>4, Numbers
    DEF Watch, Handed, Starting, At, Blocks, BlockTypes
  <2> QED BY <1>4, <2>1 DEF Watch, BlockTypes
<1>5. ASSUME NEW b \in Blocks, Reap(b) \/ Die(b) \/ Find(b) PROVE BlockTypes'
  BY <1>5 DEF Reap, Die, Find, BlockTypes
<1>6. ASSUME UNCHANGED <<made, process, running, watched>> PROVE BlockTypes'
  BY <1>6 DEF BlockTypes
<1>7. ASSUME NEW a \in Agents, Ready(a) \/ StopStep(a)
      PROVE  UNCHANGED <<made, process, running, watched>>
  BY <1>7 DEF Ready, StopStep, Stop, Grab, Term, Await, AwaitAgain, Unlock, Destroy, Clear,
              Disabled, blockvars
<1>8. ASSUME Call \/ Enabled \/ Timer \/ Rest \/ Wake \/ Shutdown
      PROVE  UNCHANGED <<made, process, running, watched>>
  BY <1>8 DEF Call, Enabled, Timer, Expire, Resume, Rest, Wake, Shutdown, blockvars
<1>9. ASSUME NEW b \in Blocks, Decides(b) \/ Forget(b) \/ Dismiss(b)
      PROVE  UNCHANGED <<made, process, running, watched>>
  BY <1>9 DEF Decides, TryLock, Nicely, Decide, Forget, Dismiss, blockvars
<1> QED BY <1>1, <1>2, <1>3, <1>4, <1>5, <1>6, <1>7, <1>8, <1>9
        DEF Next, Start, Scheduler, Watcher

LEMMA MutexTypesStep ==
  ASSUME DaemonInv, Next
  PROVE  MutexTypes'
<1> USE DEF DaemonInv, TypeOK
<1>0. /\ doomed \subseteq Blocks /\ locked \subseteq Blocks /\ destroyed \subseteq Blocks
      /\ expired \subseteq Blocks /\ waking \in Nat
      /\ cb # NoBlock => cb \in Blocks
  BY Numbers DEF MutexTypes, ThreadTypes
<1>1. ASSUME NEW a \in Agents, Prepare(a) PROVE MutexTypes'
  <2>1. expired' \subseteq Blocks
    BY <1>0, <1>1, Numbers DEF Prepare
  <2> QED BY <1>0, <1>1, <2>1 DEF Prepare, MutexTypes
<1>2. ASSUME NEW a \in Agents, Grab(a) \/ Unlock(a) \/ Destroy(a) PROVE MutexTypes'
  BY <1>0, <1>2 DEF Grab, Unlock, Destroy, MutexTypes, blockvars
<1>3. ASSUME NEW a \in Agents, Await(a) \/ AwaitAgain(a) PROVE MutexTypes'
  <2>1. awaited \in Blocks
    BY <1>3 DEF Awaits, Await, AwaitAgain, At
  <2>2. CASE Await(a)
    BY <1>0, <2>1, <2>2 DEF Await, MutexTypes, Exists
  <2>3. CASE AwaitAgain(a)
    BY <1>0, <2>1, <2>3 DEF AwaitAgain, MutexTypes, blockvars
  <2> QED BY <1>3, <2>2, <2>3
<1>4. ASSUME Expire \/ Resume PROVE MutexTypes'
  <2>1. CASE Expire
    BY <1>0, <2>1 DEF Expire, MutexTypes, blockvars
  <2>2. CASE Resume
    BY <1>0, <2>2 DEF Resume, MutexTypes, blockvars
  <2> QED BY <1>4, <2>1, <2>2
<1>5. ASSUME NEW b \in Blocks, Decides(b) PROVE MutexTypes'
  BY <1>0, <1>5 DEF Decides, TryLock, Nicely, Decide, MutexTypes, blockvars
<1>6. ASSUME UNCHANGED <<doomed, locked, destroyed, expired, waking>> PROVE MutexTypes'
  BY <1>0, <1>6 DEF MutexTypes
<1>7. ASSUME NEW a \in Agents,
             \/ Fork(a) \/ List(a) \/ Watch(a) \/ Ready(a)
             \/ Stop(a) \/ Term(a) \/ Clear(a) \/ Disabled(a)
      PROVE  UNCHANGED <<doomed, locked, destroyed, expired, waking>>
  BY <1>7 DEF Fork, List, Watch, Ready, Stop, Term, Clear, Disabled, blockvars, mutexvars
<1>8. ASSUME Call \/ Enabled \/ Rest \/ Wake \/ Shutdown
      PROVE  UNCHANGED <<doomed, locked, destroyed, expired, waking>>
  BY <1>8 DEF Call, Enabled, Rest, Wake, Shutdown, blockvars, mutexvars
<1>9. ASSUME NEW b \in Blocks, Reap(b) \/ Die(b) \/ Find(b) \/ Forget(b) \/ Dismiss(b)
      PROVE  UNCHANGED <<doomed, locked, destroyed, expired, waking>>
  BY <1>9 DEF Reap, Die, Find, Forget, Dismiss, blockvars, mutexvars
<1> QED BY <1>1, <1>2, <1>3, <1>4, <1>5, <1>6, <1>7, <1>8, <1>9
        DEF Next, Start, StopStep, Timer, Scheduler, Watcher

LEMMA ThreadTypesStep ==
  ASSUME DaemonInv, Next
  PROVE  ThreadTypes'
<1> DEFINE Stages == StartStages \cup StopStages \cup WatchStages \cup EndStages
<1> USE DEF DaemonInv, TypeOK, StartStages, StopStages, WatchStages, EndStages
<1>a. made \in Nat
  BY DaemonsAssumption DEF BlockTypes
<1>b. NoBlock \in 0..made
  BY <1>a DEF NoBlock
<1>0. /\ pc \in [Agents -> Stages] /\ block \in [Agents -> 0..made]
      /\ cb \in 0..made /\ victim \in 0..made /\ awaited \in 0..made
      /\ made \in Nat /\ NoBlock \in 0..made
  BY <1>a, <1>b DEF ThreadTypes
\* A thread moves on, and the rest stays or is set to the current block or to none.
<1>1. ASSUME NEW a \in Agents, NEW x \in Stages,
             pc' = [pc EXCEPT ![a] = x] \/ pc' = pc,
             cb' \in {cb, NoBlock}, victim' \in {victim, cb}, awaited' \in {awaited, cb},
             UNCHANGED <<made, block>>
      PROVE  ThreadTypes'
  <2>1. pc' \in [Agents -> Stages]
    BY <1>0, <1>1
  <2>2. /\ block' \in [Agents -> 0..made'] /\ cb' \in 0..made' /\ victim' \in 0..made'
        /\ awaited' \in 0..made'
    BY <1>0, <1>1
  <2> QED BY <2>1, <2>2 DEF ThreadTypes
<1>2. ASSUME NEW a \in Agents, Prepare(a) PROVE ThreadTypes'
  <2>1. CASE UNCHANGED made
    <3>1. UNCHANGED <<block, cb>> /\ pc' = [pc EXCEPT ![a] = "failed"]
      BY <1>a, <1>2, <2>1 DEF Prepare, Goto
    <3> QED BY <1>1, <1>2, <2>1, <3>1 DEF Prepare, stopvars
  <2>2. CASE made' = made + 1
    <3>1. 0..made \subseteq 0..made' /\ made' \in 0..made'
      BY <1>a, <2>2, SMT
    <3>2. pc' \in [Agents -> Stages]
      BY <1>0, <1>2 DEF Prepare, Goto
    <3>3. block' \in [Agents -> 0..made'] /\ cb' \in 0..made'
      BY <1>0, <1>2, <2>2, <3>1 DEF Prepare
    <3>4. victim' = victim /\ awaited' = awaited
      BY <1>2 DEF Prepare, stopvars
    <3> QED BY <1>0, <3>1, <3>2, <3>3, <3>4 DEF ThreadTypes
  <2> QED BY <1>2, <2>1, <2>2 DEF Prepare
<1>3. ASSUME NEW a \in Agents, Fork(a) \/ List(a) \/ Watch(a) \/ Ready(a) PROVE ThreadTypes'
  BY <1>1, <1>3 DEF Fork, List, Watch, Ready, Goto, stopvars, blockvars
<1>4. ASSUME NEW a \in Agents, Stop(a) \/ Grab(a) \/ Term(a) PROVE ThreadTypes'
  BY <1>1, <1>4 DEF Stop, Grab, Term, Goto, Crash, stopvars, blockvars
<1>5. ASSUME NEW a \in Agents, Await(a) \/ AwaitAgain(a) PROVE ThreadTypes'
  BY <1>1, <1>5 DEF Await, AwaitAgain, Goto, Crash, stopvars, blockvars
<1>6. ASSUME NEW a \in Agents, Unlock(a) \/ Destroy(a) \/ Clear(a) \/ Disabled(a)
      PROVE  ThreadTypes'
  BY <1>1, <1>6 DEF Unlock, Destroy, Clear, Disabled, Goto, Crash, stopvars, blockvars
<1>7. ASSUME Call \/ Enabled PROVE ThreadTypes'
  BY <1>1, <1>7 DEF Call, Enabled, Goto, Agents, stopvars, blockvars
<1>8. ASSUME Timer \/ Rest \/ Wake \/ Shutdown PROVE ThreadTypes'
  <2>1. Manager \in Agents /\ "none" \in Stages
    BY DEF Agents
  <2> QED BY <1>1, <1>8, <2>1
          DEF Timer, Expire, Resume, Rest, Wake, Shutdown, Crash, stopvars, blockvars
<1>9. ASSUME NEW b \in Blocks,
             Reap(b) \/ Die(b) \/ Find(b) \/ Decides(b) \/ Forget(b) \/ Dismiss(b)
      PROVE  ThreadTypes'
  <2>1. b \in Agents
    BY DEF Agents
  <2> QED BY <1>1, <1>9, <2>1
          DEF Reap, Die, Find, Decides, TryLock, Nicely, Decide, Forget, Dismiss, Goto,
              stopvars, blockvars
<1> QED BY <1>2, <1>3, <1>4, <1>5, <1>6, <1>7, <1>8, <1>9
        DEF Next, Start, StopStep, Scheduler, Watcher

LEMMA OtherTypesStep ==
  ASSUME DaemonInv, Next
  PROVE  OtherTypes'
<1> USE DEF DaemonInv, TypeOK, OtherTypes
<1>1. ASSUME Call PROVE OtherTypes'
  BY <1>1, DaemonsAssumption DEF Call, Agents, schedvars
<1>2. ASSUME Rest \/ Wake \/ Enabled PROVE OtherTypes'
  BY <1>2 DEF Rest, Wake, Enabled, modvars, schedvars
<1>3. ASSUME NEW a \in Agents, Disabled(a) PROVE OtherTypes'
  BY <1>3 DEF Disabled, schedvars
<1>4. ASSUME NEW b \in Blocks, Dismiss(b) PROVE OtherTypes'
  BY <1>4, Numbers DEF Dismiss, schedvars
<1>5. ASSUME UNCHANGED <<scheduler, owner, calls>> PROVE OtherTypes'
  BY <1>5
<1>6. ASSUME NEW a \in Agents,
             \/ Start(a) \/ Stop(a) \/ Grab(a) \/ Term(a) \/ Await(a) \/ AwaitAgain(a)
             \/ Unlock(a) \/ Destroy(a) \/ Clear(a)
      PROVE  UNCHANGED <<scheduler, owner, calls>>
  BY <1>6 DEF Start, Prepare, Fork, List, Watch, Ready, Stop, Grab, Term, Await, AwaitAgain,
              Unlock, Destroy, Clear, modvars, schedvars
<1>7. ASSUME Timer \/ Shutdown PROVE UNCHANGED <<scheduler, owner, calls>>
  BY <1>7 DEF Timer, Expire, Resume, Shutdown, modvars, schedvars
<1>8. ASSUME NEW b \in Blocks, Reap(b) \/ Die(b) \/ Find(b) \/ Decides(b) \/ Forget(b)
      PROVE  UNCHANGED <<scheduler, owner, calls>>
  BY <1>8 DEF Reap, Die, Find, Decides, TryLock, Nicely, Decide, Forget, modvars, schedvars
<1> QED BY <1>1, <1>2, <1>3, <1>4, <1>5, <1>6, <1>7, <1>8
        DEF Next, StopStep, Scheduler, Watcher

LEMMA BooleansStep ==
  ASSUME DaemonInv, Next
  PROVE  Booleans'
<1> USE DEF DaemonInv, TypeOK
<1>1. ASSUME NEW a \in Agents, Start(a) PROVE Booleans'
  BY <1>1, Zenon DEF Start, Prepare, Fork, List, Watch, Ready, Booleans, mutexvars, modvars,
                     schedvars
<1>2. ASSUME NEW a \in Agents, Stop(a) \/ Grab(a) \/ Term(a) PROVE Booleans'
  BY <1>2, Zenon DEF Stop, Grab, Term, Crash, Booleans, mutexvars, modvars, schedvars
<1>3. ASSUME NEW a \in Agents, Await(a) \/ AwaitAgain(a) PROVE Booleans'
  BY <1>3, Zenon DEF Await, AwaitAgain, Crash, Booleans, modvars, schedvars
<1>4. ASSUME NEW a \in Agents, Unlock(a) \/ Destroy(a) \/ Clear(a) \/ Disabled(a)
      PROVE  Booleans'
  BY <1>4, Zenon DEF Unlock, Destroy, Clear, Disabled, Crash, Booleans, mutexvars, modvars,
                     schedvars
<1>5. ASSUME Call \/ Enabled \/ Timer \/ Rest \/ Wake \/ Shutdown PROVE Booleans'
  BY <1>5, Zenon DEF Call, Enabled, Timer, Expire, Resume, Rest, Wake, Shutdown, At, Crash,
                     Booleans, mutexvars, modvars, schedvars
<1>6. ASSUME NEW b \in Blocks,
             Reap(b) \/ Die(b) \/ Find(b) \/ Decides(b) \/ Forget(b) \/ Dismiss(b)
      PROVE  Booleans'
  BY <1>6, Zenon DEF Reap, Die, Find, Decides, TryLock, Nicely, Decide, Forget, Dismiss,
                     Booleans, mutexvars, modvars, schedvars
<1> QED BY <1>1, <1>2, <1>3, <1>4, <1>5, <1>6 DEF Next, StopStep, Scheduler, Watcher

LEMMA AwaitsStep ==
  ASSUME DaemonInv, Next
  PROVE  Awaits'
<1> USE DEF DaemonInv, TypeOK
<1> DEFINE Waiting == {"await", "await again"}
<1>0. pc \in [Agents -> StartStages \cup StopStages \cup WatchStages \cup EndStages]
  BY DEF ThreadTypes
\* A thread that moves on but does not begin to wait.
<1>1. ASSUME NEW a \in Agents, NEW x, x \notin Waiting,
             pc' = [pc EXCEPT ![a] = x] \/ pc' = pc, awaited' = awaited
      PROVE  Awaits'
  BY <1>0, <1>1 DEF Awaits
<1>2. ASSUME NEW a \in Agents, Term(a) \/ Await(a) PROVE Awaits'
  <2>1. CASE awaited' = cb /\ cb \in Blocks
    BY <2>1 DEF Awaits
  <2>2. CASE awaited' = awaited /\ pc' = pc
    BY <2>2 DEF Awaits
  <2>3. CASE Term(a)
    <3>1. \/ awaited' = cb /\ Exists(cb)
          \/ awaited' = awaited /\ pc' = [pc EXCEPT ![a] = "clear"]
          \/ awaited' = awaited /\ pc' = pc
      BY <2>3, Zenon DEF Term, Goto, Crash
    <3> QED BY <1>1, <2>1, <2>2, <3>1 DEF Exists
  <2>4. CASE Await(a)
    <3>1. \/ awaited' = cb /\ cb # NoBlock
          \/ awaited' = awaited /\ pc' = [pc EXCEPT ![a] = "unlock"]
          \/ awaited' = awaited /\ pc' = pc
      BY <2>4, Zenon DEF Await, Goto, Crash
    <3>2. cb # NoBlock => cb \in Blocks
      BY Numbers DEF ThreadTypes
    <3> QED BY <1>1, <2>1, <2>2, <3>1, <3>2
  <2> QED BY <1>2, <2>3, <2>4
<1>3. ASSUME NEW a \in Agents, Start(a) PROVE Awaits'
  <2>1. awaited' = awaited
    BY <1>3 DEF Start, Prepare, Fork, List, Watch, Ready, stopvars
  <2>2. \E x \in {"failed", "fork", "list", "watch", "ready", "up"} :
          pc' = [pc EXCEPT ![a] = x]
    BY <1>3 DEF Start, Prepare, Fork, List, Watch, Ready, Goto
  <2> QED BY <1>0, <2>1, <2>2 DEF Awaits
<1>4. ASSUME NEW a \in Agents, Stop(a) \/ Grab(a) \/ AwaitAgain(a) \/ Unlock(a) PROVE Awaits'
  <2>1. awaited' = awaited
    BY <1>4 DEF Stop, Grab, AwaitAgain, Unlock, stopvars
  <2>2. pc' = pc \/ \E x \in {"grab", "clear", "term", "unlock", "destroy"} :
                      pc' = [pc EXCEPT ![a] = x]
    BY <1>4 DEF Stop, Grab, AwaitAgain, Unlock, Goto, Crash
  <2> QED BY <1>0, <2>1, <2>2 DEF Awaits
<1>7. ASSUME NEW a \in Agents, Destroy(a) \/ Clear(a) \/ Disabled(a) PROVE Awaits'
  <2>1. awaited' = awaited
    BY <1>7 DEF Destroy, Clear, Disabled, stopvars
  <2>2. pc' = pc \/ \E x \in {"clear", "down", "none", "done", "refused"} :
                      pc' = [pc EXCEPT ![a] = x]
    BY <1>7 DEF Destroy, Clear, Disabled, Goto, Crash
  <2> QED BY <1>0, <2>1, <2>2 DEF Awaits
<1>5. ASSUME Call \/ Enabled \/ Timer \/ Rest \/ Wake \/ Shutdown PROVE Awaits'
  <2>1. Manager \in Agents
    BY DEF Agents
  <2>2. ASSUME Call \/ Enabled PROVE Awaits'
    <3>1. /\ awaited' = awaited
          /\ \E x \in {"stop", "begin", "none"} : pc' = [pc EXCEPT ![Manager] = x]
      BY <2>2 DEF Call, Enabled, Goto, stopvars
    <3> QED BY <1>0, <2>1, <3>1 DEF Awaits
  <2>3. ASSUME UNCHANGED <<pc, awaited>> PROVE Awaits'
    BY <2>3 DEF Awaits
  <2>4. ASSUME Timer \/ Rest \/ Wake \/ Shutdown PROVE UNCHANGED <<pc, awaited>>
    BY <2>4 DEF Timer, Expire, Resume, Rest, Wake, Shutdown, Crash, stopvars
  <2> QED BY <1>5, <2>2, <2>3, <2>4
<1>6. ASSUME NEW b \in Blocks,
             Reap(b) \/ Die(b) \/ Find(b) \/ Decides(b) \/ Forget(b) \/ Dismiss(b)
      PROVE  Awaits'
  <2>1. b \in Agents /\ awaited' = awaited
    BY <1>6, Numbers DEF Reap, Die, Find, Decides, TryLock, Nicely, Decide, Forget, Dismiss, stopvars
  <2>2. pc' = pc \/ \E x \in {"find", "claimed", "nicely", "held", "done", "revive",
                              "drop", "begin", "disable", "stop", "refused"} :
                      pc' = [pc EXCEPT ![b] = x]
    BY <1>6 DEF Reap, Die, Find, Decides, TryLock, Nicely, Decide, Forget, Dismiss, Goto
  <2> QED BY <1>0, <2>1, <2>2 DEF Awaits
<1> QED BY <1>2, <1>3, <1>4, <1>5, <1>6, <1>7 DEF Next, StopStep, Scheduler, Watcher

\* The steps of a thread that starts a daemon: it makes the block (a number nobody
\* has), forks, puts the block on the list, and only then has the process watched.
LEMMA HandedStart ==
  ASSUME DaemonInv, NEW a \in Agents, Start(a)
  PROVE  Handed'
<1> USE DEF DaemonInv, TypeOK
<1>0. /\ pc \in [Agents -> StartStages \cup StopStages \cup WatchStages \cup EndStages]
      /\ block \in [Agents -> 0..made] /\ made \in Nat
      /\ process \in [Blocks -> {"none", "alive", "zombie", "gone"}]
      /\ running \subseteq Blocks /\ watched \subseteq Blocks
  BY DaemonsAssumption DEF ThreadTypes, BlockTypes
<1>1. CASE Prepare(a)
  <2>1. CASE pc' = [pc EXCEPT ![a] = "failed"] /\ UNCHANGED <<made, block>>
    BY <1>1, <2>1, HandedMove DEF Prepare, Starting
  <2>2. CASE /\ made' = made + 1 /\ made < MaxBlocks
             /\ pc' = [pc EXCEPT ![a] = "fork"] /\ block' = [block EXCEPT ![a] = made']
    <3>1. UNCHANGED <<process, running, watched>>
      BY <1>1 DEF Prepare
    <3>2. made' \in Blocks /\ made' \notin watched /\ process[made'] = "none"
      <4>1. made' \in Blocks /\ made' > made
        BY <1>0, <2>2, DaemonsAssumption DEF Blocks
      <4> QED BY <4>1 DEF Handed
    <3>3. \A c \in Agents : c # a => block'[c] = block[c] /\ pc'[c] = pc[c] /\ block[c] # made'
      BY <1>0, <2>2
    <3>4. block'[a] = made' /\ pc'[a] = "fork"
      BY <1>0, <2>2
    <3>5. \A b \in Blocks : b > made' => b > made
      BY <1>0, <2>2 DEF Blocks
    <3>6. 1..made \subseteq 1..made' /\ made' \in 1..made'
      BY <1>0, <2>2
    <3> QED BY <3>1, <3>2, <3>3, <3>4, <3>5, <3>6, Numbers DEF Handed, Starting
  <2> QED BY <1>1, <2>1, <2>2 DEF Prepare, Goto
<1>2. CASE Fork(a)
  <2>1. UNCHANGED <<made, running, watched, block>> /\ pc[a] = "fork"
    BY <1>2 DEF Fork, At
  <2>2. CASE pc' = [pc EXCEPT ![a] = "failed"] /\ UNCHANGED process
    BY <2>1, <2>2, HandedMove DEF Starting
  <2>3. CASE pc' = [pc EXCEPT ![a] = "list"] /\ process' = [process EXCEPT ![block[a]] = "alive"]
    <3>1. /\ block[a] \in Blocks /\ block[a] <= made /\ block[a] \notin watched
          /\ process[block[a]] = "none"
      BY <2>1, DaemonsAssumption DEF Handed, Starting, Blocks, BlockTypes
    <3>2. \A b \in Blocks : b # block[a] => process'[b] = process[b]
      BY <1>0, <2>3
    <3>3. process'[block[a]] = "alive"
      BY <1>0, <2>3, <3>1
    <3>4. \A c \in Agents : c # a => pc'[c] = pc[c]
      BY <1>0, <2>3
    <3>5. pc'[a] = "list"
      BY <1>0, <2>3
    <3>6. \A c \in Agents : pc[c] \in Starting => block[c] \in Blocks
      BY <1>0, DaemonsAssumption DEF Handed, Blocks, BlockTypes
    <3>7. \A b \in Blocks : b > made => b # block[a]
      BY <1>0, <3>1 DEF Blocks
    <3> QED BY <1>0, <2>1, <3>1, <3>2, <3>3, <3>4, <3>5, <3>6, <3>7, Numbers
            DEF Handed, Starting
  <2> QED BY <1>2, <2>2, <2>3 DEF Fork, Goto
<1>3. CASE List(a)
  <2>1. /\ UNCHANGED <<made, process, watched, block>> /\ pc[a] = "list"
        /\ pc' = [pc EXCEPT ![a] = "watch"] /\ running' = running \cup {block[a]}
    BY <1>3 DEF List, At, Goto
  <2>2. \A c \in Agents : c # a => pc'[c] = pc[c]
    BY <1>0, <2>1
  <2>3. pc'[a] = "watch"
    BY <1>0, <2>1
  <2> QED BY <2>1, <2>2, <2>3, Numbers DEF Handed, Starting
<1>4. CASE Watch(a)
  <2>1. /\ UNCHANGED <<made, process, running, block>> /\ pc[a] = "watch"
        /\ pc' = [pc EXCEPT ![a] = "ready"] /\ watched' = watched \cup {block[a]}
    BY <1>4 DEF Watch, At, Goto
  <2>2. \A c \in Agents : c # a => pc'[c] = pc[c]
    BY <1>0, <2>1
  <2>3. pc'[a] = "ready"
    BY <1>0, <2>1
  <2> QED BY <2>1, <2>2, <2>3, Numbers DEF Handed, Starting
<1>5. CASE Ready(a)
  BY <1>5, HandedMove DEF Ready, Goto, Starting, blockvars
<1> QED BY <1>1, <1>2, <1>3, <1>4, <1>5 DEF Start

\* A process dies, is reaped, and found.
LEMMA HandedDeath ==
  ASSUME DaemonInv, NEW b \in Blocks, Die(b) \/ Reap(b) \/ Find(b)
  PROVE  Handed'
<1> USE DEF DaemonInv, TypeOK
<1>0. /\ pc \in [Agents -> StartStages \cup StopStages \cup WatchStages \cup EndStages]
      /\ process \in [Blocks -> {"none", "alive", "zombie", "gone"}]
      /\ b \in Agents
  BY Numbers DEF ThreadTypes, BlockTypes
<1>1. \A c \in Agents : pc[c] \in Starting => block[c] \in Blocks
  BY DaemonsAssumption DEF Handed, Blocks, BlockTypes
<1>2. CASE Die(b)
  <2>1. /\ UNCHANGED <<made, running, watched, block, pc>> /\ process[b] = "alive"
        /\ process' = [process EXCEPT ![b] = "zombie"]
    BY <1>2 DEF Die
  <2>2. process'[b] = "zombie" /\ \A c \in Blocks : c # b => process'[c] = process[c]
    BY <1>0, <2>1
  <2> QED BY <1>1, <2>1, <2>2 DEF Handed, Starting, BlockTypes
<1>3. CASE Reap(b)
  <2>1. /\ UNCHANGED <<made, running, block>> /\ b \in watched /\ process[b] = "zombie"
        /\ process' = [process EXCEPT ![b] = "gone"] /\ watched' = watched \ {b}
        /\ pc' = [pc EXCEPT ![b] = "find"]
    BY <1>3 DEF Reap, Goto
  <2>2. process'[b] = "gone" /\ \A c \in Blocks : c # b => process'[c] = process[c]
    BY <1>0, <2>1
  <2>3. pc'[b] = "find" /\ \A c \in Agents : c # b => pc'[c] = pc[c]
    BY <1>0, <2>1
  <2> QED BY <1>1, <2>1, <2>2, <2>3, Numbers DEF Handed, Starting, BlockTypes
<1>4. CASE Find(b)
  <2>1. /\ UNCHANGED <<made, process, watched, block>> /\ pc[b] = "find"
        /\ running' = running \ {b}
    BY <1>4 DEF Find, At
  <2>2. pc'[b] \notin Starting \cup {"find"} /\ \A c \in Agents : c # b => pc'[c] = pc[c]
    BY <1>0, <1>4 DEF Find, Goto, Starting
  <2> QED BY <1>1, <2>1, <2>2, Numbers DEF Handed, Starting
<1> QED BY <1>2, <1>3, <1>4

\* Everything else leaves the blocks that are on their way alone.
LEMMA HandedStep ==
  ASSUME DaemonInv, Next
  PROVE  Handed'
<1> USE DEF DaemonInv
<1>1. ASSUME UNCHANGED <<pc, block, made, process, running, watched>> PROVE Handed'
  BY <1>1 DEF Handed
<1>2. ASSUME NEW a \in Agents, Stop(a) \/ Grab(a) \/ Term(a) \/ Await(a) PROVE Handed'
  <2>1. UNCHANGED <<block, made, process, running, watched>>
    BY <1>2 DEF Stop, Grab, Term, Await, blockvars
  <2>2. pc' = pc \/ \E x \in {"grab", "clear", "term", "await", "await again", "unlock"} :
                      pc' = [pc EXCEPT ![a] = x]
    BY <1>2, Zenon DEF Stop, Grab, Term, Await, Goto, Crash
  <2> QED BY <1>1, <2>1, <2>2, HandedMove DEF Starting
<1>3. ASSUME NEW a \in Agents,
             AwaitAgain(a) \/ Unlock(a) \/ Destroy(a) \/ Clear(a) \/ Disabled(a)
      PROVE  Handed'
  <2>1. UNCHANGED <<block, made, process, running, watched>>
    BY <1>3 DEF AwaitAgain, Unlock, Destroy, Clear, Disabled, blockvars
  <2>2. pc' = pc \/ \E x \in {"unlock", "destroy", "clear", "down", "none", "done", "refused"} :
                      pc' = [pc EXCEPT ![a] = x]
    BY <1>3 DEF AwaitAgain, Unlock, Destroy, Clear, Disabled, Goto, Crash
  <2> QED BY <1>1, <2>1, <2>2, HandedMove DEF Starting
<1>4. ASSUME Call \/ Enabled PROVE Handed'
  <2>1. UNCHANGED <<block, made, process, running, watched>>
    BY <1>4 DEF Call, Enabled, blockvars
  <2>2. \E x \in {"stop", "begin", "none"} : pc' = [pc EXCEPT ![Manager] = x]
    BY <1>4 DEF Call, Enabled, Goto
  <2>3. Manager \in Agents
    BY DEF Agents
  <2> QED BY <2>1, <2>2, <2>3, HandedMove DEF Starting
<1>5. ASSUME Timer \/ Rest \/ Wake \/ Shutdown PROVE Handed'
  BY <1>1, <1>5 DEF Timer, Expire, Resume, Rest, Wake, Shutdown, Crash, blockvars
<1>6. ASSUME NEW b \in Blocks, Decides(b) \/ Forget(b) \/ Dismiss(b) PROVE Handed'
  <2>1. UNCHANGED <<block, made, process, running, watched>>
    BY <1>6 DEF Decides, TryLock, Nicely, Decide, Forget, Dismiss, blockvars
  <2>2. \E x \in {"nicely", "held", "done", "revive", "drop", "begin", "disable", "stop",
                "refused"} :
          pc' = [pc EXCEPT ![b] = x]
    BY <1>6 DEF Decides, TryLock, Nicely, Decide, Forget, Dismiss, Goto
  <2>3. b \in Agents
    BY DEF Agents
  <2> QED BY <2>1, <2>2, <2>3, HandedMove DEF Starting
<1> QED BY <1>2, <1>3, <1>4, <1>5, <1>6, HandedStart, HandedDeath
        DEF Next, StopStep, Scheduler, Watcher

LEMMA DaemonStep == DaemonInv /\ [Next]_vars => DaemonInv'
<1> SUFFICES ASSUME DaemonInv, [Next]_vars PROVE DaemonInv'
  OBVIOUS
<1>1. CASE Next
  BY <1>1, BlockTypesStep, MutexTypesStep, ThreadTypesStep, OtherTypesStep, BooleansStep,
     HandedStep, AwaitsStep DEF DaemonInv, TypeOK
<1>2. CASE UNCHANGED vars
  <2>1. TypeOK'
    BY <1>2, Zenon DEF vars, blockvars, mutexvars, schedvars, stopvars, modvars, DaemonInv, TypeOK,
                BlockTypes, MutexTypes, ThreadTypes, OtherTypes, Booleans
  <2>2. Handed' /\ Awaits'
    BY <1>2 DEF vars, blockvars, stopvars, DaemonInv, Handed, Awaits
  <2> QED BY <2>1, <2>2 DEF DaemonInv
<1> QED BY <1>1, <1>2

LEMMA DaemonAlways == Spec => []DaemonInv
BY DaemonInit, DaemonStep, PTL DEF Spec

\* Every variable keeps its kind: in particular no mutex but that of a control block is
\* ever locked, destroyed or timed, though stop_daemon_f and its timer follow dx->cb anew
\* at every use while the watcher clears it.
THEOREM TypeCorrect == Spec => []TypeOK
BY DaemonAlways, PTL DEF DaemonInv

\* dexec_watcher always finds the block of the process it was started for: the scheduler
\* reaps no process before start_daemon_f has listed it, and a block is claimed only once.
THEOREM WatcherFindsBlock == Spec => []FoundOnList
<1>1. DaemonInv => FoundOnList
  BY DEF DaemonInv, Handed, FoundOnList
<1> QED BY <1>1, DaemonAlways, PTL

\* sched_run_sigchild never waits on its semaphore while a process it was told to watch
\* is dead and the semaphore not posted, not even one that died before it was watched.
THEOREM NoDeathMissed == Spec => []DeathPending
<1>1. Init => DeathPending
  BY DEF Init, DeathPending
<1>2. DaemonInv /\ DeathPending /\ [Next]_vars => DeathPending'
  <2> SUFFICES ASSUME DaemonInv, DeathPending, [Next]_vars PROVE DeathPending'
    OBVIOUS
  <2> USE DEF DeathPending
  <2>0. /\ process \in [Blocks -> {"none", "alive", "zombie", "gone"}]
        /\ watched \subseteq Blocks
    BY DEF DaemonInv, TypeOK, BlockTypes
  <2>1. ASSUME UNCHANGED <<process, watched, posted, scheduler>> PROVE DeathPending'
    BY <2>1
  <2>2. ASSUME NEW a \in Agents, Fork(a) PROVE DeathPending'
    <3>1. \A b \in watched : process'[b] = "zombie" => process[b] = "zombie"
      BY <2>0, <2>2 DEF Fork
    <3> QED BY <2>2, <3>1 DEF Fork, schedvars
  <2>3. ASSUME NEW a \in Agents, Watch(a) PROVE DeathPending'
    BY <2>3 DEF Watch
  <2>4. ASSUME NEW b \in Blocks, Die(b) PROVE DeathPending'
    BY <2>4 DEF Die
  <2>5. ASSUME NEW b \in Blocks, Reap(b) PROVE DeathPending'
    BY <2>5 DEF Reap, schedvars
  <2>6. ASSUME Rest \/ Wake PROVE DeathPending'
    BY <2>6 DEF Rest, Wake, blockvars
  <2>7. ASSUME NEW a \in Agents, Prepare(a) \/ List(a) \/ Ready(a) \/ StopStep(a)
        PROVE  UNCHANGED <<process, watched, posted, scheduler>>
    BY <2>7 DEF Prepare, List, Ready, StopStep, Stop, Grab, Term, Await, AwaitAgain, Unlock,
                Destroy, Clear, Disabled, blockvars, schedvars
  <2>8. ASSUME Call \/ Enabled \/ Timer \/ Shutdown \/ UNCHANGED vars
        PROVE  UNCHANGED <<process, watched, posted, scheduler>>
    BY <2>8 DEF Call, Enabled, Timer, Expire, Resume, Shutdown, vars, blockvars, schedvars
  <2>9. ASSUME NEW b \in Blocks, Watcher(b)
        PROVE  UNCHANGED <<process, watched, posted, scheduler>>
    BY <2>9 DEF Watcher, Find, Decides, TryLock, Nicely, Decide, Forget, Dismiss, blockvars, schedvars
  <2> QED BY <2>1, <2>2, <2>3, <2>4, <2>5, <2>6, <2>7, <2>8, <2>9
          DEF Next, Start, Scheduler
<1> QED BY <1>1, <1>2, DaemonAlways, PTL DEF Spec

-----------------------------------------------------------------------------
\* The scheduler implements Reaping.

\* What Reaping sees of a step that leaves processes and the watch list alone.
Seen == <<process, watched, crashed>>

LEMMA ReapingStutters ==
  ASSUME UNCHANGED Seen
  PROVE  UNCHANGED <<Life, watched \cup Reaped, Reaped, crashed>>
BY DEF Seen, Life, Died, Reaped

LEMMA ReapingHalts ==
  ASSUME ~crashed, crashed', UNCHANGED <<process, watched>>, crashed' \in BOOLEAN
  PROVE  Deaths!Halt
BY DEF Deaths!Halt, Life, Died, Reaped

\* start_daemon_f and __sched_watch_pid
LEMMA ReapingStart ==
  ASSUME DaemonInv, NEW a \in Agents
  PROVE  /\ Fork(a) => Deaths!Fork(block[a]) \/ UNCHANGED Seen
         /\ Watch(a) => Deaths!Watch(block[a])
         /\ Fork(a) \/ Watch(a) => block[a] \in Blocks
<1>0. process \in [Blocks -> {"none", "alive", "zombie", "gone"}]
  BY DEF DaemonInv, TypeOK, BlockTypes
<1>1. Fork(a) \/ Watch(a) => block[a] \in Blocks
  BY Numbers DEF DaemonInv, Handed, Starting, Fork, Watch, At, Blocks, TypeOK, BlockTypes
<1>2. ASSUME Fork(a), process' = [process EXCEPT ![block[a]] = "alive"]
      PROVE  Deaths!Fork(block[a])
  <2>1. process[block[a]] = "none" /\ ~crashed /\ crashed' = crashed /\ watched' = watched
    BY <1>2 DEF Fork, At, DaemonInv, Handed
  <2>2. Reaped' = Reaped /\ Died' = Died /\ block[a] \notin Died
    BY <1>0, <1>1, <1>2, <2>1 DEF Reaped, Died
  <2>3. [b \in Blocks |-> IF b \in Died' THEN "dead" ELSE process'[b]]
          = [[b \in Blocks |-> IF b \in Died THEN "dead" ELSE process[b]]
               EXCEPT ![block[a]] = "alive"]
    BY <1>0, <1>1, <1>2, <2>2
  <2> QED BY <1>1, <1>2, <2>1, <2>2, <2>3 DEF Deaths!Fork, Life
<1>3. ASSUME Fork(a), UNCHANGED process PROVE UNCHANGED Seen
  BY <1>3 DEF Fork, Seen
<1>4. ASSUME Watch(a) PROVE Deaths!Watch(block[a])
  <2>1. /\ process[block[a]] \in {"alive", "zombie"} /\ block[a] \notin watched
        /\ ~crashed /\ UNCHANGED <<process, crashed>>
        /\ watched' = watched \cup {block[a]}
    BY <1>4 DEF Watch, At, DaemonInv, Handed, Starting
  <2>2. Reaped' = Reaped /\ Died' = Died
    BY <2>1 DEF Reaped, Died
  <2> QED BY <1>1, <1>4, <2>1, <2>2 DEF Deaths!Watch, Reaped, Life
<1> QED BY <1>1, <1>2, <1>3, <1>4 DEF Fork

LEMMA ReapingDeath ==
  ASSUME DaemonInv, NEW b \in Blocks
  PROVE  /\ Die(b) => Deaths!Die(b)
         /\ Reap(b) => Deaths!Report(b)
<1>0. process \in [Blocks -> {"none", "alive", "zombie", "gone"}]
  BY DEF DaemonInv, TypeOK, BlockTypes
<1>1. ASSUME Die(b) PROVE Deaths!Die(b)
  <2>1. /\ process[b] = "alive" /\ ~crashed /\ UNCHANGED <<watched, crashed>>
        /\ process' = [process EXCEPT ![b] = "zombie"]
    BY <1>1 DEF Die
  <2>2. Reaped' = Reaped /\ Died' = Died \cup {b} /\ b \notin Died
    BY <1>0, <2>1 DEF Reaped, Died
  <2>3. [c \in Blocks |-> IF c \in Died' THEN "dead" ELSE process'[c]]
          = [[c \in Blocks |-> IF c \in Died THEN "dead" ELSE process[c]] EXCEPT ![b] = "dead"]
    BY <1>0, <2>1, <2>2
  <2> QED BY <2>1, <2>2, <2>3 DEF Deaths!Die, Life
<1>2. ASSUME Reap(b) PROVE Deaths!Report(b)
  <2>1. /\ process[b] = "zombie" /\ b \in watched /\ ~crashed /\ crashed' = crashed
        /\ process' = [process EXCEPT ![b] = "gone"] /\ watched' = watched \ {b}
    BY <1>2 DEF Reap
  <2>2. Reaped' = Reaped \cup {b} /\ Died' = Died /\ b \in Died /\ b \notin Reaped
    BY <1>0, <2>1 DEF Reaped, Died
  <2>3. [c \in Blocks |-> IF c \in Died' THEN "dead" ELSE process'[c]]
          = [c \in Blocks |-> IF c \in Died THEN "dead" ELSE process[c]]
    BY <1>0, <2>1, <2>2
  <2>4. watched' \cup Reaped' = watched \cup Reaped
    BY <2>1, <2>2
  <2> QED BY <2>1, <2>2, <2>3, <2>4 DEF Deaths!Report, Life
<1> QED BY <1>1, <1>2

\* Whatever else happens is a stutter, or einit following a null pointer.
LEMMA ReapingRest ==
  ASSUME DaemonInv, Next
  PROVE  \/ \E a \in Agents : Fork(a) \/ Watch(a)
         \/ \E b \in Blocks : Die(b) \/ Reap(b)
         \/ UNCHANGED Seen
         \/ ~crashed /\ crashed' = TRUE /\ UNCHANGED <<process, watched>>
<1> USE DEF Seen
<1>1. ASSUME NEW a \in Agents, Prepare(a) \/ List(a) \/ Ready(a) PROVE UNCHANGED Seen
  BY <1>1 DEF Prepare, List, Ready, blockvars
<1>2. ASSUME NEW a \in Agents, StopStep(a)
      PROVE  \/ UNCHANGED Seen
             \/ ~crashed /\ crashed' = TRUE /\ UNCHANGED <<process, watched>>
  BY <1>2 DEF StopStep, Stop, Grab, Term, Await, AwaitAgain, Unlock, Destroy, Clear, Disabled,
              At, Crash, blockvars
<1>3. ASSUME Timer
      PROVE  \/ UNCHANGED Seen
             \/ ~crashed /\ crashed' = TRUE /\ UNCHANGED <<process, watched>>
  BY <1>3 DEF Timer, Expire, Resume, Crash, blockvars
<1>4. ASSUME Call \/ Enabled \/ Rest \/ Wake \/ Shutdown PROVE UNCHANGED Seen
  BY <1>4 DEF Call, Enabled, Rest, Wake, Shutdown, blockvars
<1>5. ASSUME NEW b \in Blocks, Watcher(b) PROVE UNCHANGED Seen
  BY <1>5 DEF Watcher, Find, Decides, TryLock, Nicely, Decide, Forget, Dismiss, blockvars
<1> QED BY <1>1, <1>2, <1>3, <1>4, <1>5 DEF Next, Start, Scheduler

\* exec.c and scheduler.c implement Reaping, its fairness aside: a process is reported
\* dead only after it has died and somebody has asked for it, and once, whichever of
\* __sched_watch_pid and the death comes first.
THEOREM ReapingImplemented == Spec => Deaths!Spec
<1>1. Init => Deaths!Init
  BY DEF Init, Deaths!Init, Reaped, Died, Life
<1>2. DaemonInv /\ [Next]_vars =>
        [Deaths!Next]_<<Life, watched \cup Reaped, Reaped, crashed>>
  <2> SUFFICES ASSUME DaemonInv, [Next]_vars
               PROVE  Deaths!Next \/ UNCHANGED <<Life, watched \cup Reaped, Reaped, crashed>>
    OBVIOUS
  <2>1. CASE Next
    <3>1. ASSUME NEW a \in Agents, Fork(a) \/ Watch(a)
          PROVE  Deaths!Next \/ UNCHANGED Seen
      <4>1. block[a] \in Blocks
        BY <3>1, ReapingStart
      <4>2. Deaths!Fork(block[a]) \/ Deaths!Watch(block[a]) \/ UNCHANGED Seen
        BY <3>1, ReapingStart
      <4> QED BY <4>1, <4>2 DEF Deaths!Next
    <3>2. ASSUME NEW b \in Blocks, Die(b) \/ Reap(b) PROVE Deaths!Next
      BY <3>2, ReapingDeath DEF Deaths!Next
    <3>3. ASSUME ~crashed /\ crashed' = TRUE /\ UNCHANGED <<process, watched>>
          PROVE  Deaths!Next
      BY <3>3, ReapingHalts DEF Deaths!Next
    <3> QED BY <2>1, <3>1, <3>2, <3>3, ReapingRest, ReapingStutters
  <2>2. CASE UNCHANGED vars
    BY <2>2, ReapingStutters DEF vars, blockvars, Seen
  <2> QED BY <2>1, <2>2
<1> QED BY <1>1, <1>2, DaemonAlways, PTL DEF Spec, Deaths!Spec
=============================================================================
