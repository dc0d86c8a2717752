---------------------------- MODULE ModulesProofs ----------------------------
(***************************************************************************)
(* Proofs about mod() and the service-usage table, for any set of threads, *)
(* modules and services.                                                   *)
(***************************************************************************)
EXTENDS Modules, TLAPS

\* A call past "lock" owns the mutex of its module; a call at "lock" or later
\* has a module and a task.
MutexInv ==
  \A t \in Threads :
    /\ InMod(t) => mutex[subject[t]] = t
    /\ pc[t] # "idle" => subject[t] \in Modules /\ task[t] \in TaskNames

\* Only tasks with a callback get past "entry", and only those that are checked
\* against the usage table reach "check".
StageInv ==
  \A t \in Threads :
    /\ pc[t] \notin {"idle", "lock", "entry"} => task[t] \notin {"suspend", "resume"}
    /\ pc[t] = "check" => task[t] \in {"enable", "disable"}

CoreInv == TypeOK /\ MutexInv /\ StageInv

\* Toggling a bit that cannot make a word ill-formed keeps it a status word.
LEMMA ToggleWord ==
  ASSUME NEW w \in Words, NEW b \in {"working", "suspended"}
  PROVE  /\ Toggle(w, b) \in Words
         /\ w \cup {b} \in Words
         /\ Toggle(w \cup {b}, b) = w \ {b}
         /\ b \in w => Toggle(w, b) = w \ {b}
         /\ w \ {b} \in Words
  BY DEF Words, Bits, Toggle

\* Every outcome of a callback is a status word without working or suspended.
LEMMA OutcomeWord ==
  ASSUME TypeOK, NEW m \in Modules,
         NEW tk \in TaskNames \ {"suspend", "resume"},
         NEW w \in Outcomes(m, tk)
  PROVE  w \in Words /\ "working" \notin w /\ "suspended" \notin w
<1>0. status[m] \in Words
  BY DEF TypeOK
<1>1. CASE tk \in {"enable", "force_enable"}
  BY <1>1 DEF Outcomes, Words, Bits
<1>2. CASE tk = "disable"
  BY <1>2 DEF Outcomes, Words, Bits
<1>3. CASE tk = "zap"
  BY <1>0, <1>3 DEF Outcomes, Words, Bits
<1>4. CASE tk = "custom"
  BY <1>0, <1>4 DEF Outcomes, Words, Bits
<1>5. QED
  BY <1>1, <1>2, <1>3, <1>4 DEF TaskNames

\* service_update leaves a table of the right type.
LEMMA UpdateType ==
  ASSUME TypeOK, ModulesAssumption, NEW m \in Modules, ServiceUpdate(m)
  PROVE  /\ listed' \in SUBSET Services
         /\ provider' \in [Services -> SUBSET Modules]
         /\ users' \in [Services -> SUBSET Modules]
  BY DEF TypeOK, ModulesAssumption, ServiceUpdate

\* The core invariant holds at the start.
LEMMA CoreInit ==
  ASSUME ModulesAssumption, Init
  PROVE  CoreInv
  BY DEF ModulesAssumption, Init, CoreInv, TypeOK, MutexInv, StageInv, Words, Bits,
         Stages, Unlocked, InMod

\* Every step of mod() keeps types, mutex ownership and stages in order.
LEMMA CoreStep ==
  ASSUME ModulesAssumption, CoreInv, [Next]_vars
  PROVE  CoreInv'
<1> USE ModulesAssumption DEF ModulesAssumption
<1>1. CASE UNCHANGED vars
  BY <1>1 DEF vars, usage, callvars, CoreInv, TypeOK, MutexInv, StageInv, InMod, At, Goto, Stages, Unlocked
<1>2. ASSUME NEW t \in Threads, Call(t) \/ Step(t)
      PROVE  CoreInv'
  <2>1. CASE Call(t)
    BY <2>1, <1>2 DEF Call, usage, CoreInv, TypeOK, MutexInv, StageInv, InMod, At, Goto, Stages, Unlocked
  <2>2. CASE TryLockFails(t)
    BY <2>2, <1>2 DEF TryLockFails, Done, usage, CoreInv, TypeOK, MutexInv, StageInv, InMod, At, Goto, Stages, Unlocked
  <2>3. CASE Lock(t)
    BY <2>3, <1>2 DEF Lock, usage, CoreInv, TypeOK, MutexInv, StageInv, InMod, At, Goto, Stages, Unlocked
  <2>4. CASE Suspend(t)
    <3>1. /\ subject[t] \in Modules
          /\ status[subject[t]] \in Words
      BY <2>4, <1>2 DEF Suspend, Admissible, CoreInv, TypeOK, MutexInv, At
    <3>2. status[subject[t]] \cup {"suspended"} \in Words
      BY <3>1, ToggleWord
    <3>3. status' \in [Modules -> Words]
      BY <2>4, <3>1, <3>2 DEF Suspend, SetStatus, CoreInv, TypeOK
    <3>4. /\ At(t, "entry")
          /\ Return(t)
          /\ UNCHANGED <<usage, calls>>
      BY <2>4 DEF Suspend
    <3>5. QED
      BY <1>2, <3>1, <3>3, <3>4 DEF Return, Unlock, Done, usage, CoreInv, TypeOK, MutexInv, StageInv, InMod, At, Goto, Stages, Unlocked
  <2>5. CASE Resume(t)
    <3>1. /\ subject[t] \in Modules
          /\ status[subject[t]] \in Words
      BY <2>5, <1>2 DEF Resume, Admissible, CoreInv, TypeOK, MutexInv, At
    <3>2. Toggle(status[subject[t]], "suspended") \in Words
      BY <3>1, ToggleWord
    <3>3. status' \in [Modules -> Words]
      BY <2>5, <3>1, <3>2 DEF Resume, SetStatus, CoreInv, TypeOK
    <3>4. /\ At(t, "entry")
          /\ Return(t)
          /\ UNCHANGED <<usage, calls>>
      BY <2>5 DEF Resume
    <3>5. QED
      BY <1>2, <3>1, <3>3, <3>4 DEF Return, Unlock, Done, usage, CoreInv, TypeOK, MutexInv, StageInv, InMod, At, Goto, Stages, Unlocked
  <2>6. CASE ResumeFirst(t)
    <3>1. /\ subject[t] \in Modules
          /\ status[subject[t]] \in Words
      BY <2>6, <1>2 DEF ResumeFirst, Admissible, CoreInv, TypeOK, MutexInv, At
    <3>2. Toggle(status[subject[t]], "suspended") \in Words
      BY <3>1, ToggleWord
    <3>3. status' \in [Modules -> Words]
      BY <2>6, <3>1, <3>2 DEF ResumeFirst, SetStatus, CoreInv, TypeOK
    <3>4. /\ At(t, "entry")
          /\ Return(t) \/ UNCHANGED <<mutex, pc, task, subject>>
          /\ UNCHANGED <<usage, calls>>
      BY <2>6 DEF ResumeFirst
    <3>5. QED
      BY <1>2, <3>1, <3>3, <3>4 DEF Return, Unlock, Done, usage, CoreInv, TypeOK, MutexInv, StageInv, InMod, At, Goto, Stages, Unlocked
  <2>7. CASE SkipDependencies(t)
    BY <2>7, <1>2 DEF SkipDependencies, Admissible, SkipsChecks, usage, CoreInv, TypeOK, MutexInv, StageInv, InMod, At, Goto, Stages, Unlocked
  <2>8. CASE WontLoad(t)
    <3>1. /\ subject[t] \in Modules
          /\ status[subject[t]] \in Words
      BY <2>8, <1>2 DEF WontLoad, Admissible, CoreInv, TypeOK, MutexInv, At
    <3>2. Toggle(status[subject[t]] \cup {"working"}, "working") \in Words
      BY <3>1, ToggleWord
    <3>3. status' \in [Modules -> Words]
      BY <2>8, <3>1, <3>2 DEF WontLoad, SetStatus, Admissible, CoreInv, TypeOK
    <3>4. QED
      BY <2>8, <1>2, <3>1, <3>3 DEF WontLoad, SetStatus, Admissible, Return, Unlock, Done, usage, CoreInv, TypeOK, MutexInv, StageInv, InMod, At, Goto, Stages, Unlocked
  <2>9. CASE Begin(t)
    BY ToggleWord, <2>9, <1>2 DEF Begin, Admissible, SkipsChecks, SetStatus, TaskNames, usage, CoreInv, TypeOK, MutexInv, StageInv, InMod, At, Goto, Stages, Unlocked
  <2>10. CASE CheckUsage(t)
    <3>1. /\ subject[t] \in Modules
          /\ status[subject[t]] \in Words
      BY <2>10, <1>2 DEF CheckUsage, Admissible, CoreInv, TypeOK, MutexInv, At
    <3>2. Toggle(status[subject[t]], "working") \in Words
      BY <3>1, ToggleWord
    <3>3. status' \in [Modules -> Words]
      BY <2>10, <3>1, <3>2 DEF CheckUsage, SetStatus, CoreInv, TypeOK
    <3>4. QED
      BY <2>10, <1>2, <3>1, <3>3 DEF CheckUsage, SetStatus, Return, Unlock, Done, usage, CoreInv, TypeOK, MutexInv, StageInv, InMod, At, Goto, Stages, Unlocked
  <2>11. CASE CallbackReturns(t)
    BY OutcomeWord, <2>11, <1>2 DEF CallbackReturns, SetStatus, usage, CoreInv, TypeOK, MutexInv, StageInv, InMod, At, Goto, Stages, Unlocked
  <2>12. CASE UpdateUsage(t)
    BY UpdateType, <2>12, <1>2 DEF UpdateUsage, Return, Unlock, Done, CoreInv, TypeOK, MutexInv, StageInv, InMod, At, Goto, Stages, Unlocked
  <2>13. QED
    BY <1>2, <2>1, <2>2, <2>3, <2>4, <2>5, <2>6, <2>7, <2>8, <2>9, <2>10, <2>11, <2>12 DEF Step
<1>3. QED
  BY <1>1, <1>2 DEF Next

\* Effects of a step on other threads and other modules: only the thread that
\* steps moves, and it touches status and mutex of its own module alone.
LEMMA Frame ==
  ASSUME ModulesAssumption, CoreInv, NEW t \in Threads, Call(t) \/ Step(t)
  PROVE  /\ \A u \in Threads \ {t} : /\ pc'[u] = pc[u]
                                     /\ subject'[u] = subject[u]
         /\ \A n \in Modules \ {subject[t]} : /\ status'[n] = status[n]
                                              /\ mutex'[n] = mutex[n]
         /\ UpdateUsage(t) \/ UNCHANGED usage
<1> USE ModulesAssumption DEF ModulesAssumption
<1>1. CASE Call(t)
  BY <1>1 DEF Call, usage, CoreInv, TypeOK, At, Goto
<1>2. CASE TryLockFails(t)
  BY <1>2 DEF TryLockFails, Done, usage, CoreInv, TypeOK, At, Goto
<1>3. CASE Lock(t)
  BY <1>3 DEF Lock, usage, CoreInv, TypeOK, At, Goto
<1>4. CASE Suspend(t)
  BY <1>4 DEF Suspend, Return, Unlock, Done, SetStatus, usage, CoreInv, TypeOK, At, Goto
<1>5. CASE Resume(t)
  BY <1>5 DEF Resume, Return, Unlock, Done, SetStatus, usage, CoreInv, TypeOK, At, Goto
<1>6. CASE ResumeFirst(t)
  BY <1>6 DEF ResumeFirst, Return, Unlock, Done, SetStatus, usage, CoreInv, TypeOK, At, Goto
<1>7. CASE SkipDependencies(t)
  BY <1>7 DEF SkipDependencies, Admissible, usage, CoreInv, TypeOK, At, Goto
<1>8. CASE WontLoad(t)
  BY <1>8 DEF WontLoad, Admissible, Return, Unlock, Done, SetStatus, usage, CoreInv, TypeOK, At, Goto
<1>9. CASE Begin(t)
  BY <1>9 DEF Begin, Admissible, SetStatus, usage, CoreInv, TypeOK, At, Goto
<1>10. CASE CheckUsage(t)
  BY <1>10 DEF CheckUsage, Return, Unlock, Done, SetStatus, usage, CoreInv, TypeOK, At, Goto
<1>11. CASE CallbackReturns(t)
  BY <1>11 DEF CallbackReturns, SetStatus, usage, CoreInv, TypeOK, At, Goto
<1>12. CASE UpdateUsage(t)
  BY <1>12 DEF UpdateUsage, Return, Unlock, Done, usage, CoreInv, TypeOK, At, Goto
<1>13. QED
  BY <1>1, <1>2, <1>3, <1>4, <1>5, <1>6, <1>7, <1>8, <1>9, <1>10, <1>11, <1>12 DEF Step

\* A callback alone decides whether its module is enabled: what happens to
\* working and suspended leaves the other bits as they are.
LEMMA BitFrame ==
  ASSUME ModulesAssumption, CoreInv, NEW t \in Threads, Call(t) \/ Step(t),
         ~CallbackReturns(t), NEW n \in Modules,
         NEW b \in Bits \ {"working", "suspended"}
  PROVE  b \in status'[n] <=> b \in status[n]
<1> USE ModulesAssumption DEF ModulesAssumption
<1>0. CASE UNCHANGED status
  BY <1>0
<1>1. CASE Suspend(t)
  BY <1>1 DEF Suspend, SetStatus, Toggle, CoreInv, TypeOK
<1>2. CASE Resume(t)
  BY <1>2 DEF Resume, SetStatus, Toggle, CoreInv, TypeOK
<1>3. CASE ResumeFirst(t)
  BY <1>3 DEF ResumeFirst, SetStatus, Toggle, CoreInv, TypeOK
<1>4. CASE WontLoad(t)
  BY <1>4 DEF WontLoad, SetStatus, Toggle, CoreInv, TypeOK
<1>5. CASE Begin(t)
  BY <1>5 DEF Begin, SetStatus, Toggle, CoreInv, TypeOK
<1>6. CASE CheckUsage(t)
  BY <1>6 DEF CheckUsage, SetStatus, Toggle, CoreInv, TypeOK
<1>7. QED
  BY <1>0, <1>1, <1>2, <1>3, <1>4, <1>5, <1>6 DEF Step, Call, TryLockFails, Lock, SkipDependencies, UpdateUsage

\* No step suspends a module that a call is working on.
LEMMA SuspensionStep ==
  ASSUME ModulesAssumption, CoreInv, ActiveNotSuspended, [Next]_vars
  PROVE  ActiveNotSuspended'
<1> USE ModulesAssumption DEF ModulesAssumption, ActiveNotSuspended, IsSuspended
<1>1. CASE UNCHANGED vars
  BY <1>1 DEF vars, callvars
<1>2. ASSUME NEW t \in Threads, Call(t) \/ Step(t)
      PROVE  ActiveNotSuspended'
  <2>1. SUFFICES ASSUME NEW u \in Threads,
                        pc'[u] \in Stages \ {"idle", "lock", "entry"}
                 PROVE  "suspended" \notin status'[subject'[u]]
    OBVIOUS
  <2>2. CASE u # t
    <3>1. /\ pc[u] = pc'[u]
          /\ subject[u] = subject'[u]
      BY <1>2, <2>2, Frame
    <3>2. CASE pc[t] \in {"idle", "lock"}
      BY <1>2, <2>1, <3>1, <3>2 DEF Call, Step, TryLockFails, Lock, Suspend, Resume,
         ResumeFirst, SkipDependencies, WontLoad, Begin, Admissible, CheckUsage, CallbackReturns, UpdateUsage, At
    <3>3. CASE pc[t] \notin {"idle", "lock"}
      <4>1. /\ subject[u] \in Modules
            /\ subject[u] # subject[t]
        BY <2>1, <2>2, <3>1, <3>3 DEF CoreInv, MutexInv, InMod, Unlocked, Stages
      <4>2. status'[subject[u]] = status[subject[u]]
        BY <1>2, <4>1, Frame
      <4>3. QED
        BY <2>1, <3>1, <4>2
    <3>4. QED
      BY <3>2, <3>3
  <2>3. CASE u = t
    <3>1. CASE Call(t)
      BY <3>1, <1>2, <2>1, <2>3 DEF Call, CoreInv, TypeOK, MutexInv, InMod, At, Goto, Stages, Unlocked
    <3>2. CASE TryLockFails(t)
      BY <3>2, <1>2, <2>1, <2>3 DEF TryLockFails, Done, CoreInv, TypeOK, MutexInv, InMod, At, Goto, Stages, Unlocked
    <3>3. CASE Lock(t)
      BY <3>3, <1>2, <2>1, <2>3 DEF Lock, CoreInv, TypeOK, MutexInv, InMod, At, Goto, Stages, Unlocked
    <3>4. CASE Suspend(t)
      BY <3>4, <1>2, <2>1, <2>3 DEF Suspend, Return, Unlock, Done, SetStatus, CoreInv, TypeOK, MutexInv, InMod, At, Goto, Stages, Unlocked
    <3>5. CASE Resume(t)
      BY <3>5, <1>2, <2>1, <2>3 DEF Resume, Return, Unlock, Done, SetStatus, CoreInv, TypeOK, MutexInv, InMod, At, Goto, Stages, Unlocked
    <3>6. CASE ResumeFirst(t)
      BY <3>6, <1>2, <2>1, <2>3 DEF ResumeFirst, Return, Unlock, Done, SetStatus, CoreInv, TypeOK, MutexInv, InMod, At, Goto, Stages, Unlocked
    <3>7. CASE SkipDependencies(t)
      BY <3>7, <1>2, <2>1, <2>3 DEF SkipDependencies, Admissible, CoreInv, TypeOK, MutexInv, InMod, At, Goto, Stages, Unlocked
    <3>8. CASE WontLoad(t)
      BY <3>8, <1>2, <2>1, <2>3 DEF WontLoad, Admissible, Return, Unlock, Done, SetStatus, CoreInv, TypeOK, MutexInv, InMod, At, Goto, Stages, Unlocked
    <3>9. CASE Begin(t)
      <4>1. /\ subject[t] \in Modules
            /\ "suspended" \notin status[subject[t]]
        BY <3>9, <1>2 DEF Begin, Admissible, At, CoreInv, MutexInv
      <4>2. QED
        BY <3>9, <4>1, <2>3 DEF Begin, SetStatus, CoreInv, TypeOK
    <3>10. CASE CheckUsage(t)
      BY <3>10, <1>2, <2>1, <2>3 DEF CheckUsage, Return, Unlock, Done, SetStatus, CoreInv, TypeOK, MutexInv, InMod, At, Goto, Stages, Unlocked
    <3>11. CASE CallbackReturns(t)
      <4>1. /\ subject[t] \in Modules
            /\ task[t] \in TaskNames \ {"suspend", "resume"}
        BY <3>11, <1>2 DEF CallbackReturns, At, CoreInv, MutexInv, StageInv
      <4>2. PICK w \in Outcomes(subject[t], task[t]) : SetStatus(subject[t], w)
        BY <3>11 DEF CallbackReturns
      <4>3. "suspended" \notin w
        BY <4>1, OutcomeWord DEF CoreInv
      <4>4. status'[subject[t]] = w /\ subject'[t] = subject[t]
        BY <3>11, <4>1, <4>2 DEF CallbackReturns, SetStatus, CoreInv, TypeOK
      <4>5. QED
        BY <2>3, <4>3, <4>4
    <3>12. CASE UpdateUsage(t)
      BY <3>12, <1>2, <2>1, <2>3 DEF UpdateUsage, Return, Unlock, Done, CoreInv, TypeOK, MutexInv, InMod, At, Goto, Stages, Unlocked
    <3>13. QED
      BY <1>2, <3>1, <3>2, <3>3, <3>4, <3>5, <3>6, <3>7, <3>8, <3>9, <3>10, <3>11, <3>12 DEF Step
  <2>4. QED
    BY <2>2, <2>3
<1>3. QED
  BY <1>1, <1>2 DEF Next

\* status_working is set only by a call that is on its way from the checks to
\* the callback: the strengthening under which WorkingMeansBusy is inductive.
WorkingBy ==
  \A m \in Modules : "working" \in status[m] =>
    \E t \in Threads : subject[t] = m /\ pc[t] \in {"check", "callback"}

\* A call that is about to ask the usage table has marked its module working.
CheckMarked ==
  \A t \in Threads : pc[t] = "check" => "working" \in status[subject[t]]

LEMMA CheckMarkedStep ==
  ASSUME ModulesAssumption, CoreInv, CheckMarked, [Next]_vars
  PROVE  CheckMarked'
<1> USE ModulesAssumption DEF ModulesAssumption
<1>1. CASE UNCHANGED vars
  BY <1>1 DEF vars, callvars, CheckMarked
<1>2. ASSUME NEW t \in Threads, Call(t) \/ Step(t)
      PROVE  CheckMarked'
  <2>1. SUFFICES ASSUME NEW u \in Threads, pc'[u] = "check"
                 PROVE  "working" \in status'[subject'[u]]
    BY DEF CheckMarked
  <2>2. CASE u # t
    <3>1. pc[u] = "check" /\ subject[u] = subject'[u] /\ subject[u] \in Modules
      BY <1>2, <2>1, <2>2, Frame DEF CoreInv, MutexInv
    <3>2. CASE UNCHANGED status
      BY <3>1, <3>2 DEF CheckMarked
    <3>3. CASE ~UNCHANGED status
      <4>1. pc[t] \notin {"idle", "lock"}
        BY <1>2, <3>3 DEF Call, Step, TryLockFails, Lock, Suspend, Resume,
           ResumeFirst, SkipDependencies, WontLoad, Begin, Admissible, CheckUsage, CallbackReturns, UpdateUsage, At
      <4>2. subject[u] # subject[t]
        BY <2>2, <3>1, <4>1 DEF CoreInv, MutexInv, InMod, Unlocked
      <4>3. QED
        BY <1>2, <3>1, <4>2, Frame DEF CheckMarked
    <3>4. QED
      BY <3>2, <3>3
  <2>3. CASE u = t
    <3>1. Begin(t)
      BY <1>2, <2>1, <2>3 DEF Call, Step, TryLockFails, Lock, Suspend, Resume,
         ResumeFirst, SkipDependencies, WontLoad, Admissible, CheckUsage, CallbackReturns, UpdateUsage, Return, Done,
         Goto, At, CoreInv, TypeOK
    <3>2. subject[t] \in Modules
      BY <3>1 DEF Begin, Admissible, At, CoreInv, MutexInv
    <3>3. QED
      BY <2>3, <3>1, <3>2 DEF Begin, SetStatus, CoreInv, TypeOK
  <2>4. QED
    BY <2>2, <2>3
<1>3. QED
  BY <1>1, <1>2 DEF Next

\* A call that leaves that stretch has cleared the bit, or its callback's word
\* has replaced it.
LEMMA WorkingStep ==
  ASSUME ModulesAssumption, CoreInv, CheckMarked, WorkingBy, [Next]_vars
  PROVE  WorkingBy'
<1> USE ModulesAssumption DEF ModulesAssumption
<1> DEFINE Busy == {"check", "callback"}
<1>1. CASE UNCHANGED vars
  BY <1>1 DEF vars, callvars, WorkingBy
<1>2. ASSUME NEW t \in Threads, Call(t) \/ Step(t)
      PROVE  WorkingBy'
  <2>1. SUFFICES ASSUME NEW m \in Modules, "working" \in status'[m]
                 PROVE  \E u \in Threads : subject'[u] = m /\ pc'[u] \in Busy
    BY DEF WorkingBy
  <2>2. ASSUME NEW u \in Threads \ {t}, subject[u] = m, pc[u] \in Busy
        PROVE  subject'[u] = m /\ pc'[u] \in Busy
    BY <1>2, <2>2, Frame
  <2>3. CASE "working" \in status[m] /\ (pc[t] \notin Busy \/ subject[t] # m)
    BY <2>2, <2>3 DEF WorkingBy
  <2>4. CASE "working" \in status[m] /\ pc[t] \in Busy /\ subject[t] = m
    <3>1. CASE CheckUsage(t)
      <4>1. CASE pc'[t] = "callback"
        BY <2>4, <3>1, <4>1 DEF CheckUsage, Return, Done, Goto, CoreInv, TypeOK
      <4>2. CASE pc'[t] # "callback"
        BY <2>1, <2>4, <3>1, <4>2 DEF CheckUsage, Goto, SetStatus, Toggle, CoreInv, TypeOK
      <4>3. QED
        BY <4>1, <4>2
    <3>2. CASE CallbackReturns(t)
      <4>1. task[t] \in TaskNames \ {"suspend", "resume"}
        BY <3>2 DEF CallbackReturns, At, CoreInv, MutexInv, StageInv
      <4>2. PICK w \in Outcomes(subject[t], task[t]) : SetStatus(subject[t], w)
        BY <3>2 DEF CallbackReturns
      <4>3. "working" \notin w
        BY <2>4, <4>1, OutcomeWord DEF CoreInv
      <4>4. status'[m] = w
        BY <2>4, <4>2 DEF SetStatus, CoreInv, TypeOK
      <4>5. QED
        BY <2>1, <4>3, <4>4
    <3>3. QED
      BY <1>2, <2>4, <3>1, <3>2 DEF Call, Step, TryLockFails, Lock, Suspend, Resume,
         ResumeFirst, SkipDependencies, WontLoad, Begin, Admissible, UpdateUsage, At
  <2>5. CASE "working" \notin status[m]
    <3>1. subject[t] = m /\ ~UNCHANGED status
      BY <1>2, <2>1, <2>5, Frame
    <3>2. CASE Begin(t)
      BY <3>1, <3>2 DEF Begin, Goto, CoreInv, TypeOK
    <3>3. CASE Suspend(t) \/ Resume(t) \/ ResumeFirst(t)
      BY <2>1, <2>5, <3>1, <3>3 DEF Suspend, Resume, ResumeFirst, SetStatus, Toggle, CoreInv, TypeOK
    <3>4. CASE WontLoad(t) \/ CheckUsage(t)
      <4>1. CASE WontLoad(t)
        BY <2>1, <2>5, <3>1, <4>1 DEF WontLoad, SetStatus, Toggle, CoreInv, TypeOK
      <4>2. CASE CheckUsage(t)
        BY <2>5, <3>1, <4>2 DEF CheckUsage, At, CheckMarked
      <4>3. QED
        BY <3>4, <4>1, <4>2
    <3>5. CASE CallbackReturns(t)
      <4>1. task[t] \in TaskNames \ {"suspend", "resume"}
        BY <3>5 DEF CallbackReturns, At, CoreInv, MutexInv, StageInv
      <4>2. PICK w \in Outcomes(subject[t], task[t]) : SetStatus(subject[t], w)
        BY <3>5 DEF CallbackReturns
      <4>3. "working" \notin w
        BY <3>1, <4>1, OutcomeWord DEF CoreInv
      <4>4. status'[m] = w
        BY <3>1, <4>2 DEF SetStatus, CoreInv, TypeOK
      <4>5. QED
        BY <2>1, <4>3, <4>4
    <3>6. QED
      BY <1>2, <3>1, <3>2, <3>3, <3>4, <3>5 DEF Step, Call, TryLockFails, Lock,
         SkipDependencies, UpdateUsage
  <2>6. QED
    BY <2>3, <2>4, <2>5
<1>3. QED
  BY <1>1, <1>2 DEF Next

\* Even inside that window the table lists a module only under what it provides
\* and requires.
TableSound ==
  \A m \in Modules, s \in Services :
    /\ m \in provider[s] => s \in Provides[m]
    /\ m \in users[s] => s \in Requires[m]

LEMMA TableStep ==
  ASSUME ModulesAssumption, CoreInv, TableSound, [Next]_vars
  PROVE  TableSound'
<1> USE ModulesAssumption DEF ModulesAssumption
<1>1. CASE UNCHANGED vars
  BY <1>1 DEF vars, usage, TableSound
<1>2. ASSUME NEW t \in Threads, Call(t) \/ Step(t)
      PROVE  TableSound'
  <2>1. CASE UpdateUsage(t)
    BY <2>1 DEF UpdateUsage, ServiceUpdate, TableSound
  <2>2. CASE ~UpdateUsage(t)
    BY <1>2, <2>2, Frame DEF usage, TableSound
  <2>3. QED
    BY <2>1, <2>2
<1>3. QED
  BY <1>1, <1>2 DEF Next

\* No step lets the usage table and the status words drift apart: the word's
\* enabled bit and the table change only in a callback and in service_update,
\* and the exemption of UsageMatchesStatus spans just the time between the two.
LEMMA UsageStep ==
  ASSUME ModulesAssumption, CoreInv, TableSound, UsageMatchesStatus, [Next]_vars
  PROVE  UsageMatchesStatus'
<1> USE ModulesAssumption DEF ModulesAssumption
<1>1. CASE UNCHANGED vars
  BY <1>1 DEF vars, callvars, usage, UsageMatchesStatus, IsEnabled
<1>2. ASSUME NEW t \in Threads, Call(t) \/ Step(t)
      PROVE  UsageMatchesStatus'
  <2>1. SUFFICES ASSUME NEW m \in Modules,
                        \A u \in Threads : ~(pc'[u] = "update" /\ subject'[u] = m)
                 PROVE  /\ \A s \in Services : m \in provider'[s] <=>
                             "enabled" \in status'[m] /\ s \in Provides[m]
                        /\ \A s \in Services : m \in users'[s] =>
                             "enabled" \in status'[m] /\ s \in Requires[m]
    BY DEF UsageMatchesStatus, IsEnabled
  <2>2. CASE UpdateUsage(t)
    <3>1. status' = status /\ subject[t] \in Modules
      BY <2>2 DEF UpdateUsage, At, CoreInv, MutexInv
    <3>2. CASE subject[t] = m
      <4>1. CASE IsEnabled(m)
        <5>1. \A s \in Services :
                /\ provider'[s] = IF s \in Provides[m] THEN provider[s] \cup {m}
                                                      ELSE provider[s]
                /\ users'[s] = IF s \in Requires[m] \cap listed
                                 THEN users[s] \cup {m} ELSE users[s]
          BY <2>2, <3>2, <4>1 DEF UpdateUsage, ServiceUpdate
        <5>2. QED
          BY <3>1, <4>1, <5>1 DEF TableSound, IsEnabled
      <4>2. CASE ~IsEnabled(m)
        BY <2>2, <3>1, <3>2, <4>2 DEF UpdateUsage, ServiceUpdate, IsEnabled
      <4>3. QED
        BY <4>1, <4>2
    <3>3. CASE subject[t] # m
      <4>1. \A u \in Threads : ~(pc[u] = "update" /\ subject[u] = m)
        BY <1>2, <2>1, <3>3, Frame
      <4>2. \A s \in Services : /\ m \in provider'[s] <=> m \in provider[s]
                                /\ m \in users'[s] <=> m \in users[s]
        BY <2>2, <3>1, <3>3 DEF UpdateUsage, ServiceUpdate, CoreInv, TypeOK
      <4>3. QED
        BY <3>1, <4>1, <4>2 DEF UsageMatchesStatus, IsEnabled
    <3>4. QED
      BY <3>2, <3>3
  <2>3. CASE CallbackReturns(t)
    <3>1. /\ pc'[t] = "update" /\ subject'[t] = subject[t]
          /\ pc[t] = "callback"
      BY <2>3 DEF CallbackReturns, Goto, At, CoreInv, TypeOK
    <3>2. subject[t] # m
      BY <2>1, <3>1
    <3>3. \A u \in Threads : ~(pc[u] = "update" /\ subject[u] = m)
      BY <1>2, <2>1, <3>1, Frame
    <3>4. status'[m] = status[m] /\ UNCHANGED usage
      BY <1>2, <2>3, <3>2, Frame DEF CallbackReturns
    <3>5. QED
      BY <3>3, <3>4 DEF usage, UsageMatchesStatus, IsEnabled
  <2>4. CASE ~UpdateUsage(t) /\ ~CallbackReturns(t)
    <3>1. pc[t] # "update"
      BY <1>2, <2>4 DEF Call, Step, TryLockFails, Lock, Suspend, Resume,
         ResumeFirst, SkipDependencies, WontLoad, Begin, Admissible, CheckUsage, At
    <3>2. \A u \in Threads : ~(pc[u] = "update" /\ subject[u] = m)
      BY <1>2, <2>1, <3>1, Frame
    <3>3. UNCHANGED usage
      BY <1>2, <2>4, Frame
    <3>4. "enabled" \in status'[m] <=> "enabled" \in status[m]
      BY <1>2, <2>4, BitFrame DEF Bits
    <3>5. QED
      BY <3>2, <3>3, <3>4 DEF usage, UsageMatchesStatus, IsEnabled
  <2>5. QED
    BY <2>2, <2>3, <2>4
<1>3. QED
  BY <1>1, <1>2 DEF Next

\* The inductive invariant of mod().
ModInv ==
  /\ CoreInv
  /\ ActiveNotSuspended
  /\ CheckMarked /\ WorkingBy
  /\ TableSound /\ UsageMatchesStatus

LEMMA ModInvariant == Spec => []ModInv
<1> USE ModulesAssumption
<1>1. Init => ModInv
  <2> SUFFICES ASSUME Init PROVE ModInv
    OBVIOUS
  <2>1. CoreInv
    BY CoreInit
  <2>2. ActiveNotSuspended /\ CheckMarked /\ WorkingBy
    BY DEF Init, ActiveNotSuspended, Stages, Unlocked, CheckMarked, WorkingBy
  <2>3. TableSound /\ UsageMatchesStatus
    BY DEF Init, TableSound, UsageMatchesStatus, IsEnabled
  <2>4. QED
    BY <2>1, <2>2, <2>3 DEF ModInv
<1>2. ModInv /\ [Next]_vars => ModInv'
  BY CoreStep, SuspensionStep, CheckMarkedStep, WorkingStep, TableStep, UsageStep
     DEF ModInv
<1>3. QED
  BY <1>1, <1>2, PTL DEF Spec

\* Status words, mutex owners, the table and the calls keep their types, and no
\* word ever says both enabled and disabled.
THEOREM TypeCorrect == Spec => []TypeOK
<1>1. ModInv => TypeOK
  BY DEF ModInv, CoreInv
<1>2. QED
  BY <1>1, ModInvariant, PTL

\* Callbacks of one module never overlap, for any number of threads.
THEOREM CallsExclusive == Spec => []OneCallPerModule
<1>1. ModInv => OneCallPerModule
  BY DEF ModInv, CoreInv, MutexInv, OneCallPerModule
<1>2. QED
  BY <1>1, ModInvariant, PTL

\* No module function runs on a suspended module.
THEOREM ResumedBeforeUse == Spec => []ActiveNotSuspended
<1>1. ModInv => ActiveNotSuspended
  BY DEF ModInv
<1>2. QED
  BY <1>1, ModInvariant, PTL

\* A module marked working is locked by the call that works on it.
THEOREM WorkingIsLocked == Spec => []WorkingMeansBusy
<1>1. ModInv => WorkingMeansBusy
  BY ModulesAssumption DEF ModulesAssumption, ModInv, CoreInv, MutexInv, InMod,
     Unlocked, WorkingBy, WorkingMeansBusy
<1>2. QED
  BY <1>1, ModInvariant, PTL

\* The usage table mirrors the status words outside a call's update window.
THEOREM UsageConsistent == Spec => []UsageMatchesStatus
<1>1. ModInv => UsageMatchesStatus
  BY DEF ModInv
<1>2. QED
  BY <1>1, ModInvariant, PTL

-----------------------------------------------------------------------------
(***************************************************************************)
(* The dependency guarantee of a single caller.                            *)
(***************************************************************************)

\* One thread, no task that jumps over the dependency checks, and no suspension:
\* the word of a suspended idle module is not idle, and a disable() that fails
\* on such a module marks it enabled whatever it requires.
Sequential ==
  /\ \A t, u \in Threads : t = u
  /\ Tasks \subseteq {"enable", "disable"}

InUpdate(m) == \E t \in Threads : pc[t] = "update" /\ subject[t] = m

\* What the answer of the usage table is worth between the question and the
\* update of the table: nobody else changed it.
SeqInv ==
  /\ \A s \in Services : provider[s] # {} => s \in listed
  /\ \A m \in Modules : \A s \in Requires[m] :
       IsEnabled(m) => provider[s] # {} /\ (m \in users[s] \/ InUpdate(m))
  /\ \A m \in Modules : \/ IsEnabled(m) \/ IsDisabled(m)
                          \/ status[m] \subseteq {"working"}
  /\ \A t \in Threads :
       /\ task[t] \in {"none", "enable", "disable"}
       /\ pc[t] \in {"lock", "entry", "check"} /\ task[t] = "disable" =>
            IsEnabled(subject[t]) \/ IsDisabled(subject[t])
       /\ pc[t] \in {"callback", "update"} =>
            DependenciesAllow(subject[t], task[t])
       /\ pc[t] \in {"check", "callback"} /\ task[t] = "enable" =>
            ~IsEnabled(subject[t])
       /\ pc[t] \in {"check", "callback"} /\ task[t] = "disable" =>
            IsEnabled(subject[t])
       /\ pc[t] = "update" /\ task[t] = "enable" =>
            \A s \in Services : subject[t] \notin provider[s]

\* Steps other than a callback and service_update leave both halves alone.
LEMMA SeqQuiet ==
  ASSUME ModulesAssumption, Sequential, ModInv, SeqInv,
         NEW t \in Threads, Call(t) \/ Step(t),
         ~CallbackReturns(t), ~UpdateUsage(t)
  PROVE  SeqInv'
<1> USE ModulesAssumption DEF ModulesAssumption
<1>1. UNCHANGED usage
  BY Frame DEF ModInv
<1>2. \A m \in Modules : IsEnabled(m)' <=> IsEnabled(m)
  BY BitFrame DEF ModInv, IsEnabled, Bits
<1>3. \A m \in Modules : InUpdate(m)' <=> InUpdate(m)
  <2>1. pc[t] # "update"
    BY DEF Call, Step, TryLockFails, Lock, Suspend, Resume, ResumeFirst,
       SkipDependencies, WontLoad, Begin, Admissible, CheckUsage, At
  <2>2. pc'[t] # "update"
    BY <2>1 DEF Call, Step, TryLockFails, Lock, Suspend, Resume, ResumeFirst,
       SkipDependencies, WontLoad, Begin, CheckUsage, Return, Done, Goto, ModInv, CoreInv, TypeOK
  <2>3. QED
    BY <2>1, <2>2 DEF Sequential, InUpdate
<1>4. task'[t] \in {"none", "enable", "disable"}
  BY DEF Call, Step, TryLockFails, Lock, Suspend, Resume, ResumeFirst, Sequential,
     SkipDependencies, WontLoad, Begin, CheckUsage, Return, Done, SeqInv, ModInv, CoreInv, TypeOK
<1>5. pc'[t] \in {"callback", "update"} =>
        /\ DependenciesAllow(subject[t], task[t])
        /\ subject'[t] = subject[t] /\ task'[t] = task[t]
  <2>1. CASE CheckUsage(t)
    BY <2>1 DEF CheckUsage, Return, Done, Goto, ModInv, CoreInv, TypeOK
  <2>2. CASE ~CheckUsage(t)
    BY <2>2 DEF Call, Step, TryLockFails, Lock, Suspend, Resume, ResumeFirst,
       SkipDependencies, Admissible, SkipsChecks, WontLoad, Begin, Return, Done, Goto, At, SeqInv, ModInv, CoreInv, TypeOK
  <2>3. QED
    BY <2>1, <2>2
<1>6. pc'[t] \in {"check", "callback"} /\ task'[t] = "enable" =>
        ~IsEnabled(subject[t]) /\ subject'[t] = subject[t] /\ subject[t] \in Modules
  <2>1. CASE Begin(t)
    BY <2>1 DEF Begin, Admissible, At, AlreadyDone, SeqInv, ModInv, CoreInv, TypeOK, MutexInv
  <2>2. CASE ~Begin(t)
    BY <2>2 DEF Call, Step, TryLockFails, Lock, Suspend, Resume, ResumeFirst, CheckUsage,
       SkipDependencies, Admissible, SkipsChecks, WontLoad, Return, Done, Goto, At, SeqInv, ModInv, CoreInv, TypeOK, MutexInv
  <2>3. QED
    BY <2>1, <2>2
<1>7. pc'[t] \in {"check", "callback"} /\ task'[t] = "disable" =>
         IsEnabled(subject[t]) /\ subject'[t] = subject[t] /\ subject[t] \in Modules
  <2>1. CASE Begin(t)
    <3>1. /\ subject[t] \in Modules /\ pc[t] = "entry"
          /\ "suspended" \notin status[subject[t]]
      BY <2>1 DEF Begin, Admissible, IsSuspended, At, ModInv, CoreInv, MutexInv
    <3>2. "working" \notin status[subject[t]]
      BY <3>1 DEF Sequential, ModInv, WorkingBy
    <3>3. task[t] = "disable" => IsEnabled(subject[t])
      BY <2>1, <3>1, <3>2 DEF Begin, AlreadyDone, SeqInv
    <3>4. QED
      BY <2>1, <3>1, <3>3 DEF Begin
  <2>2. CASE ~Begin(t)
    BY <2>2 DEF Call, Step, TryLockFails, Lock, Suspend, Resume, ResumeFirst, CheckUsage,
       SkipDependencies, Admissible, SkipsChecks, WontLoad, Return, Done, Goto, At, SeqInv, ModInv, CoreInv, TypeOK, MutexInv
  <2>3. QED
    BY <2>1, <2>2
<1>8. pc'[t] # "update"
  BY DEF Call, Step, TryLockFails, Lock, Suspend, Resume, ResumeFirst, SkipDependencies,
     WontLoad, Begin, Admissible, CheckUsage,
     Return, Done, Goto, At, ModInv, CoreInv, TypeOK
<1>9. \A s \in Services : provider'[s] # {} => s \in listed'
  BY <1>1 DEF usage, SeqInv
<1>10. \A m \in Modules : \A s \in Requires[m] :
        IsEnabled(m)' => provider'[s] # {} /\ (m \in users'[s] \/ InUpdate(m)')
  BY <1>1, <1>2, <1>3 DEF usage, SeqInv
<1>11. \A u \in Threads : u = t
  BY DEF Sequential
<1>12. \A m : DependenciesAllow(m, task[t])' <=> DependenciesAllow(m, task'[t])
  BY <1>1 DEF usage, DependenciesAllow, RequirementsMet, NotInUse
<1>13. \A m \in Modules : \/ IsEnabled(m)' \/ IsDisabled(m)'
                           \/ status'[m] \subseteq {"working"}
  <2> TAKE m \in Modules
  <2>1. /\ status[m] \in SUBSET Bits
        /\ status'[m] \in SUBSET Bits
    BY CoreStep DEF Next, ModInv, CoreInv, TypeOK, Words
  <2>2. \A b \in Bits \ {"working", "suspended"} : b \in status'[m] <=> b \in status[m]
    BY BitFrame DEF ModInv
  <2>3. "suspended" \in status'[m] => "suspended" \in status[m]
    <3>1. ~Suspend(t) /\ ~Resume(t)
      BY DEF Suspend, Resume, SeqInv
    <3>2. CASE ResumeFirst(t)
      <4>1. \/ status' = status
            \/ "suspended" \in status[subject[t]] /\ SetStatus(subject[t], Toggle(status[subject[t]], "suspended"))
        BY <3>2 DEF ResumeFirst, IsSuspended
      <4>2. m # subject[t] => status'[m] = status[m]
        BY <4>1 DEF SetStatus, ModInv, CoreInv, TypeOK
      <4>3. m = subject[t] => status'[m] = status[m] \/ "suspended" \in status[m]
        BY <4>1
      <4>4. QED
        BY <4>2, <4>3
    <3>6. CASE WontLoad(t)
      BY <2>1, <3>6 DEF WontLoad, SetStatus, Toggle, ModInv, CoreInv, TypeOK
    <3>3. CASE Begin(t) \/ CheckUsage(t)
      BY <2>1, <3>3 DEF Begin, CheckUsage, SetStatus, Toggle, ModInv, CoreInv, TypeOK
    <3>4. CASE UNCHANGED status
      BY <3>4
    <3>5. QED
      BY <3>1, <3>2, <3>3, <3>4, <3>6
         DEF Call, Step, TryLockFails, Lock, SkipDependencies
  <2>4. QED
    BY <2>1, <2>2, <2>3 DEF SeqInv, IsEnabled, IsDisabled, Bits
<1>14. pc'[t] \in {"lock", "entry", "check"} /\ task'[t] = "disable" =>
         IsEnabled(subject[t])' \/ IsDisabled(subject[t])'
  <2>1. \A m \in Modules : IsDisabled(m)' <=> IsDisabled(m)
    BY BitFrame DEF ModInv, IsDisabled, Bits
  <2>2. CASE Call(t)
    <3>1. \E m \in Modules : Asked(m, task'[t]) /\ subject'[t] = m
      BY <2>2 DEF Call, ModInv, CoreInv, TypeOK
    <3>2. subject'[t] \in Modules /\ Asked(subject'[t], task'[t])
      BY <3>1
    <3>3. "working" \notin status[subject'[t]]
      BY <2>2, <3>2 DEF Call, At, Sequential, ModInv, WorkingBy
    <3>4. task'[t] = "disable" => IsEnabled(subject'[t]) \/ IsDisabled(subject'[t])
      BY <3>2, <3>3 DEF SeqInv, Asked
    <3>5. QED
      BY <1>2, <2>1, <3>2, <3>4 DEF IsEnabled, IsDisabled
  <2>3. CASE ~Call(t)
    <3>1. pc'[t] \in {"lock", "entry", "check"} /\ task'[t] = "disable" =>
            /\ pc[t] \in {"lock", "entry", "check"} /\ task[t] = "disable"
            /\ subject'[t] = subject[t] /\ subject[t] \in Modules
      BY <2>3 DEF Step, TryLockFails, Lock, Suspend, Resume, ResumeFirst, CheckUsage,
         SkipDependencies, Admissible, WontLoad, Begin, Return, Done, Goto, At, ModInv,
         CoreInv, TypeOK, MutexInv
    <3>2. QED
      BY <1>2, <2>1, <3>1 DEF SeqInv
  <2>4. QED
    BY <2>2, <2>3
<1>15. \A u \in Threads :
         /\ task'[u] \in {"none", "enable", "disable"}
         /\ pc'[u] # "update"
         /\ pc'[u] \in {"lock", "entry", "check"} /\ task'[u] = "disable" =>
              IsEnabled(subject[u])' \/ IsDisabled(subject[u])'
         /\ pc'[u] = "callback" => DependenciesAllow(subject[u], task[u])'
         /\ pc'[u] \in {"check", "callback"} /\ task'[u] = "enable" =>
              ~IsEnabled(subject[u])'
         /\ pc'[u] \in {"check", "callback"} /\ task'[u] = "disable" =>
              IsEnabled(subject[u])'
  BY <1>1, <1>2, <1>4, <1>5, <1>6, <1>7, <1>8, <1>11, <1>12, <1>14
     DEF IsEnabled, IsDisabled, DependenciesAllow, RequirementsMet, NotInUse, usage
<1>16. QED
  BY <1>9, <1>10, <1>13, <1>15 DEF SeqInv

\* A callback turns an admitted enable into an enabled module whose requirements
\* still have providers.
LEMMA SeqCallback ==
  ASSUME ModulesAssumption, Sequential, ModInv, SeqInv,
         NEW t \in Threads, CallbackReturns(t),
         NEW k \in Modules, k = subject[t]
  PROVE  SeqInv'
<1> USE ModulesAssumption DEF ModulesAssumption
<1>1. /\ task[t] \in {"enable", "disable"}
      /\ pc[t] = "callback" /\ pc' = [pc EXCEPT ![t] = "update"]
      /\ UNCHANGED <<usage, task, subject>>
  <2>1. pc[t] = "callback" /\ pc' = [pc EXCEPT ![t] = "update"]
    BY DEF CallbackReturns, At, Goto
  <2>2. task[t] \notin {"none", "suspend", "resume"}
    BY <2>1 DEF ModInv, CoreInv, MutexInv, StageInv, TaskNames
  <2>3. QED
    BY <2>1, <2>2 DEF CallbackReturns, SeqInv
<1>2. \A n \in Modules \ {k} : IsEnabled(n)' <=> IsEnabled(n)
  BY Frame DEF Step, ModInv, IsEnabled
<1>3. \A u \in Threads : u = t
  BY DEF Sequential
<1>4. InUpdate(k)'
  BY <1>1 DEF InUpdate, ModInv, CoreInv, TypeOK
<1>5. DependenciesAllow(k, task[t])
  BY <1>1 DEF SeqInv
<1>6. task[t] = "enable" => \A s \in Services : k \notin provider[s]
  <2>1. ~ \E u \in Threads : pc[u] = "update" /\ subject[u] = k
    BY <1>1, <1>3
  <2>2. task[t] = "enable" => ~IsEnabled(k)
    BY <1>1 DEF SeqInv
  <2>3. QED
    BY <1>1, <2>1, <2>2 DEF ModInv, UsageMatchesStatus
<1>7. \A s \in Requires[k] : IsEnabled(k)' => provider[s] # {}
  <2>1. CASE task[t] = "enable"
    BY <1>5, <2>1 DEF DependenciesAllow, RequirementsMet
  <2>2. CASE task[t] = "disable"
    <3>1. IsEnabled(k)
      BY <1>1, <2>2 DEF SeqInv
    <3>2. QED
      BY <1>1, <3>1 DEF SeqInv
  <2>3. QED
    BY <1>1, <2>1, <2>2
<1>8. \A m \in Modules : \A s \in Requires[m] :
        IsEnabled(m)' => provider[s] # {} /\ (m \in users[s] \/ InUpdate(m)')
  <2> TAKE m \in Modules
  <2> TAKE s \in Requires[m]
  <2>1. CASE m = k
    BY <1>4, <1>7, <2>1
  <2>2. CASE m # k
    <3>1. ~InUpdate(m)
      BY <1>1, <1>3 DEF InUpdate
    <3>2. QED
      BY <1>2, <2>2, <3>1 DEF SeqInv
  <2>3. QED
    BY <2>1, <2>2
<1>9. \A m \in Modules : \/ IsEnabled(m)' \/ IsDisabled(m)'
                          \/ status'[m] \subseteq {"working"}
  <2>1. IsEnabled(k)' \/ IsDisabled(k)'
    BY <1>1 DEF CallbackReturns, Outcomes, SetStatus, IsEnabled, IsDisabled, ModInv,
       CoreInv, TypeOK
  <2>2. \A m \in Modules \ {k} : status'[m] = status[m]
    BY Frame DEF Step, ModInv
  <2>3. QED
    BY <2>1, <2>2 DEF SeqInv, IsEnabled, IsDisabled
<1>10. DependenciesAllow(k, task[t])'
  BY <1>1, <1>5 DEF usage, DependenciesAllow, RequirementsMet, NotInUse
<1>11. pc'[t] = "update"
  BY <1>1 DEF ModInv, CoreInv, TypeOK
<1>12. \A u \in Threads :
         /\ task'[u] \in {"none", "enable", "disable"}
         /\ pc'[u] = "update"
         /\ DependenciesAllow(subject[u], task[u])'
         /\ task'[u] = "enable" => \A s \in Services : subject'[u] \notin provider'[s]
  BY <1>1, <1>3, <1>6, <1>10, <1>11 DEF usage
<1>13. /\ \A s \in Services : provider'[s] # {} => s \in listed'
       /\ \A m \in Modules : \A s \in Requires[m] :
            IsEnabled(m)' => provider'[s] # {} /\ (m \in users'[s] \/ InUpdate(m)')
  BY <1>1, <1>8 DEF usage, SeqInv
<1>14. QED
  BY <1>9, <1>12, <1>13 DEF SeqInv

\* service_update takes away providers only where the table said that no user
\* depends on them, and lists an enabled module as a user of what it requires.
LEMMA SeqUpdate ==
  ASSUME ModulesAssumption, Sequential, ModInv, SeqInv,
         NEW t \in Threads, UpdateUsage(t),
         NEW k \in Modules, k = subject[t]
  PROVE  SeqInv'
<1> USE ModulesAssumption DEF ModulesAssumption
<1>1. /\ pc[t] = "update" /\ pc' = [pc EXCEPT ![t] = "idle"]
      /\ status' = status
      /\ task' = [task EXCEPT ![t] = "none"]
      /\ ServiceUpdate(k)
      /\ task[t] \in {"enable", "disable"}
      /\ DependenciesAllow(k, task[t])
  <2>1. pc[t] = "update" /\ ServiceUpdate(k) /\ status' = status
    BY DEF UpdateUsage, At
  <2>2. task[t] \notin {"none", "suspend", "resume"}
    BY <2>1 DEF ModInv, CoreInv, MutexInv, StageInv, TaskNames
  <2>3. QED
    BY <2>1, <2>2 DEF UpdateUsage, Return, Done, Goto, SeqInv
<1>2. \A u \in Threads : u = t
  BY DEF Sequential
<1>3. \A m \in Modules \ {k} : ~InUpdate(m)
  BY <1>1, <1>2 DEF InUpdate
<1>4. \A s \in Services : provider'[s] # {} => s \in listed'
  BY <1>1 DEF ServiceUpdate, SeqInv
<1>5. \A m \in Modules : \A s \in Requires[m] :
        IsEnabled(m) => provider'[s] # {} /\ m \in users'[s]
  <2>1. SUFFICES ASSUME NEW m \in Modules, NEW s \in Requires[m], IsEnabled(m)
                 PROVE  provider'[s] # {} /\ m \in users'[s]
    OBVIOUS
  <2>2. s \in Services /\ provider[s] # {} /\ s \in listed
    BY <2>1 DEF SeqInv
  <2>3. CASE IsEnabled(k)
    <3>1. /\ provider[s] \subseteq provider'[s]
          /\ users[s] \subseteq users'[s]
          /\ s \in Requires[k] => k \in users'[s]
      BY <1>1, <2>2, <2>3 DEF ServiceUpdate
    <3>2. m # k => m \in users[s]
      BY <1>3, <2>1 DEF SeqInv
    <3>3. QED
      BY <2>1, <2>2, <3>1, <3>2
  <2>4. CASE ~IsEnabled(k)
    <3>1. m # k /\ m \in users[s]
      BY <1>3, <2>1, <2>4 DEF SeqInv
    <3>2. /\ provider'[s] = provider[s] \ {k}
          /\ users'[s] = users[s] \ {k}
      BY <1>1, <2>2, <2>4 DEF ServiceUpdate
    <3>3. provider[s] # {k}
      <4>1. CASE task[t] = "enable"
        BY <1>1, <2>2, <4>1 DEF SeqInv
      <4>2. CASE task[t] = "disable"
        <5>1. \A u \in users[s] : s \in Requires[u]
          BY <2>2 DEF ModInv, CoreInv, TypeOK, TableSound
        <5>2. QED
          BY <1>1, <2>2, <3>1, <4>2, <5>1 DEF DependenciesAllow, NotInUse
      <4>3. QED
        BY <1>1, <4>1, <4>2
    <3>4. QED
      BY <2>2, <3>1, <3>2, <3>3
  <2>5. QED
    BY <2>3, <2>4
<1>6. QED
  BY <1>1, <1>2, <1>4, <1>5 DEF SeqInv, IsEnabled, IsDisabled, ModInv, CoreInv, TypeOK

\* With one caller that never overrides the checks, whatever is enabled has a
\* provider for everything it requires - for every dependency graph, any number
\* of providers and any outcome of the callbacks.
THEOREM SequentialDependencies ==
  Sequential => (Spec => []DependenciesHold)
<1> SUFFICES ASSUME Sequential PROVE Spec => []DependenciesHold
  OBVIOUS
<1> USE ModulesAssumption
<1>1. Init => SeqInv
  BY DEF Init, SeqInv, IsEnabled, IsDisabled, ModulesAssumption
<1>2. ModInv /\ SeqInv /\ [Next]_vars => SeqInv'
  <2> SUFFICES ASSUME ModInv, SeqInv, [Next]_vars PROVE SeqInv'
    OBVIOUS
  <2>1. CASE UNCHANGED vars
    BY <2>1 DEF vars, callvars, usage, SeqInv, IsEnabled, IsDisabled, InUpdate,
       DependenciesAllow, RequirementsMet, NotInUse
  <2>2. ASSUME NEW t \in Threads, Call(t) \/ Step(t)
        PROVE  SeqInv'
    <3>1. CASE CallbackReturns(t) \/ UpdateUsage(t)
      <4>1. subject[t] \in Modules
        BY <3>1 DEF CallbackReturns, UpdateUsage, At, ModInv, CoreInv, MutexInv
      <4>2. QED
        BY <3>1, <4>1, SeqCallback, SeqUpdate
    <3>2. CASE ~CallbackReturns(t) /\ ~UpdateUsage(t)
      BY <2>2, <3>2, SeqQuiet
    <3>3. QED
      BY <3>1, <3>2
  <2>3. QED
    BY <2>1, <2>2 DEF Next
<1>3. SeqInv => DependenciesHold
  BY DEF SeqInv, DependenciesHold
<1>4. QED
  BY <1>1, <1>2, <1>3, ModInvariant, PTL DEF Spec
==============================================================================
