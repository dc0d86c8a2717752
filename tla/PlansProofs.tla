---------------------------- MODULE PlansProofs ----------------------------
(***************************************************************************)
(* Safety properties of Plans, for any services, requirements and requests *)
(* and any finite set of plans.  Three about the plans themselves come     *)
(* first, then that only what somebody asked for happens to a service, and *)
(* last that a boot, where nothing fails and nothing goes down, delivers   *)
(* all it was asked for.                                                   *)
(*                                                                         *)
(* The work threads touch neither the plans' own state nor the target      *)
(* state (WorkLeavesPlans), so each proof is about the actions of plans.   *)
(* The list of switches in progress needs the strengthening Listed: every  *)
(* plan that has entered its mode finds it there until it returns, which   *)
(* holds only because no second plan has the same mode and could take the  *)
(* entry away.                                                             *)
(***************************************************************************)
EXTENDS Plans, FiniteSetTheorems, TLAPS

Listed == \A p \in Plans : Switching(p) => req[p].mode \in switching

SwitchInv == PlanTypes /\ Listed /\ OneSwitchPerMode

\* No work thread changes a plan, what the plans share, or the target state.
LEMMA WorkLeavesPlans ==
  ASSUME NEW s \in Services, Work(s) \/ LateClear(s)
  PROVE  UNCHANGED <<planvars, shared, target>>
<1>1. UNCHANGED <<planvars, shared>> BY DEF Work, LateClear
<1>2. UNCHANGED target
  <2>1. CASE LateClear(s) BY <2>1 DEF LateClear, Clear
  <2>2. CASE Work(s)
    <3>1. CASE Abandon(s) BY <3>1 DEF Abandon
    <3>2. CASE Examine(s) BY <3>2 DEF Examine
    <3>3. CASE GiveUp(s) BY <3>3 DEF GiveUp
    <3>4. CASE Decide(s) BY <3>4 DEF Decide
    <3>5. CASE ApplyEnable(s) BY <3>5 DEF ApplyEnable
    <3>6. CASE ApplyDisable(s) BY <3>6 DEF ApplyDisable
    <3>7. CASE EnableRequirements(s) BY <3>7 DEF EnableRequirements
    <3>8. CASE DeferAfterRequirements(s) BY <3>8 DEF DeferAfterRequirements
    <3>9. CASE DisableUsers(s) BY <3>9 DEF DisableUsers
    <3>10. CASE PreExamine(s) BY <3>10 DEF PreExamine
    <3>11. CASE Call(s) BY <3>11 DEF Call
    <3>12. CASE Run(s) BY <3>12 DEF Run
    <3>13. CASE Update(s) BY <3>13 DEF Update
    <3>14. CASE NextCandidate(s) BY <3>14 DEF NextCandidate
    <3>15. CASE MarkBroken(s) BY <3>15 DEF MarkBroken
    <3>16. CASE Finish(s) BY <3>16 DEF Finish
    <3>17. CASE End(s) BY <3>17 DEF End
    <3> QED BY <2>2, <3>1, <3>2, <3>3, <3>4, <3>5, <3>6, <3>7, <3>8, <3>9, <3>10,
               <3>11, <3>12, <3>13, <3>14, <3>15, <3>16, <3>17 DEF Work, WorkStep
  <2> QED BY <2>1, <2>2
<1> QED BY <1>1, <1>2

-----------------------------------------------------------------------------
\* Only Cross writes the target state.
LEMMA OnlyCrossWritesTarget ==
  ASSUME Next, ~(\E p \in Plans : Cross(p))
  PROVE  UNCHANGED <<target_enable, target_disable>>
<1>1. ASSUME NEW p \in Plans, Request(p) PROVE UNCHANGED <<target_enable, target_disable>>
  BY <1>1 DEF Request, workervars, target
<1>2. ASSUME NEW p \in Plans, PlanStep(p) PROVE UNCHANGED <<target_enable, target_disable>>
  <2>1. CASE SwitchMode(p) BY <2>1 DEF SwitchMode, workervars, target
  <2>2. CASE FindMode(p) BY <2>2 DEF FindMode, workervars, target
  <2>3. CASE Begin(p) BY <2>3 DEF Begin
  <2>4. CASE Flatten(p) BY <2>4 DEF Flatten, target
  <2>5. CASE Count(p) BY <2>5 DEF Count, workervars, target
  <2>6. CASE StartWork(p) BY <2>6 DEF StartWork, target
  <2>7. CASE Look(p) BY <2>7 DEF Look, target
  <2>8. CASE Judge(p) BY <2>8 DEF Judge, workervars, target
  <2>9. CASE Ping(p) BY <2>9 DEF Ping, workervars, target
  <2>10. CASE Stall(p) BY <2>10 DEF Stall, target
  <2>11. CASE Abort(p) BY <2>11 DEF Abort, target
  <2>12. CASE Uncount(p) BY <2>12 DEF Uncount, workervars, target
  <2>13. CASE Cleanup(p) BY <2>13 DEF Cleanup, target
  <2>14. CASE Return(p) BY <2>14 DEF Return, workervars, target
  <2> QED BY <1>2, <2>1, <2>2, <2>3, <2>4, <2>5, <2>6, <2>7, <2>8, <2>9, <2>10, <2>11,
             <2>12, <2>13, <2>14 DEF PlanStep
<1>3. ASSUME NEW s \in Services, Work(s) \/ LateClear(s)
      PROVE  UNCHANGED <<target_enable, target_disable>>
  BY <1>3, WorkLeavesPlans DEF target
<1>4. CASE UpdateModuleList BY <1>4 DEF UpdateModuleList, NewList, ForgetBroken, target
<1>5. CASE CriticalDevicesOk BY <1>5 DEF CriticalDevicesOk, workervars, target
<1> QED BY <1>1, <1>2, <1>3, <1>4, <1>5 DEF Next

\* The target state is unambiguous: merging a plan into it (cross_taskblock) never
\* leaves a service wanted both up and down, whatever the plan says.
THEOREM TargetUnambiguous == Spec => []TargetDisjoint
<1>1. Init => TargetDisjoint BY DEF Init, Idle, TargetDisjoint
<1>2. TargetDisjoint /\ [Next]_vars => TargetDisjoint'
  <2> SUFFICES ASSUME TargetDisjoint, [Next]_vars PROVE TargetDisjoint' OBVIOUS
  <2>1. ASSUME NEW p \in Plans, Cross(p) PROVE TargetDisjoint'
    BY <2>1 DEF Cross, CrossEnable, CrossDisable, TargetDisjoint
  <2>2. CASE Next /\ ~(\E p \in Plans : Cross(p))
    BY <2>2, OnlyCrossWritesTarget DEF TargetDisjoint
  <2>3. CASE UNCHANGED vars
    BY <2>3 DEF vars, workervars, target, TargetDisjoint
  <2> QED BY <2>1, <2>2, <2>3
<1> QED BY <1>1, <1>2, PTL DEF Spec

-----------------------------------------------------------------------------
LEMMA PlanTypesInit == Init => PlanTypes
  BY DEF Init, PlanTypes, PlanStages

LEMMA PlanTypesKept == PlanTypes /\ [Next]_vars => PlanTypes'
<1> SUFFICES ASSUME PlanTypes, [Next]_vars PROVE PlanTypes' OBVIOUS
<1> USE DEF PlanTypes, PlanStages, PlanGoto
<1>1. ASSUME NEW p \in Plans, Request(p) PROVE PlanTypes'
  BY <1>1 DEF Request
<1>2. ASSUME NEW p \in Plans, PlanStep(p) PROVE PlanTypes'
  <2>1. CASE SwitchMode(p) BY <2>1 DEF SwitchMode
  <2>2. CASE FindMode(p) BY <2>2 DEF FindMode
  <2>3. CASE Begin(p) BY <2>3 DEF Begin
  <2>4. CASE Cross(p) BY <2>4 DEF Cross
  <2>5. CASE Flatten(p) BY <2>5 DEF Flatten
  <2>6. CASE Count(p) BY <2>6 DEF Count
  <2>7. CASE StartWork(p) BY <2>7 DEF StartWork
  <2>8. CASE Look(p) BY <2>8 DEF Look
  <2>9. CASE Judge(p) BY <2>9 DEF Judge
  <2>10. CASE Ping(p) BY <2>10 DEF Ping
  <2>11. CASE Stall(p) BY <2>11 DEF Stall
  <2>12. CASE Abort(p) BY <2>12 DEF Abort
  <2>13. CASE Uncount(p) BY <2>13 DEF Uncount
  <2>14. CASE Cleanup(p) BY <2>14 DEF Cleanup
  <2>15. CASE Return(p) BY <2>15 DEF Return
  <2> QED BY <1>2, <2>1, <2>2, <2>3, <2>4, <2>5, <2>6, <2>7, <2>8, <2>9, <2>10, <2>11,
             <2>12, <2>13, <2>14, <2>15 DEF PlanStep
<1>3. ASSUME NEW s \in Services, Work(s) \/ LateClear(s) PROVE PlanTypes'
  BY <1>3, WorkLeavesPlans DEF planvars
<1>4. CASE UpdateModuleList BY <1>4 DEF UpdateModuleList, NewList, ForgetBroken, planvars
<1>5. CASE CriticalDevicesOk BY <1>5 DEF CriticalDevicesOk, planvars
<1>6. CASE UNCHANGED vars BY <1>6 DEF vars, planvars
<1> QED BY <1>1, <1>2, <1>3, <1>4, <1>5, <1>6 DEF Next

-----------------------------------------------------------------------------
CommitsInv == PlanTypes /\ CommitsCounted

CommitStages == {"spawn", "look", "wait", "abort", "finished", "aborted"}

LEMMA CommittingFinite == IsFiniteSet(Committing)
  BY PlansAssumption, FS_Subset DEF Committing

\* A step that moves no plan into or out of a commit keeps the count.
LEMMA CountKept ==
  ASSUME CommitsCounted, commits' = commits,
         \A q \in Plans : pc[q] \in CommitStages <=> pc'[q] \in CommitStages
  PROVE  CommitsCounted'
<1>1. Committing' = Committing BY DEF Committing, CommitStages
<1> QED BY <1>1 DEF CommitsCounted

LEMMA CommitsStep == CommitsInv /\ [Next]_vars => CommitsCounted'
<1> SUFFICES ASSUME CommitsInv, [Next]_vars PROVE CommitsCounted' OBVIOUS
<1>0. CommitsCounted /\ pc \in [Plans -> PlanStages] BY DEF CommitsInv, PlanTypes
<1> DEFINE Kept == /\ commits' = commits
                   /\ \A q \in Plans : pc[q] \in CommitStages <=> pc'[q] \in CommitStages
<1> USE DEF PlanAt, PlanGoto, CommitStages
<1>1. ASSUME NEW p \in Plans, Request(p) PROVE Kept
  BY <1>0, <1>1 DEF Request, shared
<1>2. ASSUME NEW p \in Plans, Count(p) PROVE CommitsCounted'
  <2>1. Committing' = Committing \cup {p} /\ p \notin Committing
    BY <1>0, <1>2 DEF Count, Committing
  <2>2. Cardinality(Committing') = Cardinality(Committing) + 1
    BY <2>1, CommittingFinite, FS_AddElement
  <2> QED BY <1>0, <1>2, <2>2 DEF Count, CommitsCounted
<1>3. ASSUME NEW p \in Plans, Uncount(p) PROVE CommitsCounted'
  <2>1. Committing' = Committing \ {p} /\ p \in Committing
    BY <1>0, <1>3 DEF Uncount, Committing
  <2>2. Cardinality(Committing') = Cardinality(Committing) - 1
    BY <2>1, CommittingFinite, FS_RemoveElement
  <2> QED BY <1>0, <1>3, <2>2 DEF Uncount, CommitsCounted
<1>4. ASSUME NEW p \in Plans, PlanStep(p), ~Count(p), ~Uncount(p) PROVE Kept
  <2>1. CASE SwitchMode(p) BY <1>0, <2>1 DEF SwitchMode
  <2>2. CASE FindMode(p) BY <1>0, <2>2 DEF FindMode, shared
  <2>3. CASE Begin(p) BY <1>0, <2>3 DEF Begin, shared
  <2>4. CASE Cross(p) BY <1>0, <2>4 DEF Cross, shared
  <2>5. CASE Flatten(p) BY <1>0, <2>5 DEF Flatten, shared
  <2>6. CASE StartWork(p) BY <1>0, <2>6 DEF StartWork, shared
  <2>7. CASE Look(p) BY <1>0, <2>7 DEF Look, shared
  <2>8. CASE Judge(p) BY <1>0, <2>8 DEF Judge, shared
  <2>9. CASE Ping(p) BY <1>0, <2>9 DEF Ping, shared
  <2>10. CASE Stall(p) BY <1>0, <2>10 DEF Stall, shared
  <2>11. CASE Abort(p) BY <1>0, <2>11 DEF Abort, shared
  <2>12. CASE Cleanup(p) BY <1>0, <2>12 DEF Cleanup, shared
  <2>13. CASE Return(p) BY <1>0, <2>13 DEF Return
  <2> QED BY <1>4, <2>1, <2>2, <2>3, <2>4, <2>5, <2>6, <2>7, <2>8, <2>9, <2>10, <2>11,
             <2>12, <2>13 DEF PlanStep
<1>5. ASSUME NEW s \in Services, Work(s) \/ LateClear(s) PROVE Kept
  BY <1>5, WorkLeavesPlans DEF planvars, shared
<1>6. ASSUME UpdateModuleList PROVE Kept
  BY <1>6 DEF UpdateModuleList, NewList, ForgetBroken, planvars
<1>7. ASSUME CriticalDevicesOk PROVE Kept BY <1>7 DEF CriticalDevicesOk, planvars
<1>8. ASSUME UNCHANGED vars PROVE Kept BY <1>8 DEF vars, planvars, shared
<1>9. Kept => CommitsCounted' BY <1>0, CountKept
<1> QED BY <1>1, <1>2, <1>3, <1>4, <1>5, <1>6, <1>7, <1>8, <1>9 DEF Next

\* ml_commits is exact: a plan finds it at zero only if no other plan is between the
\* two ends of mod_commit_and_wait, for any finite number of plans.
THEOREM CommitsExact == Spec => []CommitsCounted
<1>1. Init => CommitsInv
  <2> SUFFICES ASSUME Init PROVE CommitsCounted BY PlanTypesInit DEF CommitsInv
  <2>1. Committing = {} BY DEF Init, Committing
  <2> QED BY <2>1, FS_EmptySet DEF Init, CommitsCounted
<1>2. CommitsInv /\ [Next]_vars => CommitsInv'
  BY CommitsStep, PlanTypesKept DEF CommitsInv
<1>3. CommitsInv => CommitsCounted BY DEF CommitsInv
<1> QED BY <1>1, <1>2, <1>3, PTL DEF Spec

-----------------------------------------------------------------------------
\* A step that keeps every plan's request and list entry, and lets no plan enter its
\* mode, keeps both parts.
LEMMA SwitchingKept ==
  ASSUME Listed, OneSwitchPerMode, UNCHANGED switching,
         \A q \in Plans : Switching(q)' => Switching(q) /\ req'[q] = req[q]
  PROVE  Listed' /\ OneSwitchPerMode'
<1>1. Listed' BY DEF Listed
<1>2. OneSwitchPerMode'
  <2> SUFFICES ASSUME NEW p \in Plans, NEW q \in Plans, Switching(p)', Switching(q)',
                      req'[p].mode = req'[q].mode
               PROVE  p = q
    BY DEF OneSwitchPerMode, Switching
  <2> QED BY DEF OneSwitchPerMode
<1> QED BY <1>1, <1>2

LEMMA SwitchStep == SwitchInv /\ [Next]_vars => Listed' /\ OneSwitchPerMode'
<1> SUFFICES ASSUME SwitchInv, [Next]_vars PROVE Listed' /\ OneSwitchPerMode' OBVIOUS
<1>0. Listed /\ OneSwitchPerMode /\ pc \in [Plans -> PlanStages]
        /\ req \in [Plans -> Requests \cup {NoRequest}]
  BY DEF SwitchInv, PlanTypes
<1> DEFINE Kept == /\ UNCHANGED switching
                   /\ \A q \in Plans : Switching(q)' => Switching(q) /\ req'[q] = req[q]
<1> USE DEF PlanAt, PlanGoto
<1>1. ASSUME NEW p \in Plans, Request(p) PROVE Kept
  BY <1>0, <1>1 DEF Request, shared, Switching
\* A new switch to m finds m off the list, so no other plan stands for m.
<1>2. ASSUME NEW p \in Plans, SwitchMode(p) PROVE Listed' /\ OneSwitchPerMode'
  <2>1. CASE req[p].mode \in switching
    <3>1. Kept BY <1>0, <1>2, <2>1 DEF SwitchMode, Switching
    <3> QED BY <1>0, <3>1, SwitchingKept
  <2>2. CASE req[p].mode \notin switching
    <3>1. /\ switching' = switching \cup {req[p].mode}
          /\ req' = req /\ \A q \in Plans \ {p} : pc'[q] = pc[q]
      BY <1>0, <1>2, <2>2 DEF SwitchMode
    <3>2. \A q \in Plans \ {p} : Switching(q)' => Switching(q)
      BY <3>1 DEF Switching
    <3>3. \A q \in Plans \ {p} : Switching(q) => req[q].mode # req[p].mode
      BY <1>0, <2>2 DEF Listed
    <3>4. Listed' BY <1>0, <3>1, <3>2 DEF Listed
    <3>5. OneSwitchPerMode' BY <1>0, <3>1, <3>2, <3>3 DEF OneSwitchPerMode
    <3> QED BY <3>4, <3>5
  <2> QED BY <2>1, <2>2
\* A plan that returns takes off only its own mode, and no other plan stands for it.
<1>3. ASSUME NEW p \in Plans, Return(p) PROVE Listed' /\ OneSwitchPerMode'
  <2>1. /\ switching' = switching \ {req[p].mode}
        /\ req' = req /\ pc'[p] = "returned" /\ \A q \in Plans \ {p} : pc'[q] = pc[q]
    BY <1>0, <1>3 DEF Return
  <2>2. \A q \in Plans : Switching(q)' => Switching(q) /\ q # p
    BY <2>1 DEF Switching
  <2>3. \A q \in Plans : Switching(q)' => req[q].mode # req[p].mode
    <3> SUFFICES ASSUME NEW q \in Plans, Switching(q)', req[q].mode = req[p].mode
                 PROVE  FALSE
      OBVIOUS
    <3>1. Switching(q) /\ q # p BY <2>2
    <3>2. Switching(p) BY <1>3, <3>1 DEF Return, Switching
    <3> QED BY <1>0, <3>1, <3>2 DEF OneSwitchPerMode
  <2>4. Listed' BY <1>0, <2>1, <2>2, <2>3 DEF Listed
  <2>5. OneSwitchPerMode' BY <1>0, <2>1, <2>2 DEF OneSwitchPerMode
  <2> QED BY <2>4, <2>5
<1>4. ASSUME NEW p \in Plans, PlanStep(p), ~SwitchMode(p), ~Return(p) PROVE Kept
  <2> USE DEF Switching
  <2>1. CASE FindMode(p) BY <1>0, <2>1 DEF FindMode, shared
  <2>2. CASE Begin(p) BY <1>0, <2>2 DEF Begin, shared
  <2>3. CASE Cross(p) BY <1>0, <2>3 DEF Cross, shared
  <2>4. CASE Flatten(p) BY <1>0, <2>4 DEF Flatten, shared
  <2>5. CASE Count(p) BY <1>0, <2>5 DEF Count
  <2>6. CASE StartWork(p) BY <1>0, <2>6 DEF StartWork, shared
  <2>7. CASE Look(p) BY <1>0, <2>7 DEF Look, shared
  <2>8. CASE Judge(p) BY <1>0, <2>8 DEF Judge, shared
  <2>9. CASE Ping(p) BY <1>0, <2>9 DEF Ping, shared
  <2>10. CASE Stall(p) BY <1>0, <2>10 DEF Stall, shared
  <2>11. CASE Abort(p) BY <1>0, <2>11 DEF Abort, shared
  <2>12. CASE Uncount(p) BY <1>0, <2>12 DEF Uncount
  <2>13. CASE Cleanup(p) BY <1>0, <2>13 DEF Cleanup, shared
  <2> QED BY <1>4, <2>1, <2>2, <2>3, <2>4, <2>5, <2>6, <2>7, <2>8, <2>9, <2>10, <2>11,
             <2>12, <2>13 DEF PlanStep
<1>5. ASSUME NEW s \in Services, Work(s) \/ LateClear(s) PROVE Kept
  BY <1>5, WorkLeavesPlans DEF planvars, shared, Switching
<1>6. ASSUME UpdateModuleList PROVE Kept
  BY <1>6 DEF UpdateModuleList, NewList, ForgetBroken, planvars, Switching
<1>7. ASSUME CriticalDevicesOk PROVE Kept
  BY <1>7 DEF CriticalDevicesOk, planvars, Switching
<1>8. ASSUME UNCHANGED vars PROVE Kept BY <1>8 DEF vars, planvars, shared, Switching
<1>9. Kept => Listed' /\ OneSwitchPerMode' BY <1>0, SwitchingKept
<1> QED BY <1>1, <1>2, <1>3, <1>4, <1>5, <1>6, <1>7, <1>8, <1>9 DEF Next

\* Of any number of requests for one mode at most one is being carried out: the list
\* of switches in progress never loses the entry of a switch that still runs.
THEOREM SwitchesExclusive == Spec => []OneSwitchPerMode
<1>1. Init => SwitchInv
  <2> SUFFICES ASSUME Init PROVE Listed /\ OneSwitchPerMode
    BY PlanTypesInit DEF SwitchInv
  <2>1. \A p \in Plans : ~Switching(p) BY DEF Init, Switching
  <2> QED BY <2>1 DEF Listed, OneSwitchPerMode
<1>2. SwitchInv /\ [Next]_vars => SwitchInv'
  BY SwitchStep, PlanTypesKept DEF SwitchInv
<1>3. SwitchInv => OneSwitchPerMode BY DEF SwitchInv
<1> QED BY <1>1, <1>2, <1>3, PTL DEF Spec

-----------------------------------------------------------------------------
(***************************************************************************)
(* Only what somebody asked for happens to a service, for any services,    *)
(* requirements and requests, any finite set of plans, and modules that    *)
(* may fail.                                                               *)
(*                                                                         *)
(* The threads of the work queue do not know who asked: one that finds its *)
(* service queued nowhere enables it (mod_gettask).  What keeps it from    *)
(* enabling a service nobody wants is that such a thread only ever works   *)
(* on one that is provided.  The inductive invariant AskedInv says this of *)
(* every thread from its beginning to its end (UpFor), of every service on *)
(* the chains, which are where threads come from, and of the queue and the *)
(* target state (QueueAsked), which hold what was asked for and what       *)
(* follows from it: the sets WantedUp and WantedDown are closed under      *)
(* requirements, and they only grow.  RecordOf says that a thread is right *)
(* about its module: nobody else changes it.                               *)
(*                                                                         *)
(* Most of the proof is the actions of work threads, one lemma each.  A    *)
(* step must show what it leaves of the threads (Threads) and that what is *)
(* known of its own service still holds; OthersKept then says it for all   *)
(* the others.  The steps of plans follow, and the theorems.               *)
(***************************************************************************)

\* The stages in which a thread walks its candidates, and those before it has settled on
\* a task.
TaskStages == {"apply", "need", "defer", "call", "run", "update", "next"}
Early == {"examine", "wait", "decide"}

\* s waits for something, or something waits for s.
Chained(s) == \E x \in Services : s \in before[x] \/ s \in after[x]

\* A walk has a candidate.
RoundOf(s) == work[s] \in TaskStages => {candidate[s], first[s]} \subseteq Candidates(s)

\* What the thread of s knows of its module: nobody else changes it.
RecordOf(s) ==
  /\ work[s] # "update" => up[s] = listed[s]
  /\ work[s] \in {"need", "defer", "call", "run"} /\ goal[s] = "enable" => up[s] = 0
  /\ work[s] \in {"need", "call", "run"} /\ goal[s] # "enable" => up[s] # 0
  /\ work[s] = "defer" => goal[s] = "enable"

\* A service that nobody wants up is never on its way up: its thread begins while it is
\* provided, and whatever may wake it later knows it as provided or changed.
UpFor(s) ==
  s \notin WantedUp =>
    /\ work[s] \in TaskStages => goal[s] # "enable"
    /\ work[s] \in Early => Provided(s)
    /\ Chained(s) => Provided(s) \/ s \in changed \/ work[s] \in {"post", "settle"}

\* One that nobody wants down is on its way down only in a shutdown.
DownFor(s) ==
  s \notin WantedDown /\ work[s] \in TaskStages /\ goal[s] # "enable" => shutting_down

\* The queue and the target state hold what was asked for, or follows from it.
QueueAsked ==
  /\ enable \subseteq WantedUp /\ target_enable \subseteq WantedUp
  /\ target_disable \subseteq WantedDown
  /\ ~shutting_down => disable \subseteq WantedDown

IdleBlank == \A p \in Plans : pc[p] = "idle" => req[p] = NoRequest

AskedInv ==
  /\ WorkerTypes /\ PlanTypes /\ IdleBlank /\ QueueAsked
  /\ \A s \in Services : RoundOf(s) /\ RecordOf(s) /\ UpFor(s) /\ DownFor(s)

-----------------------------------------------------------------------------
\* What is reached from a set: itself, what a member steps to; and nothing but what is in
\* the set or is stepped to.
LEMMA ReachedBase ==
  ASSUME NEW X, NEW step, NEW x \in Services, x \in X
  PROVE  x \in Reached(X, step)
BY DEF Reached

LEMMA ReachedStep ==
  ASSUME NEW X, NEW step, NEW x \in Reached(X, step), NEW y \in Services, y \in step[x]
  PROVE  y \in Reached(X, step)
<1> SUFFICES ASSUME NEW R \in SUBSET Services, X \subseteq R, \A z \in R : step[z] \subseteq R
             PROVE  y \in R
  BY DEF Reached
<1>1. x \in R BY DEF Reached
<1> QED BY <1>1

LEMMA ReachedFrom ==
  ASSUME NEW X, NEW step, X \subseteq Services, step \in [Services -> SUBSET Services],
         NEW y \in Reached(X, step)
  PROVE  y \in Services /\ (y \in X \/ \E x \in Services : y \in step[x])
<1> DEFINE R == {z \in Services : z \in X \/ \E x \in Services : z \in step[x]}
<1>1. R \in SUBSET Services /\ X \subseteq R OBVIOUS
<1>2. \A x \in R : step[x] \subseteq R OBVIOUS
<1>3. y \in R BY <1>1, <1>2 DEF Reached
<1> QED BY <1>3

LEMMA ReachedBack ==
  ASSUME NEW step, NEW s \in Services, NEW t \in Services, t \in step[s]
  PROVE  Reached({t}, step) \subseteq Reached({s}, step)
<1> SUFFICES ASSUME NEW y \in Reached({t}, step), NEW R \in SUBSET Services,
                    {s} \subseteq R, \A z \in R : step[z] \subseteq R
             PROVE  y \in R
  BY DEF Reached
<1>1. s \in R OBVIOUS
<1>2. t \in R BY <1>1
<1> QED BY <1>2 DEF Reached

\* What is wanted up, or down, is closed under what services need.
LEMMA WantedUpClosed ==
  ASSUME NEW s \in WantedUp, NEW i \in Candidates(s), NEW t \in Requires[s][i]
  PROVE  t \in WantedUp
<1>0. s \in Services BY DEF WantedUp
<1>1. t \in Services /\ t \in Needs[s]
  BY <1>0, WorkersAssumption DEF Candidates, Needs
<1> QED BY <1>1, ReachedStep DEF WantedUp

LEMMA WantedDownClosed ==
  ASSUME NEW t \in WantedDown, NEW s \in Services, NEW i \in Candidates(s),
         t \in Requires[s][i]
  PROVE  s \in WantedDown
<1>1. t \in Services /\ t \in Needs[s]
  BY WorkersAssumption DEF Candidates, Needs, WantedDown
<1> QED BY <1>1, ReachedBack DEF WantedDown

\* A plan keeps its request once it has begun.
NotBegun == {"switch", "lookup", "rejected", "undefined"}
KeepsRequest(p) ==
  pc[p] \notin NotBegun => req[p] = NoRequest \/ (pc'[p] \notin NotBegun /\ req'[p] = req[p])

LEMMA RequestsKept ==
  ASSUME PlanTypes, IdleBlank, [Next]_vars, NEW q \in Plans
  PROVE  KeepsRequest(q)
<1>0. pc \in [Plans -> PlanStages] /\ req \in [Plans -> Requests \cup {NoRequest}]
  BY DEF PlanTypes
<1> USE <1>0 DEF KeepsRequest, NotBegun, PlanAt, PlanGoto
<1>1. ASSUME NEW p \in Plans, Request(p) PROVE KeepsRequest(q)
  BY <1>1 DEF Request, IdleBlank
<1>2. ASSUME NEW p \in Plans, PlanStep(p) PROVE KeepsRequest(q)
  <2>1. CASE SwitchMode(p) BY <2>1 DEF SwitchMode
  <2>2. CASE FindMode(p) BY <2>2 DEF FindMode
  <2>3. CASE Begin(p) BY <2>3 DEF Begin
  <2>4. CASE Cross(p) BY <2>4 DEF Cross
  <2>5. CASE Flatten(p) BY <2>5 DEF Flatten
  <2>6. CASE Count(p) BY <2>6 DEF Count
  <2>7. CASE StartWork(p) BY <2>7 DEF StartWork
  <2>8. CASE Look(p) BY <2>8 DEF Look
  <2>9. CASE Judge(p) BY <2>9 DEF Judge
  <2>10. CASE Ping(p) BY <2>10 DEF Ping
  <2>11. CASE Stall(p) BY <2>11 DEF Stall
  <2>12. CASE Abort(p) BY <2>12 DEF Abort
  <2>13. CASE Uncount(p) BY <2>13 DEF Uncount
  <2>14. CASE Cleanup(p) BY <2>14 DEF Cleanup
  <2>15. CASE Return(p) BY <2>15 DEF Return
  <2> QED BY <1>2, <2>1, <2>2, <2>3, <2>4, <2>5, <2>6, <2>7, <2>8,
             <2>9, <2>10, <2>11, <2>12, <2>13, <2>14, <2>15 DEF PlanStep
<1>3. ASSUME NEW s \in Services, Work(s) \/ LateClear(s) PROVE KeepsRequest(q)
  BY <1>3, WorkLeavesPlans DEF planvars
<1>4. CASE UpdateModuleList BY <1>4 DEF UpdateModuleList, NewList, ForgetBroken, planvars
<1>5. CASE CriticalDevicesOk BY <1>5 DEF CriticalDevicesOk, planvars
<1>6. CASE UNCHANGED vars BY <1>6 DEF vars, planvars
<1> QED BY <1>1, <1>2, <1>3, <1>4, <1>5, <1>6 DEF Next

\* The requests of plans that have begun are never forgotten.
LEMMA WantedGrows ==
  ASSUME PlanTypes, IdleBlank, [Next]_vars
  PROVE  WantedUp \subseteq WantedUp' /\ WantedDown \subseteq WantedDown'
<1>1. \A r \in Asked : r = NoRequest \/ r \in Asked'
  BY RequestsKept DEF Asked, KeepsRequest, NotBegun
<1>2. \A s \in Services : s \notin Reached(NoRequest.enable, Needs)
  BY DEF NoRequest, Reached
<1>3. NoRequest.disable = {} BY DEF NoRequest
<1>4. WantedUp \subseteq WantedUp' BY <1>1, <1>2 DEF WantedUp
<1>5. WantedDown \subseteq WantedDown' BY <1>1, <1>3 DEF WantedDown
<1> QED BY <1>4, <1>5

LEMMA IdleBlankKept ==
  ASSUME PlanTypes, IdleBlank, [Next]_vars
  PROVE  IdleBlank'
<1>0. pc \in [Plans -> PlanStages] /\ req \in [Plans -> Requests \cup {NoRequest}]
  BY DEF PlanTypes
<1> SUFFICES ASSUME NEW q \in Plans PROVE pc'[q] = "idle" => req'[q] = NoRequest
  BY DEF IdleBlank
<1> DEFINE Same == pc'[q] = "idle" => pc[q] = "idle" /\ req'[q] = req[q]
<1> USE <1>0 DEF PlanAt, PlanGoto
<1>1. ASSUME NEW p \in Plans, Request(p) PROVE Same
  BY <1>1 DEF Request
<1>2. ASSUME NEW p \in Plans, PlanStep(p) PROVE Same
  <2>1. CASE SwitchMode(p) BY <2>1 DEF SwitchMode
  <2>2. CASE FindMode(p) BY <2>2 DEF FindMode
  <2>3. CASE Begin(p) BY <2>3 DEF Begin
  <2>4. CASE Cross(p) BY <2>4 DEF Cross
  <2>5. CASE Flatten(p) BY <2>5 DEF Flatten
  <2>6. CASE Count(p) BY <2>6 DEF Count
  <2>7. CASE StartWork(p) BY <2>7 DEF StartWork
  <2>8. CASE Look(p) BY <2>8 DEF Look
  <2>9. CASE Judge(p) BY <2>9 DEF Judge
  <2>10. CASE Ping(p) BY <2>10 DEF Ping
  <2>11. CASE Stall(p) BY <2>11 DEF Stall
  <2>12. CASE Abort(p) BY <2>12 DEF Abort
  <2>13. CASE Uncount(p) BY <2>13 DEF Uncount
  <2>14. CASE Cleanup(p) BY <2>14 DEF Cleanup
  <2>15. CASE Return(p) BY <2>15 DEF Return
  <2> QED BY <1>2, <2>1, <2>2, <2>3, <2>4, <2>5, <2>6, <2>7, <2>8,
             <2>9, <2>10, <2>11, <2>12, <2>13, <2>14, <2>15 DEF PlanStep
<1>3. ASSUME NEW s \in Services, Work(s) \/ LateClear(s) PROVE Same
  BY <1>3, WorkLeavesPlans DEF planvars
<1>4. ASSUME UpdateModuleList PROVE Same
  BY <1>4 DEF UpdateModuleList, NewList, ForgetBroken, planvars
<1>5. ASSUME CriticalDevicesOk PROVE Same BY <1>5 DEF CriticalDevicesOk, planvars
<1>6. ASSUME UNCHANGED vars PROVE Same BY <1>6 DEF vars, planvars
<1>7. Same BY <1>1, <1>2, <1>3, <1>4, <1>5, <1>6 DEF Next
<1> QED BY <1>7 DEF IdleBlank

-----------------------------------------------------------------------------
\* What starting threads does to the threads and the chains.
LEMMA CreateWakes ==
  ASSUME NEW X, NEW w, NEW bf, X \subseteq Services, w \in [Services -> Stages],
         bf \in [Services -> SUBSET Services], Create(X, w, bf)
  PROVE  /\ work' \in [Services -> Stages] /\ before' \in [Services -> SUBSET Services]
         /\ \A x \in Services : before'[x] \subseteq bf[x]
         /\ \A y \in Services :
              \/ work'[y] = w[y]
              \/ /\ w[y] = "none" /\ work'[y] = "examine" /\ y \notin Settled'
                 /\ y \in X \/ \E x \in Services : y \in bf[x]
<1> DEFINE step == [x \in Services |-> IF x \in Settled' THEN bf[x] ELSE {}]
<1> DEFINE seen == Reached(X, step)
<1>1. step \in [Services -> SUBSET Services] OBVIOUS
<1>2. \A y \in seen : y \in X \/ \E x \in Services : y \in step[x]
  BY <1>1, ReachedFrom
<1>3. \A y \in seen : y \in X \/ \E x \in Services : y \in bf[x]
  BY <1>2
<1>4. /\ work' = [x \in Services |-> IF x \in seen \ Settled' /\ w[x] = "none"
                                      THEN "examine" ELSE w[x]]
      /\ before' = [x \in Services |-> IF x \in seen \cap Settled' THEN {} ELSE bf[x]]
  BY DEF Create
<1> HIDE DEF seen
<1>5. work' \in [Services -> Stages] BY <1>4 DEF Stages
<1>6. before' \in [Services -> SUBSET Services] /\ \A x \in Services : before'[x] \subseteq bf[x]
  BY <1>4
<1> QED BY <1>3, <1>4, <1>5, <1>6

LEMMA SpawnWakes ==
  ASSUME NEW en, NEW dis, NEW w, en \subseteq Services, dis \subseteq Services,
         w \in [Services -> Stages], Spawn(en, dis, w)
  PROVE  /\ work' \in [Services -> Stages]
         /\ after' = [s \in Services |-> {}] /\ before' = [s \in Services |-> {}]
         /\ enable' \subseteq en /\ disable' \subseteq dis
         /\ \A y \in Services :
              \/ work'[y] = w[y]
              \/ /\ w[y] = "none" /\ work'[y] = "examine" /\ y \notin Settled'
                 /\ y \in en \/ Provided(y)
BY DEF Spawn, Settled, Stages

-----------------------------------------------------------------------------
\* A service that has a reason to be woken: those on the chains, those wanted up, and
\* those provided, which may have to go down.
Linked(y) == Chained(y) \/ y \in WantedUp \/ Provided(y)

\* What a step leaves of the threads, given what it does to its own: w, but for threads
\* that are created; and whoever is on a chain had a reason to be.
FreshIn(w, y) == w[y] = "none" /\ work'[y] = "examine" /\ y \notin Settled' /\ Linked(y)
Threads(w) ==
  /\ work' \in [Services -> Stages] /\ ChainTypes'
  /\ \A y \in Services : work'[y] = w[y] \/ FreshIn(w, y)
  /\ \A x \in Services : \A y \in before'[x] \cup after'[x] : Linked(y)

LEMMA Started ==
  ASSUME NEW X, NEW w, NEW bf, X \subseteq Services, w \in [Services -> Stages],
         bf \in [Services -> SUBSET Services], \A y \in X : w[y] = "none" => Linked(y),
         \A x \in Services : \A y \in bf[x] : Linked(y),
         after' \in [Services -> SUBSET Services],
         \A x \in Services : \A y \in after'[x] : Linked(y),
         Create(X, w, bf)
  PROVE  Threads(w)
<1>1. /\ work' \in [Services -> Stages] /\ before' \in [Services -> SUBSET Services]
      /\ \A x \in Services : before'[x] \subseteq bf[x]
      /\ \A y \in Services :
           \/ work'[y] = w[y]
           \/ /\ w[y] = "none" /\ work'[y] = "examine" /\ y \notin Settled'
              /\ y \in X \/ \E x \in Services : y \in bf[x]
  BY CreateWakes
<1>2. \A y \in Services : work'[y] = w[y] \/ FreshIn(w, y) BY <1>1 DEF FreshIn
<1>3. \A x \in Services : \A y \in before'[x] \cup after'[x] : Linked(y) BY <1>1
<1>4. ChainTypes' BY <1>1 DEF ChainTypes
<1> QED BY <1>1, <1>2, <1>3, <1>4 DEF Threads

\* Where nothing is started and the chains stay or shrink.
LEMMA Quiet ==
  ASSUME NEW w, w \in [Services -> Stages], work' = w, ChainTypes, ChainTypes',
         \A x \in Services : before'[x] \subseteq before[x] /\ after'[x] \subseteq after[x]
  PROVE  Threads(w)
BY DEF Threads, Linked, Chained, ChainTypes

LEMMA MovedTypes ==
  ASSUME NEW s \in Services, NEW stage \in Stages, work \in [Services -> Stages]
  PROVE  Moved(work, s, stage) \in [Services -> Stages]
BY DEF Moved

LEMMA Left ==
  ASSUME WorkerTypes, QueueAsked, NEW s \in Services, Leave(s)
  PROVE  /\ Threads(Moved(work, s, "none"))
         /\ enable' \subseteq enable /\ disable' \subseteq disable
<1> DEFINE w == Moved(work, s, "none")
<1>0. w \in [Services -> Stages] BY MovedTypes DEF WorkerTypes, ThreadTypes, Stages
<1>1. CASE Spawn(enable, disable, w)
  <2>1. /\ work' \in [Services -> Stages]
        /\ after' = [x \in Services |-> {}] /\ before' = [x \in Services |-> {}]
        /\ enable' \subseteq enable /\ disable' \subseteq disable
        /\ \A y \in Services :
             \/ work'[y] = w[y]
             \/ /\ w[y] = "none" /\ work'[y] = "examine" /\ y \notin Settled'
                /\ y \in enable \/ Provided(y)
    BY <1>0, <1>1, SpawnWakes DEF WorkerTypes, QueueTypes
  <2> HIDE DEF w
  <2>2. \A y \in Services : work'[y] = w[y] \/ FreshIn(w, y)
    BY <2>1 DEF FreshIn, Linked, QueueAsked
  <2>3. ChainTypes' BY <2>1 DEF ChainTypes
  <2> QED BY <2>1, <2>2, <2>3 DEF Threads, w
<1>2. CASE work' = w /\ UNCHANGED <<enable, disable, chains>>
  <2>1. Threads(w) BY <1>0, <1>2, Quiet DEF chains, ChainTypes, WorkerTypes
  <2> QED BY <1>2, <2>1
<1> QED BY <1>1, <1>2 DEF Leave

\* A step that the threads of others survive keeps what is known of those.
LEMMA OthersKept ==
  ASSUME AskedInv, NEW y \in Services, NEW w, Threads(w), w[y] = work[y],
         up'[y] = up[y], listed'[y] = listed[y], goal'[y] = goal[y],
         first'[y] = first[y], candidate'[y] = candidate[y], changed \subseteq changed',
         WantedUp' = WantedUp, WantedDown' = WantedDown, shutting_down' = shutting_down
  PROVE  RoundOf(y)' /\ RecordOf(y)' /\ UpFor(y)' /\ DownFor(y)'
<1>0. RoundOf(y) /\ RecordOf(y) /\ UpFor(y) /\ DownFor(y) BY DEF AskedInv
<1>1. work'[y] = work[y] \/ FreshIn(w, y) BY DEF Threads
<1>2. Chained(y)' => Linked(y) BY DEF Threads, Chained
<1>3. CASE work'[y] = work[y]
  <2>1. RoundOf(y)' BY <1>0, <1>3 DEF RoundOf
  <2>2. RecordOf(y)' BY <1>0, <1>3 DEF RecordOf
  <2>3. UpFor(y)' BY <1>0, <1>2, <1>3 DEF UpFor, Provided, Linked
  <2>4. DownFor(y)' BY <1>0, <1>3 DEF DownFor
  <2> QED BY <2>1, <2>2, <2>3, <2>4
<1>4. CASE FreshIn(w, y)
  <2>1. work[y] = "none" /\ work'[y] = "examine" /\ y \notin changed' /\ Linked(y)
    BY <1>4 DEF FreshIn, Settled
  <2>2. RoundOf(y)' /\ DownFor(y)' BY <2>1 DEF RoundOf, DownFor, TaskStages
  <2>3. RecordOf(y)' BY <1>0, <2>1 DEF RecordOf
  <2>4. UpFor(y)' BY <1>0, <2>1 DEF UpFor, Provided, Linked, TaskStages, Early
  <2> QED BY <2>2, <2>3, <2>4
<1> QED BY <1>1, <1>3, <1>4

-----------------------------------------------------------------------------
\* What a step of the thread of s must show.
SameWants ==
  WantedUp' = WantedUp /\ WantedDown' = WantedDown /\ shutting_down' = shutting_down
Alone(s) ==
  /\ changed \subseteq changed'
  /\ \A y \in Services \ {s} :
       /\ up'[y] = up[y] /\ listed'[y] = listed[y] /\ goal'[y] = goal[y]
       /\ first'[y] = first[y] /\ candidate'[y] = candidate[y]
Fine(y) == RoundOf(y) /\ RecordOf(y) /\ UpFor(y) /\ DownFor(y)
Kept == WorkerTypes' /\ QueueAsked' /\ \A y \in Services : Fine(y)'

LEMMA StepKept ==
  ASSUME AskedInv, NEW s \in Services, NEW stage, Threads(Moved(work, s, stage)),
         ModuleTypes', QueueTypes', ThreadTypes', QueueAsked', Alone(s), SameWants, Fine(s)'
  PROVE  Kept
<1>0. work \in [Services -> Stages] BY DEF AskedInv, WorkerTypes, ThreadTypes
<1>1. WorkerTypes' BY DEF Threads, WorkerTypes
<1>2. ASSUME NEW y \in Services, y # s PROVE Fine(y)'
  <2>1. Moved(work, s, stage)[y] = work[y] BY <1>0, <1>2 DEF Moved
  <2> DEFINE w == Moved(work, s, stage)
  <2>2. w[y] = work[y] /\ Threads(w) BY <2>1
  <2> HIDE DEF w
  <2>3. RoundOf(y)' /\ RecordOf(y)' /\ UpFor(y)' /\ DownFor(y)'
    BY <1>2, <2>2, OthersKept DEF Alone, SameWants
  <2> QED BY <2>3 DEF Fine
<1> QED BY <1>1, <1>2 DEF Kept

LEMMA OwnStage ==
  ASSUME NEW s \in Services, NEW stage, stage # "none", work \in [Services -> Stages],
         Threads(Moved(work, s, stage))
  PROVE  work'[s] = stage
BY DEF Threads, FreshIn, Moved

\* The chained are linked, and so are those that stay on the chains.
LEMMA OnChains ==
  ASSUME NEW x \in Services, NEW y \in Services, y \in before[x] \/ y \in after[x]
  PROVE  Linked(y)
BY DEF Linked, Chained

LEMMA RotatedCandidate ==
  ASSUME NEW s \in Services, head[s] \in Nat, Candidates(s) # {}
  PROVE  Rotated(s) \in Candidates(s)
<1>1. Requires[s] \in Seq(SUBSET Services) BY WorkersAssumption
<1>2. Candidates(s) = 1..Len(Requires[s]) /\ Len(Requires[s]) \in Nat
  BY <1>1 DEF Candidates
<1>3. Len(Requires[s]) >= 1 BY <1>2
<1>4. head[s] % Len(Requires[s]) \in 0..(Len(Requires[s]) - 1) BY <1>2, <1>3
<1> QED BY <1>2, <1>3, <1>4 DEF Rotated

\* A service whose list is not empty has a candidate at its head; none has the index 0.
LEMMA CandidatesFrom ==
  ASSUME NEW s \in Services
  PROVE  0 \notin Candidates(s) /\ (Candidates(s) # {} => 1 \in Candidates(s))
<1>1. Requires[s] \in Seq(SUBSET Services) BY WorkersAssumption
<1>2. Candidates(s) = 1..Len(Requires[s]) /\ Len(Requires[s]) \in Nat BY <1>1 DEF Candidates
<1> QED BY <1>2

-----------------------------------------------------------------------------
\* Each step of a thread keeps what is known of all services.
LEMMA ExamineKeeps ==
  ASSUME AskedInv, NEW s \in Services, Examine(s), SameWants
  PROVE  Kept
<1>0. /\ ModuleTypes /\ QueueTypes /\ ThreadTypes /\ ChainTypes /\ WorkerTypes
      /\ QueueAsked /\ RoundOf(s) /\ RecordOf(s) /\ UpFor(s) /\ DownFor(s)
      /\ work \in [Services -> Stages]
  BY DEF AskedInv, WorkerTypes, ThreadTypes
<1> DEFINE stage == IF Deferred(s) THEN "wait" ELSE "decide"
<1>1. Threads(Moved(work, s, stage))
  <2>1. stage \in Stages BY DEF Stages
  <2>2. Create(after[s], Moved(work, s, stage), before) /\ UNCHANGED after
    BY DEF Examine
  <2> HIDE DEF stage
  <2>3. Moved(work, s, stage) \in [Services -> Stages] BY <1>0, <2>1, MovedTypes
  <2>4. \A x \in Services : \A y \in before[x] \cup after[x] : Linked(y)
    BY <1>0, OnChains DEF ChainTypes
  <2> QED BY <1>0, <2>2, <2>3, <2>4, Started DEF ChainTypes
<1>2. work'[s] = stage BY <1>0, <1>1, OwnStage
<1>3. ModuleTypes' /\ QueueTypes'
  BY <1>0 DEF ModuleTypes, QueueTypes, Examine, modstate, queue, target, marks, chains, walk
<1>4. ThreadTypes'
  BY <1>0, <1>1
  DEF Threads, ThreadTypes, Examine, modstate, queue, target, marks, chains, walk
<1>5. QueueAsked'
  BY <1>0 DEF QueueAsked, SameWants, Examine, modstate, queue, target, marks, chains, walk
<1>6. Alone(s)
  BY <1>0
  DEF Alone, ModuleTypes, ThreadTypes, Examine, modstate, queue, target, marks, chains, walk
<1>7. Fine(s)'
  <2>1. Chained(s)' => Linked(s) BY <1>1 DEF Threads, Chained
  <2>2. RoundOf(s)'
    BY <1>0, <1>2
    DEF RoundOf, TaskStages, Examine, At, modstate, queue, target, marks, chains, walk
  <2>3. RecordOf(s)'
    BY <1>0, <1>2
    DEF RecordOf, Examine, At, Provided, modstate, queue, target, marks, chains, walk
  <2>4. UpFor(s)'
    BY <1>0, <1>2, <2>1
    DEF UpFor, Linked, TaskStages, Early, Provided, SameWants, Examine, At, modstate,
       queue, target, marks, chains, walk
  <2>5. DownFor(s)'
    BY <1>0, <1>2
    DEF DownFor, TaskStages, SameWants, Examine, At, modstate, queue, target, marks,
       chains, walk
  <2> QED BY <2>2, <2>3, <2>4, <2>5 DEF Fine
<1> QED BY <1>1, <1>3, <1>4, <1>5, <1>6, <1>7, StepKept

LEMMA GiveUpKeeps ==
  ASSUME AskedInv, NEW s \in Services, GiveUp(s), SameWants
  PROVE  Kept
<1>0. /\ ModuleTypes /\ QueueTypes /\ ThreadTypes /\ ChainTypes /\ WorkerTypes
      /\ QueueAsked /\ RoundOf(s) /\ RecordOf(s) /\ UpFor(s) /\ DownFor(s)
      /\ work \in [Services -> Stages]
  BY DEF AskedInv, WorkerTypes, ThreadTypes
<1> DEFINE stage == "leave"
<1>1. Threads(Moved(work, s, stage))
  <2>1. work' = Moved(work, s, stage) BY <1>0 DEF GiveUp, Goto
  <2>2. stage \in Stages BY DEF Stages
  <2>3. /\ ChainTypes'
        /\ \A x \in Services : before'[x] \subseteq before[x] /\ after'[x] \subseteq after[x]
    BY <1>0 DEF ChainTypes, GiveUp, chains
  <2> QED BY <1>0, <2>1, <2>2, <2>3, MovedTypes, Quiet
<1>2. work'[s] = stage BY <1>0, <1>1, OwnStage
<1>3. ModuleTypes' /\ QueueTypes'
  BY <1>0 DEF ModuleTypes, QueueTypes, GiveUp, modstate, queue, target, marks, chains, walk
<1>4. ThreadTypes'
  BY <1>0, <1>1
  DEF Threads, ThreadTypes, GiveUp, modstate, queue, target, marks, chains, walk
<1>5. QueueAsked'
  BY <1>0 DEF QueueAsked, SameWants, GiveUp, modstate, queue, target, marks, chains, walk
<1>6. Alone(s)
  BY <1>0
  DEF Alone, ModuleTypes, ThreadTypes, GiveUp, modstate, queue, target, marks, chains, walk
<1>7. Fine(s)'
  <2>1. Chained(s)' => Linked(s) BY <1>1 DEF Threads, Chained
  <2>2. RoundOf(s)'
    BY <1>0, <1>2
    DEF RoundOf, TaskStages, GiveUp, At, modstate, queue, target, marks, chains, walk
  <2>3. RecordOf(s)'
    BY <1>0, <1>2
    DEF RecordOf, GiveUp, At, Provided, modstate, queue, target, marks, chains, walk
  <2>4. UpFor(s)'
    BY <1>0, <1>2, <2>1
    DEF UpFor, Linked, TaskStages, Early, Provided, SameWants, GiveUp, At, modstate, queue,
       target, marks, chains, walk
  <2>5. DownFor(s)'
    BY <1>0, <1>2
    DEF DownFor, TaskStages, SameWants, GiveUp, At, modstate, queue, target, marks, chains,
       walk
  <2> QED BY <2>2, <2>3, <2>4, <2>5 DEF Fine
<1> QED BY <1>1, <1>3, <1>4, <1>5, <1>6, <1>7, StepKept

LEMMA AbandonKeeps ==
  ASSUME AskedInv, NEW s \in Services, Abandon(s), SameWants
  PROVE  Kept
<1>0. /\ ModuleTypes /\ QueueTypes /\ ThreadTypes /\ ChainTypes /\ WorkerTypes
      /\ QueueAsked /\ RoundOf(s) /\ RecordOf(s) /\ UpFor(s) /\ DownFor(s)
      /\ work \in [Services -> Stages]
  BY DEF AskedInv, WorkerTypes, ThreadTypes
<1> DEFINE stage == "none"
<1>1. Threads(Moved(work, s, stage))
  BY <1>0, Left DEF Abandon
<1>2. work'[s] = "none" \/ FreshIn(Moved(work, s, "none"), s)
  BY <1>0, <1>1 DEF Threads, Moved
<1>3. enable' \subseteq enable /\ disable' \subseteq disable BY <1>0, Left DEF Abandon
<1>4. ModuleTypes' /\ QueueTypes' /\ ThreadTypes'
  <2>1. ModuleTypes' BY <1>0 DEF ModuleTypes, Abandon, modstate
  <2>2. QueueTypes' BY <1>0, <1>3 DEF QueueTypes, Abandon, target, marks
  <2>3. ThreadTypes' BY <1>0, <1>1 DEF Threads, ThreadTypes, Abandon, walk
  <2> QED BY <2>1, <2>2, <2>3
<1>5. QueueAsked' BY <1>0, <1>3 DEF QueueAsked, SameWants, Abandon, target
<1>6. Alone(s)
  BY <1>0
  DEF Alone, ModuleTypes, ThreadTypes, Abandon, modstate, queue, target, marks, chains, walk
<1>7. Fine(s)'
  <2>1. Chained(s)' => Linked(s) BY <1>1 DEF Threads, Chained
  <2>2. work'[s] \in {"none", "examine"} /\ work[s] \in Early
    BY <1>2 DEF FreshIn, Abandon, At, Early
  <2>3. RoundOf(s)' /\ DownFor(s)' BY <2>2 DEF RoundOf, DownFor, TaskStages
  <2>4. RecordOf(s)' BY <1>0, <2>2 DEF RecordOf, Abandon, modstate, Early
  <2>5. UpFor(s)'
    BY <1>0, <2>1, <2>2
    DEF UpFor, Linked, TaskStages, Provided, SameWants, Abandon, modstate
  <2> QED BY <2>3, <2>4, <2>5 DEF Fine
<1> QED BY <1>1, <1>3, <1>4, <1>5, <1>6, <1>7, StepKept

LEMMA EndKeeps ==
  ASSUME AskedInv, NEW s \in Services, End(s), SameWants
  PROVE  Kept
<1>0. /\ ModuleTypes /\ QueueTypes /\ ThreadTypes /\ ChainTypes /\ WorkerTypes
      /\ QueueAsked /\ RoundOf(s) /\ RecordOf(s) /\ UpFor(s) /\ DownFor(s)
      /\ work \in [Services -> Stages]
  BY DEF AskedInv, WorkerTypes, ThreadTypes
<1> DEFINE stage == "none"
<1>1. Threads(Moved(work, s, stage))
  BY <1>0, Left DEF End
<1>2. work'[s] = "none" \/ FreshIn(Moved(work, s, "none"), s)
  BY <1>0, <1>1 DEF Threads, Moved
<1>3. enable' \subseteq enable /\ disable' \subseteq disable BY <1>0, Left DEF End
<1>4. ModuleTypes' /\ QueueTypes' /\ ThreadTypes'
  <2>1. ModuleTypes' BY <1>0 DEF ModuleTypes, End, modstate
  <2>2. QueueTypes' BY <1>0, <1>3 DEF QueueTypes, End, target
  <2>3. ThreadTypes' BY <1>0, <1>1 DEF Threads, ThreadTypes, End
  <2> QED BY <2>1, <2>2, <2>3
<1>5. QueueAsked' BY <1>0, <1>3 DEF QueueAsked, SameWants, End, target
<1>6. Alone(s)
  BY <1>0
  DEF Alone, ModuleTypes, ThreadTypes, End, modstate, queue, target, marks, chains, walk
<1>7. Fine(s)'
  <2>1. Chained(s)' => Linked(s) BY <1>1 DEF Threads, Chained
  <2>2. \/ work'[s] = "none"
        \/ work'[s] = "examine" /\ s \notin changed' /\ Linked(s)
    BY <1>2 DEF FreshIn, Settled
  <2>3. work[s] \in {"settle", "leave"} /\ (work[s] = "settle" => s \in changed')
    BY DEF End
  <2>4. RoundOf(s)' /\ DownFor(s)' BY <2>2 DEF RoundOf, DownFor, TaskStages
  <2>5. RecordOf(s)' BY <1>0, <2>2, <2>3 DEF RecordOf, End, modstate
  <2>6. UpFor(s)'
    BY <1>0, <2>1, <2>2, <2>3
    DEF UpFor, Linked, TaskStages, Early, Provided, SameWants, End, modstate
  <2> QED BY <2>4, <2>5, <2>6 DEF Fine
<1> QED BY <1>1, <1>3, <1>4, <1>5, <1>6, <1>7, StepKept

LEMMA DecideKeeps ==
  ASSUME AskedInv, NEW s \in Services, Decide(s), SameWants
  PROVE  Kept
<1>0. /\ ModuleTypes /\ QueueTypes /\ ThreadTypes /\ ChainTypes /\ WorkerTypes
      /\ QueueAsked /\ RoundOf(s) /\ RecordOf(s) /\ UpFor(s) /\ DownFor(s)
      /\ work \in [Services -> Stages]
  BY DEF AskedInv, WorkerTypes, ThreadTypes
<1> DEFINE stage == IF InRightState(s, Task(s)) THEN "post"
                    ELSE IF Candidates(s) = {} THEN "leave"
                    ELSE "apply"
<1>1. Threads(Moved(work, s, stage))
  <2>1. work' = Moved(work, s, stage) BY <1>0 DEF Decide, Goto
  <2>2. stage \in Stages BY DEF Stages
  <2>3. /\ ChainTypes'
        /\ \A x \in Services : before'[x] \subseteq before[x] /\ after'[x] \subseteq after[x]
    BY <1>0 DEF ChainTypes, Decide, chains
  <2> QED BY <1>0, <2>1, <2>2, <2>3, MovedTypes, Quiet
<1>2. work'[s] = stage BY <1>0, <1>1, OwnStage
<1>3. ModuleTypes' /\ QueueTypes'
  <2>1. ModuleTypes' BY <1>0 DEF ModuleTypes, Decide, modstate
  <2>2. QueueTypes' BY <1>0 DEF QueueTypes, Decide, queue, target
  <2> QED BY <2>1, <2>2
<1>4. ThreadTypes'
  <2>1. head[s] \in Nat /\ (Candidates(s) # {} => head[s] \in Candidates(s))
    BY <1>0, CandidatesFrom DEF ModuleTypes
  <2>2. Task(s) \in {"enable", "disable"} BY DEF Task
  <2>3. CASE InRightState(s, Task(s)) \/ Candidates(s) = {}
    <3>1. UNCHANGED walk BY <2>3 DEF Decide
    <3> QED BY <1>0, <1>1, <3>1 DEF Threads, ThreadTypes, walk
  <2>4. CASE ~InRightState(s, Task(s)) /\ Candidates(s) # {}
    <3>1. /\ goal' = [goal EXCEPT ![s] = Task(s)] /\ first' = [first EXCEPT ![s] = head[s]]
          /\ candidate' = [candidate EXCEPT ![s] = head[s]]
      BY <2>4 DEF Decide
    <3> HIDE DEF Task, Candidates
    <3> QED BY <1>0, <1>1, <2>1, <2>2, <2>4, <3>1 DEF Threads, ThreadTypes
  <2> QED BY <2>3, <2>4
<1>5. QueueAsked'
  BY <1>0 DEF QueueAsked, SameWants, Decide, modstate, queue, target, marks, chains, walk
<1>6. Alone(s)
  BY <1>0
  DEF Alone, ModuleTypes, ThreadTypes, Decide, modstate, queue, target, marks, chains, walk
<1>7. Fine(s)'
  <2>1. Chained(s)' => Linked(s) BY <1>1 DEF Threads, Chained
  <2>2. RoundOf(s)'
    BY <1>0, <1>2, CandidatesFrom DEF RoundOf, TaskStages, Decide, ModuleTypes, ThreadTypes
  <2>3. RecordOf(s)' BY <1>0, <1>2 DEF RecordOf, Decide, At, modstate
  <2>4. UpFor(s)'
    <3>1. s \notin WantedUp => Provided(s) BY <1>0 DEF UpFor, Early, Decide, At
    <3>2. s \notin WantedUp /\ stage = "apply" => Task(s) = "disable"
      BY <3>1 DEF InRightState, Task
    <3>3. stage = "apply" => goal'[s] = Task(s) BY <1>0 DEF Decide, ThreadTypes
    <3> QED BY <1>2, <3>1, <3>2, <3>3
            DEF UpFor, TaskStages, Early, Provided, SameWants, Decide, modstate
  <2>5. DownFor(s)'
    <3>1. Task(s) # "enable" /\ ~shutting_down => s \in WantedDown
      BY <1>0 DEF Task, QueueAsked
    <3>2. stage = "apply" => goal'[s] = Task(s) BY <1>0 DEF Decide, ThreadTypes
    <3> QED BY <1>2, <3>1, <3>2 DEF DownFor, TaskStages, SameWants
  <2> QED BY <2>2, <2>3, <2>4, <2>5 DEF Fine
<1> QED BY <1>1, <1>3, <1>4, <1>5, <1>6, <1>7, StepKept

LEMMA ApplyEnableKeeps ==
  ASSUME AskedInv, NEW s \in Services, ApplyEnable(s), SameWants
  PROVE  Kept
<1>0. /\ ModuleTypes /\ QueueTypes /\ ThreadTypes /\ ChainTypes /\ WorkerTypes
      /\ QueueAsked /\ RoundOf(s) /\ RecordOf(s) /\ UpFor(s) /\ DownFor(s)
      /\ work \in [Services -> Stages]
  BY DEF AskedInv, WorkerTypes, ThreadTypes
<1> DEFINE stage == IF Provided(s) \/ up[s] = candidate[s] THEN "post"
                    ELSE IF Met(s) THEN "call"
                    ELSE "need"
<1>1. Threads(Moved(work, s, stage))
  <2>1. work' = Moved(work, s, stage) BY <1>0 DEF ApplyEnable, Goto
  <2>2. stage \in Stages BY DEF Stages
  <2>3. /\ ChainTypes'
        /\ \A x \in Services : before'[x] \subseteq before[x] /\ after'[x] \subseteq after[x]
    BY <1>0 DEF ChainTypes, ApplyEnable, chains
  <2> QED BY <1>0, <2>1, <2>2, <2>3, MovedTypes, Quiet
<1>2. work'[s] = stage BY <1>0, <1>1, OwnStage
<1>3. ModuleTypes' /\ QueueTypes'
  BY <1>0
  DEF ModuleTypes, QueueTypes, ApplyEnable, modstate, queue, target, marks, chains, walk
<1>4. ThreadTypes'
  BY <1>0, <1>1
  DEF Threads, ThreadTypes, ApplyEnable, modstate, queue, target, marks, chains, walk
<1>5. QueueAsked'
  BY <1>0
  DEF QueueAsked, SameWants, ApplyEnable, modstate, queue, target, marks, chains, walk
<1>6. Alone(s)
  BY <1>0
  DEF Alone, ModuleTypes, ThreadTypes, ApplyEnable, modstate, queue, target, marks, chains,
     walk
<1>7. Fine(s)'
  <2>1. Chained(s)' => Linked(s) BY <1>1 DEF Threads, Chained
  <2>2. RoundOf(s)'
    BY <1>0, <1>2
    DEF RoundOf, TaskStages, ApplyEnable, At, modstate, queue, target, marks, chains, walk
  <2>3. RecordOf(s)'
    BY <1>0, <1>2
    DEF RecordOf, ApplyEnable, At, Provided, modstate, queue, target, marks, chains, walk
  <2>4. UpFor(s)'
    BY <1>0, <1>2, <2>1
    DEF UpFor, Linked, TaskStages, Early, Provided, SameWants, ApplyEnable, At, modstate,
       queue, target, marks, chains, walk
  <2>5. DownFor(s)'
    BY <1>0, <1>2
    DEF DownFor, TaskStages, SameWants, ApplyEnable, At, modstate, queue, target, marks,
       chains, walk
  <2> QED BY <2>2, <2>3, <2>4, <2>5 DEF Fine
<1> QED BY <1>1, <1>3, <1>4, <1>5, <1>6, <1>7, StepKept

LEMMA ApplyDisableKeeps ==
  ASSUME AskedInv, NEW s \in Services, ApplyDisable(s), SameWants
  PROVE  Kept
<1>0. /\ ModuleTypes /\ QueueTypes /\ ThreadTypes /\ ChainTypes /\ WorkerTypes
      /\ QueueAsked /\ RoundOf(s) /\ RecordOf(s) /\ UpFor(s) /\ DownFor(s)
      /\ work \in [Services -> Stages]
  BY DEF AskedInv, WorkerTypes, ThreadTypes
<1> DEFINE stage == IF ~Provided(s) \/ s \in Settled THEN "post"
                    ELSE IF up[s] # candidate[s] THEN "next"
                    ELSE IF Users(s) = {} THEN "call"
                    ELSE "need"
<1>1. Threads(Moved(work, s, stage))
  <2>1. work' = Moved(work, s, stage) BY <1>0 DEF ApplyDisable, Goto
  <2>2. stage \in Stages BY DEF Stages
  <2>3. /\ ChainTypes'
        /\ \A x \in Services : before'[x] \subseteq before[x] /\ after'[x] \subseteq after[x]
    BY <1>0 DEF ChainTypes, ApplyDisable, chains
  <2> QED BY <1>0, <2>1, <2>2, <2>3, MovedTypes, Quiet
<1>2. work'[s] = stage BY <1>0, <1>1, OwnStage
<1>3. ModuleTypes' /\ QueueTypes'
  BY <1>0
  DEF ModuleTypes, QueueTypes, ApplyDisable, modstate, queue, target, marks, chains, walk
<1>4. ThreadTypes'
  BY <1>0, <1>1
  DEF Threads, ThreadTypes, ApplyDisable, modstate, queue, target, marks, chains, walk
<1>5. QueueAsked'
  BY <1>0
  DEF QueueAsked, SameWants, ApplyDisable, modstate, queue, target, marks, chains, walk
<1>6. Alone(s)
  BY <1>0
  DEF Alone, ModuleTypes, ThreadTypes, ApplyDisable, modstate, queue, target, marks,
     chains, walk
<1>7. Fine(s)'
  <2>1. Chained(s)' => Linked(s) BY <1>1 DEF Threads, Chained
  <2>2. RoundOf(s)'
    BY <1>0, <1>2
    DEF RoundOf, TaskStages, ApplyDisable, At, modstate, queue, target, marks, chains, walk
  <2>3. RecordOf(s)'
    BY <1>0, <1>2
    DEF RecordOf, ApplyDisable, At, Provided, modstate, queue, target, marks, chains, walk
  <2>4. UpFor(s)'
    BY <1>0, <1>2, <2>1
    DEF UpFor, Linked, TaskStages, Early, Provided, SameWants, ApplyDisable, At, modstate,
       queue, target, marks, chains, walk
  <2>5. DownFor(s)'
    BY <1>0, <1>2
    DEF DownFor, TaskStages, SameWants, ApplyDisable, At, modstate, queue, target, marks,
       chains, walk
  <2> QED BY <2>2, <2>3, <2>4, <2>5 DEF Fine
<1> QED BY <1>1, <1>3, <1>4, <1>5, <1>6, <1>7, StepKept

LEMMA CallKeeps ==
  ASSUME AskedInv, NEW s \in Services, Call(s), SameWants
  PROVE  Kept
<1>0. /\ ModuleTypes /\ QueueTypes /\ ThreadTypes /\ ChainTypes /\ WorkerTypes
      /\ QueueAsked /\ RoundOf(s) /\ RecordOf(s) /\ UpFor(s) /\ DownFor(s)
      /\ work \in [Services -> Stages]
  BY DEF AskedInv, WorkerTypes, ThreadTypes
<1> DEFINE stage == work'[s]
<1>1. Threads(Moved(work, s, stage))
  <2>1. work' = Moved(work, s, stage) BY <1>0 DEF Call, Goto, Moved
  <2>2. stage \in Stages BY <1>0 DEF Call, Goto, Moved, Stages
  <2>3. /\ ChainTypes'
        /\ \A x \in Services : before'[x] \subseteq before[x] /\ after'[x] \subseteq after[x]
    BY <1>0 DEF ChainTypes, Call, chains
  <2> QED BY <1>0, <2>1, <2>2, <2>3, MovedTypes, Quiet
<1>2. work'[s] \in {"run", "next"} BY <1>0 DEF Call, Goto, Moved
<1>3. ModuleTypes' /\ QueueTypes'
  BY <1>0 DEF ModuleTypes, QueueTypes, Call, modstate, queue, target, marks, chains, walk
<1>4. ThreadTypes'
  BY <1>0, <1>1 DEF Threads, ThreadTypes, Call, modstate, queue, target, marks, chains, walk
<1>5. QueueAsked'
  BY <1>0 DEF QueueAsked, SameWants, Call, modstate, queue, target, marks, chains, walk
<1>6. Alone(s)
  BY <1>0
  DEF Alone, ModuleTypes, ThreadTypes, Call, modstate, queue, target, marks, chains, walk
<1>7. Fine(s)'
  <2>1. Chained(s)' => Linked(s) BY <1>1 DEF Threads, Chained
  <2>2. RoundOf(s)'
    BY <1>0, <1>2
    DEF RoundOf, TaskStages, Call, At, modstate, queue, target, marks, chains, walk
  <2>3. RecordOf(s)'
    BY <1>0, <1>2
    DEF RecordOf, Call, At, Provided, modstate, queue, target, marks, chains, walk
  <2>4. UpFor(s)'
    BY <1>0, <1>2, <2>1
    DEF UpFor, Linked, TaskStages, Early, Provided, SameWants, Call, At, modstate, queue,
       target, marks, chains, walk
  <2>5. DownFor(s)'
    BY <1>0, <1>2
    DEF DownFor, TaskStages, SameWants, Call, At, modstate, queue, target, marks, chains,
       walk
  <2> QED BY <2>2, <2>3, <2>4, <2>5 DEF Fine
<1> QED BY <1>1, <1>3, <1>4, <1>5, <1>6, <1>7, StepKept

LEMMA MarkBrokenKeeps ==
  ASSUME AskedInv, NEW s \in Services, MarkBroken(s), SameWants
  PROVE  Kept
<1>0. /\ ModuleTypes /\ QueueTypes /\ ThreadTypes /\ ChainTypes /\ WorkerTypes
      /\ QueueAsked /\ RoundOf(s) /\ RecordOf(s) /\ UpFor(s) /\ DownFor(s)
      /\ work \in [Services -> Stages]
  BY DEF AskedInv, WorkerTypes, ThreadTypes
<1> DEFINE stage == "quit"
<1>1. Threads(Moved(work, s, stage))
  <2>1. work' = Moved(work, s, stage) BY <1>0 DEF MarkBroken, Goto
  <2>2. stage \in Stages BY DEF Stages
  <2>3. /\ ChainTypes'
        /\ \A x \in Services : before'[x] \subseteq before[x] /\ after'[x] \subseteq after[x]
    BY <1>0 DEF ChainTypes, MarkBroken, chains
  <2> QED BY <1>0, <2>1, <2>2, <2>3, MovedTypes, Quiet
<1>2. work'[s] = stage BY <1>0, <1>1, OwnStage
<1>3. ModuleTypes' /\ QueueTypes'
  BY <1>0
  DEF ModuleTypes, QueueTypes, MarkBroken, modstate, queue, target, marks, chains, walk
<1>4. ThreadTypes'
  BY <1>0, <1>1
  DEF Threads, ThreadTypes, MarkBroken, modstate, queue, target, marks, chains, walk
<1>5. QueueAsked'
  BY <1>0
  DEF QueueAsked, SameWants, MarkBroken, modstate, queue, target, marks, chains, walk
<1>6. Alone(s)
  BY <1>0
  DEF Alone, ModuleTypes, ThreadTypes, MarkBroken, modstate, queue, target, marks, chains,
     walk
<1>7. Fine(s)'
  <2>1. Chained(s)' => Linked(s) BY <1>1 DEF Threads, Chained
  <2>2. RoundOf(s)'
    BY <1>0, <1>2
    DEF RoundOf, TaskStages, MarkBroken, At, modstate, queue, target, marks, chains, walk
  <2>3. RecordOf(s)'
    BY <1>0, <1>2
    DEF RecordOf, MarkBroken, At, Provided, modstate, queue, target, marks, chains, walk
  <2>4. UpFor(s)'
    BY <1>0, <1>2, <2>1
    DEF UpFor, Linked, TaskStages, Early, Provided, SameWants, MarkBroken, At, modstate,
       queue, target, marks, chains, walk
  <2>5. DownFor(s)'
    BY <1>0, <1>2
    DEF DownFor, TaskStages, SameWants, MarkBroken, At, modstate, queue, target, marks,
       chains, walk
  <2> QED BY <2>2, <2>3, <2>4, <2>5 DEF Fine
<1> QED BY <1>1, <1>3, <1>4, <1>5, <1>6, <1>7, StepKept

\* Deferring s after services that have a reason to be woken, when it has one itself.
LEMMA Deferring ==
  ASSUME ChainTypes, NEW s \in Services, NEW D, D \subseteq Services, \A y \in D : Linked(y),
         D # {} => Linked(s)
  PROVE  /\ WaitersWith(s, D) \in [Services -> SUBSET Services]
         /\ [after EXCEPT ![s] = @ \cup D] \in [Services -> SUBSET Services]
         /\ \A x \in Services :
              \A y \in WaitersWith(s, D)[x] \cup [after EXCEPT ![s] = @ \cup D][x] : Linked(y)
<1>1. WaitersWith(s, D) \in [Services -> SUBSET Services]
      /\ [after EXCEPT ![s] = @ \cup D] \in [Services -> SUBSET Services]
  BY DEF ChainTypes, WaitersWith
<1>2. ASSUME NEW x \in Services, NEW y \in WaitersWith(s, D)[x] PROVE Linked(y)
  <2>1. y \in before[x] \/ (x \in D /\ y = s) BY <1>2 DEF WaitersWith
  <2>2. y \in Services BY <1>1
  <2> QED BY <2>1, <2>2, OnChains
<1>3. ASSUME NEW x \in Services, NEW y \in [after EXCEPT ![s] = @ \cup D][x] PROVE Linked(y)
  <2>1. y \in after[x] \/ y \in D BY <1>3 DEF ChainTypes
  <2>2. y \in Services BY <1>1
  <2> QED BY <2>1, <2>2, OnChains
<1> QED BY <1>1, <1>2, <1>3

LEMMA EnableRequirementsKeeps ==
  ASSUME AskedInv, NEW s \in Services, EnableRequirements(s), SameWants
  PROVE  Kept
<1>0. /\ ModuleTypes /\ QueueTypes /\ ThreadTypes /\ ChainTypes /\ WorkerTypes
      /\ QueueAsked /\ RoundOf(s) /\ RecordOf(s) /\ UpFor(s) /\ DownFor(s)
      /\ work \in [Services -> Stages]
  BY DEF AskedInv, WorkerTypes, ThreadTypes
<1> DEFINE R == Requires[s][candidate[s]]
<1>r. R \subseteq Services /\ R \subseteq WantedUp /\ s \in WantedUp
  <2>1. s \in WantedUp /\ candidate[s] \in Candidates(s)
    BY <1>0 DEF EnableRequirements, At, UpFor, RoundOf, TaskStages
  <2>2. R \subseteq WantedUp BY <2>1, WantedUpClosed
  <2> QED BY <2>1, <2>2 DEF WantedUp
<1> DEFINE stage == work'[s]
<1>1. Threads(Moved(work, s, stage))
  <2>1. work' = Moved(work, s, stage) /\ stage \in {"call", "defer"}
    BY <1>0 DEF EnableRequirements, Bail, Goto, Moved
  <2>2. stage \in Stages BY <2>1 DEF Stages
  <2>3. ASSUME NEW D, D \subseteq R, DeferAfter(s, D), before' = WaitersWith(s, D)
        PROVE  Threads(work')
    <3>1. D \subseteq Services /\ (\A y \in D : Linked(y)) /\ Linked(s)
      BY <1>r, <2>3 DEF Linked
    <3>2. /\ before' \in [Services -> SUBSET Services] /\ after' \in [Services -> SUBSET Services]
          /\ \A x \in Services : \A y \in before'[x] \cup after'[x] : Linked(y)
      BY <1>0, <2>3, <3>1, Deferring DEF DeferAfter
    <3>3. work' \in [Services -> Stages] BY <1>0, <2>1, <2>2, MovedTypes
    <3> QED BY <3>2, <3>3 DEF Threads, ChainTypes
  <2>4. CASE UNCHANGED chains
    BY <1>0, <2>1, <2>2, <2>4, MovedTypes, Quiet DEF chains, ChainTypes
  <2>5. Threads(work')
    <3>1. CASE \E D \in SUBSET R : DeferAfter(s, D) /\ before' = WaitersWith(s, D)
      BY <2>3, <3>1
    <3>2. CASE UNCHANGED chains BY <2>1, <2>4, <3>2
    <3> QED BY <3>1, <3>2 DEF EnableRequirements, Bail
  <2> QED BY <2>1, <2>5
<1>2. work'[s] \in {"call", "defer"} /\ UNCHANGED <<enable, disable>>
  BY <1>0 DEF EnableRequirements, Bail, Goto, Moved
<1>3. ModuleTypes' /\ QueueTypes'
  BY <1>0, <1>2
  DEF ModuleTypes, QueueTypes, EnableRequirements, modstate, queue, target, marks, chains,
     walk
<1>4. ThreadTypes'
  BY <1>0, <1>1
  DEF Threads, ThreadTypes, EnableRequirements, modstate, queue, target, marks, chains, walk
<1>5. QueueAsked'
  BY <1>0, <1>2
  DEF QueueAsked, SameWants, EnableRequirements, modstate, queue, target, marks, chains,
     walk
<1>6. Alone(s)
  BY <1>0
  DEF Alone, ModuleTypes, ThreadTypes, EnableRequirements, modstate, queue, target, marks,
     chains, walk
<1>7. Fine(s)'
  <2>1. Chained(s)' => Linked(s) BY <1>1 DEF Threads, Chained
  <2>2. RoundOf(s)'
    BY <1>0, <1>2
    DEF RoundOf, TaskStages, EnableRequirements, At, modstate, queue, target, marks,
       chains, walk
  <2>3. RecordOf(s)'
    BY <1>0, <1>2
    DEF RecordOf, EnableRequirements, At, Provided, modstate, queue, target, marks, chains,
       walk
  <2>4. UpFor(s)'
    BY <1>r
    DEF UpFor, Linked, TaskStages, Early, Provided, SameWants, EnableRequirements, At,
       modstate, queue, target, marks, chains, walk
  <2>5. DownFor(s)'
    BY <1>0, <1>2
    DEF DownFor, TaskStages, SameWants, EnableRequirements, At, modstate, queue, target,
       marks, chains, walk
  <2> QED BY <2>2, <2>3, <2>4, <2>5 DEF Fine
<1> QED BY <1>1, <1>3, <1>4, <1>5, <1>6, <1>7, StepKept

LEMMA DeferAfterRequirementsKeeps ==
  ASSUME AskedInv, NEW s \in Services, DeferAfterRequirements(s), SameWants
  PROVE  Kept
<1>0. /\ ModuleTypes /\ QueueTypes /\ ThreadTypes /\ ChainTypes /\ WorkerTypes
      /\ QueueAsked /\ RoundOf(s) /\ RecordOf(s) /\ UpFor(s) /\ DownFor(s)
      /\ work \in [Services -> Stages]
  BY DEF AskedInv, WorkerTypes, ThreadTypes
<1> DEFINE R == Requires[s][candidate[s]]
<1> DEFINE missing == {r \in R : ~Provided(r)} \ enable
<1>r. R \subseteq Services /\ R \subseteq WantedUp /\ s \in WantedUp /\ missing \subseteq R
  <2>1. s \in WantedUp /\ candidate[s] \in Candidates(s)
    BY <1>0 DEF DeferAfterRequirements, At, UpFor, RecordOf, RoundOf, TaskStages
  <2>2. R \subseteq WantedUp BY <2>1, WantedUpClosed
  <2> QED BY <2>1, <2>2 DEF WantedUp
<1>q. enable' = enable \cup missing BY DEF DeferAfterRequirements
<1> DEFINE stage == "pre"
<1>1. Threads(Moved(work, s, stage))
  <2>1. stage \in Stages BY DEF Stages
  <2>2. DeferAfter(s, R) /\ Create(missing, Moved(work, s, stage), WaitersWith(s, R))
    BY DEF DeferAfterRequirements
  <2> HIDE DEF stage, R, missing
  <2>3. Moved(work, s, stage) \in [Services -> Stages] BY <1>0, <2>1, MovedTypes
  <2>4. (\A y \in R : Linked(y)) /\ Linked(s) BY <1>r DEF Linked
  <2>5. /\ WaitersWith(s, R) \in [Services -> SUBSET Services]
        /\ after' \in [Services -> SUBSET Services]
        /\ \A x \in Services : \A y \in WaitersWith(s, R)[x] \cup after'[x] : Linked(y)
    BY <1>0, <1>r, <2>2, <2>4, Deferring DEF DeferAfter
  <2>6. missing \subseteq Services /\ \A y \in missing : Linked(y)
    BY <1>r, <2>4
  <2> QED BY <2>2, <2>3, <2>5, <2>6, Started
<1>2. work'[s] = stage BY <1>0, <1>1, OwnStage
<1>3. ModuleTypes' /\ QueueTypes'
  BY <1>0, <1>r, <1>q
  DEF ModuleTypes, QueueTypes, DeferAfterRequirements, modstate, queue, target, marks,
     chains, walk
<1>4. ThreadTypes'
  BY <1>0, <1>1
  DEF Threads, ThreadTypes, DeferAfterRequirements, modstate, queue, target, marks, chains,
     walk
<1>5. QueueAsked'
  BY <1>0, <1>r, <1>q
  DEF QueueAsked, SameWants, DeferAfterRequirements, modstate, queue, target, marks,
     chains, walk
<1>6. Alone(s)
  BY <1>0
  DEF Alone, ModuleTypes, ThreadTypes, DeferAfterRequirements, modstate, queue, target,
     marks, chains, walk
<1>7. Fine(s)'
  <2>1. Chained(s)' => Linked(s) BY <1>1 DEF Threads, Chained
  <2>2. RoundOf(s)'
    BY <1>0, <1>2
    DEF RoundOf, TaskStages, DeferAfterRequirements, At, modstate, queue, target, marks,
       chains, walk
  <2>3. RecordOf(s)'
    BY <1>0, <1>2
    DEF RecordOf, DeferAfterRequirements, At, Provided, modstate, queue, target, marks,
       chains, walk
  <2>4. UpFor(s)'
    BY <1>0, <1>2, <2>1
    DEF UpFor, Linked, TaskStages, Early, Provided, SameWants, DeferAfterRequirements, At,
       modstate, queue, target, marks, chains, walk
  <2>5. DownFor(s)'
    BY <1>0, <1>2
    DEF DownFor, TaskStages, SameWants, DeferAfterRequirements, At, modstate, queue,
       target, marks, chains, walk
  <2> QED BY <2>2, <2>3, <2>4, <2>5 DEF Fine
<1> QED BY <1>1, <1>3, <1>4, <1>5, <1>6, <1>7, StepKept

LEMMA FinishKeeps ==
  ASSUME AskedInv, NEW s \in Services, Finish(s), SameWants
  PROVE  Kept
<1>0. /\ ModuleTypes /\ QueueTypes /\ ThreadTypes /\ ChainTypes /\ WorkerTypes
      /\ QueueAsked /\ RoundOf(s) /\ RecordOf(s) /\ UpFor(s) /\ DownFor(s)
      /\ work \in [Services -> Stages]
  BY DEF AskedInv, WorkerTypes, ThreadTypes
<1> DEFINE stage == IF work[s] = "post" THEN "settle" ELSE "leave"
<1>1. Threads(Moved(work, s, stage))
  <2>1. stage \in Stages BY DEF Stages
  <2>2. Create(before[s], Moved(work, s, stage), [before EXCEPT ![s] = {}]) /\ UNCHANGED after
    BY DEF Finish, PostExamine
  <2> HIDE DEF stage
  <2>3. Moved(work, s, stage) \in [Services -> Stages] BY <1>0, <2>1, MovedTypes
  <2>4. \A x \in Services : \A y \in before[x] \cup after[x] : Linked(y)
    BY <1>0, OnChains DEF ChainTypes
  <2>5. /\ [before EXCEPT ![s] = {}] \in [Services -> SUBSET Services]
        /\ \A x \in Services : \A y \in [before EXCEPT ![s] = {}][x] : Linked(y)
    BY <1>0, <2>4 DEF ChainTypes
  <2>6. /\ before[s] \subseteq Services /\ \A y \in before[s] : Linked(y)
        /\ after' \in [Services -> SUBSET Services]
        /\ \A x \in Services : \A y \in after'[x] : Linked(y)
    BY <1>0, <2>2, <2>4 DEF ChainTypes
  <2> QED BY <2>2, <2>3, <2>5, <2>6, Started
<1>2. work'[s] = stage BY <1>0, <1>1, OwnStage
<1>3. ModuleTypes' /\ QueueTypes'
  BY <1>0 DEF ModuleTypes, QueueTypes, Finish, modstate, queue, target, marks, chains, walk
<1>4. ThreadTypes'
  BY <1>0, <1>1
  DEF Threads, ThreadTypes, Finish, modstate, queue, target, marks, chains, walk
<1>5. QueueAsked'
  BY <1>0 DEF QueueAsked, SameWants, Finish, modstate, queue, target, marks, chains, walk
<1>6. Alone(s)
  BY <1>0
  DEF Alone, ModuleTypes, ThreadTypes, Finish, modstate, queue, target, marks, chains, walk
<1>7. Fine(s)'
  <2>1. Chained(s)' => Linked(s) BY <1>1 DEF Threads, Chained
  <2>2. RoundOf(s)'
    BY <1>0, <1>2
    DEF RoundOf, TaskStages, Finish, At, modstate, queue, target, marks, chains, walk
  <2>3. RecordOf(s)'
    BY <1>0, <1>2
    DEF RecordOf, Finish, At, Provided, modstate, queue, target, marks, chains, walk
  <2>4. UpFor(s)'
    BY <1>0, <1>2, <2>1
    DEF UpFor, Linked, TaskStages, Early, Provided, SameWants, Finish, At, modstate, queue,
       target, marks, chains, walk
  <2>5. DownFor(s)'
    BY <1>0, <1>2
    DEF DownFor, TaskStages, SameWants, Finish, At, modstate, queue, target, marks, chains,
       walk
  <2> QED BY <2>2, <2>3, <2>4, <2>5 DEF Fine
<1> QED BY <1>1, <1>3, <1>4, <1>5, <1>6, <1>7, StepKept

LEMMA RunKeeps ==
  ASSUME AskedInv, NEW s \in Services, Run(s), SameWants
  PROVE  Kept
<1>0. /\ ModuleTypes /\ QueueTypes /\ ThreadTypes /\ ChainTypes /\ WorkerTypes
      /\ QueueAsked /\ RoundOf(s) /\ RecordOf(s) /\ UpFor(s) /\ DownFor(s)
      /\ work \in [Services -> Stages]
  BY DEF AskedInv, WorkerTypes, ThreadTypes
<1>r. /\ candidate[s] \in Candidates(s)
      /\ \/ up' = [up EXCEPT ![s] = candidate[s]] \/ up' = [up EXCEPT ![s] = 0]
      /\ enable' \subseteq enable /\ disable' \subseteq disable
      /\ changed' = changed \cup {s}
  <2>1. candidate[s] \in Candidates(s) BY <1>0 DEF Run, At, RoundOf, TaskStages
  <2> QED BY <2>1 DEF Run
<1> DEFINE stage == "update"
<1>1. Threads(Moved(work, s, stage))
  <2>1. stage \in Stages BY DEF Stages
  <2>2. Create(before[s], Moved(work, s, stage), [before EXCEPT ![s] = {}]) /\ UNCHANGED after
    BY DEF Run, PostExamine
  <2> HIDE DEF stage
  <2>3. Moved(work, s, stage) \in [Services -> Stages] BY <1>0, <2>1, MovedTypes
  <2>4. \A x \in Services : \A y \in before[x] \cup after[x] : Linked(y)
    BY <1>0, OnChains DEF ChainTypes
  <2>5. /\ [before EXCEPT ![s] = {}] \in [Services -> SUBSET Services]
        /\ \A x \in Services : \A y \in [before EXCEPT ![s] = {}][x] : Linked(y)
    BY <1>0, <2>4 DEF ChainTypes
  <2>6. /\ before[s] \subseteq Services /\ \A y \in before[s] : Linked(y)
        /\ after' \in [Services -> SUBSET Services]
        /\ \A x \in Services : \A y \in after'[x] : Linked(y)
    BY <1>0, <2>2, <2>4 DEF ChainTypes
  <2> QED BY <2>2, <2>3, <2>5, <2>6, Started
<1>2. work'[s] = stage BY <1>0, <1>1, OwnStage
<1>3. ModuleTypes' /\ QueueTypes'
  <2>1. ModuleTypes' BY <1>0, <1>r, CandidatesFrom DEF ModuleTypes, Run, ThreadTypes
  <2>2. QueueTypes' BY <1>0, <1>r DEF QueueTypes, Run, target
  <2> QED BY <2>1, <2>2
<1>4. ThreadTypes' BY <1>0, <1>1 DEF Threads, ThreadTypes, Run, walk
<1>5. QueueAsked' BY <1>0, <1>r DEF QueueAsked, SameWants, Run, target
<1>6. Alone(s)
  BY <1>0, <1>r
  DEF Alone, ModuleTypes, ThreadTypes, Run, modstate, queue, target, marks, chains, walk
<1>7. Fine(s)'
  <2>1. RoundOf(s)' BY <1>0, <1>r DEF RoundOf, TaskStages, Run, At, walk
  <2>2. RecordOf(s)' BY <1>2 DEF RecordOf
  <2>3. UpFor(s)'
    BY <1>0, <1>2, <1>r DEF UpFor, TaskStages, Early, SameWants, Run, At, walk
  <2>4. DownFor(s)' BY <1>0, <1>2 DEF DownFor, TaskStages, SameWants, Run, At, walk
  <2> QED BY <2>1, <2>2, <2>3, <2>4 DEF Fine
<1> QED BY <1>1, <1>3, <1>4, <1>5, <1>6, <1>7, StepKept

LEMMA UpdateKeeps ==
  ASSUME AskedInv, NEW s \in Services, Update(s), SameWants
  PROVE  Kept
<1>0. /\ ModuleTypes /\ QueueTypes /\ ThreadTypes /\ ChainTypes /\ WorkerTypes
      /\ QueueAsked /\ RoundOf(s) /\ RecordOf(s) /\ UpFor(s) /\ DownFor(s)
      /\ work \in [Services -> Stages]
  BY DEF AskedInv, WorkerTypes, ThreadTypes
<1> DEFINE stage == IF (up[s] # 0) = (goal[s] = "enable") THEN "post" ELSE "next"
<1>1. Threads(Moved(work, s, stage))
  <2>1. work' = Moved(work, s, stage) BY <1>0 DEF Update, Goto
  <2>2. stage \in Stages BY DEF Stages
  <2>3. /\ ChainTypes'
        /\ \A x \in Services : before'[x] \subseteq before[x] /\ after'[x] \subseteq after[x]
    BY <1>0 DEF ChainTypes, Update, chains
  <2> QED BY <1>0, <2>1, <2>2, <2>3, MovedTypes, Quiet
<1>2. work'[s] = stage BY <1>0, <1>1, OwnStage
<1>3. ModuleTypes' /\ QueueTypes'
  BY <1>0 DEF ModuleTypes, QueueTypes, Update, modstate, queue, target, marks, chains, walk
<1>4. ThreadTypes'
  BY <1>0, <1>1
  DEF Threads, ThreadTypes, Update, modstate, queue, target, marks, chains, walk
<1>5. QueueAsked'
  BY <1>0 DEF QueueAsked, SameWants, Update, modstate, queue, target, marks, chains, walk
<1>6. Alone(s)
  BY <1>0
  DEF Alone, ModuleTypes, ThreadTypes, Update, modstate, queue, target, marks, chains, walk
<1>7. Fine(s)'
  <2>1. Chained(s)' => Linked(s) BY <1>1 DEF Threads, Chained
  <2>2. RoundOf(s)'
    BY <1>0, <1>2
    DEF RoundOf, TaskStages, Update, At, modstate, queue, target, marks, chains, walk
  <2>3. RecordOf(s)'
    BY <1>0, <1>2
    DEF RecordOf, ModuleTypes, Update, At, Provided, modstate, queue, target, marks,
       chains, walk
  <2>4. UpFor(s)'
    BY <1>0, <1>2, <2>1
    DEF UpFor, Linked, ModuleTypes, TaskStages, Early, Provided, SameWants, Update, At,
       modstate, queue, target, marks, chains, walk
  <2>5. DownFor(s)'
    BY <1>0, <1>2
    DEF DownFor, TaskStages, SameWants, Update, At, modstate, queue, target, marks, chains,
       walk
  <2> QED BY <2>2, <2>3, <2>4, <2>5 DEF Fine
<1> QED BY <1>1, <1>3, <1>4, <1>5, <1>6, <1>7, StepKept

LEMMA NextCandidateKeeps ==
  ASSUME AskedInv, NEW s \in Services, NextCandidate(s), SameWants
  PROVE  Kept
<1>0. /\ ModuleTypes /\ QueueTypes /\ ThreadTypes /\ ChainTypes /\ WorkerTypes
      /\ QueueAsked /\ RoundOf(s) /\ RecordOf(s) /\ UpFor(s) /\ DownFor(s)
      /\ work \in [Services -> Stages]
  BY DEF AskedInv, WorkerTypes, ThreadTypes
<1> DEFINE lm == IF head[s] = candidate[s] THEN Rotated(s) ELSE head[s]
<1>r. /\ lm \in Nat /\ lm \in Candidates(s) /\ {candidate[s], first[s]} \subseteq Candidates(s)
      /\ head' = [head EXCEPT ![s] = lm] /\ candidate' = [candidate EXCEPT ![s] = lm]
      /\ UNCHANGED <<goal, first>>
  <2>1. {candidate[s], first[s]} \subseteq Candidates(s)
    BY <1>0 DEF NextCandidate, At, RoundOf, TaskStages
  <2>2. head[s] \in Nat /\ head[s] \in Candidates(s)
    BY <1>0, <2>1, CandidatesFrom DEF ModuleTypes
  <2>3. lm \in Candidates(s) BY <2>1, <2>2, RotatedCandidate
  <2>4. lm \in Nat
    <3>1. Requires[s] \in Seq(SUBSET Services) BY WorkersAssumption
    <3> QED BY <2>3, <3>1 DEF Candidates
  <2> QED BY <2>1, <2>3, <2>4 DEF NextCandidate
<1>q. \/ UNCHANGED <<up, listed, changed>>
      \/ /\ up' = [up EXCEPT ![s] = 0] /\ listed' = [listed EXCEPT ![s] = 0]
         /\ changed' = changed \cup {s}
  BY DEF NextCandidate
<1>p. enable' \subseteq enable /\ disable' \subseteq disable BY DEF NextCandidate
<1> HIDE DEF lm
<1> DEFINE stage == work'[s]
<1>1. Threads(Moved(work, s, stage))
  <2>1. work' = Moved(work, s, stage) /\ stage \in {"apply", "post", "mark"}
    BY <1>0 DEF NextCandidate, Goto, Moved
  <2>2. stage \in Stages BY <2>1 DEF Stages
  <2>3. UNCHANGED chains BY DEF NextCandidate
  <2> QED BY <1>0, <2>1, <2>2, <2>3, MovedTypes, Quiet DEF chains, ChainTypes
<1>3. ModuleTypes' /\ QueueTypes'
  <2>1. ModuleTypes' BY <1>0, <1>r, <1>q DEF ModuleTypes
  <2>2. QueueTypes' BY <1>0, <1>p, <1>q DEF QueueTypes, NextCandidate, target
  <2> QED BY <2>1, <2>2
<1>4. ThreadTypes' BY <1>0, <1>1, <1>r DEF Threads, ThreadTypes
<1>5. QueueAsked' BY <1>0, <1>p DEF QueueAsked, SameWants, NextCandidate, target
<1>6. Alone(s)
  BY <1>0, <1>r, <1>q DEF Alone, ModuleTypes, ThreadTypes
<1>7. Fine(s)'
  <2>0. work'[s] \in {"apply", "post", "mark"} BY <1>0 DEF NextCandidate, Goto, Moved
  <2>1. RoundOf(s)' BY <1>0, <1>r DEF RoundOf, ThreadTypes
  <2>2. RecordOf(s)' BY <1>0, <1>q, <2>0 DEF RecordOf, NextCandidate, At, ModuleTypes
  <2>3. UpFor(s)'
    <3>1. Chained(s)' => Linked(s) BY <1>1 DEF Threads, Chained
    <3> QED BY <1>0, <1>r, <1>q, <2>0, <3>1
            DEF UpFor, Linked, TaskStages, Early, Provided, SameWants, NextCandidate, At
  <2>4. DownFor(s)'
    BY <1>0, <1>r, <2>0 DEF DownFor, TaskStages, SameWants, NextCandidate, At
  <2> QED BY <2>1, <2>2, <2>3, <2>4 DEF Fine
<1> QED BY <1>1, <1>3, <1>4, <1>5, <1>6, <1>7, StepKept

LEMMA PreExamineKeeps ==
  ASSUME AskedInv, NEW s \in Services, PreExamine(s), SameWants
  PROVE  Kept
<1>0. /\ ModuleTypes /\ QueueTypes /\ ThreadTypes /\ ChainTypes /\ WorkerTypes
      /\ QueueAsked /\ RoundOf(s) /\ RecordOf(s) /\ UpFor(s) /\ DownFor(s)
      /\ work \in [Services -> Stages]
  BY DEF AskedInv, WorkerTypes, ThreadTypes
<1> DEFINE stage == "leave"
<1>1. Threads(Moved(work, s, stage))
  <2>1. stage \in Stages BY DEF Stages
  <2> DEFINE sound == after[s] \ broken
  <2> DEFINE done == {p \in sound : InRightState(p, Task(s))}
  <2> DEFINE free == after[s] # {} /\ sound = done
  <2> DEFINE waiting == UNION {before[p] : p \in done}
  <2> DEFINE X == sound \cup waiting \cup (IF free THEN {s} ELSE {})
  <2> DEFINE bf == [x \in Services |-> IF x \in done THEN {} ELSE before[x]]
  <2>2. /\ Create(X, Moved(work, s, stage), bf)
        /\ after' = IF free THEN [after EXCEPT ![s] = {}] ELSE after
    BY DEF PreExamine
  <2>3. Moved(work, s, stage)[s] # "none" /\ sound \subseteq after[s] /\ done \subseteq sound
    BY <1>0 DEF Moved
  <2> HIDE DEF stage, free
  <2>4. Moved(work, s, stage) \in [Services -> Stages] BY <1>0, <2>1, MovedTypes
  <2>5. \A x \in Services : \A y \in before[x] \cup after[x] : Linked(y)
    BY <1>0, OnChains DEF ChainTypes
  <2>6. bf \in [Services -> SUBSET Services] /\ \A x \in Services : \A y \in bf[x] : Linked(y)
    BY <1>0, <2>5 DEF ChainTypes
  <2>7. /\ after' \in [Services -> SUBSET Services]
        /\ \A x \in Services : \A y \in after'[x] : Linked(y)
    BY <1>0, <2>2, <2>5 DEF ChainTypes
  <2> HIDE DEF bf
  <2>8. X \subseteq Services /\ \A y \in X : Moved(work, s, stage)[y] = "none" => Linked(y)
    <3>1. sound \subseteq Services /\ done \subseteq Services /\ \A y \in sound : Linked(y)
      BY <1>0, <2>3, <2>5 DEF ChainTypes
    <3> HIDE DEF sound, done
    <3>2. \A p \in done : before[p] \subseteq Services /\ \A y \in before[p] : Linked(y)
      BY <1>0, <2>5, <3>1 DEF ChainTypes
    <3>3. waiting \subseteq Services /\ \A y \in waiting : Linked(y) BY <3>2
    <3> HIDE DEF waiting
    <3> QED BY <2>3, <3>1, <3>3
  <2> HIDE DEF X
  <2> QED BY <2>2, <2>4, <2>6, <2>7, <2>8, Started
<1>2. work'[s] = stage BY <1>0, <1>1, OwnStage
<1>3. ModuleTypes' /\ QueueTypes'
  BY <1>0
  DEF ModuleTypes, QueueTypes, PreExamine, modstate, queue, target, marks, chains, walk
<1>4. ThreadTypes'
  BY <1>0, <1>1
  DEF Threads, ThreadTypes, PreExamine, modstate, queue, target, marks, chains, walk
<1>5. QueueAsked'
  BY <1>0
  DEF QueueAsked, SameWants, PreExamine, modstate, queue, target, marks, chains, walk
<1>6. Alone(s)
  BY <1>0
  DEF Alone, ModuleTypes, ThreadTypes, PreExamine, modstate, queue, target, marks, chains,
     walk
<1>7. Fine(s)'
  <2>1. Chained(s)' => Linked(s) BY <1>1 DEF Threads, Chained
  <2>2. RoundOf(s)'
    BY <1>0, <1>2
    DEF RoundOf, TaskStages, PreExamine, At, modstate, queue, target, marks, chains, walk
  <2>3. RecordOf(s)'
    BY <1>0, <1>2
    DEF RecordOf, PreExamine, At, Provided, modstate, queue, target, marks, chains, walk
  <2>4. UpFor(s)'
    BY <1>0, <1>2, <2>1
    DEF UpFor, Linked, TaskStages, Early, Provided, SameWants, PreExamine, At, modstate,
       queue, target, marks, chains, walk
  <2>5. DownFor(s)'
    BY <1>0, <1>2
    DEF DownFor, TaskStages, SameWants, PreExamine, At, modstate, queue, target, marks,
       chains, walk
  <2> QED BY <2>2, <2>3, <2>4, <2>5 DEF Fine
<1> QED BY <1>1, <1>3, <1>4, <1>5, <1>6, <1>7, StepKept

LEMMA DisableUsersKeeps ==
  ASSUME AskedInv, NEW s \in Services, DisableUsers(s), SameWants
  PROVE  Kept
<1>0. /\ ModuleTypes /\ QueueTypes /\ ThreadTypes /\ ChainTypes /\ WorkerTypes
      /\ QueueAsked /\ RoundOf(s) /\ RecordOf(s) /\ UpFor(s) /\ DownFor(s)
      /\ work \in [Services -> Stages]
  BY DEF AskedInv, WorkerTypes, ThreadTypes
<1> DEFINE U == Users(s)
<1> DEFINE fresh == U \ changed
<1> DEFINE need == fresh \cup (U \ disable)
<1> DEFINE obstacles == {t \in U : \/ t \in broken /\ ~shutting_down
                                   \/ t \in fresh /\ Circular(s, t)}
<1> DEFINE own == IF fresh = {} THEN "call" ELSE "pre"
<1> DEFINE Passed == /\ DeferAfter(s, fresh) /\ disable' = disable \cup need
                     /\ Create(need, Moved(work, s, own), WaitersWith(s, fresh))
                     /\ UNCHANGED enable
<1>q. Bail(s, fresh, obstacles) \/ Passed BY DEF DisableUsers
<1>u. /\ U \subseteq Services /\ fresh \subseteq U /\ need \subseteq U
      /\ Provided(s) /\ goal[s] = "disable" /\ work[s] = "need"
      /\ ~shutting_down => U \subseteq WantedDown
  <2>1. goal[s] = "disable" /\ work[s] = "need" BY DEF DisableUsers, At
  <2>2. Provided(s) BY <1>0, <2>1 DEF RecordOf, Provided
  <2>3. U \subseteq Services /\ fresh \subseteq U /\ need \subseteq U BY DEF Users
  <2>4. ASSUME ~shutting_down, NEW t \in U PROVE t \in WantedDown
    <3>1. s \in WantedDown BY <1>0, <2>1, <2>4 DEF DownFor, TaskStages
    <3>2. t \in Services /\ listed[t] \in Candidates(t) /\ s \in Requires[t][listed[t]]
      BY <1>0, <2>4 DEF Users, Provided, ModuleTypes
    <3> QED BY <3>1, <3>2, WantedDownClosed
  <2> QED BY <2>1, <2>2, <2>3, <2>4
<1>d. enable' = enable /\ disable' \subseteq disable \cup U
  BY <1>q, <1>u DEF Bail
<1> DEFINE stage == work'[s]
<1>1. Threads(Moved(work, s, stage))
  <2>1. Linked(s) \/ fresh = {} BY <1>u DEF Linked
  <2>2. \A y \in U : Linked(y) BY DEF Users, Linked
  <2>3. CASE Bail(s, fresh, obstacles)
    <3>1. PICK D \in SUBSET (fresh \ obstacles) : DeferAfter(s, D) /\ before' = WaitersWith(s, D)
      BY <2>3 DEF Bail
    <3>2. D \subseteq Services /\ (\A y \in D : Linked(y)) /\ (D # {} => Linked(s))
      BY <1>u, <2>1, <2>2
    <3>3. /\ before' \in [Services -> SUBSET Services] /\ after' \in [Services -> SUBSET Services]
          /\ \A x \in Services : \A y \in before'[x] \cup after'[x] : Linked(y)
      BY <1>0, <3>1, <3>2, Deferring DEF DeferAfter
    <3>4. work' = Moved(work, s, "call") /\ work' = Moved(work, s, stage)
      BY <1>0, <2>3 DEF Bail, Goto, Moved
    <3>5. work' \in [Services -> Stages] BY <1>0, <3>4, MovedTypes DEF Stages
    <3> HIDE DEF stage
    <3>6. Threads(work') BY <3>3, <3>5 DEF Threads, ChainTypes
    <3> QED BY <3>4, <3>6
  <2>4. CASE Passed
    <3> HIDE DEF U, fresh, need, own
    <3>1. own \in Stages /\ own # "none" BY DEF own, Stages
    <3>2. /\ WaitersWith(s, fresh) \in [Services -> SUBSET Services]
          /\ after' \in [Services -> SUBSET Services]
          /\ \A x \in Services : \A y \in WaitersWith(s, fresh)[x] \cup after'[x] : Linked(y)
      BY <1>0, <1>u, <2>1, <2>2, <2>4, Deferring DEF DeferAfter
    <3>3. need \subseteq Services /\ \A y \in need : Linked(y) BY <1>u, <2>2
    <3>4. Moved(work, s, own) \in [Services -> Stages] BY <1>0, <3>1, MovedTypes
    <3>5. Threads(Moved(work, s, own)) BY <2>4, <3>2, <3>3, <3>4, Started
    <3>6. work'[s] = own BY <1>0, <3>1, <3>5, OwnStage
    <3> QED BY <3>5, <3>6
  <2> QED BY <1>q, <2>3, <2>4
<1>2. work'[s] \in {"call", "pre"}
  <2>1. CASE Bail(s, fresh, obstacles) BY <1>0, <2>1 DEF Bail, Goto, Moved
  <2>2. CASE Passed
    <3>1. work'[s] = Moved(work, s, own)[s] \/ Moved(work, s, own)[s] = "none"
      <4>0. need \subseteq Services /\ WaitersWith(s, fresh) \in [Services -> SUBSET Services]
        BY <1>0, <1>u DEF WaitersWith, ChainTypes
      <4>1. own \in Stages BY DEF Stages
      <4> HIDE DEF U, fresh, need, own
      <4>2. Moved(work, s, own) \in [Services -> Stages] BY <1>0, <4>1, MovedTypes
      <4> QED BY <2>2, <4>0, <4>2, CreateWakes
    <3>2. Moved(work, s, own)[s] = own BY <1>0 DEF Moved
    <3> QED BY <3>1, <3>2
  <2> QED BY <1>q, <2>1, <2>2
<1>3. ModuleTypes' /\ QueueTypes'
  <2>1. ModuleTypes' BY <1>0 DEF ModuleTypes, DisableUsers, modstate
  <2>2. QueueTypes' BY <1>0, <1>d, <1>u DEF QueueTypes, DisableUsers, target, marks
  <2> QED BY <2>1, <2>2
<1>4. ThreadTypes' BY <1>0, <1>1 DEF Threads, ThreadTypes, DisableUsers, walk
<1>5. QueueAsked' BY <1>0, <1>d, <1>u DEF QueueAsked, SameWants, DisableUsers, target
<1>6. Alone(s)
  BY <1>0
  DEF Alone, ModuleTypes, ThreadTypes, DisableUsers, modstate, queue, target, marks,
     chains, walk
<1>7. Fine(s)'
  <2>1. Chained(s)' => Linked(s) BY <1>1 DEF Threads, Chained
  <2>2. UNCHANGED <<up, listed, goal, first, candidate, changed>>
    BY DEF DisableUsers, modstate, walk, marks
  <2>3. RoundOf(s)' BY <1>0, <1>u, <2>2 DEF RoundOf, TaskStages
  <2>4. RecordOf(s)' BY <1>0, <1>2, <1>u, <2>2 DEF RecordOf
  <2>5. UpFor(s)'
    BY <1>0, <1>2, <1>u, <2>2 DEF UpFor, TaskStages, Early, Provided, SameWants
  <2>6. DownFor(s)' BY <1>0, <1>u, <2>2 DEF DownFor, TaskStages, SameWants
  <2> QED BY <2>3, <2>4, <2>5, <2>6 DEF Fine
<1> QED BY <1>1, <1>3, <1>4, <1>5, <1>6, <1>7, StepKept

LEMMA ClearKeeps ==
  ASSUME AskedInv, NEW s \in Services, Clear(s), SameWants
  PROVE  Kept
<1>0. /\ ModuleTypes /\ QueueTypes /\ ThreadTypes /\ ChainTypes /\ QueueAsked
      /\ work \in [Services -> Stages]
  BY DEF AskedInv, WorkerTypes, ThreadTypes
<1>1. Threads(work)
  <2>1. Create(before[s], work, [before EXCEPT ![s] = {}]) /\ UNCHANGED after BY DEF Clear
  <2>2. \A x \in Services : \A y \in before[x] \cup after[x] : Linked(y)
    BY <1>0, OnChains DEF ChainTypes
  <2>3. /\ [before EXCEPT ![s] = {}] \in [Services -> SUBSET Services]
        /\ \A x \in Services : \A y \in [before EXCEPT ![s] = {}][x] : Linked(y)
    BY <1>0, <2>2 DEF ChainTypes
  <2>4. /\ before[s] \subseteq Services /\ \A y \in before[s] : Linked(y)
        /\ after' \in [Services -> SUBSET Services]
        /\ \A x \in Services : \A y \in after'[x] : Linked(y)
    BY <1>0, <2>1, <2>2 DEF ChainTypes
  <2> QED BY <1>0, <2>1, <2>3, <2>4, Started
<1>2. enable' \subseteq enable /\ disable' \subseteq disable BY DEF Clear
<1>3. ModuleTypes' BY <1>0 DEF ModuleTypes, Clear, modstate
<1>4. QueueTypes' BY <1>0, <1>2 DEF QueueTypes, Clear, target, marks
<1>5. ThreadTypes' BY <1>0, <1>1 DEF Threads, ThreadTypes, Clear, walk
<1>6. QueueAsked' BY <1>0, <1>2 DEF QueueAsked, SameWants, Clear, target
<1>7. ASSUME NEW y \in Services PROVE Fine(y)'
  <2>1. UNCHANGED <<up, listed, goal, first, candidate, changed>>
    BY DEF Clear, modstate, walk, marks
  <2> QED BY <1>1, <2>1, OthersKept DEF Fine, SameWants
<1> QED BY <1>1, <1>3, <1>4, <1>5, <1>6, <1>7 DEF Kept, Threads, WorkerTypes

\* No step of a work thread disturbs anything.
LEMMA WorkKeeps ==
  ASSUME AskedInv, NEW s \in Services, Work(s) \/ LateClear(s)
  PROVE  Kept /\ SameWants
<1>1. SameWants
  <2>1. UNCHANGED <<planvars, shared, target>> BY WorkLeavesPlans
  <2>2. UNCHANGED <<req, pc>> BY <2>1 DEF planvars
  <2>3. Asked' = Asked BY <2>2 DEF Asked
  <2> QED BY <2>1, <2>3 DEF SameWants, WantedUp, WantedDown, target
<1>2. CASE LateClear(s) BY <1>1, <1>2, ClearKeeps DEF LateClear
<1>3. CASE WorkStep(s)
  BY <1>1, <1>3, AbandonKeeps, ExamineKeeps, GiveUpKeeps, DecideKeeps, ApplyEnableKeeps,
     ApplyDisableKeeps, EnableRequirementsKeeps, DeferAfterRequirementsKeeps,
     DisableUsersKeeps, PreExamineKeeps, CallKeeps, RunKeeps, UpdateKeeps,
     NextCandidateKeeps, MarkBrokenKeeps, FinishKeeps, EndKeeps
  DEF WorkStep
<1> QED BY <1>1, <1>2, <1>3 DEF Work

-----------------------------------------------------------------------------
\* The steps of plans.  What is known of a service stays known when more is wanted, when
\* the program begins to shut down, and when marks and chains are dropped together.
LEMMA MoreWanted ==
  ASSUME NEW y \in Services, Fine(y),
         work'[y] = work[y], up'[y] = up[y], listed'[y] = listed[y], goal'[y] = goal[y],
         first'[y] = first[y], candidate'[y] = candidate[y],
         WantedUp \subseteq WantedUp', WantedDown \subseteq WantedDown',
         shutting_down => shutting_down',
         \/ ~Chained(y)'
         \/ (Chained(y)' => Chained(y)) /\ changed \subseteq changed'
  PROVE  Fine(y)'
<1>1. RoundOf(y)' BY DEF Fine, RoundOf
<1>2. RecordOf(y)' BY DEF Fine, RecordOf
<1>3. UpFor(y)' BY DEF Fine, UpFor, Provided
<1>4. DownFor(y)' BY DEF Fine, DownFor
<1> QED BY <1>1, <1>2, <1>3, <1>4 DEF Fine

\* Most of them leave the work threads and what belongs to them alone.
LEMMA AsideKept ==
  ASSUME AskedInv, UNCHANGED workervars,
         WantedUp \subseteq WantedUp', WantedDown \subseteq WantedDown'
  PROVE  Kept
<1>1. UNCHANGED <<up, listed, head, enable, disable, tbmutex, target_enable, target_disable,
                  shutting_down, broken, changed, after, before, work, goal, first, candidate,
                  leaving>>
  BY DEF workervars, modstate, queue, target, marks, chains, threads, walk
<1>2. WorkerTypes'
  BY <1>1 DEF AskedInv, WorkerTypes, ModuleTypes, QueueTypes, ChainTypes, ThreadTypes
<1>3. QueueAsked' BY <1>1 DEF AskedInv, QueueAsked
<1>4. ASSUME NEW y \in Services PROVE Fine(y)'
  <2>1. Fine(y) BY DEF AskedInv, Fine
  <2>2. Chained(y)' => Chained(y) BY <1>1 DEF Chained
  <2> QED BY <1>1, <2>1, <2>2, MoreWanted
<1> QED BY <1>2, <1>3, <1>4 DEF Kept

LEMMA RequestWanted ==
  ASSUME PlanTypes, NEW p \in Plans, pc[p] \notin NotBegun
  PROVE  /\ req[p].enable \subseteq WantedUp /\ req[p].disable \subseteq WantedDown
         /\ WantedUp \subseteq Services /\ WantedDown \subseteq Services
<1>1. req[p] \in Asked BY DEF Asked, NotBegun
<1>2. req[p].enable \subseteq Services /\ req[p].disable \subseteq Services
  BY PlansAssumption DEF PlanTypes, NoRequest
<1>3. req[p].enable \subseteq WantedUp BY <1>1, <1>2, ReachedBase DEF WantedUp
<1>4. ASSUME NEW s \in req[p].disable PROVE s \in WantedDown
  <2>1. s \in Services /\ s \in Reached({s}, Needs) BY <1>2, ReachedBase
  <2> QED BY <1>1, <2>1 DEF WantedDown
<1> QED BY <1>3, <1>4 DEF WantedUp, WantedDown

More == WantedUp \subseteq WantedUp' /\ WantedDown \subseteq WantedDown'

\* A step of a plan that leaves threads and usage table alone.
LEMMA PlanKept ==
  ASSUME AskedInv, More, UNCHANGED <<up, listed, work, goal, first, candidate>>,
         ModuleTypes', QueueTypes', ChainTypes', QueueAsked', shutting_down => shutting_down',
         \A y \in Services :
           \/ ~Chained(y)'
           \/ (Chained(y)' => Chained(y)) /\ changed \subseteq changed'
  PROVE  Kept
<1>1. ThreadTypes' BY DEF AskedInv, WorkerTypes, ThreadTypes
<1>2. \A y \in Services : Fine(y)' BY MoreWanted DEF AskedInv, Fine, More
<1> QED BY <1>1, <1>2 DEF Kept, WorkerTypes

LEMMA BeginKeeps ==
  ASSUME AskedInv, More, NEW p \in Plans, Begin(p)
  PROVE  Kept
<1>0. ModuleTypes /\ QueueTypes /\ ChainTypes /\ QueueAsked
  BY DEF AskedInv, WorkerTypes
<1>1. /\ UNCHANGED <<modstate, queue, target_enable, target_disable, marks, chains, threads>>
      /\ shutting_down => shutting_down'
  BY DEF Begin
<1>2. ModuleTypes' BY <1>0, <1>1 DEF ModuleTypes, modstate
<1>3. QueueTypes' BY <1>0, <1>1 DEF QueueTypes, queue, marks, threads
<1>4. ChainTypes' BY <1>0, <1>1 DEF ChainTypes, chains
<1>5. QueueAsked' BY <1>0, <1>1 DEF QueueAsked, More, queue
<1>6. \A y \in Services : (Chained(y)' => Chained(y)) /\ changed \subseteq changed'
  BY <1>1 DEF Chained, chains, marks
<1>7. UNCHANGED <<up, listed, work, goal, first, candidate>>
  BY <1>1 DEF modstate, threads, walk
<1> QED BY <1>1, <1>2, <1>3, <1>4, <1>5, <1>6, <1>7, PlanKept

\* The plan and the target state are merged with what is queued already.
LEMMA CrossKeeps ==
  ASSUME AskedInv, More, NEW p \in Plans, Cross(p)
  PROVE  Kept
<1>0. ModuleTypes /\ QueueTypes /\ ChainTypes /\ QueueAsked /\ PlanTypes
  BY DEF AskedInv, WorkerTypes
<1>1. UNCHANGED <<modstate, tbmutex, shutting_down, marks, chains, threads>> BY DEF Cross
<1>2. /\ req[p].enable \subseteq WantedUp /\ req[p].disable \subseteq WantedDown
      /\ WantedUp \subseteq Services /\ WantedDown \subseteq Services
  BY <1>0, RequestWanted DEF Cross, PlanAt, NotBegun
<1>3. /\ target_enable' \subseteq target_enable \cup req[p].enable
      /\ target_disable' \subseteq target_disable \cup req[p].disable
      /\ enable' \subseteq enable \cup target_enable \cup req[p].enable
      /\ disable' \subseteq disable \cup target_disable \cup req[p].disable
  BY DEF Cross, CrossEnable, CrossDisable
<1>4. ModuleTypes' BY <1>0, <1>1 DEF ModuleTypes, modstate
<1>5. QueueTypes' BY <1>0, <1>1, <1>2, <1>3 DEF QueueTypes, marks, threads
<1>6. ChainTypes' BY <1>0, <1>1 DEF ChainTypes, chains
<1>7. QueueAsked' BY <1>0, <1>1, <1>2, <1>3 DEF QueueAsked, More
<1>8. \A y \in Services : (Chained(y)' => Chained(y)) /\ changed \subseteq changed'
  BY <1>1 DEF Chained, chains, marks
<1>9. UNCHANGED <<up, listed, work, goal, first, candidate>>
  BY <1>1 DEF modstate, threads, walk
<1> QED BY <1>1, <1>4, <1>5, <1>6, <1>7, <1>8, <1>9, PlanKept

\* Marking services broken drops what they wait for.
LEMMA MarkShrinks ==
  ASSUME ChainTypes, NEW X, Mark(X), UNCHANGED before
  PROVE  /\ ChainTypes' /\ broken' = broken \cup X
         /\ \A y \in Services : Chained(y)' => Chained(y)
BY DEF ChainTypes, Mark, Chained

\* What the completion of the queue adds is needed by, or uses, what is queued.
LEMMA FlattenEnableAdds ==
  ASSUME ModuleTypes, QueueTypes, ChainTypes, UNCHANGED before, NEW s \in Services,
         FlattenEnable(s), enable \subseteq WantedUp
  PROVE  /\ enable' \subseteq WantedUp /\ disable' = disable /\ broken' \subseteq Services
         /\ ChainTypes' /\ \A y \in Services : Chained(y)' => Chained(y)
         /\ head' \in [Services -> Nat]
         /\ \A x \in Services : head'[x] \in {1} \cup Candidates(x)
<1>0. /\ broken \subseteq Services /\ head \in [Services -> Nat]
      /\ \A x \in Services : head[x] \in {1} \cup Candidates(x)
  BY DEF ModuleTypes, QueueTypes
<1>1. s \in WantedUp /\ disable' = disable BY DEF FlattenEnable
<1>2. Candidates(s) # {} => Lacking(s) \subseteq WantedUp
  <2> SUFFICES ASSUME Candidates(s) # {}, NEW r \in Lacking(s) PROVE r \in WantedUp OBVIOUS
  <2>1. head[s] \in Candidates(s) BY <1>0, CandidatesFrom
  <2>2. r \in Requires[s][head[s]] BY DEF Lacking
  <2> QED BY <1>1, <2>1, <2>2, WantedUpClosed
<1>3. enable' \subseteq WantedUp BY <1>2 DEF FlattenEnable
<1>4. /\ broken' \subseteq Services /\ ChainTypes'
      /\ \A y \in Services : Chained(y)' => Chained(y)
  <2>1. CASE UNCHANGED <<broken, after>> BY <1>0, <2>1 DEF ChainTypes, Chained
  <2>2. CASE Mark({s}) BY <1>0, <2>2, MarkShrinks
  <2> QED BY <2>1, <2>2 DEF FlattenEnable
<1>5. /\ head' \in [Services -> Nat]
      /\ \A x \in Services : head'[x] \in {1} \cup Candidates(x)
  <2>1. CASE head' = head BY <1>0, <2>1
  <2>2. CASE head' = [head EXCEPT ![s] = Rotated(s)] /\ Candidates(s) # {}
    <3>1. Rotated(s) \in Candidates(s) BY <1>0, <2>2, RotatedCandidate
    <3>2. Rotated(s) \in Nat
      <4>1. Requires[s] \in Seq(SUBSET Services) BY WorkersAssumption
      <4> QED BY <3>1, <4>1 DEF Candidates
    <3> QED BY <1>0, <2>2, <3>1, <3>2
  <2> QED BY <2>1, <2>2 DEF FlattenEnable
<1> QED BY <1>1, <1>3, <1>4, <1>5

LEMMA FlattenDisableAdds ==
  ASSUME ModuleTypes, QueueTypes, ChainTypes, UNCHANGED before, NEW s \in Services,
         FlattenDisable(s)
  PROVE  /\ enable' = enable /\ head' = head /\ disable' \subseteq Services
         /\ disable \subseteq WantedDown => disable' \subseteq WantedDown
         /\ broken' \subseteq Services
         /\ ChainTypes' /\ \A y \in Services : Chained(y)' => Chained(y)
<1>0. broken \subseteq Services /\ disable \subseteq Services BY DEF QueueTypes
<1>1. enable' = enable /\ head' = head /\ s \in disable BY DEF FlattenDisable
<1>2. disable' \subseteq disable \cup Users(s) BY DEF FlattenDisable
<1>3. s \in WantedDown => Users(s) \subseteq WantedDown
  <2> SUFFICES ASSUME s \in WantedDown, NEW t \in Users(s) PROVE t \in WantedDown OBVIOUS
  <2>1. t \in Services /\ listed[t] \in Candidates(t) /\ s \in Requires[t][listed[t]]
    BY DEF Users, Provided, ModuleTypes
  <2> QED BY <2>1, WantedDownClosed
<1>4. /\ broken' \subseteq Services /\ ChainTypes'
      /\ \A y \in Services : Chained(y)' => Chained(y)
  <2>1. CASE UNCHANGED <<broken, after>> BY <1>0, <2>1 DEF ChainTypes, Chained
  <2>2. CASE Mark({s}) BY <1>0, <2>2, MarkShrinks
  <2> QED BY <2>1, <2>2 DEF FlattenDisable
<1>5. Users(s) \subseteq Services BY DEF Users
<1> QED BY <1>0, <1>1, <1>2, <1>3, <1>4, <1>5

LEMMA FlattenKeeps ==
  ASSUME AskedInv, More, NEW p \in Plans, Flatten(p)
  PROVE  Kept
<1>0. /\ ModuleTypes /\ QueueTypes /\ ChainTypes /\ QueueAsked
      /\ WantedUp \subseteq Services
  BY DEF AskedInv, WorkerTypes, WantedUp
<1>1. /\ UNCHANGED <<up, listed, target, changed, before, threads>>
      /\ UNCHANGED <<work, goal, first, candidate, leaving>>
  BY DEF Flatten, threads, walk
<1> DEFINE Grown ==
      /\ enable' \subseteq WantedUp /\ disable' \subseteq Services
      /\ ~shutting_down => disable' \subseteq WantedDown
      /\ broken' \subseteq Services
      /\ ChainTypes' /\ \A y \in Services : Chained(y)' => Chained(y)
      /\ head' \in [Services -> Nat]
      /\ \A x \in Services : head'[x] \in {1} \cup Candidates(x)
<1>2. Grown
  <2>1. ASSUME NEW s \in Services, FlattenEnable(s) PROVE Grown
    <3>1. disable \subseteq Services /\ (~shutting_down => disable \subseteq WantedDown)
      BY <1>0 DEF QueueAsked, QueueTypes
    <3>2. enable \subseteq WantedUp BY <1>0 DEF QueueAsked
    <3> QED BY <1>0, <1>1, <2>1, <3>1, <3>2, FlattenEnableAdds
  <2>2. ASSUME NEW s \in Services, FlattenDisable(s) PROVE Grown
    <3>1. /\ enable \subseteq WantedUp /\ (~shutting_down => disable \subseteq WantedDown)
          /\ head \in [Services -> Nat]
          /\ \A x \in Services : head[x] \in {1} \cup Candidates(x)
      BY <1>0 DEF QueueAsked, ModuleTypes
    <3> QED BY <1>0, <1>1, <2>2, <3>1, FlattenDisableAdds
  <2>3. CASE UNCHANGED <<head, enable, disable, broken, after>>
    BY <1>0, <1>1, <2>3 DEF QueueAsked, QueueTypes, ModuleTypes, ChainTypes, Chained
  <2> QED BY <2>1, <2>2, <2>3 DEF Flatten
<1>3. ModuleTypes' BY <1>0, <1>1, <1>2 DEF ModuleTypes
<1>4. QueueTypes' BY <1>0, <1>1, <1>2 DEF QueueTypes, target
<1>5. QueueAsked' BY <1>0, <1>1, <1>2 DEF QueueAsked, More, target
<1>6. shutting_down => shutting_down' BY <1>1 DEF target
<1> QED BY <1>1, <1>2, <1>3, <1>4, <1>5, <1>6, PlanKept

\* The work threads begin: they find the chains empty.
LEMMA StartWorkKeeps ==
  ASSUME AskedInv, More, NEW p \in Plans, StartWork(p)
  PROVE  Kept
<1>0. /\ ModuleTypes /\ QueueTypes /\ ThreadTypes /\ QueueAsked
      /\ work \in [Services -> Stages] /\ enable \subseteq Services /\ disable \subseteq Services
  BY DEF AskedInv, WorkerTypes, ThreadTypes, QueueTypes
<1>1. /\ UNCHANGED <<up, listed, head, target_enable, target_disable, shutting_down>>
      /\ UNCHANGED <<goal, first, candidate, leaving>>
      /\ broken' \subseteq broken /\ changed' \subseteq changed
      /\ Spawn(enable, disable, work)
  BY DEF StartWork, modstate, target, walk
<1>2. /\ work' \in [Services -> Stages]
      /\ after' = [x \in Services |-> {}] /\ before' = [x \in Services |-> {}]
      /\ enable' \subseteq enable /\ disable' \subseteq disable
      /\ \A y \in Services :
           \/ work'[y] = work[y]
           \/ /\ work[y] = "none" /\ work'[y] = "examine" /\ y \notin Settled'
              /\ y \in enable \/ Provided(y)
  BY <1>0, <1>1, SpawnWakes
<1>3. ModuleTypes' BY <1>0, <1>1 DEF ModuleTypes
<1>4. QueueTypes' BY <1>0, <1>1, <1>2 DEF QueueTypes
<1>5. ChainTypes' BY <1>2 DEF ChainTypes
<1>6. ThreadTypes' BY <1>0, <1>1, <1>2 DEF ThreadTypes
<1>7. QueueAsked' BY <1>0, <1>1, <1>2 DEF QueueAsked, More
<1>8. ASSUME NEW y \in Services PROVE Fine(y)'
  <2>1. Fine(y) BY DEF AskedInv, Fine
  <2>2. ~Chained(y)' BY <1>2 DEF Chained
  <2>3. CASE work'[y] = work[y] BY <1>1, <2>1, <2>2, <2>3, MoreWanted DEF More
  <2>4. CASE work[y] = "none" /\ work'[y] = "examine" /\ (y \in enable \/ Provided(y))
    <3>1. RoundOf(y)' /\ DownFor(y)' BY <2>4 DEF RoundOf, DownFor, TaskStages
    <3>2. RecordOf(y)' BY <1>1, <2>1, <2>4 DEF Fine, RecordOf
    <3>3. y \notin WantedUp' => Provided(y)'
      BY <1>0, <1>1, <2>4 DEF QueueAsked, More, Provided
    <3>4. UpFor(y)' BY <2>2, <2>4, <3>3 DEF UpFor, TaskStages
    <3> QED BY <3>1, <3>2, <3>4 DEF Fine
  <2> QED BY <1>2, <2>3, <2>4
<1> QED BY <1>3, <1>4, <1>5, <1>6, <1>7, <1>8 DEF Kept, WorkerTypes

\* A look at the plan puts back what still lingers.
LEMMA LookKeeps ==
  ASSUME AskedInv, More, NEW p \in Plans, Look(p)
  PROVE  Kept
<1>0. ModuleTypes /\ QueueTypes /\ ChainTypes /\ QueueAsked /\ PlanTypes
  BY DEF AskedInv, WorkerTypes
<1>1. UNCHANGED <<modstate, enable, tbmutex, target, marks, chains, threads>> BY DEF Look
<1>2. UNCHANGED <<up, listed, head, target_enable, target_disable, shutting_down, broken,
                  changed, after, before, work, goal, first, candidate, leaving>>
  BY <1>1 DEF modstate, target, marks, chains, threads, walk
<1>3. req[p].disable \subseteq WantedDown /\ WantedDown \subseteq Services
  BY <1>0, RequestWanted DEF Look, PlanAt, NotBegun
<1>4. disable' \subseteq disable \cup req[p].disable BY DEF Look, Lingering
<1>5. ModuleTypes' BY <1>0, <1>2 DEF ModuleTypes
<1>6. QueueTypes' BY <1>0, <1>1, <1>2, <1>3, <1>4 DEF QueueTypes
<1>7. ChainTypes' BY <1>0, <1>2 DEF ChainTypes
<1>8. QueueAsked' BY <1>0, <1>1, <1>2, <1>3, <1>4 DEF QueueAsked, More
<1>9. \A y \in Services : (Chained(y)' => Chained(y)) /\ changed \subseteq changed'
  BY <1>2 DEF Chained
<1> QED BY <1>2, <1>5, <1>6, <1>7, <1>8, <1>9, PlanKept

\* A stalled plan marks what it still misses, an aborted one whatever is worked on.
LEMMA MarkedKept ==
  ASSUME AskedInv, More, NEW X, X \subseteq Services,
         Mark(X) \/ UNCHANGED <<broken, after>>,
         UNCHANGED <<modstate, queue, target, changed, before, threads>>
  PROVE  Kept
<1>0. ModuleTypes /\ QueueTypes /\ ChainTypes /\ QueueAsked
  BY DEF AskedInv, WorkerTypes
<1>1. UNCHANGED <<up, listed, head, enable, disable, target_enable, target_disable,
                  shutting_down, changed, before, work, goal, first, candidate, leaving>>
  BY DEF modstate, queue, target, threads, walk
<1>2. /\ ChainTypes' /\ broken' \subseteq broken \cup X
      /\ \A y \in Services : Chained(y)' => Chained(y)
  <2>1. CASE Mark(X) BY <1>0, <1>1, <2>1, MarkShrinks
  <2>2. CASE UNCHANGED <<broken, after>> BY <1>0, <1>1, <2>2 DEF ChainTypes, Chained
  <2> QED BY <2>1, <2>2
<1>3. ModuleTypes' BY <1>0, <1>1 DEF ModuleTypes
<1>4. QueueTypes' BY <1>0, <1>1, <1>2 DEF QueueTypes
<1>5. QueueAsked' BY <1>0, <1>1 DEF QueueAsked, More
<1>6. \A y \in Services : (Chained(y)' => Chained(y)) /\ changed \subseteq changed'
  BY <1>1, <1>2
<1> QED BY <1>1, <1>2, <1>3, <1>4, <1>5, <1>6, PlanKept

LEMMA CleanupKeeps ==
  ASSUME AskedInv, More, NEW p \in Plans, Cleanup(p)
  PROVE  Kept
<1>0. ModuleTypes /\ QueueTypes /\ ChainTypes /\ QueueAsked
  BY DEF AskedInv, WorkerTypes
<1>1. UNCHANGED <<up, listed, head, enable, disable, target_enable, target_disable,
                  shutting_down, work, goal, first, candidate, leaving>>
  BY DEF Cleanup, modstate, queue, target, threads, walk
<1>2. /\ ChainTypes' /\ broken' \subseteq broken /\ changed' \subseteq changed
      /\ \A y \in Services :
           \/ ~Chained(y)'
           \/ (Chained(y)' => Chained(y)) /\ changed \subseteq changed'
  <2>1. CASE clean[p]
    <3>1. /\ broken' = {} /\ changed' = {}
          /\ after' = [s \in Services |-> {}] /\ before' = [s \in Services |-> {}]
      BY <2>1 DEF Cleanup
    <3>2. ChainTypes' BY <3>1 DEF ChainTypes
    <3>3. \A y \in Services : ~Chained(y)' BY <3>1 DEF Chained
    <3>4. broken' \subseteq broken /\ changed' \subseteq changed BY <3>1
    <3> QED BY <3>2, <3>3, <3>4
  <2>2. CASE ~clean[p] BY <1>0, <2>2 DEF Cleanup, ChainTypes, Chained, marks, chains
  <2> QED BY <2>1, <2>2
<1>3. ModuleTypes' BY <1>0, <1>1 DEF ModuleTypes
<1>4. QueueTypes' BY <1>0, <1>1, <1>2 DEF QueueTypes
<1>5. QueueAsked' BY <1>0, <1>1 DEF QueueAsked, More
<1> QED BY <1>1, <1>2, <1>3, <1>4, <1>5, PlanKept

LEMMA UpdateModuleListKeeps ==
  ASSUME AskedInv, More, UpdateModuleList
  PROVE  Kept
<1>0. ModuleTypes /\ QueueTypes /\ ChainTypes /\ QueueAsked
  BY DEF AskedInv, WorkerTypes
<1>1. UNCHANGED <<up, listed, enable, disable, target_enable, target_disable, shutting_down,
                  changed, after, before, work, goal, first, candidate, leaving>>
  BY DEF UpdateModuleList, NewList, ForgetBroken, modstate, queue, target, marks, chains,
         threads, walk
<1>2. /\ \/ head' = [s \in Services |-> IF candidate[s] = 0 THEN 1 ELSE head[s]]
         \/ head' = head
      /\ broken' \in {broken, {}}
  BY DEF modstate, marks, UpdateModuleList, NewList, ForgetBroken
<1>3. ModuleTypes' BY <1>0, <1>1, <1>2 DEF ModuleTypes
<1>4. QueueTypes' BY <1>0, <1>1, <1>2 DEF QueueTypes
<1>5. ChainTypes' BY <1>0, <1>1 DEF ChainTypes
<1>6. QueueAsked' BY <1>0, <1>1 DEF QueueAsked, More
<1>7. \A y \in Services : (Chained(y)' => Chained(y)) /\ changed \subseteq changed'
  BY <1>1 DEF Chained
<1> QED BY <1>1, <1>3, <1>4, <1>5, <1>6, <1>7, PlanKept

-----------------------------------------------------------------------------
LEMMA AskedInit == Init => AskedInv
<1> SUFFICES ASSUME Init PROVE AskedInv OBVIOUS
<1>0. /\ Idle /\ up \in [Services -> {0, 1}] /\ listed = up
      /\ \A s \in Services : up[s] = 1 => 1 \in Candidates(s)
      /\ pc = [p \in Plans |-> "idle"] /\ req = [p \in Plans |-> NoRequest]
  BY DEF Init
<1>1. ModuleTypes BY <1>0 DEF Idle, ModuleTypes
<1>2. QueueTypes BY <1>0 DEF Idle, QueueTypes
<1>3. ChainTypes BY <1>0 DEF Idle, ChainTypes
<1>4. ThreadTypes BY <1>0 DEF Idle, ThreadTypes, Stages
<1>5. IdleBlank BY <1>0 DEF IdleBlank
<1>6. QueueAsked BY <1>0 DEF Idle, QueueAsked
<1>7. ASSUME NEW s \in Services PROVE RoundOf(s) /\ RecordOf(s) /\ UpFor(s) /\ DownFor(s)
  <2>1. work[s] = "none" /\ up[s] = listed[s] /\ ~Chained(s)
    BY <1>0 DEF Idle, Chained
  <2>2. RoundOf(s) /\ DownFor(s) BY <2>1 DEF RoundOf, DownFor, TaskStages
  <2>3. RecordOf(s) BY <2>1 DEF RecordOf
  <2>4. UpFor(s) BY <2>1 DEF UpFor, TaskStages, Early
  <2> QED BY <2>2, <2>3, <2>4
<1> QED BY <1>1, <1>2, <1>3, <1>4, <1>5, <1>6, <1>7, PlanTypesInit DEF AskedInv, WorkerTypes

LEMMA PlanStepKeeps ==
  ASSUME AskedInv, More, NEW p \in Plans, PlanStep(p)
  PROVE  Kept
<1> USE DEF More
<1>1. CASE SwitchMode(p) BY <1>1, AsideKept DEF SwitchMode
<1>2. CASE FindMode(p) BY <1>2, AsideKept DEF FindMode
<1>3. CASE Begin(p) BY <1>3, BeginKeeps
<1>4. CASE Cross(p) BY <1>4, CrossKeeps
<1>5. CASE Flatten(p) BY <1>5, FlattenKeeps
<1>6. CASE Count(p) BY <1>6, AsideKept DEF Count
<1>7. CASE StartWork(p) BY <1>7, StartWorkKeeps
<1>8. CASE Look(p) BY <1>8, LookKeeps
<1>9. CASE Judge(p) BY <1>9, AsideKept DEF Judge
<1>10. CASE Ping(p) BY <1>10, AsideKept DEF Ping
<1>11. CASE Stall(p)
  <2> DEFINE X == {s \in Services : Missing(p, s) \/ Lingering(p, s)}
  <2>1. /\ X \subseteq Services /\ Mark(X)
        /\ UNCHANGED <<modstate, queue, target, changed, before, threads>>
    BY <1>11 DEF Stall
  <2> HIDE DEF X
  <2> QED BY <2>1, MarkedKept
<1>12. CASE Abort(p)
  <2>1. /\ Working \subseteq Services /\ (Mark(Working) \/ UNCHANGED <<broken, after>>)
        /\ UNCHANGED <<modstate, queue, target, changed, before, threads>>
    BY <1>12 DEF Abort, Working
  <2> QED BY <2>1, MarkedKept
<1>13. CASE Uncount(p) BY <1>13, AsideKept DEF Uncount
<1>14. CASE Cleanup(p) BY <1>14, CleanupKeeps
<1>15. CASE Return(p) BY <1>15, AsideKept DEF Return
<1> QED BY <1>1, <1>2, <1>3, <1>4, <1>5, <1>6, <1>7, <1>8, <1>9, <1>10, <1>11, <1>12,
           <1>13, <1>14, <1>15 DEF PlanStep

LEMMA AskedStep == AskedInv /\ [Next]_vars => AskedInv'
<1> SUFFICES ASSUME AskedInv, [Next]_vars PROVE AskedInv' OBVIOUS
<1>0. PlanTypes' /\ IdleBlank' BY PlanTypesKept, IdleBlankKept DEF AskedInv
<1>1. More BY WantedGrows DEF AskedInv, More
<1>2. Kept
  <2>1. ASSUME NEW p \in Plans, Request(p) PROVE Kept
    BY <1>1, <2>1, AsideKept DEF Request, More
  <2>2. ASSUME NEW p \in Plans, PlanStep(p) PROVE Kept BY <1>1, <2>2, PlanStepKeeps
  <2>3. ASSUME NEW s \in Services, Work(s) \/ LateClear(s) PROVE Kept BY <2>3, WorkKeeps
  <2>4. CASE UpdateModuleList BY <1>1, <2>4, UpdateModuleListKeeps
  <2>5. CASE CriticalDevicesOk BY <1>1, <2>5, AsideKept DEF CriticalDevicesOk, More
  <2>6. CASE UNCHANGED vars BY <1>1, <2>6, AsideKept DEF vars, More
  <2> QED BY <2>1, <2>2, <2>3, <2>4, <2>5, <2>6 DEF Next
<1> QED BY <1>0, <1>2 DEF Kept, Fine, AskedInv

-----------------------------------------------------------------------------
OnlyAsked(s) ==
  /\ up[s] = 0 /\ up'[s] # 0 => s \in WantedUp
  /\ up[s] # 0 /\ up'[s] = 0 => s \in WantedDown \/ shutting_down

\* Modules are enabled and disabled by the function calls of the work threads, and
\* zapped at the end of a walk; nobody else touches them.
LEMMA PlansLeaveModules ==
  ASSUME Next, ~(\E s \in Services : Run(s) \/ NextCandidate(s))
  PROVE  up' = up
<1>1. ASSUME NEW p \in Plans, Request(p) PROVE up' = up
  BY <1>1 DEF Request, workervars, modstate
<1>2. ASSUME NEW p \in Plans, PlanStep(p) PROVE up' = up
  <2> USE DEF workervars, modstate
  <2>1. CASE SwitchMode(p) BY <2>1 DEF SwitchMode
  <2>2. CASE FindMode(p) BY <2>2 DEF FindMode
  <2>3. CASE Begin(p) BY <2>3 DEF Begin
  <2>4. CASE Cross(p) BY <2>4 DEF Cross
  <2>5. CASE Flatten(p) BY <2>5 DEF Flatten
  <2>6. CASE Count(p) BY <2>6 DEF Count
  <2>7. CASE StartWork(p) BY <2>7 DEF StartWork
  <2>8. CASE Look(p) BY <2>8 DEF Look
  <2>9. CASE Judge(p) BY <2>9 DEF Judge
  <2>10. CASE Ping(p) BY <2>10 DEF Ping
  <2>11. CASE Stall(p) BY <2>11 DEF Stall
  <2>12. CASE Abort(p) BY <2>12 DEF Abort
  <2>13. CASE Uncount(p) BY <2>13 DEF Uncount
  <2>14. CASE Cleanup(p) BY <2>14 DEF Cleanup
  <2>15. CASE Return(p) BY <2>15 DEF Return
  <2> QED BY <1>2, <2>1, <2>2, <2>3, <2>4, <2>5, <2>6, <2>7, <2>8, <2>9, <2>10, <2>11,
             <2>12, <2>13, <2>14, <2>15 DEF PlanStep
<1>3. ASSUME NEW s \in Services, Work(s) \/ LateClear(s) PROVE up' = up
  <2> USE DEF modstate
  <2>1. CASE LateClear(s) BY <2>1 DEF LateClear, Clear
  <2>2. CASE Work(s)
    <3>1. CASE Abandon(s) BY <3>1 DEF Abandon
    <3>2. CASE Examine(s) BY <3>2 DEF Examine
    <3>3. CASE GiveUp(s) BY <3>3 DEF GiveUp
    <3>4. CASE Decide(s) BY <3>4 DEF Decide
    <3>5. CASE ApplyEnable(s) BY <3>5 DEF ApplyEnable
    <3>6. CASE ApplyDisable(s) BY <3>6 DEF ApplyDisable
    <3>7. CASE EnableRequirements(s) BY <3>7 DEF EnableRequirements
    <3>8. CASE DeferAfterRequirements(s) BY <3>8 DEF DeferAfterRequirements
    <3>9. CASE DisableUsers(s) BY <3>9 DEF DisableUsers
    <3>10. CASE PreExamine(s) BY <3>10 DEF PreExamine
    <3>11. CASE Call(s) BY <3>11 DEF Call
    <3>12. CASE Update(s) BY <3>12 DEF Update
    <3>13. CASE MarkBroken(s) BY <3>13 DEF MarkBroken
    <3>14. CASE Finish(s) BY <3>14 DEF Finish
    <3>15. CASE End(s) BY <3>15 DEF End
    <3> QED BY <2>2, <3>1, <3>2, <3>3, <3>4, <3>5, <3>6, <3>7, <3>8, <3>9, <3>10, <3>11,
               <3>12, <3>13, <3>14, <3>15 DEF Work, WorkStep
  <2> QED BY <1>3, <2>1, <2>2
<1>4. CASE UpdateModuleList BY <1>4 DEF UpdateModuleList, NewList, ForgetBroken, modstate
<1>5. CASE CriticalDevicesOk BY <1>5 DEF CriticalDevicesOk, workervars, modstate
<1> QED BY <1>1, <1>2, <1>3, <1>4, <1>5 DEF Next

LEMMA AskedStepAllowed ==
  ASSUME AskedInv, [Next]_vars, NEW s \in Services
  PROVE  OnlyAsked(s)
<1>0. RoundOf(s) /\ RecordOf(s) /\ UpFor(s) /\ DownFor(s) /\ up \in [Services -> Nat]
  BY DEF AskedInv, WorkerTypes, ModuleTypes
<1>1. ASSUME NEW x \in Services, Run(x) PROVE OnlyAsked(s)
  <2>1. CASE x = s
    <3>1. work[s] = "run" /\ work[s] \in TaskStages
      BY <1>1, <2>1 DEF Run, At, TaskStages
    <3>2. CASE goal[s] = "enable"
      <4>1. up[s] = 0 /\ s \in WantedUp BY <1>0, <3>1, <3>2 DEF RecordOf, UpFor
      <4> QED BY <4>1 DEF OnlyAsked
    <3>3. CASE goal[s] # "enable"
      <4>1. up[s] # 0 /\ (s \in WantedDown \/ shutting_down)
        BY <1>0, <3>1, <3>3 DEF RecordOf, DownFor
      <4> QED BY <4>1 DEF OnlyAsked
    <3> QED BY <3>2, <3>3
  <2>2. CASE x # s BY <1>0, <1>1, <2>2 DEF Run, OnlyAsked
  <2> QED BY <2>1, <2>2
<1>2. ASSUME NEW x \in Services, NextCandidate(x) PROVE OnlyAsked(s)
  <2>1. up' = up \/ (shutting_down /\ up' = [up EXCEPT ![x] = 0])
    BY <1>2 DEF NextCandidate
  <2> QED BY <1>0, <2>1 DEF OnlyAsked
<1>3. CASE Next /\ ~(\E x \in Services : Run(x) \/ NextCandidate(x))
  <2>1. up' = up BY <1>3, PlansLeaveModules
  <2> QED BY <2>1 DEF OnlyAsked
<1>4. CASE UNCHANGED vars BY <1>4 DEF vars, workervars, modstate, OnlyAsked
<1> QED BY <1>1, <1>2, <1>3, <1>4

\* The invariant: no thread is ever on its way to enable a service that nobody wants up,
\* or, but for a shutdown, to disable one that nobody wants down.
THEOREM AskedAlways == Spec => []AskedInv
BY AskedInit, AskedStep, PTL DEF Spec

\* A service comes up only if it, or something that needs it, was to be enabled, and goes
\* down only if it, or something it needs, was to be disabled or the program shuts down:
\* whatever mod_gettask says of services that are queued nowhere.
THEOREM OnlyAskedHappens == Spec => OnlyWhatWasAsked
<1>1. AskedInv /\ [Next]_vars =>
        [\A s \in Services :
           /\ up[s] = 0 /\ up'[s] # 0 => s \in WantedUp
           /\ up[s] # 0 /\ up'[s] = 0 => s \in WantedDown \/ shutting_down]_vars
  BY AskedStepAllowed DEF OnlyAsked
<1> QED BY <1>1, AskedAlways, PTL DEF Spec, OnlyWhatWasAsked

-----------------------------------------------------------------------------
\* A plan that has a stage has a request that somebody made.
Genuine == \A p \in Plans : pc[p] # "idle" => req[p] \in Requests

LEMMA GenuineKept ==
  ASSUME PlanTypes, Genuine, [Next]_vars
  PROVE  Genuine'
<1>0. pc \in [Plans -> PlanStages] /\ req \in [Plans -> Requests \cup {NoRequest}]
  BY DEF PlanTypes
<1> SUFFICES ASSUME NEW q \in Plans PROVE pc'[q] # "idle" => req'[q] \in Requests
  BY DEF Genuine
<1> DEFINE Same == pc[q] = pc'[q] /\ req'[q] = req[q]
<1> DEFINE Good == pc'[q] # "idle" => req'[q] \in Requests
<1> USE DEF PlanAt, PlanGoto, Genuine
<1>1. ASSUME NEW p \in Plans, Request(p) PROVE Good
  BY <1>0, <1>1 DEF Request
<1>2. ASSUME NEW p \in Plans, PlanStep(p) PROVE Good
  <2>1. CASE SwitchMode(p) BY <1>0, <2>1 DEF SwitchMode
  <2>2. CASE FindMode(p) BY <1>0, <2>2 DEF FindMode
  <2>3. CASE Begin(p) BY <1>0, <2>3 DEF Begin
  <2>4. CASE Cross(p) BY <1>0, <2>4 DEF Cross
  <2>5. CASE Flatten(p) BY <1>0, <2>5 DEF Flatten
  <2>6. CASE Count(p) BY <1>0, <2>6 DEF Count
  <2>7. CASE StartWork(p) BY <1>0, <2>7 DEF StartWork
  <2>8. CASE Look(p) BY <1>0, <2>8 DEF Look
  <2>9. CASE Judge(p) BY <1>0, <2>9 DEF Judge
  <2>10. CASE Ping(p) BY <1>0, <2>10 DEF Ping
  <2>11. CASE Stall(p) BY <1>0, <2>11 DEF Stall
  <2>12. CASE Abort(p) BY <1>0, <2>12 DEF Abort
  <2>13. CASE Uncount(p) BY <1>0, <2>13 DEF Uncount
  <2>14. CASE Cleanup(p) BY <1>0, <2>14 DEF Cleanup
  <2>15. CASE Return(p) BY <1>0, <2>15 DEF Return
  <2> QED BY <1>2, <2>1, <2>2, <2>3, <2>4, <2>5, <2>6, <2>7, <2>8,
             <2>9, <2>10, <2>11, <2>12, <2>13, <2>14, <2>15 DEF PlanStep
<1>3. ASSUME NEW s \in Services, Work(s) \/ LateClear(s) PROVE Same
  BY <1>3, WorkLeavesPlans DEF planvars
<1>4. ASSUME UpdateModuleList PROVE Same
  BY <1>4 DEF UpdateModuleList, NewList, ForgetBroken, planvars
<1>5. ASSUME CriticalDevicesOk PROVE Same BY <1>5 DEF CriticalDevicesOk, planvars
<1>6. ASSUME UNCHANGED vars PROVE Same BY <1>6 DEF vars, planvars
<1> QED BY <1>1, <1>2, <1>3, <1>4, <1>5, <1>6 DEF Next

\* ml_tb_current_mutex belongs to mod_flatten_current_tb.
LEMMA WorkLeavesMutex ==
  ASSUME NEW s \in Services, Work(s) \/ LateClear(s)
  PROVE  UNCHANGED tbmutex
<1> USE DEF queue
<1>1. CASE LateClear(s) BY <1>1 DEF LateClear, Clear
<1>2. CASE Work(s)
  <2>1. CASE Abandon(s) BY <2>1 DEF Abandon, Leave
  <2>2. CASE Examine(s) BY <2>2 DEF Examine
  <2>3. CASE GiveUp(s) BY <2>3 DEF GiveUp
  <2>4. CASE Decide(s) BY <2>4 DEF Decide
  <2>5. CASE ApplyEnable(s) BY <2>5 DEF ApplyEnable
  <2>6. CASE ApplyDisable(s) BY <2>6 DEF ApplyDisable
  <2>7. CASE EnableRequirements(s) BY <2>7 DEF EnableRequirements
  <2>8. CASE DeferAfterRequirements(s) BY <2>8 DEF DeferAfterRequirements
  <2>9. CASE DisableUsers(s) BY <2>9 DEF DisableUsers
  <2>10. CASE PreExamine(s) BY <2>10 DEF PreExamine
  <2>11. CASE Call(s) BY <2>11 DEF Call
  <2>12. CASE Run(s) BY <2>12 DEF Run
  <2>13. CASE Update(s) BY <2>13 DEF Update
  <2>14. CASE NextCandidate(s) BY <2>14 DEF NextCandidate
  <2>15. CASE MarkBroken(s) BY <2>15 DEF MarkBroken
  <2>16. CASE Finish(s) BY <2>16 DEF Finish
  <2>17. CASE End(s) BY <2>17 DEF End, Leave
  <2> QED BY <1>2, <2>1, <2>2, <2>3, <2>4, <2>5, <2>6, <2>7, <2>8, <2>9, <2>10,
             <2>11, <2>12, <2>13, <2>14, <2>15, <2>16, <2>17 DEF Work, WorkStep
<1> QED BY <1>1, <1>2

LEMMA CommitTypesKept ==
  ASSUME PlanTypes, Genuine, CommitTypes, [Next]_vars
  PROVE  CommitTypes'
<1>0. /\ pc \in [Plans -> PlanStages]
      /\ \A p \in Plans : pc[p] # "idle" => req[p] \in Requests
      /\ \A p \in Plans : req[p].enable \cup req[p].disable \subseteq Services
      /\ todo \in [Plans -> SUBSET Services]
      /\ seen_revision \in [Plans -> Nat] /\ revision \in Nat /\ forgotten \in Nat
      /\ commits \in Int
      /\ tbmutex \in Plans \cup {Nobody}
      /\ switching \subseteq {r.mode : r \in Requests}
  BY PlansAssumption DEF PlanTypes, CommitTypes, Genuine, NoRequest
<1> USE DEF CommitTypes, PlanAt
<1>1. ASSUME NEW p \in Plans, Request(p) PROVE CommitTypes'
  BY <1>0, <1>1 DEF Request, workervars, queue, shared
<1>2. ASSUME NEW p \in Plans, PlanStep(p) PROVE CommitTypes'
  <2>1. CASE SwitchMode(p) BY <1>0, <2>1 DEF SwitchMode, workervars, queue
  <2>2. CASE FindMode(p) BY <1>0, <2>2 DEF FindMode, workervars, queue, shared
  <2>3. CASE Begin(p) BY <1>0, <2>3 DEF Begin, queue, shared
  <2>4. CASE Cross(p) BY <1>0, <2>4 DEF Cross, shared
  <2>5. CASE Flatten(p) BY <1>0, <2>5 DEF Flatten, shared
  <2>6. CASE Count(p) BY <1>0, <2>6 DEF Count, workervars, queue
  <2>7. CASE StartWork(p) BY <1>0, <2>7 DEF StartWork, shared, Wanted
  <2>8. CASE Look(p) BY <1>0, <2>8 DEF Look, shared
  <2>9. CASE Judge(p) BY <1>0, <2>9 DEF Judge, workervars, queue, shared
  <2>10. CASE Ping(p) BY <1>0, <2>10 DEF Ping, workervars, queue, shared, Wanted
  <2>11. CASE Stall(p) BY <1>0, <2>11 DEF Stall, queue, shared
  <2>12. CASE Abort(p) BY <1>0, <2>12 DEF Abort, queue, shared
  <2>13. CASE Uncount(p) BY <1>0, <2>13 DEF Uncount, workervars, queue
  <2>14. CASE Cleanup(p) BY <1>0, <2>14 DEF Cleanup, queue, shared
  <2>15. CASE Return(p) BY <1>0, <2>15 DEF Return, workervars, queue
  <2> QED BY <1>2, <2>1, <2>2, <2>3, <2>4, <2>5, <2>6, <2>7, <2>8,
             <2>9, <2>10, <2>11, <2>12, <2>13, <2>14, <2>15 DEF PlanStep
<1>3. ASSUME NEW s \in Services, Work(s) \/ LateClear(s) PROVE CommitTypes'
  <2>1. UNCHANGED <<planvars, shared>> BY <1>3, WorkLeavesPlans
  <2>2. UNCHANGED tbmutex BY <1>3, WorkLeavesMutex
  <2> QED BY <1>0, <2>1, <2>2 DEF planvars, shared
<1>4. CASE UpdateModuleList
  BY <1>0, <1>4 DEF UpdateModuleList, NewList, ForgetBroken, queue, marks, planvars
<1>5. CASE CriticalDevicesOk
  BY <1>0, <1>5 DEF CriticalDevicesOk, workervars, queue, planvars
<1>6. CASE UNCHANGED vars BY <1>0, <1>6 DEF vars, workervars, queue, planvars, shared
<1> QED BY <1>1, <1>2, <1>3, <1>4, <1>5, <1>6 DEF Next

LEMMA FlagSet ==
  ASSUME NEW f \in [Plans -> BOOLEAN], NEW p \in Plans, NEW e \in BOOLEAN
  PROVE  [f EXCEPT ![p] = e] \in [Plans -> BOOLEAN]
OBVIOUS

LEMMA FlagsSame ==
  ASSUME Flags, UNCHANGED <<remainder, clean, shutting_down, critical_ok>>
  PROVE  Flags'
BY Zenon DEF Flags

LEMMA FlagsKept ==
  ASSUME Flags, [Next]_vars
  PROVE  Flags'
<1>0. Flags OBVIOUS
<1> DEFINE Same == UNCHANGED <<remainder, clean, shutting_down, critical_ok>>
<1>1. ASSUME NEW p \in Plans, Request(p) PROVE Same
  BY <1>1 DEF Request, workervars, target, shared
<1>2. ASSUME NEW p \in Plans, PlanStep(p) PROVE Flags'
  <2>1. CASE SwitchMode(p)
    <3>1. Same BY <2>1 DEF SwitchMode, workervars, target
    <3> QED BY <1>0, <3>1, FlagsSame
  <2>2. CASE FindMode(p)
    <3>1. Same BY <2>2 DEF FindMode, workervars, target, shared
    <3> QED BY <1>0, <3>1, FlagsSame
  <2>3. CASE Begin(p)
    <3>1. shutting_down' \in BOOLEAN BY <2>3, Zenon DEF Begin
    <3>2. UNCHANGED <<remainder, clean, critical_ok>> BY <2>3 DEF Begin, shared
    <3> QED BY <1>0, <3>1, <3>2, Zenon DEF Flags
  <2>4. CASE Cross(p)
    <3>1. Same BY <2>4 DEF Cross, shared
    <3> QED BY <1>0, <3>1, FlagsSame
  <2>5. CASE Flatten(p)
    <3>1. Same BY <2>5 DEF Flatten, target, shared
    <3> QED BY <1>0, <3>1, FlagsSame
  <2>6. CASE Count(p)
    <3>1. clean' = [clean EXCEPT ![p] = commits = 0] BY <2>6 DEF Count
    <3>2. UNCHANGED <<remainder, shutting_down, critical_ok>>
      BY <2>6 DEF Count, workervars, target
    <3>3. (commits = 0) \in BOOLEAN BY Zenon
    <3>4. clean' \in [Plans -> BOOLEAN] BY <1>0, <3>1, <3>3, FlagSet DEF Flags
    <3> QED BY <1>0, <3>2, <3>4, Zenon DEF Flags
  <2>7. CASE StartWork(p)
    <3>1. remainder' = [remainder EXCEPT ![p] = FALSE] BY <2>7 DEF StartWork
    <3>2. UNCHANGED <<clean, shutting_down, critical_ok>>
      BY <2>7 DEF StartWork, target, shared
    <3>3. FALSE \in BOOLEAN BY Zenon
    <3>4. remainder' \in [Plans -> BOOLEAN] BY <1>0, <3>1, <3>3, FlagSet DEF Flags
    <3> QED BY <1>0, <3>2, <3>4, Zenon DEF Flags
  <2>8. CASE Look(p)
    <3>1. PICK s \in todo[p] :
            remainder' = [remainder EXCEPT
                            ![p] = @ \/ (Missing(p, s) /\ s \in enable)
                                     \/ (Lingering(p, s) /\ s \in disable)]
      BY <2>8, Zenon DEF Look
    <3> DEFINE e == remainder[p] \/ (Missing(p, s) /\ s \in enable)
                                \/ (Lingering(p, s) /\ s \in disable)
    <3>2. e \in BOOLEAN BY Zenon
    <3>3. remainder' = [remainder EXCEPT ![p] = e] BY <3>1, Zenon
    <3> HIDE DEF e
    <3>4. remainder' \in [Plans -> BOOLEAN] BY <1>0, <3>2, <3>3, FlagSet DEF Flags
    <3>5. UNCHANGED <<clean, shutting_down, critical_ok>> BY <2>8 DEF Look, target, shared
    <3> QED BY <1>0, <3>4, <3>5, Zenon DEF Flags
  <2>9. CASE Judge(p)
    <3>1. Same BY <2>9 DEF Judge, workervars, target, shared
    <3> QED BY <1>0, <3>1, FlagsSame
  <2>10. CASE Ping(p)
    <3>1. remainder' = [remainder EXCEPT ![p] = FALSE] BY <2>10 DEF Ping
    <3>2. UNCHANGED <<clean, shutting_down, critical_ok>>
      BY <2>10 DEF Ping, workervars, target, shared
    <3>3. FALSE \in BOOLEAN BY Zenon
    <3>4. remainder' \in [Plans -> BOOLEAN] BY <1>0, <3>1, <3>3, FlagSet DEF Flags
    <3> QED BY <1>0, <3>2, <3>4, Zenon DEF Flags
  <2>11. CASE Stall(p)
    <3>1. Same BY <2>11 DEF Stall, target, shared
    <3> QED BY <1>0, <3>1, FlagsSame
  <2>12. CASE Abort(p)
    <3>1. Same BY <2>12 DEF Abort, target, shared
    <3> QED BY <1>0, <3>1, FlagsSame
  <2>13. CASE Uncount(p)
    <3>1. clean' = [clean EXCEPT ![p] = commits = 1] BY <2>13 DEF Uncount
    <3>2. UNCHANGED <<remainder, shutting_down, critical_ok>>
      BY <2>13 DEF Uncount, workervars, target
    <3>3. (commits = 1) \in BOOLEAN BY Zenon
    <3>4. clean' \in [Plans -> BOOLEAN] BY <1>0, <3>1, <3>3, FlagSet DEF Flags
    <3> QED BY <1>0, <3>2, <3>4, Zenon DEF Flags
  <2>14. CASE Cleanup(p)
    <3>1. Same BY <2>14 DEF Cleanup, target, shared
    <3> QED BY <1>0, <3>1, FlagsSame
  <2>15. CASE Return(p)
    <3>1. Same BY <2>15 DEF Return, workervars, target
    <3> QED BY <1>0, <3>1, FlagsSame
  <2> QED BY <1>2, <2>1, <2>2, <2>3, <2>4, <2>5, <2>6, <2>7, <2>8,
             <2>9, <2>10, <2>11, <2>12, <2>13, <2>14, <2>15 DEF PlanStep
<1>3. ASSUME NEW s \in Services, Work(s) \/ LateClear(s) PROVE Same
  BY <1>3, WorkLeavesPlans DEF planvars, shared, target
<1>4. ASSUME UpdateModuleList PROVE Same
  BY <1>4 DEF UpdateModuleList, NewList, ForgetBroken, planvars, target
<1>5. CASE CriticalDevicesOk
  <2>1. critical_ok' \in BOOLEAN BY <1>5, Zenon DEF CriticalDevicesOk
  <2>2. UNCHANGED <<remainder, clean, shutting_down>>
    BY <1>5 DEF CriticalDevicesOk, workervars, target, planvars
  <2> QED BY <1>0, <2>1, <2>2, Zenon DEF Flags
<1>6. ASSUME UNCHANGED vars PROVE Same
  BY <1>6 DEF vars, workervars, target, planvars, shared
<1>7. Same => Flags' BY <1>0, FlagsSame
<1> QED BY <1>1, <1>2, <1>3, <1>4, <1>5, <1>6, <1>7, Zenon DEF Next

\* Every variable of the plans and of the work threads keeps to its kind: the chains
\* and the queue hold services, an index is a candidate's.
THEOREM PlansTypes == Spec => []TypeOK
<1> DEFINE Inv == AskedInv /\ Genuine /\ CommitTypes /\ Flags
<1>1. Init => Inv
  <2> SUFFICES ASSUME Init PROVE Inv OBVIOUS
  <2>1. Genuine BY DEF Init, Genuine
  <2>2. CommitTypes BY DEF Init, Idle, CommitTypes
  <2>3. Flags
    <3>1. remainder = [p \in Plans |-> FALSE] /\ clean = [p \in Plans |-> FALSE]
      BY DEF Init
    <3>2. shutting_down = FALSE /\ critical_ok = FALSE BY DEF Init, Idle
    <3> QED BY <3>1, <3>2, Zenon DEF Flags
  <2> QED BY <2>1, <2>2, <2>3, AskedInit, Zenon
<1>2. Inv /\ [Next]_vars => Inv'
  BY AskedStep, GenuineKept, CommitTypesKept, FlagsKept, Zenon DEF AskedInv
<1>3. Inv => TypeOK BY Zenon DEF AskedInv, TypeOK
<1> QED BY <1>1, <1>2, <1>3, PTL DEF Spec

-----------------------------------------------------------------------------
(***************************************************************************)
(* A boot: nothing is to go down, no module fails, every service has some  *)
(* module, none needs itself in the end, and nobody gives up.  Any number  *)
(* of plans overlap, the module list is updated at any time, and services  *)
(* may have many modules with different requirements.                      *)
(*                                                                         *)
(* BootQueue and BootThread say that the way up is never left: a service   *)
(* is deferred after what it needs only, so that no circle is ever seen    *)
(* (NoCircle) and mod() is called for modules whose requirements are met   *)
(* alone.  So nothing breaks, and a service leaves the queue when it is up *)
(* (Delivered); the last thread to end finds all of the queue up or starts *)
(* it again (NobodyLeft).                                                  *)
(***************************************************************************)
Boots ==
  /\ Fragile = {} /\ StallTimeout = FALSE
  /\ \A r \in Requests : r.disable = {} /\ r.shutdown = FALSE
  /\ \A s \in Services : Candidates(s) # {} /\ s \notin Reached(Needs[s], Needs)

BootQueue ==
  /\ disable = {} /\ target_disable = {} /\ shutting_down = FALSE /\ broken = {}
  /\ \A s \in Services : after[s] \subseteq Needs[s]
  /\ \A s \in changed \cup leaving : up[s] # 0

BootThread(s) ==
  /\ work[s] \notin {"next", "mark", "quit"}
  /\ work[s] \in TaskStages => goal[s] = "enable"
  /\ work[s] = "call" => Met(s)
  /\ work[s] \in {"update", "post", "settle"} => up[s] # 0

NotMerged == {"idle", "switch", "lookup", "rejected", "undefined", "begin", "cross"}

\* What a plan wants is queued until it is up.
Delivered(p) ==
  /\ pc[p] \notin {"abort", "aborted"}
  /\ pc[p] \notin NotMerged => \A s \in req[p].enable : s \in enable \/ up[s] # 0
  /\ pc[p] = "look" /\ ~remainder[p] => \A s \in req[p].enable \ todo[p] : up[s] # 0
  /\ pc[p] = "finished" => \A s \in req[p].enable : up[s] # 0

Starting == {"flatten", "count", "spawn"}
AllUp == \A s \in enable : Provided(s)
NobodyLeft ==
  Working = {} /\ (\A p \in Plans : pc[p] \notin Starting) => AllUp

BootInv ==
  /\ BootQueue /\ NobodyLeft
  /\ \A s \in Services : BootThread(s)
  /\ \A p \in Plans : Delivered(p)

\* What is up stays up, and what leaves the queue is.
Upward ==
  /\ \A s \in Services : /\ up[s] # 0 => up'[s] # 0
                         /\ Provided(s) => Provided(s)'
  /\ \A s \in enable \ enable' : up'[s] # 0

-----------------------------------------------------------------------------
\* What is provided is up.
LEMMA ProvidedIsUp ==
  ASSUME AskedInv, BootInv, NEW s \in Services, Provided(s)
  PROVE  up[s] # 0
BY DEF AskedInv, BootInv, RecordOf, BootThread, Provided

LEMMA NeedsOf ==
  ASSUME NEW s \in Services, NEW i \in Candidates(s)
  PROVE  Requires[s][i] \subseteq Needs[s] /\ Needs \in [Services -> SUBSET Services]
<1>1. \A x \in Services : \A j \in Candidates(x) : Requires[x][j] \subseteq Services
  BY WorkersAssumption DEF Candidates
<1> QED BY <1>1 DEF Needs

\* Nothing a service needs is deferred after it.
LEMMA NoCircle ==
  ASSUME Boots, BootQueue, NEW s \in Services, NEW r \in Needs[s]
  PROVE  ~Circular(s, r)
<1> SUFFICES ASSUME s \in Reached({r}, after), NEW R \in SUBSET Services,
                    Needs[s] \subseteq R, \A x \in R : Needs[x] \subseteq R
             PROVE  s \in R
  BY DEF Circular, Boots, Reached
<1>1. \A x \in R : after[x] \subseteq R BY DEF BootQueue
<1> QED BY <1>1 DEF Reached

\* Nobody asks for anything to go down.
LEMMA OnlyUp ==
  ASSUME Boots, PlanTypes, NEW p \in Plans
  PROVE  req[p].disable = {} /\ req[p].shutdown = FALSE /\ req[p].enable \subseteq Services
<1>1. req[p] \in Requests \cup {NoRequest} BY DEF PlanTypes
<1>2. CASE req[p] \in Requests
  BY <1>2, PlansAssumption DEF Boots
<1>3. CASE req[p] = NoRequest
  BY <1>3 DEF NoRequest
<1> QED BY <1>1, <1>2, <1>3

LEMMA TaskIsEnable ==
  ASSUME BootQueue, NEW s \in Services
  PROVE  Task(s) = "enable"
BY DEF BootQueue, Task

-----------------------------------------------------------------------------
\* What a step of the thread of s must show.
OthersIn(s) ==
  \A y \in Services \ {s} :
    /\ work'[y] = work[y] \/ (work[y] = "none" /\ work'[y] = "examine")
    /\ up'[y] = up[y] /\ listed'[y] = listed[y]
    /\ goal'[y] = goal[y] /\ candidate'[y] = candidate[y]

Forward(s) ==
  /\ BootQueue' /\ BootThread(s)' /\ OthersIn(s)
  /\ up[s] # 0 => up'[s] # 0
  /\ Provided(s) => Provided(s)'
  /\ \A x \in enable \ enable' : up'[x] # 0
  /\ work'[s] # "none" \/ NobodyLeft'

LEMMA ForwardKeeps ==
  ASSUME AskedInv, BootInv, NEW s \in Services, Forward(s), UNCHANGED <<planvars, shared>>
  PROVE  BootInv'
<1>1. Upward
  BY DEF Forward, OthersIn, Upward, Provided
<1>2. ASSUME NEW y \in Services \ {s} PROVE BootThread(y)'
  <2>1. BootThread(y) BY DEF BootInv
  <2>2. work'[y] = "call" => Met(y) /\ work[y] = "call" /\ candidate'[y] = candidate[y]
    BY <2>1 DEF BootThread, Forward, OthersIn
  <2>3. Requires[y] \in Seq(SUBSET Services) BY WorkersAssumption
  <2>4. work'[y] = "call" => candidate[y] \in Candidates(y)
    BY <2>2 DEF AskedInv, RoundOf, TaskStages
  <2>5. work'[y] = "call" => Requires[y][candidate[y]] \subseteq Services
    BY <2>3, <2>4 DEF Candidates
  <2>6. work'[y] = "call" => Met(y)'
    BY <1>1, <2>2, <2>5 DEF Met, Upward
  <2> QED
    BY <2>1, <2>6 DEF BootThread, Forward, OthersIn, TaskStages
<1>3. ASSUME NEW p \in Plans PROVE Delivered(p)'
  <2>1. Delivered(p) BY DEF BootInv
  <2>2. req' = req /\ pc' = pc /\ todo' = todo /\ remainder' = remainder
    BY DEF planvars
  <2>3. pc[p] \notin NotMerged => req[p].enable \subseteq Services
    BY PlansAssumption DEF AskedInv, PlanTypes, NoRequest, NotMerged
  <2> QED
    BY <1>1, <2>1, <2>2, <2>3 DEF Delivered, Upward, NotMerged
<1>4. NobodyLeft'
  <2>1. CASE work'[s] # "none" BY <2>1 DEF NobodyLeft, Working
  <2>2. CASE NobodyLeft' BY <2>2
  <2> QED BY <2>1, <2>2 DEF Forward
<1> QED
  BY <1>2, <1>3, <1>4 DEF BootInv, Forward

-----------------------------------------------------------------------------
\* Whoever starts threads leaves the others as they are.
LEMMA CreateOthers ==
  ASSUME NEW X, NEW bf, NEW s \in Services, NEW stage, work \in [Services -> Stages],
         Create(X, Moved(work, s, stage), bf)
  PROVE  /\ \A y \in Services \ {s} :
              work'[y] = work[y] \/ (work[y] = "none" /\ work'[y] = "examine")
         /\ stage # "none" => work'[s] = stage
BY DEF Create, Moved

\* The last thread to end starts whatever is queued and not up.
LEMMA LeaveLeavesNobody ==
  ASSUME AskedInv, BootInv, NEW s \in Services, Leave(s), broken' = {}, listed' = listed,
         work[s] \in {"examine", "wait", "settle", "leave"},
         \A x \in changed' : up[x] # 0, UNCHANGED planvars
  PROVE  /\ NobodyLeft' /\ disable' = {}
         /\ \A x \in Services : after'[x] \subseteq after[x]
         /\ enable' \subseteq enable /\ \A x \in enable \ enable' : Provided(x)
         /\ \A y \in Services \ {s} :
              work'[y] = work[y] \/ (work[y] = "none" /\ work'[y] = "examine")
         /\ work'[s] \in {"none", "examine"}
<1> DEFINE w == Moved(work, s, "none")
<1>0. /\ work \in [Services -> Stages] /\ enable \subseteq Services /\ disable = {} /\ broken = {}
  BY DEF AskedInv, WorkerTypes, ThreadTypes, QueueTypes, BootInv, BootQueue
<1>1. /\ w \in [Services -> Stages] /\ w[s] = "none"
      /\ \A y \in Services \ {s} : w[y] = work[y]
  BY <1>0 DEF Moved, Stages
<1> HIDE DEF w
<1>2. CASE Working = {s} /\ Queued \ broken # {}
  <2>1. Spawn(enable, disable, w)
    BY <1>2 DEF Leave, w
  <2>2. PICK q \in enable : ~Provided(q)
    BY <1>0, <1>2 DEF Queued
  <2>3. q \in enable' /\ q \notin Settled'
    <3>1. work[q] # "update"
      BY <1>0, <1>2, <2>2 DEF Working
    <3>2. up[q] = 0
      BY <1>0, <2>2, <3>1 DEF AskedInv, RecordOf, Provided
    <3> QED
      BY <1>0, <2>1, <2>2, <3>2 DEF Spawn, Settled
  <2>4. w[q] = "none"
    BY <1>0, <1>1, <1>2, <2>2 DEF Working
  <2>5. work'[q] = "examine"
    BY <1>0, <2>1, <2>2, <2>3, <2>4 DEF Spawn
  <2>6. NobodyLeft'
    BY <1>0, <2>2, <2>5 DEF NobodyLeft, Working
  <2> QED
    BY <1>0, <1>1, <2>1, <2>6 DEF Spawn
<1>3. CASE ~(Working = {s} /\ Queued \ broken # {})
  <2>1. work' = w /\ UNCHANGED <<enable, disable, chains>>
    BY <1>3 DEF Leave, w
  <2>2. NobodyLeft'
    <3> SUFFICES ASSUME Working' = {} PROVE AllUp'
      BY DEF NobodyLeft
    <3>1. \A y \in Services : w[y] = "none"
      BY <2>1 DEF Working
    <3>2. Working = {s}
      BY <1>0, <1>1, <3>1 DEF Working
    <3>3. Queued = {}
      BY <1>0, <1>3, <3>2
    <3> QED
      BY <1>0, <2>1, <3>3 DEF Queued, AllUp, Provided
  <2> QED
    BY <1>0, <1>1, <2>1, <2>2 DEF chains
<1> QED
  BY <1>2, <1>3

LEMMA BootAbandon ==
  ASSUME Boots, AskedInv, BootInv, NEW s \in Services, Abandon(s), UNCHANGED planvars
  PROVE  Forward(s)
<1>0. /\ BootQueue /\ BootThread(s) /\ work \in [Services -> Stages]
  BY DEF AskedInv, WorkerTypes, ThreadTypes, BootInv
<1>1. /\ Leave(s) /\ broken' = {} /\ listed' = listed /\ up' = up /\ changed' = changed
      /\ work[s] \in {"examine", "wait", "settle", "leave"} /\ UNCHANGED <<target, walk>>
      /\ leaving' = leaving \cup {s} /\ s \in changed
  BY <1>0 DEF Abandon, modstate, marks, BootQueue, Settled, At
<1>2. \A x \in changed' : up[x] # 0
  BY <1>0, <1>1 DEF BootQueue
<1>3. /\ NobodyLeft' /\ disable' = {}
      /\ \A x \in Services : after'[x] \subseteq after[x]
      /\ enable' \subseteq enable /\ \A x \in enable \ enable' : Provided(x)
      /\ \A y \in Services \ {s} :
           work'[y] = work[y] \/ (work[y] = "none" /\ work'[y] = "examine")
      /\ work'[s] \in {"none", "examine"}
  BY <1>1, <1>2, LeaveLeavesNobody
<1>4. BootQueue'
  BY <1>0, <1>1, <1>3 DEF BootQueue, target
<1>5. BootThread(s)'
  BY <1>3 DEF BootThread, TaskStages
<1>6. \A x \in enable \ enable' : up'[x] # 0
  BY <1>1, <1>3, ProvidedIsUp DEF AskedInv, WorkerTypes, QueueTypes
<1> QED
  BY <1>1, <1>3, <1>4, <1>5, <1>6 DEF Forward, OthersIn, walk, Provided

LEMMA BootEnd ==
  ASSUME Boots, AskedInv, BootInv, NEW s \in Services, End(s), UNCHANGED planvars
  PROVE  Forward(s)
<1>0. /\ BootQueue /\ BootThread(s) /\ work \in [Services -> Stages]
      /\ goal \in [Services -> {"none", "enable", "disable"}]
      /\ candidate \in [Services -> Nat]
  BY DEF AskedInv, WorkerTypes, ThreadTypes, BootInv
<1>1. /\ Leave(s) /\ broken' = {} /\ listed' = listed /\ up' = up
      /\ work[s] \in {"examine", "wait", "settle", "leave"} /\ UNCHANGED target
      /\ leaving' = leaving
      /\ changed' = IF work[s] = "settle" THEN changed \cup {s} ELSE changed
      /\ \A y \in Services \ {s} : goal'[y] = goal[y] /\ candidate'[y] = candidate[y]
  BY <1>0 DEF End, modstate, BootQueue
<1>2. \A x \in changed' : up[x] # 0
  BY <1>0, <1>1 DEF BootQueue, BootThread
<1>3. /\ NobodyLeft' /\ disable' = {}
      /\ \A x \in Services : after'[x] \subseteq after[x]
      /\ enable' \subseteq enable /\ \A x \in enable \ enable' : Provided(x)
      /\ \A y \in Services \ {s} :
           work'[y] = work[y] \/ (work[y] = "none" /\ work'[y] = "examine")
      /\ work'[s] \in {"none", "examine"}
  BY <1>1, <1>2, LeaveLeavesNobody
<1>4. BootQueue'
  BY <1>0, <1>1, <1>2, <1>3 DEF BootQueue, target
<1>5. BootThread(s)'
  BY <1>3 DEF BootThread, TaskStages
<1>6. \A x \in enable \ enable' : up'[x] # 0
  BY <1>1, <1>3, ProvidedIsUp DEF AskedInv, WorkerTypes, QueueTypes
<1> QED
  BY <1>1, <1>3, <1>4, <1>5, <1>6 DEF Forward, OthersIn, Provided

\* A thread that only moves on.
LEMMA Moves ==
  ASSUME AskedInv, BootInv, NEW s \in Services, NEW stage, work' = Moved(work, s, stage),
         stage # "none", UNCHANGED <<up, listed, queue, target, marks, after, leaving>>,
         \A y \in Services \ {s} : goal'[y] = goal[y] /\ candidate'[y] = candidate[y],
         stage \notin {"next", "mark", "quit"}, stage \in TaskStages => goal'[s] = "enable",
         stage = "call" => Met(s)', stage \in {"update", "post", "settle"} => up[s] # 0
  PROVE  Forward(s)
<1>0. /\ BootQueue /\ work \in [Services -> Stages]
  BY DEF AskedInv, WorkerTypes, ThreadTypes, BootInv
<1>1. work'[s] = stage /\ \A y \in Services \ {s} : work'[y] = work[y]
  BY <1>0 DEF Moved
<1>2. BootQueue'
  BY <1>0 DEF BootQueue, queue, target, marks
<1>3. BootThread(s)'
  BY <1>1 DEF BootThread
<1> QED
  BY <1>1, <1>2, <1>3 DEF Forward, OthersIn, queue, Provided

LEMMA BootExamine ==
  ASSUME Boots, AskedInv, BootInv, NEW s \in Services, Examine(s)
  PROVE  Forward(s)
<1>0. /\ BootQueue /\ BootThread(s) /\ work \in [Services -> Stages]
  BY DEF AskedInv, WorkerTypes, ThreadTypes, BootInv
<1> DEFINE stage == IF Deferred(s) THEN "wait" ELSE "decide"
<1>1. /\ Create(after[s], Moved(work, s, stage), before)
      /\ UNCHANGED <<modstate, queue, target, marks, after, walk, leaving>>
  BY DEF Examine
<1>2. stage \in {"wait", "decide"} OBVIOUS
<1> HIDE DEF stage
<1>3. /\ \A y \in Services \ {s} :
           work'[y] = work[y] \/ (work[y] = "none" /\ work'[y] = "examine")
      /\ work'[s] = stage
  BY <1>0, <1>1, <1>2, CreateOthers
<1>4. BootQueue'
  BY <1>0, <1>1 DEF BootQueue, queue, target, marks, modstate
<1>5. BootThread(s)'
  BY <1>2, <1>3 DEF BootThread, TaskStages
<1> QED
  BY <1>1, <1>2, <1>3, <1>4, <1>5 DEF Forward, OthersIn, queue, modstate, walk, Provided

LEMMA BootGiveUp ==
  ASSUME Boots, AskedInv, BootInv, NEW s \in Services, GiveUp(s)
  PROVE  Forward(s)
<1>1. /\ work' = Moved(work, s, "leave")
      /\ UNCHANGED <<up, listed, queue, target, marks, after, leaving, goal, candidate>>
  BY DEF GiveUp, Goto, modstate, chains, walk
<1> QED
  BY <1>1, Moves DEF TaskStages

LEMMA BootDecide ==
  ASSUME Boots, AskedInv, BootInv, NEW s \in Services, Decide(s)
  PROVE  Forward(s)
<1>0. /\ BootQueue /\ BootThread(s) /\ Task(s) = "enable" /\ Candidates(s) # {}
      /\ goal \in [Services -> {"none", "enable", "disable"}]
      /\ candidate \in [Services -> Nat]
  BY TaskIsEnable DEF AskedInv, WorkerTypes, ThreadTypes, BootInv, Boots
<1>1. CASE InRightState(s, "enable")
  <2>1. up[s] # 0
    BY <1>1, ProvidedIsUp DEF InRightState
  <2>2. /\ work' = Moved(work, s, "post")
        /\ UNCHANGED <<up, listed, queue, target, marks, after, leaving, goal, candidate>>
    BY <1>0, <1>1 DEF Decide, Goto, modstate, walk, marks
  <2> QED
    BY <2>1, <2>2, Moves DEF TaskStages
<1>2. CASE ~InRightState(s, "enable")
  <2>1. /\ work' = Moved(work, s, "apply")
        /\ UNCHANGED <<up, listed, queue, target, marks, after, leaving>>
        /\ goal' = [goal EXCEPT ![s] = "enable"]
        /\ candidate' = [candidate EXCEPT ![s] = head[s]]
    BY <1>0, <1>2 DEF Decide, Goto, modstate, marks
  <2>2. /\ goal'[s] = "enable"
        /\ \A y \in Services \ {s} : goal'[y] = goal[y] /\ candidate'[y] = candidate[y]
    BY <1>0, <2>1
  <2> QED
    BY <2>1, <2>2, Moves DEF TaskStages
<1> QED
  BY <1>1, <1>2

LEMMA BootApplyEnable ==
  ASSUME Boots, AskedInv, BootInv, NEW s \in Services, ApplyEnable(s)
  PROVE  Forward(s)
<1> DEFINE stage == IF Provided(s) \/ up[s] = candidate[s] THEN "post"
                    ELSE IF Met(s) THEN "call" ELSE "need"
<1>1. /\ work' = Moved(work, s, stage)
      /\ UNCHANGED <<up, listed, queue, target, marks, after, leaving, goal, candidate>>
      /\ goal[s] = "enable" /\ work[s] = "apply"
  BY DEF ApplyEnable, Goto, At, modstate, chains, walk
<1>2. candidate[s] # 0
  BY <1>1, CandidatesFrom DEF AskedInv, RoundOf, TaskStages
<1>3. stage = "post" => up[s] # 0
  BY <1>2, ProvidedIsUp
<1>4. stage = "call" => Met(s)'
  BY <1>1 DEF Met, Provided
<1>5. stage \in {"post", "call", "need"}
  OBVIOUS
<1> HIDE DEF stage
<1> QED
  BY <1>1, <1>3, <1>4, <1>5, Moves

LEMMA BootEnableRequirements ==
  ASSUME Boots, AskedInv, BootInv, NEW s \in Services, EnableRequirements(s)
  PROVE  Forward(s)
<1>0. BootQueue /\ work[s] = "need" /\ goal[s] = "enable" /\ candidate[s] \in Candidates(s)
  BY DEF AskedInv, RoundOf, TaskStages, EnableRequirements, At, BootInv
<1>1. \A r \in Requires[s][candidate[s]] : r \notin broken /\ ~Circular(s, r)
  BY <1>0, NeedsOf, NoCircle DEF BootQueue
<1>2. /\ work' = Moved(work, s, "defer")
      /\ UNCHANGED <<up, listed, queue, target, marks, after, leaving, goal, candidate>>
  BY <1>1 DEF EnableRequirements, Bail, Goto, modstate, queue, chains, walk
<1> QED
  BY <1>0, <1>2, Moves

LEMMA BootDeferAfterRequirements ==
  ASSUME Boots, AskedInv, BootInv, NEW s \in Services, DeferAfterRequirements(s)
  PROVE  Forward(s)
<1>0. /\ BootQueue /\ BootThread(s) /\ work \in [Services -> Stages] /\ work[s] = "defer"
      /\ after \in [Services -> SUBSET Services] /\ candidate[s] \in Candidates(s)
  BY DEF AskedInv, WorkerTypes, ThreadTypes, ChainTypes, BootInv, RoundOf, TaskStages,
         DeferAfterRequirements, At
<1> DEFINE R == Requires[s][candidate[s]]
           missing == {r \in R : ~Provided(r)} \ enable
           bf == WaitersWith(s, R)
<1>1. /\ Create(missing, Moved(work, s, "pre"), bf)
      /\ after' = [after EXCEPT ![s] = @ \cup R] /\ enable' = enable \cup missing
      /\ UNCHANGED <<modstate, disable, target, marks, walk, leaving>>
  BY DEF DeferAfterRequirements, DeferAfter
<1>2. R \subseteq Needs[s]
  BY <1>0, NeedsOf
<1> HIDE DEF R, missing, bf
<1>3. /\ \A y \in Services \ {s} :
           work'[y] = work[y] \/ (work[y] = "none" /\ work'[y] = "examine")
      /\ work'[s] = "pre"
  BY <1>0, <1>1, CreateOthers
<1>4. BootQueue'
  BY <1>0, <1>1, <1>2 DEF BootQueue, target, marks, modstate
<1>5. BootThread(s)'
  BY <1>3 DEF BootThread, TaskStages
<1> QED
  BY <1>1, <1>3, <1>4, <1>5 DEF Forward, OthersIn, modstate, walk, Provided

LEMMA BootPreExamine ==
  ASSUME Boots, AskedInv, BootInv, NEW s \in Services, PreExamine(s)
  PROVE  Forward(s)
<1>0. /\ BootQueue /\ BootThread(s) /\ work \in [Services -> Stages]
      /\ after \in [Services -> SUBSET Services]
  BY DEF AskedInv, WorkerTypes, ThreadTypes, ChainTypes, BootInv
<1>1. /\ \E X, bf : Create(X, Moved(work, s, "leave"), bf)
      /\ after' = [after EXCEPT ![s] = {}] \/ after' = after
      /\ UNCHANGED <<modstate, queue, target, marks, walk, leaving>>
  BY DEF PreExamine
<1>2. PICK X, bf : Create(X, Moved(work, s, "leave"), bf)
  BY <1>1
<1>3. /\ \A y \in Services \ {s} :
           work'[y] = work[y] \/ (work[y] = "none" /\ work'[y] = "examine")
      /\ work'[s] = "leave"
  BY <1>0, <1>2, CreateOthers
<1>4. BootQueue'
  BY <1>0, <1>1 DEF BootQueue, queue, target, marks, modstate
<1>5. BootThread(s)'
  BY <1>3 DEF BootThread, TaskStages
<1> QED
  BY <1>1, <1>3, <1>4, <1>5 DEF Forward, OthersIn, queue, modstate, walk, Provided

LEMMA BootCall ==
  ASSUME Boots, AskedInv, BootInv, NEW s \in Services, Call(s)
  PROVE  Forward(s)
<1>1. /\ work[s] = "call" /\ Met(s) /\ goal[s] = "enable" /\ up[s] = 0
      /\ candidate[s] \in Candidates(s)
  BY DEF Call, At, AskedInv, BootInv, BootThread, RecordOf, RoundOf, TaskStages
<1>2. up[s] # candidate[s]
  BY <1>1, CandidatesFrom
<1>3. /\ work' = Moved(work, s, "run")
      /\ UNCHANGED <<up, listed, queue, target, marks, after, leaving, goal, candidate>>
  BY <1>1, <1>2 DEF Call, Goto, modstate, chains, walk
<1> QED
  BY <1>1, <1>3, Moves

LEMMA BootRun ==
  ASSUME Boots, AskedInv, BootInv, NEW s \in Services, Run(s)
  PROVE  Forward(s)
<1>0. /\ BootQueue /\ BootThread(s) /\ work \in [Services -> Stages]
      /\ goal[s] = "enable" /\ candidate[s] \in Candidates(s) /\ up \in [Services -> Nat]
  BY DEF AskedInv, WorkerTypes, ThreadTypes, ModuleTypes, BootInv, Run, At, RoundOf,
         TaskStages, BootThread
<1>1. /\ up' = [up EXCEPT ![s] = candidate[s]] /\ enable' = enable \ {s}
      /\ disable' = disable /\ changed' = changed \cup {s}
      /\ UNCHANGED <<listed, broken, target, after, walk, leaving>>
  BY <1>0 DEF Run, Boots
<1>2. candidate[s] # 0
  BY <1>0, CandidatesFrom
<1>3. /\ \A y \in Services \ {s} :
           work'[y] = work[y] \/ (work[y] = "none" /\ work'[y] = "examine")
      /\ work'[s] = "update"
  BY <1>0, CreateOthers DEF Run, PostExamine
<1>4. \A y \in Services : up[y] # 0 => up'[y] # 0
  BY <1>0, <1>1, <1>2
<1>5. BootQueue'
  BY <1>0, <1>1, <1>2 DEF BootQueue, target, AskedInv, WorkerTypes, QueueTypes
<1>6. BootThread(s)'
  BY <1>0, <1>1, <1>2, <1>3 DEF BootThread, walk, TaskStages
<1> QED
  BY <1>0, <1>1, <1>2, <1>3, <1>4, <1>5, <1>6 DEF Forward, OthersIn, walk, Provided

LEMMA BootUpdate ==
  ASSUME Boots, AskedInv, BootInv, NEW s \in Services, Update(s)
  PROVE  Forward(s)
<1>0. /\ BootQueue /\ BootThread(s) /\ work \in [Services -> Stages]
      /\ goal[s] = "enable" /\ listed \in [Services -> Nat] /\ up[s] # 0
  BY DEF AskedInv, WorkerTypes, ThreadTypes, ModuleTypes, BootInv, Update, At, TaskStages,
         BootThread
<1>1. /\ work' = Moved(work, s, "post") /\ listed' = [listed EXCEPT ![s] = up[s]]
      /\ UNCHANGED <<up, queue, target, marks, after, leaving, goal, candidate>>
  BY <1>0 DEF Update, Goto, chains, walk
<1>2. work'[s] = "post" /\ \A y \in Services \ {s} : work'[y] = work[y]
  BY <1>0, <1>1 DEF Moved
<1>3. BootQueue'
  BY <1>0, <1>1 DEF BootQueue, queue, target, marks
<1>4. BootThread(s)'
  BY <1>0, <1>1, <1>2 DEF BootThread, TaskStages
<1> QED
  BY <1>0, <1>1, <1>2, <1>3, <1>4 DEF Forward, OthersIn, queue, Provided

LEMMA BootFinish ==
  ASSUME Boots, AskedInv, BootInv, NEW s \in Services, Finish(s)
  PROVE  Forward(s)
<1>0. /\ BootQueue /\ BootThread(s) /\ work \in [Services -> Stages]
      /\ work[s] = "post" /\ up[s] # 0
  BY DEF AskedInv, WorkerTypes, ThreadTypes, BootInv, Finish, BootThread
<1>1. /\ PostExamine(s, "settle")
      /\ UNCHANGED <<modstate, queue, target, marks, after, walk, leaving>>
  BY <1>0 DEF Finish
<1>2. /\ \A y \in Services \ {s} :
           work'[y] = work[y] \/ (work[y] = "none" /\ work'[y] = "examine")
      /\ work'[s] = "settle"
  BY <1>0, <1>1, CreateOthers DEF PostExamine
<1>3. BootQueue'
  BY <1>0, <1>1 DEF BootQueue, queue, target, marks, modstate
<1>4. BootThread(s)'
  BY <1>0, <1>1, <1>2 DEF BootThread, TaskStages, modstate
<1> QED
  BY <1>1, <1>2, <1>3, <1>4 DEF Forward, OthersIn, queue, modstate, walk, Provided

\* The steps that bring something down, or give something up, are never taken.
LEMMA NeverTaken ==
  ASSUME BootInv, NEW s \in Services
  PROVE  ~ApplyDisable(s) /\ ~DisableUsers(s) /\ ~NextCandidate(s) /\ ~MarkBroken(s)
BY DEF BootInv, BootThread, TaskStages, ApplyDisable, DisableUsers, NextCandidate, MarkBroken,
       At

LEMMA BootClear ==
  ASSUME Boots, AskedInv, BootInv, NEW s \in Services, LateClear(s)
  PROVE  BootInv'
<1>0. /\ BootQueue /\ BootThread(s) /\ work \in [Services -> Stages] /\ enable \subseteq Services
      /\ Task(s) = "enable" /\ leaving \subseteq Services
  BY TaskIsEnable DEF AskedInv, WorkerTypes, ThreadTypes, QueueTypes, BootInv
<1>1. /\ s \in leaving /\ disable' = disable \ {s} /\ enable' = enable \ {s}
      /\ Create(before[s], work, [before EXCEPT ![s] = {}]) /\ leaving' = leaving \ {s}
      /\ UNCHANGED <<modstate, target, marks, after, walk>> /\ UNCHANGED <<planvars, shared>>
  BY <1>0 DEF LateClear, Clear
<1>2. up[s] # 0
  BY <1>0, <1>1 DEF BootQueue
<1>3. \A y \in Services : work'[y] = work[y] \/ (work[y] = "none" /\ work'[y] = "examine")
  BY <1>0, <1>1 DEF Create
<1>4. BootQueue'
  BY <1>0, <1>1 DEF BootQueue, target, marks, modstate
<1>5. BootThread(s)'
  BY <1>0, <1>1, <1>3 DEF BootThread, TaskStages, modstate, walk, Met, Provided
<1>6. NobodyLeft'
  <2>1. pc' = pc
    BY <1>1 DEF planvars
  <2>2. Working' = {} => Working = {}
    BY <1>3 DEF Working
  <2>3. AllUp => AllUp'
    BY <1>1 DEF AllUp, modstate, Provided
  <2> QED
    BY <2>1, <2>2, <2>3 DEF NobodyLeft, BootInv
<1>7. Forward(s)
  BY <1>1, <1>2, <1>3, <1>4, <1>5, <1>6 DEF Forward, OthersIn, modstate, walk, Provided
<1> QED
  BY <1>1, <1>7, ForwardKeeps

LEMMA BootWork ==
  ASSUME Boots, AskedInv, BootInv, NEW s \in Services, Work(s)
  PROVE  BootInv'
<1>0. WorkStep(s) /\ UNCHANGED <<planvars, shared>>
  BY DEF Work
<1>1. CASE Abandon(s)
  BY <1>0, <1>1, BootAbandon, ForwardKeeps
<1>2. CASE Examine(s)
  BY <1>0, <1>2, BootExamine, ForwardKeeps
<1>3. CASE GiveUp(s)
  BY <1>0, <1>3, BootGiveUp, ForwardKeeps
<1>4. CASE Decide(s)
  BY <1>0, <1>4, BootDecide, ForwardKeeps
<1>5. CASE ApplyEnable(s)
  BY <1>0, <1>5, BootApplyEnable, ForwardKeeps
<1>6. CASE EnableRequirements(s)
  BY <1>0, <1>6, BootEnableRequirements, ForwardKeeps
<1>7. CASE DeferAfterRequirements(s)
  BY <1>0, <1>7, BootDeferAfterRequirements, ForwardKeeps
<1>8. CASE PreExamine(s)
  BY <1>0, <1>8, BootPreExamine, ForwardKeeps
<1>9. CASE Call(s)
  BY <1>0, <1>9, BootCall, ForwardKeeps
<1>10. CASE Run(s)
  BY <1>0, <1>10, BootRun, ForwardKeeps
<1>11. CASE Update(s)
  BY <1>0, <1>11, BootUpdate, ForwardKeeps
<1>12. CASE Finish(s)
  BY <1>0, <1>12, BootFinish, ForwardKeeps
<1>13. CASE End(s)
  BY <1>0, <1>13, BootEnd, ForwardKeeps
<1> QED
  BY <1>0, <1>1, <1>2, <1>3, <1>4, <1>5, <1>6, <1>7, <1>8, <1>9, <1>10, <1>11, <1>12, <1>13,
     NeverTaken DEF WorkStep

-----------------------------------------------------------------------------
\* The steps of plans.

\* A step that touches neither threads nor queue.
LEMMA BootAside ==
  ASSUME BootInv, UNCHANGED workervars, \A p \in Plans : Delivered(p)',
         (\A p \in Plans : pc'[p] \notin Starting) => \A p \in Plans : pc[p] \notin Starting
  PROVE  BootInv'
<1>1. BootQueue'
  BY DEF BootInv, BootQueue, workervars, modstate, queue, target, marks, chains, threads
<1>2. \A s \in Services : BootThread(s)'
  BY DEF BootInv, BootThread, workervars, modstate, threads, walk, Met, Provided
<1>3. NobodyLeft'
  BY DEF BootInv, NobodyLeft, workervars, modstate, threads, queue, Working, AllUp, Provided
<1> QED
  BY <1>1, <1>2, <1>3 DEF BootInv

LEMMA DeliveredOthers ==
  ASSUME BootInv, PlanTypes, Upward, NEW p \in Plans,
         pc'[p] = pc[p], req'[p] = req[p], todo'[p] = todo[p], remainder'[p] = remainder[p]
  PROVE  Delivered(p)'
<1>1. Delivered(p)
  BY DEF BootInv
<1>2. pc[p] \notin NotMerged => req[p].enable \subseteq Services
  BY PlansAssumption DEF PlanTypes, NoRequest, NotMerged
<1> QED
  BY <1>1, <1>2 DEF Delivered, Upward, NotMerged

\* A step of plan p with nothing but its own state.
LEMMA BootAsideOf ==
  ASSUME BootInv, PlanTypes, UNCHANGED workervars, NEW p \in Plans,
         \A q \in Plans \ {p} : pc'[q] = pc[q] /\ req'[q] = req[q] /\ todo'[q] = todo[q]
                                  /\ remainder'[q] = remainder[q],
         Delivered(p)', pc[p] \in Starting => pc'[p] \in Starting
  PROVE  BootInv'
<1>1. Upward
  BY DEF Upward, workervars, modstate, queue, Provided
<1>2. \A q \in Plans \ {p} : Delivered(q)'
  BY <1>1, DeliveredOthers
<1> QED
  BY <1>2, BootAside

LEMMA BootRequest ==
  ASSUME Boots, AskedInv, BootInv, NEW p \in Plans, Request(p)
  PROVE  BootInv'
<1>0. PlanTypes BY DEF AskedInv
<1>1. /\ UNCHANGED workervars /\ pc'[p] \in {"begin", "switch"} /\ pc[p] = "idle"
      /\ todo' = todo /\ remainder' = remainder
      /\ \A q \in Plans \ {p} : pc'[q] = pc[q] /\ req'[q] = req[q]
  BY <1>0 DEF Request, PlanAt, PlanGoto, PlanTypes
<1>2. Delivered(p)'
  BY <1>1 DEF Delivered, NotMerged
<1> QED
  BY <1>0, <1>1, <1>2, BootAsideOf DEF Starting

\* Where only the stage of p changes.
LEMMA BootGoto ==
  ASSUME BootInv, AskedInv, NEW p \in Plans, UNCHANGED <<workervars, req, todo, remainder>>,
         NEW stage, PlanGoto(p, stage), pc[p] \in Starting => stage \in Starting,
         stage \notin {"abort", "aborted", "look"},
         stage \notin NotMerged => pc[p] \notin NotMerged,
         stage = "finished" => pc[p] = "look" /\ todo[p] = {} /\ ~remainder[p]
  PROVE  BootInv'
<1>0. PlanTypes BY DEF AskedInv
<1>1. pc'[p] = stage /\ \A q \in Plans \ {p} : pc'[q] = pc[q]
  BY <1>0 DEF PlanGoto, PlanTypes
<1>2. Delivered(p)
  BY DEF BootInv
<1>3. Delivered(p)'
  BY <1>1, <1>2 DEF Delivered, workervars, modstate, queue
<1> QED
  BY <1>0, <1>1, <1>3, BootAsideOf

LEMMA BootBegin ==
  ASSUME Boots, AskedInv, BootInv, NEW p \in Plans, Begin(p)
  PROVE  BootInv'
<1>0. PlanTypes /\ BootQueue BY DEF AskedInv, BootInv
<1>1. req[p].shutdown = FALSE
  BY <1>0, OnlyUp
<1>2. /\ UNCHANGED <<workervars, req, todo, remainder>> /\ PlanGoto(p, "cross")
      /\ pc[p] = "begin"
  BY <1>0, <1>1 DEF Begin, PlanAt, workervars, target, BootQueue
<1> QED
  BY <1>2, BootGoto DEF Starting, NotMerged

\* A step of plan p that touches the queue but not the modules.
LEMMA BootStep ==
  ASSUME BootInv, AskedInv, NEW p \in Plans, UNCHANGED <<up, listed, target_disable, shutting_down>>,
         UNCHANGED <<goal, candidate, leaving>>, changed' \subseteq changed,
         \A x \in Services : work'[x] = work[x] \/ work'[x] = "examine",
         disable' = {}, broken' = {}, \A x \in Services : after'[x] \subseteq after[x],
         \A x \in enable \ enable' : Provided(x),
         \A q \in Plans \ {p} : pc'[q] = pc[q], req' = req,
         \A q \in Plans \ {p} : todo'[q] = todo[q] /\ remainder'[q] = remainder[q],
         Delivered(p)', NobodyLeft'
  PROVE  BootInv'
<1>0. PlanTypes /\ WorkerTypes /\ enable \subseteq Services
  BY DEF AskedInv, WorkerTypes, QueueTypes
<1>1. Upward
  BY <1>0, ProvidedIsUp DEF Upward, Provided
<1>2. \A q \in Plans \ {p} : Delivered(q)'
  BY <1>0, <1>1, DeliveredOthers
<1>3. BootQueue'
  BY DEF BootInv, BootQueue
<1>4. \A s \in Services : BootThread(s)'
  BY DEF BootInv, BootThread, Met, Provided, TaskStages
<1> QED
  BY <1>2, <1>3, <1>4 DEF BootInv

LEMMA BootCross ==
  ASSUME Boots, AskedInv, BootInv, NEW p \in Plans, Cross(p)
  PROVE  BootInv'
<1>0. /\ PlanTypes /\ BootQueue /\ req[p].disable = {} /\ pc[p] = "cross"
      /\ enable \subseteq Services /\ target_enable \subseteq Services
      /\ req[p].enable \subseteq Services
  BY OnlyUp DEF AskedInv, WorkerTypes, QueueTypes, BootInv, Cross, PlanAt
<1>1. /\ pc' = [pc EXCEPT ![p] = "flatten"]
      /\ target_disable' = {} /\ disable' = {}
      /\ enable' = {s \in enable \cup target_enable \cup req[p].enable : ~Provided(s)}
      /\ UNCHANGED <<up, listed, shutting_down, goal, candidate, leaving, changed, work, broken,
                     after, req, todo, remainder>>
  BY <1>0 DEF Cross, CrossEnable, CrossDisable, PlanGoto, BootQueue, modstate, marks, chains,
              threads, walk
<1>2. pc'[p] = "flatten" /\ \A q \in Plans \ {p} : pc'[q] = pc[q]
  BY <1>0, <1>1 DEF PlanTypes
<1>3. \A s \in req[p].enable : s \in enable' \/ up'[s] # 0
  BY <1>0, <1>1, ProvidedIsUp
<1>4. Delivered(p)'
  BY <1>1, <1>2, <1>3 DEF Delivered
<1>5. NobodyLeft'
  BY <1>2 DEF NobodyLeft, Starting
<1>6. target_disable' = target_disable /\ broken' = {}
  BY <1>0, <1>1 DEF BootQueue
<1> QED
  BY <1>0, <1>1, <1>2, <1>4, <1>5, <1>6, BootStep

LEMMA BootFlatten ==
  ASSUME Boots, AskedInv, BootInv, NEW p \in Plans, Flatten(p)
  PROVE  BootInv'
<1>0. /\ PlanTypes /\ BootQueue /\ pc[p] = "flatten" /\ Delivered(p)
      /\ enable \subseteq Services /\ req[p].enable \subseteq Services
  BY OnlyUp DEF AskedInv, WorkerTypes, QueueTypes, BootInv, Flatten, PlanAt
<1>1. /\ UNCHANGED <<up, listed, target_disable, shutting_down, goal, candidate, leaving, changed,
                     work, req, todo, remainder>>
      /\ pc'[p] \in {"flatten", "count"} /\ \A q \in Plans \ {p} : pc'[q] = pc[q]
  BY <1>0 DEF Flatten, PlanGoto, PlanTypes, target, threads, walk
<1>2. /\ disable' = {} /\ broken' = {} /\ after' = after
      /\ \A x \in enable \ enable' : Provided(x)
  <2>1. ASSUME NEW s \in Services, FlattenEnable(s)
        PROVE  /\ disable' = {} /\ broken' = {} /\ after' = after
               /\ \A x \in enable \ enable' : Provided(x)
    BY <1>0, <2>1 DEF FlattenEnable, BootQueue, Boots
  <2>2. ASSUME NEW s \in Services PROVE ~FlattenDisable(s)
    BY <1>0 DEF FlattenDisable, BootQueue
  <2>3. CASE UNCHANGED <<head, enable, disable, broken, after>>
    BY <1>0, <2>3 DEF BootQueue
  <2> QED
    BY <2>1, <2>2, <2>3 DEF Flatten
<1>3. \A s \in req[p].enable : s \in enable' \/ up'[s] # 0
  BY <1>0, <1>1, <1>2, ProvidedIsUp DEF Delivered, NotMerged
<1>4. Delivered(p)'
  BY <1>1, <1>3 DEF Delivered
<1>5. NobodyLeft'
  BY <1>1 DEF NobodyLeft, Starting
<1> QED
  BY <1>0, <1>1, <1>2, <1>4, <1>5, BootStep

LEMMA BootStartWork ==
  ASSUME Boots, TypeOK, AskedInv, BootInv, NEW p \in Plans, StartWork(p)
  PROVE  BootInv'
<1>0. /\ PlanTypes /\ BootQueue /\ pc[p] = "spawn" /\ Delivered(p)
      /\ enable \subseteq Services /\ req[p].enable \subseteq Services
      /\ req[p].disable = {}
      /\ todo \in [Plans -> SUBSET Services] /\ remainder \in [Plans -> BOOLEAN]
  BY OnlyUp, Zenon
  DEF AskedInv, WorkerTypes, QueueTypes, BootInv, StartWork, PlanAt, TypeOK, CommitTypes, Flags
<1>1. /\ UNCHANGED <<up, listed, target_disable, shutting_down, goal, candidate, leaving, req>>
      /\ changed' \subseteq changed /\ broken' = {}
      /\ Spawn(enable, disable, work)
      /\ todo' = [todo EXCEPT ![p] = Wanted(p)]
      /\ remainder' = [remainder EXCEPT ![p] = FALSE]
      /\ pc'[p] = "look" /\ \A q \in Plans \ {p} : pc'[q] = pc[q]
  BY <1>0 DEF StartWork, PlanGoto, PlanTypes, modstate, target, walk, BootQueue
<1>2. /\ disable' = {} /\ enable' = {s \in enable : ~Provided(s)}
      /\ \A x \in Services : after'[x] = {}
      /\ work' = [s \in Services |-> IF s \in enable' \ Settled' /\ work[s] = "none"
                                       THEN "examine" ELSE work[s]]
  BY <1>0, <1>1 DEF Spawn, BootQueue
<1>3. \A s \in req[p].enable : s \in enable' \/ up'[s] # 0
  BY <1>0, <1>1, <1>2, ProvidedIsUp DEF Delivered, NotMerged
<1>4. Delivered(p)'
  <2>1. pc'[p] = "look" => \A s \in req[p].enable \ todo'[p] : up'[s] # 0
    BY <1>0, <1>1 DEF Wanted
  <2> QED
    BY <1>1, <1>3, <2>1 DEF Delivered
<1>5. NobodyLeft'
  <2> SUFFICES ASSUME Working' = {}, NEW q \in enable' PROVE FALSE
    BY DEF NobodyLeft, AllUp
  <2>1. work[q] = "none" /\ q \in Settled'
    BY <1>0, <1>2 DEF Working
  <2>2. up[q] # 0
    BY <1>0, <1>1, <2>1 DEF Settled, BootQueue
  <2>3. ~Provided(q)
    BY <1>2
  <2> QED
    BY <1>0, <1>2, <2>1, <2>2, <2>3 DEF AskedInv, RecordOf, Provided
<1>6. \A x \in Services : work'[x] = work[x] \/ work'[x] = "examine"
  BY <1>2
<1> QED
  BY <1>0, <1>1, <1>2, <1>4, <1>5, <1>6, BootStep

LEMMA BootLook ==
  ASSUME Boots, TypeOK, AskedInv, BootInv, NEW p \in Plans, Look(p)
  PROVE  BootInv'
<1>0. /\ PlanTypes /\ BootQueue /\ pc[p] = "look" /\ Delivered(p)
      /\ req[p].enable \subseteq Services /\ req[p].disable = {}
      /\ todo \in [Plans -> SUBSET Services] /\ remainder \in [Plans -> BOOLEAN]
  BY OnlyUp, Zenon DEF AskedInv, BootInv, Look, PlanAt, TypeOK, CommitTypes, Flags
<1>1. PICK s \in todo[p] :
        /\ todo' = [todo EXCEPT ![p] = @ \ {s}]
        /\ remainder' = [remainder EXCEPT
                           ![p] = @ \/ (Missing(p, s) /\ s \in enable)
                                    \/ (Lingering(p, s) /\ s \in disable)]
        /\ disable' = IF Lingering(p, s) THEN disable \cup {s} ELSE disable
  BY DEF Look
<1>2. UNCHANGED workervars /\ pc' = pc /\ req' = req
  BY <1>0, <1>1 DEF Look, Lingering, workervars, queue
<1>3. /\ todo'[p] = todo[p] \ {s}
      /\ \A q \in Plans \ {p} : todo'[q] = todo[q] /\ remainder'[q] = remainder[q]
  BY <1>0, <1>1
<1>4. ~remainder'[p] => ~remainder[p] /\ ~(Missing(p, s) /\ s \in enable)
  BY <1>0, <1>1, Zenon
<1>5. ASSUME ~remainder'[p], NEW x \in req[p].enable \ todo'[p] PROVE up[x] # 0
  <2>1. CASE x # s
    BY <1>0, <1>3, <1>4, <1>5, <2>1 DEF Delivered
  <2>2. CASE x = s
    <3>1. x \in enable \/ up[x] # 0
      BY <1>0 DEF Delivered, NotMerged
    <3>2. CASE ~Missing(p, x)
      <4>1. Provided(x) \/ x \in changed
        BY <1>0, <3>2 DEF Missing, Settled, BootQueue
      <4> QED
        BY <1>0, <4>1, ProvidedIsUp DEF BootQueue
    <3> QED
      BY <1>4, <1>5, <2>2, <3>1, <3>2
  <2> QED
    BY <2>1, <2>2
<1>6. Delivered(p)'
  <2>1. up' = up /\ enable' = enable
    BY <1>2 DEF workervars, modstate, queue
  <2> QED
    BY <1>0, <1>2, <1>5, <2>1 DEF Delivered
<1> QED
  BY <1>0, <1>2, <1>3, <1>6, BootAsideOf

LEMMA BootPing ==
  ASSUME Boots, TypeOK, AskedInv, BootInv, NEW p \in Plans, Ping(p)
  PROVE  BootInv'
<1>0. /\ PlanTypes /\ pc[p] = "wait" /\ Delivered(p)
      /\ todo \in [Plans -> SUBSET Services] /\ remainder \in [Plans -> BOOLEAN]
  BY Zenon DEF AskedInv, BootInv, Ping, PlanAt, TypeOK, CommitTypes, Flags
<1>1. /\ UNCHANGED workervars /\ req' = req /\ todo'[p] = Wanted(p) /\ pc'[p] = "look"
      /\ \A q \in Plans \ {p} : /\ pc'[q] = pc[q] /\ todo'[q] = todo[q]
                                /\ remainder'[q] = remainder[q]
  BY <1>0 DEF Ping, PlanGoto, PlanTypes
<1>2. Delivered(p)'
  <2>1. \A s \in req[p].enable : s \in enable' \/ up'[s] # 0
    BY <1>0, <1>1 DEF Delivered, NotMerged, workervars, modstate, queue
  <2>2. \A s \in req'[p].enable \ todo'[p] : up'[s] # 0
    BY <1>1 DEF Wanted
  <2> QED
    BY <1>1, <2>1, <2>2 DEF Delivered
<1> QED
  BY <1>0, <1>1, <1>2, BootAsideOf DEF Starting

LEMMA BootCleanup ==
  ASSUME Boots, AskedInv, BootInv, NEW p \in Plans, Cleanup(p)
  PROVE  BootInv'
<1>0. PlanTypes /\ BootQueue /\ pc[p] = "cleanup" /\ Delivered(p)
  BY DEF AskedInv, BootInv, Cleanup, PlanAt
<1>1. /\ UNCHANGED <<up, listed, target_disable, shutting_down, goal, candidate, leaving, work,
                     enable, disable, req, todo, remainder>>
      /\ changed' \subseteq changed /\ broken' = {}
      /\ \A x \in Services : after'[x] \subseteq after[x]
      /\ pc'[p] \in {"cross", "done"} /\ \A q \in Plans \ {p} : pc'[q] = pc[q]
  BY <1>0 DEF Cleanup, PlanGoto, PlanTypes, modstate, queue, target, threads, walk, marks, chains,
              BootQueue
<1>2. Delivered(p)'
  BY <1>0, <1>1 DEF Delivered, NotMerged
<1>3. NobodyLeft'
  BY <1>0, <1>1 DEF NobodyLeft, BootInv, Starting, Working, AllUp, Provided
<1> QED
  BY <1>0, <1>1, <1>2, <1>3, BootStep DEF BootQueue

LEMMA BootPlanStep ==
  ASSUME Boots, TypeOK, AskedInv, BootInv, NEW p \in Plans, PlanStep(p)
  PROVE  BootInv'
<1>0. Delivered(p)
  BY DEF BootInv
<1> USE DEF PlanAt
<1>1. CASE SwitchMode(p)
  <2>1. /\ UNCHANGED <<workervars, req, todo, remainder>> /\ pc[p] = "switch"
        /\ PlanGoto(p, "rejected") \/ PlanGoto(p, "lookup")
    BY <1>1 DEF SwitchMode
  <2> QED
    BY <2>1, BootGoto DEF Starting, NotMerged
<1>2. CASE FindMode(p)
  <2>1. /\ UNCHANGED <<workervars, req, todo, remainder>> /\ pc[p] = "lookup"
        /\ PlanGoto(p, "begin") \/ PlanGoto(p, "undefined")
    BY <1>2 DEF FindMode
  <2> QED
    BY <2>1, BootGoto DEF Starting, NotMerged
<1>3. CASE Begin(p)
  BY <1>3, BootBegin
<1>4. CASE Cross(p)
  BY <1>4, BootCross
<1>5. CASE Flatten(p)
  BY <1>5, BootFlatten
<1>6. CASE Count(p)
  <2>1. /\ UNCHANGED <<workervars, req, todo, remainder>> /\ pc[p] = "count"
        /\ PlanGoto(p, "spawn")
    BY <1>6 DEF Count
  <2> QED
    BY <2>1, BootGoto DEF Starting, NotMerged
<1>7. CASE StartWork(p)
  BY <1>7, BootStartWork
<1>8. CASE Look(p)
  BY <1>8, BootLook
<1>9. CASE Judge(p)
  <2>1. /\ UNCHANGED <<workervars, req, todo, remainder>> /\ pc[p] = "look" /\ todo[p] = {}
        /\ (PlanGoto(p, "finished") /\ ~remainder[p]) \/ PlanGoto(p, "wait")
    BY <1>9 DEF Judge
  <2> QED
    BY <2>1, BootGoto DEF Starting, NotMerged
<1>10. CASE Ping(p)
  BY <1>10, BootPing
<1>11. CASE Stall(p)
  BY <1>11 DEF Stall, Boots
<1>12. CASE Abort(p)
  BY <1>0, <1>12 DEF Abort, Delivered
<1>13. CASE Uncount(p)
  <2>1. /\ UNCHANGED <<workervars, req, todo, remainder>> /\ pc[p] \in {"finished", "aborted"}
        /\ PlanGoto(p, "cleanup")
    BY <1>13 DEF Uncount
  <2> QED
    BY <2>1, BootGoto DEF Starting, NotMerged
<1>14. CASE Cleanup(p)
  BY <1>14, BootCleanup
<1>15. CASE Return(p)
  <2>1. /\ UNCHANGED <<workervars, req, todo, remainder>> /\ pc[p] = "done"
        /\ PlanGoto(p, "returned")
    BY <1>15 DEF Return
  <2> QED
    BY <2>1, BootGoto DEF Starting, NotMerged
<1> QED
  BY <1>1, <1>2, <1>3, <1>4, <1>5, <1>6, <1>7, <1>8, <1>9, <1>10, <1>11, <1>12, <1>13, <1>14,
     <1>15 DEF PlanStep

LEMMA BootUpdateModuleList ==
  ASSUME AskedInv, BootInv, UpdateModuleList
  PROVE  BootInv'
<1>0. PlanTypes /\ BootQueue
  BY DEF AskedInv, BootInv
<1>1. /\ UNCHANGED <<up, listed, queue, target, changed, chains, threads, planvars>>
      /\ broken' \in {broken, {}}
  BY DEF UpdateModuleList, NewList, ForgetBroken, modstate, marks
<1>2. BootQueue'
  BY <1>0, <1>1 DEF BootQueue, queue, target, chains, threads
<1>3. \A s \in Services : BootThread(s)'
  BY <1>1 DEF BootInv, BootThread, threads, walk, Met, Provided
<1>4. NobodyLeft'
  BY <1>1 DEF BootInv, NobodyLeft, threads, queue, planvars, Working, AllUp, Provided
<1>5. \A p \in Plans : Delivered(p)'
  BY <1>1 DEF BootInv, Delivered, queue, planvars
<1> QED
  BY <1>2, <1>3, <1>4, <1>5 DEF BootInv

LEMMA BootBegins == Boots /\ Init => BootInv
<1> SUFFICES ASSUME Init PROVE BootInv
  OBVIOUS
<1>1. BootQueue
  BY DEF Init, Idle, BootQueue
<1>2. \A s \in Services : BootThread(s)
  BY DEF Init, Idle, BootThread, TaskStages
<1>3. NobodyLeft
  BY DEF Init, Idle, NobodyLeft, AllUp
<1>4. \A p \in Plans : Delivered(p)
  BY DEF Init, Delivered, NotMerged
<1> QED
  BY <1>1, <1>2, <1>3, <1>4 DEF BootInv

LEMMA BootNext ==
  ASSUME Boots, TypeOK, AskedInv, BootInv, [Next]_vars
  PROVE  BootInv'
<1>1. ASSUME NEW p \in Plans, Request(p) PROVE BootInv'
  BY <1>1, BootRequest
<1>2. ASSUME NEW p \in Plans, PlanStep(p) PROVE BootInv'
  BY <1>2, BootPlanStep
<1>3. ASSUME NEW s \in Services, Work(s) PROVE BootInv'
  BY <1>3, BootWork
<1>4. ASSUME NEW s \in Services, LateClear(s) PROVE BootInv'
  BY <1>4, BootClear
<1>5. CASE UpdateModuleList
  BY <1>5, BootUpdateModuleList
<1>6. CASE CriticalDevicesOk \/ UNCHANGED vars
  <2>1. UNCHANGED <<workervars, planvars>>
    BY <1>6 DEF CriticalDevicesOk, vars
  <2>2. \A p \in Plans : Delivered(p)'
    BY <2>1 DEF BootInv, Delivered, workervars, modstate, queue, planvars
  <2> QED
    BY <2>1, <2>2, BootAside DEF planvars
<1> QED
  BY <1>1, <1>2, <1>3, <1>4, <1>5, <1>6 DEF Next

LEMMA BootAlways == Boots => (Spec => []BootInv)
<1> SUFFICES ASSUME Boots PROVE Spec => []BootInv
  OBVIOUS
<1>1. Init => BootInv
  BY BootBegins
<1>2. TypeOK /\ AskedInv /\ BootInv /\ [Next]_vars => BootInv'
  BY BootNext
<1> QED
  BY <1>1, <1>2, PlansTypes, AskedAlways, PTL DEF Spec

\* In a boot no service is left behind: whatever the plans, the deferrals and the updates of
\* the list, the last thread to end (mod_workthreads_dec) finds everything in the queue up,
\* or starts it again.
THEOREM NobodyLeftBehind == Boots => (Spec => []NothingStranded)
<1> SUFFICES ASSUME Boots PROVE Spec => []NothingStranded
  OBVIOUS
<1>1. BootInv => NothingStranded
  <2> SUFFICES ASSUME BootInv, Working = {}, \A p \in Plans : pc[p] \notin Starting
               PROVE  {s \in enable : ~Provided(s)} = {}
    BY DEF NothingStranded, Starting
  <2> QED
    BY DEF BootInv, NobodyLeft, AllUp
<1> QED
  BY <1>1, BootAlways, PTL

\* A boot that is over has brought up all that it was to: mod_commit_and_wait does not take
\* a service that is deferred, or between two threads, for one that is done with.
THEOREM BootsDeliver == Boots => (Spec => []PlanDelivers)
<1> SUFFICES ASSUME Boots PROVE Spec => []PlanDelivers
  OBVIOUS
<1>1. BootInv => PlanDelivers
  BY DEF BootInv, Delivered, PlanDelivers, PlanAt
<1> QED
  BY <1>1, BootAlways, PTL

\* In a boot nothing is marked broken ("mark service broken if stuff went completely
\* wrong"): no service is ever taken for one that needs itself (mod_check_circular_defer),
\* and no module is tried before what it requires is up.
THEOREM NothingBreaks == Boots => (Spec => []BrokenOnlyByFailure)
<1> SUFFICES ASSUME Boots PROVE Spec => []BrokenOnlyByFailure
  OBVIOUS
<1>1. BootInv => BrokenOnlyByFailure
  BY DEF BootInv, BootQueue, BrokenOnlyByFailure
<1> QED
  BY <1>1, BootAlways, PTL
=============================================================================
