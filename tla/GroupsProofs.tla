---------------------------- MODULE GroupsProofs ----------------------------
(***************************************************************************)
(* Groups, while all that is asked for is to go up: for any groups,        *)
(* groups of groups and circles of groups included, any modules, of which  *)
(* any may fail, and any number of plans, a group is declared up only with *)
(* what it needs.                                                          *)
(*                                                                         *)
(* The members are counted one by one, so what has been counted must still *)
(* be true when the last has been (Group).  It is, because a thread walks  *)
(* the modules of a service only while it is not provided (Member), hence  *)
(* nothing that is up ever leaves the usage table.                         *)
(***************************************************************************)
EXTENDS Groups, TLAPS

\* No plan wants anything to go down.
NoneDown == \A r \in Requests : r.disable = {}

AllStages == Stages \cup {"count", "judge", "ping"}
Walking == {"apply", "need", "defer", "pre", "call", "run", "update", "next"}

GroupTypes ==
  /\ work \in [Services -> AllStages]
  /\ DOMAIN up = Services /\ DOMAIN listed = Services /\ DOMAIN goal = Services
  /\ DOMAIN providers = Groups /\ DOMAIN task = Groups
  /\ DOMAIN member = Groups /\ DOMAIN tally = Groups

OnlyUp == disable = {} /\ target_disable = {} /\ shutting_down = FALSE

\* A service that is provided is up; one that is up is, or is about to be entered in the
\* table.
Member(s) ==
  /\ work[s] \in Walking => goal[s] = "enable"
  /\ Provided(s) => up[s] # 0
  /\ up[s] # 0 /\ ~Provided(s) => At(s, "update")
  /\ work[s] \in Walking \ {"pre"} => ~Provided(s)

Tallies ==
  [on : Nat, failed : Nat, changed : Nat, nested : Nat, from : SUBSET Services,
   ask : {"changed", "failed", "on"}]

\* The first n members of g are counted as what they are.
Right(g, c, n) ==
  /\ c \in Tallies
  /\ n \in 0..Len(Members[g]) /\ c.on \in 0..n
  /\ c.on > 0 => \E i \in 1..n : Provided(Members[g][i])
  /\ c.on = n => \A i \in 1..n : Provided(Members[g][i])
  /\ \A s \in c.from : s \in Plain /\ up[s] # 0

Group(g) ==
  /\ Provided(g) <=> providers[g] # {}
  /\ \A s \in providers[g] : s \in Plain /\ up[s] # 0
  /\ work[g] \notin Walking
  /\ task[g] # "disable"
  /\ member[g] \in Nat
  /\ At(g, "count") =>
       ~Provided(g) /\ task[g] = "enable" /\ Right(g, tally[g], member[g] - 1)

GroupInv ==
  GroupTypes /\ OnlyUp /\ (\A s \in Plain : Member(s)) /\ \A g \in Groups : Group(g)

-----------------------------------------------------------------------------
LEMMA MembersOf ==
  ASSUME NEW g \in Groups
  PROVE  /\ Len(Members[g]) \in Nat /\ DOMAIN Members[g] = 1..Len(Members[g])
         /\ \A i \in 1..Len(Members[g]) : Members[g][i] \in Services
<1>1. Members[g] \in Seq(Services) BY GroupsAssumption
<1> QED BY <1>1

LEMMA TaskUp ==
  ASSUME OnlyUp, NEW s
  PROVE  Task(s) = "enable"
BY DEF OnlyUp, Task

\* The thread of s gets to a stage; of the others some may begin.
Gets(s, stage) ==
  /\ work' \in [Services -> AllStages]
  /\ work'[s] = stage \/ (stage = "none" /\ work'[s] = "examine")
  /\ \A y \in Services \ {s} :
       work'[y] = work[y] \/ (work[y] = "none" /\ work'[y] = "examine")

LEMMA MovedGets ==
  ASSUME GroupTypes, NEW s \in Services, NEW stage \in AllStages,
         work' = Moved(work, s, stage)
  PROVE  Gets(s, stage)
BY DEF GroupTypes, Gets, Moved

LEMMA CreateGets ==
  ASSUME GroupTypes, NEW s \in Services, NEW stage \in AllStages, NEW X, NEW bf,
         Create(X, Moved(work, s, stage), bf)
  PROVE  Gets(s, stage)
<1> DEFINE w == Moved(work, s, stage)
<1>1. /\ w \in [Services -> AllStages] /\ w[s] = stage
      /\ \A y \in Services \ {s} : w[y] = work[y]
  BY DEF GroupTypes, Moved
<1> HIDE DEF w
<1>2. PICK seen : work' = [x \in Services |-> IF x \in seen \ Settled' /\ w[x] = "none"
                                                THEN "examine" ELSE w[x]]
  BY DEF Create, w
<1>3. work' \in [Services -> AllStages] BY <1>1, <1>2 DEF AllStages, Stages
<1> QED BY <1>1, <1>2, <1>3 DEF Gets

\* Threads that are created without any getting on.
LEMMA CreateStarts ==
  ASSUME GroupTypes, NEW X, NEW bf, Create(X, work, bf)
  PROVE  /\ work' \in [Services -> AllStages]
         /\ \A y \in Services : work'[y] = work[y] \/ (work[y] = "none" /\ work'[y] = "examine")
<1>1. PICK seen : work' = [x \in Services |-> IF x \in seen \ Settled' /\ work[x] = "none"
                                                THEN "examine" ELSE work[x]]
  BY DEF Create
<1>2. work' \in [Services -> AllStages] BY <1>1 DEF GroupTypes, AllStages, Stages
<1> QED BY <1>1, <1>2

LEMMA SpawnStarts ==
  ASSUME NEW w \in [Services -> AllStages], Spawn(enable, disable, w), disable = {}
  PROVE  /\ work' \in [Services -> AllStages] /\ disable' = {}
         /\ \A y \in Services : work'[y] = w[y] \/ (w[y] = "none" /\ work'[y] = "examine")
<1>1. work' = [s \in Services |->
                 IF s \in (enable' \cup disable') \ Settled' /\ w[s] = "none"
                   THEN "examine" ELSE w[s]]
  BY DEF Spawn
<1>2. work' \in [Services -> AllStages] BY <1>1 DEF AllStages, Stages
<1>3. disable' = {} BY DEF Spawn
<1> QED BY <1>1, <1>2, <1>3

LEMMA LeaveGets ==
  ASSUME GroupTypes, OnlyUp, NEW s \in Services, Leave(s)
  PROVE  Gets(s, "none") /\ disable' = {}
<1> DEFINE w == Moved(work, s, "none")
<1>1. /\ w \in [Services -> AllStages] /\ w[s] = "none"
      /\ \A y \in Services \ {s} : w[y] = work[y]
  BY DEF GroupTypes, Moved, AllStages, Stages
<1>2. CASE Spawn(enable, disable, w)
  <2> HIDE DEF w
  <2> QED BY <1>1, <1>2, SpawnStarts DEF Gets, OnlyUp
<1>3. CASE work' = w /\ disable' = disable
  <2> HIDE DEF w
  <2> QED BY <1>1, <1>3 DEF Gets, OnlyUp
<1> QED BY <1>2, <1>3 DEF Leave

-----------------------------------------------------------------------------
\* Nothing that is up goes down.
Upward ==
  \A s \in Services : (Provided(s) => Provided(s)') /\ (up[s] # 0 => up'[s] # 0)

Waking(y) == work'[y] = work[y] \/ (work[y] = "none" /\ work'[y] = "examine")

\* A member, and a group, whose thread makes no step.
MemberStill(y) ==
  Waking(y) /\ up'[y] = up[y] /\ listed'[y] = listed[y] /\ goal'[y] = goal[y]

GroupStill(g) ==
  /\ Waking(g) /\ listed'[g] = listed[g] /\ providers'[g] = providers[g]
  /\ task'[g] = task[g] /\ member'[g] = member[g] /\ tally'[g] = tally[g]

LEMMA MemberRests ==
  ASSUME NEW y \in Plain, Member(y), MemberStill(y)
  PROVE  Member(y)'
BY DEF Member, MemberStill, Waking, Provided, At, Walking

LEMMA RightRests ==
  ASSUME NEW g \in Groups, NEW c, NEW n, Right(g, c, n), Upward
  PROVE  /\ c.on > 0 => \E i \in 1..n : Provided(Members[g][i])'
         /\ c.on = n => \A i \in 1..n : Provided(Members[g][i])'
         /\ \A s \in c.from : s \in Plain /\ up'[s] # 0
<1>1. /\ Len(Members[g]) \in Nat /\ n \in 0..Len(Members[g])
      /\ \A i \in 1..n : Members[g][i] \in Services
  BY MembersOf DEF Right
<1>2. \A i \in 1..n : Provided(Members[g][i]) => Provided(Members[g][i])'
  BY <1>1 DEF Upward
<1>3. \A s \in c.from : s \in Plain /\ up'[s] # 0 BY DEF Right, Upward, Plain
<1> QED BY <1>1, <1>2, <1>3 DEF Right

LEMMA GroupRests ==
  ASSUME NEW g \in Groups, Group(g), GroupStill(g), Upward
  PROVE  Group(g)'
<1>1. \A s \in providers'[g] : s \in Plain /\ up'[s] # 0
  BY DEF Group, GroupStill, Upward, Plain
<1>2. At(g, "count")' => At(g, "count") BY DEF At, GroupStill, Waking
<1>3. At(g, "count") => Right(g, tally[g], member[g] - 1)'
  <2> SUFFICES ASSUME At(g, "count") PROVE Right(g, tally[g], member[g] - 1)'
    OBVIOUS
  <2>1. Right(g, tally[g], member[g] - 1) BY DEF Group
  <2>2. tally'[g] = tally[g] /\ member'[g] = member[g] BY DEF GroupStill
  <2>3. /\ tally[g].on > 0 => \E i \in 1..(member[g] - 1) : Provided(Members[g][i])'
        /\ tally[g].on = member[g] - 1 =>
             \A i \in 1..(member[g] - 1) : Provided(Members[g][i])'
        /\ \A s \in tally[g].from : s \in Plain /\ up'[s] # 0
    BY <2>1, RightRests
  <2> QED BY <2>1, <2>2, <2>3 DEF Right, Provided
<1>4. work'[g] \notin Walking BY DEF Group, GroupStill, Waking, Walking
<1> QED BY <1>1, <1>2, <1>3, <1>4 DEF Group, GroupStill, Provided

LEMMA OneStep ==
  ASSUME GroupInv, GroupTypes', OnlyUp', Upward,
         \A y \in Plain : MemberStill(y) \/ Member(y)',
         \A g \in Groups : GroupStill(g) \/ Group(g)'
  PROVE  GroupInv'
BY MemberRests, GroupRests DEF GroupInv

LEMMA UpwardStill ==
  ASSUME up' = up, listed' = listed
  PROVE  Upward
BY DEF Upward, Provided

-----------------------------------------------------------------------------
\* A step of the thread of s that neither enables nor disables anything.
LEMMA ThreadKeeps ==
  ASSUME GroupInv, NEW s \in Services, NEW stage, Gets(s, stage), OnlyUp',
         UNCHANGED <<up, listed, providers, task, member, tally>>,
         DOMAIN goal' = Services, \A y \in Services \ {s} : goal'[y] = goal[y],
         s \in Groups => stage \notin Walking \cup {"count"},
         s \in Plain =>
           /\ work[s] # "update"
           /\ stage \in Walking => goal'[s] = "enable"
           /\ stage \in Walking \ {"pre"} => ~Provided(s)
  PROVE  GroupInv'
<1>1. GroupTypes' BY DEF GroupInv, GroupTypes, Gets
<1>2. Upward BY UpwardStill
<1>3. \A y \in Plain \ {s} : MemberStill(y) BY DEF MemberStill, Waking, Gets, Plain
<1>4. \A g \in Groups \ {s} : GroupStill(g) BY DEF GroupStill, Waking, Gets, Groups
<1>5. ASSUME s \in Plain PROVE Member(s)'
  <2>1. Member(s) BY <1>5 DEF GroupInv
  <2> QED BY <1>5, <2>1 DEF Member, Gets, At, Provided, Walking
<1>6. ASSUME s \in Groups PROVE Group(s)'
  <2>1. Group(s) BY <1>6 DEF GroupInv
  <2>2. ~At(s, "count")' /\ work'[s] \notin Walking BY <1>6 DEF Gets, At, Walking
  <2>3. UNCHANGED <<Provided(s), providers[s], task[s], member[s], up>> BY DEF Provided
  <2> QED BY <2>1, <2>2, <2>3 DEF Group
<1> QED BY <1>1, <1>2, <1>3, <1>4, <1>5, <1>6, OneStep

\* Threads begin, and nothing else happens to any.
LEMMA StartKeeps ==
  ASSUME GroupInv, OnlyUp', work' \in [Services -> AllStages], \A y \in Services : Waking(y),
         UNCHANGED <<up, listed, goal, providers, task, member, tally>>
  PROVE  GroupInv'
<1>1. GroupTypes' BY DEF GroupInv, GroupTypes
<1>2. Upward BY UpwardStill
<1>3. \A y \in Plain : MemberStill(y) BY DEF MemberStill, Plain
<1>4. \A g \in Groups : GroupStill(g) BY DEF GroupStill, Groups
<1> QED BY <1>1, <1>2, <1>3, <1>4, OneStep

LEMMA EndKeeps ==
  ASSUME GroupInv, NEW s \in Services, Abandon(s) \/ Clear(s) \/ End(s),
         UNCHANGED <<providers, examination>>
  PROVE  GroupInv'
<1>1. /\ UNCHANGED <<up, listed, target, providers, task, member, tally>>
      /\ GroupTypes /\ OnlyUp
  BY DEF Abandon, Clear, End, modstate, examination, GroupInv
<1>2. CASE Clear(s)
  <2>1. disable' = {} /\ goal' = goal BY <1>1, <1>2 DEF Clear, OnlyUp, walk
  <2>2. OnlyUp' BY <1>1, <2>1 DEF OnlyUp, target
  <2>3. Create(before[s], work, [before EXCEPT ![s] = {}]) BY <1>2 DEF Clear
  <2>4. work' \in [Services -> AllStages] /\ \A y \in Services : Waking(y)
    BY <1>1, <2>3, CreateStarts DEF Waking
  <2> QED BY <1>1, <2>1, <2>2, <2>4, StartKeeps
<1>3. CASE Abandon(s) \/ End(s)
  <2>1. Leave(s) BY <1>3 DEF Abandon, End
  <2>2. Gets(s, "none") /\ disable' = {} BY <1>1, <2>1, LeaveGets
  <2>3. OnlyUp' BY <1>1, <2>2 DEF OnlyUp, target
  <2>4. goal' = goal \/ goal' = [goal EXCEPT ![s] = "none"]
    BY <1>3 DEF Abandon, End, walk
  <2>5. DOMAIN goal' = Services /\ \A y \in Services \ {s} : goal'[y] = goal[y]
    BY <1>1, <2>4 DEF GroupTypes
  <2>6. work[s] # "update" BY <1>3 DEF Abandon, End, At
  <2> QED BY <1>1, <2>2, <2>3, <2>5, <2>6, ThreadKeeps DEF Walking
<1> QED BY <1>2, <1>3

-----------------------------------------------------------------------------
\* The members' threads.
LEMMA RunKeeps ==
  ASSUME GroupInv, NEW s \in Plain, Run(s), UNCHANGED <<providers, examination>>
  PROVE  GroupInv'
<1>1. /\ At(s, "run") /\ s \in Services /\ s \notin Groups
      /\ UNCHANGED <<listed, goal, target, providers, task, member, tally>>
      /\ \E n : up' = [up EXCEPT ![s] = n]
      /\ GroupTypes /\ OnlyUp /\ Member(s)
  BY DEF Run, GroupInv, Plain, walk, examination
<1>2. disable' = {} BY <1>1 DEF Run, OnlyUp
<1>3. OnlyUp' BY <1>1, <1>2 DEF OnlyUp, target
<1>4. Gets(s, "update")
  <2>1. Create(before[s], Moved(work, s, "update"), [before EXCEPT ![s] = {}])
    BY DEF Run, PostExamine
  <2>2. "update" \in AllStages BY DEF AllStages, Stages
  <2> QED BY <1>1, <2>1, <2>2, CreateGets
<1>5. GroupTypes' BY <1>1, <1>4 DEF GroupTypes, Gets
<1>6. ~Provided(s) /\ up[s] = 0 /\ goal[s] = "enable" BY <1>1 DEF Member, At, Walking
<1>7. Upward BY <1>1, <1>6 DEF Upward, Provided, GroupTypes
<1>8. \A y \in Plain \ {s} : MemberStill(y)
  BY <1>1, <1>4 DEF MemberStill, Waking, Gets, Plain, GroupTypes
<1>9. \A g \in Groups : GroupStill(g)
  BY <1>1, <1>4 DEF GroupStill, Waking, Gets, Groups
<1>10. Member(s)' BY <1>1, <1>4, <1>6 DEF Member, Gets, At, Provided, Walking
<1> QED BY <1>3, <1>5, <1>7, <1>8, <1>9, <1>10, OneStep

LEMMA EnlistKeeps ==
  ASSUME GroupInv, NEW s \in Plain, Enlist(s)
  PROVE  /\ GroupInv'
         /\ \A g \in Groups : listed'[g] = listed[g]
<1>1. /\ At(s, "update") /\ s \in Services /\ s \notin Groups
      /\ UNCHANGED <<up, goal, target, disable, task, member, tally>>
      /\ GroupTypes /\ OnlyUp /\ Member(s)
  BY DEF Enlist, GroupInv, Plain, walk, examination, queue
<1>2. OnlyUp' BY <1>1 DEF OnlyUp, target
<1>3. ~Provided(s) /\ goal[s] = "enable" BY <1>1 DEF Member, At, Walking
<1>4. \A g \in Groups : Left(s)[g] = providers[g]
  <2> SUFFICES ASSUME NEW g \in Groups PROVE Left(s)[g] = providers[g]
    OBVIOUS
  <2>1. s \in providers[g] => up[s] # 0 BY DEF GroupInv, Group
  <2> QED BY <2>1 DEF Left
<1>5. /\ providers' = Left(s)
      /\ listed' = [x \in Services |->
                      IF x = s THEN up[s]
                      ELSE IF x \in Groups /\ Left(s)[x] = {} THEN 0 ELSE listed[x]]
  BY DEF Enlist
<1>6. \A g \in Groups : listed'[g] = listed[g] /\ providers'[g] = providers[g]
  <2> SUFFICES ASSUME NEW g \in Groups
               PROVE  listed'[g] = listed[g] /\ providers'[g] = providers[g]
    OBVIOUS
  <2>1. g \in Services /\ g # s BY <1>1 DEF Groups
  <2>2. listed[g] # 0 <=> providers[g] # {} BY DEF GroupInv, Group, Provided
  <2> QED BY <1>4, <1>5, <2>1, <2>2
<1>7. /\ listed'[s] = up[s] /\ DOMAIN listed' = Services /\ DOMAIN providers' = Groups
      /\ \A y \in Plain \ {s} : listed'[y] = listed[y]
  BY <1>1, <1>5 DEF Left, Plain
<1>8. Gets(s, IF up[s] # 0 THEN "post" ELSE "next")
  <2> DEFINE stage == IF up[s] # 0 THEN "post" ELSE "next"
  <2>1. work' = Moved(work, s, stage) BY <1>3 DEF Enlist, Goto
  <2>2. stage \in AllStages BY DEF AllStages, Stages
  <2> HIDE DEF stage
  <2>3. Gets(s, stage) BY <1>1, <2>1, <2>2, MovedGets
  <2> QED BY <2>3 DEF stage
<1>9. GroupTypes' BY <1>1, <1>7, <1>8 DEF GroupTypes, Gets
<1>10. Upward BY <1>1, <1>3, <1>6, <1>7 DEF Upward, Provided, Plain
<1>11. \A y \in Plain \ {s} : MemberStill(y)
  BY <1>1, <1>7, <1>8 DEF MemberStill, Waking, Gets, Plain
<1>12. \A g \in Groups : GroupStill(g)
  BY <1>1, <1>6, <1>8 DEF GroupStill, Waking, Gets, Groups
<1>13. Member(s)' BY <1>1, <1>3, <1>7, <1>8 DEF Member, Gets, At, Provided, Walking
<1> QED BY <1>2, <1>6, <1>9, <1>10, <1>11, <1>12, <1>13, OneStep

\* No member's thread disables anything, and none walks on when its service is provided.
LEMMA ToilKeeps ==
  ASSUME GroupInv, NEW s \in Plain, Toil(s)
  PROVE  /\ GroupInv'
         /\ \A g \in Groups : listed'[g] = listed[g]
<1>1. /\ s \in Services /\ s \notin Groups
      /\ UNCHANGED <<providers, examination, task, member, tally>>
      /\ GroupTypes /\ OnlyUp /\ Member(s) /\ Task(s) = "enable"
  BY TaskUp DEF Toil, GroupInv, Plain, examination
<1>2. CASE Abandon(s) \/ Clear(s) \/ End(s)
  <2>1. listed' = listed BY <1>2 DEF Abandon, Clear, End, modstate
  <2> QED BY <1>1, <1>2, <2>1, EndKeeps
<1>3. CASE Run(s)
  <2>1. listed' = listed BY <1>3 DEF Run
  <2> QED BY <1>1, <1>3, <2>1, RunKeeps
<1>4. ~ApplyDisable(s) /\ ~DisableUsers(s)
  BY <1>1 DEF ApplyDisable, DisableUsers, Member, At, Walking
<1>5. SUFFICES ASSUME /\ UNCHANGED <<up, listed, target, disable>>
                      /\ work[s] # "update"
                      /\ DOMAIN goal' = Services
                      /\ \A y \in Services \ {s} : goal'[y] = goal[y]
                      /\ \E stage \in AllStages :
                           /\ Gets(s, stage)
                           /\ stage \in Walking => goal'[s] = "enable"
                           /\ stage \in Walking \ {"pre"} => ~Provided(s)
               PROVE  GroupInv' /\ \A g \in Groups : listed'[g] = listed[g]
  <2>1. CASE Examine(s)
    <3> DEFINE stage == IF Deferred(s) THEN "wait" ELSE "decide"
    <3>1. /\ UNCHANGED <<up, listed, target, disable, goal>>
          /\ Create(after[s], Moved(work, s, stage), before) /\ work[s] # "update"
      BY <2>1 DEF Examine, modstate, queue, walk, At
    <3>2. stage \in AllStages \ Walking BY DEF AllStages, Stages, Walking
    <3> HIDE DEF stage
    <3>3. Gets(s, stage) BY <1>1, <3>1, <3>2, CreateGets
    <3> QED BY <1>1, <1>5, <3>1, <3>2, <3>3 DEF GroupTypes
  <2>2. CASE GiveUp(s)
    <3>1. /\ UNCHANGED <<up, listed, target, disable, goal>>
          /\ work' = Moved(work, s, "leave") /\ work[s] # "update"
      BY <2>2 DEF GiveUp, modstate, queue, walk, At, Goto
    <3>2. "leave" \in AllStages \ Walking BY DEF AllStages, Stages, Walking
    <3>3. Gets(s, "leave") BY <1>1, <3>1, <3>2, MovedGets
    <3> QED BY <1>1, <1>5, <3>1, <3>2, <3>3 DEF GroupTypes
  <2>3. CASE Decide(s)
    <3>1. UNCHANGED <<up, listed, target, disable>> /\ work[s] # "update"
      BY <2>3 DEF Decide, modstate, queue, At
    <3>2. \/ goal' = goal /\ \E stage \in {"post", "leave"} : work' = Moved(work, s, stage)
          \/ /\ goal' = [goal EXCEPT ![s] = "enable"] /\ ~Provided(s)
             /\ work' = Moved(work, s, "apply")
      BY <1>1, <2>3 DEF Decide, Goto, walk, InRightState
    <3>3. {"post", "leave", "apply"} \subseteq AllStages /\ {"post", "leave"} \cap Walking = {}
      BY DEF AllStages, Stages, Walking
    <3>4. CASE goal' = goal /\ \E stage \in {"post", "leave"} : work' = Moved(work, s, stage)
      <4>1. PICK stage \in {"post", "leave"} : work' = Moved(work, s, stage) BY <3>4
      <4>2. Gets(s, stage) /\ stage \in AllStages BY <1>1, <3>3, <4>1, MovedGets
      <4> QED BY <1>1, <1>5, <3>1, <3>3, <3>4, <4>2 DEF GroupTypes
    <3>5. CASE /\ goal' = [goal EXCEPT ![s] = "enable"] /\ ~Provided(s)
               /\ work' = Moved(work, s, "apply")
      <4>1. Gets(s, "apply") BY <1>1, <3>3, <3>5, MovedGets
      <4>2. /\ DOMAIN goal' = Services /\ goal'[s] = "enable"
            /\ \A y \in Services \ {s} : goal'[y] = goal[y]
        BY <1>1, <3>5 DEF GroupTypes
      <4> QED BY <1>5, <3>1, <3>3, <3>5, <4>1, <4>2
    <3> QED BY <3>2, <3>4, <3>5
  <2>4. CASE ApplyEnable(s) \/ EnableRequirements(s) \/ Call(s)
    <3>1. /\ UNCHANGED <<up, listed, target, disable, goal>>
          /\ work[s] \in {"apply", "need", "call"}
          /\ \E stage \in {"post", "call", "need", "defer", "run", "next"} :
               work' = Moved(work, s, stage)
      <4>1. CASE ApplyEnable(s)
        BY <4>1 DEF ApplyEnable, modstate, queue, walk, At, Goto
      <4>2. CASE EnableRequirements(s)
        BY <4>2 DEF EnableRequirements, Bail, modstate, walk, At, Goto
      <4>3. CASE Call(s) BY <4>3 DEF Call, modstate, queue, walk, At, Goto
      <4> QED BY <2>4, <4>1, <4>2, <4>3
    <3>2. PICK stage \in {"post", "call", "need", "defer", "run", "next"} :
            work' = Moved(work, s, stage)
      BY <3>1
    <3>3. stage \in AllStages BY DEF AllStages, Stages
    <3>4. Gets(s, stage) BY <1>1, <3>2, <3>3, MovedGets
    <3>5. goal[s] = "enable" /\ ~Provided(s) BY <1>1, <3>1 DEF Member, Walking
    <3> QED BY <1>1, <1>5, <3>1, <3>3, <3>4, <3>5 DEF GroupTypes
  <2>5. CASE DeferAfterRequirements(s)
    <3>1. /\ UNCHANGED <<up, listed, target, disable, goal>> /\ work[s] = "defer"
          /\ \E X, bf : Create(X, Moved(work, s, "pre"), bf)
      BY <2>5 DEF DeferAfterRequirements, modstate, walk, At
    <3>2. "pre" \in AllStages BY DEF AllStages, Stages
    <3>3. Gets(s, "pre") BY <1>1, <3>1, <3>2, CreateGets
    <3>4. goal[s] = "enable" BY <1>1, <3>1 DEF Member, Walking
    <3> QED BY <1>1, <1>5, <3>1, <3>2, <3>3, <3>4 DEF GroupTypes
  <2>6. CASE PreExamine(s)
    <3>1. /\ UNCHANGED <<up, listed, target, disable, goal>> /\ work[s] # "update"
          /\ \E X, bf : Create(X, Moved(work, s, "leave"), bf)
      BY <2>6 DEF PreExamine, modstate, queue, walk, At
    <3>2. "leave" \in AllStages \ Walking BY DEF AllStages, Stages, Walking
    <3>3. Gets(s, "leave") BY <1>1, <3>1, <3>2, CreateGets
    <3> QED BY <1>1, <1>5, <3>1, <3>2, <3>3 DEF GroupTypes
  <2>7. CASE NextCandidate(s)
    <3>1. work[s] = "next" /\ goal[s] = "enable" /\ ~Provided(s)
      BY <1>1, <2>7 DEF NextCandidate, At, Member, Walking
    <3>2. /\ UNCHANGED <<up, listed, target, disable, goal>>
          /\ \E stage \in {"apply", "post", "mark"} : work' = Moved(work, s, stage)
      BY <2>7, <3>1 DEF NextCandidate, Goto
    <3>3. PICK stage \in {"apply", "post", "mark"} : work' = Moved(work, s, stage) BY <3>2
    <3>4. stage \in AllStages BY DEF AllStages, Stages
    <3>5. Gets(s, stage) BY <1>1, <3>3, <3>4, MovedGets
    <3> QED BY <1>1, <1>5, <3>1, <3>2, <3>4, <3>5 DEF GroupTypes
  <2>8. CASE MarkBroken(s)
    <3>1. /\ UNCHANGED <<up, listed, target, disable, goal>>
          /\ work' = Moved(work, s, "quit") /\ work[s] # "update"
      BY <2>8 DEF MarkBroken, modstate, queue, walk, At, Goto
    <3>2. "quit" \in AllStages \ Walking BY DEF AllStages, Stages, Walking
    <3>3. Gets(s, "quit") BY <1>1, <3>1, <3>2, MovedGets
    <3> QED BY <1>1, <1>5, <3>1, <3>2, <3>3 DEF GroupTypes
  <2>9. CASE Finish(s)
    <3> DEFINE stage == IF work[s] = "post" THEN "settle" ELSE "leave"
    <3>1. /\ UNCHANGED <<up, listed, target, disable, goal>> /\ work[s] # "update"
          /\ Create(before[s], Moved(work, s, stage), [before EXCEPT ![s] = {}])
      BY <2>9 DEF Finish, PostExamine, modstate, queue, walk
    <3>2. stage \in AllStages \ Walking BY DEF AllStages, Stages, Walking
    <3> HIDE DEF stage
    <3>3. Gets(s, stage) BY <1>1, <3>1, <3>2, CreateGets
    <3> QED BY <1>1, <1>5, <3>1, <3>2, <3>3 DEF GroupTypes
  <2> QED BY <1>2, <1>3, <1>4, <2>1, <2>2, <2>3, <2>4, <2>5, <2>6, <2>7, <2>8, <2>9 DEF Toil
<1>6. OnlyUp' BY <1>1, <1>5 DEF OnlyUp, target
<1> QED BY <1>1, <1>5, <1>6, ThreadKeeps

-----------------------------------------------------------------------------
\* The thread of a group, where the table stays as it is.
LEMMA OwnStep ==
  ASSUME GroupInv, NEW g \in Groups, GroupTypes', OnlyUp',
         UNCHANGED <<up, listed, goal, providers>>,
         \A y \in Services \ {g} : Waking(y),
         \A h \in Groups \ {g} :
           task'[h] = task[h] /\ member'[h] = member[h] /\ tally'[h] = tally[h],
         Group(g)'
  PROVE  GroupInv'
<1>1. Upward BY UpwardStill
<1>2. \A y \in Plain : MemberStill(y) BY DEF MemberStill, Plain
<1>3. \A h \in Groups \ {g} : GroupStill(h) BY DEF GroupStill, Groups
<1> QED BY <1>1, <1>2, <1>3, OneStep

LEMMA BeginKeeps ==
  ASSUME GroupInv, NEW g \in Groups, Begin(g)
  PROVE  GroupInv' /\ listed' = listed
<1>1. /\ g \in Services /\ Task(g) = "enable" /\ GroupTypes /\ OnlyUp /\ Group(g)
  BY TaskUp DEF GroupInv, Groups
<1>2. UNCHANGED <<up, listed, goal, disable, target, providers>>
  BY DEF Begin, modstate, queue, walk
<1>3. OnlyUp' BY <1>1, <1>2 DEF OnlyUp, target
<1>4. CASE Provided(g)
  <2>1. UNCHANGED <<task, member, tally>> /\ PostExamine(g, "judge")
    BY <1>1, <1>4 DEF Begin
  <2>2. "judge" \in AllStages /\ "judge" \notin Walking \cup {"count"} BY DEF AllStages, Walking
  <2>3. Gets(g, "judge") BY <1>1, <2>1, <2>2, CreateGets DEF PostExamine
  <2>4. g \notin Plain BY DEF Plain
  <2> QED BY <1>1, <1>2, <1>3, <2>1, <2>2, <2>3, <2>4, ThreadKeeps DEF GroupTypes
<1>5. CASE ~Provided(g)
  <2>1. /\ task' = [task EXCEPT ![g] = "enable"]
        /\ member' = [member EXCEPT ![g] = 1]
        /\ tally' = [tally EXCEPT ![g] = NoTally]
        /\ work' = Moved(work, g, "count")
    BY <1>1, <1>5 DEF Begin, Goto
  <2>2. "count" \in AllStages /\ "count" \notin Walking BY DEF AllStages, Walking
  <2>3. Gets(g, "count") BY <1>1, <2>1, <2>2, MovedGets
  <2>4. /\ task'[g] = "enable" /\ member'[g] = 1 /\ tally'[g] = NoTally
        /\ \A h \in Groups \ {g} :
             task'[h] = task[h] /\ member'[h] = member[h] /\ tally'[h] = tally[h]
        /\ GroupTypes'
    BY <1>1, <1>2, <2>1, <2>3 DEF GroupTypes, Gets
  <2>5. Right(g, NoTally, 0)' BY MembersOf DEF Right, NoTally, Tallies
  <2>6. Group(g)'
    <3>1. Right(g, tally[g], member[g] - 1)' BY <2>4, <2>5 DEF Right
    <3> QED BY <1>1, <1>2, <1>5, <2>2, <2>3, <2>4, <3>1 DEF Group, Gets, Provided
  <2>7. \A y \in Services \ {g} : Waking(y) BY <2>3 DEF Gets, Waking
  <2> QED BY <1>2, <1>3, <2>4, <2>6, <2>7, OwnStep
<1> QED BY <1>4, <1>5

\* Noting a right answer.
LEMMA NotedKeeps ==
  ASSUME GroupInv, NEW g \in Groups, At(g, "count"), NEW c, NEW q, Noted(g, c, q),
         Right(g, [c EXCEPT !.ask = q], IF q = "changed" THEN member[g] ELSE member[g] - 1)
  PROVE  GroupInv' /\ listed' = listed
<1> DEFINE new == [c EXCEPT !.ask = q]
<1>1. /\ g \in Services /\ GroupTypes /\ OnlyUp /\ Group(g)
      /\ UNCHANGED <<up, listed, goal, disable, target, work, providers, task>>
      /\ tally' = [tally EXCEPT ![g] = new]
      /\ member' = [member EXCEPT ![g] = IF q = "changed" THEN @ + 1 ELSE @]
  BY DEF Noted, GroupInv, Groups, workervars, modstate, queue, walk, threads
<1>2. member[g] \in Nat /\ task[g] = "enable" /\ ~Provided(g) BY <1>1 DEF Group
<1>3. /\ tally'[g] = new
      /\ member'[g] = IF q = "changed" THEN member[g] + 1 ELSE member[g]
      /\ \A h \in Groups \ {g} : member'[h] = member[h] /\ tally'[h] = tally[h]
  BY <1>1 DEF GroupTypes
<1> HIDE DEF new
<1>4. Right(g, new, member'[g] - 1) BY <1>2, <1>3 DEF new
<1>5. Right(g, tally[g], member[g] - 1)' BY <1>1, <1>3, <1>4 DEF Right, Provided
<1>6. Group(g)' BY <1>1, <1>2, <1>3, <1>5 DEF Group, Provided
<1>7. OnlyUp' BY <1>1 DEF OnlyUp, target
<1>8. GroupTypes' BY <1>1 DEF GroupTypes
<1>9. \A y \in Services \ {g} : Waking(y) BY <1>1 DEF Waking
<1> QED BY <1>1, <1>3, <1>6, <1>7, <1>8, <1>9, OwnStep

\* A member that is not up, whatever it is counted as besides.
LEMMA RightPassed ==
  ASSUME NEW g, NEW c, NEW d, NEW n \in Nat, Right(g, c, n), d \in Tallies,
         d.on = c.on, d.from = c.from
  PROVE  /\ Right(g, d, n)
         /\ n + 1 \in 0..Len(Members[g]) => Right(g, d, n + 1)
BY DEF Right

\* A member that is up.
LEMMA RightNext ==
  ASSUME NEW g, NEW c, NEW d, NEW n \in Nat, Right(g, c, n), d \in Tallies,
         n + 1 \in 0..Len(Members[g]), Provided(Members[g][n + 1]),
         d.on = c.on + 1, NEW X, d.from = c.from \cup X,
         \A s \in X : s \in Plain /\ up[s] # 0
  PROVE  Right(g, d, n + 1)
<1>1. /\ n \in 0..Len(Members[g]) /\ c.on \in 0..n
      /\ c.on = n => \A i \in 1..n : Provided(Members[g][i])
      /\ \A s \in c.from : s \in Plain /\ up[s] # 0
  BY DEF Right
<1>2. d.on = n + 1 => \A i \in 1..n + 1 : Provided(Members[g][i])
  <2> SUFFICES ASSUME d.on = n + 1, NEW i \in 1..n + 1
               PROVE  Provided(Members[g][i])
    OBVIOUS
  <2>1. c.on = n BY <1>1
  <2>2. i \in 1..n \/ i = n + 1 OBVIOUS
  <2> QED BY <1>1, <2>1, <2>2
<1>3. d.on \in 0..n + 1 BY <1>1
<1>4. \E i \in 1..n + 1 : Provided(Members[g][i]) OBVIOUS
<1>5. \A s \in d.from : s \in Plain /\ up[s] # 0 BY <1>1
<1> QED BY <1>2, <1>3, <1>4, <1>5 DEF Right

\* One more member is counted as what it is.
LEMMA CountKeeps ==
  ASSUME GroupInv, NEW g \in Groups, Count(g)
  PROVE  GroupInv' /\ listed' = listed
<1> DEFINE c == tally[g]
           n == member[g] - 1
           m == Members[g][member[g]]
<1>1. GroupTypes /\ Group(g) /\ At(g, "count") /\ member[g] <= Len(Members[g])
  BY DEF Count, CountChanged, CountFailed, CountOn, Asking, GroupInv
<1>2. /\ Right(g, c, n) /\ member[g] \in Nat /\ Len(Members[g]) \in Nat
      /\ \A i \in 1..Len(Members[g]) : Members[g][i] \in Services
  BY <1>1, MembersOf DEF Group
<1>3. /\ n \in Nat /\ n + 1 = member[g] /\ n + 1 \in 0..Len(Members[g]) /\ m \in Services
      /\ c \in Tallies
  BY <1>1, <1>2 DEF Right
<1> HIDE DEF c, n, m
<1>4. CASE CountChanged(g)
  <2> DEFINE d == [c EXCEPT !.changed = @ + (IF m \in Settled THEN 1 ELSE 0)]
  <2>1. Noted(g, d, "failed") BY <1>4 DEF CountChanged, c, m
  <2>0. d \in Tallies /\ d.on = c.on /\ d.from = c.from
    <3> DEFINE k == IF m \in Settled THEN 1 ELSE 0
    <3>1. k \in Nat OBVIOUS
    <3> HIDE DEF k
    <3>2. [c EXCEPT !.changed = @ + k] \in Tallies BY <1>3, <3>1 DEF Tallies
    <3> QED BY <1>3, <3>2 DEF k, Tallies
  <2> HIDE DEF d
  <2>2. /\ [d EXCEPT !.ask = "failed"] \in Tallies
        /\ [d EXCEPT !.ask = "failed"].on = c.on /\ [d EXCEPT !.ask = "failed"].from = c.from
    BY <2>0 DEF Tallies
  <2>3. Right(g, [d EXCEPT !.ask = "failed"], n) BY <1>2, <1>3, <2>2, RightPassed
  <2> QED BY <1>1, <2>1, <2>3, NotedKeeps DEF n, d
<1>5. CASE CountFailed(g)
  <2>1. CASE Noted(g, [c EXCEPT !.failed = @ + 1], "changed")
    <3> DEFINE e == [c EXCEPT !.failed = @ + 1]
               d == [e EXCEPT !.ask = "changed"]
    <3>3. e \in Tallies /\ e.on = c.on /\ e.from = c.from BY <1>3 DEF Tallies
    <3>4. Noted(g, e, "changed") BY <2>1
    <3> HIDE DEF e
    <3>1. d \in Tallies /\ d.on = c.on /\ d.from = c.from BY <3>3 DEF Tallies
    <3> HIDE DEF d
    <3>2. Right(g, d, member[g]) BY <1>2, <1>3, <3>1, RightPassed
    <3> QED BY <1>1, <3>4, <3>2, NotedKeeps DEF d
  <2>2. CASE Noted(g, c, "on")
    <3> DEFINE d == [c EXCEPT !.ask = "on"]
    <3>1. d \in Tallies /\ d.on = c.on /\ d.from = c.from BY <1>3 DEF Tallies
    <3> HIDE DEF d
    <3>2. Right(g, d, n) BY <1>2, <1>3, <3>1, RightPassed
    <3> QED BY <1>1, <2>2, <3>2, NotedKeeps DEF d, n
  <2> QED BY <1>5, <2>1, <2>2 DEF CountFailed, c
<1>6. CASE CountOn(g)
  <2>1. CASE Provided(m)
    <3> DEFINE e == [c EXCEPT !.on = @ + 1, !.from = @ \cup ProvidersOf(m),
                              !.nested = @ + (IF m \in Groups THEN 1 ELSE 0)]
               d == [e EXCEPT !.ask = "changed"]
    <3>1. Noted(g, e, "changed") BY <1>6, <2>1 DEF CountOn, c, m
    <3>2. \A s \in ProvidersOf(m) : s \in Plain /\ up[s] # 0
      <4>1. CASE m \in Groups BY <4>1 DEF ProvidersOf, GroupInv, Group
      <4>2. CASE m \notin Groups BY <1>3, <4>2 DEF ProvidersOf, Plain
      <4> QED BY <4>1, <4>2
    <3>3. ProvidersOf(m) \in SUBSET Services BY <3>2 DEF Plain
    <3> HIDE DEF e
    <3>4. e \in Tallies /\ e.on = c.on + 1 /\ e.from = c.from \cup ProvidersOf(m)
      <4> DEFINE k == IF m \in Groups THEN 1 ELSE 0
                 X == ProvidersOf(m)
      <4>1. k \in Nat OBVIOUS
      <4>2. e = [c EXCEPT !.on = @ + 1, !.from = @ \cup X, !.nested = @ + k] BY DEF e
      <4> HIDE DEF k, X
      <4>3. X \in SUBSET Services BY <3>3 DEF X
      <4>4. /\ c.on + 1 \in Nat /\ c.nested + k \in Nat /\ c.from \cup X \in SUBSET Services
        BY <1>3, <4>1, <4>3 DEF Tallies
      <4> QED BY <1>3, <4>2, <4>4 DEF Tallies, X
    <3>5. d \in Tallies /\ d.on = c.on + 1 /\ d.from = c.from \cup ProvidersOf(m)
      BY <3>4 DEF Tallies
    <3> HIDE DEF d
    <3>6. Provided(Members[g][n + 1]) BY <1>3, <2>1 DEF m
    <3>7. Right(g, d, n + 1) BY <1>2, <1>3, <3>2, <3>5, <3>6, RightNext
    <3> QED BY <1>1, <1>3, <3>1, <3>7, NotedKeeps DEF d
  <2>2. CASE Noted(g, c, "changed")
    <3> DEFINE d == [c EXCEPT !.ask = "changed"]
    <3>1. d \in Tallies /\ d.on = c.on /\ d.from = c.from BY <1>3 DEF Tallies
    <3> HIDE DEF d
    <3>2. Right(g, d, member[g]) BY <1>2, <1>3, <3>1, RightPassed
    <3> QED BY <1>1, <2>2, <3>2, NotedKeeps DEF d
  <2> QED BY <1>6, <2>1, <2>2 DEF CountOn, c, m
<1> QED BY <1>4, <1>5, <1>6 DEF Count

\* What suffices when all have been counted is what the group needs.
LEMMA SufficesFulfilled ==
  ASSUME GroupInv, NEW g \in Groups, Counted(g), Suffices(g, tally[g])
  PROVE  Fulfilled(g)
<1>1. /\ Right(g, tally[g], member[g] - 1) /\ member[g] \in Nat
      /\ Len(Members[g]) \in Nat /\ member[g] > Len(Members[g])
      /\ DOMAIN Members[g] = 1..Len(Members[g])
  BY MembersOf DEF GroupInv, Group, Counted
<1>2. member[g] - 1 = Len(Members[g]) BY <1>1 DEF Right
<1>3. /\ tally[g].on \in 0..Len(Members[g]) /\ tally[g].on > 0
      /\ \E i \in 1..Len(Members[g]) : Provided(Members[g][i])
      /\ tally[g].on = Len(Members[g]) =>
           \A i \in 1..Len(Members[g]) : Provided(Members[g][i])
  BY <1>1, <1>2 DEF Right, Suffices
<1>4. CASE All(g)
  <2>1. ~Any(g) BY <1>4 DEF All, Any
  <2>2. tally[g].on = Len(Members[g]) BY <1>1, <1>3, <1>4, <2>1 DEF Suffices
  <2>3. \A i \in DOMAIN Members[g] : Provided(Members[g][i]) BY <1>1, <1>3, <2>2
  <2> QED BY <1>4, <2>3 DEF Fulfilled, MemberSet
<1>5. CASE ~All(g)
  <2>1. PICK i \in DOMAIN Members[g] : Provided(Members[g][i]) BY <1>1, <1>3
  <2>2. Members[g][i] \in {m \in MemberSet(g) : Provided(m)} BY <2>1 DEF MemberSet
  <2> QED BY <1>5, <2>2 DEF Fulfilled
<1> QED BY <1>4, <1>5

LEMMA DecideUpKeeps ==
  ASSUME GroupInv, NEW g \in Groups, DecideUp(g)
  PROVE  /\ GroupInv'
         /\ \A h \in Groups : listed'[h] = listed[h] \/ Fulfilled(h)
<1>1. /\ g \in Services /\ g \notin Plain /\ GroupTypes /\ OnlyUp /\ Group(g)
      /\ Counted(g) /\ UNCHANGED <<up, goal, target, task, member, tally>>
  BY DEF DecideUp, GroupInv, Groups, Plain, walk, examination
<1>2. "judge" \in AllStages /\ "judge" \notin Walking \cup {"count"} BY DEF AllStages, Walking
<1>3. disable' = {} BY <1>1 DEF DecideUp, OnlyUp, FlattenGroup
<1>4. OnlyUp' BY <1>1, <1>3 DEF OnlyUp, target
<1>5. Gets(g, "judge")
  <2>1. work' = Moved(work, g, "judge") \/ PostExamine(g, "judge") BY DEF DecideUp, Goto
  <2>2. CASE work' = Moved(work, g, "judge") BY <1>1, <1>2, <2>2, MovedGets
  <2>3. CASE PostExamine(g, "judge") BY <1>1, <1>2, <2>3, CreateGets DEF PostExamine
  <2> QED BY <2>1, <2>2, <2>3
<1>6. CASE UNCHANGED <<providers, listed>>
  <2>1. GroupInv' BY <1>1, <1>2, <1>4, <1>5, <1>6, ThreadKeeps DEF GroupTypes
  <2> QED BY <1>6, <2>1
<1>7. CASE Suffices(g, tally[g]) /\ SetProviders(g, tally[g].from)
  <2> DEFINE X == tally[g].from
  <2>1. /\ providers' = [providers EXCEPT ![g] = X]
        /\ listed' = [listed EXCEPT ![g] = IF X = {} THEN 0 ELSE 1]
    BY <1>7 DEF SetProviders
  <2>2. /\ providers'[g] = X /\ listed'[g] = IF X = {} THEN 0 ELSE 1
        /\ \A h \in Groups \ {g} : providers'[h] = providers[h]
        /\ \A y \in Services \ {g} : listed'[y] = listed[y]
        /\ GroupTypes'
    BY <1>1, <1>5, <2>1 DEF GroupTypes, Gets
  <2>3. ~Provided(g) /\ \A s \in X : s \in Plain /\ up[s] # 0
    BY <1>1 DEF Group, Counted, Right
  <2> HIDE DEF X
  <2>4. Upward BY <1>1, <2>2, <2>3 DEF Upward, Provided
  <2>5. \A y \in Plain : MemberStill(y)
    BY <1>1, <1>5, <2>2 DEF MemberStill, Waking, Gets, Plain
  <2>6. \A h \in Groups \ {g} : GroupStill(h)
    BY <1>1, <1>5, <2>2 DEF GroupStill, Waking, Gets, Groups
  <2>7. Group(g)'
    <3>1. work'[g] = "judge" BY <1>5 DEF Gets
    <3> QED BY <1>1, <1>2, <2>2, <2>3, <3>1 DEF Group, Provided, At
  <2>8. GroupInv' BY <1>4, <2>2, <2>4, <2>5, <2>6, <2>7, OneStep
  <2>9. Fulfilled(g) BY <1>1, <1>7, SufficesFulfilled
  <2> QED BY <2>2, <2>8, <2>9 DEF Groups
<1> QED BY <1>6, <1>7 DEF DecideUp

LEMMA JudgeKeeps ==
  ASSUME GroupInv, NEW g \in Groups, Judge(g)
  PROVE  GroupInv' /\ listed' = listed
<1>1. /\ g \in Services /\ g \notin Plain /\ GroupTypes /\ OnlyUp
      /\ UNCHANGED <<up, listed, goal, disable, target, providers, task, member, tally>>
  BY DEF Judge, GroupInv, Groups, Plain, modstate, queue, walk
<1>2. OnlyUp' BY <1>1 DEF OnlyUp, target
<1>3. \E stage \in {"leave", "ping"} :
        work' = Moved(work, g, stage) \/ Create(after[g], Moved(work, g, stage), before)
  BY DEF Judge, Goto
<1>4. PICK stage \in {"leave", "ping"} :
        work' = Moved(work, g, stage) \/ Create(after[g], Moved(work, g, stage), before)
  BY <1>3
<1>5. stage \in AllStages /\ stage \notin Walking \cup {"count"}
  BY DEF AllStages, Stages, Walking
<1>6. Gets(g, stage)
  <2>1. CASE work' = Moved(work, g, stage) BY <1>1, <1>5, <2>1, MovedGets
  <2>2. CASE Create(after[g], Moved(work, g, stage), before)
    BY <1>1, <1>5, <2>2, CreateGets
  <2> QED BY <1>4, <2>1, <2>2
<1> QED BY <1>1, <1>2, <1>5, <1>6, ThreadKeeps DEF GroupTypes

LEMMA GroupStepKeeps ==
  ASSUME GroupInv, NEW g \in Groups, GroupStep(g)
  PROVE  /\ GroupInv'
         /\ \A h \in Groups : listed'[h] = listed[h] \/ Fulfilled(h)
<1>1. CASE DecideDown(g)
  BY <1>1 DEF DecideDown, GroupInv, Group
<1>2. CASE Depart(g)
  <2>1. g \in Services /\ listed' = listed
    BY <1>2 DEF Depart, Abandon, Clear, End, modstate, Groups
  <2> QED BY <1>2, <2>1, EndKeeps DEF Depart
<1> QED
  BY <1>1, <1>2, BeginKeeps, CountKeeps, DecideUpKeeps, JudgeKeeps DEF GroupStep

-----------------------------------------------------------------------------
\* Plans queue services to go up alone.
LEMMA PlanKeeps ==
  ASSUME NoneDown, GroupInv, Commit \/ Flatten \/ Start
  PROVE  GroupInv' /\ listed' = listed
<1>1. /\ UNCHANGED <<up, listed, goal, providers, task, member, tally>>
      /\ GroupTypes /\ OnlyUp
  BY DEF Commit, Flatten, Start, modstate, threads, walk, examination, GroupInv
<1>2. CASE Commit
  <2>1. PICK r \in Requests :
          /\ target_disable' = (target_disable \ r.enable) \cup r.disable
          /\ disable' = {s \in (disable \ target_enable') \cup target_disable' : Provided(s)}
    BY <1>2 DEF Commit
  <2>2. target_disable' = {} BY <1>1, <2>1 DEF NoneDown, OnlyUp
  <2>3. OnlyUp' BY <1>1, <1>2, <2>1, <2>2 DEF Commit, OnlyUp
  <2>4. work' \in [Services -> AllStages] /\ \A y \in Services : Waking(y)
    BY <1>1, <1>2 DEF Commit, threads, Waking, GroupTypes
  <2> QED BY <1>1, <2>3, <2>4, StartKeeps
<1>3. CASE Flatten
  <2>1. PICK t \in {"enable", "disable"} : \E g \in Incomplete(t) : FlattenGroup(g, t)
    BY <1>3 DEF Flatten
  <2>2. t = "enable" BY <1>1, <2>1 DEF Incomplete, OnlyUp
  <2>3. disable' = {} BY <1>1, <2>1, <2>2 DEF FlattenGroup, OnlyUp
  <2>4. OnlyUp' BY <1>1, <1>3, <2>3 DEF Flatten, OnlyUp, target
  <2>5. work' \in [Services -> AllStages] /\ \A y \in Services : Waking(y)
    BY <1>1, <1>3 DEF Flatten, threads, Waking, GroupTypes
  <2> QED BY <1>1, <2>4, <2>5, StartKeeps
<1>4. CASE Start
  <2>1. /\ work' \in [Services -> AllStages] /\ disable' = {}
        /\ \A y \in Services : Waking(y)
    <3>1. Spawn(enable, disable, work) /\ disable = {} /\ work \in [Services -> AllStages]
      BY <1>1, <1>4 DEF Start, OnlyUp, GroupTypes
    <3> QED BY <3>1, SpawnStarts DEF Waking
  <2>2. OnlyUp' BY <1>1, <1>4, <2>1 DEF Start, OnlyUp, target
  <2> QED BY <1>1, <2>1, <2>2, StartKeeps
<1> QED BY <1>2, <1>3, <1>4

LEMMA InitGroups ==
  ASSUME Init
  PROVE  GroupInv
<1>1. GroupTypes BY DEF Init, Idle, GroupTypes, AllStages, Stages
<1>2. OnlyUp BY DEF Init, Idle, OnlyUp
<1>3. \A s \in Plain : Member(s)
  BY DEF Init, Idle, Member, Plain, Provided, At, Walking
<1>4. \A g \in Groups : Group(g)
  BY DEF Init, Idle, Group, Groups, Provided, At, Walking
<1> QED BY <1>1, <1>2, <1>3, <1>4 DEF GroupInv

LEMMA GroupsNext ==
  ASSUME NoneDown, GroupInv, Next
  PROVE  GroupInv' /\ TrueDeclaration
<1>1. GroupInv' /\ \A g \in Groups : listed'[g] = listed[g] \/ Fulfilled(g)
  <2>1. CASE Commit \/ Flatten \/ Start BY <2>1, PlanKeeps
  <2>2. ASSUME NEW g \in Groups, GroupStep(g)
        PROVE  GroupInv' /\ \A h \in Groups : listed'[h] = listed[h] \/ Fulfilled(h)
    BY <2>2, GroupStepKeeps
  <2>3. ASSUME NEW s \in Plain, MemberStep(s)
        PROVE  GroupInv' /\ \A g \in Groups : listed'[g] = listed[g] \/ Fulfilled(g)
    BY <2>3, EnlistKeeps, ToilKeeps DEF MemberStep
  <2> QED BY <2>1, <2>2, <2>3 DEF Next
<1> QED BY <1>1 DEF TrueDeclaration, Provided

LEMMA GroupsStutter ==
  ASSUME GroupInv, UNCHANGED vars
  PROVE  GroupInv'
<1>1. /\ UNCHANGED <<up, listed, goal, disable, target, work>>
      /\ UNCHANGED <<providers, task, member, tally>>
  BY DEF vars, workervars, modstate, queue, threads, walk, examination
<1>2. OnlyUp' BY <1>1 DEF GroupInv, OnlyUp, target
<1>3. work' \in [Services -> AllStages] /\ \A y \in Services : Waking(y)
  BY <1>1 DEF GroupInv, GroupTypes, Waking
<1> QED BY <1>1, <1>2, <1>3, StartKeeps

\* As long as nothing is asked to go down, no group is declared up that does not have what
\* it needs at that moment, although its members come up, fail and are counted one by one
\* (mod_examine_group): what has been counted stays up.
THEOREM DeclaredRight == NoneDown => (Spec => DeclaredWhole)
<1> SUFFICES ASSUME NoneDown PROVE Spec => DeclaredWhole
  OBVIOUS
<1>1. Init => GroupInv BY InitGroups
<1>2. GroupInv /\ [Next]_vars => GroupInv' BY GroupsNext, GroupsStutter
<1>3. GroupInv /\ [Next]_vars => [TrueDeclaration]_providers BY GroupsNext DEF vars
<1> QED BY <1>1, <1>2, <1>3, PTL DEF Spec, DeclaredWhole
=============================================================================
