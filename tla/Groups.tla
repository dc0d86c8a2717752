------------------------------- MODULE Groups -------------------------------
(***************************************************************************)
(* module-logic-v3.c: service groups.  A group has no module of its own: it *)
(* is up when any, most or all of its members are, and the modules of the  *)
(* members count as its providers.  The plan and every examination queue   *)
(* the members that are still wanted; the group's thread counts its        *)
(* members one by one, decides, and looks again after each of a few pings. *)
(* The members are brought up and down by the threads of Workers.          *)
(*                                                                         *)
(* Plans come one after the other here (Plans has the overlapping ones),   *)
(* and what services require is queued by their threads alone.             *)
(***************************************************************************)
EXTENDS Workers, FiniteSets

CONSTANTS
  Alias,          \* for each service its services-alias node: [group, seq]
  Requests,       \* what a plan may ask: [enable, disable]
  MaxPlans,       \* bound: plans
  Pings           \* bound: looks a thread takes at a group (5 in the code)

\* mod_group_get_data: a node without members or without a known seq makes no group.
Groups ==
  {s \in Services : /\ Alias[s].group # << >>
                    /\ Alias[s].seq \in {"any", "any-iop", "most", "all"}}
Members == [g \in Groups |-> Alias[g].group]
Any(g) == Alias[g].seq \in {"any", "any-iop"}
All(g) == Alias[g].seq = "all"

\* A group is listed like a service with one module that needs nothing; every name is one of
\* a service.
ASSUME GroupsAssumption ==
  \A g \in Groups : Requires[g] = << {} >> /\ Members[g] \in Seq(Services)

VARIABLES
  providers,      \* services whose modules the usage table has as a group's providers
  task,           \* task of a group's examination under way
  member,         \* index of the member it looks at next
  tally,          \* what it has counted
  looks,          \* looks left to a group's thread
  plan,           \* "idle", or "flatten" while a plan completes the queue
  plans           \* plans begun

examination == <<task, member, tally, looks>>
planvars == <<plan, plans>>
vars == <<workervars, providers, examination, planvars>>

NoTally ==
  [on |-> 0, failed |-> 0, changed |-> 0, nested |-> 0, from |-> {}, ask |-> "changed"]

MemberSet(g) == {Members[g][i] : i \in DOMAIN Members[g]}
Plain == Services \ Groups

Init ==
  /\ Idle
  /\ up = [s \in Services |-> 0]
  /\ listed = up
  /\ providers = [g \in Groups |-> {}]
  /\ task = [g \in Groups |-> "none"]
  /\ member = [g \in Groups |-> 0]
  /\ tally = [g \in Groups |-> NoTally]
  /\ looks = [g \in Groups |-> 0]
  /\ plan = "idle" /\ plans = 0

-----------------------------------------------------------------------------
\* mod_flatten_current_tb_group: what the task t for group g adds to the queue, what it
\* marks broken and what becomes of the chain of deferrals, member by member.

\* mod_mark (MARK_BROKEN) takes the deferrals of the service out of the chain.
Marked(f, m) == [f EXCEPT !.mark = @ \cup {m}, !.after[m] = {}]

\* mod_defer_until, and a place in the queue for the member.
Awaiting(f, g, m) == [f EXCEPT !.queue = @ \cup {m}, !.after[g] = @ \cup {m}]

\* A member that is already deferred after the group cannot go first and is marked; the next
\* is judged by the chain as it is then.
LookedAt(f, g, m, t) ==
  IF InRightState(m, t) THEN [f EXCEPT !.over = TRUE]
  ELSE IF m \in broken \cup f.mark THEN [f EXCEPT !.lost = @ + 1]
  ELSE IF g \in Reached({m}, f.after) THEN [Marked(f, m) EXCEPT !.lost = @ + 1]
  ELSE [Awaiting(f, g, m) EXCEPT !.over = TRUE]

\* Any: the first member that is in place or can be tried settles it.
\* Most and all: every member that can be tried is; one that cannot breaks a group
\* that needs all of them, and any group if there is no other.
Flattened(g, t) ==
  LET start == [queue |-> {}, mark |-> {}, after |-> after, over |-> FALSE, lost |-> 0]
      look[i \in 0 .. Len(Members[g])] ==
        IF i = 0 THEN start
        ELSE IF Any(g) /\ look[i - 1].over THEN look[i - 1]
        ELSE LookedAt(look[i - 1], g, Members[g][i], t)
      f == look[Len(Members[g])]
  IN IF f.lost = Len(Members[g]) \/ (f.lost > 0 /\ All(g)) THEN Marked(f, g) ELSE f

FlattenGroup(g, t) ==
  LET f == Flattened(g, t)
  IN /\ broken' = broken \cup f.mark
     /\ after' = f.after
     /\ before' = WaitersWith(g, f.queue)
     /\ enable' = IF t = "enable" THEN enable \cup f.queue ELSE enable
     /\ disable' = IF t = "disable" THEN disable \cup f.queue ELSE disable

-----------------------------------------------------------------------------
\* Plans, one at a time.

Commit ==
  /\ plan = "idle" /\ plans < MaxPlans
  /\ Working = {} /\ leaving = {}
  /\ plan' = "flatten" /\ plans' = plans + 1
  /\ \E r \in Requests :
       /\ target_enable' = (target_enable \cup r.enable) \ r.disable
       /\ target_disable' = (target_disable \ r.enable) \cup r.disable
       /\ enable' = {s \in (enable \cup target_enable') \ target_disable' : ~Provided(s)}
       /\ disable' = {s \in (disable \ target_enable') \cup target_disable' : Provided(s)}
  /\ UNCHANGED <<modstate, tbmutex, shutting_down, marks, chains, threads, providers,
                 examination>>

\* The part of mod_flatten_current_tb that is about groups: it goes over the queue
\* until no group adds or marks anything.
Incomplete(t) ==
  {g \in (IF t = "enable" THEN enable ELSE disable) \cap Groups :
     /\ g \notin broken /\ ~InRightState(g, t)
     /\ LET f == Flattened(g, t)
        IN \/ ~(f.queue \subseteq (IF t = "enable" THEN enable ELSE disable))
           \/ ~(f.mark \subseteq broken)}

Flatten ==
  /\ plan = "flatten"
  /\ \E t \in {"enable", "disable"} : \E g \in Incomplete(t) : FlattenGroup(g, t)
  /\ UNCHANGED <<modstate, tbmutex, target, changed, threads, providers, examination,
                 planvars>>

\* mod_commits_inc
Start ==
  /\ plan = "flatten"
  /\ Incomplete("enable") \cup Incomplete("disable") = {}
  /\ plan' = "idle"
  /\ broken' = {} /\ changed' = {}
  /\ Spawn(enable, disable, work)
  /\ UNCHANGED <<modstate, tbmutex, target, walk, leaving, providers, examination, plans>>

-----------------------------------------------------------------------------
\* mod_examine_group by the thread of the group.

\* One that is up already has changed; of any other the members are counted.
Begin(g) ==
  LET t == Task(g)
  IN /\ \/ At(g, "examine") /\ g \notin broken
        \/ At(g, "ping")
     /\ UNCHANGED broken
     /\ IF t = "enable" /\ Provided(g)
          THEN /\ changed' = changed \cup {g}
               /\ PostExamine(g, "judge")
               /\ UNCHANGED <<task, member, tally>>
          ELSE /\ task' = [task EXCEPT ![g] = t]
               /\ member' = [member EXCEPT ![g] = 1]
               /\ tally' = [tally EXCEPT ![g] = NoTally]
               /\ Goto(g, "count")
               /\ UNCHANGED <<changed, before>>
     /\ looks' = [looks EXCEPT ![g] = IF At(g, "examine") THEN Pings + 1 ELSE @]
     /\ UNCHANGED <<modstate, queue, target, after, walk, leaving, providers, planvars>>

\* The modules a member that is up contributes.
ProvidersOf(m) ==
  IF m \in Groups THEN providers[m] ELSE IF up[m] # 0 THEN {m} ELSE {}

\* service_usage_query_group (service_set_group_providers)
SetProviders(g, X) ==
  /\ providers' = [providers EXCEPT ![g] = X]
  /\ listed' = [listed EXCEPT ![g] = IF X = {} THEN 0 ELSE 1]

\* The next member, as it is now: later members, and the answers to the later questions, may
\* change while this one is counted.
Asking(g, q) == At(g, "count") /\ member[g] <= Len(Members[g]) /\ tally[g].ask = q

\* The answer is noted, and another question asked about the member, or the next one's first.
Noted(g, c, q) ==
  /\ tally' = [tally EXCEPT ![g] = [c EXCEPT !.ask = q]]
  /\ member' = [member EXCEPT ![g] = IF q = "changed" THEN @ + 1 ELSE @]
  /\ UNCHANGED <<workervars, providers, task, looks, planvars>>

CountChanged(g) ==
  /\ Asking(g, "changed")
  /\ Noted(g, [tally[g] EXCEPT !.changed = @ + (IF Members[g][member[g]] \in Settled THEN 1 ELSE 0)],
           "failed")

CountFailed(g) ==
  /\ Asking(g, "failed")
  /\ IF Members[g][member[g]] \in broken
       THEN Noted(g, [tally[g] EXCEPT !.failed = @ + 1], "changed")
       ELSE Noted(g, tally[g], "on")

CountOn(g) ==
  LET m == Members[g][member[g]]
  IN /\ Asking(g, "on")
     /\ IF Provided(m)
          THEN Noted(g, [tally[g] EXCEPT !.on = @ + 1, !.from = @ \cup ProvidersOf(m),
                                        !.nested = @ + (IF m \in Groups THEN 1 ELSE 0)],
                     "changed")
          ELSE Noted(g, tally[g], "changed")

Count(g) == CountChanged(g) \/ CountFailed(g) \/ CountOn(g)

Counted(g) == At(g, "count") /\ member[g] > Len(Members[g])

\* (Mutant: a group that needs all its members is content with one.)
Suffices_One(g, c) == c.on > 0

\* (Mutant: one more member than there are is asked for.)
Suffices_More(g, c) == c.on > Len(Members[g])

Suffices(g, c) ==
  LET all == Len(Members[g])
  IN /\ c.on > 0
     /\ \/ Any(g)
        \/ All(g) /\ c.on >= all
        \/ ~Any(g) /\ ~All(g) /\ (c.on + c.failed >= all \/ c.changed >= all)

Fails(g, c) ==
  IF c.on = 0 THEN c.failed >= Len(Members[g]) \/ c.changed >= Len(Members[g])
              ELSE All(g) /\ c.failed > 0 /\ ~Suffices(g, c)

\* To be brought up: it is up, broken, or its members are queued once more.
DecideUp(g) ==
  LET c == tally[g]
  IN /\ Counted(g) /\ task[g] = "enable"
     /\ \/ /\ Suffices(g, c)
           /\ enable' = enable \ {g} /\ disable' = disable \ {g}
           /\ changed' = changed \cup {g}
           /\ SetProviders(g, c.from)
           /\ UNCHANGED <<broken, after>>
           /\ PostExamine(g, "judge")
        \/ /\ ~Suffices(g, c) /\ Fails(g, c)
           /\ broken' = broken \cup {g}
           /\ after' = [after EXCEPT ![g] = {}]
           /\ Goto(g, "judge")
           /\ UNCHANGED <<enable, disable, changed, providers, listed, before>>
        \/ /\ ~Suffices(g, c) /\ ~Fails(g, c)
           /\ FlattenGroup(g, "enable")
           /\ Goto(g, "judge")
           /\ UNCHANGED <<changed, providers, listed>>
     /\ UNCHANGED <<up, head, tbmutex, target, walk, leaving, examination, planvars>>

\* A group to go down is done with when no member is up or all have changed - or
\* those left are groups themselves.
Gone(c, all) == c.on = 0 \/ c.changed >= all \/ c.on = c.nested

\* What has made its name unprovided is the end of its last provider; the members
\* left are queued again in any case.
DecideDown(g) ==
  LET gone == Gone(tally[g], Len(Members[g]))
      f == Flattened(g, "disable")
  IN /\ Counted(g) /\ task[g] = "disable"
     /\ changed' = IF gone THEN changed \cup {g} ELSE changed
     /\ broken' = broken \cup f.mark
     /\ after' = f.after
     /\ enable' = IF gone /\ Provided(g) THEN enable \ {g} ELSE enable
     /\ disable' = (IF gone /\ Provided(g) THEN disable \ {g} ELSE disable) \cup f.queue
     /\ LET bf == WaitersWith(g, f.queue)
        IN IF gone THEN Create(bf[g], Moved(work, g, "judge"), [bf EXCEPT ![g] = {}])
                   ELSE Goto(g, "judge") /\ before' = bf
     /\ UNCHANGED <<modstate, tbmutex, target, walk, leaving, providers, examination,
                    planvars>>

-----------------------------------------------------------------------------
\* mod_examine, for a group.

\* After the first look it is enough that the group has changed; later on the thread
\* also ends when it is broken or its looks are used up.  Whatever the group waits
\* for gets a thread before the next look.
Judge(g) ==
  LET initial == looks[g] = Pings + 1
      over == IF initial THEN g \in changed
              ELSE looks[g] = 1 \/ g \in broken \/ (g \in changed /\ ~Deferred(g))
  IN /\ At(g, "judge")
     /\ UNCHANGED marks
     /\ looks' = [looks EXCEPT ![g] = IF over THEN 0 ELSE @ - 1]
     /\ IF over \/ initial
          THEN Goto(g, IF over THEN "leave" ELSE "ping") /\ UNCHANGED before
          ELSE Create(after[g], Moved(work, g, "ping"), before)
     /\ UNCHANGED <<modstate, queue, target, after, walk, leaving, providers, task, member,
                    tally, planvars>>

\* The thread of a group that is broken, and the end of any.
Depart(g) ==
  /\ Abandon(g) \/ Clear(g) \/ End(g)
  /\ UNCHANGED <<providers, examination, planvars>>

-----------------------------------------------------------------------------
\* The members' threads.  A module that goes down is taken off the providers of
\* the groups it stood for, too (service_update).

Left(s) == [g \in Groups |-> IF up[s] = 0 THEN providers[g] \ {s} ELSE providers[g]]

Enlist(s) ==
  /\ At(s, "update")
  /\ providers' = Left(s)
  /\ listed' = [x \in Services |->
                  IF x = s THEN up[s]
                  ELSE IF x \in Groups /\ Left(s)[x] = {} THEN 0 ELSE listed[x]]
  /\ Goto(s, IF (up[s] # 0) = (goal[s] = "enable") THEN "post" ELSE "next")
  /\ UNCHANGED <<up, head, queue, target, marks, chains, walk, leaving, examination, planvars>>

Toil(s) ==
  /\ \/ Abandon(s) \/ Clear(s) \/ Examine(s) \/ GiveUp(s) \/ Decide(s)
     \/ ApplyEnable(s) \/ ApplyDisable(s) \/ EnableRequirements(s)
     \/ DeferAfterRequirements(s) \/ DisableUsers(s) \/ PreExamine(s)
     \/ Call(s) \/ Run(s) \/ NextCandidate(s) \/ MarkBroken(s) \/ Finish(s) \/ End(s)
  /\ UNCHANGED <<providers, examination, planvars>>

GroupStep(g) ==
  Begin(g) \/ Count(g) \/ DecideUp(g) \/ DecideDown(g) \/ Judge(g) \/ Depart(g)

MemberStep(s) == Enlist(s) \/ Toil(s)

Next ==
  \/ Commit \/ Flatten \/ Start
  \/ \E g \in Groups : GroupStep(g)
  \/ \E s \in Plain : MemberStep(s)

Spec == Init /\ [][Next]_vars

\* Threads run on, and a plan that has begun is worked on.
Fairness ==
  /\ WF_vars(Flatten) /\ WF_vars(Start)
  /\ \A g \in Groups : WF_vars(GroupStep(g))
  /\ \A s \in Plain : WF_vars(MemberStep(s))

FairSpec == Spec /\ Fairness

-----------------------------------------------------------------------------
\* Every variable holds a value of its kind; the usage table has a group as provided
\* just when it has providers for it.
TypeOK ==
  /\ enable \cup disable \cup broken \cup changed \subseteq Services
  /\ work \in [Services -> Stages \cup {"count", "judge", "ping"}]
  /\ providers \in [Groups -> SUBSET Plain]
  /\ \A g \in Groups : Provided(g) <=> providers[g] # {}
  /\ task \in [Groups -> {"none", "enable", "disable"}]
  /\ \A g \in Groups : member[g] \in 0 .. Len(Members[g]) + 1
  /\ looks \in [Groups -> 0 .. Pings + 1]
  /\ plan \in {"idle", "flatten"} /\ plans \in 0 .. MaxPlans

\* What a group needs to be up.
Fulfilled(g) ==
  LET have == {m \in MemberSet(g) : Provided(m)}
  IN IF All(g) THEN have = MemberSet(g) ELSE have # {}

\* Although its members come and go while they are counted one by one, no group is
\* declared up that does not have what it needs at that moment (mod_examine_group).
TrueDeclaration ==
  \A g \in Groups : ~Provided(g) /\ Provided(g)' => Fulfilled(g)

\* A group is in the usage table just when it has providers, so that it is declared up by a
\* step that changes them (service_usage_query_group).
DeclaredWhole == [][TrueDeclaration]_providers

\* A group that is queued comes up or breaks: the few looks its thread takes, the
\* restart of the queue by the last thread, and the marks of its members together
\* leave none waiting for ever.
GroupsSettle ==
  \A g \in Groups :
    g \in enable /\ plan = "idle" ~> Provided(g) \/ g \in broken \/ g \notin enable

\* (Contradicted by the time between a module's event and its entry in the usage
\* table.)  No group breaks whose members do not: "in general the group is considered
\* good if one of them ran fine" (einit-concepts).
GroupsBreakOnlyByMembers == \A g \in Groups \cap broken : MemberSet(g) \cap broken # {}

\* (Contradicted when one member is disabled by itself.)
\* "All" means that unless every single one of the services is enabled, the group is
\* not (einit-concepts).
AllMeansAll ==
  \A g \in Groups : All(g) /\ Provided(g) => Fulfilled(g)

\* (Contradicted by an "any" group whose first member is down already.)
\* A group that is queued to go down goes down ("just to make sure everything will
\* actually be enabled/disabled").
GroupsGoDown ==
  \A g \in Groups :
    g \in disable /\ plan = "idle" ~> ~Provided(g) \/ g \in broken \/ g \notin disable
=============================================================================
