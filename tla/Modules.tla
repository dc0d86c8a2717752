------------------------------ MODULE Modules ------------------------------
(***************************************************************************)
(* module.c: mod(), the one entry point through which every module is      *)
(* enabled, disabled, zapped, suspended or resumed, and the service-usage  *)
(* table that records who provides and who uses each service.              *)
(*                                                                         *)
(* mod() runs in many threads at once (one per work item of a plan, plus   *)
(* daemon watchers, IPC handlers and timers).  A call holds the module's   *)
(* own mutex from its first to its last step; the usage table has a mutex  *)
(* of its own that each query takes and drops again.  Every step below is  *)
(* what a thread does between two points where another thread can see the  *)
(* difference.                                                             *)
(***************************************************************************)
EXTENDS Naturals

CONSTANTS
  Threads,        \* the threads that call mod()
  Modules,        \* struct lmodule objects on mlist
  Services,       \* names of services
  NoThread,       \* owner of a free mutex
  NoModule,       \* subject of a thread that is not in mod()
  Provides,       \* si->provides
  Requires,       \* si->requires
  CanEnable,      \* modules with an enable() function
  CanDisable,     \* modules with a disable() function
  HasCustom,      \* modules with a custom() function
  Suspendable,    \* modules with suspend, resume, do_suspend and do_resume
  Tasks,          \* the tasks callers ask for
  MaxCalls        \* bound: mod() calls made in one behaviour

TaskNames == {"enable", "force_enable", "disable", "zap", "custom",
              "suspend", "resume"}

ASSUME ModulesAssumption ==
  /\ NoThread \notin Threads
  /\ NoModule \notin Modules
  /\ Provides \in [Modules -> SUBSET Services]
  /\ Requires \in [Modules -> SUBSET Services]
  /\ CanEnable \subseteq Modules
  /\ CanDisable \subseteq Modules
  /\ HasCustom \subseteq Modules
  /\ Suspendable \subseteq Modules
  /\ Tasks \subseteq TaskNames
  /\ MaxCalls \in Nat

Bits == {"ok", "failed", "working", "enabled", "disabled", "suspended"}
Words == {w \in SUBSET Bits : ~({"enabled", "disabled"} \subseteq w)}

\* Steps of mod(), in the order a call goes through them.
Unlocked == {"idle", "lock"}
Stages == Unlocked \cup {"entry", "check", "callback", "update"}

VARIABLES
  status,         \* lmodule.status, as the set of its bits
  mutex,          \* lmodule.mutex: its owner
  listed,         \* services with an item in service_usage
  provider,       \* service_usage_item.provider
  users,          \* service_usage_item.users
  pc,             \* stage of the call each thread is in
  task,           \* its task
  subject,        \* its module
  calls           \* mod() calls made so far (bounded by MaxCalls)

callvars == <<pc, task, subject, calls>>
usage == <<listed, provider, users>>
vars == <<status, mutex, usage, callvars>>

-----------------------------------------------------------------------------
\* The status word.

Toggle(bits, b) == IF b \in bits THEN bits \ {b} ELSE bits \cup {b}

\* A set bit is what mod() looks at; status_idle is the empty word.
IsEnabled(m) == "enabled" \in status[m]
IsDisabled(m) == "disabled" \in status[m]
IsSuspended(m) == "suspended" \in status[m]

\* custom, and enable with einit_module_ignore_dependencies, jump over the
\* dependency checks and over setting status_working.
SkipsChecks(tk) == tk \in {"custom", "zap", "force_enable"}

\* The task was done already, or the module has no function for it.  (For disable
\* the code also compares the word with status_idle, but status_working has been
\* set by then and the comparison never succeeds.)
AlreadyDone(m, tk) ==
  \/ tk = "enable" /\ (m \notin CanEnable \/ IsEnabled(m))
  \/ tk = "disable" /\ (m \notin CanDisable \/ IsDisabled(m))

\* (Mutant: the outcome is or-ed into the old word.)
Outcomes_BitsAdded(m, tk) ==
  IF tk = "disable" THEN {status[m] \cup {"ok", "disabled"}}
                    ELSE {status[m] \cup {"ok", "enabled"}}

\* What enable(), disable() or a custom function that returned can leave in
\* status.  A custom function's return value replaces the whole word, and the
\* loaders return status_ok or status_failed with or without status_enabled; a
\* module without one keeps its enabled or disabled bit and is marked failed.
Outcomes(m, tk) ==
  CASE tk \in {"enable", "force_enable"} ->
         {{"ok", "enabled"}, {"failed", "disabled"}}
    [] tk = "disable" ->
         {{"ok", "disabled"}, {"failed", "enabled"}}
    [] tk = "zap" ->
         {{"disabled"} \cup (status[m] \cap {"failed"})}
    [] tk = "custom" ->
         IF m \in HasCustom
           THEN {{"ok"}, {"failed"}, {"ok", "enabled"}, {"failed", "enabled"}}
           ELSE {(status[m] \cap {"enabled", "disabled"}) \cup {"failed"}}

-----------------------------------------------------------------------------
\* service_usage_query: the questions mod() asks of the table.

\* service_requirements_met
RequirementsMet(m) ==
  \A s \in Requires[m] : s \in listed /\ provider[s] # {}

\* service_not_in_use: m is not the sole provider of a service that has users,
\* all of whom (still) require it.
NotInUse(m) ==
  ~ \E s \in listed : /\ users[s] # {}
                      /\ provider[s] = {m}
                      /\ \A u \in users[s] : s \in Requires[u]

\* (Mutant: an item's users are never recorded.)
ServiceUpdate_NoUsers(m) ==
  LET keep(s) == provider[s] \ {m}
      nprov == [s \in Services |-> IF IsEnabled(m) /\ s \in Provides[m]
                                    THEN provider[s] \cup {m} ELSE keep(s)]
  IN /\ provider' = nprov
     /\ listed' = {s \in Services : nprov[s] # {}}
     /\ UNCHANGED users

\* (Mutant: only a module whose word says disabled is erased.)
ServiceUpdate_KeepsUndecided(m) ==
  LET gone == "disabled" \in status[m]
      nprov == [s \in Services |->
                  IF gone THEN provider[s] \ {m}
                  ELSE IF IsEnabled(m) /\ s \in Provides[m]
                         THEN provider[s] \cup {m} ELSE provider[s]]
  IN /\ provider' = nprov
     /\ listed' = {s \in Services : nprov[s] # {} \/ users[s] # {}}
     /\ UNCHANGED users

\* service_update: record an enabled module, erase any other, and drop the
\* items that have neither providers nor users left.
ServiceUpdate(m) ==
  LET added == IF IsEnabled(m) THEN Provides[m] ELSE {}
      nprov == [s \in Services |->
                  IF IsEnabled(m)
                    THEN IF s \in Provides[m] THEN provider[s] \cup {m}
                                              ELSE provider[s]
                    ELSE provider[s] \ {m}]
      nuser == [s \in Services |->
                  IF IsEnabled(m)
                    THEN IF s \in Requires[m] \cap listed
                           THEN users[s] \cup {m} ELSE users[s]
                    ELSE users[s] \ {m}]
  IN /\ provider' = nprov
     /\ users' = nuser
     /\ listed' = {s \in listed \cup added : nprov[s] # {} \/ nuser[s] # {}}

-----------------------------------------------------------------------------
Init ==
  /\ status = [m \in Modules |-> {}]
  /\ mutex = [m \in Modules |-> NoThread]
  /\ listed = {}
  /\ provider = [s \in Services |-> {}]
  /\ users = [s \in Services |-> {}]
  /\ pc = [t \in Threads |-> "idle"]
  /\ task = [t \in Threads |-> "none"]
  /\ subject = [t \in Threads |-> NoModule]
  /\ calls = 0

At(t, stage) == pc[t] = stage
Goto(t, stage) == pc' = [pc EXCEPT ![t] = stage]
SetStatus(m, bits) == status' = [status EXCEPT ![m] = bits]
Unlock(m) == mutex' = [mutex EXCEPT ![m] = NoThread]

\* The call returns, and its local variables are gone with it.
Done(t) ==
  /\ Goto(t, "idle")
  /\ task' = [task EXCEPT ![t] = "none"]
  /\ subject' = [subject EXCEPT ![t] = NoModule]

\* Most returns drop the module's mutex.
Return(t) == Unlock(subject[t]) /\ Done(t)

\* A caller looks at the status first and asks to disable no idle module.
Asked(m, tk) == tk = "disable" => status[m] # {}

Call(t) ==
  /\ At(t, "idle")
  /\ calls < MaxCalls
  /\ calls' = calls + 1
  /\ \E tk \in Tasks, m \in Modules :
       /\ Asked(m, tk)
       /\ task' = [task EXCEPT ![t] = tk]
       /\ subject' = [subject EXCEPT ![t] = m]
  /\ Goto(t, "lock")
  /\ UNCHANGED <<status, mutex, usage>>

\* Suspension only tries the mutex (a thread may hold it further up its own
\* stack, through an event it emitted); every other task waits for it.
TryLockFails(t) ==
  /\ At(t, "lock")
  /\ task[t] \in {"suspend", "resume"}
  /\ mutex[subject[t]] # NoThread
  /\ Done(t)
  /\ UNCHANGED <<status, mutex, usage, calls>>

\* (Mutant: a custom command does not wait for the mutex.)
Lock_CustomBarges(t) ==
  /\ At(t, "lock")
  /\ mutex[subject[t]] = NoThread \/ task[t] \in {"custom", "zap"}
  /\ mutex' = [mutex EXCEPT ![subject[t]] = t]
  /\ Goto(t, "entry")
  /\ UNCHANGED <<status, usage, task, subject, calls>>

Lock(t) ==
  /\ At(t, "lock")
  /\ mutex[subject[t]] = NoThread
  /\ mutex' = [mutex EXCEPT ![subject[t]] = t]
  /\ Goto(t, "entry")
  /\ UNCHANGED <<status, usage, task, subject, calls>>

\* mod_suspend and mod_resume, with the outcome of the module's callbacks;
\* a failed callback leaves the status alone.
Suspend(t) ==
  LET m == subject[t]
  IN /\ At(t, "entry")
     /\ task[t] = "suspend"
     /\ \/ ~IsSuspended(m) /\ m \in Suspendable
           /\ SetStatus(m, status[m] \cup {"suspended"})
        \/ UNCHANGED status
     /\ Return(t)
     /\ UNCHANGED <<usage, calls>>

Resume(t) ==
  LET m == subject[t]
  IN /\ At(t, "entry")
     /\ task[t] = "resume"
     /\ \/ IsSuspended(m) /\ SetStatus(m, Toggle(status[m], "suspended"))
        \/ UNCHANGED status
     /\ Return(t)
     /\ UNCHANGED <<usage, calls>>

\* Any other task resumes a suspended module first, or gives up.
ResumeFirst(t) ==
  LET m == subject[t]
  IN /\ At(t, "entry")
     /\ task[t] \notin {"suspend", "resume"}
     /\ IsSuspended(m)
     /\ \/ /\ SetStatus(m, Toggle(status[m], "suspended"))
           /\ UNCHANGED <<mutex, pc, task, subject>>
        \/ UNCHANGED status /\ Return(t)
     /\ UNCHANGED <<usage, calls>>

\* (Mutant: custom commands go ahead on a suspended module.)
Admissible_Suspended(t) ==
  /\ At(t, "entry")
  /\ task[t] \notin {"suspend", "resume"}
  /\ ~IsSuspended(subject[t]) \/ SkipsChecks(task[t])

Admissible(t) ==
  /\ At(t, "entry")
  /\ task[t] \notin {"suspend", "resume"}
  /\ ~IsSuspended(subject[t])

SkipDependencies(t) ==
  /\ Admissible(t)
  /\ SkipsChecks(task[t])
  /\ Goto(t, "callback")
  /\ UNCHANGED <<status, mutex, usage, task, subject, calls>>

\* "wontload" before the table was asked: working is set and cleared again.
WontLoad(t) ==
  /\ Admissible(t)
  /\ ~SkipsChecks(task[t])
  /\ AlreadyDone(subject[t], task[t])
  /\ SetStatus(subject[t], Toggle(status[subject[t]] \cup {"working"}, "working"))
  /\ Return(t)
  /\ UNCHANGED <<usage, calls>>

Begin(t) ==
  /\ Admissible(t)
  /\ ~SkipsChecks(task[t])
  /\ ~AlreadyDone(subject[t], task[t])
  /\ SetStatus(subject[t], status[subject[t]] \cup {"working"})
  /\ Goto(t, "check")
  /\ UNCHANGED <<mutex, usage, task, subject, calls>>

DependenciesAllow(m, tk) ==
  IF tk = "enable" THEN RequirementsMet(m) ELSE NotInUse(m)

\* (Mutant: the refused call returns with status_working still set.)
CheckUsage_StaysWorking(t) ==
  LET m == subject[t]
  IN /\ At(t, "check")
     /\ \/ /\ DependenciesAllow(m, task[t])
           /\ Goto(t, "callback")
           /\ UNCHANGED <<mutex, task, subject>>
        \/ ~DependenciesAllow(m, task[t]) /\ Return(t)
     /\ UNCHANGED <<status, usage, calls>>

\* (Mutant: the refused call forgets to unlock the module.)
CheckUsage_KeepsMutex(t) ==
  LET m == subject[t]
  IN /\ At(t, "check")
     /\ \/ /\ DependenciesAllow(m, task[t])
           /\ Goto(t, "callback")
           /\ UNCHANGED <<status, task, subject>>
        \/ /\ ~DependenciesAllow(m, task[t])
           /\ SetStatus(m, Toggle(status[m], "working"))
           /\ Done(t)
     /\ UNCHANGED <<mutex, usage, calls>>

CheckUsage(t) ==
  LET m == subject[t]
  IN /\ At(t, "check")
     /\ \/ /\ DependenciesAllow(m, task[t])
           /\ Goto(t, "callback")
           /\ UNCHANGED <<status, mutex, task, subject>>
        \/ /\ ~DependenciesAllow(m, task[t])
           /\ SetStatus(m, Toggle(status[m], "working"))
           /\ Return(t)
     /\ UNCHANGED <<usage, calls>>

\* The module's enable(), disable() or custom() function returns.
CallbackReturns(t) ==
  /\ At(t, "callback")
  /\ \E bits \in Outcomes(subject[t], task[t]) : SetStatus(subject[t], bits)
  /\ Goto(t, "update")
  /\ UNCHANGED <<mutex, usage, task, subject, calls>>

\* The status events go out first, then the table is brought up to date and the
\* module is unlocked.
UpdateUsage(t) ==
  /\ At(t, "update")
  /\ ServiceUpdate(subject[t])
  /\ Return(t)
  /\ UNCHANGED <<status, calls>>

Step(t) ==
  \/ TryLockFails(t) \/ Lock(t) \/ Suspend(t) \/ Resume(t) \/ ResumeFirst(t)
  \/ SkipDependencies(t) \/ WontLoad(t) \/ Begin(t) \/ CheckUsage(t)
  \/ CallbackReturns(t) \/ UpdateUsage(t)

Next == \E t \in Threads : Call(t) \/ Step(t)

Spec == Init /\ [][Next]_vars

\* Every thread inside mod() keeps running, callbacks return, and a mutex that
\* is released is handed on.
Fairness == \A t \in Threads : WF_vars(Step(t))
FairSpec == Spec /\ Fairness

-----------------------------------------------------------------------------
\* The type of the state; a status word never says enabled and disabled at once.
TypeOK ==
  /\ status \in [Modules -> Words]
  /\ mutex \in [Modules -> Threads \cup {NoThread}]
  /\ listed \in SUBSET Services
  /\ provider \in [Services -> SUBSET Modules]
  /\ users \in [Services -> SUBSET Modules]
  /\ pc \in [Threads -> Stages]
  /\ task \in [Threads -> TaskNames \cup {"none"}]
  /\ subject \in [Threads -> Modules \cup {NoModule}]
  /\ calls \in 0..MaxCalls

InMod(t) == pc[t] \notin Unlocked
InCallback(t) == pc[t] = "callback"

\* At most one thread is between the lock and the unlock of mod() for a given
\* module, whatever mixture of tasks, suspensions and timers calls it: no two
\* callbacks of one module ever overlap.
OneCallPerModule ==
  \A t, u \in Threads :
    (t # u /\ InMod(t) /\ InMod(u)) => subject[t] # subject[u]

\* The usage table agrees with the status words whenever no call on the module
\* is between its callback and service_update: a module is listed as provider
\* of a service exactly when it is enabled, and as a user only of services
\* it requires, while enabled.
UsageMatchesStatus ==
  \A m \in Modules :
    (\A t \in Threads : ~(pc[t] = "update" /\ subject[t] = m)) =>
      /\ \A s \in Services :
           m \in provider[s] <=> IsEnabled(m) /\ s \in Provides[m]
      /\ \A s \in Services : m \in users[s] => IsEnabled(m) /\ s \in Requires[m]

\* "suspended modules that are acted on are always resume()'d automatically":
\* from the checks to the last status update no module function runs while its
\* code may be unloaded.
ActiveNotSuspended ==
  \A t \in Threads : pc[t] \in Stages \ {"idle", "lock", "entry"} =>
                       ~IsSuspended(subject[t])

\* status_working says that someone is working on the module just now: it never
\* outlives the call that set it, on any of the early returns.
WorkingMeansBusy ==
  \A m \in Modules : "working" \in status[m] => mutex[m] # NoThread

\* When calls are made one at a time and none overrides the dependency checks,
\* an enabled module has a provider for everything it requires.
DependenciesHold ==
  \A m \in Modules : \A s \in Requires[m] :
    IsEnabled(m) => provider[s] # {}

\* (Contradicted by a provider that is disabled between the look at the usage table and
\* the call of enable().)  "If one of the requirements can't be fulfilled, then a module
\* that requires them is considered broken, and it will not be started": enable() is running
\* only while each requirement has a provider.
StartedOnlyWhenFulfilled ==
  \A t \in Threads :
    (InCallback(t) /\ task[t] = "enable") => RequirementsMet(subject[t])

\* Every call of mod() comes to its end: no chain of waiting threads blocks for
\* good on the module mutexes.
CallsReturn == \A t \in Threads : pc[t] # "idle" ~> pc[t] = "idle"
=============================================================================
