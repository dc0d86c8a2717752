# A verification of eINIT

eINIT is an init system: process 1 forks a worker; the worker reads a
configuration, loads modules that provide services to each other, and brings
services up and down when a mode is switched or somebody asks. It does so with
threads: one per event, one per plan, one per service being worked on, one per
death of a process, one per connection, all over a few dozen mutexes. This
directory holds TLA+ models of that machinery, configurations to check them with
TLC, and proofs for TLAPS. Paths below are relative to `src/trunk/einit/src`.

## The system and what is modelled

| Part | State it keeps | Operations | Modelled by |
|---|---|---|---|
| Module manager (`module.c`) | status word and mutex of each module, service-usage table | `mod()` with every task, `service_usage_query` | `Modules` |
| Module logic, work threads (`modules/module-logic-v3.c`) | queue `current`, target state, broken and changed services, deferral chains, thread list, service list | `mod_examine`, `mod_apply_enable`, `mod_apply_disable`, `mod_defer_until`, `mod_post_examine`, `mod_workthreads_dec` | `Workers` |
| the same, plans | plans in progress, `ml_commits`, `current_switches`, list revision | `mod_switchmode`, `mod_plan_commit`, `mod_flatten_current_tb`, `mod_commits_inc/dec`, `mod_commit_and_wait`, list update | `Plans` |
| the same, groups | providers of groups | `mod_examine_group`, `mod_flatten_current_tb_group` | `Groups` |
| the same, loose order | deferrals for "before" and "after" | `mod_reorder`, `mod_spawn_batch` | `Ordering` |
| the same, preferences | service list, preferred modules | the sort, the walks over the candidates | `Preferences` |
| the same, modes | plan under construction | `mod_plan`, `mod_modaction` | `Planning` |
| Daemons (`modules/exec.c`) | control blocks with pid, mutex and timer, list `running` | `start_daemon_f`, `stop_daemon_f`, `dexec_watcher`, `dexec_resume_timer` | `Daemons` |
| Reaping (`modules/scheduler.c`) | watched processes `cpids`, semaphore | `__sched_watch_pid`, SIGCHLD, `sched_run_sigchild` | `Reaping`, `Daemons` |
| Timers (`modules/scheduler.c`) | list of ticks, alarm | `sched_timer_event_handler_set`, `sched_handle_timers` | `Timers` |
| Events and suspension (`event.c`, `einit-core.c`) | listeners, wake-ups, snooze time, use counts | `event_emit`, `event_ignore`, `event_wakeup`, `core_timer_event_handler`, `mod_suspend` | `Suspension` |
| Supervisor (`einit-core.c`, `last-rites.c`) | pid of the worker, recovery flag, crash counter, pipe | fork, wait, respawn, run last-rites | `Supervisor` |
| Terminals (`modules/tty.c`, utmp) | list of gettys, utmp records | mode update, fork, watcher | `Terminals` |
| Commands and shell modules (`exec.c`, `module-xml.c`, `shadow-exec.c`) | child, pipe, pid file, shadows of the mode | `pexec_f`, the actions of a shell module | `Actions` |
| Mounting (`modules/mount.c`, `linux-mount.c`) | devices by file and mountpoint, flags, hooks | `emount`, `eumount`, reading of `/proc/mounts`, scan of the modules | `Mounts` |
| Network (`modules/module-network.c`) | controllers and IP managers of interfaces | enable, disable, block, renew, rescan | `Network` |
| Devices (`modules/linux/*`) | device manager, hotplug socket, groups of kernel modules | boot event, listener, rules, firmware | `Devices` |
| Configuration (`bootstrap-configuration-*.c`, `ipc-configuration.c`) | tree of nodes, files read, open mode | reading, includes, updates, changes at run time | `Configuration` |
| Transformations, checkpoints (`module-transformations.c`, `module-checkpoint.c`) | trees of rules, lists of every module | update of the rules, update of a module | `Transformations` |
| Texts (`utility.c`, `set-lowmem.c`) | none | `apply_variables`, `str2set`, `set2str` | `Texts` |
| Log (`modules/log.c`) | buffer, two mutexes | add, flush, clear | `Log` |
| Feedback (`feedback-visual-textual.c`) | queue, flag of the worker, streams | queue a command, worker, unregister | `Feedback` |
| IPC (`modules/ipc.c`) | listener, connections | accept, read, chain, reply | `Ipc` |
| initctl (`compatibility-sysv-initctl.c`) | FIFO, thread | serve, shut down | `Initctl` |

How they interact. IPC handlers, initctl, the main program and modules emit
events; a handler in module-logic turns them into plans. Plans put services into
the queue; work threads take them from it and call `mod()`; `mod()` calls the
function of the module, which may be a mount, a network script, a shell command
or, for a daemon, `start_daemon_f` and `stop_daemon_f`; a `service_update` event
and the usage table carry the outcome back to the module logic. The scheduler
reaps daemons and gettys and emits `einit_process_died`; the watchers restart
them or call `mod()`. Process 1 reaps what the worker does not, and the worker
itself. So the shared state is: status words and usage table (between `Modules`
and `Workers`), queue and target state (between `Plans`, `Groups`, `Ordering`
and `Workers`), control blocks (between `mod()` and the watcher), the mutex of a
module (between plans, timers and wake-ups).

What is hard: checks made under one mutex and used under none; the deferral
chains of services that wait for each other; overlapping plans with contrary
wishes; wake-ups that come too early; the end of a plan, which is inferred from
what is queued; deaths that race with stops, timers and entries in lists; groups
that are counted while their members change; lists that are rotated, sorted and
rebuilt while others walk them; flags and lists that are read without a lock.
The list `hazards` of `PROJECT.json` names them line by line with the properties
that cover them.

## Modules

- **`Modules`** follows a call of `mod()` from its first mutex to its last. A
  status word is the set of its bits; `status`, `mutex`, `pc` are the module's
  word, its mutex and the point each calling thread has reached. The steps are
  `Call`, `Lock` (wait, or give up for suspend and resume), `Suspend`/`Resume`/
  `Begin` (the part before the function), `CheckUsage` (the question to the
  usage table, answered under its mutex and used without), `CallbackReturns`
  (the outcome replaces or changes the word) and `UpdateUsage` with the unlock.
- **`Workers`** has one thread per service. `work[s]` is the stage of the thread
  of `s`; `enable`, `disable` are the queue, `after` and `before` the two
  deferral chains, `changed` and `broken` the marks, `head` the first candidate
  in the service list, `up` and `listed` the enabled candidate and the one in
  the usage table (they differ between the function's return and the update of
  the table). `mod()` is taken in the shape `Modules` gives it: a check
  (`Call`), a return of the function that emits the event (`Run`) and the
  update of the table (`Update`). `Plans`, `Groups` and `Ordering` extend it.
- **`Plans`** adds the threads that commit plans. `pc[p]` is the stage; `Cross`,
  `Flatten`, `Count`, `StartWork`, `Look`, `Judge`, `Stall`, `Abort`, `Uncount`,
  `Cleanup` are `mod_plan_commit` and what it calls, one step per critical
  section.
- **`Groups`** adds services that stand for others. The thread of a group counts
  its members one by one, with a step for each of the three questions it asks
  about a member (`Count`), then decides (`DecideUp`, `DecideDown`) and looks
  again after each ping; the members' threads are those of `Workers`. The plan
  judges each member by the chain of deferrals the one before has left
  (`Flattened`).
- **`Ordering`** adds `mod_reorder`, for every queued service before any thread
  starts and once more in each thread.
- **`Preferences`** has the sort of the candidates in its four passes and the
  walks, up and down, that rotate the same lists. `goals` is the target state;
  a module counts as requested when it is in either half of it, as
  `mod_is_requested` answers.
- **`Planning`** gathers a mode and its bases with an explicit stack (`Descend`,
  `FinishMode` are the recursion of `mod_plan`), spells out "all", and hands the
  plan over.
- **`Daemons`** models one module whose function is a daemon. A control block,
  its process and its watcher share a number. `cb` is `dx->cb`, which every
  step of a stop reads anew, as the code does; following it when it is null is
  the step `Crash`. `Await` is the lock of a mutex the thread holds itself and
  somebody else will unlock. A stop ends with the test that the daemon is down
  (`Disabled`); where that fails `mod()` leaves the module enabled. The watcher
  decides in steps (`TryLock`, `Nicely`, `Decide`, `Forget`), one for each lock
  and each look at `dx->cb`.
- **`Reaping`** is the abstract scheduler: fork, die, watch, report. `Daemons`
  implements it (refinement mapping `Deaths`: a zombie and a reaped process are
  dead, what has left `cpids` has been reported), with its fairness;
  **`Terminals`** is built on it by `INSTANCE`.
- **`Timers`** and, extending it, **`Suspension`**: the list of ticks is read,
  changed and written back in separate steps, the alarm is armed by whoever
  looked last; a module nobody uses leaves a wake-up and leaves the list
  of listeners, in either order, and is unloaded, while events are on their way. The
  loader may fail to unload it, and then it is neither listening nor suspended
  (`deaf`), or to load it again.
- **`Supervisor`**: process 1 (`init`), the worker's stage, its image, the pipe,
  last-rites with its loop of kill and unmount.
- **`Actions`**: one child per module, writing lines into a pipe that another
  process may hold open; `pexec` polls, reads and waits as the code orders it.
- **`Mounts`**: a mountpoint is the sequence of names of its path, so that what
  is below what is a matter of prefixes, as in the code. Calls of `eumount` for
  what is mounted below are a stack.
- **`Network`**: a bridge enables and disables its ports one by one, each by a
  call of `mod()` whose result it does not always look at.
- **`Devices`**: a message the kernel sends before the listener has bound its
  socket, or while that is full, is `missed`; a file that `mknod` refuses twice
  is `refused`. The coldplug pass writes to the devices one by one.
- **`Configuration`**: files may be put in place after the start (`Edit`), be
  read anew (`Update`) or be named in "update configuration" (`UpdateWith`,
  whose nodes come before all others).
- **`Log`** and **`Initctl`** take every lock, look and system call of the flush
  and of the shutdown as a step of its own.
- **`Transformations`**, **`Texts`**, **`Feedback`**, **`Ipc`**: see the heads of
  the modules.
- **`MCModules`**, **`MCPlans`**, **`MCLogic`**,
  **`MCServices`**, **`MCBoot`**, **`MCGroups`**, **`MCIpc`** give values to
  constants. `MCLogic`, `MCServices` and `MCBoot` put several components into
  one run: the variable `scene` says which of them takes the steps, the others
  keep an initial state. A scene is checked exactly as it would be by itself;
  nothing is composed. A component the run's module `EXTENDS` (`Groups`,
  `Planning` and `Preferences`; `Feedback`; `Suspension`, `Mounts`, `Network`,
  `Devices` and `Transformations`) gets its constants from the configuration,
  and its properties are checked as they stand; the others are instances.
- **`ModulesProofs`**, **`PlansProofs`**, **`GroupsProofs`**,
  **`OrderingProofs`**, **`DaemonsProofs`**, **`FeedbackProofs`** hold the
  theorems about the component of their name; **`LogicProofs`** those about
  `Planning`, `Preferences` and `Transformations` (what becomes of lists of
  names), **`BootProofs`** those about `Suspension`, `Devices`, `Network` and
  `Mounts` (what `MCBoot` checks).

Definitions of the form `Lock_CustomBarges` are mutants: bugs that could have
been made there. Every property of a passing run has one that breaks it.

Where the models are coarser than the code:

- A chain of nested critical sections is one step when no other thread could
  tell; deadlock by lock order is therefore outside these models (hazard at
  `modules/module-logic-v3.c:753`).
- In `Workers`: `mod_post_examine` copies the list of waiting services and
  deletes it in one step, so that a service deferred between the two is not
  seen (`modules/module-logic-v3.c:2830`); and services are asked for by their
  names, not by the rid of a module, for which `mod_isprovided` would look at
  the status word of the module as well (`:2395`).
- In `Plans` services have no groups and no loose order; the new service list
  resets `head` only for services nobody is walking; the decrement of the thread
  count and the restart of the queue by the last thread are one step. `Groups`
  takes plans one after the other.
- In `Preferences` the merge of a plan (`:756`-783) is one step, and so is the
  sort of the whole list after it, with what is counted on the way (`:3965`-3978);
  modules require nothing, there are no groups, no deferrals, and candidates are
  zapped at any time instead of at a shutdown (`:3244`-3271). Threads may begin as
  soon as a name is queued, before the sort as well as after it.
- In `Daemons`: pids are not reused, daemons that fork away and are followed by
  their pidfile are left out, and `mod()` is its lock and its early returns.
- In `Configuration` files are changed and put in place, but none is removed.
- Scripts, system calls and regular expressions are choices over their outcomes.

## Runs

| Run | What it shows | States |
|---|---|---|
| `modules_threads` | Two callers, all tasks, a provider and a user: calls exclude each other (`OneCallPerModule`), the usage table mirrors the status words (`UsageMatchesStatus`), no function runs in a suspended module (`ActiveNotSuspended`), the working bit never outlives its call (`WorkingMeansBusy`), every call returns (`CallsReturn`). | 25 thousand |
| `modules_sequential` | One caller, two providers: every enabled module stays supplied (`DependenciesHold`). | 7 thousand |
| `plans_together` | Two plans with contrary wishes, by switch or request, one update of the list: nothing stays queued with nobody at work (`NothingStranded`), a plan that ends has what it asked for unless another opposes it (`PlanDelivers`), the target state is unambiguous (`TargetDisjoint`), the count of plans exact (`CommitsCounted`), one switch per mode (`OneSwitchPerMode`), nothing comes up or down that nobody asked for (`OnlyWhatWasAsked`). | 1.61 million |
| `plans_answers` | Every plan is answered (`PlansReturn`). Either both services it is about may fail, and the stall timeout may come or not, or two services need each other, with another way out that only the stall timeout finds. | 82 thousand |
| `daemons_supervised` | No watched death is missed (`DeathPending`), each watcher finds its block (`FoundOnList`), a stop returns (`StopReturns`; unless the watcher of an earlier daemon takes the control block from under it), a module does not stay enabled without its daemon (`StatusFollowsDaemon`; unless a restart, the test that the daemon is down, or the stop of a module in use has failed), the scheduler implements `Reaping` (`DeathsReported`). | 65 thousand |
| `logic` | Scenes `groups` and `once`: a group declared up has what it needs at that moment (`DeclaredWhole`), a queued group comes up or breaks (`WorkEnds`). `ordering`: nothing overtakes what it goes after (`AfterKept`), the threads end. `preferences`: who asks for a service and one of its modules gets no module nobody has spoken of (`ChosenFirst`), by threads that begin after the sort and until a module asked for has failed. `planning`: a plan wants what every base wants, "all" reaches everything (`PlanComplete`). | 238 thousand |
| `services` | `supervisor`: there is a worker again or the machine goes down, and it recovers first (`WorkerComesBack`). `terminals`: a lasting getty comes back, none runs unseen (`GettyComesBack`). `initctl`, `log`, `actions`, `ipc` and the last rites: what was begun ends (`ServicesEnd`), except an initctl thread that begins while it is being looked for, or whose FIFO cannot be removed. `feedback`: nothing is drawn to a closed stream (`StreamsOpen`). | 97 thousand |
| `boot` | `mounts`: no mountpoint is mounted over one below it (`NotHidden`). `network`: the IP manager that runs on an interface is the one in front (`FrontRuns`). `devices`: for every device whose messages were not lost edev has tried to make the file, or is about to, and drivers come first (`DevicesReady`). `texts`: variables are replaced once, and a text that is taken apart into a set and put together again is the same text (`TextsKept`; not the other way round, an empty last string is lost). `configuration`: what local.xml gives to a variable, without an id, is found, whatever the other files give, as long as none was put in place or named in an update since the start (`LocalWins`, the one half of `ConfigurationTaken`). `transformations`: no requirement is lost (`RequirementsKept`), and an update by the same rules changes nothing (`Settled`, the other half). `suspension`: no tick is forgotten (`TickPending`), while the loader does not fail every event reaches every module, asleep or not, that nobody else has in hand (`EventsReach`). | 888 thousand |
| `daemons_orphan` | "if we're already deactivating this daemon, resume the original function" | violated: a daemon is restarted for a disabled module |
| `plans_flatten` | completing the queue ends | violated: endless loop under two mutexes |
| `groups_members` | "the group is considered good if one of them ran fine" | violated: broken between the event of its members and their entry in the table |
| `ipc_replies` | "the output of that is redirected to the client" | violated: a reply goes to another client |

### Bounds

- `MaxCalls` calls of `mod()` in all (3 to 7): a race needs two calls at work on
  one module and its neighbour and one that went before to set the stage.
- Two plans, two or three services with a chain of requirements (`Pair`), an
  alternative (`Alternatives`), or a cycle with a way out of it (`WayOut`): the
  module logic keeps only pairwise relations between services, and `ml_commits`
  distinguishes none, one and more plans. In `plans_together` the two plans are
  interchangeable (`Symmetric`; the run has no liveness), and the list is updated
  only while nothing is to go down (`Bounded`), which halves the states; an
  update does the same whatever is queued.
- Two control blocks: the dead daemon's and the next one's. The watcher and the
  stop interfere in pairs. At the bound a restart fails, which the code must
  cope with anyway.
- A group of two members: any, most and all differ from two members on in the
  cases the code distinguishes except "most" of three; `Pings` = 1 further look
  of the five.
- Two crashes of the worker with a threshold of one, so that the debugger image
  is reached; two gettys and updates in two threads; two connections; two
  messages by two speakers; a client that follows the boot and one module that
  says something.
- `boot`: two mountpoints one below the other, three interfaces of which one is
  a bridge over another, one device at boot and one that comes later, whose
  file may be refused (`Stubborn`), texts of six characters (a variable of one
  letter with room for a nested one), files with a few tags, of which one is not
  there at first (`Late`), three changes of them (`MaxClock`) and two starts, two
  modules with six rules, three moments, two events and a module the loader may
  fail on (`Fragile`). `Clean`, `Write` and the like are
  enabled throughout; the counters (`MaxRequests`, `MaxEvents`, ...) only end
  the behaviour.

`CHECK_DEADLOCK FALSE` wherever a bound is used up or the machine goes down.

### Fairness

Threads are scheduled and mutexes are not held for ever by a thread that can go
on: weak fairness for every thread, nothing for those who ask. Functions of
modules return. `CriticalDevicesOk` happens. In `Plans` the stall timeout is
strongly fair: the wait is entered again and again, and the code counts ten
seconds without a call at work, which a wait that goes on for ever does see.
`AnswerSpec` of `MCPlans` takes this for granted only where two services need
each other: a plan whose modules fail must be answered without. In
`Daemons`: timers run out, and a process that got SIGKILL dies; a process that
got SIGTERM need not. In `Terminals` a getty need not end, even when told to. In
`Actions` a command exits. In `Ipc` a client hangs up once it has its reply. In
`MCServices` fairness is stated for choices of one thread of each scene at a
time; as a behaviour stays in its scene, this is fairness towards each of them.

## Proofs

Every theorem is about a component's specification without its fairness, for
every value of the constants its assumption allows; the assumptions
(`...Assumption` in the component's module) are evaluated by the runs.

`ModulesProofs` (any threads, modules, services, requirements; the assumptions
are the types of the constants): `TypeCorrect`, `CallsExclusive`,
`ResumedBeforeUse`, `WorkingIsLocked`, `UsageConsistent` follow from the
inductive invariant `ModInv`. None of the properties is inductive alone. That
calls exclude each other needs that a thread past `Lock` owns the mutex of its
subject; that no function runs in a suspended module needs that only the owner
of the mutex suspends; that the table follows the status words needs that only
the owner of a mutex changes the word (`UsageMatchesStatus` speaks of modules
with no update due), that an entry is marked by its check, and that the table
lists only services somebody provides. `ModInv` is the conjunction of these
parts; each has a lemma of its own and one proof step per action.
`SequentialDependencies` is about one caller: its invariant adds that a call
past its check still has what the check promised, which two callers break.

`PlansProofs`, first part: `TargetUnambiguous` (only `Cross` writes the target
state, and merging a request that does not contradict itself keeps the two sets
apart), `CommitsExact` (the count equals the number of plans between `Count` and
`Uncount`; needs that the set of plans is finite), `SwitchesExclusive` (with
the strengthening `Listed`: a plan that switches is on the list, and only it
takes its mode off). One frame lemma says that no step of a work thread touches
the plans.

Second part: `OnlyAskedHappens`. A work thread does not know who asked: one that
finds its service queued nowhere enables it, or disables it in a shutdown. So
what it does is what somebody asked for only because of what it is given to
work on, and the invariant `AskedInv` follows a service from the request to the
return of its function: the queue and the target state hold what was asked for
or follows from it (`QueueAsked`; `WantedUp` and `WantedDown` are closed under
requirements and only grow); a thread that nobody wants to enable its service
began while it was provided, and so did whatever waits for it on the chains
(`UpFor`, `DownFor`); and a thread is right about its own module until it has
updated the table (`RecordOf`), since no other thread changes it. There is a
lemma for every action of a thread; a frame lemma (`OthersKept`) carries what
is known of all the others. `PlansTypes` is type correctness.

Third part: what a boot delivers. In a boot (`Boots`) no module fails, nobody
asks for anything to go down, the stall timeout does not strike, and every
service has a module and does not need itself, by whatever chain (any candidate
of a service counts towards what it needs). Any number of plans may overlap, and
the list of modules may be updated meanwhile. `NobodyLeftBehind`: once no thread
works and no plan is about to start any, nothing that is queued is unprovided.
`BootsDeliver`: a plan that is over has brought up all it was asked for.
`NothingBreaks`: no service is marked broken. The invariant `BootInv` says why,
on top of `AskedInv`: a service is deferred only after what it needs, so that no
deferral is mistaken for a circle (`NoCircle`); `mod()` is called only with the
requirements met, and what is up stays up (`Upward`); a service leaves the queue
only when it is up (`Delivered`); and the thread that takes the count of
threads to zero finds all that is queued up, or starts it again (`NobodyLeft`).
Outside of boots these are not theorems, see below.

`GroupsProofs` (any groups, groups of groups and circles of groups included, any
plans, any modules of which any may fail): `DeclaredRight`, that a group is
declared up only with what it needs, as long as nothing is asked to go down
(`NoneDown`). The members are counted one by one while their threads run, so
what has been counted must still be so when the last has been: `GroupInv` says
that the tally of a group is right at every moment of the count (`Group`), since
a thread walks the modules of a service only while it is not provided, and so
nothing that is up leaves the usage table (`Member`).

`OrderingProofs` (any services, any wishes to go before and after each other,
circles included, any number of modules of which any may fail, at a boot as at a
shutdown): `LooseOrderKept`, that no module is called while a service it goes
after is still to come, for modules that require nothing (`Undemanding`). A
thread gets to its module only past a `mod_reorder` of its own; `OrderInv` says
that from then on each service the module goes after has left the queue, has
been dealt with, is in a circle with it, or is one whose deferral the thread
has yet to enter (`Seen`). That a circle found in the chains is one of the
wishes needs that the chains hold nothing else (`Loosely`), which is where
requirements come in.

`LogicProofs`, on modes: `PlansComplete`, that a mode's plan has what every mode
it rests on wants and that "all" reaches everything. The calls of `mod_plan`
that are still under way are what makes it an invariant: a base one of them has
passed is used or is the call right above it (`WalkInv`); and until a plan is
merged either a word for everything is on its list of what goes down or what it
stands for is (`WipeInv`), although the word is spelled out at the end of every
mode, more is added after that, and services come up meanwhile. The assumption
is that no service is called "all" or "all-but-feedback". Nothing is assumed of
how modes are based on each other.

`LogicProofs`, on preferences: `RequestedFirst`, that who asks for a service and
one of its modules gets, from a thread that begins after the plan has sorted the
lists, no module that no plan has named, until a module asked for has failed.
"Named" includes modules that are to go down, since `mod_is_requested` does not
ask what for; that the module is one to be enabled is contradicted
(`WantedFirst`). The candidates of a service are listed in one order, and one
function sorts them while others rotate them, so the invariant `PrefInv` says
where each requested module is: the modules asked for are in front of the list,
with none but requested ones between them, and a walk that has gone past them
has found one that failed (`Fronted`, `WalkPlaces`). The four passes of the sort are loops over a list that they change. The model has each
pass as a function of the number of its rounds, and what a loop keeps is shown
by induction over that number (`Upward`, `Rounds`, `Loop`), so that the lemmas
on passes (`FrontPass`, `BackPass`, `PreferPass`) speak of one round only. It is
assumed that a `services-prefer` node names no module twice: the second mention
would move the null that ends the list
(`modules/module-logic-v3.c:922`-933).

`LogicProofs`, on transformations: `NothingForgotten`, that what a module
requires stays required, for any rules, aliases and overrides that do not speak
of it, while the configuration changes under the threads that walk through the
rules. The property is inductive with the types; what it rests on is the
rewriting of a list by rules (`Rewritten`, again by induction over the rounds):
a name that no rule matches is in the list that comes out. A rule without an
`out` would delete a name; the schema (`einit.rnc:281`-286) has none.

`DaemonsProofs` (any number of control blocks and calls; the assumption is that
the two names for the manager and for nobody are not numbers of blocks):
`TypeCorrect`, `WatcherFindsBlock` and `NoDeathMissed`. `NoDeathMissed` is
inductive by itself: a death and `__sched_watch_pid` both post, and only a
scheduler that sees no dead process rests. `WatcherFindsBlock` is not: a block
goes through three hands, and `Handed` says what each may rely on. A starting
thread holds a block nobody else has and nobody watches; what is watched is on
the list and not reaped; what is reaped stays on the list until its watcher
takes it off. The order fork, list, watch in `start_daemon_f` is what the proof
uses, and it breaks if the last two are swapped. `TypeCorrect` needs in
addition that a stop in `pthread_mutex_lock` waits for a block (`Awaits`).
`ReapingImplemented` is the safety part of the refinement: under the mapping
`Deaths`, forking, dying, watching and reaping are the actions of `Reaping`,
following a null pointer is its `Halt`, and all else is a stutter. `Handed` is
what makes a watched process one that was forked and not reported yet.

`FeedbackProofs` (any clients, reporters, events; no client is a reporter or the
console): `StreamsStayOpen`. The handler that unregisters a stream waits for an
empty queue or a lowered flag, neither of which says that its own command has
been carried out. That follows from the order of the commands: as long as the
registration of a stream is ahead, so is the command that ends it (`Held`), and
the command of a waiting handler is in the queue only while the worker will see
it (`Attended`). As in the property, all of it holds while the flag has
said what it is meant to (`calm`).

`BootProofs`, on timers and suspension (any threads, modules, times):
`TicksPending`, that no tick is forgotten, needs only that the alarm is armed for
a time and never switched off.
`EventsReachModules`, that no module goes deaf while the loader does not fail,
and every event reaches every module, asleep or not, save those that are deaf,
could not be loaded, or were in another thread's hands, rests on
`SuspensionInv`: who holds a module's mutex is who resumes or suspends it
(`Owned`); a module is on the list of listeners or has a wake-up, not both,
except while it is being unloaded, and only of a deaf one the wake-up is of no
use (`Asleep`); a module that nobody has disturbed since an event was emitted is in
no other thread's hands (`Calm`), and it is still to be looked at, or listens,
or has had the event (`Cover`); the use counts are the numbers of handlers that
run (`Counted`).

`BootProofs`, on mountpoints: `NothingHidden`, that during the first request
nothing is mounted over what is mounted below it. It is assumed that the order
in which the mountpoints were queued respects `Parents` (what the scan of the
modules establishes and `plans` carry out) and that threads and mountpoints have
different names. `TableInv` says who holds the lock of the table and what each
thread may be doing; `FirstRequest`, that nothing has been begun before all that
it comes after is over. It holds only until somebody asks a second time, hence
the implication in `MountsInv`.

`BootProofs`, on devices (any finite set of devices, any rules and messages):
`DevicesGetReady`. A device the coldplug pass has come to, and of which no
message was lost, is in a message that waits or is handled, or has its file, or
one that `mknod` refused (`FilesInv`); the coldplug pass leaves no device out; the
socket loses messages when it is full or not bound yet (`SocketInv`); and the
groups of drivers are loaded, once each, before the devices are announced
(`ManagerInv`). `DevicesReady` does not cover what `StorageBeforeDevices` asks
for.

`BootProofs`, on the network (any interfaces, bridges, lists and scripts):
`FrontAlwaysRuns`, that the IP manager that runs on an interface is the one in
front of its list, once. That matters because disabling stops the one in front,
while enabling rotates the list past those that fail and a scan of the modules
reads the list anew. `NetworkInv` says that a manager runs from the moment its
interface is enabled until it is being disabled (`FrontInv`), and that an
interface nobody asks for is left alone (`Quiet`). Two hypotheses leave out what
`UpIsEnabled` contradicts: `enable-ip` is none of the custom commands (it
answers with just "ok", so that the next `mod(enable)` starts a second manager),
and no port of a bridge is enabled by itself (the bridge resets the status of
its ports, with the same effect).

Only model-checked, because the prover cannot reach it: liveness (`CallsReturn`,
`PlansReturn`, `StopReturns`, `StatusFollowsDaemon`, `WorkEnds`,
`WorkerComesBack`, `GettyComesBack`, `ServicesEnd`) and the fairness in
`DeathsReported`; and what a definition by recursion over data computes
(`TextsKept`: a replacement in a text). A loop over a list can be proved about
where it is a function of the number of its rounds, as the sort and the rules
are; induction over texts and over the tree of the configuration
(`ConfigurationTaken`) has not been done that way.

Only model-checked, because it is not a theorem for all values of the constants:

- `NothingStranded` and `PlanDelivers` beyond boots: where modules fail or
  services need each other, a plan may end while a service is about to be marked
  broken, and an update of the list, or the cleanup of a plan that was
  overtaken, forgets marks. `plans_together` is an instance in which no module
  fails, no services need each other, and the list is updated only while nothing
  is to go down.
- `DeclaredWhole` of `Groups` where something is to go down: a request may
  enable a group and disable a member of it.
- `AfterKept` of `Ordering` with requirements: the instance has one requirement,
  of a service that requires nothing itself and has one candidate. With longer
  chains, a service whose walk is over but that is not marked yet can be queued
  again by another that requires it, while one that goes after it is in its
  function; and with several candidates, what the first of them requires is left
  out of the order for all of them, although another may be called without.
- `Settled` of `Transformations` (in `ConfigurationTaken`): an update goes
  through the rules once and starts from the list of last time, so that rules
  that rewrite each other's names, or an alias of an alias, take several updates
  or never settle.

The `TypesOK` of `MCLogic`, `MCServices` and `MCBoot` is the conjunction of the
type invariants of their components, of which those with a proof module are
proved.

## Disagreements between code and documentation

The four violation runs are entries under `findings` in `PROJECT.json`, with the
line and the text they contradict. Further properties are stated in the modules
with "(Contradicted by ...)" and are in no run, to keep the runs few: each says
what a comment or the documentation promises and what the model, as the code,
does instead. To see a counterexample, define the property in the MC module of
the scene and add it to the configuration.

| Property | Where the code differs |
|---|---|
| `Modules!StartedOnlyWhenFulfilled` | the provider is disabled between `service_requirements_met` (`module.c:265`) and the function |
| `Plans!BrokenOnlyByFailure` | a service that goes down right after its last user is marked broken (`modules/module-logic-v3.c:2933`); in a boot none is (`NothingBreaks`) |
| `Daemons!SecondsToExit` | the watcher of an earlier daemon clears `dx->cb`; the timer of the stop then unlocks nothing (`modules/exec.c:1116`) |
| `Groups!AllMeansAll`, `GroupsGoDown` | a member that is disabled by itself leaves the group up; an "any" group is flattened to its first member only (`modules/module-logic-v3.c:2440`) |
| `Ordering!BeforeKept` | "before" closes circles that are dropped silently |
| `Preferences!WantedFirst` | a module that is to go down counts as requested, and is sorted to the front (`modules/module-logic-v3.c:331`) |
| `Preferences!AlternativesTried`, `DeprecatedLast` | the sort moves the candidate a walk began with; the first pass leaves a deprecated module in front of another (`:897`) |
| `Supervisor!GoesOnWithoutWorker` | after a failed fork process 1 acts on a status nobody wrote (`einit-core.c:461`) |
| `Terminals!WantedHasGetty` | a getty that was told to end counts as present (`modules/tty.c:331`) |
| `Log!BufferCleared` | the clearing gives up when another thread has the mutex (`modules/log.c:146`, 160) |
| `Initctl!NoneLeftBehind` | a thread that begins between the look for it and the removal of the FIFO waits there for ever (`modules/compatibility/compatibility-sysv-initctl.c:149`-156) |
| `Actions!FailureHeard` | a child that has ended is not read from any more (`modules/exec.c:692`) |
| `Mounts!NothingWritable`, `AfterUmountKept` | flags are cleared and set again by every reading of `/proc/mounts`; an update drops the hooks |
| `Network!UpIsEnabled` | the end of a bridge resets the status of its ports (`modules/module-network.c:568`) |
| `Devices!NoneMissed` | the kernel is asked to repeat its messages while the listener may not have bound its socket (`modules/linux/linux-edev.c:580`-596); a file `mknod` refuses twice is given up (`:367`-372) |
| `Devices!StorageBeforeDevices`, `LastRuleDecides` | nobody waits for the thread that loads storage modules (`einit-core.c:708`); the first rule decides |
| `Configuration!LocalAlwaysWins` | a file named in "update configuration" goes in front (`modules/bootstrap-configuration-xml-expat.c:458`-461, `modules/ipc-configuration.c:86`); one that appears in a directory is read after local.xml (`:359`-361, 448-450); a node with an id takes an older one's place |
| `Configuration!OutsideOfModes`, `ModificationsSurvive`, `ChangesSeen` | `curmode` outlives a broken file; the saved file is included after others that win; modification times of one second |
| `Transformations!NoRepetition`, `TreeThere`, `CheckpointsCurrent` | a rewritten name may be on the list already; the tree is freed under a walk; a checkpoint is made once |
| `Feedback!StreamsAlwaysOpen`, `QueueWorkedOff` | the flag of the worker is read and set without a lock (`modules/feedback-visual-textual.c:694`) |
| `Suspension!NeverDeaf` | a module whose `dlclose` fails has stopped listening and is not marked suspended (`module.c:65`, `modules/module-so.c:114`-120) |
| `Suspension!OnlyUnusedUnloaded`, `TimersKept` | a module is unloaded between the choice of a listener and its call; a deletion writes back an older list |

Met while modelling and in no property: two modes based on each other recurse
without end (`modules/module-logic-v3.c:606`); an update of the module list
forgets what was broken, so that a plan waits for a service nobody works on
until the stall timeout (`:1178`); an undefined mode stays in `current_switches`
(`:1003`); services marked unresolved while the queue is completed are wiped
before anybody is told (`:2088`); an empty string at the end of a set is lost
when the set is written as a text and read again (`set-lowmem.c:417`-436);
`mount_fsck` never runs a check (`modules/mount.c:1577`); swap space is never turned off, since it is never in
`/proc/mounts`; a bridge calls `mod()` for its ports with its own mutex held
(`modules/module-network.c:572`).

## Not modelled

- The order of the mutexes of the module logic. The models keep nested critical
  sections together; a model of who takes which mutex in which order would have
  to leave out everything else.
- Building `mlist` from files and shared objects (`mod_add`, `module-so.c`,
  `module-c.c`): it runs in one thread before anything else, or as the one
  request `UpdateList` of `Plans`.
- Daemons that fork away; the reading of fstab, labels and superblocks;
  `module-network-v2.c`, netlink; the D-Bus transport: input and output around
  what is modelled.
- Processes, Scheme modules, Gentoo, client libraries, preloading: see their
  notes in `PROJECT.json`.

## Plan

1. `Accounted` of `Terminals`, on top of `Reaping`.
2. `RecoversFirst` of `Supervisor`.
