------------------------------- MODULE Mounts -------------------------------
(***************************************************************************)
(* mount.c and linux-mount.c: the modules of the mountpoints.              *)
(*                                                                         *)
(* Every mountpoint of the configuration is a module; enabling it mounts,  *)
(* disabling it reads /proc/mounts again, unmounts what is mounted below,  *)
(* and then itself, with more force at every attempt.  Root is remounted   *)
(* when the devices are available and unmounted when the power goes.  An   *)
(* update of the configuration and every eumount write the same table: the *)
(* flags are cleared and set again under device_data, and tested without.  *)
(*                                                                         *)
(* A mountpoint is the sequence of the names of its path.  Of a node of    *)
(* the table only whether it is there, whether its flag says mounted and   *)
(* whether it has its after-umount command; of a file system, whether it   *)
(* can be read or written.  A device has one name in the configuration and *)
(* in /proc/mounts.  fsck is left out as the code leaves it out:           *)
(* mount_fsck starts with finished = 1 and returns.                        *)
(***************************************************************************)
EXTENDS Naturals, Sequences

CONSTANTS
  Mountpoints,    \* the configured ones but "/", which is << >>
  Device,         \* path of the device of each
  Options,        \* set of options of each
  Ordered,        \* what node-order says a mountpoint comes after, where it says so
  Swap,           \* those that are swap space: not in /proc/mounts
  Keep,           \* mountpoints-no-umount
  Commands,       \* those with an after-umount attribute
  MayFail,        \* those the kernel may refuse to mount
  Unprovided,     \* services nobody provides
  Overlap,        \* may several threads read /proc/mounts at a time?
  Nobody,         \* no thread
  MaxRequests,    \* bound: requests after the first mounting
  MaxUpdates      \* bound: updates of the configuration

Root == << >>
All == Mountpoints \cup {Root}
Boot == <<"(boot)">>
Power == <<"(power)">>
Updater == <<"(update)">>
MountThreads == Mountpoints \cup {Boot, Power, Updater}

VARIABLES
  kernel,         \* "none", "ro" or "rw": what is mounted
  flagged,        \* mountpoints whose flag says mounted
  hooked,         \* mountpoints whose node has its after-umount command
  device_data,    \* holder of mount_device_data_mutex
  seen,           \* what a thread has read from /proc/mounts
  pc, stack,      \* stage of each thread; calls of emount and eumount
  status,         \* of the modules
  asked,          \* mountpoints somebody wants enabled
  boot,           \* "early", "root", "ok"
  critical,       \* "none", "waiting", "ok"
  shutting_down, requests, updates

tablevars == <<flagged, hooked>>
worldvars == <<status, asked, boot, critical, shutting_down, requests, updates>>
mountvars == <<kernel, tablevars, device_data, seen, pc, stack, worldvars>>

Below(m) == {c \in Mountpoints : Len(c) > Len(m) /\ SubSeq(c, 1, Len(m)) = m}

-----------------------------------------------------------------------------
\* einit_mount_scanmodules: what a mountpoint comes after, needs, and is.

\* (Mutant: the directory above is forgotten.)
Parents_OffByOne(path) == {SubSeq(path, 1, n) : n \in 1..Len(path) - 2}

\* All directories above a path but the first.
Parents(path) == {SubSeq(path, 1, n) : n \in 1..Len(path) - 1}

\* The file system's own flags are looked up by a field of the device that nobody sets.
IsNetwork(m) == "network" \in Options[m]

After(m) ==
  IF m \in DOMAIN Ordered THEN Ordered[m]
  ELSE (Parents(m) \cup (IF IsNetwork(m) THEN {} ELSE Parents(Device[m])) \cup {Root})
         \cap Mountpoints

Requires(m) == IF IsNetwork(m) THEN {"network", "portmap"} ELSE {}

Autostart == {m \in Mountpoints : "noauto" \notin Options[m]}

Critical == {m \in Mountpoints : "noauto" \notin Options[m] /\ "critical" \in Options[m]}

Possible(m) == Requires(m) \cap Unprovided = {}

\* The names of threads are no paths, and what a configuration orders by hand it orders as
\* the paths do.
MountsAssumption ==
  /\ Mountpoints \subseteq Seq(STRING) /\ {Root, Boot, Power, Updater} \cap Mountpoints = {}
  /\ Nobody \notin MountThreads
  /\ \A m \in DOMAIN Ordered : Parents(m) \cap Mountpoints \subseteq Ordered[m]

-----------------------------------------------------------------------------
Frame(m) == [mp |-> m, below |-> {}, step |-> 0]
Top(t) == stack[t][Len(stack[t])]
SetTop(t, frame) == stack' = [stack EXCEPT ![t][Len(stack[t])] = frame]
Goto(t, stage) == pc' = [pc EXCEPT ![t] = stage]

MountsInit ==
  /\ kernel = [m \in All |-> IF m = Root THEN "ro" ELSE "none"]
  /\ flagged = {} /\ hooked = Commands
  /\ device_data = Nobody
  /\ seen = [t \in MountThreads |-> {}]
  /\ pc = [t \in MountThreads |-> "none"] /\ stack = [t \in MountThreads |-> << >>]
  /\ status = [m \in Mountpoints |-> "idle"]
  /\ asked = {} /\ boot = "early" /\ critical = "none"
  /\ shutting_down = FALSE /\ requests = 0 /\ updates = 0

\* Whether a thread is at work on the mtab or unmounting.
Unmounting == \E t \in MountThreads : pc[t] \notin {"none", "mount", "try", "flag"}
MayRead == Overlap \/ ~Unmounting

Call(t, m, stage) ==
  /\ stack' = [stack EXCEPT ![t] = Append(@, Frame(m))]
  /\ Goto(t, stage)

\* The end of a call: of one below, which is ignored, or of the thread's own.
Return(t, result) ==
  /\ stack' = [stack EXCEPT ![t] = SubSeq(@, 1, Len(@) - 1)]
  /\ IF Len(stack[t]) > 1
     THEN Goto(t, "below") /\ UNCHANGED <<status, asked, boot, critical>>
     ELSE /\ Goto(t, "none")
          /\ IF t \in Mountpoints
             THEN status' = [status EXCEPT ![t] = result] /\ UNCHANGED <<asked, boot, critical>>
             ELSE IF t = Boot
             THEN /\ asked' = Autostart /\ boot' = "ok" /\ critical' = "waiting"
                  /\ UNCHANGED status
             ELSE UNCHANGED <<status, asked, boot, critical>>
  /\ UNCHANGED <<shutting_down, requests, updates>>

-----------------------------------------------------------------------------
\* Requests.

\* The boot handler: root first, then all that is mounted by itself (see Return).
DevicesAvailable ==
  /\ boot = "early"
  /\ boot' = "root"
  /\ Call(Boot, Root, "mount")
  /\ UNCHANGED <<kernel, tablevars, device_data, seen, status, asked, critical,
                 shutting_down, requests, updates>>

\* The work threads of the module logic: in order, and not without what is required.
Enable(m) ==
  /\ m \in asked /\ status[m] # "working" /\ Possible(m)
  /\ \A a \in After(m) : a \notin asked /\ status[a] # "working"
  /\ asked' = asked \ {m}
  /\ IF status[m] = "enabled"
     THEN UNCHANGED <<pc, stack, status>>
     ELSE status' = [status EXCEPT ![m] = "working"] /\ Call(m, m, "mount")
  /\ UNCHANGED <<kernel, tablevars, device_data, seen, boot, critical, shutting_down, requests,
                 updates>>

\* A mode switch that wants a mountpoint again, or no longer.
Ask(m) ==
  /\ boot = "ok" /\ requests < MaxRequests
  /\ requests' = requests + 1
  /\ asked' = asked \cup {m}
  /\ UNCHANGED <<kernel, tablevars, device_data, seen, pc, stack, status, boot, critical,
                 shutting_down, updates>>

Disable(m) ==
  /\ status[m] = "enabled" /\ requests < MaxRequests /\ MayRead
  /\ requests' = requests + 1
  /\ status' = [status EXCEPT ![m] = "working"]
  /\ asked' = asked \ {m}
  /\ Call(m, m, "umount")
  /\ UNCHANGED <<kernel, tablevars, device_data, seen, boot, critical, shutting_down, updates>>

PowerImminent ==
  /\ boot = "ok" /\ ~shutting_down /\ MayRead
  /\ shutting_down' = TRUE
  /\ Call(Power, Root, "umount")
  /\ UNCHANGED <<kernel, tablevars, device_data, seen, status, asked, boot, critical, requests,
                 updates>>

\* einit_mount_critical_enable, in the thread of mount-critical; it looks once a second.
CriticalEnable ==
  /\ critical = "waiting"
  /\ \A m \in Critical : status[m] \notin {"working", "idle"}
  /\ critical' = "ok"
  /\ UNCHANGED <<kernel, tablevars, device_data, seen, pc, stack, status, asked, boot,
                 shutting_down, requests, updates>>

-----------------------------------------------------------------------------
\* emount

MountLook(t) ==
  /\ pc[t] = "mount"
  /\ IF Top(t).mp \in flagged
     THEN Return(t, "enabled")
     ELSE Goto(t, "try") /\ UNCHANGED <<stack, worldvars>>
  /\ UNCHANGED <<kernel, tablevars, device_data, seen>>

\* mount_do_mount_generic and, where it fails, linux_mount_do_mount_real: what is there is
\* remounted.  Swap space has functions of its own.
Mounted(m) == kernel' = [kernel EXCEPT ![m] = "rw"]

TryMount(t) ==
  LET m == Top(t).mp IN
  /\ pc[t] = "try"
  /\ \/ Mounted(m) /\ Goto(t, "flag") /\ UNCHANGED <<stack, worldvars>>
     \/ m \in MayFail /\ Return(t, "failed") /\ UNCHANGED kernel
  /\ UNCHANGED <<tablevars, device_data, seen>>

\* mount_try_mount: the command and the event that go before the flag are left out.
SetFlag(t) ==
  /\ pc[t] = "flag"
  /\ flagged' = flagged \cup {Top(t).mp}
  /\ Return(t, "enabled")
  /\ UNCHANGED <<kernel, hooked, device_data, seen>>

-----------------------------------------------------------------------------
\* The table: mount_update_devices and mount_update_nodes_from_mtab

\* mount_update_fstab_nodes: the nodes as the configuration has them.
UpdateNodes == hooked' = Commands

\* mount_add_update_fstab: what is given replaces what was there, also by nothing.
AddNodes(set) == hooked' = hooked \ set

Update ==
  /\ boot = "ok" /\ pc[Updater] = "none" /\ updates < MaxUpdates /\ MayRead
  /\ device_data = Nobody /\ device_data' = Updater
  /\ updates' = updates + 1
  /\ UpdateNodes
  /\ Goto(Updater, "read")
  /\ UNCHANGED <<kernel, flagged, seen, stack, status, asked, boot, critical, shutting_down,
                 requests>>

LockTable(t) ==
  /\ pc[t] = "umount"
  /\ device_data = Nobody /\ device_data' = t
  /\ Goto(t, "read")
  /\ UNCHANGED <<kernel, tablevars, seen, stack, worldvars>>

ReadMounts(t) ==
  /\ pc[t] = "read"
  /\ seen' = [seen EXCEPT ![t] = {m \in All \ Swap : kernel[m] # "none"}]
  /\ Goto(t, "clear")
  /\ UNCHANGED <<kernel, tablevars, device_data, stack, worldvars>>

ClearFlags(t) ==
  /\ pc[t] = "clear"
  /\ flagged' = {}
  /\ Goto(t, "mark")
  /\ UNCHANGED <<kernel, hooked, device_data, seen, stack, worldvars>>

\* A node that is found mounted is added anew, without commands.
MarkMounted(t) ==
  /\ pc[t] = "mark"
  /\ flagged' = flagged \cup seen[t]
  /\ AddNodes(seen[t])
  /\ device_data' = Nobody
  /\ Goto(t, IF t = Updater THEN "none" ELSE "list")
  /\ seen' = [seen EXCEPT ![t] = {}]
  /\ UNCHANGED <<kernel, stack, worldvars>>

-----------------------------------------------------------------------------
\* eumount

\* mount_get_mounted_mountpoints
MountedBelow(m) == flagged \cap Below(m)

\* The names that go on after the mountpoint with a slash: none for "/".
ListBelow(t) ==
  LET m == Top(t).mp IN
  /\ pc[t] = "list"
  /\ IF m \in Keep
     THEN Return(t, "disabled")
     ELSE /\ SetTop(t, [Top(t) EXCEPT !.below = IF m = Root THEN {} ELSE MountedBelow(m)])
          /\ Goto(t, "below")
          /\ UNCHANGED worldvars
  /\ UNCHANGED <<kernel, tablevars, device_data, seen>>

UmountBelow(t) ==
  /\ pc[t] = "below"
  /\ \E c \in Top(t).below :
       stack' = [stack EXCEPT ![t] =
                   Append(SubSeq(@, 1, Len(@) - 1),
                          [Top(t) EXCEPT !.below = @ \ {c}]) \o <<Frame(c)>>]
  /\ Goto(t, "umount")
  /\ UNCHANGED <<kernel, tablevars, device_data, seen, worldvars>>

UmountLook(t) ==
  /\ pc[t] = "below" /\ Top(t).below = {}
  /\ IF Top(t).mp \in flagged
     THEN Goto(t, "step") /\ UNCHANGED <<stack, worldvars>>
     ELSE Return(t, "disabled")
  /\ UNCHANGED <<kernel, tablevars, device_data, seen>>

\* The steps of mount_umount and mount_do_umount_generic: plain, forced, and from step 3 on
\* only made read-only and detached with all below, which may fail unnoticed.
Gone(m) ==
  /\ m # Root /\ \A c \in Below(m) : kernel[c] = "none" \/ c \in Swap
  /\ kernel' = [kernel EXCEPT ![m] = "none"]

Detached(m) ==
  \/ kernel' = [kernel EXCEPT ![m] = "ro"]
  \/ /\ m # Root
     /\ kernel' = [c \in All |-> IF c = m \/ c \in Below(m) \ Swap THEN "none" ELSE kernel[c]]

Unmounted(m, step) == Gone(m) \/ (step >= 3 /\ Detached(m))

TryUmount(t) ==
  LET m == Top(t).mp IN
  /\ pc[t] = "step"
  /\ \/ /\ Unmounted(m, Top(t).step)
        /\ flagged' = flagged \ {m}
        /\ Return(t, "disabled")
     \/ /\ UNCHANGED <<kernel, flagged>>
        /\ IF Top(t).step < 4
           THEN /\ SetTop(t, [Top(t) EXCEPT !.step = @ + 1])
                /\ UNCHANGED <<pc, worldvars>>
           ELSE Return(t, IF shutting_down THEN "disabled" ELSE "failed")
  /\ UNCHANGED <<hooked, device_data, seen>>

-----------------------------------------------------------------------------
Emount(t) == MountLook(t) \/ TryMount(t) \/ SetFlag(t)
ReadTable(t) == LockTable(t) \/ ReadMounts(t) \/ ClearFlags(t) \/ MarkMounted(t)
Eumount(t) == ListBelow(t) \/ UmountBelow(t) \/ UmountLook(t) \/ TryUmount(t)
Work(t) == Emount(t) \/ ReadTable(t) \/ Eumount(t)

MountsNext ==
  \/ DevicesAvailable \/ PowerImminent \/ CriticalEnable \/ Update
  \/ \E m \in Mountpoints : Enable(m) \/ Ask(m) \/ Disable(m)
  \/ \E t \in MountThreads : Work(t)

MountsSpec == MountsInit /\ [][MountsNext]_mountvars

-----------------------------------------------------------------------------
\* What each variable may hold; the lock is held by exactly the thread that rewrites the flags.
MountsTypeOK ==
  /\ kernel \in [All -> {"none", "ro", "rw"}]
  /\ flagged \subseteq All /\ hooked \subseteq Commands
  /\ \A t \in MountThreads : (device_data = t) <=> pc[t] \in {"read", "clear", "mark"}
  /\ \A t \in MountThreads \ {Updater} : pc[t] = "none" <=> stack[t] = << >>
  /\ status \in [Mountpoints -> {"idle", "working", "enabled", "failed", "disabled"}]
  /\ asked \subseteq Mountpoints

\* einit_mount_scanmodules orders the mountpoints so that none is mounted over one that is
\* mounted below it already, at least while the first request is served.
NotHidden ==
  [][\A m \in Mountpoints :
       requests = 0 /\ kernel[m] = "none" /\ kernel'[m] # "none" =>
         \A c \in Below(m) : kernel[c] = "none"]_mountvars

\* (Contradicted by two readings of /proc/mounts at a time, Overlap.)
\* A disabled mountpoint that reported success (mount.c, eumount) has nothing left that can be
\* written, though the flag it went by is cleared and set by every reading of /proc/mounts.
\* Swap space is left out (it is never in /proc/mounts, so swapoff is never called) and so
\* is the time of a shutdown, when last-rites does it again.
NothingWritable ==
  [][\A m \in Mountpoints \ (Swap \cup Keep) :
       status[m] = "working" /\ status'[m] = "disabled" /\ ~shutting_down =>
         kernel'[m] # "rw"]_mountvars

\* (Contradicted by an update of the configuration.)
\* A mountpoint with an after-umount command still has it when it is
\* unmounted.
AfterUmountKept ==
  [][\A m \in Commands : kernel[m] # "none" /\ kernel'[m] = "none" => m \in hooked]_mountvars
=============================================================================
