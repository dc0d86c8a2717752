------------------------------ MODULE Devices ------------------------------
(***************************************************************************)
(* linux-edev.c, linux-mdev.c, linux-static-dev.c, linux-udev.c,           *)
(* linux-hotplug.c and linux-kernel-modules.c: devices and their files.    *)
(*                                                                         *)
(* The early boot event starts the device manager of the configuration and *)
(* the storage modules, each in a thread of its own.  The manager mounts   *)
(* /proc, /sys and /dev, starts the thread that listens to the kernel,     *)
(* asks the kernel to repeat what it has found, has the kernel modules     *)
(* loaded and announces the devices.  Every message of the kernel becomes  *)
(* an event; edev makes the device file by its rules first.  The event of  *)
(* a driver that wants firmware is answered within the listener's thread.  *)
(*                                                                         *)
(* A message is one datagram, read at once.  A message is what happened to *)
(* which device; its attributes are those of the device.                   *)
(***************************************************************************)
EXTENDS Naturals, Sequences, FiniteSets

CONSTANTS
  DeviceManagers, \* what configuration-system-device-manager may be
  Devices,
  Attribute,      \* of each device: a function from names of attributes to values
  EdevRules,      \* sequence of [match, set], functions of the same kind
  Present,        \* devices the kernel has found before
  Firmware,       \* devices whose driver wants firmware
  OnDisk,         \* those of which the firmware can be read
  Impatient,      \* does the kernel give up waiting for firmware?
  Groups,         \* groups of kernel modules
  Services,       \* groups that are modules of their own
  Background,     \* groups nobody waits for
  Stubborn,       \* devices of which the file may be refused
  MaxPlugs,       \* bound: devices coming and going
  MaxQueue        \* bound: messages the socket holds

DevicesAssumption ==
  /\ IsFiniteSet(Devices) /\ Present \subseteq Devices
  /\ MaxPlugs \in Nat /\ MaxQueue \in Nat

VARIABLES
  dm,             \* the device manager
  enabled,        \* linux_edev_enabled, linux_udev_enabled ...
  dm_boot,        \* what the manager's thread does at boot
  storage,        \* "no", "loading", "loaded": the storage modules
  loading, loaded,\* groups of kernel modules
  reader,         \* the listening thread: "none", "bind", "read", "event", "retry"
  socket,         \* messages that wait
  message,        \* the one that is being handled, as a sequence
  devices,        \* those that are there
  nodes,          \* device files: [device, fields] of each
  want,           \* what each driver does about firmware
  unvisited,           \* devices the coldplug pass has still to come to
  missed,         \* devices the listener has missed the last message about
  refused,        \* devices of which mknod has failed
  plugs

bootvars == <<dm_boot, storage, loading, loaded, enabled>>
kernelvars == <<socket, devices, unvisited, want, missed, plugs>>
threadvars == <<reader, message, nodes, refused>>
devicevars == <<dm, bootvars, kernelvars, threadvars>>

DevicesInit ==
  /\ dm \in DeviceManagers /\ enabled = FALSE
  /\ dm_boot = "early" /\ storage = "loading"
  /\ loading = {} /\ loaded = {}
  /\ reader = "none" /\ socket = << >> /\ message = << >>
  /\ devices = Present /\ unvisited = Present /\ nodes = {}
  /\ want = [d \in Devices |-> "nothing"] /\ missed = {} /\ refused = {} /\ plugs = 0

\* The kernel sends a message: to nobody, if the socket is not bound yet, or is full.
Tell(what, d) ==
  IF reader \in {"read", "event"} /\ Len(socket) < MaxQueue
  THEN socket' = Append(socket, <<what, d>>) /\ missed' = missed \ {d}
  ELSE UNCHANGED socket /\ missed' = missed \cup {d}

-----------------------------------------------------------------------------
\* linux_edev_run, linux_mdev_run ...: mount, start the thread.
RunListening(manager, next) ==
  /\ dm = manager /\ dm_boot = "early" /\ ~enabled
  /\ enabled' = TRUE /\ reader' = "bind" /\ dm_boot' = next
  /\ UNCHANGED <<dm, storage, loading, loaded, kernelvars, message, refused>>

EdevRun == RunListening("edev", "ping") /\ UNCHANGED nodes
StaticRun == RunListening("static", "extensions") /\ UNCHANGED nodes
\* "mdev -s" makes the files of what is there.
MdevRun == RunListening("mdev", "extensions")
           /\ nodes' = nodes \cup {[device |-> d, fields |-> << >>] : d \in devices}

\* udev.sh starts udevd, which makes the files and loads firmware: nobody listens here.
UdevRun ==
  /\ dm = "udev" /\ dm_boot = "early" /\ ~enabled
  /\ enabled' = TRUE /\ dm_boot' = "extensions"
  /\ nodes' = nodes \cup {[device |-> d, fields |-> << >>] : d \in devices}
  /\ UNCHANGED <<dm, storage, loading, loaded, kernelvars, reader, message, refused>>

\* linux_edev_ping_for_uevents: "add" once more for everything under /sys, one after the
\* other, while the listener may not have its socket yet.
Ping(d) ==
  /\ dm_boot = "ping" /\ d \in unvisited
  /\ unvisited' = unvisited \ {d}
  /\ Tell("add", d)
  /\ UNCHANGED <<dm, bootvars, devices, want, plugs, threadvars>>

Pinged ==
  /\ dm_boot = "ping" /\ unvisited = {}
  /\ dm_boot' = "extensions"
  /\ UNCHANGED <<dm, enabled, storage, loading, loaded, kernelvars, threadvars>>

\* Power down: edev and udev, but not the others, forget that they have run.
Shutdown(manager) ==
  /\ dm_boot = "available" /\ enabled /\ dm = manager
  /\ enabled' = FALSE
  /\ UNCHANGED <<dm, dm_boot, storage, loading, loaded, kernelvars, threadvars>>

EdevShutdown == Shutdown("edev")
UdevShutdown == Shutdown("udev")

-----------------------------------------------------------------------------
\* linux_kernel_modules_run: storage at the early boot event, in a thread of that event,
StorageLoaded ==
  /\ storage = "loading" /\ storage' = "loaded"
  /\ UNCHANGED <<dm, dm_boot, enabled, loading, loaded, kernelvars, threadvars>>

\* the other groups, one thread each, when the device manager asks;
LoadGroups == Groups \ Services

Joined == LoadGroups \ Background \subseteq loaded

LoadExtensions ==
  /\ dm_boot = "extensions" /\ dm_boot' = "join"
  /\ loading' = loading \cup LoadGroups
  /\ UNCHANGED <<dm, enabled, storage, loaded, kernelvars, threadvars>>

\* linux_kernel_modules_load: all modules of a group, the last in the thread itself.
Modprobe(g) ==
  /\ g \in loading
  /\ loading' = loading \ {g} /\ loaded' = loaded \cup {g}
  /\ UNCHANGED <<dm, enabled, dm_boot, storage, kernelvars, threadvars>>

\* The module of a group that is a service.
EnableGroup(g) ==
  /\ dm_boot = "available" /\ g \in Services /\ g \notin loading \cup loaded
  /\ loading' = loading \cup {g}
  /\ UNCHANGED <<dm, enabled, dm_boot, storage, loaded, kernelvars, threadvars>>

\* The announcement, at the end of the manager's own handler of the early boot event.
Announce ==
  /\ dm_boot = "join" /\ Joined
  /\ dm_boot' = "available"
  /\ UNCHANGED <<dm, enabled, storage, loading, loaded, kernelvars, threadvars>>

-----------------------------------------------------------------------------
\* The kernel: a device comes, goes, and its driver wants firmware.  The coldplug pass comes
\* to a new one if it has not passed its place in /sys.
Come(d) ==
  /\ d \notin devices
  /\ devices' = devices \cup {d}
  /\ unvisited' \in CASE dm_boot = "early" -> {unvisited \cup {d}}
                 [] dm_boot = "ping" -> {unvisited, unvisited \cup {d}}
                 [] OTHER -> {unvisited}
  /\ want' = [want EXCEPT ![d] = IF d \in Firmware THEN "asked" ELSE "nothing"]
  /\ Tell("add", d)

Go(d) ==
  /\ d \in devices
  /\ devices' = devices \ {d} /\ unvisited' = unvisited \ {d}
  /\ want' = [want EXCEPT ![d] = "nothing"]
  /\ Tell("remove", d)

Plug(d) ==
  /\ plugs < MaxPlugs /\ plugs' = plugs + 1
  /\ Come(d) \/ Go(d)
  /\ UNCHANGED <<dm, bootvars, threadvars>>

\* It does not wait for ever; a write of data fails then.
FirmwareTimeout(d) ==
  /\ Impatient /\ want[d] \in {"asked", "loading", "data"}
  /\ want' = [want EXCEPT ![d] = IF @ = "data" THEN "broken" ELSE "failed"]
  /\ UNCHANGED <<dm, bootvars, socket, devices, unvisited, missed, plugs, threadvars>>

-----------------------------------------------------------------------------
\* linux_edev_hotplug and its copies: the socket,
Bind ==
  /\ reader = "bind"
  /\ reader' \in {"read", "retry"}
  /\ socket' = << >>
  /\ UNCHANGED <<dm, bootvars, devices, unvisited, want, missed, plugs, message, nodes,
                 refused>>

\* (Mutant: what else the socket holds is thrown away.)
Read_One ==
  /\ reader = "read" /\ socket # << >>
  /\ message' = <<Head(socket)>> /\ socket' = << >>
  /\ reader' = "event"
  /\ UNCHANGED <<dm, bootvars, devices, unvisited, want, missed, plugs, nodes, refused>>

\* a message, which is the whole of what a read returns,
Read ==
  /\ reader = "read" /\ socket # << >>
  /\ message' = <<Head(socket)>> /\ socket' = Tail(socket)
  /\ reader' = "event"
  /\ UNCHANGED <<dm, bootvars, devices, unvisited, want, missed, plugs, nodes, refused>>

\* an error that is not EAGAIN, ESPIPE or EINTR, after which the socket is opened again,
ReadError ==
  /\ reader = "read" /\ Len(socket) = MaxQueue
  /\ reader' = "retry" /\ socket' = << >>
  /\ missed' = missed \cup {socket[k][2] : k \in DOMAIN socket}
  /\ UNCHANGED <<dm, bootvars, devices, unvisited, want, plugs, message, nodes, refused>>

\* and what happens after a second, or ten.
Retry ==
  /\ reader = "retry" /\ reader' = "bind"
  /\ UNCHANGED <<dm, bootvars, kernelvars, message, nodes, refused>>

(***************************************************************************)
(* The rules of edev, from the first to the last.  A rule is met unless an *)
(* attribute that the device has does not match; of every field the first  *)
(* rule that is met and sets it decides.                                   *)
(***************************************************************************)
Met(rule, attributes) ==
  \A a \in DOMAIN attributes \cap DOMAIN rule.match : attributes[a] \in rule.match[a]

Fields(d) ==
  LET met(f) == {k \in DOMAIN EdevRules :
                   Met(EdevRules[k], Attribute[d]) /\ f \in DOMAIN EdevRules[k].set}
      all == UNION {DOMAIN EdevRules[k].set : k \in DOMAIN EdevRules}
  IN [f \in {g \in all : met(g) # {}} |->
       EdevRules[CHOOSE k \in met(f) : \A l \in met(f) : k <= l].set[f]]

\* A file that is there stays; "remove" is handled like "add".  When mknod fails once more
\* the device has no file, and the event goes on.
Mknod(d) ==
  \/ /\ "devicefile" \notin DOMAIN Fields(d) \/ \E n \in nodes : n.device = d
     /\ UNCHANGED <<nodes, refused>>
  \/ /\ "devicefile" \in DOMAIN Fields(d) /\ \A n \in nodes : n.device # d
     /\ nodes' = nodes \cup {[device |-> d, fields |-> Fields(d)]}
     /\ refused' = refused \ {d}
  \/ /\ "devicefile" \in DOMAIN Fields(d) /\ \A n \in nodes : n.device # d
     /\ d \in Stubborn
     /\ refused' = refused \cup {d} /\ UNCHANGED nodes

\* linux_hotplug_hotplug_event_handler, in the listening thread: 1, the data, and 0.
FirmwareLoading(d) ==
  want' = [want EXCEPT ![d] = IF @ # "asked" THEN @
                              ELSE IF d \in OnDisk THEN "loading" ELSE "failed"]

Event(make) ==
  /\ reader = "event" /\ message # << >>
  /\ LET what == message[1][1]
         d == message[1][2]
     IN /\ IF make THEN Mknod(d) ELSE UNCHANGED <<nodes, refused>>
        /\ IF what = "add" /\ d \in Firmware THEN FirmwareLoading(d) ELSE UNCHANGED want
        /\ IF what = "add" /\ want'[d] \in {"loading", "data", "broken"}
           THEN UNCHANGED <<reader, message>>
           ELSE reader' = "read" /\ message' = << >>
  /\ want' # want \/ reader' # reader
  /\ UNCHANGED <<dm, bootvars, socket, devices, unvisited, missed, plugs>>

EdevEvent == dm = "edev" /\ Event(TRUE)
MdevEvent == dm = "mdev" /\ Event(FALSE)
StaticEvent == dm = "static" /\ Event(FALSE)

\* When the kernel has given up meanwhile, the data is written again and again.
FirmwareData ==
  /\ reader = "event" /\ message # << >>
  /\ LET d == message[1][2]
         next == CASE want[d] = "loading" -> "data" [] want[d] = "data" -> "loaded"
                   [] OTHER -> want[d]
     IN /\ d \in Firmware /\ want[d] \in {"loading", "data"}
        /\ want' = [want EXCEPT ![d] = next]
        /\ IF next = "loaded" THEN reader' = "read" /\ message' = << >>
           ELSE UNCHANGED <<reader, message>>
  /\ UNCHANGED <<dm, bootvars, socket, devices, unvisited, missed, plugs, nodes, refused>>

Manager == EdevRun \/ MdevRun \/ StaticRun \/ UdevRun \/ Pinged \/ LoadExtensions \/ Announce
Listen == Bind \/ Read \/ ReadError \/ Retry
EdevHotplug == dm = "edev" /\ Listen
MdevHotplug == dm = "mdev" /\ Listen
StaticHotplug == dm = "static" /\ Listen

Listener ==
  \/ EdevHotplug \/ MdevHotplug \/ StaticHotplug
  \/ EdevEvent \/ MdevEvent \/ StaticEvent \/ FirmwareData

DevicesNext ==
  \/ Manager \/ Listener \/ EdevShutdown \/ UdevShutdown \/ StorageLoaded
  \/ \E g \in Groups : Modprobe(g) \/ EnableGroup(g)
  \/ \E d \in Devices : Ping(d) \/ Plug(d) \/ FirmwareTimeout(d)

DevicesSpec == DevicesInit /\ [][DevicesNext]_devicevars

-----------------------------------------------------------------------------
\* What is listed belongs where it is.
DevicesTypeOK ==
  /\ dm \in DeviceManagers /\ devices \subseteq Devices /\ unvisited \subseteq devices
  /\ dm_boot \in {"early", "ping", "extensions", "join", "available"}
  /\ loading \cup loaded \subseteq Groups /\ loading \cap loaded = {}
  /\ reader \in {"none", "bind", "read", "event", "retry"}
  /\ message # << >> <=> reader = "event"
  /\ Len(socket) <= MaxQueue

About(d) == \E k \in DOMAIN socket : socket[k][2] = d

\* Of a device, found before edev listened or after, edev has made the file, or a message of
\* it waits or is handled, as soon as the coldplug pass has come to it: unless the last message
\* about it was lost, because the socket was not bound yet or was full, or mknod failed.
NoneForgotten ==
  dm = "edev" =>
    /\ dm_boot \notin {"early", "ping"} => unvisited = {}
    /\ \A d \in devices \ (unvisited \cup missed \cup refused) :
         "devicefile" \in DOMAIN Fields(d) =>
           About(d) \/ (message # << >> /\ message[1][2] = d) \/ \E n \in nodes : n.device = d

\* (Contradicted: edev does not wait for its listener to bind the socket before it asks the
\* kernel to repeat what it has found, linux-edev.c:580-596, and gives up a file that mknod
\* refuses twice, 367-372.)  When the devices are announced, each of them has its file or a
\* message about it is still to be handled.
NoneMissed ==
  dm = "edev" /\ dm_boot = "available" =>
    \A d \in devices : "devicefile" \in DOMAIN Fields(d) =>
      About(d) \/ (message # << >> /\ message[1][2] = d) \/ \E n \in nodes : n.device = d

\* The devices are not announced before the groups of kernel modules are loaded that are
\* to be waited for, whichever device manager it is ...
GroupsBeforeDevices ==
  dm_boot = "available" => Groups \ (Services \cup Background) \subseteq loaded

\* linux-edev.c, linux-kernel-modules.c: a device gets its file, unless its message or its file
\* was lost, and the devices are announced when the drivers are loaded.
DevicesReady == NoneForgotten /\ GroupsBeforeDevices

\* (Contradicted by the thread of einit-core.c that loads them, which nobody waits for.)
\* ... and not before the storage modules are.
StorageBeforeDevices == dm_boot = "available" => storage = "loaded"

\* (Contradicted: the first value stays.)  Later rules are for the exceptions: the last
\* rule that is met decides a field.
LastRuleDecides ==
  \A n \in nodes, k \in DOMAIN EdevRules :
    dm = "edev" /\ Met(EdevRules[k], Attribute[n.device]) => \A f \in DOMAIN EdevRules[k].set :
      n.fields[f] = EdevRules[k].set[f]
      \/ \E l \in DOMAIN EdevRules :
           l > k /\ Met(EdevRules[l], Attribute[n.device]) /\ f \in DOMAIN EdevRules[l].set
=============================================================================
