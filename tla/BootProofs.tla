----------------------------- MODULE BootProofs -----------------------------
(***************************************************************************)
(* Proofs about the devices of linux-edev.c and linux-kernel-modules.c,    *)
(* the interfaces of module-network.c, the mountpoints of mount.c and the  *)
(* timers and suspended modules of scheduler.c and event.c.                *)
(*                                                                         *)
(* No message that edev's listener gets is forgotten, for any number of    *)
(* devices, rules and messages, and the devices are announced after the    *)
(* drivers: a device that is there has still to be visited, or the last    *)
(* message about it waits, is handled or was lost, or its file is there or *)
(* was refused.  The data of its firmware is only written after that.      *)
(*                                                                         *)
(* The IP manager that runs on an interface is the one in front of its     *)
(* list, for any lists and scripts: what is done to another interface may  *)
(* only disturb a port, what fails leaves nothing running, and a list is   *)
(* only rotated away from its front when none of it runs.                  *)
(*                                                                         *)
(* No mountpoint is mounted over one below it, for any set of mountpoints, *)
(* and the lock of the table is held by the thread that rewrites the       *)
(* flags.                                                                  *)
(*                                                                         *)
(* No tick of a timer is lost, and an event reaches every module that is   *)
(* not being suspended or resumed meanwhile, and that the loader has not   *)
(* failed to unload or to load, for any threads and modules.               *)
(***************************************************************************)
EXTENDS Suspension, Devices, Network, Mounts,
        SequenceTheorems, FiniteSetTheorems, WellFoundedInduction, TLAPS

Messages == {"add", "remove"} \X Devices
Wants == {"nothing", "asked", "loading", "data", "loaded", "failed", "broken"}

\* Nothing is sent before there is a socket, and nothing waits without one.
SocketInv ==
  /\ devices \subseteq Devices /\ unvisited \subseteq devices
  /\ want \in [Devices -> Wants]
  /\ reader \in {"none", "bind", "read", "event", "retry"}
  /\ socket \in Seq(Messages) /\ message \in Seq(Messages)
  /\ message # << >> <=> reader = "event"
  /\ Len(socket) <= MaxQueue
  /\ reader \notin {"read", "event"} => socket = << >>

\* The groups are loaded once, and the coldplug pass ends when it has come to every device.
ManagerInv ==
  /\ dm \in DeviceManagers
  /\ dm_boot \in {"early", "ping", "extensions", "join", "available"}
  /\ dm_boot = "early" => reader = "none"
  /\ loading \cup loaded \subseteq Groups /\ loading \cap loaded = {}
  /\ dm_boot \in {"early", "ping", "extensions"} => loading \cup loaded = {}
  /\ GroupsBeforeDevices
  /\ dm = "edev" /\ dm_boot \notin {"early", "ping"} => unvisited = {}

Filed(d) == "devicefile" \in DOMAIN Fields(d)
HasFile(d) == \E n \in nodes : n.device = d
Tried(d) == HasFile(d) \/ d \in refused
Handled(d) == message # << >> /\ message[1][2] = d
Told(d) == Filed(d) => About(d) \/ Handled(d) \/ Tried(d)
Waiting == unvisited \cup missed

FilesInv ==
  dm = "edev" =>
    /\ \A d \in Devices : Filed(d) /\ want[d] \in {"loading", "data"} => Tried(d)
    /\ \A d \in devices \ Waiting : Told(d)

DevicesInv == SocketInv /\ ManagerInv /\ FilesInv

-----------------------------------------------------------------------------
\* What the kernel sends either waits or has been missed, and nothing else is lost.
LEMMA Sent ==
  ASSUME DevicesAssumption, SocketInv, NEW what \in {"add", "remove"},
         NEW d \in Devices, Tell(what, d)
  PROVE  /\ socket' \in Seq(Messages) /\ Len(socket') <= MaxQueue
         /\ reader \notin {"read", "event"} => socket' = socket
         /\ \A e \in missed : e \in missed' \/ e = d
         /\ \A e \in Devices : About(e) => About(e)'
         /\ About(d)' \/ d \in missed'
<1>1. CASE UNCHANGED socket /\ missed' = missed \cup {d}
  BY <1>1 DEF SocketInv, About
<1>2. CASE /\ reader \in {"read", "event"} /\ Len(socket) < MaxQueue
           /\ socket' = Append(socket, <<what, d>>) /\ missed' = missed \ {d}
  <2>1. socket \in Seq(Messages) /\ <<what, d>> \in Messages /\ Len(socket) \in Nat
    BY LenProperties DEF SocketInv, Messages
  <2>2. /\ socket' \in Seq(Messages) /\ Len(socket') = Len(socket) + 1
        /\ \A i \in 1..Len(socket) : socket'[i] = socket[i]
        /\ socket'[Len(socket) + 1] = <<what, d>>
    BY <1>2, <2>1, AppendProperties
  <2>3. DOMAIN socket = 1..Len(socket) /\ DOMAIN socket' = 1..Len(socket) + 1
    BY <2>1, <2>2, LenProperties
  <2>4. \A e \in Devices : About(e) => About(e)'
    <3>1. \A k \in DOMAIN socket : k \in DOMAIN socket' /\ socket'[k] = socket[k]
      BY <2>1, <2>2, <2>3
    <3> QED BY <3>1 DEF About
  <2>5. About(d)'
    <3>1. Len(socket) + 1 \in DOMAIN socket'
      BY <2>1, <2>3
    <3> QED BY <2>2, <3>1 DEF About
  <2>6. Len(socket') <= MaxQueue
    BY <1>2, <2>1, <2>2 DEF DevicesAssumption
  <2> QED BY <1>2, <2>2, <2>4, <2>5, <2>6
<1> QED BY <1>1, <1>2 DEF Tell

-----------------------------------------------------------------------------
\* What a step may do to devices, messages and files.

Keeping == nodes \subseteq nodes' /\ \A d \in refused : Tried(d)'

LEMMA FilesKept ==
  ASSUME FilesInv, dm' = dm, Keeping,
         \A d \in devices' : d \in devices \/ About(d)' \/ d \in Waiting',
         \A d \in Waiting \cap devices' : d \in Waiting' \/ About(d)',
         \A d \in Devices :
           /\ dm = "edev" /\ Filed(d) /\ want'[d] \in {"loading", "data"} =>
                want[d] \in {"loading", "data"} \/ Tried(d)'
           /\ About(d) => About(d)' \/ Handled(d)' \/ d \in missed'
           /\ dm = "edev" /\ Filed(d) /\ Handled(d) => Handled(d)' \/ Tried(d)',
         devices \subseteq Devices
  PROVE  FilesInv'
<1>1. \A d \in Devices : Tried(d) => Tried(d)'
  BY DEF Tried, HasFile, Keeping
<1> SUFFICES ASSUME dm = "edev"
             PROVE  /\ \A d \in Devices :
                         Filed(d) /\ want'[d] \in {"loading", "data"} => Tried(d)'
                    /\ \A d \in devices' \ Waiting' : Told(d)'
  BY DEF FilesInv
<1>2. \A d \in Devices : Filed(d) /\ want'[d] \in {"loading", "data"} => Tried(d)'
  BY <1>1 DEF FilesInv
<1>3. ASSUME NEW d \in devices' \ Waiting', Filed(d)
      PROVE  About(d)' \/ Handled(d)' \/ Tried(d)'
  <2>1. CASE About(d)'
    BY <2>1
  <2>2. CASE d \in devices \ Waiting
    <3>1. About(d) \/ Handled(d) \/ Tried(d)
      BY <1>3, <2>2 DEF FilesInv, Told
    <3>2. d \notin missed' /\ d \in Devices
      BY <1>3, <2>2 DEF Waiting
    <3> QED BY <1>1, <1>3, <3>1, <3>2
  <2> QED BY <1>3, <2>1, <2>2
<1> QED BY <1>2, <1>3 DEF Told

\* The manager goes on and messages stay.
LEMMA Beside ==
  ASSUME DevicesInv, UNCHANGED <<dm, kernelvars, threadvars>>
  PROVE  SocketInv' /\ FilesInv'
<1>1. UNCHANGED <<devices, unvisited, want, missed, socket, reader, message, nodes, refused>>
  BY DEF kernelvars, threadvars
<1>2. SocketInv'
  BY <1>1 DEF DevicesInv, SocketInv
<1>3. FilesInv'
  BY <1>1 DEF DevicesInv, FilesInv, Waiting, Told, Tried, About, Handled, HasFile
<1> QED BY <1>2, <1>3

\* The kernel and the listener leave the manager alone.
LEMMA ManagerStays ==
  ASSUME ManagerInv, UNCHANGED <<dm, bootvars>>, dm_boot = "early" => reader' = "none",
         dm_boot \notin {"early", "ping"} => unvisited' \subseteq unvisited
  PROVE  ManagerInv'
BY DEF ManagerInv, bootvars, GroupsBeforeDevices

-----------------------------------------------------------------------------
\* The device manager.

LEMMA RunKeeps ==
  ASSUME DevicesInv, EdevRun \/ MdevRun \/ StaticRun \/ UdevRun
  PROVE  DevicesInv'
<1>1. dm_boot = "early" /\ dm' = dm /\ UNCHANGED <<loading, loaded, kernelvars, message>>
      /\ reader = "none" /\ reader' \in {"none", "bind"} /\ nodes \subseteq nodes'
      /\ dm_boot' \in {"ping", "extensions"} /\ (dm = "edev" => dm_boot' = "ping")
      /\ refused' = refused
  BY DEF EdevRun, MdevRun, StaticRun, UdevRun, RunListening, DevicesInv, ManagerInv
<1>2. SocketInv'
  BY <1>1 DEF DevicesInv, SocketInv, kernelvars
<1>3. ManagerInv'
  BY <1>1 DEF DevicesInv, ManagerInv, GroupsBeforeDevices
<1>4. UNCHANGED <<devices, unvisited, want, missed, socket, message>>
  BY <1>1 DEF kernelvars
<1>5. FilesInv'
  BY <1>1, <1>4
     DEF DevicesInv, FilesInv, Waiting, Told, Tried, About, Handled, HasFile
<1> QED BY <1>2, <1>3, <1>5 DEF DevicesInv

LEMMA PingKeeps ==
  ASSUME DevicesAssumption, DevicesInv, NEW d \in Devices, Ping(d)
  PROVE  DevicesInv'
<1>1. /\ SocketInv /\ Tell("add", d) /\ unvisited' = unvisited \ {d}
      /\ dm_boot = "ping" /\ UNCHANGED <<dm, bootvars, devices, want, threadvars>>
  BY DEF DevicesInv, Ping
<1>2. /\ socket' \in Seq(Messages) /\ Len(socket') <= MaxQueue
      /\ reader \notin {"read", "event"} => socket' = socket
      /\ \A e \in missed : e \in missed' \/ e = d
      /\ \A e \in Devices : About(e) => About(e)'
      /\ About(d)' \/ d \in missed'
  BY <1>1, Sent
<1>3. UNCHANGED <<reader, message, nodes, refused>>
  BY <1>1 DEF threadvars
<1>4. SocketInv'
  BY <1>1, <1>2, <1>3 DEF SocketInv
<1>5. ManagerInv'
  BY <1>1, ManagerStays DEF DevicesInv
<1>6. FilesInv /\ Keeping /\ devices \subseteq Devices
  BY <1>1, <1>3 DEF DevicesInv, SocketInv, Keeping, Tried
<1>7. \A e \in Waiting \cap devices' : e \in Waiting' \/ About(e)'
  BY <1>1, <1>2 DEF Waiting
<1>8. \A e \in Devices : Handled(e) => Handled(e)'
  BY <1>3 DEF Handled
<1>9. FilesInv'
  BY <1>1, <1>2, <1>6, <1>7, <1>8, FilesKept
<1> QED BY <1>4, <1>5, <1>9 DEF DevicesInv

LEMMA PingedKeeps ==
  ASSUME DevicesInv, Pinged
  PROVE  DevicesInv'
<1>1. SocketInv' /\ FilesInv'
  BY Beside DEF Pinged
<1>2. ManagerInv'
  BY DEF Pinged, DevicesInv, ManagerInv, GroupsBeforeDevices, kernelvars, threadvars
<1> QED BY <1>1, <1>2 DEF DevicesInv

LEMMA LoadExtensionsKeeps ==
  ASSUME DevicesInv, LoadExtensions
  PROVE  DevicesInv'
<1>1. SocketInv' /\ FilesInv'
  BY Beside DEF LoadExtensions
<1>2. ManagerInv'
  BY DEF LoadExtensions, DevicesInv, ManagerInv, GroupsBeforeDevices, LoadGroups, kernelvars
<1> QED BY <1>1, <1>2 DEF DevicesInv

LEMMA AnnounceKeeps ==
  ASSUME DevicesInv, Announce
  PROVE  DevicesInv'
<1>1. SocketInv' /\ FilesInv'
  BY Beside DEF Announce
<1>2. ManagerInv'
  BY DEF Announce, Joined, LoadGroups, DevicesInv, ManagerInv,
         GroupsBeforeDevices, kernelvars
<1> QED BY <1>1, <1>2 DEF DevicesInv

LEMMA ShutdownKeeps ==
  ASSUME DevicesInv, EdevShutdown \/ UdevShutdown \/ StorageLoaded
  PROVE  DevicesInv'
<1>1. UNCHANGED <<dm, dm_boot, loading, loaded, kernelvars, threadvars>>
  BY DEF EdevShutdown, UdevShutdown, Shutdown, StorageLoaded
<1>2. SocketInv' /\ FilesInv'
  BY <1>1, Beside
<1>3. ManagerInv'
  BY <1>1 DEF DevicesInv, ManagerInv, GroupsBeforeDevices, threadvars, kernelvars
<1> QED BY <1>2, <1>3 DEF DevicesInv

LEMMA GroupKeeps ==
  ASSUME DevicesInv, NEW g \in Groups, Modprobe(g) \/ EnableGroup(g)
  PROVE  DevicesInv'
<1>1. SocketInv' /\ FilesInv'
  BY Beside DEF Modprobe, EnableGroup
<1>2. ManagerInv'
  <2>1. CASE Modprobe(g)
    BY <2>1 DEF Modprobe, DevicesInv, ManagerInv, GroupsBeforeDevices, threadvars,
                kernelvars
  <2>2. CASE EnableGroup(g)
    BY <2>2 DEF EnableGroup, DevicesInv, ManagerInv, GroupsBeforeDevices, threadvars,
                kernelvars
  <2> QED BY <2>1, <2>2
<1> QED BY <1>1, <1>2 DEF DevicesInv

-----------------------------------------------------------------------------
\* The kernel.

LEMMA PlugKeeps ==
  ASSUME DevicesAssumption, DevicesInv, NEW d \in Devices, Plug(d)
  PROVE  DevicesInv'
<1>1. PICK what \in {"add", "remove"} : Tell(what, d)
  BY DEF Plug, Come, Go
<1>2. SocketInv /\ UNCHANGED <<dm, dm_boot, bootvars, threadvars>>
      /\ UNCHANGED <<reader, message, nodes, refused>>
  BY DEF DevicesInv, Plug, threadvars, bootvars
<1>3. /\ socket' \in Seq(Messages) /\ Len(socket') <= MaxQueue
      /\ reader \notin {"read", "event"} => socket' = socket
      /\ \A e \in missed : e \in missed' \/ e = d
      /\ \A e \in Devices : About(e) => About(e)'
      /\ About(d)' \/ d \in missed'
  BY <1>1, <1>2, Sent
<1>4. /\ devices' \subseteq Devices /\ unvisited' \subseteq devices'
      /\ \A e \in devices' : e \in devices \/ e = d
      /\ \A e \in unvisited : e \in unvisited' \/ e = d
      /\ dm_boot \notin {"early", "ping"} => unvisited' \subseteq unvisited
  <2>1. CASE Come(d)
    BY <1>2, <2>1 DEF Come, SocketInv
  <2>2. CASE Go(d)
    BY <1>2, <2>2 DEF Go, SocketInv
  <2> QED BY <2>1, <2>2 DEF Plug
<1>5. want' \in [Devices -> Wants] /\ want'[d] \notin {"loading", "data"}
      /\ \A e \in Devices \ {d} : want'[e] = want[e]
  BY <1>2 DEF Plug, Come, Go, SocketInv, Wants
<1>6. SocketInv'
  BY <1>2, <1>3, <1>4, <1>5 DEF SocketInv
<1>7. ManagerInv'
  BY <1>2, <1>4, ManagerStays DEF DevicesInv, ManagerInv
<1>8. FilesInv /\ Keeping /\ devices \subseteq Devices
  BY <1>2 DEF DevicesInv, SocketInv, Keeping, Tried
<1>9. \A e \in Waiting : e \in Waiting' \/ About(e)'
  BY <1>3, <1>4 DEF Waiting
<1>10. \A e \in devices' : e \in devices \/ About(e)' \/ e \in Waiting'
  BY <1>3, <1>4 DEF Waiting
<1>11. \A e \in Devices : Handled(e) => Handled(e)'
  BY <1>2 DEF Handled
<1>12. FilesInv'
  BY <1>2, <1>3, <1>5, <1>8, <1>9, <1>10, <1>11, FilesKept
<1> QED BY <1>6, <1>7, <1>12 DEF DevicesInv

LEMMA FirmwareTimeoutKeeps ==
  ASSUME DevicesInv, NEW d \in Devices, FirmwareTimeout(d)
  PROVE  DevicesInv'
<1>1. UNCHANGED <<dm, bootvars, socket, devices, unvisited, missed, threadvars>>
  BY DEF FirmwareTimeout
<1>2. want' \in [Devices -> Wants] /\ want'[d] \notin {"loading", "data"}
      /\ \A e \in Devices \ {d} : want'[e] = want[e]
  BY DEF FirmwareTimeout, DevicesInv, SocketInv, Wants
<1>3. SocketInv'
  BY <1>1, <1>2 DEF DevicesInv, SocketInv, threadvars
<1>4. ManagerInv'
  BY <1>1, ManagerStays DEF DevicesInv, ManagerInv, threadvars
<1>5. FilesInv /\ Keeping /\ devices \subseteq Devices /\ UNCHANGED <<dm_boot, message>>
  BY <1>1 DEF DevicesInv, SocketInv, Keeping, Tried, threadvars, bootvars
<1>6. \A e \in Devices : (About(e) <=> About(e)') /\ (Handled(e) <=> Handled(e)')
  BY <1>1, <1>5 DEF About, Handled
<1>7. FilesInv'
  BY <1>1, <1>2, <1>5, <1>6, FilesKept DEF Waiting
<1> QED BY <1>3, <1>4, <1>7 DEF DevicesInv

-----------------------------------------------------------------------------
\* The listener.

LEMMA BindKeeps ==
  ASSUME DevicesInv, Bind \/ Retry
  PROVE  DevicesInv'
<1>1. /\ UNCHANGED <<dm, bootvars, devices, unvisited, want, missed, message, nodes, refused>>
      /\ reader \in {"bind", "retry"} /\ reader' \in {"read", "retry", "bind"}
      /\ socket' = << >> \/ socket' = socket
  BY DEF Bind, Retry, kernelvars
<1>2. socket = << >> /\ socket' = << >> /\ message = << >> /\ message' = << >>
  BY <1>1 DEF DevicesInv, SocketInv
<1>3. SocketInv'
  BY <1>1, <1>2 DEF DevicesInv, SocketInv
<1>4. ManagerInv'
  BY <1>1, ManagerStays DEF DevicesInv, ManagerInv
<1>5. FilesInv /\ Keeping /\ devices \subseteq Devices /\ UNCHANGED dm_boot
  BY <1>1 DEF DevicesInv, SocketInv, Keeping, Tried, bootvars
<1>6. \A e \in Devices : (About(e) <=> About(e)') /\ (Handled(e) <=> Handled(e)')
  BY <1>2 DEF About, Handled
<1>7. FilesInv'
  BY <1>1, <1>5, <1>6, FilesKept DEF Waiting
<1> QED BY <1>3, <1>4, <1>7 DEF DevicesInv

LEMMA ReadKeeps ==
  ASSUME DevicesAssumption, DevicesInv, Read
  PROVE  DevicesInv'
<1>1. /\ UNCHANGED <<dm, bootvars, devices, unvisited, want, missed, nodes, refused>>
      /\ reader = "read" /\ reader' = "event" /\ socket # << >>
      /\ message' = <<Head(socket)>> /\ socket' = Tail(socket)
  BY DEF Read
<1>2. /\ Len(socket) \in Nat \ {0} /\ Head(socket) \in Messages /\ Tail(socket) \in Seq(Messages)
      /\ Len(Tail(socket)) = Len(socket) - 1
      /\ \A i \in 1..Len(Tail(socket)) : Tail(socket)[i] = socket[i + 1]
      /\ Head(socket) = socket[1] /\ DOMAIN socket = 1..Len(socket)
      /\ DOMAIN Tail(socket) = 1..Len(Tail(socket))
  <2>1. socket \in Seq(Messages)
    BY DEF DevicesInv, SocketInv
  <2> QED BY <1>1, <2>1, EmptySeq, LenProperties, HeadTailProperties
<1>3. SocketInv'
  <2>1. message' \in Seq(Messages) /\ message' # << >>
    BY <1>1, <1>2
  <2>2. socket' \in Seq(Messages) /\ Len(socket') <= MaxQueue
    <3> DEFINE n == Len(socket)
    <3> DEFINE k == Len(Tail(socket))
    <3>1. n \in Nat /\ k = n - 1 /\ n <= MaxQueue
      BY <1>2 DEF DevicesInv, SocketInv
    <3> HIDE DEF n, k
    <3>2. k <= MaxQueue
      BY <3>1 DEF DevicesAssumption
    <3> QED BY <1>1, <1>2, <3>2 DEF k
  <2> QED BY <1>1, <2>1, <2>2 DEF DevicesInv, SocketInv
<1>4. ManagerInv'
  BY <1>1, ManagerStays DEF DevicesInv, ManagerInv
<1>5. FilesInv /\ Keeping /\ devices \subseteq Devices /\ UNCHANGED dm_boot
  BY <1>1 DEF DevicesInv, SocketInv, Keeping, Tried, bootvars
<1>6. ASSUME NEW e \in Devices, About(e)
      PROVE  About(e)' \/ Handled(e)'
  <2>1. PICK i \in DOMAIN socket : socket[i][2] = e
    BY <1>6 DEF About
  <2>2. CASE i = 1
    BY <1>1, <1>2, <2>1, <2>2 DEF Handled
  <2>3. CASE i # 1
    <3> DEFINE n == Len(socket)
    <3> DEFINE k == Len(Tail(socket))
    <3>1. n \in Nat \ {0} /\ k = n - 1 /\ i \in 1..n
      BY <1>2, <2>1
    <3> HIDE DEF n, k
    <3>2. i - 1 \in 1..k /\ (i - 1) + 1 = i
      BY <2>3, <3>1
    <3>3. Tail(socket)[i - 1] = socket[i] /\ i - 1 \in DOMAIN Tail(socket)
      BY <1>2, <3>2 DEF k
    <3> QED BY <1>1, <2>1, <3>3 DEF About
  <2> QED BY <2>2, <2>3
<1>7. \A e \in Devices : ~Handled(e)
  BY <1>1 DEF Handled, DevicesInv, SocketInv
<1>8. FilesInv'
  BY <1>1, <1>5, <1>6, <1>7, FilesKept DEF Waiting
<1> QED BY <1>3, <1>4, <1>8 DEF DevicesInv

LEMMA ReadErrorKeeps ==
  ASSUME DevicesAssumption, DevicesInv, ReadError
  PROVE  DevicesInv'
<1>1. /\ UNCHANGED <<dm, bootvars, devices, unvisited, want, message, nodes, refused>>
      /\ reader = "read" /\ reader' = "retry" /\ socket' = << >>
      /\ missed' = missed \cup {socket[k][2] : k \in DOMAIN socket}
  BY DEF ReadError
<1>2. SocketInv'
  BY <1>1 DEF DevicesInv, SocketInv, DevicesAssumption
<1>3. ManagerInv'
  BY <1>1, ManagerStays DEF DevicesInv, ManagerInv
<1>4. FilesInv /\ Keeping /\ devices \subseteq Devices /\ UNCHANGED dm_boot
  BY <1>1 DEF DevicesInv, SocketInv, Keeping, Tried, bootvars
<1>5. \A e \in Devices : About(e) => e \in missed'
  BY <1>1 DEF About
<1>6. \A e \in Devices : Handled(e) <=> Handled(e)'
  BY <1>1 DEF Handled
<1>7. FilesInv'
  BY <1>1, <1>4, <1>5, <1>6, FilesKept DEF Waiting
<1> QED BY <1>2, <1>3, <1>7 DEF DevicesInv

\* The file comes before the firmware.
LEMMA EventKeeps ==
  ASSUME DevicesInv, NEW make \in BOOLEAN, dm = "edev" => make, Event(make), dm' = dm
  PROVE  DevicesInv'
<1>1. reader = "event" /\ message # << >> /\ message[1] \in Messages
  BY EmptySeq, LenProperties DEF Event, DevicesInv, SocketInv
<1>0. PICK d \in Devices : message[1][2] = d
  BY <1>1 DEF Messages
<1>2. UNCHANGED <<bootvars, socket, devices, unvisited, missed>>
  BY DEF Event
<1>3. FirmwareLoading(d) \/ UNCHANGED want
  BY <1>0 DEF Event
<1>4. want' \in [Devices -> Wants] /\ \A e \in Devices \ {d} : want'[e] = want[e]
  BY <1>1, <1>3 DEF FirmwareLoading, DevicesInv, SocketInv, Wants
<1>5. UNCHANGED <<reader, message>> \/ (reader' = "read" /\ message' = << >>)
  BY DEF Event
<1>6. Keeping /\ (dm = "edev" /\ Filed(d) => Tried(d)')
  <2>1. CASE make
    <3>1. Mknod(d)
      BY <1>0, <2>1 DEF Event
    <3>2. nodes \subseteq nodes'
      BY <3>1 DEF Mknod
    <3>3. CASE Filed(d) /\ \A n \in nodes : n.device # d
      <4>1. CASE nodes' = nodes \cup {[device |-> d, fields |-> Fields(d)]}
                 /\ refused' = refused \ {d}
        <5>1. [device |-> d, fields |-> Fields(d)] \in nodes'
          BY <4>1
        <5>2. HasFile(d)'
          BY <5>1 DEF HasFile
        <5> QED BY <3>2, <4>1, <5>2 DEF Keeping, Tried
      <4>2. CASE refused' = refused \cup {d}
        BY <3>2, <4>2 DEF Keeping, Tried
      <4> QED BY <3>1, <3>3, <4>1, <4>2 DEF Mknod, Filed
    <3>4. CASE ~Filed(d) \/ \E n \in nodes : n.device = d
      <4>1. UNCHANGED <<nodes, refused>>
        BY <3>1, <3>4 DEF Mknod, Filed
      <4> QED BY <3>4, <4>1 DEF Keeping, Tried, HasFile
    <3> QED BY <3>3, <3>4
  <2>2. CASE ~make
    BY <2>2 DEF Event, Keeping, Tried
  <2> QED BY <2>1, <2>2
<1>7. SocketInv'
  <2>1. reader' \in {"read", "event"} /\ message' \in Seq(Messages)
        /\ (message' # << >> <=> reader' = "event")
    <3>1. message \in Seq(Messages) /\ << >> \in Seq(Messages)
      BY DEF DevicesInv, SocketInv
    <3> QED BY <1>1, <1>5, <3>1
  <2> QED BY <1>2, <1>4, <2>1 DEF DevicesInv, SocketInv
<1>8. ManagerInv'
  BY <1>1, <1>2, ManagerStays DEF DevicesInv, ManagerInv
<1>9. FilesInv /\ Keeping /\ devices \subseteq Devices /\ UNCHANGED dm_boot
  BY <1>2, <1>6 DEF DevicesInv, SocketInv, bootvars
<1>10. \A e \in Devices : (About(e) <=> About(e)') /\ (Handled(e) => e = d)
  BY <1>0, <1>2 DEF About, Handled
<1>11. FilesInv'
  BY <1>2, <1>4, <1>6, <1>9, <1>10, FilesKept DEF Waiting
<1> QED BY <1>7, <1>8, <1>11 DEF DevicesInv

LEMMA FirmwareDataKeeps ==
  ASSUME DevicesInv, FirmwareData
  PROVE  DevicesInv'
<1>1. reader = "event" /\ message # << >> /\ message[1] \in Messages
  BY EmptySeq, LenProperties DEF FirmwareData, DevicesInv, SocketInv
<1>0. PICK d \in Devices : message[1][2] = d
  BY <1>1 DEF Messages
<1>2. UNCHANGED <<dm, bootvars, socket, devices, unvisited, missed, nodes, refused>>
  BY DEF FirmwareData
<1>3. want[d] \in {"loading", "data"} /\ want' = [want EXCEPT ![d] = want'[d]]
      /\ want'[d] \in {"data", "loaded"}
  BY <1>0, <1>1 DEF FirmwareData, DevicesInv, SocketInv
<1>4. want' \in [Devices -> Wants] /\ \A e \in Devices \ {d} : want'[e] = want[e]
  BY <1>1, <1>3 DEF DevicesInv, SocketInv, Wants
<1>5. UNCHANGED <<reader, message>> \/ (reader' = "read" /\ message' = << >>)
  BY DEF FirmwareData
<1>6. SocketInv'
  <2>1. reader' \in {"read", "event"} /\ message' \in Seq(Messages)
        /\ (message' # << >> <=> reader' = "event")
    <3>1. message \in Seq(Messages) /\ << >> \in Seq(Messages)
      BY DEF DevicesInv, SocketInv
    <3> QED BY <1>1, <1>5, <3>1
  <2> QED BY <1>2, <1>4, <2>1 DEF DevicesInv, SocketInv
<1>7. ManagerInv'
  BY <1>1, <1>2, ManagerStays DEF DevicesInv, ManagerInv
<1>8. FilesInv /\ Keeping /\ devices \subseteq Devices /\ UNCHANGED dm_boot
  BY <1>2 DEF DevicesInv, SocketInv, Keeping, Tried, bootvars
<1>9. dm = "edev" /\ Filed(d) => Tried(d)'
  <2>1. dm = "edev" /\ Filed(d) => Tried(d)
    BY <1>1, <1>3, <1>8 DEF FilesInv
  <2> QED BY <1>2, <2>1 DEF Tried, HasFile
<1>10. \A e \in Devices : (About(e) <=> About(e)') /\ (Handled(e) => e = d)
  BY <1>0, <1>2 DEF About, Handled
<1>11. FilesInv'
  BY <1>2, <1>4, <1>8, <1>9, <1>10, FilesKept DEF Waiting
<1> QED BY <1>6, <1>7, <1>11 DEF DevicesInv

-----------------------------------------------------------------------------
LEMMA DevicesStart == ASSUME DevicesAssumption, DevicesInit PROVE DevicesInv
<1>1. SocketInv
  BY DEF DevicesInit, SocketInv, DevicesAssumption, Wants
<1>2. ManagerInv
  BY DEF DevicesInit, ManagerInv, GroupsBeforeDevices
<1>3. FilesInv
  BY DEF DevicesInit, FilesInv, Waiting
<1> QED BY <1>1, <1>2, <1>3 DEF DevicesInv

LEMMA DevicesKept ==
  ASSUME DevicesAssumption, DevicesInv, [DevicesNext]_devicevars
  PROVE  DevicesInv'
<1>1. CASE UNCHANGED devicevars
  <2>1. SocketInv' /\ FilesInv'
    BY <1>1, Beside DEF devicevars, bootvars
  <2>2. ManagerInv'
    BY <1>1, ManagerStays DEF devicevars, threadvars, kernelvars, DevicesInv, ManagerInv
  <2> QED BY <2>1, <2>2 DEF DevicesInv
<1>2. CASE Manager
  BY <1>2, RunKeeps, PingedKeeps, LoadExtensionsKeeps, AnnounceKeeps DEF Manager
<1>3. CASE Listener
  <2>1. CASE Listen
    BY <2>1, BindKeeps, ReadKeeps, ReadErrorKeeps DEF Listen
  <2>2. CASE EdevEvent
    <3>1. Event(TRUE) /\ dm' = dm
      BY <2>2 DEF EdevEvent, Event
    <3> QED BY <3>1, EventKeeps
  <2>3. CASE MdevEvent \/ StaticEvent
    <3>1. Event(FALSE) /\ dm' = dm /\ dm # "edev"
      BY <2>3 DEF MdevEvent, StaticEvent, Event
    <3> QED BY <3>1, EventKeeps
  <2>4. CASE FirmwareData
    BY <2>4, FirmwareDataKeeps
  <2> QED BY <1>3, <2>1, <2>2, <2>3, <2>4
          DEF Listener, EdevHotplug, MdevHotplug, StaticHotplug
<1>4. CASE EdevShutdown \/ UdevShutdown \/ StorageLoaded
  BY <1>4, ShutdownKeeps
<1> QED
  BY <1>1, <1>2, <1>3, <1>4, GroupKeeps, PingKeeps, PlugKeeps, FirmwareTimeoutKeeps
     DEF DevicesNext

LEMMA DevicesAlways == DevicesAssumption /\ DevicesSpec => []DevicesInv
<1> SUFFICES ASSUME DevicesAssumption PROVE DevicesSpec => []DevicesInv
  OBVIOUS
<1>1. DevicesInit => DevicesInv
  BY DevicesStart
<1>2. DevicesInv /\ [DevicesNext]_devicevars => DevicesInv'
  BY DevicesKept
<1> QED BY <1>1, <1>2, PTL DEF DevicesSpec

\* The queue of the socket holds no more than it can, a message is handled just while the
\* listener is in its event, and no group of kernel modules is loaded twice.
THEOREM DevicesTyped == DevicesAssumption /\ DevicesSpec => []DevicesTypeOK
<1>1. DevicesInv => DevicesTypeOK
  BY DEF DevicesInv, SocketInv, ManagerInv, DevicesTypeOK
<1> QED BY <1>1, DevicesAlways, PTL

\* linux_edev_hotplug tries to make the file of every device that has one by its rules, whether
\* the kernel had found it before or finds it later, unless the last message about it was lost;
\* the coldplug pass leaves none out, and the devices are announced when the groups of kernel
\* modules that are waited for are loaded.
THEOREM DevicesGetReady == DevicesAssumption /\ DevicesSpec => []DevicesReady
<1>1. DevicesInv => DevicesReady
  <2>1. DevicesInv => GroupsBeforeDevices
    BY DEF DevicesInv, ManagerInv
  <2>2. DevicesInv => NoneForgotten
    BY DEF DevicesInv, SocketInv, ManagerInv, FilesInv, NoneForgotten, Waiting, Told, Tried,
           Filed, Handled, HasFile
  <2> QED BY <2>1, <2>2 DEF DevicesReady
<1> QED BY <1>1, DevicesAlways, PTL

-----------------------------------------------------------------------------
\* Lists of controllers and IP managers.

\* A set of places that is not empty has a first one.
LEMMA FirstPlace ==
  ASSUME NEW S \in SUBSET Nat, S # {}
  PROVE  Min(S) \in S /\ \A x \in S : Min(S) <= x
<1> DEFINE R == {p \in Nat \X Nat : p[1] < p[2]}
<1>1. OpToRel(<, Nat) = R
  BY DEF OpToRel
<1>2. IsWellFoundedOn(R, Nat)
  BY <1>1, NatLessThanWellFounded
<1> HIDE DEF R
<1>3. PICK x \in S : \A y \in S : <<y, x>> \notin R
  BY <1>2, WFMin
<1>4. ASSUME NEW y \in S
      PROVE  x <= y
  <2>1. x \in Nat /\ y \in Nat /\ <<y, x>> \notin R
    BY <1>3
  <2>2. ~(y < x)
    BY <2>1 DEF R
  <2> QED
    BY <2>1, <2>2
<1> QED
  BY <1>4 DEF Min

\* What is done with one interface.
OneStep(i) ==
  \/ EnableInterface(i) \/ DisableInterface(i) \/ InterfaceStep(i) \/ Rescan(i)
  \/ \E c \in CustomCommands : Custom(i, c)

\* The list that is left when some place has come to the front: the same names.
LEMMA Rotated ==
  ASSUME NEW S, NEW list \in Seq(S), NEW k \in 1..Len(list)
  PROVE  /\ Rotate(list, k) \in Seq(S)
         /\ Len(Rotate(list, k)) = Len(list)
         /\ Rotate(list, k)[1] = list[k]
         /\ ToSet(Rotate(list, k)) = ToSet(list)
<1> DEFINE n == Len(list)
           a == SubSeq(list, k, n)
           b == SubSeq(list, 1, k - 1)
<1>1. n \in Nat /\ DOMAIN list = 1..n /\ \A x \in 1..n : list[x] \in S
  BY LenProperties, ElementOfSeq
<1>2. /\ a \in Seq(S) /\ Len(a) = n - k + 1
      /\ \A x \in 1..(n - k + 1) : a[x] = list[k + x - 1]
  <2>1. k \in Int /\ n \in Int /\ k <= n /\ \A x \in k..n : list[x] \in S
    BY <1>1
  <2> QED
    BY <2>1, SubSeqProperties
<1>3. /\ b \in Seq(S) /\ Len(b) = k - 1
      /\ \A x \in 1..(k - 1) : b[x] = list[x]
  <2>1. 1 \in Int /\ k - 1 \in Int /\ \A x \in 1..(k - 1) : list[x] \in S
    BY <1>1
  <2>2. /\ b \in Seq(S) /\ Len(b) = IF 1 <= k - 1 THEN (k - 1) - 1 + 1 ELSE 0
        /\ \A x \in 1..((k - 1) - 1 + 1) : b[x] = list[1 + x - 1]
    BY <2>1, SubSeqProperties
  <2> QED
    BY <1>1, <2>2
<1> DEFINE c == Rotate(list, k)
<1>4. c = a \o b
  BY DEF Rotate
<1> HIDE DEF a, b, c
<1>5. /\ c \in Seq(S) /\ Len(c) = n
      /\ \A x \in 1..n : c[x] = IF x <= n - k + 1 THEN a[x] ELSE b[x - (n - k + 1)]
  <2>1. /\ a \o b \in Seq(S) /\ Len(a \o b) = Len(a) + Len(b)
        /\ \A x \in 1..(Len(a) + Len(b)) : (a \o b)[x] = IF x <= Len(a) THEN a[x] ELSE b[x - Len(a)]
    BY <1>2, <1>3, ConcatProperties
  <2>2. Len(a) + Len(b) = n /\ Len(a) = n - k + 1
    BY <1>1, <1>2, <1>3
  <2> QED
    BY <1>4, <2>1, <2>2
<1>6. c[1] = list[k]
  BY <1>1, <1>2, <1>5
<1>7. DOMAIN c = 1..n
  BY <1>5, LenProperties
<1>8. \A x \in 1..n : \E y \in 1..n : c[x] = list[y]
  <2> TAKE x \in 1..n
  <2>1. CASE x <= n - k + 1
    <3>1. x \in 1..(n - k + 1) /\ k + x - 1 \in 1..n
      BY <1>1, <2>1
    <3>2. c[x] = list[k + x - 1]
      BY <1>2, <1>5, <2>1, <3>1
    <3> QED
      BY <3>1, <3>2
  <2>2. CASE ~(x <= n - k + 1)
    <3>1. x - (n - k + 1) \in 1..(k - 1)
      BY <1>1, <2>2
    <3> QED
      BY <1>1, <1>3, <1>5, <2>2, <3>1
  <2> QED
    BY <2>1, <2>2
<1>9. \A y \in 1..n : \E x \in 1..n : c[x] = list[y]
  <2> TAKE y \in 1..n
  <2>1. CASE y >= k
    <3>1. y - k + 1 \in 1..(n - k + 1) /\ y - k + 1 \in 1..n /\ k + (y - k + 1) - 1 = y
      BY <1>1, <2>1
    <3>2. c[y - k + 1] = list[y]
      BY <1>1, <1>2, <1>5, <3>1
    <3> QED
      BY <3>1, <3>2
  <2>2. CASE ~(y >= k)
    <3>1. /\ y \in 1..(k - 1) /\ y + (n - k + 1) \in 1..n
          /\ ~(y + (n - k + 1) <= n - k + 1) /\ (y + (n - k + 1)) - (n - k + 1) = y
      BY <1>1, <2>2
    <3>2. c[y + (n - k + 1)] = list[y]
      BY <1>1, <1>3, <1>5, <3>1
    <3> QED
      BY <3>1, <3>2
  <2> QED
    BY <2>1, <2>2
<1>10. ToSet(c) = ToSet(list)
  <2>1. ToSet(c) = {c[x] : x \in 1..n} /\ ToSet(list) = {list[x] : x \in 1..n}
    BY <1>1, <1>7 DEF ToSet
  <2>2. \A e : e \in ToSet(c) => e \in ToSet(list)
    BY <1>8, <2>1
  <2>3. \A e : e \in ToSet(list) => e \in ToSet(c)
    BY <1>9, <2>1
  <2> QED
    BY <2>2, <2>3
<1> QED
  BY <1>5, <1>6, <1>10 DEF c

\* Whatever is executed, the list keeps its names; and whoever did it is in front.
LEMMA Executed ==
  ASSUME NEW S, NEW list \in Seq(S), NEW action, NEW need, NEW Good
  PROVE  LET done == Execute(list, action, need, Good)
         IN /\ done.is \in {"ok", "failed", "idle"}
            /\ done.list \in Seq(S) /\ Len(done.list) = Len(list)
            /\ ToSet(done.list) = ToSet(list)
            /\ done.by \subseteq ToSet(list)
            /\ list # << >> => done.is # "idle"
            /\ need # "all" /\ done.is = "ok" => done.by = {done.list[1]}
            /\ need = "this" => done.list[1] = list[1]
<1> DEFINE n == Len(list)
           able == {k \in DOMAIN list : action \in Actions[list[k]]}
           tried == IF need = "this" THEN able \cap {1}
                    ELSE IF need = "all" /\ able # {} THEN {Min(able)} ELSE able
           works == {k \in tried : list[k] \in Good}
           front == IF works # {} THEN Min(works)
                    ELSE IF need = "all" /\ able # {} THEN Min(able) ELSE 1
           is == IF list = << >> THEN "idle"
                 ELSE IF works # {} \/ (need = "all" /\ able = {}) THEN "ok" ELSE "failed"
           left == IF list = << >> THEN list ELSE Rotate(list, front)
           by == IF works = {} THEN {} ELSE {list[front]}
           done == Execute(list, action, need, Good)
<1>1. done = [is |-> is, list |-> left, by |-> by]
  BY DEF Execute
<1>2. n \in Nat /\ DOMAIN list = 1..n
  BY LenProperties
<1>3. list # << >> => n >= 1
  BY <1>2, EmptySeq
<1>4. able \subseteq 1..n /\ able \in SUBSET Nat
  BY <1>2
<1>5. able # {} => Min(able) \in able
  BY <1>4, FirstPlace
<1>6. tried \subseteq able
  BY <1>5
<1>7. works \subseteq able /\ works \in SUBSET Nat
  BY <1>4, <1>6
<1>8. works # {} => Min(works) \in works
  BY <1>7, FirstPlace
<1>9. need = "this" => works \subseteq {1}
  OBVIOUS
<1> HIDE DEF able, tried, works, done
<1>10. list # << >> => front \in 1..n
  <2>1. CASE works # {}
    BY <1>4, <1>7, <1>8, <2>1
  <2>2. CASE works = {} /\ need = "all" /\ able # {}
    BY <1>4, <1>5, <2>2
  <2>3. CASE works = {} /\ ~(need = "all" /\ able # {})
    BY <1>2, <1>3, <2>3
  <2> QED
    BY <2>1, <2>2, <2>3
<1>11. need = "this" => front = 1
  <2>1. CASE works = {}
    BY <2>1
  <2>2. CASE works # {}
    BY <1>8, <1>9, <2>2
  <2> QED
    BY <2>1, <2>2
<1>12. list = << >> => works = {}
  BY <1>2, <1>7, <1>4, EmptySeq
<1> HIDE DEF front
<1>13. /\ left \in Seq(S) /\ Len(left) = Len(list) /\ ToSet(left) = ToSet(list)
       /\ list # << >> => left[1] = list[front]
  BY <1>10, Rotated
<1>14. by \subseteq ToSet(list)
  <2>1. works # {} => list[front] \in ToSet(list)
    BY <1>2, <1>10, <1>12 DEF ToSet
  <2> QED
    BY <2>1
<1>15. need # "all" /\ is = "ok" => by = {left[1]}
  BY <1>13
<1>16. need = "this" => left[1] = list[1]
  BY <1>11, <1>13
<1>17. is \in {"ok", "failed", "idle"} /\ (list # << >> => is # "idle")
  OBVIOUS
<1> HIDE DEF is, left, by
<1>18. done.is = is /\ done.list = left /\ done.by = by
  BY <1>1
<1>19. /\ done.is \in {"ok", "failed", "idle"}
       /\ done.list \in Seq(S) /\ Len(done.list) = Len(list)
       /\ ToSet(done.list) = ToSet(list)
       /\ done.by \subseteq ToSet(list)
       /\ list # << >> => done.is # "idle"
       /\ need # "all" /\ done.is = "ok" => done.by = {done.list[1]}
       /\ need = "this" => done.list[1] = list[1]
  BY <1>13, <1>14, <1>15, <1>16, <1>17, <1>18
<1> QED
  BY <1>19 DEF done

\* What is imported of a list is a list.
LEMMA ImportedList ==
  ASSUME NEW names, names \in Seq(ToSet(names))
  PROVE  Imported(names) \in Seq(ToSet(Imported(names)))
<1> DEFINE able == {k \in DOMAIN names : names[k] \in DOMAIN Actions /\ Actions[names[k]] # {}}
           Place(j) == CHOOSE k \in able : Cardinality({l \in able : l <= k}) = j
           n == Cardinality(able)
           list == [j \in 1..n |-> names[Place(j)]]
<1>1. CASE names = <<"none">>
  BY <1>1, EmptySeq DEF Imported
<1>2. CASE names # <<"none">>
  <2>1. Imported(names) = list
    BY <1>2 DEF Imported
  <2>2. n \in Nat
    <3>1. Len(names) \in Nat /\ able \subseteq 1..Len(names)
      BY LenProperties
    <3>2. IsFiniteSet(1..Len(names))
      BY <3>1, FS_Interval
    <3> QED
      BY <3>1, <3>2, FS_Subset, FS_CardinalityType
  <2> HIDE DEF n, Place, able
  <2>3. ToSet(list) = {list[j] : j \in 1..n}
    BY DEF ToSet
  <2>4. list \in [1..n -> ToSet(list)]
    BY <2>3
  <2>5. list \in Seq(ToSet(list))
    BY <2>2, <2>4, SeqDef
  <2> HIDE DEF list
  <2> QED
    BY <2>1, <2>5
<1> QED
  BY <1>1, <1>2

\* The list that is read again has the name that was in front in front.
LEMMA FrontAgain ==
  ASSUME NEW S, NEW list \in Seq(S), NEW name
  PROVE  /\ Rescanned(list, name) \in Seq(S)
         /\ ToSet(Rescanned(list, name)) = ToSet(list)
         /\ name \in ToSet(list) => Rescanned(list, name)[1] = name
<1> DEFINE places == {k \in DOMAIN list : list[k] = name}
<1>1. Len(list) \in Nat /\ DOMAIN list = 1..Len(list)
  BY LenProperties
<1>2. places \in SUBSET Nat /\ places \subseteq 1..Len(list)
  BY <1>1
<1>3. CASE places = {}
  BY <1>3 DEF Rescanned, ToSet
<1>4. CASE places # {}
  <2>1. Min(places) \in places
    BY <1>2, <1>4, FirstPlace
  <2>2. Rescanned(list, name) = Rotate(list, Min(places))
    BY <1>4 DEF Rescanned
  <2>3. Min(places) \in 1..Len(list) /\ list[Min(places)] = name
    BY <1>2, <2>1
  <2> HIDE DEF places
  <2> QED
    BY <2>2, <2>3, Rotated
<1> QED
  BY <1>3, <1>4

-----------------------------------------------------------------------------
Port(i) == \E b \in Interfaces : i \in ToSet(Bridge[b])

\* An IP manager runs from the moment its interface is enabled until it is being
\* disabled, and it is the one in front.
FrontInv(i) ==
  /\ stage[i] \in {"none", "stop_ip"} =>
       addresses[i] = IF "ip" \in up[i] THEN OneRuns(i) ELSE NoneRuns(i)
  /\ stage[i] \notin {"none", "stop_ip"} => "ip" \notin up[i] /\ addresses[i] = NoneRuns(i)
  /\ "ip" \in up[i] => "enabled" \in lmstatus[i]

\* Nobody enables this interface.
Quiet(i) == stage[i] = "none" /\ "ip" \notin up[i] /\ addresses[i] = NoneRuns(i)

NetworkInv ==
  /\ NetworkTypeOK
  /\ \A i \in Interfaces :
       /\ stage[i] \notin {"none", "failed"} => HasDescriptor(i)
       /\ ~Port(i) => FrontInv(i)
       /\ i \notin Wanted => Quiet(i)

LEMMA Lists ==
  ASSUME NetworkTypeOK, NEW i \in Interfaces
  PROVE  /\ controller[i] \in Seq(ToSet(controller[i]))
         /\ ip_manager[i] \in Seq(ToSet(ip_manager[i]))
         /\ HasDescriptor(i) /\ NetworkAssumption =>
              ip_manager[i] # << >> /\ Head(ip_manager[i]) = ip_manager[i][1]
<1>1. /\ controller[i] \in Seq(ToSet(controller[i]))
      /\ ip_manager[i] \in Seq(ToSet(ip_manager[i]))
  BY DEF NetworkTypeOK, ListTypes
<1>2. ASSUME HasDescriptor(i), NetworkAssumption
      PROVE  ip_manager[i] # << >>
  <2> DEFINE imported == Imported(Managers[i])
  <2>1. imported \in Seq(ToSet(imported)) /\ imported # << >>
    BY <1>2, ImportedList DEF NetworkAssumption, HasDescriptor
  <2>2. ToSet(ip_manager[i]) = ToSet(imported)
    BY DEF NetworkTypeOK, ListTypes
  <2> HIDE DEF imported
  <2>3. Len(imported) \in Nat \ {0} /\ DOMAIN imported = 1..Len(imported)
    BY <2>1, EmptySeq, LenProperties
  <2>4. imported[1] \in ToSet(imported)
    BY <2>3 DEF ToSet
  <2>5. PICK k \in DOMAIN ip_manager[i] : TRUE
    BY <2>2, <2>4 DEF ToSet
  <2>6. DOMAIN ip_manager[i] = 1..Len(ip_manager[i])
    BY <1>1, LenProperties
  <2>7. ip_manager[i] = << >> => Len(ip_manager[i]) = 0
    BY EmptySeq
  <2> QED
    BY <2>5, <2>6, <2>7
<1>3. ip_manager[i] # << >> => Head(ip_manager[i]) = ip_manager[i][1]
  BY <1>1
<1> QED
  BY <1>1, <1>2, <1>3

-----------------------------------------------------------------------------
\* Types.

\* A list that is replaced by one with the same names.
Same(new, old) == new \in Seq(ToSet(old)) /\ ToSet(new) = ToSet(old)

LEMMA ListsKept ==
  ASSUME ListTypes, NEW i \in Interfaces, NEW c, NEW m, NEW l,
         UNCHANGED controller \/ controller' = [controller EXCEPT ![i] = c],
         UNCHANGED ip_manager \/ ip_manager' = [ip_manager EXCEPT ![i] = m],
         UNCHANGED link \/ link' = [link EXCEPT ![i] = l],
         Same(c, controller[i]), Same(m, ip_manager[i]), l \subseteq ToSet(controller[i])
  PROVE  ListTypes'
<1>1. DOMAIN controller' = Interfaces /\ DOMAIN ip_manager' = Interfaces /\ DOMAIN link' = Interfaces
  BY DEF ListTypes
<1>2. ASSUME NEW j \in Interfaces
      PROVE  Same(controller'[j], controller[j]) /\ Same(ip_manager'[j], ip_manager[j])
             /\ link'[j] \subseteq ToSet(controller[j])
  BY DEF ListTypes, Same
<1> QED
  BY <1>1, <1>2 DEF ListTypes, Same

LEMMA AddressesKept ==
  ASSUME AddressTypes, NEW i \in Interfaces, NEW by,
         UNCHANGED addresses \/ Start(i, by) \/ Stop(i, by)
  PROVE  AddressTypes'
BY DEF AddressTypes, Start, Stop

\* No step loses a name of a list.
LEMMA ListsTyped ==
  ASSUME NetworkAssumption, ListTypes, NEW i \in Interfaces,
         OneStep(i)
  PROVE  ListTypes'
<1> DEFINE Ctl(action, Good) == Execute(controller[i], action, "all", Good)
           Ip(action, need, Good) == Execute(ip_manager[i], action, need, Good)
<1>1. Same(controller[i], controller[i]) /\ Same(ip_manager[i], ip_manager[i])
      /\ link[i] \subseteq ToSet(controller[i])
  BY DEF Same, ListTypes
<1>2. \A action, Good : /\ Same(Ctl(action, Good).list, controller[i])
                        /\ Ctl(action, Good).by \subseteq ToSet(controller[i])
  BY <1>1, Executed DEF Same
<1>3. \A action, need, Good : Same(Ip(action, need, Good).list, ip_manager[i])
  BY <1>1, Executed DEF Same
<1>4. ASSUME UNCHANGED <<controller, ip_manager, link>>
      PROVE  ListTypes'
  BY <1>1, <1>4, ListsKept
<1> HIDE DEF Ctl, Ip
<1>5. CASE StartLink(i)
  <2>1. CASE UNCHANGED <<controller, link>>
    BY <1>4, <1>5, <2>1 DEF StartLink
  <2>2. ASSUME NEW Good,
               controller' = [controller EXCEPT ![i] = Ctl("enable", Good).list],
               link' = [link EXCEPT ![i] = @ \cup Ctl("enable", Good).by]
        PROVE  ListTypes'
    <3>1. link[i] \cup Ctl("enable", Good).by \subseteq ToSet(controller[i])
      BY <1>1, <1>2
    <3>2. UNCHANGED ip_manager
      BY <1>5 DEF StartLink
    <3>3. Same(Ctl("enable", Good).list, controller[i])
      BY <1>2
    <3>4. link' = [link EXCEPT ![i] = link[i] \cup Ctl("enable", Good).by]
      BY <2>2
    <3> QED
      BY <1>1, <2>2, <3>1, <3>2, <3>3, <3>4, ListsKept
  <2> QED
    BY <1>5, <2>1, <2>2 DEF StartLink, Ctl
<1>6. CASE StartIp(i)
  <2>1. CASE UNCHANGED ip_manager
    BY <1>4, <1>6, <2>1 DEF StartIp
  <2>2. ASSUME NEW Good, ip_manager' = [ip_manager EXCEPT ![i] = Ip("enable", "any", Good).list]
        PROVE  ListTypes'
    <3>1. UNCHANGED <<controller, link>>
      BY <1>6 DEF StartIp
    <3>2. Same(Ip("enable", "any", Good).list, ip_manager[i])
      BY <1>3
    <3> QED
      BY <1>1, <2>2, <3>1, <3>2, ListsKept
  <2> QED
    BY <1>6, <2>1, <2>2 DEF StartIp, Ip
<1>7. CASE StopLink(i)
  <2>1. CASE UNCHANGED <<controller, link>>
    BY <1>4, <1>7, <2>1 DEF StopLink
  <2>2. ASSUME NEW Good,
               controller' = [controller EXCEPT ![i] = Ctl("disable", Good).list],
               UNCHANGED link \/ link' = [link EXCEPT ![i] = @ \ Ctl("disable", Good).by]
        PROVE  ListTypes'
    <3>1. link[i] \ Ctl("disable", Good).by \subseteq ToSet(controller[i])
      BY <1>1
    <3>2. UNCHANGED ip_manager
      BY <1>7 DEF StopLink
    <3>3. Same(Ctl("disable", Good).list, controller[i])
      BY <1>2
    <3>4. UNCHANGED link \/ link' = [link EXCEPT ![i] = link[i] \ Ctl("disable", Good).by]
      BY <2>2
    <3> QED
      BY <1>1, <2>2, <3>1, <3>2, <3>3, <3>4, ListsKept
  <2> QED
    BY <1>7, <2>1, <2>2 DEF StopLink, Ctl
<1>8. CASE Rescan(i)
  <2> DEFINE managers == Rescanned(Imported(Managers[i]), Head(ip_manager[i]))
             links == IF controller[i] = << >> THEN controller[i]
                      ELSE Rescanned(Imported(Controllers[i]), Head(controller[i]))
  <2>1. Same(managers, ip_manager[i])
    <3>1. Imported(Managers[i]) \in Seq(ToSet(Imported(Managers[i])))
      BY ImportedList DEF NetworkAssumption
    <3>2. Same(managers, Imported(Managers[i]))
      BY <3>1, FrontAgain DEF Same
    <3> QED
      BY <3>2 DEF ListTypes, Same
  <2>2. Same(links, controller[i])
    <3>1. Imported(Controllers[i]) \in Seq(ToSet(Imported(Controllers[i])))
      BY ImportedList DEF NetworkAssumption
    <3>2. Same(Rescanned(Imported(Controllers[i]), Head(controller[i])), Imported(Controllers[i]))
      BY <3>1, FrontAgain DEF Same
    <3> QED
      BY <1>1, <3>2 DEF ListTypes, Same
  <2>3. /\ ip_manager' = [ip_manager EXCEPT ![i] = managers]
        /\ controller' = [controller EXCEPT ![i] = links]
        /\ link' = link
    BY <1>8 DEF Rescan
  <2> HIDE DEF managers, links
  <2> QED
    BY <1>1, <2>1, <2>2, <2>3, ListsKept
<1>9. ASSUME NEW c \in CustomCommands, Custom(i, c)
      PROVE  ListTypes'
  <2>1. CASE UNCHANGED <<controller, ip_manager>>
    BY <1>4, <1>9, <2>1 DEF Custom
  <2>2. ASSUME NEW Good, controller' = [controller EXCEPT ![i] = Ctl(c, Good).list],
               UNCHANGED ip_manager \/ ip_manager' = [ip_manager EXCEPT ![i] = Ip(c, "any", Good).list]
        PROVE  ListTypes'
    <3>1. UNCHANGED link
      BY <1>9 DEF Custom
    <3>2. Same(Ctl(c, Good).list, controller[i]) /\ Same(Ip(c, "any", Good).list, ip_manager[i])
      BY <1>2, <1>3
    <3> QED
      BY <1>1, <2>2, <3>1, <3>2, ListsKept
  <2> QED
    BY <1>9, <2>1, <2>2 DEF Custom, Ctl, Ip
<1>10. CASE EnableInterface(i) \/ DisableInterface(i) \/ BridgePorts(i) \/ BlockPort(i)
            \/ UnblockPorts(i) \/ Failed(i) \/ StopIp(i)
  BY <1>4, <1>10 DEF EnableInterface, DisableInterface, BridgePorts, BlockPort, UnblockPorts,
     Failed, StopIp
<1> QED
  BY <1>5, <1>6, <1>7, <1>8, <1>9, <1>10 DEF OneStep, InterfaceStep

LEMMA LengthOfBridge ==
  ASSUME NetworkAssumption
  PROVE  \A i \in Interfaces : Len(Bridge[i]) \in Nat
BY LenProperties DEF NetworkAssumption

\* A bridge is at a port of its own.
LEMMA OwnPort ==
  ASSUME NetworkAssumption, NEW i \in Interfaces, NEW k \in 1..Len(Bridge[i])
  PROVE  Bridge[i][k] \in Interfaces \ {i} /\ Bridge[i][k] \in ToSet(Bridge[i])
<1>1. Bridge[i] \in Seq(Interfaces \ {i})
  BY DEF NetworkAssumption
<1>2. DOMAIN Bridge[i] = 1..Len(Bridge[i])
  BY <1>1, LenProperties
<1> QED
  BY <1>1, <1>2, ElementOfSeq DEF ToSet

\* While it looks at its ports a bridge stops at most its own IP manager.
LEMMA PortsSeen ==
  ASSUME NEW i \in Interfaces, BridgePorts(i)
  PROVE  /\ stage[i] = "bridge" /\ UNCHANGED <<lmstatus, up, ip_manager, starts, scans>>
         /\ UNCHANGED addresses \/ \E by : Stop(i, by)
         /\ \/ Fail(i) /\ (UNCHANGED port \/ PortIs(i, 1))
            \/ To(i, "scripts") /\ PortIs(i, 1)
            \/ ~(port[i] > Len(Bridge[i])) /\ UNCHANGED stage /\ PortIs(i, port[i] + 1)
            \/ ~(port[i] > Len(Bridge[i])) /\ To(i, "block") /\ UNCHANGED port
<1>1. /\ stage[i] = "bridge" /\ UNCHANGED <<lmstatus, up, ip_manager, starts, scans>>
      /\ CreateBridgeFails(i) \/ NextPort(i)
  BY DEF BridgePorts
<1>2. CASE CreateBridgeFails(i)
  BY <1>1, <1>2 DEF CreateBridgeFails
<1>3. CASE NextPort(i) /\ port[i] > Len(Bridge[i])
  BY <1>1, <1>3 DEF NextPort
<1>4. CASE NextPort(i) /\ ~(port[i] > Len(Bridge[i]))
  <2>1. CASE "enabled" \notin lmstatus[Bridge[i][port[i]]]
    BY <1>1, <1>4, <2>1 DEF NextPort
  <2>2. CASE ~("enabled" \notin lmstatus[Bridge[i][port[i]]])
    BY <1>1, <1>4, <2>2 DEF NextPort
  <2> QED
    BY <2>1, <2>2
<1> QED
  BY <1>1, <1>2, <1>3, <1>4

\* The port a bridge blocks is one of its own.
LEMMA PortBlocked ==
  ASSUME NetworkAssumption, PortTypes, NEW i \in Interfaces, BlockPort(i)
  PROVE  \E Good : \E p \in Interfaces \ {i} :
           /\ p \in ToSet(Bridge[i]) /\ stage[p] = "none"
           /\ BlockIp(p, Good) /\ To(i, "scripts")
<1> DEFINE p == Bridge[i][port[i]]
<1>1. port[i] \in 1..Len(Bridge[i])
  BY LengthOfBridge DEF PortTypes, BlockPort
<1>2. p \in Interfaces \ {i} /\ p \in ToSet(Bridge[i])
  BY <1>1, OwnPort
<1>3. stage[p] = "none" /\ To(i, "scripts") /\ \E Good : BlockIp(p, Good)
  BY DEF BlockPort
<1> HIDE DEF p
<1> QED
  BY <1>2, <1>3

\* So is the one it unblocks.
LEMMA Unblocked ==
  ASSUME NetworkAssumption, PortTypes, NEW i \in Interfaces, UnblockPorts(i)
  PROVE  \/ To(i, "failed") /\ PortIs(i, 1) /\ UNCHANGED <<lmstatus, up>>
         \/ \E p \in Interfaces \ {i} :
              /\ p \in ToSet(Bridge[i]) /\ port[i] \in 1..Len(Bridge[i])
              /\ Flag(p, up[p] \ {"blocked"}) /\ lmstatus' = [lmstatus EXCEPT ![p] = {"ok"}]
              /\ PortIs(i, port[i] + 1) /\ UNCHANGED stage
<1>1. CASE port[i] > Len(Bridge[i])
  BY <1>1 DEF UnblockPorts
<1>2. CASE ~(port[i] > Len(Bridge[i]))
  <2> DEFINE p == Bridge[i][port[i]]
  <2>1. port[i] \in 1..Len(Bridge[i])
    BY <1>2, LengthOfBridge DEF PortTypes
  <2>2. p \in Interfaces \ {i} /\ p \in ToSet(Bridge[i])
    BY <2>1, OwnPort
  <2>3. /\ Flag(p, up[p] \ {"blocked"}) /\ lmstatus' = [lmstatus EXCEPT ![p] = {"ok"}]
        /\ PortIs(i, port[i] + 1) /\ UNCHANGED stage
    BY <1>2 DEF UnblockPorts
  <2> HIDE DEF p
  <2> QED
    BY <2>1, <2>2, <2>3
<1> QED
  BY <1>1, <1>2

LEMMA FlagsTyped ==
  ASSUME NetworkAssumption, NetworkTypeOK, NEW i \in Interfaces,
         OneStep(i)
  PROVE  FlagTypes'
<1> USE DEF InterfaceStages, FlagTypes, NetworkTypeOK
<1>1. CASE EnableInterface(i)
  BY <1>1 DEF EnableInterface, NetworkAssumption, To
<1>2. CASE DisableInterface(i)
  BY <1>2 DEF DisableInterface, To
<1>3. CASE BridgePorts(i)
  <2>1. UNCHANGED <<lmstatus, up, starts, scans>>
    BY <1>3, PortsSeen
  <2>2. Fail(i) \/ To(i, "scripts") \/ UNCHANGED stage \/ To(i, "block")
    BY <1>3, PortsSeen
  <2> QED
    BY <2>1, <2>2 DEF Fail, To
<1>12. CASE BlockPort(i)
  <2>2. ASSUME NEW p \in Interfaces \ {i}, NEW Good, BlockIp(p, Good), To(i, "scripts")
        PROVE  FlagTypes'
    <3>1. UNCHANGED <<starts, scans>>
      BY <1>12 DEF BlockPort
    <3>2. stage' = [stage EXCEPT ![i] = "scripts"]
      BY <2>2 DEF To
    <3>3. /\ \/ UNCHANGED up
             \/ up' = [up EXCEPT ![p] = up[p] \cup {"blocked"}]
             \/ up' = [up EXCEPT ![p] = (up[p] \cup {"blocked"}) \ {"ip"}]
          /\ \/ lmstatus' = [lmstatus EXCEPT ![p] = {"ok"}]
             \/ lmstatus' = [lmstatus EXCEPT ![p] = {"failed", "enabled"}]
      BY <2>2 DEF BlockIp, Flag
    <3> QED
      BY <3>1, <3>2, <3>3
  <2> QED
    BY <1>12, <2>2, PortBlocked
<1>4. CASE StartLink(i)
  <2>1. UNCHANGED <<lmstatus, starts, scans>>
    BY <1>4 DEF StartLink
  <2>2. /\ \E s \in InterfaceStages : stage' = [stage EXCEPT ![i] = s]
        /\ UNCHANGED up \/ up' = [up EXCEPT ![i] = up[i] \cup {"ctl"}]
    BY <1>4 DEF StartLink, To, Fail, Flag
  <2> QED
    BY <2>1, <2>2
<1>5. CASE StartIp(i)
  <2>1. UNCHANGED <<starts, scans>>
    BY <1>5 DEF StartIp
  <2>2. CASE Fail(i) /\ UNCHANGED <<lmstatus, up>>
    BY <2>1, <2>2 DEF To, Fail
  <2>3. CASE Answer(i, {"ok", "enabled"}) /\ (UNCHANGED up \/ Flag(i, up[i] \cup {"ip"}))
    BY <2>1, <2>3 DEF To, Answer, Flag
  <2>4. ASSUME NEW Good,
               LET done == Execute(ip_manager[i], "enable", "any", Good)
               IN IF done.is = "ok"
                  THEN /\ Flag(i, up[i] \cup {"ip"}) /\ Start(i, done.by)
                       /\ Answer(i, {"ok", "enabled"})
                  ELSE Fail(i) /\ UNCHANGED <<lmstatus, up, addresses>>
        PROVE  FlagTypes'
    BY <2>2, <2>3, <2>4
  <2> QED
    BY <1>5, <2>3, <2>4 DEF StartIp
<1>6. CASE UnblockPorts(i)
  <2>1. UNCHANGED <<starts, scans>>
    BY <1>6 DEF UnblockPorts
  <2>2. CASE To(i, "failed") /\ UNCHANGED <<lmstatus, up>>
    BY <2>1, <2>2 DEF To
  <2>3. ASSUME NEW p \in Interfaces, Flag(p, up[p] \ {"blocked"}),
               lmstatus' = [lmstatus EXCEPT ![p] = {"ok"}], UNCHANGED stage
        PROVE  FlagTypes'
    BY <2>1, <2>3 DEF Flag
  <2> QED
    BY <1>6, <2>2, <2>3, Unblocked
<1>7. CASE Failed(i)
  BY <1>7 DEF Failed, Answer, To
<1>8. CASE StopIp(i)
  BY <1>8 DEF StopIp, Answer, To, Flag
<1>9. CASE StopLink(i)
  BY <1>9 DEF StopLink, Answer, To, Flag
<1>10. CASE Rescan(i)
  BY <1>10 DEF Rescan, NetworkAssumption
<1>11. ASSUME NEW c \in CustomCommands, Custom(i, c)
       PROVE  FlagTypes'
  <2>1. \A Good : /\ Execute(controller[i], c, "all", Good).is \in {"ok", "failed", "idle"}
                  /\ \A need : Execute(ip_manager[i], c, need, Good).is \in {"ok", "failed", "idle"}
    BY Lists, Executed
  <2> QED
    BY <1>11, <2>1 DEF Custom, Answer, To, Flag
<1> QED
  BY <1>1, <1>2, <1>3, <1>4, <1>5, <1>6, <1>7, <1>8, <1>9, <1>10, <1>11, <1>12
     DEF OneStep, InterfaceStep

LEMMA PortsTyped ==
  ASSUME NetworkAssumption, NetworkTypeOK, NEW i \in Interfaces,
         OneStep(i)
  PROVE  PortTypes'
<1> USE LengthOfBridge DEF PortTypes
<1>0. PortTypes /\ stage \in [Interfaces -> InterfaceStages]
  BY DEF NetworkTypeOK, FlagTypes
<1>1. ASSUME UNCHANGED port,
             UNCHANGED stage \/ \E s : s # "block" /\ stage' = [stage EXCEPT ![i] = s]
      PROVE  PortTypes'
  BY <1>0, <1>1
<1>2. CASE BridgePorts(i)
  <2>1. \/ Fail(i) /\ (UNCHANGED port \/ PortIs(i, 1))
        \/ To(i, "scripts") /\ PortIs(i, 1)
        \/ ~(port[i] > Len(Bridge[i])) /\ UNCHANGED stage /\ PortIs(i, port[i] + 1)
        \/ ~(port[i] > Len(Bridge[i])) /\ To(i, "block") /\ UNCHANGED port
    BY <1>2, PortsSeen
  <2>2. stage[i] = "bridge"
    BY <1>2, PortsSeen
  <2>3. CASE Fail(i) /\ (UNCHANGED port \/ PortIs(i, 1))
    BY <1>0, <2>3 DEF Fail, To, PortIs
  <2>4. CASE To(i, "scripts") /\ PortIs(i, 1)
    BY <1>0, <2>4 DEF To, PortIs
  <2>5. CASE ~(port[i] > Len(Bridge[i])) /\ UNCHANGED stage /\ PortIs(i, port[i] + 1)
    BY <1>0, <2>2, <2>5 DEF PortIs
  <2>6. CASE ~(port[i] > Len(Bridge[i])) /\ To(i, "block") /\ UNCHANGED port
    BY <1>0, <2>6 DEF To
  <2> QED
    BY <2>1, <2>3, <2>4, <2>5, <2>6
<1>3. CASE BlockPort(i)
  <2>1. To(i, "scripts") /\ PortIs(i, 1)
    BY <1>3 DEF BlockPort
  <2> QED
    BY <1>0, <2>1 DEF To, PortIs
<1>4. CASE UnblockPorts(i)
  <2>1. \/ To(i, "failed") /\ PortIs(i, 1)
        \/ port[i] \in 1..Len(Bridge[i]) /\ PortIs(i, port[i] + 1) /\ UNCHANGED stage
    BY <1>0, <1>4, Unblocked
  <2>2. stage[i] = "unblock"
    BY <1>4 DEF UnblockPorts
  <2>3. CASE To(i, "failed") /\ PortIs(i, 1)
    BY <1>0, <2>3 DEF To, PortIs
  <2>4. CASE port[i] \in 1..Len(Bridge[i]) /\ PortIs(i, port[i] + 1) /\ UNCHANGED stage
    BY <1>0, <2>2, <2>4 DEF PortIs
  <2> QED
    BY <2>1, <2>3, <2>4
<1>5. CASE EnableInterface(i) \/ DisableInterface(i) \/ StartLink(i) \/ Failed(i) \/ StopLink(i)
  <2>1. UNCHANGED port /\ \E s : s # "block" /\ stage' = [stage EXCEPT ![i] = s]
    BY <1>5 DEF EnableInterface, DisableInterface, StartLink, Failed, StopLink, Fail, To, Answer
  <2> QED
    BY <1>1, <2>1
<1>6. CASE StartIp(i) \/ StopIp(i)
  <2>1. UNCHANGED port /\ \E s : s # "block" /\ stage' = [stage EXCEPT ![i] = s]
    BY <1>6 DEF StartIp, StopIp, Fail, To, Answer
  <2> QED
    BY <1>1, <2>1
<1>7. CASE Rescan(i)
  BY <1>1, <1>7 DEF Rescan
<1>8. ASSUME NEW c \in CustomCommands, Custom(i, c)
      PROVE  PortTypes'
  <2>1. UNCHANGED port /\ stage' = [stage EXCEPT ![i] = "none"]
    BY <1>8 DEF Custom, Answer, To
  <2> QED
    BY <1>1, <2>1
<1> QED
  BY <1>2, <1>3, <1>4, <1>5, <1>6, <1>7, <1>8 DEF OneStep, InterfaceStep

LEMMA AddressesTyped ==
  ASSUME NetworkAssumption, NetworkTypeOK, NEW i \in Interfaces,
         OneStep(i)
  PROVE  AddressTypes'
<1>1. CASE UNCHANGED addresses
  BY <1>1, AddressesKept DEF NetworkTypeOK
<1>2. ASSUME NEW j \in Interfaces, NEW by, Start(j, by) \/ Stop(j, by)
      PROVE  AddressTypes'
  BY <1>2, AddressesKept DEF NetworkTypeOK
<1>3. CASE BridgePorts(i)
  BY <1>1, <1>2, <1>3, PortsSeen
<1>7. CASE BlockPort(i)
  <2>1. ASSUME NEW p \in Interfaces, NEW Good, BlockIp(p, Good)
        PROVE  AddressTypes'
    BY <1>1, <1>2, <2>1 DEF BlockIp
  <2> QED
    BY <1>7, <2>1, PortBlocked DEF NetworkTypeOK
<1>4. CASE StartIp(i) \/ StopIp(i)
  BY <1>1, <1>2, <1>4 DEF StartIp, StopIp
<1>5. ASSUME NEW c \in CustomCommands, Custom(i, c)
      PROVE  AddressTypes'
  BY <1>1, <1>2, <1>5 DEF Custom
<1>6. CASE EnableInterface(i) \/ DisableInterface(i) \/ Rescan(i) \/ StartLink(i)
           \/ UnblockPorts(i) \/ Failed(i) \/ StopLink(i)
  BY <1>1, <1>6 DEF EnableInterface, DisableInterface, Rescan, StartLink, UnblockPorts, Failed,
     StopLink
<1> QED
  BY <1>3, <1>4, <1>5, <1>6, <1>7 DEF OneStep, InterfaceStep

-----------------------------------------------------------------------------
\* The IP manager that runs.

\* When the one that runs is stopped, none runs.
LEMMA StoppedAll ==
  ASSUME DOMAIN addresses = Interfaces, NEW i \in Interfaces, NEW by, Stop(i, by),
         \/ addresses[i] = NoneRuns(i)
         \/ addresses[i] = OneRuns(i) /\ by = {Head(ip_manager[i])}
  PROVE  addresses'[i] = NoneRuns(i)
BY DEF Stop, NoneRuns, OneRuns

\* Another interface is left alone; a port may be blocked and loses its status.
LEMMA Others ==
  ASSUME NetworkAssumption, NetworkTypeOK, NEW i \in Interfaces, NEW j \in Interfaces \ {i},
         OneStep(i)
  PROVE  /\ stage'[j] = stage[j] /\ ip_manager'[j] = ip_manager[j]
         /\ j \notin ToSet(Bridge[i]) =>
              addresses'[j] = addresses[j] /\ up'[j] = up[j] /\ lmstatus'[j] = lmstatus[j]
         /\ "ip" \notin up[j] => addresses'[j] = addresses[j] /\ "ip" \notin up'[j]
<1> USE DEF NetworkTypeOK, FlagTypes, ListTypes, AddressTypes
<1>1. CASE EnableInterface(i)
  BY <1>1 DEF EnableInterface, To
<1>2. CASE DisableInterface(i)
  BY <1>2 DEF DisableInterface, To
<1>3. CASE BridgePorts(i)
  <2>1. UNCHANGED <<lmstatus, up, ip_manager>> /\ (UNCHANGED addresses \/ \E by : Stop(i, by))
    BY <1>3, PortsSeen
  <2>2. UNCHANGED stage \/ \E s : stage' = [stage EXCEPT ![i] = s]
    BY <1>3, PortsSeen DEF Fail, To
  <2> QED
    BY <2>1, <2>2 DEF Stop
<1>12. CASE BlockPort(i)
  <2>2. ASSUME NEW p \in Interfaces \ {i}, NEW Good, p \in ToSet(Bridge[i]), BlockIp(p, Good),
               To(i, "scripts")
        PROVE  /\ stage'[j] = stage[j] /\ ip_manager'[j] = ip_manager[j]
               /\ j \notin ToSet(Bridge[i]) =>
                    addresses'[j] = addresses[j] /\ up'[j] = up[j] /\ lmstatus'[j] = lmstatus[j]
               /\ "ip" \notin up[j] => addresses'[j] = addresses[j] /\ "ip" \notin up'[j]
    <3>1. stage'[j] = stage[j] /\ ip_manager'[j] = ip_manager[j]
      BY <1>12, <2>2 DEF BlockPort, To
    <3>2. CASE j # p
      BY <2>2, <3>1, <3>2 DEF BlockIp, Flag, Stop
    <3>3. CASE j = p
      BY <2>2, <3>1, <3>3 DEF BlockIp, Flag
    <3> QED
      BY <3>2, <3>3
  <2> QED
    BY <1>12, <2>2, PortBlocked
<1>4. CASE StartLink(i)
  <2>1. UNCHANGED <<lmstatus, ip_manager, addresses>>
    BY <1>4 DEF StartLink
  <2>2. /\ \E s : stage' = [stage EXCEPT ![i] = s]
        /\ UNCHANGED up \/ \E f : up' = [up EXCEPT ![i] = f]
    BY <1>4 DEF StartLink, To, Fail, Flag
  <2> QED
    BY <2>1, <2>2
<1>5. CASE StartIp(i)
  BY <1>5 DEF StartIp, To, Fail, Flag, Answer, Start
<1>6. CASE UnblockPorts(i)
  <2>1. UNCHANGED <<ip_manager, addresses>>
    BY <1>6 DEF UnblockPorts
  <2>2. CASE To(i, "failed") /\ UNCHANGED <<lmstatus, up>>
    BY <2>1, <2>2 DEF To
  <2>3. ASSUME NEW p \in Interfaces \ {i}, p \in ToSet(Bridge[i]),
               Flag(p, up[p] \ {"blocked"}), lmstatus' = [lmstatus EXCEPT ![p] = {"ok"}],
               UNCHANGED stage
        PROVE  /\ j \notin ToSet(Bridge[i]) => up'[j] = up[j] /\ lmstatus'[j] = lmstatus[j]
               /\ "ip" \notin up[j] => "ip" \notin up'[j]
    BY <2>3 DEF Flag
  <2> QED
    BY <1>6, <2>1, <2>2, <2>3, Unblocked
<1>7. CASE Failed(i)
  BY <1>7 DEF Failed, Answer, To
<1>8. CASE StopIp(i)
  BY <1>8 DEF StopIp, Answer, To, Flag, Stop
<1>9. CASE StopLink(i)
  BY <1>9 DEF StopLink, Answer, To, Flag
<1>10. CASE Rescan(i)
  BY <1>10 DEF Rescan
<1>11. ASSUME NEW c \in CustomCommands, Custom(i, c)
       PROVE  /\ stage'[j] = stage[j] /\ ip_manager'[j] = ip_manager[j]
              /\ addresses'[j] = addresses[j] /\ up'[j] = up[j] /\ lmstatus'[j] = lmstatus[j]
  BY <1>11 DEF Custom, Answer, To, Flag, Start
<1> QED
  BY <1>1, <1>2, <1>3, <1>4, <1>5, <1>6, <1>7, <1>8, <1>9, <1>10, <1>11, <1>12
     DEF OneStep, InterfaceStep

-----------------------------------------------------------------------------
\* What an action does to the status, the flags and the processes of its own interface.
LEMMA Own ==
  ASSUME NetworkAssumption, NetworkInv, NEW i \in Interfaces, OneStep(i),
         "enable-ip" \notin CustomCommands
  PROVE  /\ stage'[i] \notin {"none", "failed"} => HasDescriptor(i)
         /\ FrontInv(i) => FrontInv(i)'
         /\ Quiet(i) /\ i \notin Wanted => Quiet(i)'
<1> USE DEF NetworkInv, NetworkTypeOK, FlagTypes, ListTypes, AddressTypes
<1> DEFINE Ip(action, need, Good) == Execute(ip_manager[i], action, need, Good)
<1>0. \A action, need, Good :
        /\ Ip(action, need, Good).is \in {"ok", "failed", "idle"}
        /\ Ip(action, need, Good).list \in Seq(ToSet(ip_manager[i]))
        /\ Len(Ip(action, need, Good).list) = Len(ip_manager[i])
        /\ ip_manager[i] # << >> => Ip(action, need, Good).is # "idle"
        /\ need # "all" /\ Ip(action, need, Good).is = "ok" =>
             Ip(action, need, Good).by = {Ip(action, need, Good).list[1]}
        /\ need = "this" => Ip(action, need, Good).list[1] = ip_manager[i][1]
  BY Lists, Executed
<1> HIDE DEF Ip
<1>1. CASE EnableInterface(i)
  BY <1>1 DEF EnableInterface, To, FrontInv, Quiet, OneRuns
<1>2. CASE DisableInterface(i)
  BY <1>2 DEF DisableInterface, To, FrontInv, Quiet, OneRuns
<1>3. CASE BridgePorts(i)
  <2>1. /\ HasDescriptor(i) /\ stage[i] = "bridge" /\ UNCHANGED <<up, lmstatus, ip_manager>>
        /\ FrontInv(i) => "ip" \notin up[i] /\ addresses[i] = NoneRuns(i)
    BY <1>3, PortsSeen DEF FrontInv
  <2>2. addresses[i] = NoneRuns(i) => addresses'[i] = NoneRuns(i)
    BY <1>3, PortsSeen, StoppedAll
  <2>3. stage'[i] \in {"bridge", "block", "scripts", "unblock", "failed"}
    BY <1>3, PortsSeen DEF Fail, To
  <2> QED
    BY <2>1, <2>2, <2>3 DEF FrontInv, Quiet
<1>12. CASE BlockPort(i)
  <2>1. /\ HasDescriptor(i) /\ stage[i] = "block" /\ UNCHANGED ip_manager
        /\ FrontInv(i) => "ip" \notin up[i] /\ addresses[i] = NoneRuns(i)
    BY <1>12 DEF BlockPort, FrontInv
  <2>2. ASSUME NEW p \in Interfaces \ {i}, NEW Good, BlockIp(p, Good), To(i, "scripts")
        PROVE  /\ stage'[i] = "scripts"
               /\ addresses'[i] = addresses[i] /\ up'[i] = up[i] /\ lmstatus'[i] = lmstatus[i]
    BY <2>2 DEF BlockIp, Flag, Stop, To
  <2> QED
    BY <1>12, <2>1, <2>2, PortBlocked DEF FrontInv, Quiet
<1>4. CASE StartLink(i)
  BY <1>4 DEF StartLink, To, Fail, Flag, FrontInv, Quiet, OneRuns
<1>5. CASE StartIp(i)
  <2>0. /\ HasDescriptor(i) /\ stage[i] = "address"
        /\ FrontInv(i) => "ip" \notin up[i] /\ addresses[i] = NoneRuns(i)
    BY <1>5 DEF StartIp, FrontInv
  <2>1. CASE Answer(i, {"ok", "enabled"}) /\ UNCHANGED <<up, ip_manager, addresses>>
    BY <2>0, <2>1 DEF Answer, To, FrontInv, Quiet
  <2>2. ASSUME NEW Good,
               LET done == Execute(ip_manager[i], "enable", "any", Good)
               IN /\ ip_manager' = [ip_manager EXCEPT ![i] = done.list]
                  /\ IF done.is = "ok"
                     THEN /\ Flag(i, up[i] \cup {"ip"}) /\ Start(i, done.by)
                          /\ Answer(i, {"ok", "enabled"})
                     ELSE Fail(i) /\ UNCHANGED <<lmstatus, up, addresses>>
        PROVE  FrontInv(i) => FrontInv(i)'
    <3> DEFINE done == Execute(ip_manager[i], "enable", "any", Good)
    <3> SUFFICES ASSUME FrontInv(i) PROVE FrontInv(i)'
      OBVIOUS
    <3>1. /\ ip_manager' = [ip_manager EXCEPT ![i] = done.list]
          /\ IF done.is = "ok"
             THEN Flag(i, up[i] \cup {"ip"}) /\ Start(i, done.by) /\ Answer(i, {"ok", "enabled"})
             ELSE Fail(i) /\ UNCHANGED <<lmstatus, up, addresses>>
      BY <2>2
    <3>2. /\ done.list \in Seq(ToSet(ip_manager[i])) /\ Len(done.list) = Len(ip_manager[i])
          /\ done.is = "ok" => done.by = {done.list[1]}
      BY <1>0 DEF Ip
    <3> HIDE DEF done
    <3>3. Head(done.list) = done.list[1] /\ Head(ip_manager'[i]) = done.list[1]
      <4>1. ip_manager'[i] = done.list
        BY <3>1
      <4>2. ip_manager[i] # << >> /\ ip_manager[i] \in Seq(ToSet(ip_manager[i]))
        BY <2>0, Lists
      <4>3. done.list # << >>
        BY <3>2, <4>2, EmptySeq
      <4>4. Head(done.list) = done.list[1]
        BY <3>2, <4>3, HeadTailProperties
      <4> QED
        BY <4>1, <4>4
    <3>4. CASE done.is = "ok"
      <4>1. addresses'[i] = [m \in ToSet(Managers[i]) |-> IF m = done.list[1] THEN 1 ELSE 0]
        <5>1. Start(i, {done.list[1]}) /\ DOMAIN addresses = Interfaces
              /\ addresses[i] = NoneRuns(i)
          BY <2>0, <3>1, <3>2, <3>4
        <5> DEFINE x == done.list[1]
        <5> HIDE DEF x
        <5>2. Start(i, {x})
          BY <5>1 DEF x
        <5>3. addresses'[i] = [m \in ToSet(Managers[i]) |-> IF m = x THEN 1 ELSE 0]
          BY <5>1, <5>2 DEF Start, NoneRuns
        <5> QED
          BY <5>3 DEF x
      <4>2. addresses'[i] = OneRuns(i)'
        BY <3>3, <4>1 DEF OneRuns
      <4>3. stage'[i] = "none" /\ "ip" \in up'[i] /\ "enabled" \in lmstatus'[i]
        BY <3>1, <3>4 DEF Answer, To, Flag
      <4> QED
        BY <4>2, <4>3 DEF FrontInv
    <3>5. CASE done.is # "ok"
      <4>1. stage'[i] \in {"unblock", "failed"}
        BY <3>1, <3>5 DEF Fail, To
      <4> QED
        BY <2>0, <3>1, <3>5, <4>1 DEF FrontInv, NoneRuns
    <3> QED
      BY <3>4, <3>5
  <2>3. stage'[i] \in {"none", "unblock", "failed"}
    BY <1>5 DEF StartIp, To, Fail, Answer
  <2>4. FrontInv(i) => FrontInv(i)'
    BY <1>5, <2>1, <2>2 DEF StartIp
  <2> QED
    BY <2>0, <2>3, <2>4 DEF Quiet
<1>6. CASE UnblockPorts(i)
  <2>1. stage[i] = "unblock" /\ HasDescriptor(i) /\ UNCHANGED <<ip_manager, addresses>>
    BY <1>6 DEF UnblockPorts
  <2>2. /\ up'[i] = up[i] /\ lmstatus'[i] = lmstatus[i]
        /\ stage'[i] \in {"unblock", "failed"}
    BY <1>6, <2>1, Unblocked DEF Flag, To
  <2> QED
    BY <2>1, <2>2 DEF FrontInv, Quiet, OneRuns
<1>7. CASE Failed(i)
  BY <1>7 DEF Failed, Answer, To, FrontInv, Quiet, OneRuns
<1>8. CASE StopIp(i)
  <2> PICK Good :
        LET done == Execute(ip_manager[i], "disable", "this", Good)
        IN IF done.is = "failed"
           THEN Answer(i, {"failed", "enabled"}) /\ UNCHANGED <<up, addresses>>
           ELSE Flag(i, up[i] \ {"ip"}) /\ Stop(i, done.by) /\ To(i, "stop_link")
                /\ UNCHANGED lmstatus
    BY <1>8 DEF StopIp
  <2> DEFINE done == Execute(ip_manager[i], "disable", "this", Good)
  <2>1. IF done.is = "failed"
        THEN Answer(i, {"failed", "enabled"}) /\ UNCHANGED <<up, addresses>>
        ELSE /\ Flag(i, up[i] \ {"ip"}) /\ Stop(i, done.by) /\ To(i, "stop_link")
             /\ UNCHANGED lmstatus
    OBVIOUS
  <2>2. stage[i] = "stop_ip" /\ HasDescriptor(i) /\ UNCHANGED ip_manager
    BY <1>8 DEF StopIp
  <2>3. done.is # "failed" => done.by = {Head(ip_manager[i])}
    <3>1. ip_manager[i] # << >> /\ Head(ip_manager[i]) = ip_manager[i][1]
          /\ ip_manager[i] \in Seq(ToSet(ip_manager[i]))
      BY <2>2, Lists
    <3>2. /\ done.is \in {"ok", "failed", "idle"} /\ done.is # "idle"
          /\ done.is = "ok" => done.by = {done.list[1]}
          /\ done.list[1] = ip_manager[i][1]
      BY <1>0, <3>1 DEF Ip
    <3> HIDE DEF done
    <3> QED
      BY <3>1, <3>2
  <2> HIDE DEF done
  <2>4. CASE done.is = "failed"
    BY <2>1, <2>2, <2>4 DEF Answer, To, FrontInv, Quiet, OneRuns, NoneRuns
  <2>5. CASE done.is # "failed"
    <3>1. FrontInv(i) => addresses'[i] = NoneRuns(i)
      BY <2>1, <2>2, <2>3, <2>5, StoppedAll DEF FrontInv
    <3>2. stage'[i] = "stop_link" /\ "ip" \notin up'[i]
      BY <2>1, <2>5 DEF Flag, To
    <3> QED
      BY <2>2, <3>1, <3>2 DEF FrontInv, Quiet, NoneRuns
  <2> QED
    BY <2>4, <2>5
<1>9. CASE StopLink(i)
  BY <1>9 DEF StopLink, Answer, To, Flag, FrontInv, Quiet, OneRuns
<1>10. CASE Rescan(i)
  <2>1. /\ HasDescriptor(i) /\ stage[i] = "none" /\ UNCHANGED <<lmstatus, up, addresses, stage>>
        /\ ip_manager'[i] = Rescanned(Imported(Managers[i]), Head(ip_manager[i]))
    BY <1>10 DEF Rescan
  <2> DEFINE list == Imported(Managers[i])
             name == Head(ip_manager[i])
  <2>2. list \in Seq(ToSet(list))
    BY ImportedList DEF NetworkAssumption
  <2>3. ip_manager[i] # << >> /\ name = ip_manager[i][1]
        /\ ip_manager[i] \in Seq(ToSet(ip_manager[i]))
    BY <2>1, Lists
  <2>4. name \in ToSet(list)
    <3>1. 1 \in DOMAIN ip_manager[i]
      BY <2>3, EmptySeq, LenProperties
    <3>2. ToSet(ip_manager[i]) = ToSet(list)
      OBVIOUS
    <3> HIDE DEF list
    <3> QED
      BY <2>3, <3>1, <3>2 DEF ToSet
  <2> HIDE DEF list
  <2> DEFINE new == Rescanned(list, name)
  <2>5. new \in Seq(ToSet(list)) /\ ToSet(new) = ToSet(list) /\ new[1] = name
    BY <2>2, <2>4, FrontAgain
  <2> HIDE DEF new, name
  <2>6. Head(new) = name
    <3>1. DOMAIN new = 1..Len(new) /\ Len(new) \in Nat
      BY <2>5, LenProperties
    <3>2. \E x \in DOMAIN new : TRUE
      BY <2>4, <2>5 DEF ToSet
    <3>3. new # << >>
      BY <3>1, <3>2, <2>5, EmptySeq
    <3> QED
      BY <2>5, <3>3, HeadTailProperties
  <2>7. Head(ip_manager'[i]) = Head(ip_manager[i])
    BY <2>1, <2>6 DEF new, name, list
  <2> QED
    BY <2>1, <2>7 DEF FrontInv, Quiet, OneRuns, NoneRuns
<1>11. ASSUME NEW c \in CustomCommands, Custom(i, c)
       PROVE  /\ stage'[i] = "none" /\ i \in Wanted
              /\ FrontInv(i) => FrontInv(i)'
  BY <1>11 DEF Custom, Answer, To, Flag, FrontInv, OneRuns, NoneRuns
<1> QED
  BY <1>1, <1>2, <1>3, <1>4, <1>5, <1>6, <1>7, <1>8, <1>9, <1>10, <1>11, <1>12
     DEF OneStep, InterfaceStep

-----------------------------------------------------------------------------
LEMMA TypesInit ==
  ASSUME NetworkAssumption, NetworkInit
  PROVE  NetworkTypeOK
<1>1. ListTypes
  BY ImportedList DEF NetworkInit, ListTypes, NetworkAssumption
<1>3. PortTypes
  BY LengthOfBridge DEF NetworkInit, PortTypes
<1>2. FlagTypes /\ AddressTypes
  BY DEF NetworkInit, FlagTypes, AddressTypes, NetworkAssumption, NoneRuns, InterfaceStages
<1> QED
  BY <1>1, <1>2, <1>3 DEF NetworkTypeOK

LEMMA TypesStep ==
  ASSUME NetworkAssumption, NetworkTypeOK, [NetworkNext]_netvars
  PROVE  NetworkTypeOK'
<1>1. CASE UNCHANGED netvars
  BY <1>1 DEF netvars, rest, NetworkTypeOK, FlagTypes, PortTypes, ListTypes, AddressTypes
<1>2. CASE NetworkNext
  <2> PICK i \in Interfaces : OneStep(i)
    BY <1>2 DEF NetworkNext, OneStep
  <2> QED
    BY FlagsTyped, PortsTyped, ListsTyped, AddressesTyped DEF NetworkTypeOK
<1> QED
  BY <1>1, <1>2

\* The types of the network's model: no step, not even a failing one, loses or doubles a
\* controller or an IP manager of the lists that network_execute_interface_action and
\* network_scanmodules rotate, and what runs is in them.
THEOREM NetworkTyped ==
  NetworkAssumption => (NetworkSpec => []NetworkTypeOK)
<1> SUFFICES ASSUME NetworkAssumption
             PROVE  NetworkSpec => []NetworkTypeOK
  OBVIOUS
<1>1. NetworkInit => NetworkTypeOK
  BY TypesInit
<1>2. NetworkTypeOK /\ [NetworkNext]_netvars => NetworkTypeOK'
  BY TypesStep
<1> QED
  BY <1>1, <1>2, PTL DEF NetworkSpec

LEMMA InvInit ==
  ASSUME NetworkAssumption, NetworkInit
  PROVE  NetworkInv
<1>1. NetworkTypeOK
  BY TypesInit
<1>2. ASSUME NEW i \in Interfaces
      PROVE  stage[i] = "none" /\ FrontInv(i) /\ Quiet(i)
  BY DEF NetworkInit, FrontInv, Quiet
<1> QED
  BY <1>1, <1>2 DEF NetworkInv

LEMMA InvStep ==
  ASSUME NetworkAssumption, "enable-ip" \notin CustomCommands, NetworkInv, [NetworkNext]_netvars
  PROVE  NetworkInv'
<1>1. NetworkTypeOK'
  BY TypesStep DEF NetworkInv
<1>2. CASE UNCHANGED netvars
  BY <1>1, <1>2 DEF netvars, rest, NetworkInv, FrontInv, Quiet, OneRuns
<1>3. CASE NetworkNext
  <2> PICK i \in Interfaces : OneStep(i)
    BY <1>3 DEF NetworkNext, OneStep
  <2>1. /\ stage'[i] \notin {"none", "failed"} => HasDescriptor(i)
        /\ ~Port(i) => FrontInv(i)'
        /\ i \notin Wanted => Quiet(i)'
    BY Own DEF NetworkInv
  <2>2. ASSUME NEW j \in Interfaces \ {i}
        PROVE  /\ stage'[j] \notin {"none", "failed"} => HasDescriptor(j)
               /\ ~Port(j) => FrontInv(j)'
               /\ j \notin Wanted => Quiet(j)'
    <3>1. /\ stage'[j] = stage[j] /\ ip_manager'[j] = ip_manager[j]
          /\ j \notin ToSet(Bridge[i]) =>
               addresses'[j] = addresses[j] /\ up'[j] = up[j] /\ lmstatus'[j] = lmstatus[j]
          /\ "ip" \notin up[j] => addresses'[j] = addresses[j] /\ "ip" \notin up'[j]
      BY Others DEF NetworkInv
    <3>2. ~Port(j) => FrontInv(j)'
      BY <3>1 DEF NetworkInv, Port, FrontInv, OneRuns
    <3>3. j \notin Wanted => Quiet(j)'
      BY <3>1 DEF NetworkInv, Quiet
    <3> QED
      BY <3>1, <3>2, <3>3 DEF NetworkInv
  <2>3. \A j \in Interfaces :
          /\ stage'[j] \notin {"none", "failed"} => HasDescriptor(j)
          /\ ~Port(j) => FrontInv(j)'
          /\ j \notin Wanted => Quiet(j)'
    BY <2>1, <2>2
  <2> QED
    BY <1>1, <2>3 DEF NetworkInv, HasDescriptor, Port
<1> QED
  BY <1>2, <1>3

\* The IP manager that runs on an interface is the one in front of its list, once, and none
\* when the flag says so: what network_execute_interface_action moves to the front after
\* the others have failed, and network_scanmodules puts there again, is what disabling
\* stops.  The hypotheses leave out what UpIsEnabled contradicts: enable-ip answers
\* with just "ok" and a bridge that fails does so for its ports, after which
\* mod(enable) starts a second IP manager on an interface that has one.
THEOREM FrontAlwaysRuns ==
  NetworkAssumption /\ "enable-ip" \notin CustomCommands
    /\ (\A i \in Interfaces : Port(i) => i \notin Wanted)
  => (NetworkSpec => []FrontRuns)
<1> SUFFICES ASSUME NetworkAssumption, "enable-ip" \notin CustomCommands,
                    \A i \in Interfaces : Port(i) => i \notin Wanted
             PROVE  NetworkSpec => []FrontRuns
  OBVIOUS
<1>1. NetworkInit => NetworkInv
  BY InvInit
<1>2. NetworkInv /\ [NetworkNext]_netvars => NetworkInv'
  BY InvStep
<1>3. NetworkInv => FrontRuns
  BY DEF NetworkInv, FrontInv, Quiet, FrontRuns, FrontRunsOn
<1> QED
  BY <1>1, <1>2, <1>3, PTL DEF NetworkSpec

-----------------------------------------------------------------------------
(***************************************************************************)
(* Mountpoints.  What is begun (its module is not idle any more) has been  *)
(* begun when nothing it comes after was asked for or at work, and during  *)
(* the first request nothing is asked for again.                           *)
(***************************************************************************)
Frames == [mp : All, below : SUBSET Mountpoints, step : Nat]
Stages == {"none", "mount", "try", "flag", "umount", "read", "clear", "mark", "list", "below",
           "step"}
Reading == {"read", "clear", "mark"}
Stati == {"idle", "working", "enabled", "failed", "disabled"}

TableTypes ==
  /\ kernel \in [All -> {"none", "ro", "rw"}]
  /\ flagged \subseteq All /\ hooked \subseteq Commands /\ seen \in [MountThreads -> SUBSET All]
ThreadTypes == pc \in [MountThreads -> Stages] /\ stack \in [MountThreads -> Seq(Frames)]
WorldTypes ==
  /\ status \in [Mountpoints -> Stati] /\ asked \subseteq Mountpoints
  /\ requests \in Nat

\* A thread has calls to return from as long as it is at work; the one that updates the
\* configuration calls nothing.
Stacked(t) ==
  IF t = Updater THEN pc[t] \in {"none"} \cup Reading
  ELSE pc[t] = "none" <=> stack[t] = << >>

\* Who is not at work may be called.
Busy(t) ==
  pc[t] # "none" => /\ t \in Mountpoints => status[t] = "working"
                    /\ t = Boot => boot = "root"
                    /\ t = Power => shutting_down

Lock(t) == device_data = t <=> pc[t] \in Reading

TableInv ==
  /\ TableTypes /\ ThreadTypes /\ WorldTypes
  /\ \A t \in MountThreads : Stacked(t) /\ Busy(t) /\ Lock(t)

-----------------------------------------------------------------------------
\* The first request.

Mounting == {"none", "mount", "try", "flag"}

\* The threads of the mountpoints mount their own, that of the boot mounts root, and that
\* of the power failure unmounts root alone.
Subject(t) == IF t \in Mountpoints THEN t ELSE Root
Alone(t) ==
  /\ t \in Mountpoints \cup {Boot} => pc[t] \in Mounting
  /\ t = Power => pc[t] \in {"none"} \cup (Stages \ Mounting)
  /\ t # Updater /\ pc[t] # "none" =>
       \E f \in Frames : stack[t] = <<f>> /\ f.mp = Subject(t) /\ f.below = {}

Begun(m) == status[m] # "idle"
Behind(m) ==
  Begun(m) => \A a \in After(m) \cap Mountpoints : a \notin asked /\ status[a] # "working"

FirstRequest ==
  /\ \A t \in MountThreads : Alone(t)
  /\ boot # "ok" => asked = {} /\ \A m \in Mountpoints : ~Begun(m)
  /\ \A m \in Mountpoints : (kernel[m] # "none" => Begun(m)) /\ Behind(m)

MountsInv == TableInv /\ (requests = 0 => FirstRequest)

-----------------------------------------------------------------------------
LEMMA Apart ==
  ASSUME MountsAssumption
  PROVE  /\ Boot # Power /\ Boot # Updater /\ Power # Updater
         /\ {Boot, Power, Updater} \cap Mountpoints = {} /\ Root \notin Mountpoints
         /\ Nobody \notin MountThreads
         /\ Mountpoints \subseteq MountThreads /\ {Boot, Power, Updater} \subseteq MountThreads
<1>1. Boot # Power /\ Boot # Updater /\ Power # Updater
  BY DEF Boot, Power, Updater
<1>2. QED
  BY <1>1 DEF MountsAssumption, MountThreads

LEMMA FrameTyped == ASSUME NEW m \in All PROVE Frame(m) \in Frames
BY DEF Frame, Frames

LEMMA Ends ==
  ASSUME NEW S, NEW s \in Seq(S), s # << >>
  PROVE  /\ Len(s) \in Nat /\ Len(s) > 0 /\ s[Len(s)] \in S
         /\ SubSeq(s, 1, Len(s) - 1) \in Seq(S)
         /\ SubSeq(s, 1, Len(s) - 1) = << >> <=> Len(s) = 1
         /\ Len(SubSeq(s, 1, Len(s) - 1)) = Len(s) - 1
<1> DEFINE r == SubSeq(s, 1, Len(s) - 1)
<1>1. Len(s) \in Nat /\ Len(s) > 0 /\ s \in [1..Len(s) -> S]
  BY EmptySeq, LenProperties
<1>2. r \in Seq(S) /\ Len(r) = IF 1 <= Len(s) - 1 THEN Len(s) - 1 - 1 + 1 ELSE 0
  <2>1. \A i \in 1 .. Len(s) - 1 : s[i] \in S
    BY <1>1
  <2> QED BY <1>1, <2>1, SubSeqProperties
<1> HIDE DEF r
<1>3. Len(r) = Len(s) - 1
  <2>1. CASE Len(s) = 1
    BY <1>2, <2>1
  <2>2. CASE 1 <= Len(s) - 1
    BY <1>1, <1>2, <2>2
  <2>3. Len(s) = 1 \/ 1 <= Len(s) - 1
    BY <1>1
  <2> QED BY <2>1, <2>2, <2>3
<1>4. r = << >> <=> Len(r) = 0
  BY <1>2, EmptySeq
<1>5. s[Len(s)] \in S
  BY <1>1
<1> QED BY <1>1, <1>2, <1>3, <1>4, <1>5 DEF r

\* The other threads stay where they are.
OthersRest(t) == \A u \in MountThreads \ {t} : pc'[u] = pc[u] /\ stack'[u] = stack[u]

LEMMA Called ==
  ASSUME ThreadTypes, NEW t \in MountThreads, NEW m \in All, NEW place \in Stages,
         Call(t, m, place)
  PROVE  /\ ThreadTypes' /\ OthersRest(t) /\ pc'[t] = place /\ stack'[t] # << >>
         /\ stack[t] = << >> => stack'[t] = <<Frame(m)>>
<1>1. Frame(m) \in Frames
  BY FrameTyped
<1> HIDE DEF Frame
<1>2. Append(stack[t], Frame(m)) \in Seq(Frames) /\ Append(stack[t], Frame(m)) # << >>
  BY <1>1, AppendProperties DEF ThreadTypes
<1>3. stack[t] = << >> => Append(stack[t], Frame(m)) = <<Frame(m)>>
  OBVIOUS
<1>4. QED
  BY <1>2, <1>3 DEF ThreadTypes, Call, Goto, OthersRest

LEMMA Returned ==
  ASSUME ThreadTypes, NEW t \in MountThreads, NEW result, Return(t, result), stack[t] # << >>
  PROVE  /\ ThreadTypes' /\ OthersRest(t)
         /\ \/ pc'[t] = "none" /\ stack'[t] = << >> /\ Len(stack[t]) = 1
            \/ pc'[t] = "below" /\ stack'[t] # << >> /\ Len(stack[t]) > 1
<1> DEFINE others == SubSeq(stack[t], 1, Len(stack[t]) - 1)
<1> DEFINE n == Len(stack[t])
<1>1. others \in Seq(Frames) /\ (others = << >> <=> n = 1) /\ n \in Nat /\ n > 0
  BY Ends DEF ThreadTypes
<1>2. stack' = [stack EXCEPT ![t] = others]
  BY DEF Return
<1>3. stack' \in [MountThreads -> Seq(Frames)] /\ stack'[t] = others
      /\ \A u \in MountThreads \ {t} : stack'[u] = stack[u]
  <2> HIDE DEF others
  <2> QED BY <1>1, <1>2 DEF ThreadTypes
<1>4. pc' = [pc EXCEPT ![t] = IF n > 1 THEN "below" ELSE "none"]
  BY DEF Return, Goto
<1> HIDE DEF others, n
<1>5. pc' \in [MountThreads -> Stages] /\ \A u \in MountThreads \ {t} : pc'[u] = pc[u]
  BY <1>4 DEF ThreadTypes, Stages
<1>6. pc'[t] = IF n > 1 THEN "below" ELSE "none"
  BY <1>4 DEF ThreadTypes
<1>7. ThreadTypes' /\ OthersRest(t)
  BY <1>3, <1>5 DEF ThreadTypes, OthersRest
<1>8. CASE n > 1
  <2>1. others # << >>
    BY <1>1, <1>8
  <2> QED BY <1>3, <1>6, <1>7, <1>8, <2>1 DEF n
<1>9. CASE ~(n > 1)
  <2>1. n = 1
    BY <1>1, <1>9
  <2>2. others = << >>
    BY <1>1, <2>1
  <2> QED BY <1>3, <1>6, <1>7, <1>9, <2>1, <2>2 DEF n
<1> QED BY <1>8, <1>9

LEMMA Went ==
  ASSUME ThreadTypes, NEW t \in MountThreads, NEW place \in Stages, Goto(t, place), UNCHANGED stack
  PROVE  ThreadTypes' /\ OthersRest(t) /\ pc'[t] = place /\ stack'[t] = stack[t]
BY DEF ThreadTypes, Goto, OthersRest

LEMMA TopTyped ==
  ASSUME ThreadTypes, NEW t \in MountThreads, stack[t] # << >>
  PROVE  Top(t) \in Frames /\ Top(t).mp \in All /\ Top(t).below \subseteq Mountpoints
         /\ Top(t).step \in Nat
<1>1. Top(t) \in Frames
  BY Ends DEF ThreadTypes, Top
<1>2. QED
  BY <1>1 DEF Frames

LEMMA AtWork ==
  ASSUME MountsAssumption, TableInv, NEW t \in MountThreads, pc[t] \notin {"none"} \cup Reading
  PROVE  /\ t # Updater /\ stack[t] # << >> /\ device_data # t
         /\ Top(t) \in Frames /\ Top(t).mp \in All /\ Top(t).below \subseteq Mountpoints
         /\ Top(t).step \in Nat
<1>1. t # Updater /\ stack[t] # << >> /\ device_data # t
  BY Apart DEF TableInv, Stacked, Lock
<1>2. QED
  BY <1>1, TopTyped DEF TableInv

-----------------------------------------------------------------------------
\* A step of one thread keeps the invariant of the table where it keeps it for this thread.

Holding(t) == device_data' = device_data \/ {device_data, device_data'} \subseteq {Nobody, t}

LEMMA Moved ==
  ASSUME MountsAssumption, TableInv, NEW t \in MountThreads, OthersRest(t), Holding(t),
         t # Boot => boot' = boot, shutting_down => shutting_down',
         \A m \in Mountpoints \ {t} : status'[m] = status[m],
         TableTypes', ThreadTypes', WorldTypes', Stacked(t)', Busy(t)', Lock(t)'
  PROVE  TableInv'
<1>1. ASSUME NEW u \in MountThreads, u # t
      PROVE  Stacked(u)' /\ Busy(u)' /\ Lock(u)'
  <2>1. pc'[u] = pc[u] /\ stack'[u] = stack[u] /\ Stacked(u) /\ Busy(u) /\ Lock(u)
    BY <1>1 DEF OthersRest, TableInv
  <2>2. Stacked(u)'
    BY <2>1 DEF Stacked
  <2>3. Busy(u)'
    BY <1>1, <2>1 DEF Busy
  <2>4. Lock(u)'
    BY <1>1, <2>1, Apart DEF Lock, Holding
  <2> QED BY <2>2, <2>3, <2>4
<1>2. QED
  BY <1>1 DEF TableInv

LEMMA Forward ==
  ASSUME MountsAssumption, TableInv, NEW t \in MountThreads, pc[t] # "none", OthersRest(t),
         Holding(t), UNCHANGED worldvars, TableTypes', ThreadTypes', Stacked(t)', Lock(t)'
  PROVE  TableInv'
<1>1. WorldTypes' /\ Busy(t)'
  BY DEF TableInv, WorldTypes, worldvars, Busy
<1>2. QED
  BY <1>1, Moved DEF worldvars

LEMMA Back ==
  ASSUME MountsAssumption, TableInv, NEW t \in MountThreads, pc[t] \notin {"none"} \cup Reading,
         NEW result \in Stati, Return(t, result), TableTypes', UNCHANGED device_data
  PROVE  TableInv'
<1>1. stack[t] # << >> /\ device_data # t /\ t # Updater
  BY AtWork
<1>2. /\ ThreadTypes' /\ OthersRest(t)
      /\ \/ pc'[t] = "none" /\ stack'[t] = << >> /\ Len(stack[t]) = 1
         \/ pc'[t] = "below" /\ stack'[t] # << >> /\ Len(stack[t]) > 1
  BY <1>1, Returned DEF TableInv
<1>3. Stacked(t)' /\ Lock(t)' /\ Holding(t)
  BY <1>1, <1>2 DEF Stacked, Lock, Reading, Holding
<1>4. /\ WorldTypes' /\ (t # Boot => boot' = boot) /\ shutting_down' = shutting_down
      /\ \A m \in Mountpoints \ {t} : status'[m] = status[m]
  BY DEF Return, TableInv, WorldTypes, Autostart
<1>5. CASE pc'[t] = "none"
  <2>1. Busy(t)'
    BY <1>5 DEF Busy
  <2> QED BY <1>2, <1>3, <1>4, <2>1, Moved
<1>6. CASE pc'[t] = "below" /\ Len(stack[t]) > 1
  <2>1. status' = status /\ boot' = boot
    BY <1>6 DEF Return
  <2>2. Busy(t)'
    BY <1>4, <2>1 DEF Busy, TableInv
  <2> QED BY <1>2, <1>3, <1>4, <2>2, Moved
<1> QED BY <1>2, <1>5, <1>6

-----------------------------------------------------------------------------
\* One lemma for each action.

LEMMA MountLookKeeps ==
  ASSUME MountsAssumption, TableInv, NEW t \in MountThreads, MountLook(t)
  PROVE  TableInv'
<1>1. pc[t] \notin {"none"} \cup Reading /\ TableTypes' /\ device_data' = device_data
  BY DEF MountLook, tablevars, Reading, TableTypes, TableInv
<1>2. CASE Return(t, "enabled")
  BY <1>1, <1>2, Back DEF Stati
<1>3. CASE Goto(t, "try") /\ UNCHANGED <<stack, worldvars>>
  <2>1. ThreadTypes' /\ OthersRest(t) /\ pc'[t] = "try" /\ stack'[t] = stack[t]
    BY <1>3, Went DEF TableInv, Stages
  <2>2. Stacked(t)' /\ Lock(t)' /\ Holding(t)
    BY <1>1, <2>1, AtWork DEF Stacked, Lock, Reading, Holding
  <2> QED BY <1>1, <1>3, <2>1, <2>2, Forward
<1> QED BY <1>2, <1>3 DEF MountLook

LEMMA TryMountKeeps ==
  ASSUME MountsAssumption, TableInv, NEW t \in MountThreads, TryMount(t)
  PROVE  TableInv'
<1>1. pc[t] \notin {"none"} \cup Reading /\ device_data' = device_data
  BY DEF TryMount, Reading
<1>2. TableTypes'
  BY <1>1, AtWork DEF TryMount, Mounted, tablevars, TableTypes, TableInv
<1>3. CASE Return(t, "failed")
  BY <1>1, <1>2, <1>3, Back DEF Stati
<1>4. CASE Goto(t, "flag") /\ UNCHANGED <<stack, worldvars>>
  <2>1. ThreadTypes' /\ OthersRest(t) /\ pc'[t] = "flag" /\ stack'[t] = stack[t]
    BY <1>4, Went DEF TableInv, Stages
  <2>2. Stacked(t)' /\ Lock(t)' /\ Holding(t)
    BY <1>1, <2>1, AtWork DEF Stacked, Lock, Reading, Holding
  <2> QED BY <1>1, <1>2, <1>4, <2>1, <2>2, Forward
<1> QED BY <1>3, <1>4 DEF TryMount

LEMMA SetFlagKeeps ==
  ASSUME MountsAssumption, TableInv, NEW t \in MountThreads, SetFlag(t)
  PROVE  TableInv'
<1>1. pc[t] \notin {"none"} \cup Reading /\ device_data' = device_data
  BY DEF SetFlag, Reading
<1>2. TableTypes'
  BY <1>1, AtWork DEF SetFlag, TableTypes, TableInv
<1> QED BY <1>1, <1>2, Back DEF Stati, SetFlag

LEMMA LockTableKeeps ==
  ASSUME MountsAssumption, TableInv, NEW t \in MountThreads, LockTable(t)
  PROVE  TableInv'
<1>1. pc[t] \notin {"none"} \cup Reading /\ TableTypes'
  BY DEF LockTable, Reading, TableTypes, TableInv, tablevars
<1>2. ThreadTypes' /\ OthersRest(t) /\ pc'[t] = "read" /\ stack'[t] = stack[t]
  BY Went DEF TableInv, Stages, LockTable
<1>3. Stacked(t)' /\ Lock(t)' /\ Holding(t)
  BY <1>1, <1>2, AtWork DEF Stacked, Lock, Reading, Holding, LockTable
<1> QED BY <1>1, <1>2, <1>3, Forward DEF LockTable

LEMMA ReadMountsKeeps ==
  ASSUME MountsAssumption, TableInv, NEW t \in MountThreads, ReadMounts(t)
  PROVE  TableInv'
<1>1. pc[t] # "none" /\ device_data = t
  BY DEF ReadMounts, Reading, TableInv, Lock
<1>2. TableTypes'
  <2>1. {m \in All \ Swap : kernel[m] # "none"} \subseteq All
    OBVIOUS
  <2> QED BY <2>1 DEF ReadMounts, TableTypes, TableInv, tablevars
<1>3. ThreadTypes' /\ OthersRest(t) /\ pc'[t] = "clear" /\ stack'[t] = stack[t]
  BY Went DEF TableInv, Stages, ReadMounts
<1>4. Stacked(t)' /\ Lock(t)' /\ Holding(t)
  BY <1>1, <1>3 DEF Stacked, Lock, Reading, Holding, ReadMounts, TableInv
<1> QED BY <1>1, <1>2, <1>3, <1>4, Forward DEF ReadMounts

LEMMA ClearFlagsKeeps ==
  ASSUME MountsAssumption, TableInv, NEW t \in MountThreads, ClearFlags(t)
  PROVE  TableInv'
<1>1. pc[t] # "none" /\ device_data = t
  BY DEF ClearFlags, Reading, TableInv, Lock
<1>2. TableTypes'
  BY DEF ClearFlags, TableTypes, TableInv
<1>3. ThreadTypes' /\ OthersRest(t) /\ pc'[t] = "mark" /\ stack'[t] = stack[t]
  BY Went DEF TableInv, Stages, ClearFlags
<1>4. Stacked(t)' /\ Lock(t)' /\ Holding(t)
  BY <1>1, <1>3 DEF Stacked, Lock, Reading, Holding, ClearFlags, TableInv
<1> QED BY <1>1, <1>2, <1>3, <1>4, Forward DEF ClearFlags

LEMMA MarkMountedKeeps ==
  ASSUME MountsAssumption, TableInv, NEW t \in MountThreads, MarkMounted(t)
  PROVE  TableInv'
<1> DEFINE place == IF t = Updater THEN "none" ELSE "list"
<1>1. pc[t] # "none" /\ device_data = t
  BY DEF MarkMounted, Reading, TableInv, Lock
<1>2. TableTypes'
  BY DEF MarkMounted, AddNodes, TableTypes, TableInv
<1>3. ThreadTypes' /\ OthersRest(t) /\ pc'[t] = place /\ stack'[t] = stack[t]
  <2>1. place \in Stages /\ Goto(t, place) /\ UNCHANGED stack
    BY DEF MarkMounted, Stages
  <2> QED BY <2>1, Went DEF TableInv
<1>4. device_data' = Nobody /\ Nobody # t
  BY Apart DEF MarkMounted
<1>5. Stacked(t)' /\ Lock(t)' /\ Holding(t)
  BY <1>1, <1>3, <1>4 DEF Stacked, Lock, Reading, Holding, TableInv, MarkMounted
<1> QED BY <1>1, <1>2, <1>3, <1>5, Forward DEF MarkMounted

LEMMA TopSet ==
  ASSUME ThreadTypes, NEW t \in MountThreads, stack[t] # << >>, NEW frame \in Frames,
         SetTop(t, frame)
  PROVE  /\ stack' \in [MountThreads -> Seq(Frames)] /\ stack'[t] # << >>
         /\ \A u \in MountThreads \ {t} : stack'[u] = stack[u]
         /\ \A f \in Frames : stack[t] = <<f>> => stack'[t] = <<frame>>
<1> DEFINE n == Len(stack[t])
<1> DEFINE new == [stack[t] EXCEPT ![n] = frame]
<1>1. n \in Nat /\ n > 0 /\ stack[t] \in [1..n -> Frames] /\ stack[t] \in Seq(Frames)
  BY EmptySeq, LenProperties DEF ThreadTypes
<1>2. stack' = [stack EXCEPT ![t] = new]
  BY DEF SetTop
<1>3. new \in Seq(Frames) /\ new # << >>
  <2>1. new \in [1..n -> Frames] /\ new[n] = frame
    BY <1>1
  <2> HIDE DEF new
  <2>2. new \in Seq(Frames)
    BY <1>1, <2>1
  <2>3. Len(new) = n
    BY <1>1, <2>1, <2>2, LenProperties
  <2> HIDE DEF n
  <2> QED BY <1>1, <2>2, <2>3, EmptySeq
<1>4. ASSUME NEW f \in Frames, stack[t] = <<f>>
      PROVE  new = <<frame>>
  BY <1>4
<1> HIDE DEF new
<1> QED BY <1>2, <1>3, <1>4 DEF ThreadTypes

LEMMA ListBelowKeeps ==
  ASSUME MountsAssumption, TableInv, NEW t \in MountThreads, ListBelow(t)
  PROVE  TableInv'
<1> DEFINE frame == [Top(t) EXCEPT !.below = IF Top(t).mp = Root THEN {}
                                              ELSE MountedBelow(Top(t).mp)]
<1>1. pc[t] \notin {"none"} \cup Reading /\ TableTypes' /\ device_data' = device_data
  BY DEF ListBelow, tablevars, Reading, TableTypes, TableInv
<1>2. CASE Return(t, "disabled")
  BY <1>1, <1>2, Back DEF Stati
<1>3. CASE SetTop(t, frame) /\ Goto(t, "below") /\ UNCHANGED worldvars
  <2>1. frame \in Frames
    BY <1>1, AtWork DEF Frames, MountedBelow, Below
  <2> HIDE DEF frame
  <2>2. stack' \in [MountThreads -> Seq(Frames)] /\ stack'[t] # << >>
        /\ \A u \in MountThreads \ {t} : stack'[u] = stack[u]
    BY <1>1, <1>3, <2>1, AtWork, TopSet DEF TableInv
  <2>3. ThreadTypes' /\ OthersRest(t) /\ pc'[t] = "below"
    BY <1>3, <2>2 DEF Goto, TableInv, ThreadTypes, Stages, OthersRest
  <2>4. Stacked(t)' /\ Lock(t)' /\ Holding(t)
    BY <1>1, <2>2, <2>3, AtWork DEF Stacked, Lock, Reading, Holding
  <2> QED BY <1>1, <1>3, <2>3, <2>4, Forward
<1> QED BY <1>2, <1>3 DEF ListBelow

LEMMA UmountBelowKeeps ==
  ASSUME MountsAssumption, TableInv, NEW t \in MountThreads, UmountBelow(t)
  PROVE  TableInv'
<1>1. pc[t] \notin {"none"} \cup Reading /\ TableTypes' /\ device_data' = device_data
  BY DEF UmountBelow, tablevars, Reading, TableTypes, TableInv
<1>2. PICK c \in Top(t).below :
        stack' = [stack EXCEPT ![t] = Append(SubSeq(@, 1, Len(@) - 1),
                                             [Top(t) EXCEPT !.below = @ \ {c}]) \o <<Frame(c)>>]
  BY DEF UmountBelow
<1> DEFINE others == SubSeq(stack[t], 1, Len(stack[t]) - 1)
<1> DEFINE frame == [Top(t) EXCEPT !.below = @ \ {c}]
<1> DEFINE new == Append(others, frame) \o <<Frame(c)>>
<1>3. others \in Seq(Frames) /\ frame \in Frames /\ Frame(c) \in Frames
  <2>1. Top(t) \in Frames /\ c \in All /\ stack[t] \in Seq(Frames) /\ stack[t] # << >>
    BY <1>1, AtWork DEF All, TableInv, ThreadTypes
  <2>2. others \in Seq(Frames)
    BY <2>1, Ends
  <2>3. frame \in Frames
    BY <2>1 DEF Frames
  <2> QED BY <2>1, <2>2, <2>3, FrameTyped
<1>4. new \in Seq(Frames) /\ new # << >>
  <2> HIDE DEF others, frame
  <2>1. Append(others, frame) \in Seq(Frames) /\ <<Frame(c)>> \in Seq(Frames)
    BY <1>3
  <2>2. Len(new) = Len(Append(others, frame)) + 1 /\ new \in Seq(Frames)
    BY <2>1, ConcatProperties DEF Frame
  <2>3. Len(Append(others, frame)) \in Nat
    BY <2>1, LenProperties
  <2>4. Len(new) # 0
    <3> DEFINE k == Len(Append(others, frame))
    <3> HIDE DEF k, new
    <3>1. k \in Nat /\ Len(new) = k + 1
      BY <2>2, <2>3 DEF k
    <3> QED BY <3>1
  <2> HIDE DEF new
  <2> QED BY <2>2, <2>4, EmptySeq
<1>5. stack' = [stack EXCEPT ![t] = new]
  BY <1>2
<1> HIDE DEF new
<1>6. ThreadTypes' /\ OthersRest(t) /\ pc'[t] = "umount" /\ stack'[t] # << >>
  BY <1>4, <1>5 DEF UmountBelow, Goto, TableInv, ThreadTypes, Stages, OthersRest
<1>7. Stacked(t)' /\ Lock(t)' /\ Holding(t)
  BY <1>1, <1>6, AtWork DEF Stacked, Lock, Reading, Holding
<1> QED BY <1>1, <1>6, <1>7, Forward DEF UmountBelow

LEMMA UmountLookKeeps ==
  ASSUME MountsAssumption, TableInv, NEW t \in MountThreads, UmountLook(t)
  PROVE  TableInv'
<1>1. pc[t] \notin {"none"} \cup Reading /\ TableTypes' /\ device_data' = device_data
  BY DEF UmountLook, tablevars, Reading, TableTypes, TableInv
<1>2. CASE Return(t, "disabled")
  BY <1>1, <1>2, Back DEF Stati
<1>3. CASE Goto(t, "step") /\ UNCHANGED <<stack, worldvars>>
  <2>1. ThreadTypes' /\ OthersRest(t) /\ pc'[t] = "step" /\ stack'[t] = stack[t]
    BY <1>3, Went DEF TableInv, Stages
  <2>2. Stacked(t)' /\ Lock(t)' /\ Holding(t)
    BY <1>1, <2>1, AtWork DEF Stacked, Lock, Reading, Holding
  <2> QED BY <1>1, <1>3, <2>1, <2>2, Forward
<1> QED BY <1>2, <1>3 DEF UmountLook

LEMMA UnmountedTyped ==
  ASSUME TableTypes, NEW m \in All, NEW step, Unmounted(m, step)
  PROVE  kernel' \in [All -> {"none", "ro", "rw"}]
BY DEF Unmounted, Gone, Detached, TableTypes

LEMMA TryUmountKeeps ==
  ASSUME MountsAssumption, TableInv, NEW t \in MountThreads, TryUmount(t)
  PROVE  TableInv'
<1> DEFINE frame == [Top(t) EXCEPT !.step = @ + 1]
<1>1. pc[t] \notin {"none"} \cup Reading /\ device_data' = device_data
  BY DEF TryUmount, Reading
<1>2. TableTypes'
  <2>1. kernel' \in [All -> {"none", "ro", "rw"}]
    BY <1>1, AtWork, UnmountedTyped DEF TryUmount, TableInv, TableTypes
  <2> QED BY <2>1 DEF TryUmount, TableInv, TableTypes
<1>3. CASE \E result \in Stati : Return(t, result)
  BY <1>1, <1>2, <1>3, Back
<1>4. CASE SetTop(t, frame) /\ UNCHANGED <<pc, worldvars>>
  <2>1. frame \in Frames
    BY <1>1, AtWork DEF Frames
  <2> HIDE DEF frame
  <2>2. stack' \in [MountThreads -> Seq(Frames)] /\ stack'[t] # << >>
        /\ \A u \in MountThreads \ {t} : stack'[u] = stack[u]
    BY <1>1, <1>4, <2>1, AtWork, TopSet DEF TableInv
  <2>3. ThreadTypes' /\ OthersRest(t) /\ pc'[t] = pc[t]
    BY <1>4, <2>2 DEF TableInv, ThreadTypes, OthersRest
  <2>4. Stacked(t)' /\ Lock(t)' /\ Holding(t)
    BY <1>1, <2>2, <2>3, AtWork DEF Stacked, Lock, Reading, Holding
  <2> QED BY <1>1, <1>2, <1>4, <2>3, <2>4, Forward
<1>5. \/ \E result \in Stati : Return(t, result)
      \/ SetTop(t, frame) /\ UNCHANGED <<pc, worldvars>>
  BY DEF TryUmount, Stati
<1> QED BY <1>3, <1>4, <1>5

\* A thread that is called was not at work.
LEMMA Calling ==
  ASSUME MountsAssumption, TableInv, NEW t \in MountThreads, t # Updater, pc[t] = "none",
         NEW m \in All, NEW place \in Stages \ (Reading \cup {"none"}), Call(t, m, place),
         UNCHANGED <<kernel, tablevars, device_data, seen>>
  PROVE  /\ TableTypes' /\ ThreadTypes' /\ OthersRest(t) /\ Stacked(t)' /\ Lock(t)' /\ Holding(t)
         /\ pc'[t] = place /\ stack'[t] = <<Frame(m)>>
<1>1. stack[t] = << >> /\ device_data # t
  BY DEF TableInv, Stacked, Lock, Reading
<1>2. ThreadTypes' /\ OthersRest(t) /\ pc'[t] = place /\ stack'[t] # << >>
      /\ stack'[t] = <<Frame(m)>>
  BY <1>1, Called DEF TableInv
<1>3. Stacked(t)' /\ Lock(t)' /\ Holding(t)
  BY <1>1, <1>2 DEF Stacked, Lock, Holding
<1>4. TableTypes'
  BY DEF TableInv, TableTypes, tablevars
<1> QED BY <1>2, <1>3, <1>4

LEMMA DevicesAvailableKeeps ==
  ASSUME MountsAssumption, TableInv, DevicesAvailable
  PROVE  TableInv'
<1>1. Boot \in MountThreads /\ Boot # Updater /\ Boot \notin Mountpoints /\ Boot # Power
  BY Apart
<1>2. pc[Boot] = "none"
  BY <1>1 DEF TableInv, Busy, DevicesAvailable
<1>3. TableTypes' /\ ThreadTypes' /\ OthersRest(Boot) /\ Stacked(Boot)' /\ Lock(Boot)'
      /\ Holding(Boot)
  BY <1>1, <1>2, Calling DEF DevicesAvailable, All, Stages, Reading
<1>4. WorldTypes' /\ Busy(Boot)'
  BY <1>1 DEF TableInv, WorldTypes, DevicesAvailable, Busy
<1> QED BY <1>1, <1>3, <1>4, Moved DEF DevicesAvailable

LEMMA PowerImminentKeeps ==
  ASSUME MountsAssumption, TableInv, PowerImminent
  PROVE  TableInv'
<1>1. Power \in MountThreads /\ Power # Updater /\ Power \notin Mountpoints /\ Boot # Power
  BY Apart
<1>2. pc[Power] = "none"
  BY <1>1 DEF TableInv, Busy, PowerImminent
<1>3. TableTypes' /\ ThreadTypes' /\ OthersRest(Power) /\ Stacked(Power)' /\ Lock(Power)'
      /\ Holding(Power)
  BY <1>1, <1>2, Calling DEF PowerImminent, All, Stages, Reading
<1>4. WorldTypes' /\ Busy(Power)'
  BY <1>1 DEF TableInv, WorldTypes, PowerImminent, Busy
<1> QED BY <1>1, <1>3, <1>4, Moved DEF PowerImminent

\* No thread moves.
LEMMA NobodyMoves ==
  ASSUME MountsAssumption, TableInv, UNCHANGED <<kernel, tablevars, device_data, seen, pc, stack>>,
         UNCHANGED <<status, boot, shutting_down>>, asked' \subseteq Mountpoints, requests' \in Nat
  PROVE  TableInv'
<1>1. TableTypes' /\ ThreadTypes' /\ WorldTypes'
  BY DEF TableInv, TableTypes, ThreadTypes, WorldTypes, tablevars
<1>2. ASSUME NEW t \in MountThreads
      PROVE  Stacked(t)' /\ Busy(t)' /\ Lock(t)'
  BY DEF TableInv, Stacked, Busy, Lock
<1> QED BY <1>1, <1>2 DEF TableInv

LEMMA EnableKeeps ==
  ASSUME MountsAssumption, TableInv, NEW m \in Mountpoints, Enable(m)
  PROVE  TableInv'
<1>1. m \in MountThreads /\ m # Updater /\ m # Boot /\ m # Power /\ m \in All
  BY Apart DEF All
<1>2. pc[m] = "none"
  BY <1>1 DEF TableInv, Busy, Enable
<1>3. asked' \subseteq Mountpoints /\ requests' \in Nat
  BY DEF Enable, TableInv, WorldTypes
<1>4. CASE status[m] = "enabled"
  BY <1>3, <1>4, NobodyMoves DEF Enable
<1>5. CASE status' = [status EXCEPT ![m] = "working"] /\ Call(m, m, "mount")
  <2>1. TableTypes' /\ ThreadTypes' /\ OthersRest(m) /\ Stacked(m)' /\ Lock(m)' /\ Holding(m)
    BY <1>1, <1>2, <1>5, Calling DEF Enable, Stages, Reading
  <2>2. WorldTypes' /\ Busy(m)' /\ \A n \in Mountpoints \ {m} : status'[n] = status[n]
    BY <1>1, <1>3, <1>5 DEF TableInv, WorldTypes, Stati, Busy
  <2> QED BY <1>1, <2>1, <2>2, Moved DEF Enable
<1> QED BY <1>4, <1>5 DEF Enable

LEMMA DisableKeeps ==
  ASSUME MountsAssumption, TableInv, NEW m \in Mountpoints, Disable(m)
  PROVE  TableInv'
<1>1. m \in MountThreads /\ m # Updater /\ m # Boot /\ m # Power /\ m \in All
  BY Apart DEF All
<1>2. pc[m] = "none"
  BY <1>1 DEF TableInv, Busy, Disable
<1>3. TableTypes' /\ ThreadTypes' /\ OthersRest(m) /\ Stacked(m)' /\ Lock(m)' /\ Holding(m)
  BY <1>1, <1>2, Calling DEF Disable, Stages, Reading
<1>4. WorldTypes' /\ Busy(m)' /\ \A n \in Mountpoints \ {m} : status'[n] = status[n]
  BY <1>1 DEF TableInv, WorldTypes, Stati, Busy, Disable
<1> QED BY <1>1, <1>3, <1>4, Moved DEF Disable

LEMMA UpdateKeeps ==
  ASSUME MountsAssumption, TableInv, Update
  PROVE  TableInv'
<1>1. Updater \in MountThreads /\ Updater # Boot /\ Updater # Power /\ Updater \notin Mountpoints
  BY Apart
<1>2. TableTypes'
  BY DEF Update, UpdateNodes, TableInv, TableTypes
<1>3. ThreadTypes' /\ OthersRest(Updater) /\ pc'[Updater] = "read"
  BY <1>1, Went DEF TableInv, Stages, Update
<1>4. Stacked(Updater)' /\ Busy(Updater)' /\ Lock(Updater)' /\ Holding(Updater)
  BY <1>1, <1>3 DEF Stacked, Busy, Lock, Holding, Reading, Update
<1>5. WorldTypes'
  BY DEF Update, TableInv, WorldTypes
<1> QED BY <1>1, <1>2, <1>3, <1>4, <1>5, Moved DEF Update

LEMMA TableInit == ASSUME MountsAssumption, MountsInit PROVE TableInv
<1>1. TableTypes /\ ThreadTypes /\ WorldTypes
  <2>1. << >> \in Seq(Frames)
    OBVIOUS
  <2>2. ThreadTypes
    BY <2>1 DEF MountsInit, ThreadTypes, Stages
  <2> QED BY <2>2 DEF MountsInit, TableTypes, WorldTypes, Stati
<1>2. ASSUME NEW t \in MountThreads
      PROVE  Stacked(t) /\ Busy(t) /\ Lock(t)
  BY Apart DEF MountsInit, Stacked, Busy, Lock, Reading
<1> QED BY <1>1, <1>2 DEF TableInv

LEMMA TableStep == ASSUME MountsAssumption, TableInv, [MountsNext]_mountvars PROVE TableInv'
<1>1. CASE UNCHANGED mountvars
  BY <1>1, NobodyMoves DEF mountvars, worldvars, TableInv, WorldTypes
<1>2. ASSUME NEW m \in Mountpoints, Enable(m) \/ Ask(m) \/ Disable(m)
      PROVE  TableInv'
  <2>1. CASE Ask(m)
    <3>1. asked' \subseteq Mountpoints /\ requests' \in Nat
      BY <2>1 DEF Ask, TableInv, WorldTypes
    <3> QED BY <2>1, <3>1, NobodyMoves DEF Ask
  <2> QED BY <1>2, <2>1, EnableKeeps, DisableKeeps
<1>3. CASE CriticalEnable
  BY <1>3, NobodyMoves DEF CriticalEnable, TableInv, WorldTypes
<1>4. ASSUME NEW t \in MountThreads, Work(t)
      PROVE  TableInv'
  <2>1. CASE Emount(t)
    BY <2>1, MountLookKeeps, TryMountKeeps, SetFlagKeeps DEF Emount
  <2>2. CASE ReadTable(t)
    BY <2>2, LockTableKeeps, ReadMountsKeeps, ClearFlagsKeeps, MarkMountedKeeps
    DEF ReadTable
  <2>3. CASE Eumount(t)
    BY <2>3, ListBelowKeeps, UmountBelowKeeps, UmountLookKeeps, TryUmountKeeps DEF Eumount
  <2> QED BY <1>4, <2>1, <2>2, <2>3 DEF Work
<1> QED
  BY <1>1, <1>2, <1>3, <1>4, DevicesAvailableKeeps, PowerImminentKeeps, UpdateKeeps
  DEF MountsNext

-----------------------------------------------------------------------------
\* The steps of the first request.

LEMMA AloneElse ==
  ASSUME NEW t \in MountThreads, OthersRest(t), Alone(t)', \A u \in MountThreads : Alone(u)
  PROVE  \A u \in MountThreads : Alone(u)'
<1>1. ASSUME NEW u \in MountThreads, u # t
      PROVE  Alone(u)'
  BY <1>1 DEF OthersRest, Alone
<1> QED BY <1>1

\* Who mounts a mountpoint has begun it, and nobody does before the boot.
LEMMA WorkersBegun ==
  ASSUME TableInv, FirstRequest, NEW t \in Mountpoints, t \in MountThreads, pc[t] # "none"
  PROVE  status[t] = "working" /\ Begun(t) /\ boot = "ok"
BY DEF TableInv, Busy, FirstRequest, Begun

LEMMA FirstForward ==
  ASSUME MountsAssumption, TableInv, FirstRequest, NEW t \in MountThreads, pc[t] # "none",
         OthersRest(t), Alone(t)', UNCHANGED <<status, asked, boot>>,
         \A m \in Mountpoints : kernel'[m] # "none" => kernel[m] # "none" \/ m = t
  PROVE  FirstRequest'
<1>1. \A u \in MountThreads : Alone(u)'
  BY AloneElse DEF FirstRequest
<1>2. \A m \in Mountpoints : (Begun(m)' <=> Begun(m)) /\ (Behind(m)' <=> Behind(m))
  BY DEF Begun, Behind
<1>3. boot' # "ok" => asked' = {} /\ \A m \in Mountpoints : ~Begun(m)'
  BY <1>2 DEF FirstRequest
<1>4. ASSUME NEW m \in Mountpoints
      PROVE  (kernel'[m] # "none" => Begun(m)') /\ Behind(m)'
  BY <1>2, WorkersBegun DEF FirstRequest
<1> QED BY <1>1, <1>3, <1>4 DEF FirstRequest

\* A call that ends is the only one of its thread.
LEMMA Ended ==
  ASSUME MountsAssumption, TableInv, FirstRequest, NEW t \in MountThreads,
         pc[t] \notin {"none"} \cup Reading, NEW result, Return(t, result)
  PROVE  OthersRest(t) /\ Alone(t)' /\ Len(stack[t]) = 1 /\ pc'[t] = "none"
<1>1. t # Updater /\ stack[t] # << >> /\ Alone(t)
  BY AtWork DEF FirstRequest
<1>2. PICK f \in Frames : stack[t] = <<f>>
  BY <1>1 DEF Alone
<1>3. Len(stack[t]) = 1
  BY <1>2
<1>4. OthersRest(t) /\ pc'[t] = "none"
  <2> DEFINE n == Len(stack[t])
  <2>1. OthersRest(t) /\ (pc'[t] = "none" \/ n > 1)
    BY <1>1, Returned DEF TableInv
  <2>2. n = 1
    BY <1>3
  <2> HIDE DEF n
  <2> QED BY <2>1, <2>2
<1>5. Alone(t)'
  BY <1>4 DEF Alone, Mounting
<1> QED BY <1>3, <1>4, <1>5

LEMMA FirstBack ==
  ASSUME MountsAssumption, TableInv, FirstRequest, NEW t \in MountThreads,
         pc[t] \notin {"none"} \cup Reading, NEW result \in Stati \ {"idle", "working"},
         Return(t, result),
         \A m \in Mountpoints : kernel'[m] # "none" => kernel[m] # "none" \/ m = t
  PROVE  FirstRequest'
<1>1. OthersRest(t) /\ Alone(t)' /\ Len(stack[t]) = 1
  BY Ended
<1>2. CASE t \in Mountpoints
  <2>1. Begun(t) /\ boot = "ok" /\ t # Boot
    BY <1>2, WorkersBegun, Apart
  <2>2. status' = [status EXCEPT ![t] = result] /\ asked' = asked /\ boot' = boot
    BY <1>1, <1>2 DEF Return
  <2>3. status'[t] = result /\ \A m \in Mountpoints \ {t} : status'[m] = status[m]
    BY <1>2, <2>2 DEF TableInv, WorldTypes
  <2>4. \A m \in Mountpoints : Begun(m)' <=> Begun(m)
    BY <1>2, <2>1, <2>3 DEF Begun
  <2>5. ASSUME NEW m \in Mountpoints
        PROVE  (kernel'[m] # "none" => Begun(m)') /\ Behind(m)'
    <3>1. kernel'[m] # "none" => Begun(m)'
      BY <2>1, <2>4 DEF FirstRequest
    <3>2. \A a \in Mountpoints : status'[a] = "working" => status[a] = "working"
      BY <2>3
    <3>3. Behind(m)'
      BY <2>2, <2>4, <3>2 DEF Behind, FirstRequest
    <3> QED BY <3>1, <3>3
  <2>6. \A u \in MountThreads : Alone(u)'
    BY <1>1, AloneElse DEF FirstRequest
  <2> QED BY <2>1, <2>2, <2>5, <2>6 DEF FirstRequest
<1>3. CASE t = Boot
  <2>1. boot = "root" /\ t \notin Mountpoints
    BY <1>3, Apart DEF TableInv, Busy
  <2>2. \A m \in Mountpoints : ~Begun(m) /\ kernel[m] = "none"
    BY <2>1 DEF FirstRequest
  <2>3. status' = status /\ boot' = "ok"
    BY <1>1, <1>3, <2>1 DEF Return
  <2>4. \A m \in Mountpoints : ~Begun(m)' /\ kernel'[m] = "none"
    BY <2>1, <2>2, <2>3 DEF Begun
  <2>5. \A u \in MountThreads : Alone(u)'
    BY <1>1, AloneElse DEF FirstRequest
  <2> QED BY <2>3, <2>4, <2>5 DEF FirstRequest, Behind
<1>4. CASE t \notin Mountpoints /\ t # Boot
  <2>1. UNCHANGED <<status, asked, boot>>
    BY <1>1, <1>4 DEF Return
  <2> QED BY <1>1, <2>1, FirstForward
<1> QED BY <1>2, <1>3, <1>4

LEMMA OnTop ==
  ASSUME MountsAssumption, TableInv, FirstRequest, NEW t \in MountThreads,
         pc[t] \notin {"none"} \cup Reading
  PROVE  /\ Top(t) \in Frames /\ stack[t] = <<Top(t)>>
         /\ Top(t).mp = Subject(t) /\ Top(t).below = {}
         /\ pc[t] \notin Mounting => t = Power /\ Subject(t) = Root
<1>1. t # Updater /\ Alone(t)
  BY AtWork DEF FirstRequest
<1>2. PICK f \in Frames : stack[t] = <<f>> /\ f.mp = Subject(t) /\ f.below = {}
  BY <1>1 DEF Alone
<1>3. Top(t) = f
  BY <1>2 DEF Top
<1>4. pc[t] \notin Mounting => t = Power
  BY <1>1 DEF Alone, MountThreads
<1>5. Power \notin Mountpoints
  BY Apart
<1> QED BY <1>2, <1>3, <1>4, <1>5 DEF Subject

\* Nobody's stack changes.
LEMMA AloneStays ==
  ASSUME FirstRequest, NEW t \in MountThreads, pc[t] # "none", stack'[t] = stack[t],
         t \in Mountpoints \cup {Boot} => pc'[t] \in Mounting,
         t = Power => pc'[t] \in {"none"} \cup (Stages \ Mounting)
  PROVE  Alone(t)'
BY DEF FirstRequest, Alone

LEMMA FirstMount ==
  ASSUME MountsAssumption, TableInv, FirstRequest, NEW t \in MountThreads, Emount(t)
  PROVE  FirstRequest'
<1>1. pc[t] \in Mounting \ {"none"} /\ pc[t] \notin {"none"} \cup Reading
  BY DEF Emount, MountLook, TryMount, SetFlag, Reading, Mounting
<1>2. t # Power /\ Top(t).mp = Subject(t)
  BY <1>1, OnTop, Apart DEF FirstRequest, Alone
<1>3. \A m \in Mountpoints : kernel'[m] # "none" => kernel[m] # "none" \/ m = t
  <2>1. CASE UNCHANGED kernel
    BY <2>1
  <2>2. CASE kernel' = [kernel EXCEPT ![Subject(t)] = "rw"]
    BY <2>2, Apart DEF Subject, TableInv, TableTypes
  <2>3. UNCHANGED kernel \/ kernel' = [kernel EXCEPT ![Subject(t)] = "rw"]
    BY <1>2 DEF Emount, MountLook, TryMount, SetFlag, Mounted
  <2> QED BY <2>1, <2>2, <2>3
<1>4. CASE \E result \in Stati \ {"idle", "working"} : Return(t, result)
  BY <1>1, <1>3, <1>4, FirstBack
<1>5. CASE \E place \in Mounting \ {"none"} : Goto(t, place) /\ UNCHANGED <<stack, worldvars>>
  <2>1. PICK place \in Mounting \ {"none"} : Goto(t, place) /\ UNCHANGED <<stack, worldvars>>
    BY <1>5
  <2>2. OthersRest(t) /\ pc'[t] = place /\ stack'[t] = stack[t]
    BY <2>1, Went DEF TableInv, Mounting, Stages
  <2>3. Alone(t)'
    BY <1>1, <1>2, <2>1, <2>2, AloneStays
  <2> QED BY <1>1, <1>3, <2>1, <2>2, <2>3, FirstForward DEF worldvars
<1>6. \/ \E result \in Stati \ {"idle", "working"} : Return(t, result)
      \/ \E place \in Mounting \ {"none"} : Goto(t, place) /\ UNCHANGED <<stack, worldvars>>
  <2>1. CASE MountLook(t)
    BY <2>1 DEF MountLook, Stati, Mounting
  <2>2. CASE TryMount(t)
    BY <2>2 DEF TryMount, Stati, Mounting
  <2>3. CASE SetFlag(t)
    BY <2>3 DEF SetFlag, Stati
  <2> QED BY <2>1, <2>2, <2>3 DEF Emount
<1> QED BY <1>4, <1>5, <1>6

LEMMA FirstRead ==
  ASSUME MountsAssumption, TableInv, FirstRequest, NEW t \in MountThreads, ReadTable(t)
  PROVE  FirstRequest'
<1>1. pc[t] \notin Mounting
  BY DEF ReadTable, LockTable, ReadMounts, ClearFlags, MarkMounted, Mounting
<1>2. t \notin Mountpoints \cup {Boot}
  BY <1>1 DEF FirstRequest, Alone
<1>3. UNCHANGED <<kernel, stack, worldvars>>
  BY DEF ReadTable, LockTable, ReadMounts, ClearFlags, MarkMounted
<1>4. PICK place \in Stages :
        Goto(t, place) /\ (t = Power => place \in Stages \ Mounting)
  <2>1. CASE LockTable(t)
    BY <2>1 DEF LockTable, Stages, Mounting
  <2>2. CASE ReadMounts(t)
    BY <2>2 DEF ReadMounts, Stages, Mounting
  <2>3. CASE ClearFlags(t)
    BY <2>3 DEF ClearFlags, Stages, Mounting
  <2>4. CASE MarkMounted(t)
    BY <2>4, Apart DEF MarkMounted, Stages, Mounting
  <2> QED BY <2>1, <2>2, <2>3, <2>4 DEF ReadTable
<1>5. OthersRest(t) /\ pc'[t] = place /\ stack'[t] = stack[t]
  BY <1>3, <1>4, Went DEF TableInv
<1>6. pc[t] # "none"
  BY <1>1 DEF Mounting
<1>7. Alone(t)'
  BY <1>2, <1>4, <1>5, <1>6, AloneStays
<1> QED BY <1>3, <1>5, <1>6, <1>7, FirstForward DEF worldvars

LEMMA FirstUmount ==
  ASSUME MountsAssumption, TableInv, FirstRequest, NEW t \in MountThreads, Eumount(t)
  PROVE  FirstRequest'
<1>1. pc[t] \notin Mounting \cup {"none"} \cup Reading
  BY DEF Eumount, ListBelow, UmountBelow, UmountLook, TryUmount, Mounting, Reading
<1>2. t = Power /\ t \notin Mountpoints /\ t # Boot /\ Top(t).mp = Root /\ Top(t).below = {}
      /\ Top(t) \in Frames /\ stack[t] = <<Top(t)>> /\ stack[t] # << >>
  BY <1>1, OnTop, AtWork, Apart
<1>3. \A m \in Mountpoints : kernel'[m] # "none" => kernel[m] # "none" \/ m = t
  <2>1. CASE UNCHANGED kernel
    BY <2>1
  <2>2. CASE kernel' = [kernel EXCEPT ![Root] = "ro"]
    BY <2>2, Apart DEF TableInv, TableTypes
  <2>3. UNCHANGED kernel \/ kernel' = [kernel EXCEPT ![Root] = "ro"]
    BY <1>2
    DEF Eumount, ListBelow, UmountBelow, UmountLook, TryUmount, Unmounted, Gone, Detached
  <2> QED BY <2>1, <2>2, <2>3
<1>4. CASE \E result \in Stati \ {"idle", "working"} : Return(t, result)
  BY <1>1, <1>3, <1>4, FirstBack
<1>5. CASE \E frame \in Frames : SetTop(t, frame) /\ frame.mp = Root /\ frame.below = {}
                                 /\ (Goto(t, "below") \/ UNCHANGED pc) /\ UNCHANGED worldvars
  <2>1. PICK frame \in Frames : SetTop(t, frame) /\ frame.mp = Root /\ frame.below = {}
                                /\ (Goto(t, "below") \/ UNCHANGED pc) /\ UNCHANGED worldvars
    BY <1>5
  <2>2. stack'[t] = <<frame>> /\ \A u \in MountThreads \ {t} : stack'[u] = stack[u]
    BY <1>2, <2>1, TopSet DEF TableInv
  <2>3. pc'[t] \in Stages \ (Mounting \cup {"none"})
        /\ \A u \in MountThreads \ {t} : pc'[u] = pc[u]
    BY <1>1, <2>1 DEF Goto, TableInv, ThreadTypes, Stages, Mounting
  <2>4. OthersRest(t) /\ Alone(t)'
    BY <1>2, <2>1, <2>2, <2>3 DEF OthersRest, Alone, Subject
  <2> QED BY <1>1, <1>3, <2>1, <2>4, FirstForward DEF worldvars
<1>6. CASE Goto(t, "step") /\ UNCHANGED <<stack, worldvars>>
  <2>1. OthersRest(t) /\ pc'[t] = "step" /\ stack'[t] = stack[t]
    BY <1>6, Went DEF TableInv, Stages
  <2>2. Alone(t)'
    BY <1>1, <1>2, <2>1, AloneStays DEF Stages, Mounting
  <2> QED BY <1>1, <1>3, <1>6, <2>1, <2>2, FirstForward DEF worldvars
<1>7. \/ \E result \in Stati \ {"idle", "working"} : Return(t, result)
      \/ \E frame \in Frames : SetTop(t, frame) /\ frame.mp = Root /\ frame.below = {}
                               /\ (Goto(t, "below") \/ UNCHANGED pc) /\ UNCHANGED worldvars
      \/ Goto(t, "step") /\ UNCHANGED <<stack, worldvars>>
  <2>1. CASE ListBelow(t)
    BY <1>2, <2>1 DEF ListBelow, Stati, Frames
  <2>2. CASE UmountBelow(t)
    BY <1>2, <2>2 DEF UmountBelow
  <2>3. CASE UmountLook(t)
    BY <2>3 DEF UmountLook, Stati
  <2>4. CASE TryUmount(t)
    BY <1>2, <2>4 DEF TryUmount, Stati, Frames
  <2> QED BY <2>1, <2>2, <2>3, <2>4 DEF Eumount
<1> QED BY <1>4, <1>5, <1>6, <1>7

\* Who is called has one call.
LEMMA AloneCalled ==
  ASSUME NEW t \in MountThreads, NEW m \in All, stack'[t] = <<Frame(m)>>, m = Subject(t),
         pc'[t] \in Stages, t \in Mountpoints \cup {Boot} => pc'[t] \in Mounting,
         t = Power => pc'[t] \notin Mounting
  PROVE  Alone(t)'
<1>1. Frame(m) \in Frames /\ Frame(m).mp = m /\ Frame(m).below = {}
  BY FrameTyped DEF Frame
<1> HIDE DEF Frame
<1> QED BY <1>1 DEF Alone, Subject

LEMMA FirstBoot ==
  ASSUME MountsAssumption, TableInv, FirstRequest, DevicesAvailable
  PROVE  FirstRequest'
<1>1. Boot \in MountThreads /\ Boot # Updater /\ Boot \notin Mountpoints /\ Boot # Power
      /\ Root \in All
  BY Apart DEF All
<1>2. pc[Boot] = "none"
  BY <1>1 DEF TableInv, Busy, DevicesAvailable
<1>3. OthersRest(Boot) /\ pc'[Boot] = "mount" /\ stack'[Boot] = <<Frame(Root)>>
  BY <1>1, <1>2, Calling DEF DevicesAvailable, Stages, Reading
<1>4. Alone(Boot)'
  BY <1>1, <1>3, AloneCalled DEF Subject, Stages, Mounting
<1>5. \A u \in MountThreads : Alone(u)'
  BY <1>1, <1>3, <1>4, AloneElse DEF FirstRequest
<1>6. UNCHANGED <<status, asked, kernel>> /\ boot # "ok"
  BY DEF DevicesAvailable
<1> QED BY <1>5, <1>6 DEF FirstRequest, Begun, Behind

LEMMA FirstPower ==
  ASSUME MountsAssumption, TableInv, FirstRequest, PowerImminent
  PROVE  FirstRequest'
<1>1. Power \in MountThreads /\ Power # Updater /\ Power \notin Mountpoints /\ Boot # Power
      /\ Root \in All
  BY Apart DEF All
<1>2. pc[Power] = "none"
  BY <1>1 DEF TableInv, Busy, PowerImminent
<1>3. OthersRest(Power) /\ pc'[Power] = "umount" /\ stack'[Power] = <<Frame(Root)>>
  BY <1>1, <1>2, Calling DEF PowerImminent, Stages, Reading
<1>4. Alone(Power)'
  BY <1>1, <1>3, AloneCalled DEF Subject, Stages, Mounting
<1>5. \A u \in MountThreads : Alone(u)'
  BY <1>1, <1>3, <1>4, AloneElse DEF FirstRequest
<1>6. UNCHANGED <<status, asked, kernel, boot>>
  BY DEF PowerImminent
<1> QED BY <1>5, <1>6 DEF FirstRequest, Begun, Behind

LEMMA FirstUpdate ==
  ASSUME MountsAssumption, TableInv, FirstRequest, Update
  PROVE  FirstRequest'
<1>1. Updater \in MountThreads /\ Updater # Boot /\ Updater # Power /\ Updater \notin Mountpoints
  BY Apart
<1>2. OthersRest(Updater)
  BY <1>1, Went DEF TableInv, Stages, Update
<1>3. Alone(Updater)'
  BY <1>1 DEF Alone
<1>4. \A u \in MountThreads : Alone(u)'
  BY <1>1, <1>2, <1>3, AloneElse DEF FirstRequest
<1>5. UNCHANGED <<status, asked, kernel, boot>>
  BY DEF Update
<1> QED BY <1>4, <1>5 DEF FirstRequest, Begun, Behind

LEMMA FirstEnable ==
  ASSUME MountsAssumption, TableInv, FirstRequest, NEW m \in Mountpoints, Enable(m)
  PROVE  FirstRequest'
<1>1. m \in MountThreads /\ m # Updater /\ m # Boot /\ m # Power /\ m \in All
  BY Apart DEF All
<1>2. /\ m \in asked /\ status[m] # "working" /\ asked' = asked \ {m}
      /\ \A a \in After(m) : a \notin asked /\ status[a] # "working"
      /\ kernel' = kernel /\ boot' = boot
  BY DEF Enable
<1>3. boot = "ok" /\ m \notin After(m)
  BY <1>2 DEF FirstRequest
<1>4. CASE status[m] = "enabled" /\ UNCHANGED <<pc, stack, status>>
  <2>1. \A u \in MountThreads : Alone(u)'
    BY <1>4 DEF FirstRequest, Alone
  <2>2. ASSUME NEW n \in Mountpoints
        PROVE  (kernel'[n] # "none" => Begun(n)') /\ Behind(n)'
    BY <1>2, <1>4 DEF FirstRequest, Begun, Behind
  <2> QED BY <1>2, <1>3, <2>1, <2>2 DEF FirstRequest
<1>5. CASE status' = [status EXCEPT ![m] = "working"] /\ Call(m, m, "mount")
  <2>1. pc[m] = "none"
    BY <1>1, <1>2 DEF TableInv, Busy
  <2>2. OthersRest(m) /\ pc'[m] = "mount" /\ stack'[m] = <<Frame(m)>>
    BY <1>1, <1>5, <2>1, Calling DEF Enable, Stages, Reading
  <2>3. Alone(m)'
    BY <1>1, <2>2, AloneCalled DEF Subject, Stages, Mounting
  <2>4. \A u \in MountThreads : Alone(u)'
    BY <1>1, <2>2, <2>3, AloneElse DEF FirstRequest
  <2>5. status'[m] = "working" /\ \A n \in Mountpoints \ {m} : status'[n] = status[n]
    BY <1>5 DEF TableInv, WorldTypes
  <2>6. Begun(m)' /\ \A n \in Mountpoints \ {m} : Begun(n)' <=> Begun(n)
    BY <2>5 DEF Begun
  <2>7. Behind(m)'
    BY <1>2, <1>3, <2>5 DEF Behind
  <2>8. ASSUME NEW n \in Mountpoints \ {m}
        PROVE  (kernel'[n] # "none" => Begun(n)') /\ Behind(n)'
    <3>1. kernel'[n] # "none" => Begun(n)'
      BY <1>2, <2>6 DEF FirstRequest
    <3>2. Begun(n) => m \notin After(n)
      BY <1>2 DEF FirstRequest, Behind
    <3>3. Behind(n)'
      BY <1>2, <2>5, <2>6, <3>2 DEF FirstRequest, Behind
    <3> QED BY <3>1, <3>3
  <2> QED BY <1>2, <1>3, <2>4, <2>6, <2>7, <2>8 DEF FirstRequest
<1> QED BY <1>4, <1>5 DEF Enable

LEMMA FirstInit == ASSUME MountsAssumption, MountsInit PROVE MountsInv
<1>1. TableInv
  BY TableInit
<1>2. FirstRequest
  BY Apart DEF MountsInit, FirstRequest, Alone, Mounting, Stages, Begun, Behind, All
<1> QED BY <1>1, <1>2 DEF MountsInv

LEMMA MountsStep == ASSUME MountsAssumption, MountsInv, [MountsNext]_mountvars PROVE MountsInv'
<1>1. TableInv /\ TableInv'
  BY TableStep DEF MountsInv
<1>2. ASSUME requests' = 0
      PROVE  FirstRequest'
  <2>1. CASE UNCHANGED mountvars
    BY <1>2, <2>1 DEF MountsInv, FirstRequest, Alone, Begun, Behind, mountvars, worldvars
  <2>2. CASE MountsNext
    <3>1. \A m \in Mountpoints : ~Ask(m) /\ ~Disable(m)
      BY <1>1, <1>2 DEF Ask, Disable, TableInv, WorldTypes
    <3>2. requests = 0
      BY <1>2, <2>2, <3>1
         DEF MountsNext, DevicesAvailable, PowerImminent, CriticalEnable, Update, Enable,
            Work, Emount,
             ReadTable, Eumount, MountLook, TryMount, SetFlag, LockTable, ReadMounts, ClearFlags,
             MarkMounted, ListBelow, UmountBelow, UmountLook, TryUmount, worldvars, Return
    <3>3. FirstRequest
      BY <3>2 DEF MountsInv
    <3>4. CASE CriticalEnable
      BY <3>3, <3>4 DEF CriticalEnable, FirstRequest, Alone, Begun, Behind
    <3>5. ASSUME NEW t \in MountThreads, Work(t)
          PROVE  FirstRequest'
      BY <1>1, <3>3, <3>5, FirstMount, FirstRead, FirstUmount DEF Work
    <3> QED
      BY <1>1, <2>2, <3>1, <3>3, <3>4, <3>5, FirstBoot, FirstPower, FirstUpdate, FirstEnable
            DEF MountsNext
  <2> QED BY <2>1, <2>2
<1> QED BY <1>1, <1>2 DEF MountsInv

-----------------------------------------------------------------------------
\* What each variable holds, and that the lock of the table is held by exactly the thread
\* that rewrites the flags (mount_device_data_mutex).
THEOREM MountsTyped == MountsAssumption /\ MountsSpec => []MountsTypeOK
<1> SUFFICES ASSUME MountsAssumption PROVE MountsSpec => []MountsTypeOK
  OBVIOUS
<1>1. MountsInit => MountsInv
  BY FirstInit
<1>2. MountsInv /\ [MountsNext]_mountvars => MountsInv'
  BY MountsStep
<1>3. MountsInv => MountsTypeOK
  BY Apart
  DEF MountsInv, TableInv, TableTypes, WorldTypes, Stati, Stacked, Lock, Reading,
     MountsTypeOK
<1> QED BY <1>1, <1>2, <1>3, PTL DEF MountsSpec

\* A mountpoint comes after those above it, whatever its configuration says.
LEMMA AboveFirst ==
  ASSUME MountsAssumption, NEW m \in Mountpoints, NEW c \in Below(m)
  PROVE  m \in After(c)
<1>1. Len(m) \in Nat /\ m # << >> /\ m \in Seq(STRING)
  BY Apart, LenProperties DEF MountsAssumption, Root
<1>2. Len(m) > 0
  BY <1>1, EmptySeq
<1>3. c \in Mountpoints /\ Len(c) \in Nat /\ Len(c) > Len(m) /\ m = SubSeq(c, 1, Len(m))
  BY LenProperties DEF MountsAssumption, Below
<1>4. Len(m) \in 1..Len(c) - 1
  BY <1>1, <1>2, <1>3
<1>5. m \in Parents(c)
  BY <1>3, <1>4 DEF Parents
<1> QED BY <1>3, <1>5 DEF After, MountsAssumption

\* mount_do_mount_generic mounts a mountpoint while nothing is mounted below it, as long as
\* the first request is served: einit_mount_scanmodules has ordered them so, and the threads
\* of the module logic start none before what it comes after is done with.
THEOREM NothingHidden == MountsAssumption /\ MountsSpec => NotHidden
<1> DEFINE Clear == \A m \in Mountpoints :
                      requests = 0 /\ kernel[m] = "none" /\ kernel'[m] # "none" =>
                        \A c \in Below(m) : kernel[c] = "none"
<1> SUFFICES ASSUME MountsAssumption PROVE MountsSpec => [][Clear]_mountvars
  BY DEF NotHidden
<1>1. MountsInit => MountsInv
  BY FirstInit
<1>2. MountsInv /\ [MountsNext]_mountvars => MountsInv'
  BY MountsStep
<1>3. ASSUME MountsInv, MountsNext
      PROVE  Clear
  <2>1. SUFFICES ASSUME NEW m \in Mountpoints, requests = 0, kernel[m] = "none",
                        kernel'[m] # "none", NEW c \in Below(m)
                 PROVE  kernel[c] = "none"
    OBVIOUS
  <2>2. TableInv /\ FirstRequest
    BY <1>3, <2>1 DEF MountsInv
  <2>3. PICK t \in MountThreads : TryMount(t) \/ TryUmount(t)
    BY <1>3, <2>1
       DEF MountsNext, DevicesAvailable, PowerImminent, CriticalEnable, Update, Enable,
          Ask, Disable,
           Work, Emount, ReadTable, Eumount, MountLook, SetFlag, LockTable, ReadMounts,
           ClearFlags, MarkMounted, ListBelow, UmountBelow, UmountLook
  <2>4. pc[t] \notin {"none"} \cup Reading
    BY <2>3 DEF TryMount, TryUmount, Reading
  <2>5. m # Root
    BY Apart
  <2>6. TryMount(t) /\ pc[t] = "try"
    <3>1. CASE TryUmount(t)
      <4>1. Top(t).mp = Root
        BY <2>2, <2>4, <3>1, OnTop DEF TryUmount, Mounting
      <4> QED BY <2>1, <2>2, <2>5, <3>1, <4>1
              DEF TryUmount, Unmounted, Gone, Detached, TableInv, TableTypes, All
    <3> QED BY <2>3, <3>1 DEF TryMount
  <2>7. Top(t).mp = m
    BY <2>1, <2>2, <2>6 DEF TryMount, Mounted, TableInv, TableTypes, All
  <2>8. m = t
    BY <2>2, <2>4, <2>5, <2>7, OnTop DEF Subject
  <2>9. status[m] = "working"
    BY <2>2, <2>4, <2>8, WorkersBegun
  <2>10. c \in Mountpoints /\ m \in After(c)
    BY AboveFirst DEF Below
  <2> QED BY <2>2, <2>9, <2>10 DEF FirstRequest, Behind
<1>4. MountsInv /\ [MountsNext]_mountvars => [Clear]_mountvars
  BY <1>3
<1> HIDE DEF Clear
<1> QED BY <1>1, <1>2, <1>4, PTL DEF MountsSpec

-----------------------------------------------------------------------------
(* Timers, and modules that are suspended while nothing wakes them.        *)

Assumption == TimersAssumption /\ SuspensionAssumption

\* What t holds the mutex of: the module it resumes, or the one it suspends.
HoldsFor(t) == (IF job[t] = "resuming" THEN at[t] ELSE {}) \cup victim[t]

\* A thread is at one module, or at none, as its stage says; and does nothing else while
\* it sees to a timer or suspends modules.
PlaceOf(t) ==
  /\ at[t] = {} \/ \E m \in Modules : at[t] = {m}
  /\ job[t] \in {"resume", "resuming", "enter", "leave"} => at[t] # {}
  /\ job[t] \in {"idle", "wake", "set", "suspend all", "nap"} => at[t] = {}
  /\ victim[t] = {} \/ \E m \in Modules : victim[t] = {m}
  /\ victim[t] # {} <=> suspending[t] \in {"suspend", "ignore", "wakeup", "unload"}
  /\ timer[t] # "none" => job[t] \in {"idle", "wake", "nap"}
  /\ suspending[t] # "none" => timer[t] = "emit" \/ (timer[t] = "none" /\ job[t] = "suspend all")

Places == job[Scheduler] = "idle" /\ \A t \in Threads : PlaceOf(t)

Owned == \A m \in Modules, t \in Threads : mutex[m] = t <=> m \in HoldsFor(t)

\* A module sleeps or listens, and has a wake-up just when it sleeps, unless it is deaf;
\* except that one that is leaving has left the list already, or its wake-up behind, or both.
Rested(m) ==
  IF m \in suspended THEN m \in wakeups \ (listening \cup deaf)
  ELSE IF m \in deaf THEN m \in wakeups \ listening ELSE m \in listening \ wakeups

Unloading(t) == IF suspending[t] \in {"ignore", "wakeup", "unload"} THEN victim[t] ELSE {}

Leaving(t) ==
  \A m \in Unloading(t) :
    /\ suspending[t] # "ignore" => m \notin listening
    /\ suspending[t] # "wakeup" => m \in wakeups

Fading(m) == \E t \in Threads : m \in Unloading(t)

Asleep ==
  /\ \A m \in Modules : ~Fading(m) => Rested(m)
  /\ \A t \in Threads : Leaving(t) /\ victim[t] \cap suspended = {}

\* While t passes an event on, a module it does not count as disturbed is in nobody
\* else's hands ...
Emitting(t) ==
  job[t] \in {"wake", "resume", "resuming", "snooze", "set", "walk", "enter", "leave"}

CalmFor(t) ==
  Emitting(t) => \A m \in Modules \ disturbed[t] :
                   mutex[m] = Free \/ (job[t] = "resuming" /\ m \in at[t])

Calm == \A t \in Threads : CalmFor(t)

\* ... and still to come, or awake, or to be met, or served.
Covered(t, m) ==
  /\ job[t] \in {"wake", "resume", "resuming", "snooze", "set"} =>
       m \in todo[t] \cup at[t] \cup listening
  /\ job[t] = "snooze" => m \in todo[t] \cup listening
  /\ job[t] \in {"walk", "leave"} => m \in todo[t] \cup handled[t]
  /\ job[t] = "enter" => m \in todo[t] \cup handled[t] \cup at[t]

CoverFor(t) == \A m \in Modules \ (disturbed[t] \cup deaf) : Covered(t, m)

Cover == \A t \in Threads : CoverFor(t)

\* The alarm is armed for a time, never switched off.
Due == \A t \in Threads : timer[t] = "arm" => due[t] # 0

\* Usage is the number of handlers that run.
Users(m) == {t \in Threads : job[t] = "leave" /\ m \in at[t]}
Counted == \A m \in Modules : usage[m] = Cardinality(Users(m))

SuspensionInv ==
  TypeOK /\ Places /\ Owned /\ Asleep /\ Calm /\ Cover /\ Due /\ Counted /\ TickPending

-----------------------------------------------------------------------------
\* A set of times that is not empty has an earliest one.
LEMMA MinTime ==
  ASSUME NEW S \in SUBSET Nat, S # {}
  PROVE  Min(S) \in S /\ \A x \in S : Min(S) <= x
<1> DEFINE R == {p \in Nat \X Nat : p[1] < p[2]}
<1>1. IsWellFoundedOn(R, Nat)
  <2>1. OpToRel(<, Nat) = R
    BY DEF OpToRel
  <2> QED BY <2>1, NatLessThanWellFounded
<1> HIDE DEF R
<1>2. PICK x \in S : \A y \in S : <<y, x>> \notin R
  BY <1>1, WFMin
<1>3. ASSUME NEW y \in S PROVE x <= y
  <2>1. x \in Nat /\ y \in Nat
    OBVIOUS
  <2>2. <<y, x>> \notin R
    BY <1>2
  <2>3. ~(y < x)
    BY <2>1, <2>2 DEF R
  <2> QED BY <2>1, <2>3
<1> QED BY <1>3 DEF Min

LEMMA Constants ==
  ASSUME Assumption
  PROVE  /\ Callers \subseteq Threads /\ Scheduler \in Threads /\ Scheduler \notin Callers
         /\ Free \notin Threads
         /\ MaxTime \in Nat \ {0} /\ SnoozeTime \in Nat \ {0} /\ Slack \in Nat
BY DEF Assumption, TimersAssumption, SuspensionAssumption, Threads

LEMMA ThreadsFinite ==
  ASSUME Assumption
  PROVE  IsFiniteSet(Threads) /\ Cardinality(Threads) \in Nat
<1>1. IsFiniteSet(Threads)
  BY FS_AddElement DEF Threads, Assumption, TimersAssumption
<1> QED BY <1>1, FS_CardinalityType

LEMMA InitInv == Assumption /\ Init => SuspensionInv
<1> SUFFICES ASSUME Assumption, Init PROVE SuspensionInv
  OBVIOUS
<1> USE DEF Init, TimersInit, Assumption, TimersAssumption, SuspensionAssumption
<1>1. IsFiniteSet(Threads) /\ Cardinality(Threads) \in Nat
  BY ThreadsFinite
<1>2. TypeOK
  <2>1. woken \in BOOLEAN /\ crashed \in BOOLEAN
    BY Zenon
  <2>2. TimersTypes
    BY DEF TimersTypes, Times, TimerStages
  <2>3. ModuleTypes /\ JobTypes /\ EventTypes /\ SweepTypes
    BY <1>1 DEF ModuleTypes, JobTypes, EventTypes, SweepTypes, Jobs, SweepStages
  <2> QED BY <2>1, <2>2, <2>3 DEF TypeOK
<1>3. Places /\ Owned /\ Asleep /\ Calm /\ Cover /\ Due
  BY DEF Places, PlaceOf, Owned, HoldsFor, Asleep, Fading, Unloading, Leaving, Rested, Calm, CalmFor,
     Emitting, Cover, CoverFor, Covered, Due, Threads
<1>4. Counted
  <2>1. \A m \in Modules : Users(m) = {}
    BY DEF Users
  <2> QED BY <2>1, FS_EmptySet DEF Counted
<1>5. TickPending
  BY DEF TickPending
<1> QED BY <1>2, <1>3, <1>4, <1>5 DEF SuspensionInv

-----------------------------------------------------------------------------
\* Who moves which of the variables.

Acts(t) ==
  \/ SweepStep(t)
  \/ TimerStep(t) /\ UNCHANGED Rest
  \/ t \in Callers /\ (EmitStep(t) \/ SuspendAll(t) \/ Nap(t) \/ RegisterTimeout(t))

\* The state that only its thread changes.
Local(u) == <<job[u], at[u], handled[u], timer[u], due[u], suspending[u], victim[u]>>

LEMMA TimersMove ==
  ASSUME [Next]_vars
  PROVE  \/ UNCHANGED timervars
         \/ Clock /\ UNCHANGED Rest
         \/ \E t \in Threads : TimerStep(t) /\ UNCHANGED Rest
         \/ \E t \in Callers : Set(t) \/ RegisterTimeout(t)
         \/ \E t \in Threads : Tick(t) \/ Swept(t)
BY DEF Next, vars, EmitStep, SweepStep, Emit, Wake, Resume, Resumed, Snooze, Walk, Step,
   Enter,
       Leave, SuspendAll, Nap, Try, Ignore, Wakeup, Unload

LEMMA ModulesMove ==
  ASSUME [Next]_vars
  PROVE  \/ UNCHANGED modulevars
         \/ \E t \in Callers : Resume(t) \/ Resumed(t) \/ Enter(t) \/ Leave(t)
         \/ \E t \in Threads : Try(t) \/ Ignore(t) \/ Wakeup(t) \/ Unload(t)
BY DEF Next, vars, Rest, EmitStep, SweepStep, Emit, Wake, Snooze, Set, Walk, Step,
       SuspendAll, Nap, RegisterTimeout, Tick, Swept

LEMMA JobsMove ==
  ASSUME [Next]_vars
  PROVE  \/ UNCHANGED jobvars /\ UNCHANGED event_snooze_time
         \/ \E t \in Callers : EmitStep(t) \/ SuspendAll(t) \/ Nap(t)
         \/ \E t \in Threads : Ignore(t) \/ Swept(t)
BY DEF Next, vars, Rest, SweepStep, RegisterTimeout, Tick, Try, Wakeup, Unload

LEMMA EventsMove ==
  ASSUME [Next]_vars
  PROVE  \/ UNCHANGED <<handled, disturbed, events>>
         \/ \E t \in Callers :
              Emit(t) \/ Resume(t) \/ Resumed(t) \/ Enter(t) \/ SuspendAll(t) \/ RegisterTimeout(t)
         \/ \E t \in Threads : Try(t)
BY DEF Next, vars, Rest, EmitStep, SweepStep, eventvars, Wake, Snooze, Set, Walk,
   Step,
       Leave, Nap, Tick, Ignore, Wakeup, Unload, Swept

LEMMA SweepsMove ==
  ASSUME [Next]_vars
  PROVE  \/ UNCHANGED <<sweepvars, nap>>
         \/ \E t \in Callers : SuspendAll(t)
         \/ \E t \in Threads : SweepStep(t)
BY DEF Next, vars, Rest, EmitStep, Emit, Wake, Resume, Resumed, Snooze, Set, Walk, Step,
   Enter,
       Leave, Nap, RegisterTimeout

-----------------------------------------------------------------------------
LEMMA TimersTypesStep ==
  ASSUME Assumption, TimersTypes, JobTypes, [Next]_vars
  PROVE  TimersTypes'
<1> USE DEF Assumption, TimersAssumption, SuspensionAssumption, Threads,
            TimersTypes, Times,
            TimerStages, timervars, clockvars, TimerTo, Doing, Do, AtIs, Stage
<1>1. CASE UNCHANGED timervars
  BY <1>1
<1>2. CASE Clock
  <2>1. CASE Pass
    BY <2>1 DEF Pass
  <2>2. CASE Ring
    BY <2>2 DEF Ring
  <2>3. CASE Rouse
    BY <2>3 DEF Rouse
  <2> QED BY <1>2, <2>1, <2>2, <2>3 DEF Clock
<1>3. ASSUME NEW t \in Threads, TimerStep(t) PROVE TimersTypes'
  <2>1. CASE Insert(t)
    BY <2>1 DEF Insert
  <2>2. CASE Look(t)
    <3>1. now' \in Times
      BY <2>2, MinTime DEF Look
    <3>2. ticks' \subseteq Nat
      BY <2>2, MinTime DEF Look
    <3>3. alarm' \in Nat
      BY <2>2, MinTime DEF Look
    <3>4. timer' \in [Threads -> TimerStages]
      BY <2>2, MinTime DEF Look
    <3>5. due' \in [Threads -> Nat]
      BY <2>2, MinTime DEF Look
    <3>6. copy' \in [Threads -> SUBSET Nat]
      BY <2>2, MinTime DEF Look
    <3> QED BY <3>1, <3>2, <3>3, <3>4, <3>5, <3>6
  <2>3. CASE Arm(t)
    BY <2>3 DEF Arm
  <2>4. CASE Delete(t)
    BY <2>4 DEF Delete
  <2>5. CASE Store(t)
    BY <2>5 DEF Store
  <2> QED BY <1>3, <2>1, <2>2, <2>3, <2>4, <2>5 DEF TimerStep
<1>4. ASSUME NEW t \in Callers, Set(t) \/ RegisterTimeout(t) PROVE TimersTypes'
  <2>1. CASE Set(t)
    BY <2>1 DEF Set, JobTypes
  <2>2. CASE RegisterTimeout(t)
    BY <2>2 DEF RegisterTimeout, JobTypes
  <2> QED BY <1>4, <2>1, <2>2
<1>5. ASSUME NEW t \in Threads, Tick(t) \/ Swept(t) PROVE TimersTypes'
  <2>1. CASE Tick(t)
    BY <2>1 DEF Tick
  <2>2. CASE Swept(t)
    BY <2>2 DEF Swept
  <2> QED BY <1>5, <2>1, <2>2
<1> QED BY <1>1, <1>2, <1>3, <1>4, <1>5, TimersMove

LEMMA JobTypesStep ==
  ASSUME Assumption, TimersTypes, ModuleTypes, JobTypes, SweepTypes, [Next]_vars
  PROVE  JobTypes'
<1> USE DEF Assumption, TimersAssumption, SuspensionAssumption, Threads,
            JobTypes, Jobs,
            jobvars, TimerTo, Doing, Do, AtIs, Stage
<1>1. CASE UNCHANGED jobvars /\ UNCHANGED event_snooze_time
  BY <1>1
<1>2. ASSUME NEW t \in Callers, Emit(t) \/ Wake(t) \/ Resume(t) \/ Resumed(t) PROVE JobTypes'
  <2>1. CASE Emit(t)
    BY <2>1 DEF Emit
  <2>2. CASE Wake(t)
    <3>1. job' \in [Threads -> Jobs]
      BY <2>2 DEF Wake
    <3>2. todo' \in [Threads -> SUBSET Modules]
      BY <2>2 DEF Wake
    <3>3. at' \in [Threads -> SUBSET Modules]
      <4>1. UNCHANGED at \/ \E m \in todo[t] : at' = [at EXCEPT ![t] = {m}]
        BY <2>2 DEF Wake
      <4> HIDE DEF Jobs
      <4> QED BY <4>1
    <3>4. event_snooze_time' \in Nat
      BY <2>2 DEF Wake
    <3> QED BY <3>1, <3>2, <3>3, <3>4
  <2>3. CASE Resume(t)
    BY <2>3 DEF Resume
  <2>4. CASE Resumed(t)
    BY <2>4 DEF Resumed
  <2> QED BY <1>2, <2>1, <2>2, <2>3, <2>4
<1>3. ASSUME NEW t \in Callers, Snooze(t) \/ Set(t) PROVE JobTypes'
  <2>1. CASE Snooze(t)
    <3>1. job' \in [Threads -> Jobs]
      BY <2>1 DEF Snooze
    <3>2. todo' \in [Threads -> SUBSET Modules]
      BY <2>1 DEF Snooze
    <3>3. at' \in [Threads -> SUBSET Modules]
      BY <2>1 DEF Snooze
    <3>4. event_snooze_time' \in Nat
      <4>1. UNCHANGED event_snooze_time \/ event_snooze_time' = now + SnoozeTime
        BY <2>1 DEF Snooze
      <4> HIDE DEF Jobs
      <4> QED BY <4>1 DEF TimersTypes, Times
    <3> QED BY <3>1, <3>2, <3>3, <3>4
  <2>2. CASE Set(t)
    BY <2>2 DEF Set, TimersTypes, Times
  <2> QED BY <1>3, <2>1, <2>2
<1>4. ASSUME NEW t \in Callers, Walk(t) \/ Step(t) PROVE JobTypes'
  <2>1. CASE Walk(t)
    BY <2>1 DEF Walk, ModuleTypes
  <2>2. CASE Step(t)
    <3>1. job' \in [Threads -> Jobs]
      BY <2>2 DEF Step
    <3>2. todo' \in [Threads -> SUBSET Modules]
      <4>1. UNCHANGED todo \/ \E m \in todo[t] : todo' = [todo EXCEPT ![t] = @ \ {m}]
        BY <2>2 DEF Step
      <4> HIDE DEF Jobs
      <4> QED BY <4>1
    <3>3. at' \in [Threads -> SUBSET Modules]
      <4>1. \/ UNCHANGED at
            \/ at' = [at EXCEPT ![t] = {}]
            \/ \E m \in todo[t] : at' = [at EXCEPT ![t] = {m}]
        BY <2>2 DEF Step
      <4> HIDE DEF Jobs
      <4> QED BY <4>1
    <3>4. event_snooze_time' \in Nat
      BY <2>2 DEF Step
    <3> QED BY <3>1, <3>2, <3>3, <3>4
  <2> QED BY <1>4, <2>1, <2>2
<1>5. ASSUME NEW t \in Callers, Enter(t) \/ Leave(t) PROVE JobTypes'
  BY <1>5 DEF Enter, Leave
<1>6. ASSUME NEW t \in Callers, SuspendAll(t) \/ Nap(t) PROVE JobTypes'
  <2>1. CASE SuspendAll(t)
    BY <2>1 DEF SuspendAll, SweepTypes
  <2>2. CASE Nap(t)
    BY <2>2 DEF Nap, SweepTypes
  <2> QED BY <1>6, <2>1, <2>2
<1>7. ASSUME NEW t \in Threads, Ignore(t) \/ Swept(t) PROVE JobTypes'
  <2>1. CASE Ignore(t)
    BY <2>1 DEF Ignore
  <2>2. CASE Swept(t)
    <3>1. UNCHANGED <<todo, at>> /\ (event_snooze_time' = 0 \/ UNCHANGED event_snooze_time)
      BY <2>2 DEF Swept
    <3>2. UNCHANGED job \/ job' = [job EXCEPT ![t] = "nap"]
      BY <2>2 DEF Swept
    <3>3. job' \in [Threads -> Jobs]
      BY <3>2
    <3> HIDE DEF Jobs
    <3> QED BY <3>1, <3>3
  <2> QED BY <1>7, <2>1, <2>2
<1> QED BY <1>1, <1>2, <1>3, <1>4, <1>5, <1>6, <1>7, JobsMove DEF EmitStep

LEMMA EventTypesStep ==
  ASSUME Assumption, JobTypes, EventTypes, SweepTypes, [Next]_vars
  PROVE  EventTypes'
<1> USE DEF Assumption, TimersAssumption, SuspensionAssumption, Threads,
            EventTypes,
            TimerTo, Doing, Do, AtIs, Stage
<1>1. CASE UNCHANGED <<handled, disturbed, events>>
  BY <1>1
<1>2. ASSUME NEW t \in Callers, Emit(t) \/ SuspendAll(t) \/ RegisterTimeout(t) PROVE EventTypes'
  <2>1. CASE Emit(t)
    BY <2>1 DEF Emit
  <2>2. CASE SuspendAll(t)
    <3>1. events' = events + 1 /\ UNCHANGED <<handled, disturbed>>
      BY <2>2 DEF SuspendAll
    <3> QED BY <3>1
  <2>3. CASE RegisterTimeout(t)
    BY <2>3 DEF RegisterTimeout
  <2> QED BY <1>2, <2>1, <2>2, <2>3
<1>3. ASSUME NEW t \in Callers, Resume(t) \/ Resumed(t) \/ Enter(t) PROVE EventTypes'
  BY <1>3 DEF Resume, Resumed, Enter, JobTypes
<1>4. ASSUME NEW t \in Threads, Try(t) PROVE EventTypes'
  BY <1>4 DEF Try, SweepTypes
<1> QED BY <1>1, <1>2, <1>3, <1>4, EventsMove

LEMMA SweepTypesStep ==
  ASSUME Assumption, TimersTypes, SweepTypes, [Next]_vars
  PROVE  SweepTypes'
<1> USE DEF Assumption, TimersAssumption, SuspensionAssumption, Threads,
            SweepTypes, SweepStages,
            sweepvars, TimerTo, Doing, Do, AtIs, Stage
<1>1. CASE UNCHANGED <<sweepvars, nap>>
  BY <1>1
<1>2. ASSUME NEW t \in Callers, SuspendAll(t) PROVE SweepTypes'
  BY <1>2 DEF SuspendAll
<1>3. ASSUME NEW t \in Threads, Tick(t) \/ Try(t) PROVE SweepTypes'
  BY <1>3 DEF Tick, Try
<1>4. ASSUME NEW t \in Threads, Ignore(t) \/ Wakeup(t) \/ Unload(t) PROVE SweepTypes'
  BY <1>4 DEF Ignore, Wakeup, Unload
<1>5. ASSUME NEW t \in Threads, Swept(t) PROVE SweepTypes'
  BY <1>5 DEF Swept, TimersTypes, Times
<1> QED BY <1>1, <1>2, <1>3, <1>4, <1>5, SweepsMove DEF SweepStep

-----------------------------------------------------------------------------
LEMMA OthersStay ==
  ASSUME TypeOK, NEW t \in Threads, Acts(t), NEW u \in Threads, u # t
  PROVE  Local(u)' = Local(u)
<1> USE DEF Local, TypeOK, TimersTypes, JobTypes, EventTypes, SweepTypes, Do, AtIs, Stage,
            TimerTo, timervars, clockvars, modulevars, jobvars, eventvars, sweepvars
<1>1. CASE Emit(t)
  BY <1>1 DEF Emit
<1>2. CASE Wake(t)
  BY <1>2 DEF Wake
<1>3. CASE Resume(t)
  BY <1>3 DEF Resume
<1>4. CASE Resumed(t)
  BY <1>4 DEF Resumed
<1>5. CASE Snooze(t)
  BY <1>5 DEF Snooze
<1>6. CASE Set(t)
  BY <1>6 DEF Set
<1>7. CASE Walk(t)
  BY <1>7 DEF Walk
<1>8. CASE Step(t)
  BY <1>8 DEF Step
<1>9. CASE Enter(t)
  BY <1>9 DEF Enter
<1>10. CASE Leave(t)
  BY <1>10 DEF Leave
<1>11. CASE SuspendAll(t)
  BY <1>11 DEF SuspendAll
<1>12. CASE Nap(t)
  BY <1>12 DEF Nap
<1>13. CASE RegisterTimeout(t)
  BY <1>13 DEF RegisterTimeout
<1>14. CASE Tick(t)
  BY <1>14 DEF Tick
<1>15. CASE Try(t)
  BY <1>15 DEF Try
<1>16. CASE Ignore(t)
  BY <1>16 DEF Ignore
<1>17. CASE Unload(t)
  BY <1>17 DEF Unload
<1>18. CASE Swept(t)
  BY <1>18 DEF Swept
<1>19. CASE TimerStep(t) /\ UNCHANGED Rest
  BY <1>19 DEF TimerStep, Insert, Look, Arm, Delete, Store, Rest
<1>20. CASE Wakeup(t)
  BY <1>20 DEF Wakeup
<1> QED
  BY <1>1, <1>2, <1>3, <1>4, <1>5, <1>6, <1>7, <1>8, <1>9, <1>10, <1>11, <1>12, <1>13,
     <1>14, <1>15, <1>16, <1>17, <1>18, <1>19, <1>20 DEF Acts, EmitStep, SweepStep

LEMMA PlaceStep ==
  ASSUME Assumption, TypeOK, Places, NEW t \in Threads, Acts(t)
  PROVE  PlaceOf(t)'
<1> USE DEF Places, PlaceOf, TypeOK, TimersTypes, JobTypes, EventTypes, SweepTypes,
            Doing, Do, AtIs, Stage, TimerTo, timervars, clockvars, modulevars, jobvars, eventvars,
            sweepvars
<1>1. CASE Emit(t)
  BY <1>1 DEF Emit
<1>2. CASE Wake(t)
  <2>1. PICK m \in todo[t] :
          IF m \in wakeups \cap suspended THEN Do(t, "resume") /\ AtIs(t, {m})
          ELSE UNCHANGED <<job, at>>
    BY <1>2 DEF Wake
  <2>2. UNCHANGED <<timer, suspending, victim>> /\ job[t] = "wake" /\ timer[t] = "none"
    BY <1>2 DEF Wake
  <2>3. CASE m \in wakeups \cap suspended
    <3>1. Do(t, "resume") /\ AtIs(t, {m})
      BY <2>1, <2>3
    <3> QED BY <2>2, <3>1
  <2>4. CASE m \notin wakeups \cap suspended
    BY <2>1, <2>2, <2>4
  <2> QED BY <2>3, <2>4
<1>3. CASE Resume(t)
  BY <1>3 DEF Resume
<1>4. CASE Resumed(t)
  BY <1>4 DEF Resumed
<1>5. CASE Snooze(t)
  BY <1>5 DEF Snooze
<1>6. CASE Set(t)
  BY <1>6 DEF Set
<1>7. CASE Walk(t)
  BY <1>7 DEF Walk
<1>8. CASE Step(t)
  <2>1. UNCHANGED <<timer, suspending, victim>> /\ job[t] = "walk" /\ timer[t] = "none"
    BY <1>8 DEF Step
  <2>2. CASE UNCHANGED jobvars
    BY <2>1, <2>2
  <2>3. ASSUME NEW m \in todo[t], AtIs(t, {m}) /\ Do(t, "enter") PROVE PlaceOf(t)'
    BY <2>1, <2>3
  <2>4. CASE AtIs(t, {}) /\ Do(t, "idle")
    BY <2>1, <2>4
  <2> QED BY <1>8, <2>2, <2>3, <2>4 DEF Step
<1>9. CASE Enter(t)
  BY <1>9 DEF Enter
<1>10. CASE Leave(t)
  BY <1>10 DEF Leave
<1>11. CASE SuspendAll(t)
  BY <1>11 DEF SuspendAll
<1>12. CASE Nap(t)
  BY <1>12 DEF Nap
<1>13. CASE RegisterTimeout(t)
  BY <1>13 DEF RegisterTimeout
<1>14. CASE Tick(t)
  BY <1>14 DEF Tick
<1>15. CASE Try(t)
  <2>1. UNCHANGED <<timer, job, at>> /\ suspending[t] = "try"
    BY <1>15 DEF Try
  <2>2. CASE UNCHANGED <<victim, suspending>>
    BY <2>1, <2>2
  <2>3. ASSUME NEW m \in sweep[t], victim' = [victim EXCEPT ![t] = {m}], Stage(t, "suspend")
        PROVE  PlaceOf(t)'
    BY <2>1, <2>3
  <2> QED BY <1>15, <2>2, <2>3 DEF Try
<1>16. CASE Ignore(t)
  BY <1>16 DEF Ignore
<1>17. CASE Unload(t)
  BY <1>17 DEF Unload
<1>18. CASE Swept(t)
  BY <1>18 DEF Swept
<1>19. CASE Insert(t) /\ UNCHANGED Rest
  BY <1>19 DEF Insert, Rest
<1>20. CASE Look(t) /\ UNCHANGED Rest
  BY <1>20 DEF Look, Rest
<1>21. CASE Arm(t) /\ UNCHANGED Rest
  BY <1>21 DEF Arm, Rest
<1>22. CASE Delete(t) /\ UNCHANGED Rest
  BY <1>22 DEF Delete, Rest
<1>23. CASE Store(t) /\ UNCHANGED Rest
  BY <1>23 DEF Store, Rest
<1>24. CASE Wakeup(t)
  BY <1>24 DEF Wakeup
<1> QED
  BY <1>1, <1>2, <1>3, <1>4, <1>5, <1>6, <1>7, <1>8, <1>9, <1>10, <1>11, <1>12, <1>13,
     <1>14, <1>15, <1>16, <1>17, <1>18, <1>19, <1>20, <1>21, <1>22, <1>23, <1>24
  DEF Acts, EmitStep, SweepStep, TimerStep

LEMMA PlacesStep ==
  ASSUME Assumption, TypeOK, Places, [Next]_vars
  PROVE  Places'
<1>1. ASSUME NEW t \in Threads, Acts(t) PROVE Places'
  <2>1. ASSUME NEW u \in Threads, u # t PROVE PlaceOf(u)'
    <3>1. Local(u)' = Local(u)
      BY <1>1, <2>1, OthersStay
    <3>2. PlaceOf(u)
      BY DEF Places
    <3> QED BY <3>1, <3>2 DEF PlaceOf, Local
  <2>2. PlaceOf(t)'
    BY <1>1, PlaceStep
  <2>3. job'[Scheduler] = "idle"
    <3>1. CASE t # Scheduler
      BY <1>1, <3>1, OthersStay, Constants DEF Places, Local
    <3>2. CASE t = Scheduler /\ SweepStep(t)
      BY <3>2 DEF Places, PlaceOf, SweepStep, Tick, Try, Ignore, Wakeup, Unload, Swept, jobvars
    <3>3. CASE t = Scheduler /\ UNCHANGED Rest
      BY <3>3 DEF Places, Rest, jobvars
    <3> QED BY <1>1, <3>1, <3>2, <3>3, Constants DEF Acts
  <2> QED BY <2>1, <2>2, <2>3 DEF Places
<1>2. CASE Clock /\ UNCHANGED Rest
  BY <1>2, Constants
  DEF Places, PlaceOf, TypeOK, TimersTypes, Clock, Pass, Ring, Rouse, TimerTo,
     Rest, jobvars, sweepvars
<1>3. CASE UNCHANGED vars
  BY <1>3 DEF Places, PlaceOf, vars, timervars, jobvars, sweepvars
<1> QED BY <1>1, <1>2, <1>3, Constants DEF Next, Acts

-----------------------------------------------------------------------------
\* Most steps leave in a thread's hands what is there.
LEMMA OthersHold ==
  ASSUME TypeOK, NEW t \in Threads, Acts(t), NEW u \in Threads, u # t
  PROVE  HoldsFor(u)' = HoldsFor(u)
BY OthersStay DEF HoldsFor, Local

LEMMA HoldingStays ==
  ASSUME TypeOK, Places, NEW t \in Threads, Acts(t),
         ~(Resume(t) \/ Resumed(t) \/ Try(t) \/ Unload(t))
  PROVE  HoldsFor(t)' = HoldsFor(t) /\ UNCHANGED mutex
<1> USE DEF HoldsFor, Places, PlaceOf, TypeOK, JobTypes, SweepTypes, Doing, Do, AtIs, Stage,
            modulevars, jobvars, sweepvars
<1>1. CASE Emit(t)
  BY <1>1 DEF Emit
<1>2. CASE Wake(t)
  BY <1>2 DEF Wake
<1>3. CASE Snooze(t)
  BY <1>3 DEF Snooze
<1>4. CASE Set(t)
  BY <1>4 DEF Set
<1>5. CASE Walk(t)
  BY <1>5 DEF Walk
<1>6. CASE Step(t)
  BY <1>6 DEF Step
<1>7. CASE Enter(t)
  BY <1>7 DEF Enter
<1>8. CASE Leave(t)
  BY <1>8 DEF Leave
<1>9. CASE SuspendAll(t)
  BY <1>9 DEF SuspendAll
<1>10. CASE Nap(t)
  BY <1>10 DEF Nap
<1>11. CASE RegisterTimeout(t)
  BY <1>11 DEF RegisterTimeout
<1>12. CASE Tick(t)
  BY <1>12 DEF Tick
<1>13. CASE Ignore(t)
  BY <1>13 DEF Ignore
<1>14. CASE Swept(t)
  BY <1>14 DEF Swept
<1>15. CASE UNCHANGED Rest
  BY <1>15 DEF Rest
<1>16. CASE Wakeup(t)
  BY <1>16 DEF Wakeup
<1> QED
  BY <1>1, <1>2, <1>3, <1>4, <1>5, <1>6, <1>7, <1>8, <1>9, <1>10, <1>11, <1>12, <1>13,
     <1>14, <1>15, <1>16 DEF Acts, EmitStep, SweepStep

LEMMA OwnedTake ==
  ASSUME Owned, mutex \in [Modules -> Threads \cup {Free}], NEW t \in Threads, NEW m \in Modules,
         Free \notin Threads, mutex[m] = Free, mutex' = [mutex EXCEPT ![m] = t],
         HoldsFor(t) = {}, HoldsFor(t)' = {m},
         \A u \in Threads : u # t => HoldsFor(u)' = HoldsFor(u)
  PROVE  Owned'
BY DEF Owned

LEMMA OwnedRelease ==
  ASSUME Owned, NEW t \in Threads, Free \notin Threads,
         mutex' = [m \in Modules |-> IF m \in HoldsFor(t) THEN Free ELSE mutex[m]],
         HoldsFor(t)' = {},
         \A u \in Threads : u # t => HoldsFor(u)' = HoldsFor(u)
  PROVE  Owned'
BY DEF Owned

LEMMA OwnedKept ==
  ASSUME Owned, NEW t \in Threads, UNCHANGED mutex, HoldsFor(t)' = HoldsFor(t),
         \A u \in Threads : u # t => HoldsFor(u)' = HoldsFor(u)
  PROVE  Owned'
BY DEF Owned

LEMMA OwnedStep ==
  ASSUME Assumption, TypeOK, Places, Owned, [Next]_vars
  PROVE  Owned'
<1>1. ASSUME NEW t \in Threads, Acts(t) PROVE Owned'
  <2> USE DEF TypeOK, ModuleTypes, JobTypes, SweepTypes, Places, PlaceOf, Doing, Do, Stage
  <2>1. \A u \in Threads : u # t => HoldsFor(u)' = HoldsFor(u)
    BY <1>1, OthersHold
  <2>2. CASE Resume(t)
    <3>1. PICK m \in at[t] :
            \/ mutex[m] = Free /\ mutex' = [mutex EXCEPT ![m] = t] /\ Do(t, "resuming")
            \/ mutex[m] # Free /\ Do(t, "snooze") /\ UNCHANGED mutex
      BY <2>2 DEF Resume
    <3>2. at[t] = {m} /\ victim[t] = {} /\ UNCHANGED <<at, victim>> /\ job[t] = "resume"
      <4>1. job[t] = "resume" /\ timer[t] = "none" /\ UNCHANGED <<at, victim>>
        BY <2>2 DEF Resume, sweepvars
      <4>2. suspending[t] = "none"
        BY <4>1
      <4> QED BY <4>1, <4>2
    <3>3. HoldsFor(t) = {}
      BY <3>2 DEF HoldsFor
    <3>4. CASE mutex[m] = Free /\ mutex' = [mutex EXCEPT ![m] = t] /\ Do(t, "resuming")
      <4>1. HoldsFor(t)' = {m}
        BY <3>2, <3>4 DEF HoldsFor
      <4>2. m \in Modules
        OBVIOUS
      <4> QED BY <2>1, <3>2, <3>3, <3>4, <4>1, <4>2, Constants, OwnedTake
    <3>5. CASE Do(t, "snooze") /\ UNCHANGED mutex
      <4>1. HoldsFor(t)' = {}
        BY <3>2, <3>5 DEF HoldsFor
      <4> QED BY <2>1, <3>3, <3>5, <4>1, OwnedKept
    <3> QED BY <3>1, <3>4, <3>5
  <2>3. CASE Resumed(t)
    <3>1. HoldsFor(t) = at[t] /\ HoldsFor(t)' = {}
      BY <2>3 DEF Resumed, HoldsFor, sweepvars
    <3>2. mutex' = [m \in Modules |-> IF m \in HoldsFor(t) THEN Free ELSE mutex[m]]
      BY <2>3, <3>1 DEF Resumed
    <3> QED BY <2>1, <3>1, <3>2, Constants, OwnedRelease
  <2>4. CASE Try(t)
    <3>1. HoldsFor(t) = {} /\ job[t] # "resuming" /\ UNCHANGED <<job, at>>
      BY <2>4 DEF Try, HoldsFor, jobvars
    <3>2. CASE UNCHANGED <<mutex, victim>>
      BY <2>1, <3>1, <3>2, OwnedKept DEF HoldsFor
    <3>3. ASSUME NEW m \in sweep[t], mutex[m] = Free, mutex' = [mutex EXCEPT ![m] = t],
                 victim' = [victim EXCEPT ![t] = {m}]
          PROVE  Owned'
      <4>1. HoldsFor(t)' = {m}
        BY <3>1, <3>3 DEF HoldsFor
      <4>2. m \in Modules
        OBVIOUS
      <4> QED BY <2>1, <3>1, <3>3, <4>1, <4>2, Constants, OwnedTake
    <3> QED BY <2>4, <3>2, <3>3 DEF Try
  <2>5. CASE Unload(t)
    <3>1. HoldsFor(t) = victim[t] /\ HoldsFor(t)' = {}
      BY <2>5 DEF Unload, HoldsFor, jobvars
    <3>2. mutex' = [m \in Modules |-> IF m \in HoldsFor(t) THEN Free ELSE mutex[m]]
      BY <2>5, <3>1 DEF Unload
    <3> QED BY <2>1, <3>1, <3>2, Constants, OwnedRelease
  <2>6. CASE ~(Resume(t) \/ Resumed(t) \/ Try(t) \/ Unload(t))
    <3>1. HoldsFor(t)' = HoldsFor(t) /\ UNCHANGED mutex
      BY <1>1, <2>6, HoldingStays
    <3> QED BY <2>1, <3>1, OwnedKept
  <2> QED BY <2>2, <2>3, <2>4, <2>5, <2>6
<1>2. CASE UNCHANGED Rest
  BY <1>2 DEF Owned, HoldsFor, Rest, modulevars, jobvars, sweepvars
<1>3. CASE UNCHANGED vars
  BY <1>3 DEF Owned, HoldsFor, vars, modulevars, jobvars, sweepvars
<1> QED BY <1>1, <1>2, <1>3, Constants DEF Next, Acts

-----------------------------------------------------------------------------
\* What one thread has in hand is nobody else's.
LEMMA HandsDisjoint ==
  ASSUME Owned, TypeOK, NEW t \in Threads, NEW u \in Threads, t # u,
         NEW m \in Modules, m \in HoldsFor(t)
  PROVE  m \notin victim[u] /\ m \notin Unloading(u)
BY DEF Owned, HoldsFor, Unloading

LEMMA OthersUnload ==
  ASSUME TypeOK, NEW t \in Threads, Acts(t), NEW u \in Threads, u # t
  PROVE  UNCHANGED <<Unloading(u), victim[u], suspending[u]>>
BY OthersStay DEF Unloading, Local

LEMMA SleepStays ==
  ASSUME TypeOK, Places, NEW t \in Threads, Acts(t),
         ~(Resumed(t) \/ Ignore(t) \/ Wakeup(t) \/ Unload(t))
  PROVE  /\ UNCHANGED <<listening, wakeups, suspended, deaf>>
         /\ Unloading(t)' = Unloading(t)
         /\ Unloading(t) # {} => suspending'[t] = suspending[t]
         /\ victim'[t] \subseteq victim[t] \cup (Modules \ suspended)
<1> USE DEF Unloading, Places, PlaceOf, TypeOK, JobTypes, SweepTypes, Doing, Do, AtIs, Stage,
            modulevars, jobvars, sweepvars
<1>1. CASE Emit(t)
  BY <1>1 DEF Emit
<1>2. CASE Wake(t)
  BY <1>2 DEF Wake
<1>3. CASE Resume(t)
  BY <1>3 DEF Resume
<1>4. CASE Snooze(t)
  BY <1>4 DEF Snooze
<1>5. CASE Set(t)
  BY <1>5 DEF Set
<1>6. CASE Walk(t)
  BY <1>6 DEF Walk
<1>7. CASE Step(t)
  BY <1>7 DEF Step
<1>8. CASE Enter(t)
  BY <1>8 DEF Enter
<1>9. CASE Leave(t)
  BY <1>9 DEF Leave
<1>10. CASE SuspendAll(t)
  BY <1>10 DEF SuspendAll
<1>11. CASE Nap(t)
  BY <1>11 DEF Nap
<1>12. CASE RegisterTimeout(t)
  BY <1>12 DEF RegisterTimeout
<1>13. CASE Tick(t)
  BY <1>13 DEF Tick
<1>14. CASE Try(t)
  <2>1. UNCHANGED <<listening, wakeups, suspended, deaf>> /\ suspending[t] = "try"
    BY <1>14 DEF Try
  <2>2. CASE UNCHANGED <<victim, suspending>>
    BY <2>1, <2>2
  <2>3. ASSUME NEW m \in sweep[t], m \notin suspended, victim' = [victim EXCEPT ![t] = {m}],
               Stage(t, "suspend")
        PROVE  /\ Unloading(t)' = Unloading(t)
               /\ victim'[t] \subseteq victim[t] \cup (Modules \ suspended)
    BY <2>1, <2>3
  <2> QED BY <1>14, <2>1, <2>2, <2>3 DEF Try
<1>15. CASE Swept(t)
  BY <1>15 DEF Swept
<1>16. CASE UNCHANGED Rest
  BY <1>16 DEF Rest
<1> QED
  BY <1>1, <1>2, <1>3, <1>4, <1>5, <1>6, <1>7, <1>8, <1>9, <1>10, <1>11, <1>12, <1>13,
     <1>14, <1>15, <1>16 DEF Acts, EmitStep, SweepStep

\* A step that puts one module m, in t's hands only, to sleep or wakes it up.
LEMMA OneSleeps ==
  ASSUME Asleep, NEW t \in Threads, NEW m \in Modules,
         \A u \in Threads : u # t => UNCHANGED <<Unloading(u), victim[u], suspending[u]>>,
         \A u \in Threads : u # t => m \notin victim[u] /\ m \notin Unloading(u),
         Unloading(t) \subseteq {m}, Unloading(t)' \subseteq {m}, victim'[t] \subseteq {m},
         listening' \ {m} = listening \ {m}, wakeups' \ {m} = wakeups \ {m},
         suspended' \ {m} = suspended \ {m}, deaf' \ {m} = deaf \ {m},
         victim'[t] \cap suspended' = {},
         Leaving(t)', Unloading(t)' = {} => Rested(m)'
  PROVE  Asleep'
<1>1. ASSUME NEW x \in Modules, ~Fading(x)' PROVE Rested(x)'
  <2>1. CASE x = m
    BY <1>1, <2>1 DEF Fading
  <2>2. CASE x # m
    <3>1. ~Fading(x)
      BY <1>1, <2>2 DEF Fading
    <3>2. Rested(x)' = Rested(x)
      BY <2>2 DEF Rested
    <3> QED BY <3>1, <3>2 DEF Asleep
  <2> QED BY <2>1, <2>2
<1>2. ASSUME NEW u \in Threads PROVE Leaving(u)' /\ (victim[u] \cap suspended)' = {}
  <2>1. CASE u = t
    BY <2>1
  <2>2. CASE u # t
    BY <2>2 DEF Asleep, Leaving
  <2> QED BY <2>1, <2>2
<1> QED BY <1>1, <1>2 DEF Asleep

LEMMA AsleepStep ==
  ASSUME Assumption, TypeOK, Places, Owned, Asleep, [Next]_vars
  PROVE  Asleep'
<1>1. ASSUME NEW t \in Threads, Acts(t) PROVE Asleep'
  <2> USE DEF TypeOK, JobTypes, SweepTypes, Places, PlaceOf, Doing, Do, Stage
  <2>1. \A u \in Threads : u # t => UNCHANGED <<Unloading(u), victim[u], suspending[u]>>
    BY <1>1, OthersUnload
  <2>2. \A m \in HoldsFor(t) : m \in Modules => \A u \in Threads :
          u # t => m \notin victim[u] /\ m \notin Unloading(u)
    BY HandsDisjoint
  <2>3. CASE Resumed(t)
    <3>1. Unloading(t) = {} /\ Unloading(t)' = {} /\ HoldsFor(t) = at[t] /\ victim'[t] = {}
      BY <2>3 DEF Resumed, Unloading, HoldsFor, sweepvars
    <3>2. PICK m \in Modules : at[t] = {m}
      BY <2>3 DEF Resumed
    <3>3. /\ \/ /\ listening' = IF m \in suspended THEN listening \cup {m} ELSE listening
                /\ wakeups' = IF m \in suspended THEN wakeups \ {m} ELSE wakeups
                /\ suspended' = suspended \ {m}
             \/ UNCHANGED <<listening, wakeups, suspended>>
          /\ UNCHANGED deaf
      BY <2>3, <3>2 DEF Resumed
    <3>4. Rested(m)
      BY <2>2, <3>1, <3>2 DEF Asleep, Fading
    <3>5. Rested(m)'
      BY <3>3, <3>4 DEF Rested
    <3>6. m \in HoldsFor(t) /\ Leaving(t)'
      BY <3>1, <3>2 DEF Leaving
    <3> HIDE DEF TypeOK, Places
    <3> QED BY <2>1, <2>2, <3>1, <3>3, <3>5, <3>6, OneSleeps
  <2>4. CASE Ignore(t) \/ Wakeup(t)
    <3>1. PICK m \in Modules : victim[t] = {m}
      BY <2>4 DEF Ignore, Wakeup
    <3>2. /\ Unloading(t) \subseteq {m} /\ Unloading(t)' = {m} /\ victim'[t] = {m}
          /\ m \in HoldsFor(t)
      BY <2>4, <3>1 DEF Ignore, Wakeup, Unloading, HoldsFor
    <3>3. /\ listening' \ {m} = listening \ {m} /\ wakeups' \ {m} = wakeups \ {m}
          /\ UNCHANGED <<suspended, deaf>>
      BY <2>4, <3>1 DEF Ignore, Wakeup
    <3>4. m \notin suspended
      BY <3>1 DEF Asleep
    <3>5. Leaving(t)'
      <4>1. CASE Ignore(t)
        <5>1. listening' = listening \ {m} /\ UNCHANGED wakeups
          BY <3>1, <4>1 DEF Ignore
        <5>2. CASE suspending[t] = "suspend"
          BY <3>2, <4>1, <5>1, <5>2 DEF Ignore, Leaving
        <5>3. CASE suspending[t] = "ignore"
          BY <3>1, <3>2, <4>1, <5>1, <5>3 DEF Ignore, Asleep, Leaving, Unloading
        <5> QED BY <4>1, <5>2, <5>3 DEF Ignore
      <4>2. CASE Wakeup(t)
        <5>1. wakeups' = wakeups \cup {m} /\ UNCHANGED listening
          BY <3>1, <4>2 DEF Wakeup
        <5>2. CASE suspending[t] = "suspend"
          BY <3>2, <4>2, <5>1, <5>2 DEF Wakeup, Leaving
        <5>3. CASE suspending[t] = "wakeup"
          BY <3>1, <3>2, <4>2, <5>1, <5>3 DEF Wakeup, Asleep, Leaving, Unloading
        <5> QED BY <4>2, <5>2, <5>3 DEF Wakeup
      <4> QED BY <2>4, <4>1, <4>2
    <3> HIDE DEF TypeOK, Places
    <3> QED BY <2>1, <2>2, <3>2, <3>3, <3>4, <3>5, OneSleeps
  <2>5. CASE Unload(t)
    <3>1. PICK m \in Modules : victim[t] = {m}
      BY <2>5 DEF Unload
    <3>2. Unloading(t) = {m} /\ Unloading(t)' = {} /\ victim'[t] = {} /\ m \in HoldsFor(t)
      BY <2>5, <3>1 DEF Unload, Unloading, HoldsFor
    <3>3. /\ \/ suspended' = suspended \cup {m} /\ deaf' = deaf \ {m}
             \/ deaf' = deaf \cup {m} /\ UNCHANGED suspended
          /\ UNCHANGED <<listening, wakeups>>
      BY <2>5, <3>1 DEF Unload
    <3>4. m \in wakeups \ listening /\ m \notin suspended
      BY <2>5, <3>1, <3>2 DEF Unload, Asleep, Leaving
    <3>5. Rested(m)' /\ Leaving(t)'
      BY <3>2, <3>3, <3>4 DEF Rested, Leaving
    <3> HIDE DEF TypeOK, Places
    <3> QED BY <2>1, <2>2, <3>2, <3>3, <3>5, OneSleeps
  <2>6. CASE ~(Resumed(t) \/ Ignore(t) \/ Wakeup(t) \/ Unload(t))
    <3>1. /\ UNCHANGED <<listening, wakeups, suspended, deaf>>
          /\ Unloading(t)' = Unloading(t)
          /\ Unloading(t) # {} => suspending'[t] = suspending[t]
          /\ victim'[t] \subseteq victim[t] \cup (Modules \ suspended)
      BY <1>1, <2>6, SleepStays
    <3>2. ASSUME NEW x \in Modules, ~Fading(x)' PROVE Rested(x)'
      <4>1. ~Fading(x)
        BY <2>1, <3>1, <3>2 DEF Fading
      <4>2. Rested(x)' = Rested(x)
        BY <3>1 DEF Rested
      <4> QED BY <4>1, <4>2 DEF Asleep
    <3>3. ASSUME NEW u \in Threads PROVE Leaving(u)' /\ (victim[u] \cap suspended)' = {}
      <4>1. Unloading(u)' = Unloading(u) /\ (Unloading(u) # {} => suspending'[u] = suspending[u])
        BY <2>1, <3>1
      <4>2. Leaving(u)'
        BY <3>1, <4>1 DEF Asleep, Leaving
      <4> QED BY <2>1, <3>1, <4>2 DEF Asleep
    <3> QED BY <3>2, <3>3 DEF Asleep
  <2> QED BY <2>3, <2>4, <2>5, <2>6
<1>2. CASE UNCHANGED Rest
  BY <1>2 DEF Asleep, Fading, Unloading, Rested, Leaving, Rest, modulevars, sweepvars
<1>3. CASE UNCHANGED vars
  BY <1>3 DEF Asleep, Fading, Unloading, Rested, Leaving, vars, modulevars, sweepvars
<1> QED BY <1>1, <1>2, <1>3, Constants DEF Next, Acts

-----------------------------------------------------------------------------
\* A module gets into somebody's hands, or out of the list, only to the disturbance of
\* whoever is passing on an event meanwhile.
LEMMA VictimsDisturbed ==
  ASSUME Assumption, TypeOK, Places, Owned, Calm,
         NEW t \in Threads, NEW u \in Threads, Emitting(u), NEW m \in Modules, m \in victim[t]
  PROVE  m \in disturbed[u]
<1>1. mutex[m] = t
  BY DEF Owned, HoldsFor
<1>2. job[t] # "resuming"
  BY DEF Places, PlaceOf
<1>3. t # Free
  BY Constants
<1>4. CASE job[u] = "resuming" /\ m \in at[u]
  <2>1. mutex[m] = u
    BY <1>4 DEF Owned, HoldsFor
  <2> QED BY <1>1, <1>2, <1>4, <2>1
<1> QED BY <1>1, <1>3, <1>4 DEF Calm, CalmFor

LEMMA Disturbances ==
  ASSUME Assumption, TypeOK, NEW t \in Threads, Acts(t), NEW u \in Threads, u # t,
         NEW m \in Modules, m \notin disturbed'[u]
  PROVE  m \notin disturbed[u] /\ mutex'[m] \in {mutex[m], Free}
<1> USE DEF TypeOK, ModuleTypes, EventTypes, JobTypes, SweepTypes
<1>1. CASE Emit(t)
  BY <1>1 DEF Emit, modulevars
<1>2. CASE Resume(t)
  BY <1>2 DEF Resume
<1>3. CASE Resumed(t)
  BY <1>3 DEF Resumed, eventvars
<1>4. CASE Try(t)
  BY <1>4 DEF Try
<1>5. CASE Unload(t)
  BY <1>5 DEF Unload, eventvars
<1>6. CASE ~(Emit(t) \/ Resume(t) \/ Resumed(t) \/ Try(t) \/ Unload(t))
  BY <1>6 DEF Acts, EmitStep, SweepStep, Wake, Snooze, Set, Walk, Step, Enter, Leave,
     SuspendAll, Nap, RegisterTimeout, Tick, Ignore, Wakeup, Swept, Rest, modulevars, eventvars
<1> QED BY <1>1, <1>2, <1>3, <1>4, <1>5, <1>6

LEMMA CalmStep ==
  ASSUME Assumption, TypeOK, Places, Calm, [Next]_vars
  PROVE  Calm'
<1>1. ASSUME NEW t \in Threads, Acts(t) PROVE Calm'
  <2>1. ASSUME NEW u \in Threads, u # t PROVE CalmFor(u)'
    <3>1. Local(u)' = Local(u)
      BY <1>1, <2>1, OthersStay
    <3>2. CalmFor(u)
      BY DEF Calm
    <3>3. \A m \in Modules \ disturbed'[u] :
            m \notin disturbed[u] /\ mutex'[m] \in {mutex[m], Free}
      BY <1>1, <2>1, Disturbances
    <3> QED BY <3>1, <3>2, <3>3 DEF CalmFor, Emitting, Local
  <2>2. CalmFor(t)'
    <3> USE DEF TypeOK, ModuleTypes, JobTypes, EventTypes, SweepTypes, Calm, CalmFor, Emitting,
                Doing, Do, AtIs, Stage, modulevars, jobvars, eventvars
    <3>1. CASE Emit(t)
      BY <3>1 DEF Emit
    <3>2. CASE Wake(t)
      BY <3>2 DEF Wake
    <3>3. CASE Resume(t)
      BY <3>3 DEF Resume
    <3>4. CASE Resumed(t)
      BY <3>4 DEF Resumed
    <3>5. CASE Snooze(t)
      BY <3>5 DEF Snooze
    <3>6. CASE Set(t)
      BY <3>6 DEF Set
    <3>7. CASE Walk(t)
      BY <3>7 DEF Walk
    <3>8. CASE Step(t)
      BY <3>8 DEF Step
    <3>9. CASE Enter(t)
      BY <3>9 DEF Enter
    <3>10. CASE Leave(t)
      BY <3>10 DEF Leave
    <3>11. CASE SuspendAll(t)
      BY <3>11 DEF SuspendAll
    <3>12. CASE Nap(t)
      BY <3>12 DEF Nap
    <3>13. CASE RegisterTimeout(t)
      BY <3>13 DEF RegisterTimeout
    <3>14. CASE Tick(t)
      BY <3>14 DEF Tick
    <3>15. CASE Try(t)
      BY <3>15 DEF Try
    <3>16. CASE Ignore(t)
      BY <3>16 DEF Ignore
    <3>17. CASE Unload(t)
      BY <3>17 DEF Unload
    <3>18. CASE Swept(t)
      BY <3>18 DEF Swept
    <3>19. CASE UNCHANGED Rest
      BY <3>19 DEF Rest
    <3>20. CASE Wakeup(t)
      BY <3>20 DEF Wakeup
    <3> QED
      BY <1>1, <3>1, <3>2, <3>3, <3>4, <3>5, <3>6, <3>7, <3>8, <3>9, <3>10, <3>11, <3>12,
         <3>13, <3>14, <3>15, <3>16, <3>17, <3>18, <3>19, <3>20 DEF Acts, EmitStep, SweepStep
  <2> QED BY <2>1, <2>2 DEF Calm
<1>2. CASE UNCHANGED Rest
  BY <1>2 DEF Calm, CalmFor, Emitting, Rest, modulevars, jobvars, eventvars
<1>3. CASE UNCHANGED vars
  BY <1>3 DEF Calm, CalmFor, Emitting, vars, modulevars, jobvars, eventvars
<1> QED BY <1>1, <1>2, <1>3, Constants DEF Next, Acts

-----------------------------------------------------------------------------
\* What t does takes nothing from the list of another thread but what it disturbs.
LEMMA CoverOthers ==
  ASSUME Assumption, TypeOK, Places, Owned, Calm, NEW t \in Threads, Acts(t),
         NEW u \in Threads, Emitting(u), NEW m \in Modules, m \notin disturbed[u]
  PROVE  /\ m \in listening => m \in listening'
         /\ m \in deaf => m \in deaf'
         /\ u # t /\ m \in todo[u] => m \in todo'[u]
<1>1. m \notin victim[t]
  BY VictimsDisturbed
<1> USE DEF TypeOK, ModuleTypes, JobTypes, Doing, Do
<1>2. CASE Ignore(t)
  BY <1>1, <1>2 DEF Ignore
<1>3. CASE Resumed(t)
  BY <1>3 DEF Resumed
<1>6. CASE Unload(t)
  BY <1>1, <1>6 DEF Unload, jobvars
<1>7. ASSUME ~Unload(t) PROVE UNCHANGED deaf
  BY <1>7
  DEF Acts, EmitStep, SweepStep, Emit, Wake, Resume, Resumed, Snooze, Set, Walk, Step,
     Enter, Leave, SuspendAll, Nap, RegisterTimeout, Tick, Try, Ignore, Wakeup, Swept, Rest,
     modulevars
<1>4. ASSUME ~Ignore(t), ~Resumed(t) PROVE UNCHANGED listening
  BY <1>4
  DEF Acts, EmitStep, SweepStep, Emit, Wake, Resume, Snooze, Set, Walk, Step, Enter, Leave,
     SuspendAll, Nap, RegisterTimeout, Tick, Try, Wakeup, Unload, Swept, Rest, modulevars
<1>5. ASSUME ~Ignore(t), u # t PROVE todo'[u] = todo[u]
  BY <1>5
  DEF Acts, EmitStep, SweepStep, Emit, Wake, Resume, Resumed, Snooze, Set, Walk, Step,
     Enter, Leave, SuspendAll, Nap, RegisterTimeout, Tick, Try, Wakeup, Unload, Swept, Rest, jobvars
<1> QED BY <1>2, <1>3, <1>4, <1>5, <1>6, <1>7

\* A module at rest that does not wake up listens.
LEMMA AtRest ==
  ASSUME Assumption, TypeOK, Owned, Asleep, NEW m \in Modules, mutex[m] = Free
  PROVE  Rested(m)
<1>1. \A t \in Threads : m \notin HoldsFor(t)
  BY Constants DEF Owned
<1>2. ~Fading(m)
  BY <1>1 DEF Fading, Unloading, HoldsFor
<1> QED BY <1>2 DEF Asleep

LEMMA CoverStep ==
  ASSUME Assumption, TypeOK, Places, Owned, Asleep, Calm, Cover, [Next]_vars
  PROVE  Cover'
<1>1. ASSUME NEW t \in Threads, Acts(t) PROVE Cover'
  <2>1. ASSUME NEW u \in Threads, u # t PROVE CoverFor(u)'
    <3>1. Local(u)' = Local(u)
      BY <1>1, <2>1, OthersStay
    <3> SUFFICES ASSUME NEW m \in Modules, m \notin disturbed'[u], m \notin deaf'
                 PROVE  Covered(u, m)'
      BY DEF CoverFor
    <3>2. m \notin disturbed[u]
      BY <1>1, <2>1, Disturbances
    <3>3. Emitting(u) => Covered(u, m)
      <4>1. Emitting(u) => m \notin deaf
        BY <1>1, <3>2, CoverOthers
      <4> QED BY <3>2, <4>1 DEF Cover, CoverFor
    <3>4. Emitting(u) => (m \in listening => m \in listening') /\ (m \in todo[u] => m \in todo'[u])
      BY <1>1, <2>1, <3>2, CoverOthers
    <3> QED BY <3>1, <3>3, <3>4 DEF Covered, Emitting, Local
  <2>2. CoverFor(t)'
    <3> SUFFICES ASSUME NEW m \in Modules, m \notin disturbed'[t], m \notin deaf'
                 PROVE  Covered(t, m)'
      BY DEF CoverFor
    <3>0. m \notin disturbed[t] /\ Emitting(t) => m \notin deaf
      BY <1>1, CoverOthers
    <3>1. m \notin disturbed[t] => Covered(t, m)
      <4>1. CASE Emitting(t)
        BY <3>0, <4>1 DEF Cover, CoverFor
      <4>2. CASE ~Emitting(t)
        BY <4>2 DEF Covered, Emitting
      <4> QED BY <4>1, <4>2
    <3>2. Emitting(t) /\ m \notin disturbed[t] /\ m \in listening => m \in listening'
      BY <1>1, CoverOthers
    <3>3. Emitting(t) /\ m \notin disturbed[t] => mutex[m] = Free \/ (job[t] = "resuming" /\ m \in at[t])
      BY DEF Calm, CalmFor
    <3>4. mutex[m] = Free => Rested(m)
      BY AtRest
    <3> USE DEF TypeOK, ModuleTypes, JobTypes, EventTypes, SweepTypes, Emitting, Places, PlaceOf, Covered,
                Doing, Do, AtIs, Stage, modulevars, jobvars, eventvars
    <3>5. CASE Emit(t)
      BY <3>1, <3>2, <3>3, <3>4, <3>5 DEF Emit, Rested
    <3>6. CASE Wake(t)
      <4>1. /\ job[t] = "wake" /\ at[t] = {}
            /\ UNCHANGED <<disturbed, listening, handled>>
        BY <3>6 DEF Wake
      <4>2. PICK x \in todo[t] :
              /\ todo' = [todo EXCEPT ![t] = @ \ {x}]
              /\ IF x \in wakeups \cap suspended THEN Do(t, "resume") /\ AtIs(t, {x})
                 ELSE UNCHANGED <<job, at>>
        BY <3>6 DEF Wake
      <4>3. m \in todo[t] \cup listening
        BY <3>1, <4>1
      <4>4. x = m => m \in wakeups \cap suspended \/ m \in listening
        BY <3>0, <3>3, <3>4, <4>1 DEF Rested
      <4>5. CASE x \in wakeups \cap suspended
        <5>1. Do(t, "resume") /\ AtIs(t, {x})
          BY <4>2, <4>5
        <5> QED BY <4>1, <4>2, <4>3, <5>1
      <4>6. CASE x \notin wakeups \cap suspended
        <5>1. UNCHANGED <<job, at>>
          BY <4>2, <4>6
        <5> QED BY <4>1, <4>2, <4>3, <4>4, <4>6, <5>1
      <4> QED BY <4>5, <4>6
    <3>7. CASE Resume(t)
      <4>1. job[t] = "resume" /\ UNCHANGED <<todo, at, listening, handled>>
        BY <3>7 DEF Resume
      <4>2. PICK x \in at[t] : Do(t, "resuming") \/ (mutex[x] # Free /\ Do(t, "snooze"))
        BY <3>7 DEF Resume
      <4>3. at[t] = {x} /\ m \notin disturbed[t]
        <5>1. \/ UNCHANGED disturbed
              \/ \E y \in at[t] : disturbed' =
                   [u \in Threads |-> IF u = t THEN disturbed[u] ELSE disturbed[u] \cup {y}]
          BY <3>7 DEF Resume
        <5>2. m \notin disturbed[t]
          BY <5>1
        <5> QED BY <4>1, <5>2
      <4>4. m \in todo[t] \cup at[t] \cup listening
        BY <3>1, <4>1, <4>3
      <4>5. CASE Do(t, "resuming")
        BY <4>1, <4>4, <4>5
      <4>6. CASE mutex[x] # Free /\ Do(t, "snooze")
        <5>1. m # x
          BY <3>3, <4>1, <4>3, <4>6
        <5> QED BY <4>1, <4>3, <4>4, <4>6, <5>1
      <4> QED BY <4>2, <4>5, <4>6
    <3>8. CASE Resumed(t)
      <4>1. /\ job[t] = "resuming" /\ suspending[t] = "none"
            /\ UNCHANGED <<todo, at, handled>> /\ Do(t, "snooze")
        BY <3>8 DEF Resumed
      <4>0. /\ m \notin disturbed[t]
            /\ m \in at[t] => ~(disturbed' = [disturbed EXCEPT ![t] = @ \cup at[t]])
        <5>1. UNCHANGED disturbed \/ disturbed' = [disturbed EXCEPT ![t] = @ \cup at[t]]
          BY <3>8 DEF Resumed
        <5>2. CASE UNCHANGED disturbed
          <6>1. m \notin disturbed[t]
            BY <5>2
          <6>2. disturbed'[t] = disturbed[t]
            BY <5>2
          <6>3. disturbed' = [disturbed EXCEPT ![t] = @ \cup at[t]] =>
                  disturbed'[t] = disturbed[t] \cup at[t]
            OBVIOUS
          <6> QED BY <6>1, <6>2, <6>3
        <5>3. CASE disturbed' = [disturbed EXCEPT ![t] = @ \cup at[t]]
          <6>1. disturbed'[t] = disturbed[t] \cup at[t]
            BY <5>3
          <6> QED BY <6>1
        <5> QED BY <5>1, <5>2, <5>3
      <4>2. m \in todo[t] \cup at[t] \cup listening
        BY <3>1, <4>0, <4>1
      <4>3. CASE m \in at[t]
        <5>1. at[t] = {m} /\ m \in HoldsFor(t) /\ Unloading(t) = {}
          BY <4>1, <4>3 DEF HoldsFor, Unloading
        <5>2. ~Fading(m)
          BY <5>1, HandsDisjoint DEF Fading
        <5>3. m \in suspended \/ m \in listening
          BY <3>0, <4>0, <4>1, <5>2 DEF Asleep, Rested
        <5>4. m \in listening'
          BY <3>8, <4>0, <4>3, <5>1, <5>3 DEF Resumed
        <5> QED BY <4>1, <5>4
      <4>4. CASE m \notin at[t]
        <5>1. m \in listening => m \in listening'
          BY <3>8 DEF Resumed
        <5> QED BY <4>1, <4>2, <4>4, <5>1
      <4> QED BY <4>3, <4>4
    <3>9. CASE Snooze(t)
      BY <3>1, <3>2, <3>3, <3>4, <3>9 DEF Snooze, Rested
    <3>10. CASE Set(t)
      BY <3>1, <3>2, <3>3, <3>4, <3>10 DEF Set, Rested
    <3>11. CASE Walk(t)
      BY <3>1, <3>2, <3>3, <3>4, <3>11 DEF Walk, Rested
    <3>12. CASE Step(t)
      <4>1. job[t] = "walk" /\ UNCHANGED <<disturbed, handled>> /\ m \in todo[t] \cup handled[t]
        BY <3>1, <3>12 DEF Step
      <4>2. CASE UNCHANGED jobvars
        BY <4>1, <4>2
      <4>3. CASE Do(t, "idle")
        BY <4>3
      <4>4. ASSUME NEW x \in todo[t], AtIs(t, {x}), Do(t, "enter"),
                   todo' = [todo EXCEPT ![t] = @ \ {x}]
            PROVE  Covered(t, m)'
        BY <4>1, <4>4
      <4> QED BY <3>12, <4>2, <4>3, <4>4 DEF Step
    <3>13. CASE Enter(t)
      <4>1. /\ job[t] = "enter" /\ UNCHANGED <<disturbed, at, todo>>
            /\ m \in todo[t] \cup handled[t] \cup at[t]
        BY <3>1, <3>13 DEF Enter
      <4>2. CASE UNCHANGED <<handled, job>>
        BY <4>1, <4>2
      <4>3. CASE handled' = [handled EXCEPT ![t] = @ \cup at[t]] /\ Do(t, "leave")
        BY <4>1, <4>3
      <4> QED BY <3>13, <4>2, <4>3 DEF Enter
    <3>14. CASE Leave(t)
      BY <3>1, <3>2, <3>3, <3>4, <3>14 DEF Leave, Rested
    <3>15. CASE SuspendAll(t)
      BY <3>1, <3>2, <3>3, <3>4, <3>15 DEF SuspendAll, Rested
    <3>16. CASE Nap(t)
      BY <3>1, <3>2, <3>3, <3>4, <3>16 DEF Nap, Rested
    <3>17. CASE RegisterTimeout(t)
      BY <3>1, <3>2, <3>3, <3>4, <3>17 DEF RegisterTimeout, Rested
    <3>18. CASE Tick(t)
      BY <3>1, <3>2, <3>3, <3>4, <3>18 DEF Tick, Rested
    <3>19. CASE Try(t)
      <4>1. UNCHANGED <<job, todo, at, listening, handled>>
        BY <3>19 DEF Try
      <4>2. m \notin disturbed[t]
        <5>1. \/ UNCHANGED disturbed
              \/ \E x \in sweep[t] : disturbed' = [u \in Threads |-> disturbed[u] \cup {x}]
          BY <3>19 DEF Try
        <5>2. ASSUME NEW x \in sweep[t], disturbed' = [u \in Threads |-> disturbed[u] \cup {x}]
              PROVE  m \notin disturbed[t]
          BY <5>2
        <5> QED BY <5>1, <5>2
      <4> QED BY <3>1, <4>1, <4>2
    <3>20. CASE Ignore(t)
      BY <3>1, <3>2, <3>3, <3>4, <3>20 DEF Ignore, Rested
    <3>21. CASE Unload(t)
      BY <3>1, <3>2, <3>3, <3>4, <3>21 DEF Unload, Rested
    <3>22. CASE Swept(t)
      BY <3>1, <3>2, <3>3, <3>4, <3>22 DEF Swept, Rested
    <3>23. CASE UNCHANGED Rest
      BY <3>1, <3>23 DEF Rest
    <3>24. CASE Wakeup(t)
      BY <3>1, <3>2, <3>3, <3>4, <3>24 DEF Wakeup, Rested
    <3> QED
      BY <1>1, <3>5, <3>6, <3>7, <3>8, <3>9, <3>10, <3>11, <3>12, <3>13, <3>14, <3>15,
         <3>16, <3>17, <3>18, <3>19, <3>20, <3>21, <3>22, <3>23, <3>24
      DEF Acts, EmitStep, SweepStep
  <2> QED BY <2>1, <2>2 DEF Cover
<1>2. CASE UNCHANGED Rest
  BY <1>2 DEF Cover, CoverFor, Covered, Rest, modulevars, jobvars, eventvars
<1>3. CASE UNCHANGED vars
  BY <1>3 DEF Cover, CoverFor, Covered, vars, modulevars, jobvars, eventvars
<1> QED BY <1>1, <1>2, <1>3, Constants DEF Next, Acts

-----------------------------------------------------------------------------
\* An alarm is set for a time after now, hence not for 0, which would switch it off.
LEMMA DueStep ==
  ASSUME Assumption, TypeOK, Due, [Next]_vars
  PROVE  Due'
<1> USE DEF TypeOK, TimersTypes, Due, TimerTo
<1>1. CASE UNCHANGED timervars
  BY <1>1 DEF timervars
<1>2. CASE Clock
  BY <1>2 DEF Clock, Pass, Ring, Rouse
<1>3. ASSUME NEW t \in Threads, TimerStep(t) PROVE Due'
  <2>1. CASE Insert(t)
    BY <2>1 DEF Insert
  <2>2. CASE Look(t)
    <3>1. ticks # {} => Min(ticks) \in Nat
      BY MinTime
    <3>2. now \in Nat \ {0}
      BY Constants DEF Times
    <3> QED BY <2>2, <3>1, <3>2 DEF Look
  <2>3. CASE Arm(t)
    BY <2>3 DEF Arm
  <2>4. CASE Delete(t)
    BY <2>4 DEF Delete
  <2>5. CASE Store(t)
    BY <2>5 DEF Store
  <2> QED BY <1>3, <2>1, <2>2, <2>3, <2>4, <2>5 DEF TimerStep
<1>4. ASSUME NEW t \in Callers, Set(t) \/ RegisterTimeout(t) PROVE Due'
  BY <1>4, Constants DEF Set, RegisterTimeout, Doing
<1>5. ASSUME NEW t \in Threads, Tick(t) \/ Swept(t) PROVE Due'
  BY <1>5 DEF Tick, Swept
<1> QED BY <1>1, <1>2, <1>3, <1>4, <1>5, TimersMove

LEMMA PendingStep ==
  ASSUME Assumption, TypeOK, Due, TickPending, [Next]_vars
  PROVE  TickPending'
<1> USE DEF TypeOK, TimersTypes, TickPending, TimerTo
<1>1. CASE UNCHANGED timervars
  BY <1>1 DEF timervars, clockvars
<1>2. CASE Clock
  BY <1>2, Constants DEF Clock, Pass, Ring, Rouse
<1>3. ASSUME NEW t \in Threads, TimerStep(t) PROVE TickPending'
  <2>1. CASE Insert(t)
    BY <2>1 DEF Insert
  <2>2. CASE Look(t)
    BY <2>2 DEF Look, clockvars
  <2>3. CASE Arm(t)
    BY <2>3 DEF Arm, Due
  <2>4. CASE Delete(t)
    BY <2>4 DEF Delete
  <2>5. CASE Store(t)
    BY <2>5 DEF Store
  <2> QED BY <1>3, <2>1, <2>2, <2>3, <2>4, <2>5 DEF TimerStep
<1>4. ASSUME NEW t \in Callers, Set(t) \/ RegisterTimeout(t) PROVE TickPending'
  BY <1>4, Constants DEF Set, RegisterTimeout
<1>5. ASSUME NEW t \in Threads, Tick(t) \/ Swept(t) PROVE TickPending'
  BY <1>5 DEF Tick, Swept, clockvars
<1> QED BY <1>1, <1>2, <1>3, <1>4, <1>5, TimersMove

-----------------------------------------------------------------------------
\* A handler that begins or ends is counted in or out once.
InHandler(t) == IF job[t] = "leave" THEN at[t] ELSE {}

LEMMA HandlerStays ==
  ASSUME TypeOK, Places, NEW t \in Threads, Acts(t), ~(t \in Callers /\ (Enter(t) \/ Leave(t)))
  PROVE  InHandler(t)' = InHandler(t) /\ UNCHANGED usage
<1> USE DEF InHandler, Places, PlaceOf, TypeOK, JobTypes, Doing, Do, AtIs, Stage,
            modulevars, jobvars
<1>1. CASE Emit(t)
  BY <1>1 DEF Emit
<1>2. CASE Wake(t)
  BY <1>2 DEF Wake
<1>3. CASE Resume(t)
  BY <1>3 DEF Resume
<1>4. CASE Resumed(t)
  BY <1>4 DEF Resumed
<1>5. CASE Snooze(t)
  BY <1>5 DEF Snooze
<1>6. CASE Set(t)
  BY <1>6 DEF Set
<1>7. CASE Walk(t)
  BY <1>7 DEF Walk
<1>8. CASE Step(t)
  BY <1>8 DEF Step
<1>9. CASE SuspendAll(t)
  BY <1>9 DEF SuspendAll
<1>10. CASE Nap(t)
  BY <1>10 DEF Nap
<1>11. CASE RegisterTimeout(t)
  BY <1>11 DEF RegisterTimeout
<1>12. CASE Tick(t)
  BY <1>12 DEF Tick
<1>13. CASE Try(t)
  BY <1>13 DEF Try
<1>14. CASE Ignore(t)
  BY <1>14 DEF Ignore
<1>15. CASE Unload(t)
  BY <1>15 DEF Unload
<1>16. CASE Swept(t)
  BY <1>16 DEF Swept
<1>17. CASE UNCHANGED Rest
  BY <1>17 DEF Rest
<1>18. CASE Wakeup(t)
  BY <1>18 DEF Wakeup
<1> QED
  BY <1>1, <1>2, <1>3, <1>4, <1>5, <1>6, <1>7, <1>8, <1>9, <1>10, <1>11, <1>12, <1>13,
     <1>14, <1>15, <1>16, <1>17, <1>18 DEF Acts, EmitStep, SweepStep

LEMMA CountedStep ==
  ASSUME Assumption, TypeOK, Places, Counted, [Next]_vars
  PROVE  Counted'
<1>1. ASSUME NEW t \in Threads, Acts(t) PROVE Counted'
  <2> USE DEF TypeOK, JobTypes, ModuleTypes, Doing, Do
  <2> SUFFICES ASSUME NEW m \in Modules PROVE usage'[m] = Cardinality(Users(m)')
    BY DEF Counted
  <2>1. usage[m] = Cardinality(Users(m))
    BY DEF Counted
  <2>2. IsFiniteSet(Users(m))
    BY FS_Subset, ThreadsFinite DEF Users
  <2>3. \A u \in Threads : u # t => InHandler(u)' = InHandler(u)
    BY <1>1, OthersStay DEF InHandler, Local
  <2>4. CASE Enter(t) /\ UNCHANGED <<usage, job>>
    <3>1. Users(m)' = Users(m)
      BY <2>4 DEF Enter, Users
    <3> QED BY <2>1, <2>4, <3>1
  <2>5. CASE Enter(t) /\ Do(t, "leave")
    <3>1. /\ job[t] = "enter" /\ UNCHANGED at /\ job' = [job EXCEPT ![t] = "leave"]
          /\ usage' = [x \in Modules |-> IF x \in at[t] THEN usage[x] + 1 ELSE usage[x]]
      BY <2>5 DEF Enter
    <3>2. CASE m \in at[t]
      <4>1. Users(m)' = Users(m) \cup {t} /\ t \notin Users(m)
        BY <3>1, <3>2 DEF Users
      <4>2. Cardinality(Users(m)') = Cardinality(Users(m)) + 1
        BY <2>2, <4>1, FS_AddElement
      <4> QED BY <2>1, <3>1, <3>2, <4>2
    <3>3. CASE m \notin at[t]
      <4>1. Users(m)' = Users(m)
        BY <3>1, <3>3 DEF Users
      <4> QED BY <2>1, <3>1, <3>3, <4>1
    <3> QED BY <3>2, <3>3
  <2>6. CASE Leave(t)
    <3>1. /\ job[t] = "leave" /\ UNCHANGED at /\ job' = [job EXCEPT ![t] = "walk"]
          /\ usage' = [x \in Modules |-> IF x \in at[t] THEN usage[x] - 1 ELSE usage[x]]
      BY <2>6 DEF Leave
    <3>2. CASE m \in at[t]
      <4>1. Users(m)' = Users(m) \ {t} /\ t \in Users(m)
        BY <3>1, <3>2 DEF Users
      <4>2. Cardinality(Users(m)') = Cardinality(Users(m)) - 1
        BY <2>2, <4>1, FS_RemoveElement
      <4> QED BY <2>1, <3>1, <3>2, <4>2
    <3>3. CASE m \notin at[t]
      <4>1. Users(m)' = Users(m)
        BY <3>1, <3>3 DEF Users
      <4> QED BY <2>1, <3>1, <3>3, <4>1
    <3> QED BY <3>2, <3>3
  <2>7. CASE ~(t \in Callers /\ (Enter(t) \/ Leave(t)))
    <3>1. InHandler(t)' = InHandler(t) /\ UNCHANGED usage
      BY <1>1, <2>7, HandlerStays
    <3>2. Users(m) = {u \in Threads : m \in InHandler(u)}
      BY DEF Users, InHandler
    <3>3. Users(m)' = {u \in Threads : m \in InHandler(u)'}
      BY DEF Users, InHandler
    <3>4. Users(m)' = Users(m)
      BY <2>3, <3>1, <3>2, <3>3
    <3> QED BY <2>1, <3>1, <3>4
  <2>8. Enter(t) => UNCHANGED <<usage, job>> \/ Do(t, "leave")
    BY DEF Enter
  <2> QED BY <2>4, <2>5, <2>6, <2>7, <2>8
<1>2. ASSUME UNCHANGED <<usage, job, at>> PROVE Counted'
  <2>1. \A m \in Modules : Users(m)' = Users(m)
    BY <1>2 DEF Users
  <2> QED BY <1>2, <2>1 DEF Counted
<1>3. UNCHANGED Rest \/ UNCHANGED vars => UNCHANGED <<usage, job, at>>
  BY DEF Rest, vars, modulevars, jobvars
<1> QED BY <1>1, <1>2, <1>3, Constants DEF Next, Acts

\* Hence no more handlers of a module run than there are threads.
LEMMA ModuleTypesStep ==
  ASSUME Assumption, TypeOK, Counted', [Next]_vars
  PROVE  ModuleTypes'
<1> USE DEF TypeOK, ModuleTypes, JobTypes, SweepTypes
<1>1. usage' \in [Modules -> 0..Cardinality(Threads)]
  <2>1. usage' = [m \in Modules |-> usage'[m]]
    <3>1. usage = [m \in Modules |-> usage[m]]
      OBVIOUS
    <3>2. \/ UNCHANGED usage
          \/ \E t \in Threads :
               \/ usage' = [m \in Modules |-> IF m \in at[t] THEN usage[m] + 1 ELSE usage[m]]
               \/ usage' = [m \in Modules |-> IF m \in at[t] THEN usage[m] - 1 ELSE usage[m]]
      BY ModulesMove, Constants
      DEF modulevars, Resume, Resumed, Enter, Leave, Try, Ignore, Wakeup, Unload
    <3> QED BY <3>1, <3>2
  <2>2. ASSUME NEW m \in Modules PROVE usage'[m] \in 0..Cardinality(Threads)
    <3>1. Users(m)' \subseteq Threads
      BY DEF Users
    <3>2. /\ Cardinality(Users(m)') \in Nat /\ Cardinality(Threads) \in Nat
          /\ Cardinality(Users(m)') <= Cardinality(Threads)
      BY <3>1, ThreadsFinite, FS_Subset, FS_CardinalityType
    <3> QED BY <3>2 DEF Counted
  <2> QED BY <2>1, <2>2
<1> DEFINE Rightly ==
      /\ listening' \subseteq Modules /\ wakeups' \subseteq Modules /\ suspended' \subseteq Modules
      /\ deaf' \subseteq Modules
      /\ mutex' \in [Modules -> Threads \cup {Free}]
<1>2. Rightly
  <2>1. CASE UNCHANGED modulevars
    BY <2>1 DEF modulevars
  <2>2. ASSUME NEW t \in Callers, Resume(t) \/ Resumed(t) PROVE Rightly
    BY <2>2, Constants DEF Resume, Resumed
  <2>3. ASSUME NEW t \in Callers, Enter(t) \/ Leave(t) PROVE Rightly
    BY <2>3 DEF Enter, Leave
  <2>4. ASSUME NEW t \in Threads, Try(t) PROVE Rightly
    BY <2>4 DEF Try
  <2>5. ASSUME NEW t \in Threads, Ignore(t) \/ Wakeup(t) \/ Unload(t) PROVE Rightly
    BY <2>5 DEF Ignore, Wakeup, Unload
  <2> QED BY <2>1, <2>2, <2>3, <2>4, <2>5, ModulesMove
<1> QED BY <1>1, <1>2

-----------------------------------------------------------------------------
LEMMA TypeStep ==
  ASSUME Assumption, SuspensionInv, Counted', [Next]_vars
  PROVE  TypeOK'
<1>1. TypeOK
  BY DEF SuspensionInv
<1>2. TimersTypes' /\ ModuleTypes' /\ JobTypes' /\ EventTypes' /\ SweepTypes'
  BY <1>1, TimersTypesStep, ModuleTypesStep, JobTypesStep, EventTypesStep, SweepTypesStep
  DEF TypeOK
<1>3. woken' \in BOOLEAN
  <2>1. UNCHANGED woken \/ woken' = TRUE \/ woken' = FALSE
    BY TimersMove, Zenon
    DEF timervars, clockvars, Clock, Pass, Ring, Rouse, TimerStep, Insert, Look, Arm,
       Delete, Store,
        Set, RegisterTimeout, Tick, Swept
  <2> QED BY <1>1, <2>1, Zenon DEF TypeOK
<1>4. crashed' \in BOOLEAN
  <2>1. UNCHANGED crashed \/ crashed' = TRUE
    BY Zenon
    DEF Next, vars, eventvars, Rest, EmitStep, SweepStep, Emit, Wake, Resume, Resumed,
       Snooze, Set,
        Walk, Step, Enter, Leave, SuspendAll, Nap, RegisterTimeout, Tick, Try, Ignore, Wakeup,
        Unload, Swept
  <2> QED BY <1>1, <2>1, Zenon DEF TypeOK
<1> QED BY <1>2, <1>3, <1>4 DEF TypeOK

LEMMA RestStep ==
  ASSUME Assumption, SuspensionInv, [Next]_vars
  PROVE  SuspensionInv'
<1>1. Counted'
  BY CountedStep DEF SuspensionInv
<1>2. TypeOK'
  BY <1>1, TypeStep
<1> QED
  BY <1>1, <1>2, PlacesStep, OwnedStep, AsleepStep, CalmStep, CoverStep, DueStep,
     PendingStep
        DEF SuspensionInv

\* The types, and what is true of modules, threads, timers and events whenever event.c,
\* scheduler.c and einit-core.c are between two steps.
THEOREM SuspensionAlways == Assumption /\ Spec => []SuspensionInv
<1> SUFFICES ASSUME Assumption PROVE Spec => []SuspensionInv
  OBVIOUS
<1>1. Init => SuspensionInv
  BY InitInv
<1>2. SuspensionInv /\ [Next]_vars => SuspensionInv'
  BY RestStep
<1> QED BY <1>1, <1>2, PTL DEF Spec

-----------------------------------------------------------------------------
\* event.c, scheduler.c and einit-core.c keep every variable in its range; in particular no
\* module counts more handlers than there are threads, nor fewer than none.
THEOREM SuspensionTypes == Assumption /\ Spec => []TypeOK
<1>1. SuspensionInv => TypeOK
  BY DEF SuspensionInv
<1> QED BY <1>1, SuspensionAlways, PTL

\* scheduler.c: while a tick is waiting the alarm is armed or has gone off, or a thread is
\* on its way to look at the list.
THEOREM TicksPending == Assumption /\ Spec => []TickPending
<1>1. SuspensionInv => TickPending
  BY DEF SuspensionInv
<1> QED BY <1>1, SuspensionAlways, PTL

\* event.c: a module in nobody's hands listens, or sleeps with a wake-up left behind, unless the
\* last attempt to unload it has failed.
THEOREM ModulesWakeable == Assumption /\ Spec => []Wakeable
<1> SUFFICES ASSUME Assumption PROVE Spec => []Wakeable
  OBVIOUS
<1>1. SuspensionInv => Wakeable
  BY AtRest DEF SuspensionInv, Wakeable, Rested
<1> QED BY <1>1, SuspensionAlways, PTL

\* event.c: no module goes deaf unless the loader cannot unload it, and an event has reached
\* every module when the walk is over, asleep or not, save those that are deaf, that another
\* thread had in hand meanwhile, or that could not be loaded.
THEOREM EventsReachModules == Assumption /\ Spec => []EventsReach
<1>1. SuspensionInv => EventReaches
  BY DEF SuspensionInv, EventReaches, Doing, Cover, CoverFor, Covered
<1>2. Assumption /\ Spec => []EventReaches
  BY <1>1, SuspensionAlways, PTL
<1> QED BY <1>2, ModulesWakeable, PTL DEF EventsReach

=============================================================================
