------------------------------- MODULE MCBoot -------------------------------
(***************************************************************************)
(* Small instances of what a boot is made of, checked in one run: the      *)
(* first step of a behaviour has settled for one of the components, and    *)
(* the others stay as they are at the start.  Timers and suspension, the   *)
(* mountpoints, the interfaces, the devices and the transformations are    *)
(* this module's own variables.                                            *)
(***************************************************************************)
EXTENDS Suspension, Mounts, Network, Devices, Transformations, TLC

VARIABLES
  scene,          \* the component that takes the steps
  text,
  tree, curmode, known, highest, reading, disk, clock, added, read, sets, kept, config_starts

configuration == <<tree, curmode, known, highest, reading, disk, clock, added, read, sets,
                   kept, config_starts>>
scenevars == <<scene, mountvars, netvars, devicevars, text, configuration, transformvars>>

-----------------------------------------------------------------------------
\* /usr and, on a device of its own, /usr/local, which the kernel may refuse.
Usr == <<"usr">>
Local == <<"usr", "local">>

UsrLocal == {Usr, Local}
SameDevice == [m \in UsrLocal |-> <<"dev", "sda">>]
LocalCritical == [m \in UsrLocal |-> IF m = Local THEN {"critical"} ELSE {}]
ByPath == << >>
JustLocal == {Local}
NoThread == <<"(nobody)">>

\* An interface with two controllers and three IP managers, and a bridge over another.
EthAndBridge == {"eth0", "eth1", "br0"}
Links == [eth0 |-> <<"ifconfig", "wpa">>, eth1 |-> <<"none">>, br0 |-> <<"brctl">>]
Addresses == [eth0 |-> <<"dhcpcd", "pump", "dhclient">>, eth1 |-> <<"static">>,
              br0 |-> <<"static">>]
Scripts ==
  [ifconfig |-> {"enable", "disable"}, wpa |-> {"disable", "renew"},
   brctl |-> {"enable", "disable"}, dhcpcd |-> {"enable", "disable", "renew"},
   dhclient |-> {"enable", "disable", "renew"}, static |-> {"enable", "disable"}]
OverEth1 == [i \in EthAndBridge |-> IF i = "br0" THEN <<"eth1">> ELSE << >>]

\* One device that is there and one that comes and wants firmware; of two rules the second
\* speaks of the first device only.
Attributes == [null |-> [base |-> "null"], wlan |-> [subsystem |-> "net", base |-> "wlan"]]
TwoRules ==
  << [match |-> << >>, set |-> [chmod |-> "0660", devicefile |-> "/dev/base"]],
     [match |-> [base |-> {"null"}], set |-> [chmod |-> "0666", devicefile |-> "/dev/base"]] >>

\* The variable "a" has the value "&", which is the separator as well.
Texts == INSTANCE Texts WITH
  Chars <- {"$", "{", "}", "a", "&"}, Separator <- "&", Name <- <<"a">>, Value <- <<"&">>,
  MaxText <- 6

-----------------------------------------------------------------------------
\* einit.xml names local.xml first, then other files, then the directories with what was
\* saved and with the files of the subsystems.
Var(p, i, v) == [tag |-> "variable", path |-> p, id |-> i, value |-> v]
Directory(f) == Var(<<"include-directory">>, "none", f)
File(f) == Var(<<"include-file">>, "none", f)
Mode(m) == [tag |-> "mode", mode |-> m]
End == [tag |-> "end"]
Broken == [tag |-> "broken"]

P == <<"ttys">>
Q == <<"terminal">>

Contents ==
  ("einit.xml" :> {<<Var(P, "none", "main"), File(<<"local.xml">>), File(<<"modes.xml">>),
                     Directory(<<"subsystem.xml">>), Directory(<<"saved.xml">>)>>}) @@
  ("local.xml" :> {<<Var(P, "none", "local")>>, <<Var(P, "i", "local")>>}) @@
  ("modes.xml" :> {<<Mode("m"), Var(<<"mode">> \o P, "none", "mode"),
                     Var(<<"mode", "overrides">> \o P, "none", "over"), End>>,
                   <<Mode("m"), Var(<<"mode">> \o P, "i", "mode"), Broken>>}) @@
  ("subsystem.xml" :> {<<Var(Q, "i", "sub")>>, <<Var(P, "none", "sub")>>})

Configuration == INSTANCE Configuration WITH
  Paths <- {P, Q}, Modes <- {"m"}, MainFile <- "einit.xml", LocalFile <- "local.xml",
  Saved <- "saved.xml", Contents <- Contents, Settings <- {"new"},
  Late <- {"subsystem.xml"}, MaxClock <- 3,
  MaxStarts <- 2,
  seen <- read, starts <- config_starts

\* Rules like those of subsystems.d/gentoo.xml.
Empty == [l \in Lists |-> << >>]
RuleNode(in, out, strip, modules) ==
  [in |-> in, out |-> out, strip |-> strip, modules |-> modules]

GentooServices ==
  ("gentoo-xdm" :> [Empty EXCEPT !["provides"] = <<"xdm">>, !["requires"] = <<"net", "logger">>,
                                 !["after"] = <<"xdm", "hal">>]) @@
  ("gentoo-localmount" :> [Empty EXCEPT !["provides"] = <<"localmount">>,
                                        !["requires"] = <<"checkfs">>])

Xdm == RuleNode("xdm", "displaymanager", {"after"}, {"gentoo-xdm"})
Net == RuleNode("net", "network", {"provides"}, {"gentoo-xdm"})
LocalMount == RuleNode("localmount", "mount-local", {}, {"gentoo-xdm", "gentoo-localmount"})

ModeNodes(s) ==
  [default |-> [wait |-> TRUE, base |-> {"boot"}, services |-> s],
   boot |-> [wait |-> FALSE, base |-> {}, services |-> {"logger"}]]

GentooNodes ==
  {[transform |-> <<Net, Xdm>>, alias |-> {<<"logger", "syslog">>},
    override |-> << >>, modes |-> ModeNodes({"dbus"})],
   [transform |-> <<LocalMount, Xdm>>, alias |-> {<<"xdm", "displaymanager">>},
    override |-> << >>, modes |-> ModeNodes({"dbus", "hal"})],
   [transform |-> << >>, alias |-> {<<"localmount", "mount-local">>},
    override |-> ("gentoo-localmount" :> ("requires" :> <<"checkroot">>)),
    modes |-> ModeNodes({})]}

Known ==
  {"xdm", "displaymanager", "net", "network", "logger", "syslog", "hal", "localmount",
   "mount-local", "checkfs", "checkroot"}

\* A module that sleeps, two threads that emit events and the scheduler, and which of the
\* above is what: Boot.cfg.
ASSUME TimersAssumption /\ SuspensionAssumption
ASSUME MountsAssumption /\ NetworkAssumption /\ DevicesAssumption
ASSUME TransformationsAssumption

-----------------------------------------------------------------------------
\* Components with more than one initial state have one of them in the other scenes.
BootInit ==
  /\ scene \in {"mounts", "network", "devices", "texts", "configuration", "transformations",
               "suspension"}
  /\ MountsInit /\ NetworkInit /\ DevicesInit /\ Texts!Start /\ Configuration!Start
  /\ TransformationsInit /\ Init
  /\ scene # "devices" => dm = "edev"
  /\ scene # "configuration" => \A f \in DOMAIN disk :
       /\ disk[f].tags = IF f = "saved.xml" THEN << >> ELSE CHOOSE c \in Contents[f] : TRUE
       /\ f # "saved.xml" => disk[f].mtime = 1
  /\ scene # "transformations" => config = <<CHOOSE c \in Configurations : TRUE>>

BootNext ==
  /\ UNCHANGED scene
  /\ \/ /\ scene = "mounts" /\ MountsNext
        /\ UNCHANGED <<netvars, devicevars, text, configuration, transformvars, vars>>
     \/ /\ scene = "network" /\ NetworkNext
        /\ UNCHANGED <<mountvars, devicevars, text, configuration, transformvars, vars>>
     \/ /\ scene = "devices" /\ DevicesNext
        /\ UNCHANGED <<mountvars, netvars, text, configuration, transformvars, vars>>
     \/ /\ scene = "texts" /\ Texts!Next
        /\ UNCHANGED <<mountvars, netvars, devicevars, configuration, transformvars, vars>>
     \/ /\ scene = "configuration" /\ Configuration!Next
        /\ UNCHANGED <<mountvars, netvars, devicevars, text, transformvars, vars>>
     \/ /\ scene = "transformations" /\ TransformationsNext
        /\ UNCHANGED <<mountvars, netvars, devicevars, text, configuration, vars>>
     \/ /\ scene = "suspension" /\ Next
        /\ UNCHANGED <<mountvars, netvars, devicevars, text, configuration, transformvars>>

BootSpec == BootInit /\ [][BootNext]_<<scenevars, vars>>

-----------------------------------------------------------------------------
\* Every variable of every component holds a value of its kind.
TypesOK ==
  CASE scene = "mounts" -> MountsTypeOK
    [] scene = "network" -> NetworkTypeOK
    [] scene = "devices" -> DevicesTypeOK
    [] scene = "texts" -> Texts!TypeOK
    [] scene = "configuration" -> Configuration!TypeOK
    [] scene = "transformations" -> TransformationsTypeOK
    [] scene = "suspension" -> TypeOK

\* utility.c, set-lowmem.c: apply_variables leaves no known variable in a text and changes
\* nothing else of it; a text that is taken apart into a set and put together again is the same.
TextsKept == scene = "texts" => Texts!VariablesResolved /\ Texts!SplitJoins

\* bootstrap-configuration-xml-expat.c and -stree.c: as long as no file is added a value
\* from local.xml, without an id, wins over that of any other file, broken files and includes
\* read anew included.
\* module-transformations.c: an update with the same rules changes nothing any more.
ConfigurationTaken ==
  /\ scene = "configuration" => Configuration!LocalWins
  /\ scene = "transformations" => Settled
=============================================================================
