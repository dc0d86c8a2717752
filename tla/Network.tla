------------------------------ MODULE Network ------------------------------
(***************************************************************************)
(* module-network.c: the modules of the network interfaces.                *)
(*                                                                         *)
(* An interface has a list of controllers (the link) and a list of IP      *)
(* managers (the address).  The first of the list that works is moved to   *)
(* the front, so that it is the one that is stopped later.  A bridge       *)
(* blocks the IP managers of its ports through mod(custom, "block-ip").    *)
(*                                                                         *)
(* mod() is in the model as far as it decides: what may be enabled and     *)
(* disabled, and the status it stores, which after a custom command is     *)
(* whatever the command returned.  Every script may fail.  The MAC address *)
(* changer, the kill switch and the flushing of addresses are scripts that *)
(* come before the controllers.                                            *)
(***************************************************************************)
EXTENDS Naturals, SequencesExt

CONSTANTS
  Interfaces,
  Wanted,         \* those a plan or, for the loopback, the boot event enables
  Controllers,    \* configured list of controllers of each, or <<"none">>
  Managers,       \* configured list of IP managers of each
  Actions,        \* of each that has a template: what it has a script for
  Bridge,         \* ports of each, a sequence
  CustomCommands,       \* custom commands that are given
  MaxStarts,      \* bound: times an interface is enabled
  MaxScans        \* bound: updates of the configuration

NetworkAssumption ==
  /\ MaxStarts \in Nat /\ MaxScans \in Nat
  /\ \A i \in Interfaces :
       /\ Controllers[i] \in Seq(ToSet(Controllers[i]))
       /\ Managers[i] \in Seq(ToSet(Managers[i]))
       /\ Bridge[i] \in Seq(Interfaces \ {i})

VARIABLES
  lmstatus,       \* lmodule status of each interface, as a set of flags
  up,             \* id->status of each, as a set of "ctl", "ip" and "blocked"
  controller,     \* controllers of each in the order of now
  ip_manager,     \* IP managers of each in the order of now
  link,           \* controllers that are running
  addresses,      \* how often each IP manager is running
  stage,          \* what mod() does with each; it holds the mutex then
  port,           \* place of the port that each bridge is at
  starts, scans

rest == <<stage, port, starts, scans>>
netvars == <<lmstatus, up, controller, ip_manager, link, addresses, rest>>


\* network_import_templates: those of a list that have a template with a script.
Imported(names) ==
  LET able == {k \in DOMAIN names : names[k] \in DOMAIN Actions /\ Actions[names[k]] # {}}
      Place(j) == CHOOSE k \in able : Cardinality({l \in able : l <= k}) = j
  IN IF names = <<"none">> THEN << >> ELSE [j \in 1..Cardinality(able) |-> names[Place(j)]]

\* network_import_interface_descriptor: there is none without an IP manager.
HasDescriptor(i) == Imported(Managers[i]) # << >>

\* The first of the list that is named so comes to the front, what was before it behind.
Rotate(list, k) == SubSeq(list, k, Len(list)) \o SubSeq(list, 1, k - 1)

(***************************************************************************)
(* network_execute_interface_action, where only those in Good work: what   *)
(* it returns, the list it leaves, and who has done it.  "all" ends with   *)
(* the first that has the action, "any" with the first that works.         *)
(***************************************************************************)
Execute_NoRotation(list, action, need, Good) ==
  LET able == {k \in DOMAIN list : action \in Actions[list[k]]}
      works == {k \in able : list[k] \in Good}
  IN [is |-> IF works # {} THEN "ok" ELSE "failed", list |-> list,
      by |-> IF works = {} THEN {} ELSE {list[Min(works)]}]

Execute(list, action, need, Good) ==
  LET able == {k \in DOMAIN list : action \in Actions[list[k]]}
      tried == IF need = "this" THEN able \cap {1}
               ELSE IF need = "all" /\ able # {} THEN {Min(able)} ELSE able
      works == {k \in tried : list[k] \in Good}
      front == IF works # {} THEN Min(works)
               ELSE IF need = "all" /\ able # {} THEN Min(able) ELSE 1
  IN [is |-> IF list = << >> THEN "idle"
             ELSE IF works # {} \/ (need = "all" /\ able = {}) THEN "ok" ELSE "failed",
      list |-> IF list = << >> THEN list ELSE Rotate(list, front),
      by |-> IF works = {} THEN {} ELSE {list[front]}]

\* No IP manager runs.
NoneRuns(i) == [m \in ToSet(Managers[i]) |-> 0]

NetworkInit ==
  /\ lmstatus = [i \in Interfaces |-> {}] /\ up = [i \in Interfaces |-> {}]
  /\ controller = [i \in Interfaces |-> Imported(Controllers[i])]
  /\ ip_manager = [i \in Interfaces |-> Imported(Managers[i])]
  /\ link = [i \in Interfaces |-> {}] /\ addresses = [i \in Interfaces |-> NoneRuns(i)]
  /\ stage = [i \in Interfaces |-> "none"]
  /\ port = [i \in Interfaces |-> 1] /\ starts = [i \in Interfaces |-> 0] /\ scans = 0

To(i, s) == stage' = [stage EXCEPT ![i] = s]
PortIs(i, k) == port' = [port EXCEPT ![i] = k]
Flag(i, flags) == up' = [up EXCEPT ![i] = flags]
Answer(i, flags) == lmstatus' = [lmstatus EXCEPT ![i] = flags] /\ To(i, "none")

\* An IP manager that has been started runs, one more time if it did already.
Start(i, by) ==
  addresses' = [addresses EXCEPT ![i] = [m \in DOMAIN @ |-> IF m \in by THEN @[m] + 1 ELSE @[m]]]
Stop(i, by) ==
  addresses' = [addresses EXCEPT ![i] = [m \in DOMAIN @ |-> IF m \in by THEN 0 ELSE @[m]]]

-----------------------------------------------------------------------------
\* mod(enable) of an interface, by a plan or, for the loopback, by the boot event.
EnableInterface(i) ==
  /\ i \in Wanted /\ starts[i] < MaxStarts
  /\ stage[i] = "none" /\ "enabled" \notin lmstatus[i]
  /\ starts' = [starts EXCEPT ![i] = @ + 1]
  /\ To(i, IF ~HasDescriptor(i) THEN "failed"
            ELSE IF Bridge[i] # << >> THEN "bridge" ELSE "scripts")
  /\ UNCHANGED <<lmstatus, up, controller, ip_manager, link, addresses, port, scans>>

Fail(i) == To(i, IF Bridge[i] # << >> THEN "unblock" ELSE "failed")

\* block-ip, without and with an IP manager to stop.
BlockIp(i, Good) ==
  LET done == Execute(ip_manager[i], "disable", "this", Good)
  IN IF "ip" \notin up[i]
     THEN /\ Flag(i, up[i] \cup {"blocked"})
          /\ lmstatus' = [lmstatus EXCEPT ![i] = {"ok"}] /\ UNCHANGED addresses
     ELSE IF done.is = "failed"
     THEN /\ lmstatus' = [lmstatus EXCEPT ![i] = {"failed", "enabled"}]
          /\ UNCHANGED <<up, addresses>>
     ELSE /\ Flag(i, (up[i] \cup {"blocked"}) \ {"ip"}) /\ Stop(i, done.by)
          /\ lmstatus' = [lmstatus EXCEPT ![i] = {"ok"}]

(***************************************************************************)
(* create_bridge and bridge_enable, one port after the other.  If a port   *)
(* is enabled the IP manager of the bridge is stopped, and the next port   *)
(* is looked at; when that fails (or the flushing of addresses does) the   *)
(* bridge goes on, as what is returned is not just "failed".  If the port  *)
(* is not enabled its IP manager is blocked, and the bridge goes on with   *)
(* what mod() returned, which is never just "failed" either.  When all     *)
(* ports are enabled, the bridge fails.                                    *)
(***************************************************************************)
CreateBridgeFails(i) == port[i] = 1 /\ Fail(i) /\ UNCHANGED <<addresses, port>>

NextPort(i) ==
  LET k == port[i]
  IN IF k > Len(Bridge[i])
     THEN Fail(i) /\ PortIs(i, 1) /\ UNCHANGED addresses
     ELSE IF "enabled" \notin lmstatus[Bridge[i][k]]
     THEN To(i, "block") /\ UNCHANGED <<addresses, port>>
     ELSE \E Good \in SUBSET ToSet(ip_manager[i]) :
            LET done == Execute(ip_manager[i], "disable", "this", Good)
            IN /\ Stop(i, done.by)
               /\ \/ done.is # "failed" /\ PortIs(i, k + 1) /\ UNCHANGED stage
                  \/ To(i, "scripts") /\ PortIs(i, 1)

BridgePorts(i) ==
  /\ stage[i] = "bridge"
  /\ CreateBridgeFails(i) \/ NextPort(i)
  /\ UNCHANGED <<lmstatus, up, controller, ip_manager, link, starts, scans>>

BlockPort(i) ==
  /\ stage[i] = "block"
  /\ LET p == Bridge[i][port[i]]
     IN stage[p] = "none" /\ \E Good \in SUBSET ToSet(ip_manager[p]) : BlockIp(p, Good)
  /\ To(i, "scripts") /\ PortIs(i, 1)
  /\ UNCHANGED <<controller, ip_manager, link, starts, scans>>

\* network_ready, check_rfkill, flush_ip, the MAC address changer and the controllers.
StartLink(i) ==
  /\ stage[i] = "scripts"
  /\ \E Good \in SUBSET ToSet(controller[i]) :
       LET done == Execute(controller[i], "enable", "all", Good)
       IN \/ Fail(i) /\ UNCHANGED <<up, controller, link>>
          \/ /\ controller' = [controller EXCEPT ![i] = done.list]
             /\ link' = [link EXCEPT ![i] = @ \cup done.by]
             /\ IF done.is = "failed" THEN Fail(i) /\ UNCHANGED up
                ELSE Flag(i, up[i] \cup {"ctl"}) /\ To(i, "address")
  /\ UNCHANGED <<lmstatus, ip_manager, addresses, port, starts, scans>>

StartIp(i) ==
  /\ stage[i] = "address"
  /\ \/ /\ "blocked" \in up[i]
        /\ Answer(i, {"ok", "enabled"}) /\ UNCHANGED <<up, ip_manager, addresses>>
     \/ /\ "blocked" \notin up[i]
        /\ \E Good \in SUBSET ToSet(ip_manager[i]) :
             LET done == Execute(ip_manager[i], "enable", "any", Good)
             IN /\ ip_manager' = [ip_manager EXCEPT ![i] = done.list]
                /\ IF done.is = "ok"
                   THEN /\ Flag(i, up[i] \cup {"ip"}) /\ Start(i, done.by)
                        /\ Answer(i, {"ok", "enabled"})
                   ELSE Fail(i) /\ UNCHANGED <<lmstatus, up, addresses>>
  /\ UNCHANGED <<controller, link, port, starts, scans>>

\* A bridge that fails unblocks all its ports, one after the other, whoever has enabled
\* them; the command returns just "ok".
UnblockPorts(i) ==
  /\ stage[i] = "unblock"
  /\ LET k == port[i]
     IN IF k > Len(Bridge[i])
        THEN To(i, "failed") /\ PortIs(i, 1) /\ UNCHANGED <<lmstatus, up>>
        ELSE LET p == Bridge[i][k]
             IN /\ stage[p] = "none"
                /\ Flag(p, up[p] \ {"blocked"})
                /\ lmstatus' = [lmstatus EXCEPT ![p] = {"ok"}]
                /\ PortIs(i, k + 1) /\ UNCHANGED stage
  /\ UNCHANGED <<controller, ip_manager, link, addresses, starts, scans>>

Failed(i) ==
  /\ stage[i] = "failed"
  /\ Answer(i, {"failed", "disabled"})
  /\ UNCHANGED <<up, controller, ip_manager, link, addresses, port, starts, scans>>

-----------------------------------------------------------------------------
\* mod(disable): the IP manager first, and the controllers only when that worked.
DisableInterface(i) ==
  /\ i \in Wanted /\ HasDescriptor(i) /\ stage[i] = "none"
  /\ lmstatus[i] # {} /\ "disabled" \notin lmstatus[i]
  /\ IF "ip" \in up[i] THEN To(i, "stop_ip") ELSE To(i, "stop_link")
  /\ UNCHANGED <<lmstatus, up, controller, ip_manager, link, addresses, port, starts, scans>>

StopIp(i) ==
  /\ stage[i] = "stop_ip"
  /\ \E Good \in SUBSET ToSet(ip_manager[i]) :
       LET done == Execute(ip_manager[i], "disable", "this", Good)
       IN IF done.is = "failed"
          THEN Answer(i, {"failed", "enabled"}) /\ UNCHANGED <<up, addresses>>
          ELSE Flag(i, up[i] \ {"ip"}) /\ Stop(i, done.by) /\ To(i, "stop_link")
               /\ UNCHANGED lmstatus
  /\ UNCHANGED <<controller, ip_manager, link, port, starts, scans>>

StopLink(i) ==
  /\ stage[i] = "stop_link"
  /\ IF "ctl" \notin up[i]
     THEN Answer(i, {"ok", "disabled"}) /\ UNCHANGED <<up, controller, link>>
     ELSE \E Good \in SUBSET ToSet(controller[i]) :
            LET done == Execute(controller[i], "disable", "all", Good)
            IN /\ controller' = [controller EXCEPT ![i] = done.list]
               /\ IF done.is = "failed"
                  THEN Answer(i, {"failed", "enabled"}) /\ UNCHANGED <<up, link>>
                  ELSE /\ Flag(i, up[i] \ {"ctl"}) /\ Answer(i, {"ok", "disabled"})
                       /\ link' = [link EXCEPT ![i] = @ \ done.by]
  /\ UNCHANGED <<ip_manager, addresses, port, starts, scans>>

\* mod(custom): commands of the configuration leave the interface enabled, enable-ip
\* returns just "ok".  One that is not enabled goes to the controllers first.
Custom(i, command) ==
  /\ stage[i] = "none" /\ i \in Wanted /\ HasDescriptor(i)
  /\ \E Good \in SUBSET (ToSet(ip_manager[i]) \cup ToSet(controller[i])) :
       LET ip(need) == Execute(ip_manager[i], command, need, Good)
           ctl == Execute(controller[i], command, "all", Good)
           enabled == {"enabled"}
       IN IF command = "enable-ip"
          THEN LET done == Execute(ip_manager[i], "enable", "this", Good)
               IN /\ addresses[i][Head(ip_manager[i])] < 2   \* bound: how often one runs
                  /\ IF done.is = "ok"
                     THEN /\ Flag(i, up[i] \cup {"ip"}) /\ Start(i, done.by)
                          /\ Answer(i, {"ok"})
                     ELSE Answer(i, {"failed"} \cup enabled) /\ UNCHANGED <<up, addresses>>
                  /\ UNCHANGED <<controller, ip_manager>>
          ELSE /\ IF "enabled" \in lmstatus[i]
                  THEN /\ UNCHANGED ip_manager
                       /\ IF ip("this").is = "failed"
                          THEN Answer(i, {"failed"} \cup enabled) /\ UNCHANGED controller
                          ELSE /\ Answer(i, (IF ctl.is = "idle" THEN {} ELSE {ctl.is}) \cup enabled)
                               /\ controller' = [controller EXCEPT ![i] = ctl.list]
                  ELSE /\ controller' = [controller EXCEPT ![i] = ctl.list]
                       /\ IF ctl.is = "failed"
                          THEN Answer(i, {"failed"} \cup enabled) /\ UNCHANGED ip_manager
                          ELSE /\ Answer(i, (IF ip("any").is = "idle" THEN {} ELSE {ip("any").is}) \cup enabled)
                               /\ ip_manager' = [ip_manager EXCEPT ![i] = ip("any").list]
               /\ UNCHANGED <<up, addresses>>
  /\ UNCHANGED <<link, port, starts, scans>>

(***************************************************************************)
(* network_scanmodules, after an update of the configuration: under the    *)
(* module's mutex the lists are read again, and rotated until the one that *)
(* was in front is in front again.                                         *)
(***************************************************************************)

Rescanned(list, name) ==
  IF \E k \in DOMAIN list : list[k] = name
  THEN Rotate(list, Min({k \in DOMAIN list : list[k] = name})) ELSE list

Rescan(i) ==
  /\ HasDescriptor(i) /\ stage[i] = "none" /\ starts[i] > 0 /\ scans < MaxScans
  /\ scans' = scans + 1
  /\ ip_manager' = [ip_manager EXCEPT ![i] = Rescanned(Imported(Managers[i]), Head(@))]
  /\ controller' = [controller EXCEPT
       ![i] = IF @ = << >> THEN @ ELSE Rescanned(Imported(Controllers[i]), Head(@))]
  /\ UNCHANGED <<lmstatus, up, link, addresses, stage, port, starts>>

InterfaceStep(i) ==
  \/ BridgePorts(i) \/ BlockPort(i) \/ StartLink(i) \/ StartIp(i)
  \/ UnblockPorts(i) \/ Failed(i) \/ StopIp(i) \/ StopLink(i)

NetworkNext == \E i \in Interfaces :
  \/ EnableInterface(i) \/ DisableInterface(i) \/ InterfaceStep(i) \/ Rescan(i)
  \/ \E c \in CustomCommands : Custom(i, c)

NetworkSpec == NetworkInit /\ [][NetworkNext]_netvars

-----------------------------------------------------------------------------
InterfaceStages ==
  {"none", "bridge", "block", "scripts", "address", "unblock", "failed", "stop_ip", "stop_link"}

\* Flags, lists and processes are what they should be; no list loses a name.
FlagTypes ==
  /\ lmstatus \in [Interfaces -> SUBSET {"ok", "failed", "enabled", "disabled"}]
  /\ up \in [Interfaces -> SUBSET {"ctl", "ip", "blocked"}]
  /\ stage \in [Interfaces -> InterfaceStages]
  /\ starts \in [Interfaces -> 0..MaxStarts] /\ scans \in 0..MaxScans
PortTypes ==
  /\ port \in [Interfaces -> Nat]
  /\ \A i \in Interfaces :
       port[i] \in 1..(IF stage[i] = "block" THEN Len(Bridge[i]) ELSE Len(Bridge[i]) + 1)
ListTypes ==
  /\ DOMAIN controller = Interfaces /\ DOMAIN ip_manager = Interfaces
  /\ DOMAIN link = Interfaces
  /\ \A i \in Interfaces :
       /\ ToSet(controller[i]) = ToSet(Imported(Controllers[i]))
       /\ ToSet(ip_manager[i]) = ToSet(Imported(Managers[i]))
       /\ controller[i] \in Seq(ToSet(controller[i]))
       /\ ip_manager[i] \in Seq(ToSet(ip_manager[i]))
       /\ link[i] \subseteq ToSet(controller[i])
AddressTypes ==
  /\ DOMAIN addresses = Interfaces
  /\ \A i \in Interfaces : addresses[i] \in [ToSet(Managers[i]) -> Nat]
NetworkTypeOK == FlagTypes /\ PortTypes /\ ListTypes /\ AddressTypes

\* The IP manager that runs on an interface is the one in front, which is the one that
\* disabling and block-ip stop: after failures of others, custom commands and updates of
\* the configuration, and there is none when the flag says so.
OneRuns(i) == [m \in ToSet(Managers[i]) |-> IF m = Head(ip_manager[i]) THEN 1 ELSE 0]

FrontRunsOn(i) ==
  stage[i] \in {"none", "failed", "stop_ip"} =>
    addresses[i] = IF "ip" \in up[i] THEN OneRuns(i) ELSE NoneRuns(i)

FrontRuns == \A i \in Interfaces : FrontRunsOn(i)

\* (Contradicted by a bridge that fails or ends over an interface that is wanted itself.)
\* An interface whose IP manager runs stays enabled, so that nobody starts another, until
\* it is disabled (failing to stop it leaves it enabled as well).
UpIsEnabled ==
  \A i \in Interfaces : stage[i] = "none" /\ "ip" \in up[i] => "enabled" \in lmstatus[i]
=============================================================================
