--------------------------- MODULE Transformations ---------------------------
(* What the configuration does to the services of modules: overrides, aliases *)
(* and transformations (module-transformations.c), and the checkpoint modules *)
(* that are made of modes (module-checkpoint.c).                              *)
(*                                                                            *)
(* A new configuration replaces the trees of aliases and transformations and  *)
(* frees the old ones; the update of a module walks through them.  Neither    *)
(* takes a lock, and both happen in the thread of whoever asks for it: the    *)
(* scan after an update, a command, the loading of a module.  Whether a       *)
(* module-id fits, a regular expression, is a set of modules here.            *)
EXTENDS Naturals, Sequences, FiniteSets

CONSTANTS Rids,           \* the modules, by rid
          ModeNames,      \* the modes
          Updaters,       \* threads that update modules
          ServiceIds,     \* the names of services
          Declared,       \* the services a module declares: [module -> [list -> sequence]]
          Configurations, \* what the configuration may say, see MCBoot
          MaxChanges,     \* bound: times the configuration changes
          MaxNames        \* bound: services provided by a module that is updated

Lists == {"provides", "requires", "after", "before", "shutdown-before", "shutdown-after"}

\* A rule has an "out" (einit.rnc); without one, setadd would lose the list.
RuleNodes == [in : ServiceIds, out : ServiceIds, strip : SUBSET Lists, modules : SUBSET Rids]

TransformationsAssumption ==
  /\ Declared \in [Rids -> [Lists -> Seq(ServiceIds)]]
  /\ MaxChanges \in Nat /\ MaxNames \in Nat
  /\ \A c \in Configurations :
       /\ c.transform \in Seq(RuleNodes)
       /\ c.alias \subseteq ServiceIds \X ServiceIds /\ IsFiniteSet(c.alias)
       /\ \A m \in DOMAIN c.override : \A l \in DOMAIN c.override[m] :
            c.override[m][l] \in Seq(ServiceIds)

VARIABLES config,       \* the configurations so far; the last one is in force
          services,     \* module->si
          walker,       \* what a thread is doing
          settled,      \* the configuration a module was last updated with, throughout
          checkpoints   \* the modules made of modes

transformvars == <<config, services, walker, settled, checkpoints>>

Resting == [module |-> "none", list |-> "none", tree |-> 0, begun |-> 0]
Current == Len(config)
InForce == config[Current]
Unmade == [after |-> {"none"}, before |-> {"none"}]

TransformationsInit ==
    /\ \E c \in Configurations : config = <<c>>
    /\ services = Declared
    /\ walker = [t \in Updaters |-> Resting]
    /\ settled = [m \in Rids |-> 0]
    /\ checkpoints = [m \in ModeNames |-> Unmade]

(***************************************************************************)
(* The rewriting of one list.                                              *)
(***************************************************************************)
\* The rules for a service that a module is subject to, and the first that is found: the
\* one that was added last.
Rules(c, m, s) ==
  {i \in DOMAIN c.transform : c.transform[i].in = s /\ m \in c.transform[i].modules}
Found(c, m, s) == c.transform[CHOOSE i \in Rules(c, m, s) : \A j \in Rules(c, m, s) : j <= i]

\* Mutant: the services without a rule are left behind.
Rewritten_OnlyHits(c, m, l, old) ==
  LET new[i \in 0 .. Len(old)] ==
        IF i = 0 THEN << >>
        ELSE LET s == old[i]
             IN IF Rules(c, m, s) = {} \/ l \in Found(c, m, s).strip THEN new[i - 1]
                ELSE Append(new[i - 1], Found(c, m, s).out)
  IN new[Len(old)]

\* Each service is kept, stripped, or replaced, by the first rule that fits.
Rewritten(c, m, l, old) ==
  LET new[i \in 0 .. Len(old)] ==
        IF i = 0 THEN << >>
        ELSE LET s == old[i]
             IN IF Rules(c, m, s) = {} THEN Append(new[i - 1], s)
                ELSE IF l \in Found(c, m, s).strip THEN new[i - 1]
                ELSE Append(new[i - 1], Found(c, m, s).out)
  IN new[Len(old)]

\* The names a service has besides its own, in either direction.
Aliases(c, s) == {n \in ServiceIds : <<s, n>> \in c.alias \/ <<n, s>> \in c.alias}

\* The aliases of what a module provides are provided as well.
Aliased(c, old) ==
  LET given == {old[i] : i \in DOMAIN old}
      more == UNION {Aliases(c, s) : s \in given} \ given
  IN old \o (CHOOSE l \in [1 .. Cardinality(more) -> more] :
                \A n \in more : \E i \in DOMAIN l : l[i] = n)

\* Lists the configuration gives replace those of the module.
Overridden(c, m) ==
    IF m \in DOMAIN c.override
    THEN [l \in Lists |-> IF l \in DOMAIN c.override[m] THEN c.override[m][l] ELSE services[m][l]]
    ELSE services[m]

(***************************************************************************)
(* einit_core_update_module.                                               *)
(***************************************************************************)
\* Overrides and aliases; then list after list.
BeginUpdate(t, m) ==
    /\ walker[t] = Resting /\ \A u \in Updaters : walker[u].module # m
    /\ Len(services[m]["provides"]) <= MaxNames
    /\ services' = [services EXCEPT ![m] =
                      [Overridden(InForce, m) EXCEPT !["provides"] = Aliased(InForce, @)]]
    /\ walker' = [walker EXCEPT ![t] = [module |-> m, list |-> "provides", tree |-> 0,
                                        begun |-> Current]]
    /\ UNCHANGED <<config, settled, checkpoints>>

\* service_transformations is read ...
FindTree(t) ==
    /\ walker[t] # Resting /\ walker[t].tree = 0
    /\ walker' = [walker EXCEPT ![t].tree = Current]
    /\ UNCHANGED <<config, services, settled, checkpoints>>

ListAfter(l) ==
    CASE l = "provides" -> "requires"
      [] l = "requires" -> "after"
      [] l = "after" -> "before"
      [] l = "before" -> "shutdown-before"
      [] l = "shutdown-before" -> "shutdown-after"
      [] OTHER -> "none"

\* ... and used.  A tree that is gone by then is read all the same.
RewriteList(t) ==
    LET w == walker[t]
        m == w.module
    IN  /\ w # Resting /\ w.tree # 0
        /\ services' = [services EXCEPT ![m][w.list] = Rewritten(config[w.tree], m, w.list, @)]
        /\ IF ListAfter(w.list) = "none"
           THEN /\ walker' = [walker EXCEPT ![t] = Resting]
                /\ settled' = [settled EXCEPT ![m] = IF w.begun = Current THEN Current ELSE 0]
           ELSE /\ walker' = [walker EXCEPT ![t].list = ListAfter(w.list), ![t].tree = 0]
                /\ UNCHANGED settled
        /\ UNCHANGED <<config, checkpoints>>

\* einit_core_configuration_update: new trees, and the old ones are freed.
ConfigurationUpdate(c) ==
    /\ Current <= MaxChanges
    /\ config' = Append(config, c)
    /\ UNCHANGED <<services, walker, settled, checkpoints>>

(***************************************************************************)
(* checkpoint_scanmodules.                                                 *)
(***************************************************************************)
ServicesOfModes(c, ms) == UNION {c.modes[m].services : m \in ms}

\* A mode that waits for its base gets a module between the services of the
\* base and its own; one that has its module already keeps it as it is.
ScanCheckpoints ==
    LET c == InForce
        Waits(m) == m \in DOMAIN c.modes /\ c.modes[m].wait
    IN  /\ \E m \in ModeNames : Waits(m) /\ checkpoints[m] = Unmade
        /\ checkpoints' = [m \in ModeNames |->
              IF Waits(m) /\ checkpoints[m] = Unmade
              THEN [after |-> ServicesOfModes(c, c.modes[m].base \cap DOMAIN c.modes),
                    before |-> c.modes[m].services]
              ELSE checkpoints[m]]
        /\ UNCHANGED <<config, services, walker, settled>>

TransformationsNext ==
    \/ \E t \in Updaters : FindTree(t) \/ RewriteList(t) \/ \E m \in Rids : BeginUpdate(t, m)
    \/ \E c \in Configurations : ConfigurationUpdate(c)
    \/ ScanCheckpoints

TransformationsSpec == TransformationsInit /\ [][TransformationsNext]_transformvars

-----------------------------------------------------------------------------
\* A thread is at a list of a module, with no tree or one of the past, or at rest; the
\* lists are lists of services.
TransformationsTypeOK ==
    /\ services \in [Rids -> [Lists -> Seq(ServiceIds)]]
    /\ config \in Seq(Configurations) /\ Current \in 1..(MaxChanges + 1)
    /\ settled \in [Rids -> 0..Current]
    /\ \A t \in Updaters :
         walker[t] = Resting \/ walker[t] \in [module : Rids, list : Lists, tree : 0..Current,
                                               begun : 1..Current]

-----------------------------------------------------------------------------
(* Properties.                                                             *)

\* A service a module requires is not forgotten: as long as no rule of any
\* configuration so far speaks of it, and no override replaces the list, it
\* stays, whatever else of the list is replaced or stripped, and however often
\* and with whichever trees the module is updated.
RequirementsKept ==
  \A m \in Rids : \A i \in DOMAIN Declared[m]["requires"] :
    LET s == Declared[m]["requires"][i]
    IN (\A k \in DOMAIN config : Rules(config[k], m, s) = {} /\ m \notin DOMAIN config[k].override)
         => \E j \in DOMAIN services[m]["requires"] : services[m]["requires"][j] = s

\* A module that was updated with the configuration in force stays as it is:
\* the next scan, which updates all modules anew, changes none of its lists,
\* except that it may repeat names.
Settled ==
  \A m \in Rids : settled[m] = Current /\ (\A t \in Updaters : walker[t].module # m) =>
    LET over == [Overridden(InForce, m) EXCEPT !["provides"] = Aliased(InForce, @)]
        Named(l) == {l[i] : i \in DOMAIN l}
    IN \A l \in Lists : Named(Rewritten(InForce, m, l, over[l])) = Named(services[m][l])

\* (Contradicted by a rule whose result is on the list already.)
\* No list grows from one update to the next for ever.
NoRepetition ==
  \A m \in Rids, l \in Lists : \A i, j \in DOMAIN services[m][l] :
    services[m][l][i] = services[m][l][j] => i = j

\* (Contradicted by an update of the configuration during a scan.)
\* The tree of transformations a thread walks through is still there ("setting
\* a pointer is apparently atomic, so we don't need any locks").
TreeThere == \A t \in Updaters : walker[t].tree \in {0, Current}

\* (Contradicted by an update: a checkpoint is made once.)
\* The checkpoint of a mode stands where the configuration puts it.
CheckpointsCurrent ==
    \A m \in ModeNames : checkpoints[m] # Unmade /\ m \in DOMAIN InForce.modes =>
        checkpoints[m].before = InForce.modes[m].services

=============================================================================
