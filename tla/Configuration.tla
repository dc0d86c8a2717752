---------------------------- MODULE Configuration ----------------------------
(* The configuration: a list of nodes that XML files, and commands at run    *)
(* time, add to (bootstrap-configuration-stree.c, ipc-configuration.c), and  *)
(* the loading of these files with all they include, at the start and anew   *)
(* when one of them has changed (bootstrap-configuration-xml-expat.c).       *)
(*                                                                           *)
(* A file is a sequence of tags.  What expat does, what regular expressions  *)
(* select and how nodes are printed is left out; that a file may break off   *)
(* in the middle is not.                                                     *)
EXTENDS Integers, SequencesExt

CONSTANTS Paths,        \* variables that may be set at run time: sequences of tags
          Modes,        \* the modes
          MainFile,     \* the file the loading begins with
          LocalFile,    \* the include that is named first, "local.xml"
          Saved,        \* the file run-time modifications are saved to
          Contents,     \* what each other file may contain: a set of sequences of tags
          Settings,     \* values a command may give to a variable
          Late,         \* files that may not be there at first
          MaxClock,     \* bound: changes of the files and updates with a named file
          MaxStarts     \* bound: starts of the program

None == "none"
Files == DOMAIN Contents

VARIABLES tree,     \* hconfiguration: the nodes, the one added last first
          curmode,  \* the mode whose tag is open, for all files together
          known,    \* xml_configuration_files
          highest,  \* xml_configuration_files_highest_mtime
          reading,  \* which of known is being read; -1: one file only, 0: none
          disk,     \* the files: their tags and the time of their last change, 0 for none
          clock,    \* the time, counted in what MaxClock bounds
          seen,     \* what each file held when it was read
          added,    \* since the start a file was put in place, or named in an update
          sets,     \* the values variables were set to at run time
          kept,     \* these values, when they were last saved
          starts    \* starts of the program

loaded == <<tree, curmode, known, highest, seen>>
cvars == <<loaded, reading, disk, clock, added, sets, kept, starts>>

Unset == [p \in Paths |-> None]

\* A node: path and id of the tag, the mode it is for, its value, and whether
\* it was set at run time.  A mode and an include are nodes too.
Node(p, i, m, v, mod) == [path |-> p, id |-> i, mode |-> m, value |-> v, modified |-> mod]

(***************************************************************************)
(* The tree.                                                               *)
(***************************************************************************)
Same(old, new) == old.path = new.path /\ old.id = new.id

\* Mutant: a node is added behind the older ones.
AddNode_Last(t, n) == Append(t, n)

\* A node with the path and the id of an older one takes its place, whatever
\* the mode of either; a mode that is defined again keeps its place as well.
AddNode(t, n) ==
    IF n.id # None /\ \E k \in DOMAIN t : Same(t[k], n)
    THEN [t EXCEPT ![CHOOSE k \in DOMAIN t : Same(t[k], n) /\ \A j \in 1..(k - 1) : ~Same(t[j], n)] = n]
    ELSE <<n>> \o t

\* cfg_findnode_f without a base: the first of that path.
FindNode(t, p) == SelectInSeq(t, LAMBDA n : n.path = p)

\* cfg_findnode_f with a base: the next of that path behind it, none when the
\* base is no node of that path.
FindNext(t, p, base) ==
    IF base = 0 THEN FindNode(t, p)
    ELSE IF t[base].path # p THEN 0
    ELSE SelectInSubSeq(t, base + 1, Len(t), LAMBDA n : n.path = p)

InMode(p) == <<"mode">> \o p
Overriding(p) == <<"mode", "overrides">> \o p

\* The first loop of cfg_getnode_f: node is where it stopped, 0 at the end.
OfMode(t, p, m, start) ==
    IF start # 0 /\ t[start].path # p THEN 0
    ELSE SelectInSubSeq(t, start + 1, Len(t), LAMBDA n : n.path = p /\ n.mode = m)

\* cfg_getnode_f: node is not reset between the two loops, so what overrides a
\* variable is only seen when the mode does not give the variable itself.
GetNode(t, p, m) ==
    LET own == IF m = None THEN 0 ELSE OfMode(t, InMode(p), m, 0)
        over == IF m = None THEN 0 ELSE OfMode(t, Overriding(p), m, own)
    IN  IF over # 0 THEN over ELSE IF own # 0 THEN own ELSE FindNode(t, p)

\* cfg_getstring_f for a variable that may be missing.
GetString(t, p, m) == IF GetNode(t, p, m) = 0 THEN None ELSE t[GetNode(t, p, m)].value

\* cfg_filter_f, asked for modified nodes: it finds them in the opposite order.
Filtered(t) == Reverse(SelectSeq(t, LAMBDA n : n.modified))

(***************************************************************************)
(* Reading a file.                                                         *)
(***************************************************************************)
\* Op applied to all of seq in turn; the set has TLC evaluate each s once.
Run(Op(_, _), s0, seq) ==
    FoldLeft(LAMBDA s, x : CHOOSE r \in {Op(t, x) : t \in {s}} : TRUE, s0, seq)

\* cfg_xml_handler_tag_start, for a mode, a variable or an include.
TagStart(s, tag) ==
    IF tag.tag = "mode"
    THEN [s EXCEPT !.tree = AddNode(@, Node(<<tag.mode>>, "mode", None, None, FALSE)), !.curmode = tag.mode]
    ELSE [s EXCEPT !.tree = AddNode(@, Node(tag.path, tag.id, s.curmode, tag.value, s.modified))]

\* cfg_xml_handler_tag_end, for the end of a mode.
TagEnd(s) == [s EXCEPT !.curmode = None]

\* The tags up to the place where the file breaks off.
Tag(s, tag) ==
    IF s.broken THEN s
    ELSE CASE tag.tag = "end" -> TagEnd(s)
           [] tag.tag = "broken" -> [s EXCEPT !.broken = TRUE]
           [] OTHER -> TagStart(s, tag)

\* einit_config_xml_expat_parse_configuration_file up to the includes.
Read(s, f) ==
    IF disk[f].mtime = 0 THEN s
    ELSE [Run(Tag, [s EXCEPT !.modified = (f = Saved), !.broken = FALSE], disk[f].tags)
            EXCEPT !.known = IF Contains(@, f) THEN @ ELSE Append(@, f),
                   !.highest = IF disk[f].mtime > @ THEN disk[f].mtime ELSE @,
                   !.seen[f] = disk[f].tags]

\* The files fs are read one after the other, into the tree t.
ReadAll(t, fs) ==
    LET s == Run(Read, [tree |-> t, curmode |-> curmode, known |-> known, highest |-> highest,
                             seen |-> seen, modified |-> FALSE, broken |-> FALSE], fs)
    IN  /\ tree' = s.tree /\ curmode' = s.curmode
        /\ known' = s.known /\ highest' = s.highest /\ seen' = s.seen

Idle == reading = 0

Start ==
    /\ tree = <<>> /\ curmode = None /\ known = <<>> /\ highest = 0 /\ reading = 0
    /\ \E c \in [Files -> UNION {Contents[f] : f \in Files}] :
         /\ \A f \in Files : c[f] \in Contents[f]
         /\ \E missing \in SUBSET Late :
              disk = [f \in Files |-> [tags |-> c[f], mtime |-> IF f \in missing THEN 0 ELSE 1]]
                     @@ (Saved :> [tags |-> <<>>, mtime |-> 0])
    /\ clock = 1 /\ seen = [f \in Files \cup {Saved} |-> <<>>]
    /\ added = FALSE /\ sets = Unset /\ kept = Unset /\ starts = 1

\* The start of the program: the main file is parsed.
Load ==
    /\ Idle /\ known = <<>>
    /\ ReadAll(<<>>, <<MainFile>>)
    /\ reading' = -1
    /\ UNCHANGED <<disk, clock, added, sets, kept, starts>>

\* The include that is found is the one added last; its node goes when its
\* files have been read, in the model before.
Forget(k) == RemoveAt(tree, k)

IncludeDirectory ==
    LET k == FindNode(tree, <<"include-directory">>)
    IN  /\ ~Idle /\ k # 0
        /\ ReadAll(Forget(k), tree[k].value)
        /\ UNCHANGED <<reading, disk, clock, added, sets, kept, starts>>

NoDirectory == FindNode(tree, <<"include-directory">>) = 0

\* An include of a file that does not say which is found again and again.
IncludeFile ==
    LET k == FindNode(tree, <<"include-file">>)
    IN  /\ ~Idle /\ NoDirectory /\ k # 0
        /\ IF tree[k].value = <<>> THEN UNCHANGED loaded ELSE ReadAll(Forget(k), tree[k].value)
        /\ UNCHANGED <<reading, disk, clock, added, sets, kept, starts>>

\* No include is left: the next of the known files, in an update.
NextFile ==
    /\ ~Idle /\ NoDirectory /\ FindNode(tree, <<"include-file">>) = 0
    /\ IF reading \in 1..(Len(known) - 1)
       THEN reading' = reading + 1 /\ ReadAll(tree, <<known[reading + 1]>>)
       ELSE reading' = 0 /\ UNCHANGED loaded
    /\ UNCHANGED <<disk, clock, added, sets, kept, starts>>

\* einit_core_update_configuration: one of the files is younger than all were.
Update ==
    /\ Idle /\ \E k \in DOMAIN known : disk[known[k]].mtime > highest
    /\ reading' = 1 /\ ReadAll(tree, <<known[1]>>)
    /\ UNCHANGED <<disk, clock, added, sets, kept, starts>>

\* "update configuration <file>": this file and what it includes, whether it has changed or not.
UpdateWith(f) ==
    /\ Idle /\ known # <<>> /\ clock < MaxClock
    /\ reading' = -1 /\ ReadAll(tree, <<f>>)
    /\ clock' = clock + 1 /\ added' = TRUE
    /\ UNCHANGED <<disk, sets, kept, starts>>

(***************************************************************************)
(* Commands (einit_ipc_configuration_ipc_event_handler) and the world.     *)
(***************************************************************************)
\* "set variable": a copy of the node the variable has now, with the new value.
Modified(p, m, v) ==
    LET k == GetNode(tree, p, m)
    IN  IF k = 0 THEN Node(p, None, None, v, TRUE) ELSE [tree[k] EXCEPT !.value = v, !.modified = TRUE]

SetVariable(p, m, v) ==
    /\ Idle /\ known # <<>> /\ sets[p] = None
    /\ tree' = AddNode(tree, Modified(p, m, v))
    /\ sets' = [sets EXCEPT ![p] = v]
    /\ UNCHANGED <<curmode, known, highest, seen, reading, disk, clock, added, kept, starts>>

\* "save configuration": what was modified, the oldest first, without the
\* tags of the modes around it.
SaveConfiguration ==
    /\ Idle /\ clock < MaxClock
    /\ \E p \in Paths : sets[p] # kept[p] /\ sets[p] # None
    /\ LET nodes == Filtered(tree)
       IN  disk' = [disk EXCEPT ![Saved] =
                      [tags |-> [k \in DOMAIN nodes |-> [tag |-> "variable", path |-> nodes[k].path,
                                                        id |-> nodes[k].id, value |-> nodes[k].value]],
                       mtime |-> clock + 1]]
    /\ clock' = clock + 1 /\ added' = (added \/ disk[Saved].mtime = 0)
    /\ kept' = [p \in Paths |-> IF sets[p] # None THEN sets[p] ELSE kept[p]]
    /\ UNCHANGED <<loaded, reading, sets, starts>>

\* Somebody edits a file, or puts it in place.
Edit(f, c) ==
    /\ clock < MaxClock /\ (disk[f].tags # c \/ disk[f].mtime = 0)
    /\ disk' = [disk EXCEPT ![f] = [tags |-> c, mtime |-> clock + 1]]
    /\ clock' = clock + 1 /\ added' = (added \/ (disk[f].mtime = 0 /\ known # <<>>))
    /\ UNCHANGED <<loaded, reading, sets, kept, starts>>

\* The program ends (cfg_free) and is started anew.
Restart ==
    /\ Idle /\ known # <<>> /\ starts < MaxStarts
    /\ tree' = <<>> /\ curmode' = None /\ known' = <<>> /\ highest' = 0
    /\ seen' = [f \in DOMAIN seen |-> <<>>]
    /\ added' = FALSE /\ sets' = Unset /\ starts' = starts + 1
    /\ UNCHANGED <<reading, disk, clock, kept>>

Next ==
    \/ Load \/ IncludeDirectory \/ IncludeFile \/ NextFile \/ Update
    \/ \E p \in Paths, m \in Modes \cup {None}, v \in Settings : SetVariable(p, m, v)
    \/ SaveConfiguration
    \/ \E f \in Files \cup {Saved} : UpdateWith(f)
    \/ \E f \in Files : \E c \in Contents[f] : Edit(f, c)
    \/ Restart

Spec == Start /\ [][Next]_cvars

-----------------------------------------------------------------------------
TypeOK ==
    /\ \A k \in DOMAIN tree : tree[k].mode \in Modes \cup {None} /\ tree[k].modified \in BOOLEAN
    /\ curmode \in Modes \cup {None}
    /\ IsInjective(known) /\ ToSet(known) \subseteq DOMAIN disk
    /\ highest \in 0..clock /\ reading \in -1..Len(known) /\ added \in BOOLEAN
    /\ sets \in [Paths -> Settings \cup {None}] /\ kept \in [Paths -> Settings \cup {None}]

-----------------------------------------------------------------------------
(* Properties.                                                             *)

\* What local.xml gives to a variable, without an id, is what the program finds, whichever
\* other files give it as well, modes left open by broken files and updates included: it is the
\* last include that is read (streeadd puts nodes in front, streefind takes the first, the loop
\* over the includes begins with the last).  Unless a file was put in place, or named in an
\* update, since the program started.
LastIn(f, p) == SelectLastInSeq(seen[f], LAMBDA t : t.tag = "variable" /\ t.path = p)
Given(p) == Idle /\ known # <<>> /\ sets[p] = None /\ LastIn(LocalFile, p) # 0
FoundLocal(p) == GetString(tree, p, None) = seen[LocalFile][LastIn(LocalFile, p)].value

LocalWins ==
    \A p \in Paths :
        Given(p) /\ ~added /\ seen[LocalFile][LastIn(LocalFile, p)].id = None => FoundLocal(p)

\* (Contradicted by "update configuration <file>", whose nodes go in front; by a file that
\* appears in a directory that is included, which becomes known behind local.xml; and by an id,
\* with which a node of local.xml takes the place it had before.)  What local.xml gives to a
\* variable is what the program finds.
LocalAlwaysWins == \A p \in Paths : Given(p) => FoundLocal(p)

\* (Contradicted by a file that breaks off inside of a mode.)
\* A variable that is written outside of every mode belongs to none
\* (curmode, set by a tag, reset by its end, outlives the file).
OutsideOfModes ==
    \A k \in DOMAIN tree : tree[k].path \in Paths => tree[k].mode = None

\* (Contradicted by a file that is included before the saved one.)
\* Modifications that were saved are there after the next start
\* ("configuration changed on-line, saving modifications to").
ModificationsSurvive ==
    \A p \in Paths :
        Idle /\ known # <<>> /\ starts > 1 /\ kept[p] # None => GetString(tree, p, None) = kept[p]

\* (Contradicted by a file that is put in place with an old date, or changed in the second
\* in which it was read.)  A file that has changed since it was read is younger than all files read,
\* so that the next update finds it ("see if any files were modified").
ChangesSeen ==
    \A k \in DOMAIN known :
        Idle /\ disk[known[k]].tags # seen[known[k]] => disk[known[k]].mtime > highest

=============================================================================
