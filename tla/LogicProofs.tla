---------------------------- MODULE LogicProofs ----------------------------
(***************************************************************************)
(* A plan made from a mode is complete, for any modes, based on each other *)
(* in any way, and any services; who asks for a module by name gets it,    *)
(* for any lists of candidates; and what a module requires is forgotten by *)
(* no rule that does not speak of it.                                      *)
(*                                                                         *)
(* mod_plan recurses into a base only if it has not been used yet, and a   *)
(* mode counts as used at the end of its own call.  That every base of a   *)
(* used mode has been used itself needs to be known of the calls that are  *)
(* still going on: a base they have passed is used or is the call right    *)
(* above (WalkInv).  That "all" reaches everything has to survive that the *)
(* list is spelled out at the end of every mode and added to again: either *)
(* the word is on the list or what it stands for is (WipeInv), although    *)
(* services come up meanwhile.                                             *)
(*                                                                         *)
(* The sort of a list is a loop of loops that swap places.  Each is proved *)
(* by what holds after every round (Kept): that the list still has every   *)
(* candidate once, and for the last loop that what is requested is up to   *)
(* the mark and nothing behind it (FrontPass).  In between, walks rotate   *)
(* the lists; a module that was asked for and has not failed stays among   *)
(* the requested ones at the front (Fronted).                              *)
(*                                                                         *)
(* The rewriting of a list of services is one more loop (RewrittenKeeps).  *)
(***************************************************************************)
EXTENDS Planning, Preferences, Transformations, SequenceTheorems, FiniteSetTheorems,
        WellFoundedInduction, TLAPS

Blocks == [enable : SUBSET ServiceNames, disable : SUBSET (ServiceNames \cup Everything),
           critical : SUBSET ServiceNames]
Calls == [mode : Modes, at : Nat \ {0}]

PlanOf(p) ==
  /\ p = [changes |-> p.changes, used |-> p.used, shutdown |-> p.shutdown]
  /\ p.changes \in Blocks /\ p.used \in SUBSET Modes

PlanningTypes ==
  /\ stack \in Seq(Calls) /\ (stack = << >> <=> planning # "gather")
  /\ PlanOf(mloadplan)
  /\ planning \in {"idle", "gather", "commit", "carry out"}
  /\ provided \in SUBSET ServiceNames
  /\ wanted \in Blocks /\ wanted.disable \cap Everything = {}
  /\ planning # "gather" => mloadplan.changes.disable \cap Everything = {}
  /\ planning = "idle" => mloadplan = NoPlan

Called == {stack[i].mode : i \in DOMAIN stack}
Entered == mloadplan.used \cup Called

\* The base of a call that is number k has been seen to, or is being.
Seen(i, k) ==
  LET b == Mode[stack[i].mode].base[k]
  IN b \in Modes => b \in mloadplan.used \/ (i > 1 /\ stack[i - 1].mode = b)

WalkInv ==
  /\ Inherited
  /\ \A m \in Called : Mode[m].enable \subseteq mloadplan.changes.enable
  /\ \A i \in DOMAIN stack : \A k \in DOMAIN Mode[stack[i].mode].base :
       k < stack[i].at => Seen(i, k)

Asked(name) == \E m \in Entered : name \in Mode[m].disable
Spared == IF Asked("all-but-feedback") THEN Feedback ELSE {}
Covered ==
  (provided \cup wanted.enable) \cap Listed \subseteq mloadplan.changes.disable \cup Spared

WipeInv ==
  planning \in {"gather", "commit"} =>
    /\ "all-but-feedback" \in mloadplan.changes.disable => Asked("all-but-feedback")
    /\ (\E name \in Everything : Asked(name)) =>
         mloadplan.changes.disable \cap Everything # {} \/ Covered

PlanInv == PlanningTypes /\ WalkInv /\ WipeInv

-----------------------------------------------------------------------------
\* The stack: the first element replaced, one put in front, one taken off.
LEMMA Replaced ==
  ASSUME NEW S, NEW s \in Seq(S), s # << >>, NEW x \in S
  PROVE  /\ <<x>> \o Tail(s) \in Seq(S) /\ Len(<<x>> \o Tail(s)) = Len(s)
         /\ (<<x>> \o Tail(s))[1] = x
         /\ \A i \in 2..Len(s) : (<<x>> \o Tail(s))[i] = s[i]
<1>1. /\ Tail(s) \in Seq(S) /\ Len(Tail(s)) = Len(s) - 1
      /\ \A i \in 1..(Len(s) - 1) : Tail(s)[i] = s[i + 1]
  BY HeadTailProperties
<1>2. <<x>> \in Seq(S) /\ Len(<<x>>) = 1 /\ <<x>>[1] = x
  OBVIOUS
<1>3. Len(s) \in Nat \ {0}
  BY EmptySeq, LenProperties
<1> DEFINE t == Tail(s)  u == <<x>>
<1>4. /\ u \o t \in Seq(S) /\ Len(u \o t) = Len(u) + Len(t)
      /\ \A i \in 1..(Len(u) + Len(t)) :
           (u \o t)[i] = IF i <= Len(u) THEN u[i] ELSE t[i - Len(u)]
  BY <1>1, <1>2, ConcatProperties
<1> QED BY <1>1, <1>2, <1>3, <1>4

LEMMA Pushed ==
  ASSUME NEW S, NEW s \in Seq(S), NEW x \in S
  PROVE  /\ <<x>> \o s \in Seq(S) /\ Len(<<x>> \o s) = Len(s) + 1
         /\ (<<x>> \o s)[1] = x
         /\ \A i \in 2..(Len(s) + 1) : (<<x>> \o s)[i] = s[i - 1]
<1>2. <<x>> \in Seq(S) /\ Len(<<x>>) = 1 /\ <<x>>[1] = x
  OBVIOUS
<1>3. Len(s) \in Nat
  BY LenProperties
<1> DEFINE u == <<x>>
<1>4. /\ u \o s \in Seq(S) /\ Len(u \o s) = Len(u) + Len(s)
      /\ \A i \in 1..(Len(u) + Len(s)) :
           (u \o s)[i] = IF i <= Len(u) THEN u[i] ELSE s[i - Len(u)]
  BY <1>2, ConcatProperties
<1> QED BY <1>2, <1>3, <1>4

\* The lists of a mode are added to those of the plan.
LEMMA GatheredIs ==
  ASSUME PlanningAssumption, NEW p, PlanOf(p), NEW m \in Modes
  PROVE  /\ PlanOf(Gathered(p, m)) /\ Gathered(p, m).used = p.used
         /\ p.changes.enable \cup Mode[m].enable \subseteq Gathered(p, m).changes.enable
         /\ Gathered(p, m).changes.disable = p.changes.disable \cup Mode[m].disable
<1> DEFINE own == Mode[m]
           point == IF own.wait THEN {Checkpoint[m]} ELSE {}
           c == [enable |-> p.changes.enable \cup own.enable \cup point,
                 disable |-> p.changes.disable \cup own.disable,
                 critical |-> p.changes.critical \cup own.critical]
<1> DEFINE q == Gathered(p, m)
<1>0. q = [p EXCEPT !.changes = c, !.shutdown = p.shutdown \/ own.shutdown]
  BY Zenon DEF Gathered, PlanOf
<1>1. q = [changes |-> c, used |-> p.used, shutdown |-> q.shutdown]
  BY <1>0 DEF PlanOf
<1> HIDE DEF q
<1>2. point \subseteq ServiceNames
  BY DEF PlanningAssumption
<1>3. c \in Blocks
  BY <1>2 DEF PlanningAssumption, PlanOf, Blocks
<1> HIDE DEF point
<1>4. q.changes = c /\ q.used = p.used
  BY <1>1
<1>5. PlanOf(q)
  BY <1>1, <1>3, <1>4 DEF PlanOf
<1> QED BY <1>4, <1>5 DEF q

\* "all" is off the list when it has been spelled out, and what it stands for is on it.
LEMMA ExpandedIs ==
  ASSUME PlanningAssumption, PlanningTypes,
         NEW D \in SUBSET (ServiceNames \cup Everything)
  PROVE  /\ Expanded(D) \subseteq ServiceNames /\ Expanded(D) \cap Everything = {}
         /\ D \cap Everything = {} => Expanded(D) = D
         /\ D \cap Everything # {} =>
              (provided \cup wanted.enable) \cap Listed \subseteq
                Expanded(D) \cup (IF "all-but-feedback" \in D THEN Feedback ELSE {})
<1>1. CASE D \cap Everything = {}
  BY <1>1 DEF Expanded, PlanningAssumption
<1>2. CASE D \cap Everything # {}
  <2>1. Expanded(D) = {s \in provided \cup wanted.enable \cup (D \ Everything) :
                         /\ s \in Listed \/ s \in provided
                         /\ ~("all-but-feedback" \in D /\ s \in Feedback)}
    BY <1>2 DEF Expanded
  <2> QED BY <1>2, <2>1 DEF PlanningAssumption, PlanningTypes, Blocks
<1> QED BY <1>1, <1>2

\* The innermost call.
LEMMA TopIs ==
  ASSUME stack \in Seq(Calls), stack # << >>
  PROVE  /\ Head(stack) \in Calls /\ Head(stack) = stack[1] /\ Len(stack) \in Nat \ {0}
         /\ DOMAIN stack = 1..Len(stack)
         /\ Head(stack).mode \in Modes /\ Head(stack).at \in Nat \ {0}
         /\ \A i \in 1..Len(stack) : stack[i].mode \in Modes /\ stack[i].at \in Nat \ {0}
<1>1. Len(stack) \in Nat \ {0} /\ DOMAIN stack = 1..Len(stack)
  BY EmptySeq, LenProperties
<1>2. \A i \in 1..Len(stack) : stack[i] \in Calls
  BY <1>1, ElementOfSeq
<1>3. Head(stack) = stack[1] /\ stack[1] \in Calls
  BY <1>1, <1>2
<1> QED BY <1>1, <1>2, <1>3 DEF Calls

-----------------------------------------------------------------------------
LEMMA Begins == ASSUME PlanningAssumption, PlanningInit PROVE PlanInv
<1>1. PlanningTypes
  BY DEF PlanningInit, PlanningTypes, PlanOf, Blocks, NoPlan, Block0
<1>2. WalkInv
  BY DEF PlanningInit, WalkInv, Inherited, NoPlan, Called
<1>3. WipeInv
  BY DEF PlanningInit, WipeInv
<1> QED BY <1>1, <1>2, <1>3 DEF PlanInv

\* The first mode of a plan.
LEMMA SwitchKeeps == ASSUME PlanningAssumption, PlanInv, Switch PROVE PlanInv'
<1>1. PICK m \in Modes : stack' = <<Enter(m, 1)>> /\ mloadplan' = Gathered(NoPlan, m)
  BY DEF Switch
<1>2. PlanOf(NoPlan) /\ NoPlan.used = {} /\ NoPlan.changes.disable = {}
  BY DEF PlanOf, NoPlan, Block0, Blocks
<1>3. /\ PlanOf(mloadplan') /\ mloadplan'.used = {}
      /\ Mode[m].enable \subseteq mloadplan'.changes.enable
      /\ mloadplan'.changes.disable = Mode[m].disable
  <2> DEFINE q == Gathered(NoPlan, m)
  <2>1. /\ PlanOf(q) /\ q.used = NoPlan.used
        /\ NoPlan.changes.enable \cup Mode[m].enable \subseteq q.changes.enable
        /\ q.changes.disable = NoPlan.changes.disable \cup Mode[m].disable
    BY <1>2, GatheredIs
  <2> HIDE DEF q
  <2>2. mloadplan' = q
    BY <1>1 DEF q
  <2> QED BY <1>2, <2>1, <2>2
<1>4. /\ stack' \in Seq(Calls) /\ stack' # << >> /\ DOMAIN stack' = {1}
      /\ stack'[1].mode = m /\ stack'[1].at = 1
  BY <1>1 DEF Enter, Calls
<1>5. Called' = {m}
  BY <1>4 DEF Called
<1>6. PlanningTypes'
  BY <1>3, <1>4 DEF PlanInv, PlanningTypes, PlanOf, Switch
<1>7. WalkInv'
  <2>1. \A k \in DOMAIN Mode[m].base : ~(k < 1)
    BY DEF PlanningAssumption
  <2> QED BY <1>3, <1>4, <1>5, <2>1 DEF WalkInv, Inherited
<1>8. Entered' = {m}
  BY <1>3, <1>5 DEF Entered
<1>9. WipeInv'
  BY <1>3, <1>8 DEF WipeInv, Asked
<1> QED BY <1>6, <1>7, <1>9 DEF PlanInv

\* What the call on top of the stack does next.
LEMMA DescendKeeps == ASSUME PlanningAssumption, PlanInv, Descend PROVE PlanInv'
<1> DEFINE top == Head(stack)
           b == Mode[top.mode].base[top.at]
           rest == <<Enter(top.mode, top.at + 1)>> \o Tail(stack)
<1>1. /\ planning = "gather" /\ stack \in Seq(Calls) /\ stack # << >> /\ PlanOf(mloadplan)
      /\ UNCHANGED <<planning, provided, wanted, made>>
  BY DEF PlanInv, PlanningTypes, Descend
<1>2. /\ top \in Calls /\ top = stack[1] /\ Len(stack) \in Nat \ {0}
      /\ DOMAIN stack = 1..Len(stack) /\ top.mode \in Modes /\ top.at \in Nat \ {0}
  BY <1>1, TopIs
<1>3. Enter(top.mode, top.at + 1) \in Calls
  BY <1>2 DEF Enter, Calls
<1>4. /\ rest \in Seq(Calls) /\ Len(rest) = Len(stack)
      /\ rest[1] = Enter(top.mode, top.at + 1)
      /\ \A i \in 2..Len(stack) : rest[i] = stack[i]
  BY <1>1, <1>3, Replaced
<1>5. \A i \in 1..Len(stack) : rest[i].mode = stack[i].mode
  BY <1>2, <1>4 DEF Enter
<1> HIDE DEF top, rest
<1>6. CASE b \in Modes \ mloadplan.used
  <2>1. stack' = <<Enter(b, 1)>> \o rest /\ mloadplan' = Gathered(mloadplan, b)
    BY <1>6 DEF Descend, top, rest
  <2>2. Enter(b, 1) \in Calls
    BY <1>6 DEF Enter, Calls
  <2>3. /\ stack' \in Seq(Calls) /\ Len(stack') = Len(stack) + 1 /\ stack'[1] = Enter(b, 1)
        /\ \A i \in 2..(Len(stack) + 1) : stack'[i] = rest[i - 1]
    BY <1>4, <2>1, <2>2, Pushed
  <2>4. /\ PlanOf(mloadplan') /\ mloadplan'.used = mloadplan.used
        /\ mloadplan.changes.enable \cup Mode[b].enable \subseteq mloadplan'.changes.enable
        /\ mloadplan'.changes.disable = mloadplan.changes.disable \cup Mode[b].disable
    BY <1>1, <1>6, <2>1, GatheredIs
  <2>5. DOMAIN stack' = 1..(Len(stack) + 1)
    BY <1>2, <2>3, LenProperties
  <2>6. Called' = Called \cup {b}
    <3>1. stack'[1].mode = b /\ \A i \in 1..Len(stack) : stack'[i + 1].mode = stack[i].mode
      BY <1>2, <1>5, <2>3 DEF Enter
    <3>2. \A m \in Called : m \in Called'
      BY <1>2, <2>5, <3>1 DEF Called
    <3>3. b \in Called'
      BY <1>2, <2>5, <3>1 DEF Called
    <3>4. \A i \in 2..(Len(stack) + 1) : stack'[i].mode = stack[i - 1].mode
      BY <1>2, <3>1
    <3>5. ASSUME NEW i \in DOMAIN stack'
          PROVE  stack'[i].mode \in Called \cup {b}
      <4>1. CASE i = 1
        BY <3>1, <4>1
      <4>2. CASE i # 1
        <5>1. i \in 2..(Len(stack) + 1) /\ i - 1 \in DOMAIN stack
          BY <1>2, <2>5, <4>2
        <5> QED BY <3>4, <5>1 DEF Called
      <4> QED BY <4>1, <4>2
    <3>6. \A m \in Called' : m \in Called \cup {b}
      BY <3>5 DEF Called
    <3> QED BY <3>2, <3>3, <3>6
  <2>7. PlanningTypes'
    <3>1. stack' # << >>
      BY <1>2, <2>3, EmptySeq
    <3> QED BY <1>1, <2>3, <2>4, <3>1 DEF PlanInv, PlanningTypes, PlanOf
  <2>8. WalkInv'
    <3>1. Inherited'
      BY <2>4 DEF PlanInv, WalkInv, Inherited, Bases
    <3>2. (\A m \in Called : Mode[m].enable \subseteq mloadplan.changes.enable)'
      BY <2>4, <2>6 DEF PlanInv, WalkInv
    <3>3. ASSUME NEW i \in DOMAIN stack', NEW k \in DOMAIN Mode[stack'[i].mode].base,
                 k < stack'[i].at
          PROVE  Seen(i, k)'
      <4>0. i \in 1..(Len(stack) + 1) /\ k \in Nat \ {0}
        <5>1. stack'[i] \in Calls
          BY <1>2, <2>3, <2>5, ElementOfSeq
        <5>2. Mode[stack'[i].mode].base \in Seq(STRING)
          BY <5>1 DEF Calls, PlanningAssumption
        <5> QED BY <2>5, <5>2, LenProperties
      <4>1. CASE i = 1
        BY <4>1, <4>0, <3>3, <2>3 DEF Enter
      <4>2. CASE i = 2
        <5>1. stack'[2] = Enter(top.mode, top.at + 1) /\ stack'[1].mode = b
          BY <1>2, <1>4, <2>3 DEF Enter
        <5>2. k <= top.at
          BY <1>2, <3>3, <4>0, <4>2, <5>1 DEF Enter
        <5>3. CASE k = top.at
          BY <4>2, <5>1, <5>3 DEF Seen, Enter
        <5>4. CASE k < top.at
          <6>1. Seen(1, k)
            BY <1>2, <3>3, <4>2, <5>1, <5>4 DEF PlanInv, WalkInv, Enter
          <6>2. stack'[2].mode = stack[1].mode
            BY <1>2, <5>1 DEF Enter
          <6>3. Mode[stack[1].mode].base[k] \in Modes =>
                  Mode[stack[1].mode].base[k] \in mloadplan.used
            BY <6>1 DEF Seen
          <6> QED BY <2>4, <4>2, <6>2, <6>3 DEF Seen
        <5> QED BY <1>2, <4>0, <5>2, <5>3, <5>4
      <4>3. CASE i > 2
        <5>1. /\ i - 1 \in 2..Len(stack) /\ i - 2 \in 1..Len(stack)
              /\ stack'[i] = stack[i - 1] /\ stack'[i - 1].mode = stack[i - 2].mode
          BY <1>2, <1>4, <1>5, <2>3, <4>0, <4>3
        <5>2. Seen(i - 1, k)
          BY <1>2, <3>3, <5>1 DEF PlanInv, WalkInv
        <5> QED BY <1>2, <2>4, <4>0, <4>3, <5>1, <5>2 DEF Seen
      <4> QED BY <1>2, <4>0, <4>1, <4>2, <4>3
    <3>4. (\A i \in DOMAIN stack : \A k \in DOMAIN Mode[stack[i].mode].base :
              k < stack[i].at => Seen(i, k))'
      BY <3>3
    <3> QED BY <3>1, <3>2, <3>4 DEF WalkInv
  <2>9. WipeInv'
    <3>1. \A name : Asked(name)' <=> Asked(name) \/ name \in Mode[b].disable
      BY <2>4, <2>6 DEF Asked, Entered
    <3>2. Covered => Covered'
      BY <1>1, <2>4, <3>1 DEF Covered, Spared
    <3> QED BY <1>1, <2>4, <3>1, <3>2 DEF PlanInv, WipeInv
  <2> QED BY <2>7, <2>8, <2>9 DEF PlanInv
<1>7. CASE b \notin Modes \ mloadplan.used
  <2>1. stack' = rest /\ mloadplan' = mloadplan
    BY <1>7 DEF Descend, top, rest
  <2>2. DOMAIN stack' = 1..Len(stack) /\ Len(stack') = Len(stack)
    BY <1>2, <1>4, <2>1, LenProperties
  <2>3. Called' = Called
    BY <1>2, <1>5, <2>1, <2>2 DEF Called
  <2>4. PlanningTypes'
    <3>1. stack' # << >>
      BY <1>2, <2>2, EmptySeq
    <3> QED BY <1>1, <1>4, <2>1, <3>1 DEF PlanInv, PlanningTypes
  <2>5. WalkInv'
    <3>1. ASSUME NEW i \in DOMAIN stack', NEW k \in DOMAIN Mode[stack'[i].mode].base,
                 k < stack'[i].at
          PROVE  Seen(i, k)'
      <4>0. i \in 1..Len(stack) /\ k \in Nat \ {0} /\ stack'[i].mode = stack[i].mode
        <5>1. stack'[i].mode = stack[i].mode /\ stack'[i].mode \in Modes
          BY <1>1, <1>5, <2>1, <2>2, TopIs
        <5>2. Mode[stack'[i].mode].base \in Seq(STRING)
          BY <5>1 DEF PlanningAssumption
        <5> QED BY <2>2, <5>1, <5>2, LenProperties
      <4>1. CASE i = 1 /\ k = top.at
        BY <1>2, <1>7, <4>0, <4>1, <2>1 DEF Seen
      <4>2. CASE ~(i = 1 /\ k = top.at)
        <5>1. k < stack[i].at
          BY <1>2, <1>4, <2>1, <3>1, <4>0, <4>2 DEF Enter
        <5>2. Seen(i, k)
          BY <1>2, <3>1, <4>0, <5>1 DEF PlanInv, WalkInv
        <5>3. i > 1 => stack'[i - 1].mode = stack[i - 1].mode
          BY <1>2, <1>5, <2>1, <4>0
        <5> QED BY <2>1, <4>0, <5>2, <5>3 DEF Seen
      <4> QED BY <4>1, <4>2
    <3>2. (\A i \in DOMAIN stack : \A k \in DOMAIN Mode[stack[i].mode].base :
              k < stack[i].at => Seen(i, k))'
      BY <3>1
    <3> QED BY <2>1, <2>3, <3>2 DEF PlanInv, WalkInv, Inherited, Bases
  <2>6. WipeInv'
    <3>1. \A name : Asked(name)' <=> Asked(name)
      BY <2>1, <2>3 DEF Asked, Entered
    <3> QED BY <1>1, <2>1, <3>1 DEF PlanInv, WipeInv, Covered, Spared
  <2> QED BY <2>4, <2>5, <2>6 DEF PlanInv
<1> QED BY <1>6, <1>7

\* A call that returns: its mode counts as used, and "all" is spelled out.
LEMMA FinishKeeps == ASSUME PlanningAssumption, PlanInv, FinishMode PROVE PlanInv'
<1> DEFINE top == Head(stack)
           D == mloadplan.changes.disable
<1>1. /\ planning = "gather" /\ stack \in Seq(Calls) /\ stack # << >> /\ PlanOf(mloadplan)
      /\ stack' = Tail(stack) /\ top.at > Len(Mode[top.mode].base)
      /\ UNCHANGED <<provided, wanted, made>>
      /\ planning' = IF Tail(stack) = << >> THEN "commit" ELSE "gather"
  BY DEF PlanInv, PlanningTypes, FinishMode
<1>2. /\ top \in Calls /\ top = stack[1] /\ Len(stack) \in Nat \ {0}
      /\ DOMAIN stack = 1..Len(stack) /\ top.mode \in Modes /\ top.at \in Nat \ {0}
  BY <1>1, TopIs
<1>3. /\ stack' \in Seq(Calls) /\ Len(stack') = Len(stack) - 1
      /\ DOMAIN stack' = 1..(Len(stack) - 1)
      /\ \A i \in 1..(Len(stack) - 1) : stack'[i] = stack[i + 1]
  BY <1>1, HeadTailProperties, LenProperties
<1>4. D \in SUBSET (ServiceNames \cup Everything)
  BY <1>1 DEF PlanOf, Blocks
<1>5. /\ Expanded(D) \subseteq ServiceNames /\ Expanded(D) \cap Everything = {}
      /\ D \cap Everything = {} => Expanded(D) = D
      /\ D \cap Everything # {} =>
           (provided \cup wanted.enable) \cap Listed \subseteq
             Expanded(D) \cup (IF "all-but-feedback" \in D THEN Feedback ELSE {})
  BY <1>4, ExpandedIs DEF PlanInv
<1>6. /\ PlanOf(mloadplan') /\ mloadplan'.used = mloadplan.used \cup {top.mode}
      /\ mloadplan'.changes.enable = mloadplan.changes.enable
      /\ mloadplan'.changes.disable = Expanded(D)
  <2> DEFINE E == Expanded(D)
             c == [enable |-> mloadplan.changes.enable, disable |-> E,
                   critical |-> mloadplan.changes.critical]
             u == mloadplan.used \cup {top.mode}
  <2>1. mloadplan' = [mloadplan EXCEPT !.used = u, !.changes.disable = E]
    BY DEF FinishMode
  <2>2. E \in SUBSET (ServiceNames \cup Everything)
    BY <1>5
  <2>3. u \in SUBSET Modes
    BY <1>1, <1>2 DEF PlanOf
  <2> HIDE DEF E, u, top
  <2>4. c \in Blocks
    BY <1>1, <2>2 DEF PlanOf, Blocks
  <2>5. mloadplan' = [changes |-> c, used |-> u, shutdown |-> mloadplan.shutdown]
    <3>1. mloadplan.changes = [enable |-> mloadplan.changes.enable,
                               disable |-> mloadplan.changes.disable,
                               critical |-> mloadplan.changes.critical]
      BY <1>1 DEF PlanOf, Blocks
    <3> QED BY <1>1, <2>1, <3>1 DEF PlanOf
  <2>6. mloadplan'.changes = c /\ mloadplan'.used = u
    BY <2>5
  <2>7. PlanOf(mloadplan')
    BY <2>3, <2>4, <2>5, <2>6 DEF PlanOf
  <2> QED BY <2>6, <2>7 DEF E, u
<1> HIDE DEF top
<1>7. Entered' = Entered
  <2>1. ASSUME NEW i \in 1..(Len(stack) - 1)
        PROVE  stack'[i].mode \in Called
    <3>1. i + 1 \in DOMAIN stack /\ stack'[i] = stack[i + 1]
      BY <1>2, <1>3
    <3> QED BY <3>1 DEF Called
  <2>2. ASSUME NEW i \in DOMAIN stack
        PROVE  stack[i].mode \in Called' \cup {top.mode}
    <3>1. CASE i = 1
      BY <1>2, <3>1
    <3>2. CASE i # 1
      <4>1. i - 1 \in 1..(Len(stack) - 1) /\ stack[i] = stack'[i - 1]
        BY <1>2, <1>3, <3>2
      <4> QED BY <1>3, <4>1 DEF Called
    <3> QED BY <3>1, <3>2
  <2>3. top.mode \in Called
    BY <1>2 DEF Called
  <2>4. Called' \subseteq Called
    BY <1>3, <2>1 DEF Called
  <2>5. Called \subseteq Called' \cup {top.mode}
    BY <2>2 DEF Called
  <2> QED BY <1>6, <2>3, <2>4, <2>5 DEF Entered
<1>8. PlanningTypes'
  <2>1. stack' = << >> <=> planning' # "gather"
    BY <1>1
  <2> QED BY <1>1, <1>3, <1>5, <1>6, <2>1 DEF PlanInv, PlanningTypes
<1>9. WalkInv'
  <2>1. Inherited'
    <3>1. Bases(top.mode) \subseteq mloadplan.used
      <4>1. DOMAIN Mode[top.mode].base = 1..Len(Mode[top.mode].base)
            /\ Len(Mode[top.mode].base) \in Nat
        BY <1>2, LenProperties DEF PlanningAssumption
      <4>2. ASSUME NEW k \in DOMAIN Mode[top.mode].base, Mode[top.mode].base[k] \in Modes
            PROVE  Mode[top.mode].base[k] \in mloadplan.used
        <5>1. k < stack[1].at
          BY <1>1, <1>2, <4>1 DEF top
        <5>2. Seen(1, k)
          BY <1>2, <5>1 DEF PlanInv, WalkInv
        <5> QED BY <1>2, <4>2, <5>2 DEF Seen
      <4> QED BY <4>2 DEF Bases
    <3>2. Mode[top.mode].enable \subseteq mloadplan.changes.enable
      BY <1>2 DEF PlanInv, WalkInv, Called
    <3> QED BY <1>6, <3>1, <3>2 DEF PlanInv, WalkInv, Inherited, Bases
  <2>2. (\A m \in Called : Mode[m].enable \subseteq mloadplan.changes.enable)'
    <3>1. Called' \subseteq Entered
      BY <1>7 DEF Entered
    <3>2. \A m \in Entered : Mode[m].enable \subseteq mloadplan.changes.enable
      BY DEF PlanInv, WalkInv, Inherited, Entered
    <3> QED BY <1>6, <3>1, <3>2
  <2>3. ASSUME NEW i \in DOMAIN stack', NEW k \in DOMAIN Mode[stack'[i].mode].base,
               k < stack'[i].at
        PROVE  Seen(i, k)'
    <3>1. i \in 1..(Len(stack) - 1) /\ i + 1 \in DOMAIN stack /\ stack'[i] = stack[i + 1]
      BY <1>2, <1>3
    <3>2. Seen(i + 1, k)
      BY <2>3, <3>1 DEF PlanInv, WalkInv
    <3>3. CASE i = 1
      <4>1. stack[1].mode = top.mode
        BY <1>2
      <4> QED BY <1>6, <3>1, <3>2, <3>3, <4>1 DEF Seen
    <3>4. CASE i > 1
      <4>1. stack'[i - 1] = stack[i] /\ (i + 1) - 1 = i
        BY <1>2, <1>3, <3>1, <3>4
      <4> QED BY <1>6, <3>1, <3>2, <3>4, <4>1 DEF Seen
    <3> QED BY <3>1, <3>3, <3>4
  <2>4. (\A i \in DOMAIN stack : \A k \in DOMAIN Mode[stack[i].mode].base :
            k < stack[i].at => Seen(i, k))'
    BY <2>3
  <2> QED BY <2>1, <2>2, <2>4 DEF WalkInv
<1>10. WipeInv'
  <2>1. \A name : Asked(name)' <=> Asked(name)
    BY <1>7 DEF Asked
  <2>2. /\ "all-but-feedback" \in D => Asked("all-but-feedback")
        /\ (\E name \in Everything : Asked(name)) => D \cap Everything # {} \/ Covered
    BY <1>1 DEF PlanInv, WipeInv
  <2>3. "all-but-feedback" \notin Expanded(D)
    BY <1>5 DEF Everything
  <2>4. D \cap Everything # {} => Covered'
    BY <1>1, <1>5, <1>6, <2>1, <2>2 DEF Covered, Spared
  <2>5. D \cap Everything = {} /\ Covered => Covered'
    BY <1>1, <1>5, <1>6, <2>1 DEF Covered, Spared
  <2> QED BY <1>6, <2>1, <2>2, <2>3, <2>4, <2>5 DEF WipeInv
<1> QED BY <1>8, <1>9, <1>10 DEF PlanInv

\* A plan for one service.
LEMMA AskKeeps == ASSUME PlanningAssumption, PlanInv, Ask PROVE PlanInv'
<1>1. PICK s \in ServiceNames, verb \in {"enable", "disable"} :
        mloadplan' = [NoPlan EXCEPT !.changes = [Block0 EXCEPT ![verb] = {s}]]
  BY DEF Ask
<1>2. /\ PlanOf(mloadplan') /\ mloadplan'.used = {}
      /\ mloadplan'.changes.disable \subseteq ServiceNames
  BY <1>1 DEF PlanOf, NoPlan, Block0, Blocks
<1>3. stack' = << >> /\ Called' = {} /\ planning' = "commit"
  BY DEF PlanInv, PlanningTypes, Ask, Called
<1>4. mloadplan'.changes.disable \cap Everything = {}
  BY <1>2 DEF PlanningAssumption
<1>5. PlanningTypes'
  BY <1>2, <1>3, <1>4 DEF PlanInv, PlanningTypes, Ask
<1>6. WalkInv'
  BY <1>2, <1>3 DEF WalkInv, Inherited
<1>7. WipeInv'
  BY <1>2, <1>3, <1>4 DEF WipeInv, Asked, Entered, Everything
<1> QED BY <1>5, <1>6, <1>7 DEF PlanInv

\* What happens between plans.
LEMMA ZapKeeps == ASSUME PlanningAssumption, PlanInv, Zap PROVE PlanInv'
<1>1. PICK s \in ServiceNames :
        /\ wanted' = [k \in DOMAIN wanted |-> wanted[k] \ {s}]
        /\ provided' = IF s \in Listed THEN provided \ {s} ELSE provided
  BY DEF Zap
<1>2. wanted' \in Blocks /\ wanted'.disable \cap Everything = {}
  BY <1>1 DEF PlanInv, PlanningTypes, Blocks
<1>3. PlanningTypes'
  BY <1>1, <1>2 DEF PlanInv, PlanningTypes, Zap
<1>4. WalkInv' /\ WipeInv'
  BY DEF PlanInv, WalkInv, Inherited, Bases, Called, Seen, WipeInv, Zap
<1> QED BY <1>3, <1>4 DEF PlanInv

LEMMA MergeKeeps == ASSUME PlanningAssumption, PlanInv, Merge PROVE PlanInv'
<1> DEFINE c == mloadplan.changes
<1>1. /\ wanted' = [enable |-> (wanted.enable \cup c.enable) \ c.disable,
                    disable |-> (wanted.disable \ c.enable) \cup c.disable,
                    critical |-> (wanted.critical \cup c.critical) \ c.disable]
      /\ planning = "commit" /\ planning' = "carry out"
      /\ UNCHANGED <<stack, mloadplan, provided, made>>
  BY DEF Merge
<1>2. c \in Blocks /\ c.disable \cap Everything = {}
  BY <1>1 DEF PlanInv, PlanningTypes, PlanOf
<1>3. wanted' \in Blocks /\ wanted'.disable \cap Everything = {}
  BY <1>1, <1>2 DEF PlanInv, PlanningTypes, Blocks
<1>4. PlanningTypes'
  BY <1>1, <1>3 DEF PlanInv, PlanningTypes
<1>5. WalkInv' /\ WipeInv'
  BY <1>1 DEF PlanInv, WalkInv, Inherited, Bases, Called, Seen, WipeInv
<1> QED BY <1>4, <1>5 DEF PlanInv

LEMMA CarryOutKeeps == ASSUME PlanningAssumption, PlanInv, CarryOut PROVE PlanInv'
<1>1. PICK X \in SUBSET (wanted.enable \cap Listed) :
        provided' = (provided \ wanted.disable) \cup X
  BY DEF CarryOut
<1>2. PlanOf(NoPlan) /\ NoPlan.used = {} /\ NoPlan.changes.disable = {}
  BY DEF PlanOf, NoPlan, Block0, Blocks
<1>3. /\ mloadplan' = NoPlan /\ planning' = "idle" /\ stack = << >> /\ stack' = << >>
      /\ UNCHANGED <<wanted, made>>
  BY DEF PlanInv, PlanningTypes, CarryOut
<1>4. PlanningTypes'
  BY <1>1, <1>2, <1>3 DEF PlanInv, PlanningTypes, Blocks
<1>5. WalkInv' /\ WipeInv'
  BY <1>2, <1>3 DEF WalkInv, Inherited, Called, WipeInv
<1> QED BY <1>4, <1>5 DEF PlanInv

\* A service that comes up was wanted before.
LEMMA ComeUpKeeps == ASSUME PlanningAssumption, PlanInv, ComeUp PROVE PlanInv'
<1>1. PICK s \in wanted.enable \cap Listed : provided' = provided \cup {s}
  BY DEF ComeUp
<1>2. PlanningTypes'
  BY <1>1 DEF PlanInv, PlanningTypes, Blocks, ComeUp
<1>3. WalkInv'
  BY DEF PlanInv, WalkInv, Inherited, Bases, Called, Seen, ComeUp
<1>4. Covered => Covered'
  BY <1>1 DEF Covered, Spared, Asked, Entered, Called, ComeUp
<1>5. \A name : Asked(name)' <=> Asked(name)
  BY DEF Asked, Entered, Called, ComeUp
<1>6. WipeInv'
  BY <1>4, <1>5 DEF PlanInv, WipeInv, ComeUp
<1> QED BY <1>2, <1>3, <1>6 DEF PlanInv

LEMMA PlanningKeeps ==
  ASSUME PlanningAssumption, PlanInv, [PlanningNext]_planningvars
  PROVE  PlanInv'
<1>1. CASE UNCHANGED planningvars
  <2>1. UNCHANGED <<stack, mloadplan, planning, provided, wanted>>
    BY <1>1 DEF planningvars
  <2>2. PlanningTypes'
    BY <2>1 DEF PlanInv, PlanningTypes
  <2>3. WalkInv'
    BY <2>1 DEF PlanInv, WalkInv, Inherited, Bases, Called, Seen
  <2>4. WipeInv'
    BY <2>1 DEF PlanInv, WipeInv, Covered, Spared, Asked, Entered, Called
  <2> QED BY <2>2, <2>3, <2>4 DEF PlanInv
<1> QED BY <1>1, SwitchKeeps, DescendKeeps, FinishKeeps, AskKeeps, ZapKeeps, MergeKeeps,
           CarryOutKeeps, ComeUpKeeps DEF PlanningNext

\* What the plan has spelled out is merged into what is wanted down.
LEMMA MergeCovers ==
  ASSUME PlanningAssumption, PlanInv, Merge, Wipes("all") \/ Wipes("all-but-feedback")
  PROVE  (provided \cup wanted.enable) \cap Listed
           \subseteq wanted'.disable \cup (IF Wipes("all-but-feedback") THEN Feedback ELSE {})
<1>1. planning = "commit" /\ mloadplan.changes.disable \subseteq wanted'.disable
  BY DEF Merge
<1>2. stack = << >> /\ mloadplan.changes.disable \cap Everything = {}
  BY <1>1 DEF PlanInv, PlanningTypes
<1>3. Called = {}
  BY <1>2 DEF Called
<1>4. \A name : Asked(name) <=> Wipes(name)
  BY <1>3 DEF Asked, Entered, Wipes
<1>5. Covered
  BY <1>1, <1>2, <1>4 DEF PlanInv, WipeInv, Everything
<1> QED BY <1>1, <1>4, <1>5 DEF Covered, Spared

-----------------------------------------------------------------------------
LEMMA PlanningAlways == PlanningAssumption /\ PlanningSpec => []PlanInv
<1> SUFFICES ASSUME PlanningAssumption PROVE PlanningSpec => []PlanInv
  OBVIOUS
<1>1. PlanningInit => PlanInv
  BY Begins
<1>2. PlanInv /\ [PlanningNext]_planningvars => PlanInv'
  BY PlanningKeeps
<1> QED BY <1>1, <1>2, PTL DEF PlanningSpec

\* The lists of a plan name services, none of them "all" once it is made, and no mode is
\* being gathered between plans.
THEOREM PlanningTyped == PlanningAssumption /\ PlanningSpec => []PlanningTypeOK
<1>1. ASSUME PlanInv PROVE PlanningTypeOK
  <2>1. \A i \in DOMAIN stack : stack[i].mode \in Modes
    <3>1. CASE stack = << >>
      BY <3>1
    <3>2. CASE stack # << >>
      BY <1>1, <3>2, TopIs DEF PlanInv, PlanningTypes
    <3> QED BY <3>1, <3>2
  <2>2. wanted \in Blocks /\ wanted.disable \subseteq ServiceNames
    BY <1>1 DEF PlanInv, PlanningTypes, Blocks
  <2>3. \A k \in DOMAIN wanted : wanted[k] \subseteq ServiceNames
    BY <2>2 DEF Blocks
  <2> QED BY <1>1, <2>1, <2>3 DEF PlanInv, PlanningTypes, PlanOf, Blocks, PlanningTypeOK
<1> QED BY <1>1, PlanningAlways, PTL

\* mod_plan: however modes are based on each other, the plan of one wants what each of them
\* wants; and "all" takes down whatever some module provides and is up or wanted, though
\* it is spelled out long before the plan is merged.
THEOREM PlansComplete == PlanningAssumption /\ PlanningSpec => PlanComplete
<1> SUFFICES ASSUME PlanningAssumption PROVE PlanningSpec => PlanComplete
  OBVIOUS
<1> DEFINE Covers ==
      Merge /\ (Wipes("all") \/ Wipes("all-but-feedback")) =>
        (provided \cup wanted.enable) \cap Listed
          \subseteq wanted'.disable \cup (IF Wipes("all-but-feedback") THEN Feedback ELSE {})
<1>1. PlanInv => Inherited
  BY DEF PlanInv, WalkInv
<1>2. PlanInv => [Covers]_planningvars
  BY MergeCovers
<1>3. PlanningSpec => []PlanInv
  BY PlanningAlways
<1>4. PlanningSpec => [][Covers]_planningvars
  BY <1>2, <1>3, PTL
<1> QED BY <1>1, <1>3, <1>4, PTL DEF PlanComplete, AllGoesDown

-----------------------------------------------------------------------------
\* Induction over an interval.
LEMMA Upward ==
  ASSUME NEW N \in Nat, NEW S, 0 \in S, \A n \in 1..N : n - 1 \in S => n \in S
  PROVE  0..N \subseteq S
<1> DEFINE Bad == {n \in 0..N : n \notin S}
           R == {p \in Nat \X Nat : p[1] < p[2]}
<1>1. IsWellFoundedOn(R, Nat)
  BY NatLessThanWellFounded DEF OpToRel
<1>2. ASSUME Bad # {} PROVE FALSE
  <2>1. Bad \in SUBSET Nat
    OBVIOUS
  <2> HIDE DEF R
  <2>2. PICK n \in Bad : \A y \in Bad : <<y, n>> \notin R
    BY <1>1, <1>2, <2>1, WFMin
  <2>3. n \in 1..N /\ n \in Nat /\ n - 1 \in 0..N /\ n - 1 \in Nat /\ n - 1 < n
    BY <2>2
  <2>4. n - 1 \notin S
    BY <2>2, <2>3
  <2>5. <<n - 1, n>> \in R
    BY <2>3 DEF R
  <2>6. n - 1 \notin Bad
    BY <2>2, <2>5
  <2> QED
    BY <2>3, <2>4, <2>6
<1> QED
  BY <1>2

\* What a loop of N rounds has come to after each: F of the round and of what was before.
Rounds(f, N, s0, F) == f[0] = s0 /\ \A n \in 1..N : f[n] = F[<<n, f[n - 1]>>]

\* A loop over an interval has a result.
LEMMA Iterated ==
  ASSUME NEW N \in Nat, NEW s0, NEW F
  PROVE  \E f : f = [n \in 0..N |-> f[n]] /\ Rounds(f, N, s0, F)
<1> USE DEF Rounds
<1> DEFINE Good(f, n) == f = [k \in 0..n |-> f[k]] /\ Rounds(f, n, s0, F)
           S == {n \in 0..N : \E f : Good(f, n)}
<1>1. 0 \in S
  <2>1. Good([k \in 0..0 |-> s0], 0)
    OBVIOUS
  <2> HIDE DEF Good
  <2>2. \E f : Good(f, 0)
    BY <2>1
  <2> QED
    BY <2>2
<1>2. ASSUME NEW n \in 1..N, n - 1 \in S
      PROVE  n \in S
  <2>1. n - 1 \in 0..N /\ n \in 0..N /\ n \in Nat
    OBVIOUS
  <2>2. PICK f : Good(f, n - 1)
    BY <1>2
  <2> DEFINE g == [k \in 0..n |-> IF k = n THEN F[<<n, f[n - 1]>>] ELSE f[k]]
  <2>3. g = [k \in 0..n |-> g[k]] /\ g[0] = s0
    BY <2>1, <2>2
  <2>4. ASSUME NEW k \in 1..n
        PROVE  g[k] = F[<<k, g[k - 1]>>]
    <3>1. k - 1 \in 0..n /\ k - 1 # n /\ k \in 0..n
      BY <2>1
    <3>2. g[k - 1] = f[k - 1]
      BY <3>1
    <3>3. CASE k = n
      BY <3>1, <3>2, <3>3
    <3>4. CASE k # n
      <4>1. k \in 1..(n - 1) /\ g[k] = f[k]
        BY <2>1, <3>1, <3>4
      <4> QED
        BY <2>2, <3>2, <4>1
    <3> QED
      BY <3>3, <3>4
  <2> HIDE DEF g
  <2>5. Good(g, n)
    BY <2>3, <2>4
  <2> QED
    BY <2>1, <2>5
<1> HIDE DEF S, Good
<1>3. N \in 0..N /\ 0..N \subseteq S
  BY <1>1, <1>2, Upward
<1>4. PICK f : Good(f, N)
  BY <1>3 DEF S
<1> QED
  BY <1>4 DEF Good

\* What holds before a loop and is kept by every round holds after every round.
LEMMA Kept ==
  ASSUME NEW N \in Nat, NEW I, NEW F, NEW f, f[0] \in I[0],
         \A n \in 1..N : \A b \in I[n - 1] : F[<<n, b>>] \in I[n],
         \A n \in 1..N : f[n - 1] \in I[n - 1] => f[n] = F[<<n, f[n - 1]>>]
  PROVE  \A n \in 0..N : f[n] \in I[n]
<1> DEFINE S == {n \in 0..N : f[n] \in I[n]}
<1>1. 0 \in S
  OBVIOUS
<1>2. ASSUME NEW n \in 1..N, n - 1 \in S
      PROVE  n \in S
  <2>1. n \in 0..N /\ f[n - 1] \in I[n - 1]
    BY <1>2
  <2>2. f[n] \in I[n]
    BY <2>1
  <2> QED
    BY <2>1, <2>2
<1> HIDE DEF S
<1>3. 0..N \subseteq S
  BY <1>1, <1>2, Upward
<1> QED
  BY <1>3 DEF S

LEMMA Loop ==
  ASSUME NEW N \in Nat, NEW s0, NEW I, NEW F, s0 \in I[0],
         \A n \in 1..N : \A b \in I[n - 1] : F[<<n, b>>] \in I[n]
  PROVE  \E f : /\ f = [n \in 0..N |-> f[n]] /\ Rounds(f, N, s0, F)
                /\ \A n \in 0..N : f[n] \in I[n]
<1>1. PICK f : f = [n \in 0..N |-> f[n]] /\ Rounds(f, N, s0, F)
  BY Iterated
<1>2. f[0] \in I[0] /\ \A n \in 1..N : f[n - 1] \in I[n - 1] => f[n] = F[<<n, f[n - 1]>>]
  BY <1>1 DEF Rounds
<1>3. \A n \in 0..N : f[n] \in I[n]
  BY <1>2, Kept
<1> QED
  BY <1>1, <1>3

-----------------------------------------------------------------------------
\* The sort.

LEMMA SwapKeeps ==
  ASSUME NEW X, NEW l \in Orders(X), NEW i \in DOMAIN l, NEW j \in DOMAIN l, NEW s,
         s = Swapped(l, i, j)
  PROVE  /\ s \in Orders(X) /\ s[j] = l[i] /\ (i # j => s[i] = l[j])
         /\ \A k \in DOMAIN l : k # i /\ k # j => s[k] = l[k]
<1>1. l \in [1 .. Cardinality(X) -> X] /\ s \in [1 .. Cardinality(X) -> X]
  BY DEF Orders, Swapped
<1>2. /\ s[j] = l[i] /\ (i # j => s[i] = l[j])
      /\ \A k \in DOMAIN l : k # i /\ k # j => s[k] = l[k]
  BY <1>1 DEF Swapped
<1>3. ASSUME NEW x \in X PROVE \E k \in DOMAIN s : s[k] = x
  <2>1. PICK k \in DOMAIN l : l[k] = x
    BY DEF Orders
  <2>2. DOMAIN s = DOMAIN l
    BY <1>1
  <2>3. CASE k = i
    BY <1>2, <2>1, <2>2, <2>3
  <2>4. CASE k = j /\ k # i
    BY <1>2, <2>1, <2>2, <2>4
  <2>5. CASE k \notin {i, j}
    BY <1>2, <2>1, <2>2, <2>5
  <2> QED
    BY <2>3, <2>4, <2>5
<1> QED
  BY <1>1, <1>2, <1>3 DEF Orders

\* Lists of X with a place in them.
Marked(X) == [list : Orders(X), at : 1..(Cardinality(X) + 1)]

LEMMA Lengths ==
  ASSUME NEW X, IsFiniteSet(X), NEW l \in Orders(X)
  PROVE  /\ Cardinality(X) \in Nat /\ Len(l) = Cardinality(X) /\ DOMAIN l = 1 .. Cardinality(X)
         /\ l \in Seq(X)
<1>1. Cardinality(X) \in Nat
  BY FS_CardinalityType
<1>2. l \in [1 .. Cardinality(X) -> X]
  BY DEF Orders
<1>3. l \in Seq(X)
  BY <1>1, <1>2, SeqDef
<1>4. DOMAIN l = 1..Len(l) /\ Len(l) \in Nat
  BY <1>3, LenProperties
<1>5. 1..Len(l) = 1 .. Cardinality(X)
  BY <1>2, <1>4
<1>6. Len(l) = Cardinality(X)
  BY <1>1, <1>4, <1>5
<1> QED
  BY <1>1, <1>2, <1>3, <1>6

\* One pass: what is in Y has come from behind the mark to the places up to the new mark.
LEMMA FrontPass ==
  ASSUME NEW X, IsFiniteSet(X), NEW Y, NEW a \in Marked(X),
         \A j \in 1 .. Cardinality(X) : j < a.at => a.list[j] \notin Y
  PROVE  LET b == ToFront(a, Y)
         IN /\ b \in Marked(X) /\ a.at <= b.at
            /\ \A j \in 1 .. Cardinality(X) :
                 /\ j < a.at => b.list[j] = a.list[j]
                 /\ a.at <= j /\ j < b.at => b.list[j] \in Y
                 /\ b.at <= j => b.list[j] \notin Y
<1> DEFINE N == Cardinality(X)
           Body(b, n) == IF b.list[n] \in Y
                           THEN [list |-> Swapped(b.list, n, b.at), at |-> b.at + 1] ELSE b
           F == [p \in (1..N) \X Marked(X) |-> Body(p[2], p[1])]
           Inv(b, n) ==
             /\ a.at <= b.at /\ (b.at <= n + 1 \/ b.at = a.at)
             /\ \A j \in 1..N :
                  /\ j < a.at => b.list[j] = a.list[j]
                  /\ a.at <= j /\ j < b.at => b.list[j] \in Y
                  /\ b.at <= j /\ j <= n => b.list[j] \notin Y
           I == [n \in 0..N |-> {b \in Marked(X) : Inv(b, n)}]
           Loops(f) == f = [i \in 0..N |-> IF i = 0 THEN a ELSE Body(f[i - 1], i)]
           f == CHOOSE f : Loops(f)
<1>1. /\ N \in Nat /\ a.list \in Orders(X) /\ Len(a.list) = N
      /\ \A b \in Marked(X) : b.list \in Orders(X) /\ b.at \in 1..(N + 1) /\ DOMAIN b.list = 1..N
  BY Lengths DEF Marked
<1>2. ToFront(a, Y) = f[N]
  BY <1>1 DEF ToFront
<1>3. a \in I[0]
  BY <1>1
<1>4. ASSUME NEW n \in 1..N, NEW b \in Marked(X), Inv(b, n - 1)
      PROVE  Body(b, n) \in Marked(X) /\ Inv(Body(b, n), n)
  <2>1. CASE b.list[n] \notin Y
    <3>1. Body(b, n) = b
      BY <2>1
    <3>2. \A j \in 1..N : b.at <= j /\ j <= n => b.list[j] \notin Y
      BY <1>4, <2>1
    <3>3. b.at <= n + 1 \/ b.at = a.at
      BY <1>1, <1>4
    <3> QED
      BY <1>4, <3>1, <3>2, <3>3
  <2>2. CASE b.list[n] \in Y
    <3> DEFINE l == Swapped(b.list, n, b.at)
    <3>1. a.at <= n
      BY <1>1, <1>4, <2>2
    <3>2. b.at <= n /\ b.at \in 1..N /\ a.at <= b.at
      BY <1>1, <1>4, <3>1
    <3>3. /\ l \in Orders(X) /\ l[b.at] = b.list[n] /\ (n # b.at => l[n] = b.list[b.at])
          /\ \A k \in 1..N : k # n /\ k # b.at => l[k] = b.list[k]
      <4>1. b.list \in Orders(X) /\ n \in DOMAIN b.list /\ b.at \in DOMAIN b.list
        BY <1>1, <3>2
      <4>2. ASSUME NEW h, NEW p, NEW t, h = b.list, p = b.at, t = l
            PROVE  /\ t \in Orders(X) /\ t[p] = h[n] /\ (n # p => t[n] = h[p])
                   /\ \A k \in DOMAIN h : k # n /\ k # p => t[k] = h[k]
        <5>1. h \in Orders(X) /\ n \in DOMAIN h /\ p \in DOMAIN h /\ t = Swapped(h, n, p)
          BY <4>1, <4>2
        <5> QED
          BY <5>1, SwapKeeps
      <4> QED
        BY <1>1, <4>2
    <3>4. Body(b, n) = [list |-> l, at |-> b.at + 1]
      BY <2>2
    <3> HIDE DEF l
    <3>5. Body(b, n) \in Marked(X)
      BY <1>1, <3>2, <3>3, <3>4 DEF Marked
    <3>6. ASSUME NEW j \in 1..N
          PROVE  /\ j < a.at => l[j] = a.list[j]
                 /\ a.at <= j /\ j < b.at + 1 => l[j] \in Y
                 /\ b.at + 1 <= j /\ j <= n => l[j] \notin Y
      <4>1. CASE j < a.at
        BY <1>1, <1>4, <3>1, <3>2, <3>3, <4>1
      <4>2. CASE a.at <= j /\ j < b.at
        BY <1>1, <1>4, <3>1, <3>2, <3>3, <4>2
      <4>3. CASE j = b.at
        BY <1>1, <2>2, <3>2, <3>3, <4>3
      <4>4. CASE b.at < j /\ j < n
        <5>1. b.list[j] \notin Y /\ l[j] = b.list[j]
          BY <1>1, <1>4, <3>2, <3>3, <4>4
        <5> QED
          BY <1>1, <3>2, <4>4, <5>1
      <4>5. CASE b.at < j /\ j = n
        <5>1. b.list[b.at] \notin Y /\ l[j] = b.list[b.at]
          BY <1>1, <1>4, <3>2, <3>3, <4>5
        <5> QED
          BY <1>1, <3>2, <4>5, <5>1
      <4>6. CASE j > n
        BY <1>1, <3>1, <3>2, <4>6
      <4> QED
        BY <1>1, <3>2, <4>1, <4>2, <4>3, <4>4, <4>5, <4>6
    <3>7. Inv(Body(b, n), n)
      BY <1>1, <3>2, <3>4, <3>6
    <3> QED
      BY <3>5, <3>7
  <2> QED
    BY <2>1, <2>2
<1> HIDE DEF Inv, Body
<1>5. \A n \in 1..N : \A b \in I[n - 1] : b \in Marked(X) /\ F[<<n, b>>] = Body(b, n) /\ Body(b, n) \in I[n]
  BY <1>1, <1>4
<1> HIDE DEF I, F
<1>6. \A n \in 1..N : \A b \in I[n - 1] : F[<<n, b>>] \in I[n]
  BY <1>5
<1>7. Loops(f)
  <2>1. PICK g : /\ g = [n \in 0..N |-> g[n]] /\ Rounds(g, N, a, F)
                 /\ \A n \in 0..N : g[n] \in I[n]
    BY <1>1, <1>3, <1>6, Loop
  <2>2. ASSUME NEW n \in 0..N
        PROVE  g[n] = IF n = 0 THEN a ELSE Body(g[n - 1], n)
    <3>1. n # 0 => n \in 1..N /\ n - 1 \in 0..N
      BY <1>1
    <3> QED
      BY <1>5, <2>1, <3>1 DEF Rounds
  <2>3. g = [n \in 0..N |-> IF n = 0 THEN a ELSE Body(g[n - 1], n)]
    BY <2>1, <2>2
  <2> QED
    BY <2>3
<1>8. f[0] = a /\ \A n \in 1..N : f[n] = Body(f[n - 1], n)
  <2> HIDE DEF f
  <2>1. \A n \in 0..N : f[n] = IF n = 0 THEN a ELSE Body(f[n - 1], n)
    BY <1>7
  <2> QED
    BY <1>1, <2>1
<1> HIDE DEF f
<1>9. \A n \in 0..N : f[n] \in I[n]
  <2>1. f[0] = a /\ \A n \in 1..N : f[n - 1] \in I[n - 1] => f[n] = F[<<n, f[n - 1]>>]
    BY <1>5, <1>8
  <2> DEFINE M == N
  <2>2. /\ M \in Nat /\ f[0] \in I[0] /\ \A n \in 1..M : \A b \in I[n - 1] : F[<<n, b>>] \in I[n]
        /\ \A n \in 1..M : f[n - 1] \in I[n - 1] => f[n] = F[<<n, f[n - 1]>>]
    BY <1>1, <1>3, <1>6, <1>8, <2>1
  <2> HIDE DEF M
  <2>3. \A n \in 0..M : f[n] \in I[n]
    BY <2>2, Kept
  <2> QED
    BY <2>3 DEF M
<1>10. f[N] \in Marked(X) /\ Inv(f[N], N)
  BY <1>1, <1>9 DEF I
<1> QED
  BY <1>1, <1>2, <1>10 DEF Inv

LEMMA BackPass ==
  ASSUME NEW X, IsFiniteSet(X), NEW l \in Orders(X)
  PROVE  DeprecatedBack(l) \in Orders(X)
<1> DEFINE N == Cardinality(X)
           States == [list : Orders(X), last : 0..N]
           Body(b, n) == IF n < b.last /\ b.list[n] \in Deprecated
                           THEN [list |-> Swapped(b.list, n, b.last), last |-> b.last - 1] ELSE b
           F == [q \in (1..N) \X States |-> Body(q[2], q[1])]
           I == [n \in 0..N |-> States]
           first == [list |-> l, last |-> N]
           Loops(f) == f = [i \in 0..N |-> IF i = 0 THEN first ELSE Body(f[i - 1], i)]
           f == CHOOSE f : Loops(f)
<1>1. /\ N \in Nat /\ Len(l) = N
      /\ \A b \in States : b.list \in Orders(X) /\ b.last \in 0..N /\ DOMAIN b.list = 1..N
  BY Lengths
<1>2. DeprecatedBack(l) = f[N].list
  BY <1>1 DEF DeprecatedBack
<1>3. first \in I[0]
  BY <1>1
<1>4. ASSUME NEW n \in 1..N, NEW b \in States
      PROVE  Body(b, n) \in States
  <2>1. CASE ~(n < b.last /\ b.list[n] \in Deprecated)
    BY <2>1
  <2>2. CASE n < b.last /\ b.list[n] \in Deprecated
    <3>1. /\ b.list \in Orders(X) /\ b.last \in 1..N /\ b.last - 1 \in 0..N
          /\ n \in DOMAIN b.list /\ b.last \in DOMAIN b.list
      BY <1>1, <2>2
    <3>2. ASSUME NEW h, NEW p, NEW t, h = b.list, p = b.last, t = Swapped(b.list, n, b.last)
          PROVE  t \in Orders(X)
      <4>1. h \in Orders(X) /\ n \in DOMAIN h /\ p \in DOMAIN h /\ t = Swapped(h, n, p)
        BY <3>1, <3>2
      <4> QED
        BY <4>1, SwapKeeps
    <3>3. Swapped(b.list, n, b.last) \in Orders(X)
      BY <3>2
    <3> QED
      BY <2>2, <3>1, <3>3
  <2> QED
    BY <2>1, <2>2
<1> HIDE DEF Body, States, first
<1>5. \A n \in 1..N : \A b \in I[n - 1] : b \in States /\ F[<<n, b>>] = Body(b, n) /\ Body(b, n) \in I[n]
  BY <1>1, <1>4
<1> HIDE DEF I, F
<1>6. \A n \in 1..N : \A b \in I[n - 1] : F[<<n, b>>] \in I[n]
  BY <1>5
<1>7. Loops(f)
  <2>1. PICK g : /\ g = [n \in 0..N |-> g[n]] /\ Rounds(g, N, first, F)
                 /\ \A n \in 0..N : g[n] \in I[n]
    BY <1>1, <1>3, <1>6, Loop
  <2>2. ASSUME NEW n \in 0..N
        PROVE  g[n] = IF n = 0 THEN first ELSE Body(g[n - 1], n)
    <3>1. n # 0 => n \in 1..N /\ n - 1 \in 0..N
      BY <1>1
    <3> QED
      BY <1>5, <2>1, <3>1 DEF Rounds
  <2>3. g = [n \in 0..N |-> IF n = 0 THEN first ELSE Body(g[n - 1], n)]
    BY <2>1, <2>2
  <2> QED
    BY <2>3
<1>8. f[0] = first /\ \A n \in 1..N : f[n] = Body(f[n - 1], n)
  <2> HIDE DEF f
  <2>1. \A n \in 0..N : f[n] = IF n = 0 THEN first ELSE Body(f[n - 1], n)
    BY <1>7
  <2> QED
    BY <1>1, <2>1
<1> HIDE DEF f
<1>9. \A n \in 0..N : f[n] \in I[n]
  <2>1. f[0] = first /\ \A n \in 1..N : f[n - 1] \in I[n - 1] => f[n] = F[<<n, f[n - 1]>>]
    BY <1>5, <1>8
  <2> DEFINE M == N
  <2>2. /\ M \in Nat /\ f[0] \in I[0] /\ \A n \in 1..M : \A b \in I[n - 1] : F[<<n, b>>] \in I[n]
        /\ \A n \in 1..M : f[n - 1] \in I[n - 1] => f[n] = F[<<n, f[n - 1]>>]
    BY <1>1, <1>3, <1>6, <1>8, <2>1
  <2> HIDE DEF M
  <2>3. \A n \in 0..M : f[n] \in I[n]
    BY <2>2, Kept
  <2> QED
    BY <2>3 DEF M
<1>10. f[N] \in States
  BY <1>1, <1>9 DEF I
<1> QED
  BY <1>2, <1>10 DEF States

LEMMA PreferPass ==
  ASSUME NEW X, IsFiniteSet(X), NEW l \in Orders(X), NEW n, Prefer[n] \in Seq(Mods),
         \A i, j \in DOMAIN Prefer[n] : Prefer[n][i] = Prefer[n][j] => i = j
  PROVE  Preferred(l, n) \in Orders(X)
<1> DEFINE N == Len(Prefer[n])
           C == Cardinality(X)
           Body(b, k) == ToFront(b, {Prefer[n][k]})
           Inv(b, k) == \A j \in 1..C : j < b.at => \E i \in 1..k : b.list[j] = Prefer[n][i]
           F == [q \in (1..N) \X Marked(X) |-> Body(q[2], q[1])]
           I == [k \in 0..N |-> {b \in Marked(X) : Inv(b, k)}]
           first == [list |-> l, at |-> 1]
           Loops(f) == f = [i \in 0..N |-> IF i = 0 THEN first ELSE Body(f[i - 1], i)]
           f == CHOOSE f : Loops(f)
<1>1. N \in Nat /\ DOMAIN Prefer[n] = 1..N /\ C \in Nat
  BY LenProperties, FS_CardinalityType
<1>2. Preferred(l, n) = f[N].list
  BY DEF Preferred
<1>3. first \in I[0]
  BY <1>1 DEF Marked
<1>4. ASSUME NEW k \in 1..N, NEW b \in Marked(X), Inv(b, k - 1)
      PROVE  Body(b, k) \in Marked(X) /\ Inv(Body(b, k), k)
  <2> DEFINE Y == {Prefer[n][k]}
  <2>1. \A j \in 1 .. Cardinality(X) : j < b.at => b.list[j] \notin Y
    <3> TAKE j \in 1 .. Cardinality(X)
    <3> HAVE j < b.at
    <3>1. PICK i \in 1..(k - 1) : b.list[j] = Prefer[n][i]
      BY <1>4
    <3>2. i \in 1..N /\ i # k
      BY <1>1
    <3> QED
      BY <1>1, <3>1, <3>2
  <2> HIDE DEF Y
  <2>2. /\ ToFront(b, Y) \in Marked(X) /\ b.at <= ToFront(b, Y).at
        /\ \A j \in 1 .. Cardinality(X) :
             /\ j < b.at => ToFront(b, Y).list[j] = b.list[j]
             /\ b.at <= j /\ j < ToFront(b, Y).at => ToFront(b, Y).list[j] \in Y
    BY <2>1, FrontPass
  <2> DEFINE c == ToFront(b, Y)
  <2>3. c = Body(b, k)
    BY DEF Y
  <2>4. c \in Marked(X) /\ c.at \in Nat /\ b.at \in Nat
    BY <1>1, <2>2 DEF Marked
  <2>5. /\ \A j \in 1..C : j < b.at => c.list[j] = b.list[j]
        /\ \A j \in 1..C : b.at <= j /\ j < c.at => c.list[j] \in Y
    BY <2>2
  <2> HIDE DEF c, Body
  <2>6. ASSUME NEW j \in 1..C, j < c.at
        PROVE  \E i \in 1..k : c.list[j] = Prefer[n][i]
    <3>1. CASE j < b.at
      <4>1. PICK i \in 1..(k - 1) : b.list[j] = Prefer[n][i]
        BY <1>4, <3>1
      <4>2. i \in 1..k
        BY <1>1
      <4> QED
        BY <2>5, <3>1, <4>1, <4>2
    <3>2. CASE b.at <= j
      <4>1. c.list[j] = Prefer[n][k] /\ k \in 1..k
        BY <1>1, <2>5, <2>6, <3>2 DEF Y
      <4> QED
        BY <4>1
    <3> QED
      BY <2>4, <3>1, <3>2
  <2> QED
    BY <2>3, <2>4, <2>6
<1> HIDE DEF Body, Inv, first
<1>5. \A k \in 1..N : \A b \in I[k - 1] : b \in Marked(X) /\ F[<<k, b>>] = Body(b, k) /\ Body(b, k) \in I[k]
  BY <1>1, <1>4
<1> HIDE DEF I, F
<1>6. \A k \in 1..N : \A b \in I[k - 1] : F[<<k, b>>] \in I[k]
  BY <1>5
<1>7. Loops(f)
  <2>1. PICK g : /\ g = [k \in 0..N |-> g[k]] /\ Rounds(g, N, first, F)
                 /\ \A k \in 0..N : g[k] \in I[k]
    <3> DEFINE M == N
    <3>1. /\ M \in Nat /\ first \in I[0]
          /\ \A k \in 1..M : \A b \in I[k - 1] : F[<<k, b>>] \in I[k]
      BY <1>1, <1>3, <1>6
    <3> HIDE DEF M
    <3>2. \E g : /\ g = [k \in 0..M |-> g[k]] /\ Rounds(g, M, first, F)
                 /\ \A k \in 0..M : g[k] \in I[k]
      BY <3>1, Loop
    <3> QED
      BY <3>2 DEF M
  <2>2. ASSUME NEW k \in 0..N
        PROVE  g[k] = IF k = 0 THEN first ELSE Body(g[k - 1], k)
    <3>1. k # 0 => k \in 1..N /\ k - 1 \in 0..N
      BY <1>1
    <3> QED
      BY <1>5, <2>1, <3>1 DEF Rounds
  <2>3. g = [k \in 0..N |-> IF k = 0 THEN first ELSE Body(g[k - 1], k)]
    BY <2>1, <2>2
  <2> QED
    BY <2>3
<1>8. f[0] = first /\ \A k \in 1..N : f[k] = Body(f[k - 1], k)
  <2> HIDE DEF f
  <2>1. \A k \in 0..N : f[k] = IF k = 0 THEN first ELSE Body(f[k - 1], k)
    BY <1>7
  <2> QED
    BY <1>1, <2>1
<1> HIDE DEF f
<1>9. \A k \in 0..N : f[k] \in I[k]
  <2>1. f[0] = first /\ \A k \in 1..N : f[k - 1] \in I[k - 1] => f[k] = F[<<k, f[k - 1]>>]
    BY <1>5, <1>8
  <2> DEFINE M == N
  <2>2. /\ M \in Nat /\ f[0] \in I[0] /\ \A k \in 1..M : \A b \in I[k - 1] : F[<<k, b>>] \in I[k]
        /\ \A k \in 1..M : f[k - 1] \in I[k - 1] => f[k] = F[<<k, f[k - 1]>>]
    BY <1>1, <1>3, <1>6, <1>8, <2>1
  <2> HIDE DEF M
  <2>3. \A k \in 0..M : f[k] \in I[k]
    BY <2>2, Kept
  <2> QED
    BY <2>3 DEF M
<1>10. f[N] \in Marked(X)
  <2>1. N \in 0..N
    BY <1>1
  <2>2. f[N] \in I[N]
    BY <1>9, <2>1
  <2> QED
    BY <2>1, <2>2 DEF I
<1> QED
  BY <1>2, <1>10 DEF Marked

\* What is requested heads a sorted list.
LEMMA SortedFronts ==
  ASSUME NEW n \in Names, PreferencesAssumption,
         NEW X, IsFiniteSet(X), NEW l \in Orders(X)
  PROVE  /\ Sorted(l, n) \in Orders(X)
         /\ \E k \in 0 .. Cardinality(X) :
              \A j \in 1 .. Cardinality(X) : Sorted(l, n)[j] \in requested <=> j <= k
<1> DEFINE p == Preferred(DeprecatedBack(l), n)
           a == [list |-> p, at |-> 1]
           q == InFront(p, Indirect)
           b == [list |-> q, at |-> 1]
           C == Cardinality(X)
<1>1. p \in Orders(X)
  BY BackPass, PreferPass DEF PreferencesAssumption
<1>2. C \in Nat
  BY FS_CardinalityType
<1> HIDE DEF p
<1>3. a \in Marked(X) /\ \A j \in 1 .. Cardinality(X) : j < a.at => a.list[j] \notin Indirect
  BY <1>1, <1>2 DEF Marked
<1>4. q = ToFront(a, Indirect).list
  BY DEF InFront
<1>5. ToFront(a, Indirect) \in Marked(X)
  <2> HIDE DEF a
  <2> QED
    BY <1>3, FrontPass
<1>6. q \in Orders(X)
  BY <1>4, <1>5 DEF Marked
<1> HIDE DEF q
<1>7. b \in Marked(X) /\ \A j \in 1 .. Cardinality(X) : j < b.at => b.list[j] \notin requested
  BY <1>2, <1>6 DEF Marked
<1>8. Sorted(l, n) = ToFront(b, requested).list
  BY DEF Sorted, InFront, p, q
<1> DEFINE c == ToFront(b, requested)
<1>9. b.at = 1
  OBVIOUS
<1>10. /\ c \in Marked(X) /\ b.at <= c.at
       /\ \A j \in 1 .. Cardinality(X) :
            /\ b.at <= j /\ j < c.at => c.list[j] \in requested
            /\ c.at <= j => c.list[j] \notin requested
  <2> HIDE DEF b
  <2> QED
    BY <1>7, FrontPass
<1> HIDE DEF c, b
<1>11. c.at \in 1..(C + 1) /\ c.list \in Orders(X)
  BY <1>10 DEF Marked
<1>12. c.at - 1 \in 0..C /\ \A j \in 1..C : c.list[j] \in requested <=> j <= c.at - 1
  BY <1>2, <1>9, <1>10, <1>11
<1> QED
  BY <1>8, <1>11, <1>12 DEF c

-----------------------------------------------------------------------------
\* The candidates in the order of the module list.

\* The numbers of a finite set, counted from the least.
Rank(S, k) == Cardinality({l \in S : l <= k})

LEMMA Ranks ==
  ASSUME NEW S \in SUBSET Nat, IsFiniteSet(S)
  PROVE  /\ Cardinality(S) \in Nat
         /\ \A k \in S : Rank(S, k) \in 1 .. Cardinality(S)
         /\ \A j, k \in S : j < k => Rank(S, j) < Rank(S, k)
         /\ \A r \in 1 .. Cardinality(S) : \E k \in S : Rank(S, k) = r
<1> DEFINE Low(k) == {l \in S : l <= k}
           f == [k \in S |-> Rank(S, k)]
           C == Cardinality(S)
<1>1. C \in Nat
  BY FS_CardinalityType
<1>2. \A k \in S : IsFiniteSet(Low(k)) /\ Cardinality(Low(k)) \in Nat /\ Cardinality(Low(k)) <= C
  <2> TAKE k \in S
  <2>1. Low(k) \subseteq S
    OBVIOUS
  <2> HIDE DEF Low
  <2> QED
    BY <2>1, FS_Subset, FS_CardinalityType
<1>3. \A k \in S : Cardinality(Low(k)) # 0
  <2> TAKE k \in S
  <2>1. k \in Low(k)
    OBVIOUS
  <2> HIDE DEF Low
  <2> QED
    BY <1>2, <2>1, FS_EmptySet
<1>4. ASSUME NEW j \in S, NEW k \in S, j < k
      PROVE  Cardinality(Low(j)) < Cardinality(Low(k))
  <2>0. j \in Nat /\ k \in Nat /\ S \subseteq Nat
    OBVIOUS
  <2>1. Low(j) \subseteq Low(k) /\ k \in Low(k) /\ k \notin Low(j)
    <3>1. \A l \in Low(j) : l \in Low(k)
      BY <1>4, <2>0
    <3>2. k \in Low(k) /\ k \notin Low(j)
      BY <1>4, <2>0
    <3> QED
      BY <3>1, <3>2
  <2> HIDE DEF Low
  <2>2. Cardinality(Low(j)) <= Cardinality(Low(k))
    BY <1>2, <2>1, FS_Subset
  <2>3. Cardinality(Low(j)) # Cardinality(Low(k))
    BY <1>2, <2>1, FS_Subset
  <2> QED
    BY <1>2, <2>2, <2>3
<1>5. \A k \in S : f[k] = Cardinality(Low(k)) /\ f[k] \in 1..C
  BY <1>1, <1>2, <1>3 DEF Rank
<1>6. f \in [S -> 1..C]
  BY <1>5
<1>7. IsInjective(f)
  <2>1. \A j, k \in S : j # k => f[j] # f[k]
    <3> TAKE j, k \in S
    <3> HAVE j # k
    <3>1. j < k \/ k < j
      OBVIOUS
    <3>2. Cardinality(Low(j)) < Cardinality(Low(k)) \/ Cardinality(Low(k)) < Cardinality(Low(j))
      BY <1>4, <3>1
    <3> HIDE DEF Low, f
    <3>3. Cardinality(Low(j)) # Cardinality(Low(k))
      BY <1>2, <3>2
    <3> QED
      BY <1>5, <3>3
  <2> QED
    BY <2>1 DEF IsInjective
<1>8. \A r \in 1..C : \E k \in S : f[k] = r
  <2> HIDE DEF f
  <2>1. IsFiniteSet(1..C) /\ Cardinality(1..C) = C
    BY <1>1, FS_Interval
  <2>2. f \in Injection(S, 1..C)
    BY <1>6, <1>7 DEF Injection, IsInjective
  <2>3. f \in Surjection(S, 1..C)
    BY <2>1, <2>2, FS_Injection
  <2> QED
    BY <2>3 DEF Surjection
<1>9. \A k \in S : Rank(S, k) = f[k]
  OBVIOUS
<1>10. \A j, k \in S : j < k => f[j] < f[k]
  BY <1>4, <1>5
<1> HIDE DEF f
<1> QED
  BY <1>1, <1>5, <1>8, <1>9, <1>10

LEMMA CandidatesFinite ==
  ASSUME PreferencesAssumption, NEW n \in Names
  PROVE  CandidatesFor(n) \subseteq Mods /\ IsFiniteSet(CandidatesFor(n)) /\ CandidatesFor(n) # {}
<1>1. CandidatesFor(n) \subseteq Mods
  BY DEF CandidatesFor
<1> QED
  BY <1>1, FS_Subset DEF PreferencesAssumption

\* A list of a finite set has each member once.
LEMMA Once ==
  ASSUME NEW X, IsFiniteSet(X), NEW l \in Orders(X)
  PROVE  \A i, j \in DOMAIN l : l[i] = l[j] => i = j
<1> DEFINE C == Cardinality(X)
<1>1. C \in Nat /\ DOMAIN l = 1..C /\ l \in [1..C -> X] /\ \A x \in X : \E i \in 1..C : l[i] = x
  BY FS_CardinalityType DEF Orders
<1>2. IsFiniteSet(1..C) /\ Cardinality(1..C) = C
  BY <1>1, FS_Interval
<1>3. l \in Surjection(1..C, X)
  BY <1>1 DEF Surjection
<1>4. l \in Injection(1..C, X)
  BY <1>2, <1>3, FS_SurjSameCardinalityImpliesInj
<1> QED
  BY <1>1, <1>4 DEF Injection, IsInjective

LEMMA Listed1 ==
  ASSUME PreferencesAssumption, NEW n \in Names, NEW order \in Orders(Mods)
  PROVE  Listing(order, n) \in Orders(CandidatesFor(n))
<1> DEFINE X == CandidatesFor(n)
           P == {k \in DOMAIN order : order[k] \in X}
           Place(j) == CHOOSE k \in P : Cardinality({l \in P : l <= k}) = j
           g == [k \in P |-> order[k]]
<1>1. IsFiniteSet(Mods) /\ X \subseteq Mods
  BY CandidatesFinite DEF PreferencesAssumption
<1>2. /\ Cardinality(Mods) \in Nat /\ DOMAIN order = 1 .. Cardinality(Mods)
      /\ \A x \in Mods : \E k \in DOMAIN order : order[k] = x
      /\ \A j, k \in DOMAIN order : order[j] = order[k] => j = k
  BY <1>1, Once, FS_CardinalityType DEF Orders
<1>3. P \in SUBSET Nat /\ IsFiniteSet(P)
  <2>1. P \in SUBSET (1 .. Cardinality(Mods)) /\ P \in SUBSET Nat
    BY <1>2
  <2>2. IsFiniteSet(1 .. Cardinality(Mods))
    BY <1>2, FS_Interval
  <2> HIDE DEF P
  <2> QED
    BY <2>1, <2>2, FS_Subset
<1>4. Cardinality(X) = Cardinality(P)
  <2>1. g \in [P -> X] /\ (\A j, k \in P : g[j] = g[k] => j = k) /\ \A x \in X : \E k \in P : g[k] = x
    BY <1>1, <1>2
  <2> HIDE DEF g, P, X
  <2>2. g \in Bijection(P, X)
    BY <2>1 DEF Bijection, Injection, Surjection, IsInjective
  <2>3. ExistsBijection(P, X)
    BY <2>2 DEF ExistsBijection
  <2> QED
    BY <1>3, <2>3, FS_Bijection
<1>5. /\ \A k \in P : order[k] \in X
      /\ \A x \in X : \E k \in P : order[k] = x
  BY <1>1, <1>2
<1>6. Listing(order, n) = [j \in 1 .. Cardinality(X) |-> order[Place(j)]]
  BY DEF Listing
<1> HIDE DEF P, X
<1>7. /\ \A k \in P : Rank(P, k) \in 1 .. Cardinality(X)
      /\ \A j, k \in P : j < k => Rank(P, j) < Rank(P, k)
      /\ \A r \in 1 .. Cardinality(X) : \E k \in P : Rank(P, k) = r
      /\ Cardinality(X) \in Nat
  BY <1>3, <1>4, Ranks
<1>8. \A j, k \in P : Rank(P, j) = Rank(P, k) => j = k
  <2> TAKE j, k \in P
  <2> HAVE Rank(P, j) = Rank(P, k)
  <2>1. j \in Nat /\ k \in Nat /\ Rank(P, j) \in Nat /\ Rank(P, k) \in Nat
    BY <1>3, <1>7
  <2>2. ~(j < k) /\ ~(k < j)
    BY <1>7, <2>1
  <2> QED
    BY <2>1, <2>2
<1>9. \A j \in 1 .. Cardinality(X) : Place(j) \in P /\ Rank(P, Place(j)) = j
  <2> TAKE j \in 1 .. Cardinality(X)
  <2>1. \E k \in P : Cardinality({l \in P : l <= k}) = j
    BY <1>7 DEF Rank
  <2> QED
    BY <2>1 DEF Rank
<1> HIDE DEF Place
<1>10. \A x \in X : \E j \in 1 .. Cardinality(X) : order[Place(j)] = x
  <2> TAKE x \in X
  <2>1. PICK k \in P : order[k] = x
    BY <1>5
  <2>2. Rank(P, k) \in 1 .. Cardinality(X)
    BY <1>7
  <2>3. Place(Rank(P, k)) = k
    BY <1>8, <1>9, <2>2
  <2> QED
    BY <2>1, <2>2, <2>3
<1>11. \A j \in 1 .. Cardinality(X) : order[Place(j)] \in X
  BY <1>5, <1>9
<1> DEFINE s == [j \in 1 .. Cardinality(X) |-> order[Place(j)]]
<1>12. s \in [1 .. Cardinality(X) -> X] /\ \A x \in X : \E j \in DOMAIN s : s[j] = x
  BY <1>10, <1>11
<1>13. s \in Orders(X)
  BY <1>12 DEF Orders
<1> QED
  BY <1>6, <1>13 DEF X

-----------------------------------------------------------------------------
\* The invariant.  A module that was asked for is among the first of its list, which are
\* all requested.
Fronted(n) ==
  \E k \in 0 .. Cardinality(CandidatesFor(n)) :
    /\ \A j \in 1..k : lists[n][j] \in requested
    /\ \A a \in asked[n] : \E j \in 1..k : lists[n][j] = a

WalkPlaces ==
  \A n \in Names :
    /\ asked[n] \subseteq CandidatesFor(n) \cap requested
    /\ WalkAt(n, "run") \/ WalkAt(n, "rotate") => walking[n].current \in CandidatesFor(n)
    /\ WalkAt(n, "stop") => walking[n].current \in CandidatesFor(n)
    /\ WalkAt(n, "rotate") => walking[n].current \notin asked[n]

PrefInv == PreferencesTypeOK /\ WalkPlaces /\ ChosenFirst /\ \A n \in Names : Fronted(n)

\* After a sort every list is in order.
LEMMA FrontedSort ==
  ASSUME PreferencesAssumption, NEW n \in Names,
         NEW l \in Orders(CandidatesFor(n)), NEW A, A \subseteq CandidatesFor(n) \cap requested
  PROVE  /\ Sorted(l, n) \in Orders(CandidatesFor(n))
         /\ \E k \in 0 .. Cardinality(CandidatesFor(n)) :
              /\ \A j \in 1..k : Sorted(l, n)[j] \in requested
              /\ \A a \in A : \E j \in 1..k : Sorted(l, n)[j] = a
<1> DEFINE X == CandidatesFor(n)
           s == Sorted(l, n)
<1>1. IsFiniteSet(X) /\ Cardinality(X) \in Nat
  BY CandidatesFinite, FS_CardinalityType
<1>2. s \in Orders(X) /\ \E k \in 0 .. Cardinality(X) :
                           \A j \in 1 .. Cardinality(X) : s[j] \in requested <=> j <= k
  BY <1>1, SortedFronts
<1> HIDE DEF s, X
<1>3. PICK k \in 0 .. Cardinality(X) :
             \A j \in 1 .. Cardinality(X) : s[j] \in requested <=> j <= k
  BY <1>2
<1>4. \A j \in 1..k : s[j] \in requested
  BY <1>1, <1>3
<1>5. \A a \in A : \E j \in 1..k : s[j] = a
  <2> TAKE a \in A
  <2>1. a \in X /\ a \in requested
    BY DEF X
  <2>2. PICK j \in 1 .. Cardinality(X) : s[j] = a
    BY <1>2, <2>1 DEF Orders
  <2>3. j \in 1..k
    BY <1>1, <1>3, <2>1, <2>2
  <2> QED
    BY <2>2, <2>3
<1> QED
  BY <1>2, <1>4, <1>5 DEF s, X

\* A list of candidates is a list of modules, and not empty.
LEMMA OrderHead ==
  ASSUME PreferencesAssumption, NEW n \in Names, NEW l \in Orders(CandidatesFor(n))
  PROVE  /\ l \in Seq(Mods) /\ l # << >> /\ Len(l) = Cardinality(CandidatesFor(n))
         /\ Cardinality(CandidatesFor(n)) \in Nat \ {0}
         /\ l[1] \in CandidatesFor(n) /\ l[1] \in Mods
<1> DEFINE X == CandidatesFor(n)
<1>1. X \subseteq Mods /\ IsFiniteSet(X) /\ X # {}
  BY CandidatesFinite
<1> HIDE DEF X
<1>2. /\ Cardinality(X) \in Nat /\ Len(l) = Cardinality(X) /\ DOMAIN l = 1 .. Cardinality(X)
      /\ l \in Seq(X)
  BY <1>1, Lengths DEF X
<1>3. Cardinality(X) # 0
  BY <1>1, FS_EmptySet
<1>4. l \in Seq(Mods)
  BY <1>1, <1>2
<1>5. 1 \in DOMAIN l
  BY <1>2, <1>3
<1>6. l[1] \in X
  BY <1>2, <1>5, ElementOfSeq
<1> QED
  BY <1>1, <1>2, <1>3, <1>4, <1>6, EmptySeq DEF X

\* Rotating a list keeps the rest in order.
LEMMA Rotated ==
  ASSUME PreferencesAssumption, NEW n \in Names, NEW l \in Orders(CandidatesFor(n))
  PROVE  LET s == Append(Tail(l), Head(l))
             N == Cardinality(CandidatesFor(n))
         IN s \in Orders(CandidatesFor(n)) /\ \A j \in 1..(N - 1) : s[j] = l[j + 1]
<1> DEFINE X == CandidatesFor(n)
           N == Cardinality(X)
           s == Append(Tail(l), Head(l))
<1>1. l \in Seq(Mods) /\ l # << >> /\ Len(l) = N /\ N \in Nat \ {0} /\ Head(l) = l[1]
  BY OrderHead
<1>2. l \in [1..N -> X] /\ \A x \in X : \E i \in 1..N : l[i] = x
  BY DEF Orders
<1> HIDE DEF X, N
<1>3. Tail(l) \in Seq(Mods) /\ Len(Tail(l)) = N - 1 /\ \A j \in 1..(N - 1) : Tail(l)[j] = l[j + 1]
  BY <1>1, HeadTailProperties
<1>4. Head(l) \in Mods
  BY <1>1, HeadTailProperties
<1>5. /\ s \in Seq(Mods) /\ Len(s) = N /\ s[N] = l[1]
      /\ \A j \in 1..(N - 1) : s[j] = l[j + 1]
  BY <1>1, <1>3, <1>4, AppendProperties
<1> HIDE DEF s
<1>6. s \in [1..N -> Mods]
  BY <1>1, <1>5
<1>7. \A j \in 1..N : s[j] \in X
  <2> TAKE j \in 1..N
  <2>1. CASE j = N
    BY <1>1, <1>2, <1>5, <2>1
  <2>2. CASE j # N
    <3>1. j \in 1..(N - 1) /\ j + 1 \in 1..N
      BY <1>1, <2>2
    <3> QED
      BY <1>2, <1>5, <3>1
  <2> QED
    BY <2>1, <2>2
<1>8. \A x \in X : \E j \in 1..N : s[j] = x
  <2> TAKE x \in X
  <2>1. PICK i \in 1..N : l[i] = x
    BY <1>2
  <2>2. CASE i = 1
    <3>1. N \in 1..N /\ s[N] = x
      BY <1>1, <1>5, <2>1, <2>2
    <3> QED
      BY <3>1
  <2>3. CASE i # 1
    <3>1. i - 1 \in 1..(N - 1) /\ i - 1 \in 1..N /\ (i - 1) + 1 = i
      BY <1>1, <2>3
    <3> QED
      BY <1>5, <2>1, <3>1
  <2> QED
    BY <2>2, <2>3
<1>9. s \in [1..N -> X] /\ DOMAIN s = 1..N
  BY <1>6, <1>7
<1> QED
  BY <1>5, <1>8, <1>9 DEF Orders, X, N, s

\* The type invariant, but for the lists.
WalkStates ==
  [at : {"none", "look", "run", "rotate", "test", "lower", "stop", "stopped", "turn", "back"},
   first : Mods \cup {"none"}, current : Mods \cup {"none"}]

OtherTypes ==
  /\ goals \in [enable : SUBSET Names, disable : SUBSET Names]
  /\ wishes \cup unwanted \cup unusable \cup recent \cup stopped \subseteq Names
  /\ sorting \cup awaited \subseteq Wishes
  /\ running \cup failed \subseteq Mods
  /\ asked \in [Names -> SUBSET Mods]
  /\ walking \in [Names -> WalkStates]
  /\ commits \in 0 .. MaxCommits

ListTypes == lists = [n \in Names |-> lists[n]] /\ \A n \in Names : lists[n] \in Orders(CandidatesFor(n))

LEMMA TypesOf ==
  ASSUME PreferencesAssumption
  PROVE  PreferencesTypeOK <=> ListTypes /\ OtherTypes
<1>1. ASSUME ListTypes PROVE lists \in [Names -> Seq(Mods)]
  <2>1. \A n \in Names : lists[n] \in Seq(Mods)
    BY <1>1, OrderHead DEF ListTypes
  <2> QED
    BY <1>1, <2>1 DEF ListTypes
<1> QED
  BY <1>1 DEF PreferencesTypeOK, ListTypes, OtherTypes, WalkStates

\* What is on the lists and provided.
LEMMA Named ==
  ASSUME PreferencesAssumption, NEW n \in Names
  PROVE  CandidatesFor(n) \subseteq Mods /\ Mods \subseteq Names
BY CandidatesFinite DEF Names

LEMMA ListsSame ==
  ASSUME PreferencesAssumption, PrefInv, lists' = lists, OtherTypes'
  PROVE  PreferencesTypeOK'
<1>1. ListTypes
  BY TypesOf DEF PrefInv
<1>2. ListTypes'
  BY <1>1 DEF ListTypes, Orders, CandidatesFor, Names
<1>3. ListTypes' /\ OtherTypes' => PreferencesTypeOK'
  BY TypesOf, PTL
<1> QED
  BY <1>2, <1>3

LEMMA PrefInit ==
  ASSUME PreferencesAssumption, PreferencesInit
  PROVE  PrefInv
<1> USE DEF PreferencesInit
<1>1. PICK order \in Orders(Mods) : lists = [n \in Names |-> Sorted(Listing(order, n), n)]
  OBVIOUS
<1>2. ASSUME NEW n \in Names
      PROVE  /\ lists[n] \in Orders(CandidatesFor(n)) /\ Fronted(n)
             /\ Cardinality(CandidatesFor(n)) \in Nat
  <2>1. Listing(order, n) \in Orders(CandidatesFor(n))
    BY Listed1
  <2> DEFINE l == Listing(order, n)
  <2>2. l \in Orders(CandidatesFor(n))
    BY <2>1
  <2> HIDE DEF l
  <2>3. Sorted(l, n) \in Orders(CandidatesFor(n))
    BY <2>2, CandidatesFinite, SortedFronts
  <2>4. lists[n] = Sorted(l, n)
    BY <1>1 DEF l
  <2>5. Cardinality(CandidatesFor(n)) \in Nat
    BY CandidatesFinite, FS_CardinalityType
  <2>6. Fronted(n)
    BY <2>5 DEF Fronted
  <2> QED
    BY <2>3, <2>4, <2>5, <2>6
<1>3. ListTypes
  BY <1>1, <1>2 DEF ListTypes
<1>4. OtherTypes
  BY DEF OtherTypes, NoWalk, PreferencesAssumption, WalkStates
<1>5. WalkPlaces /\ ChosenFirst
  BY DEF WalkPlaces, ChosenFirst, WalkAt, NoWalk
<1> QED
  BY <1>2, <1>3, <1>4, <1>5, TypesOf DEF PrefInv

\* Where neither a list nor a walk changes: a wish for a name is kept or dropped, and what
\* is requested for the name stays so if it is kept.
Held(n) ==
  \/ asked'[n] = {}
  \/ asked'[n] = asked[n] /\ CandidatesFor(n) \cap requested \subseteq requested'

LEMMA HeldFronts ==
  ASSUME PreferencesAssumption, PrefInv, NEW n \in Names, Held(n), lists'[n] = lists[n]
  PROVE  Fronted(n)'
<1> DEFINE X == CandidatesFor(n)
           l == lists[n]
<1>1. l \in Orders(X) /\ Cardinality(X) \in Nat
  BY CandidatesFinite, FS_CardinalityType DEF PrefInv, PreferencesTypeOK
<1>2. \A j \in 1 .. Cardinality(X) : l[j] \in X
  BY <1>1 DEF Orders
<1>3. X' = X
  BY DEF CandidatesFor
<1>4. CASE asked'[n] = {}
  <2>1. 0 \in 0 .. Cardinality(X) /\ \A j \in 1..0 : FALSE
    BY <1>1
  <2> QED
    BY <1>3, <1>4, <2>1 DEF Fronted
<1>5. CASE asked'[n] # {}
  <2>1. PICK k \in 0 .. Cardinality(X) : /\ \A j \in 1..k : l[j] \in requested
                                         /\ \A a \in asked[n] : \E j \in 1..k : l[j] = a
    BY DEF PrefInv, Fronted
  <2>2. \A j \in 1..k : l[j] \in X
    BY <1>1, <1>2
  <2>3. asked'[n] = asked[n] /\ X \cap requested \subseteq requested'
    BY <1>5 DEF Held
  <2> HIDE DEF X, l
  <2>4. \A j \in 1..k : l[j] \in requested'
    BY <2>1, <2>2, <2>3
  <2>5. /\ \A j \in 1..k : lists'[n][j] \in requested'
        /\ \A a \in asked'[n] : \E j \in 1..k : lists'[n][j] = a
    BY <2>1, <2>3, <2>4 DEF l
  <2> QED
    BY <1>3, <2>5 DEF Fronted, X
<1> QED
  BY <1>4, <1>5

LEMMA StillKept ==
  ASSUME PreferencesAssumption, PrefInv, UNCHANGED <<lists, walking>>, OtherTypes',
         \A n \in Names : Held(n)
  PROVE  PrefInv'
<1>1. \A n \in Names : (CandidatesFor(n))' = CandidatesFor(n)
  BY DEF CandidatesFor
<1>2. ASSUME NEW n \in Names
      PROVE  /\ asked'[n] \subseteq CandidatesFor(n) \cap requested'
             /\ WalkAt(n, "run")' /\ asked'[n] # {} => walking'[n].current \in requested'
             /\ WalkAt(n, "run")' \/ WalkAt(n, "rotate")' => walking'[n].current \in CandidatesFor(n)
             /\ WalkAt(n, "stop")' => walking'[n].current \in CandidatesFor(n)
             /\ WalkAt(n, "rotate")' => walking'[n].current \notin asked'[n]
  <2>1. /\ asked[n] \subseteq CandidatesFor(n) \cap requested
        /\ WalkAt(n, "run") /\ asked[n] # {} => walking[n].current \in requested
        /\ WalkAt(n, "run") \/ WalkAt(n, "rotate") => walking[n].current \in CandidatesFor(n)
        /\ WalkAt(n, "stop") => walking[n].current \in CandidatesFor(n)
        /\ WalkAt(n, "rotate") => walking[n].current \notin asked[n]
    BY DEF PrefInv, WalkPlaces, ChosenFirst
  <2>2. walking' = walking /\ Held(n)
    OBVIOUS
  <2> QED
    BY <2>1, <2>2 DEF Held, WalkAt
<1>3. WalkPlaces' /\ ChosenFirst'
  <2>1. \A n \in Names : asked'[n] \subseteq (CandidatesFor(n))' \cap requested'
    BY <1>1, <1>2
  <2> QED
    BY <1>1, <1>2, <2>1 DEF WalkPlaces, ChosenFirst
<1>4. \A n \in Names : Fronted(n)'
  BY HeldFronts
<1>5. PreferencesTypeOK'
  BY ListsSame
<1> QED
  BY <1>3, <1>4, <1>5 DEF PrefInv

LEMMA OthersOf ==
  ASSUME PreferencesAssumption, PrefInv
  PROVE  OtherTypes
BY TypesOf DEF PrefInv

LEMMA PrefCommit ==
  ASSUME PreferencesAssumption, PrefInv, CommitWish
  PROVE  PrefInv'
<1>1. PICK w \in Wishes \ (sorting \cup awaited) :
        LET g == Crossed(w, goals)
            q == Crossed(g, [enable |-> wishes, disable |-> unwanted])
        IN /\ goals' = g
           /\ wishes' = {n \in q.enable : ~InTable(n)}
           /\ unwanted' = {n \in q.disable : InTable(n)}
           /\ sorting' = sorting \cup {w}
  BY DEF CommitWish
<1>2. /\ commits < MaxCommits /\ commits' = commits + 1
      /\ UNCHANGED <<lists, awaited, unusable, recent, running, walking, stopped, asked, failed>>
  BY DEF CommitWish, prefwalks
<1>3. w \in [enable : SUBSET Names, disable : SUBSET Names] /\ MaxCommits \in Nat /\ w \in Wishes
  BY DEF PreferencesAssumption
<1>4. OtherTypes
  BY OthersOf
<1>5. /\ goals' = [enable |-> (goals.enable \cup w.enable) \ w.disable,
                   disable |-> (goals.disable \ w.enable) \cup w.disable]
      /\ wishes' \subseteq wishes \cup goals'.enable /\ unwanted' \subseteq unwanted \cup goals'.disable
      /\ sorting' = sorting \cup {w}
  BY <1>1 DEF Crossed
<1>6. goals' \in [enable : SUBSET Names, disable : SUBSET Names]
  BY <1>3, <1>4, <1>5 DEF OtherTypes
<1>7. OtherTypes'
  BY <1>2, <1>3, <1>4, <1>5, <1>6 DEF OtherTypes
<1>8. requested \subseteq requested'
  BY <1>5 DEF requested
<1>9. \A n \in Names : Held(n)
  BY <1>2, <1>8 DEF Held
<1> QED
  BY <1>2, <1>7, <1>9, StillKept

LEMMA PrefAwait ==
  ASSUME PreferencesAssumption, PrefInv, AwaitWish
  PROVE  PrefInv'
<1>1. /\ UNCHANGED <<lists, goals, sorting, commits, wishes, running, walking, stopped, asked, failed>>
      /\ awaited' \subseteq awaited /\ unusable' \subseteq unusable /\ recent' \subseteq recent
      /\ unwanted' \subseteq unwanted \cup Names
  BY DEF AwaitWish, prefwalks
<1>2. OtherTypes'
  BY <1>1, OthersOf DEF OtherTypes
<1>3. requested' = requested
  BY <1>1 DEF requested
<1>4. \A n \in Names : Held(n)
  BY <1>1, <1>3 DEF Held
<1> QED
  BY <1>1, <1>2, <1>4, StillKept

LEMMA PrefZap ==
  ASSUME PreferencesAssumption, PrefInv, NEW x \in Names, ZapName(x)
  PROVE  PrefInv'
<1>1. /\ commits < MaxCommits /\ commits' = commits + 1
      /\ goals' = [enable |-> goals.enable \ {x}, disable |-> goals.disable \ {x}]
      /\ wishes' \subseteq wishes /\ unwanted' \subseteq unwanted /\ running' \subseteq running
      /\ recent' = recent \cup UNION {Provides[m] : m \in CandidatesFor(x)}
      /\ asked' = [n \in Names |-> IF x \in CandidatesFor(n) THEN {} ELSE asked[n]]
      /\ UNCHANGED <<lists, sorting, awaited, unusable, walking, stopped, failed>>
  BY DEF ZapName
<1>2. OtherTypes /\ MaxCommits \in Nat
  BY OthersOf DEF PreferencesAssumption
<1>3. \A m \in Mods : Provides[m] \subseteq Names
  BY DEF PreferencesAssumption
<1>4. recent' \subseteq Names
  BY <1>1, <1>2, <1>3, Named DEF OtherTypes
<1>5. goals' \in [enable : SUBSET Names, disable : SUBSET Names]
  BY <1>1, <1>2 DEF OtherTypes
<1>6. asked' \in [Names -> SUBSET Mods]
  BY <1>1, <1>2 DEF OtherTypes
<1>7. OtherTypes'
  BY <1>1, <1>2, <1>4, <1>5, <1>6 DEF OtherTypes
<1>8. requested \ {x} \subseteq requested'
  BY <1>1 DEF requested
<1>9. \A n \in Names : Held(n)
  BY <1>1, <1>8 DEF Held
<1> QED
  BY <1>1, <1>7, <1>9, StillKept

\* After a sort, and after the module list has been read, the lists are in order.
LEMMA SortKept ==
  ASSUME PreferencesAssumption, NEW n \in Names, NEW l \in Orders(CandidatesFor(n)),
         requested' = requested, lists'[n] = Sorted(l, n),
         asked'[n] \subseteq CandidatesFor(n) \cap requested
  PROVE  lists'[n] \in Orders(CandidatesFor(n)) /\ Fronted(n)'
<1> DEFINE A == asked'[n]
<1>1. /\ Sorted(l, n) \in Orders(CandidatesFor(n))
      /\ \E k \in 0 .. Cardinality(CandidatesFor(n)) :
           /\ \A j \in 1..k : Sorted(l, n)[j] \in requested
           /\ \A a \in A : \E j \in 1..k : Sorted(l, n)[j] = a
  <2>1. A \subseteq CandidatesFor(n) \cap requested
    OBVIOUS
  <2> HIDE DEF A
  <2> QED
    BY <2>1, FrontedSort
<1>2. (CandidatesFor(n))' = CandidatesFor(n)
  BY DEF CandidatesFor
<1>3. \E k \in 0 .. Cardinality(CandidatesFor(n)) :
        /\ \A j \in 1..k : lists'[n][j] \in requested'
        /\ \A a \in asked'[n] : \E j \in 1..k : lists'[n][j] = a
  BY <1>1
<1> QED
  BY <1>1, <1>2, <1>3 DEF Fronted

\* What a sort and a reading have in common.
LEMMA ResortKept ==
  ASSUME PreferencesAssumption, PrefInv, OtherTypes', requested' = requested, walking' = walking,
         lists' = [n \in Names |-> lists'[n]],
         \A n \in Names : \E l \in Orders(CandidatesFor(n)) : lists'[n] = Sorted(l, n),
         \A n \in Names : asked'[n] \subseteq CandidatesFor(n) \cap requested,
         \A n \in Names : WalkAt(n, "run") \/ WalkAt(n, "rotate") => asked'[n] = asked[n]
  PROVE  PrefInv'
<1>1. ASSUME NEW n \in Names
      PROVE  /\ lists'[n] \in Orders(CandidatesFor(n)) /\ Fronted(n)'
             /\ (CandidatesFor(n))' = CandidatesFor(n)
             /\ (Orders(CandidatesFor(n)))' = Orders(CandidatesFor(n))
  <2>1. PICK l \in Orders(CandidatesFor(n)) : lists'[n] = Sorted(l, n)
    OBVIOUS
  <2>2. asked'[n] \subseteq CandidatesFor(n) \cap requested
    OBVIOUS
  <2>3. lists'[n] \in Orders(CandidatesFor(n)) /\ Fronted(n)'
    BY <2>1, <2>2, SortKept
  <2> QED
    BY <2>3 DEF CandidatesFor, Orders
<1>2. PreferencesTypeOK'
  <2>1. ListTypes'
    BY <1>1 DEF ListTypes
  <2>2. ListTypes' /\ OtherTypes' => PreferencesTypeOK'
    BY TypesOf, PTL
  <2> QED
    BY <2>1, <2>2
<1>3. ASSUME NEW n \in Names
      PROVE  /\ WalkAt(n, "run")' /\ asked'[n] # {} => walking'[n].current \in requested'
             /\ WalkAt(n, "run")' \/ WalkAt(n, "rotate")' => walking'[n].current \in CandidatesFor(n)
             /\ WalkAt(n, "stop")' => walking'[n].current \in CandidatesFor(n)
             /\ WalkAt(n, "rotate")' => walking'[n].current \notin asked'[n]
  <2>1. /\ WalkAt(n, "run") /\ asked[n] # {} => walking[n].current \in requested
        /\ WalkAt(n, "run") \/ WalkAt(n, "rotate") => walking[n].current \in CandidatesFor(n)
        /\ WalkAt(n, "stop") => walking[n].current \in CandidatesFor(n)
        /\ WalkAt(n, "rotate") => walking[n].current \notin asked[n]
    BY DEF PrefInv, WalkPlaces, ChosenFirst
  <2>2. WalkAt(n, "run") \/ WalkAt(n, "rotate") => asked'[n] = asked[n]
    OBVIOUS
  <2> QED
    BY <2>1, <2>2 DEF WalkAt
<1>4. WalkPlaces' /\ ChosenFirst'
  <2>1. \A n \in Names : asked'[n] \subseteq (CandidatesFor(n))' \cap requested'
    BY <1>1
  <2> QED
    BY <1>1, <1>3, <2>1 DEF WalkPlaces, ChosenFirst
<1> QED
  BY <1>1, <1>2, <1>4 DEF PrefInv

LEMMA PrefSort ==
  ASSUME PreferencesAssumption, PrefInv, SortLists
  PROVE  PrefInv'
<1>1. PICK w \in sorting :
        LET up == {n \in wishes : ~Supplied(n) /\ n \notin unusable}
        IN /\ lists' = [n \in Names |-> Sorted(lists[n], n)]
           /\ sorting' = sorting \ {w} /\ awaited' = awaited \cup {w}
           /\ wishes' = up
           /\ unwanted' = {n \in unwanted : Supplied(n) /\ n \notin unusable}
           /\ unusable' = IF awaited = {} THEN {} ELSE unusable
           /\ recent' = IF awaited = {} THEN {} ELSE recent
           /\ asked' = [n \in Names |-> IF n \in w.enable \cap up /\ WalkAt(n, "none")
                                          THEN w.enable \cap CandidatesFor(n) \cap requested
                                          ELSE asked[n]]
           /\ UNCHANGED <<goals, commits, running, walking, stopped, failed>>
  BY DEF SortLists, prefwalks
<1>2. PICK U : asked' = [n \in Names |-> IF n \in w.enable \cap U /\ WalkAt(n, "none")
                                           THEN w.enable \cap CandidatesFor(n) \cap requested
                                           ELSE asked[n]]
  BY <1>1
<1>3. /\ lists' = [n \in Names |-> Sorted(lists[n], n)]
      /\ sorting' \cup awaited' \subseteq sorting \cup awaited /\ wishes' \subseteq wishes
      /\ unwanted' \subseteq unwanted /\ unusable' \subseteq unusable /\ recent' \subseteq recent
      /\ UNCHANGED <<goals, commits, running, walking, stopped, failed>>
  BY <1>1
<1>4. requested' = requested
  BY <1>3 DEF requested
<1>5. \A n \in Names : /\ asked'[n] \subseteq CandidatesFor(n) \cap requested
                       /\ WalkAt(n, "run") \/ WalkAt(n, "rotate") => asked'[n] = asked[n]
  <2> TAKE n \in Names
  <2>1. asked[n] \subseteq CandidatesFor(n) \cap requested
    BY DEF PrefInv, WalkPlaces
  <2> QED
    BY <1>2, <2>1 DEF WalkAt
<1>6. asked' \in [Names -> SUBSET Mods]
  <2>1. \A n \in Names : asked'[n] \in SUBSET Mods
    BY <1>5, Named
  <2>2. asked' = [n \in Names |-> asked'[n]]
    BY <1>2
  <2> QED
    BY <2>1, <2>2
<1>7. OtherTypes'
  BY <1>3, <1>6, OthersOf DEF OtherTypes
<1>8. \A n \in Names : \E l \in Orders(CandidatesFor(n)) : lists'[n] = Sorted(l, n)
  <2> TAKE n \in Names
  <2>1. lists[n] \in Orders(CandidatesFor(n))
    BY DEF PrefInv, PreferencesTypeOK
  <2>2. lists'[n] = Sorted(lists[n], n)
    BY <1>3
  <2> QED
    BY <2>1, <2>2
<1>9. lists' = [n \in Names |-> lists'[n]]
  BY <1>3
<1> QED
  BY <1>3, <1>4, <1>5, <1>7, <1>8, <1>9, ResortKept

LEMMA PrefRead ==
  ASSUME PreferencesAssumption, PrefInv, ReadList
  PROVE  PrefInv'
<1>1. PICK order \in Orders(Mods) : lists' = [n \in Names |-> Sorted(Listing(order, n), n)]
  BY DEF ReadList
<1>2. /\ unusable' = {} /\ commits' = commits + 1 /\ commits < MaxCommits
      /\ UNCHANGED <<goals, sorting, awaited, wishes, unwanted, recent, running, walking, stopped,
                     asked, failed>>
  BY DEF ReadList, prefwalks
<1>3. requested' = requested /\ MaxCommits \in Nat
  BY <1>2 DEF requested, PreferencesAssumption
<1>4. OtherTypes'
  BY <1>2, <1>3, OthersOf DEF OtherTypes
<1>5. \A n \in Names : \E l \in Orders(CandidatesFor(n)) : lists'[n] = Sorted(l, n)
  <2> TAKE n \in Names
  <2>1. Listing(order, n) \in Orders(CandidatesFor(n))
    BY Listed1
  <2>2. lists'[n] = Sorted(Listing(order, n), n)
    BY <1>1
  <2> QED
    BY <2>1, <2>2
<1>6. \A n \in Names : asked'[n] = asked[n] /\ asked'[n] \subseteq CandidatesFor(n) \cap requested
  BY <1>2 DEF PrefInv, WalkPlaces
<1>7. lists' = [n \in Names |-> lists'[n]]
  BY <1>1
<1> QED
  BY <1>2, <1>3, <1>4, <1>5, <1>6, <1>7, ResortKept

\* The steps of a walk that leave the lists as they are: where the walk has come to, and
\* what is left of the rest.
Walked(n, w) ==
  /\ walking' = [walking EXCEPT ![n] = w] /\ w \in WalkStates
  /\ failed' \subseteq Mods /\ running' \subseteq Mods
  /\ wishes' \subseteq wishes /\ unwanted' \subseteq unwanted /\ unusable' \subseteq Names
  /\ recent' \subseteq Names /\ stopped' \subseteq Names
  /\ asked' = [k \in Names |-> asked'[k]]
  /\ \A k \in Names : asked'[k] = {} \/ asked'[k] = asked[k]
  /\ (w.at = "run" => w.current = lists[n][1])
  /\ (w.at = "stop" => w.current \in CandidatesFor(n))
  /\ (w.at = "rotate" => w.current \in CandidatesFor(n) /\ w.current \notin asked'[n])
  /\ UNCHANGED <<lists, goals, sorting, awaited, commits>>

LEMMA Stages ==
  ASSUME NEW r \in WalkStates, NEW c, NEW s
  PROVE  /\ [r EXCEPT !.at = s, !.current = c] = [at |-> s, first |-> r.first, current |-> c]
         /\ [r EXCEPT !.at = s] = [at |-> s, first |-> r.first, current |-> r.current]
         /\ r.first \in Mods \cup {"none"} /\ r.current \in Mods \cup {"none"}
<1>1. r = [at |-> r.at, first |-> r.first, current |-> r.current]
  BY DEF WalkStates
<1>2. r.first \in Mods \cup {"none"} /\ r.current \in Mods \cup {"none"}
  BY DEF WalkStates
<1>3. ASSUME NEW x, NEW y, NEW z, NEW q, q = [at |-> x, first |-> y, current |-> z]
      PROVE  [q EXCEPT !.at = s] = [at |-> s, first |-> y, current |-> z]
  BY <1>3
<1>4. [r EXCEPT !.at = s, !.current = c] = [[r EXCEPT !.at = s] EXCEPT !.current = c]
  OBVIOUS
<1>5. [r EXCEPT !.at = s] = [at |-> s, first |-> r.first, current |-> r.current]
  BY <1>1, <1>3
<1>6. ASSUME NEW f, NEW d
      PROVE  [[at |-> s, first |-> f, current |-> d] EXCEPT !.current = c] =
               [at |-> s, first |-> f, current |-> c]
  OBVIOUS
<1>7. [[at |-> s, first |-> r.first, current |-> r.current] EXCEPT !.current = c] =
        [at |-> s, first |-> r.first, current |-> c]
  BY <1>6
<1>8. [r EXCEPT !.at = s, !.current = c] = [at |-> s, first |-> r.first, current |-> c]
  BY <1>4, <1>5, <1>7, Zenon
<1> QED
  BY <1>2, <1>5, <1>8

LEMMA WalkFacts ==
  ASSUME PreferencesAssumption, PrefInv, NEW n \in Names
  PROVE  /\ lists[n] \in Orders(CandidatesFor(n)) /\ lists[n][1] \in CandidatesFor(n)
         /\ lists[n][1] \in Mods
         /\ walking[n] \in WalkStates /\ walking \in [Names -> WalkStates]
         /\ (WalkAt(n, "run") \/ WalkAt(n, "rotate") \/ WalkAt(n, "stop") =>
               walking[n].current \in CandidatesFor(n) /\ walking[n].current \in Mods)
         /\ (WalkAt(n, "rotate") => walking[n].current \notin asked[n])
         /\ running \subseteq Mods /\ failed \subseteq Mods /\ asked = [k \in Names |-> asked[k]]
         /\ wishes \subseteq Names /\ unwanted \subseteq Names /\ unusable \subseteq Names
         /\ recent \subseteq Names /\ stopped \subseteq Names
         /\ NoWalk \in WalkStates /\ NoWalk.at = "none"
<1>1. OtherTypes
  BY OthersOf
<1>2. lists[n] \in Orders(CandidatesFor(n))
  BY DEF PrefInv, PreferencesTypeOK
<1>3. lists[n][1] \in Mods /\ lists[n][1] \in CandidatesFor(n)
  BY <1>2, OrderHead
<1>4. /\ (WalkAt(n, "run") \/ WalkAt(n, "rotate") \/ WalkAt(n, "stop") =>
            walking[n].current \in CandidatesFor(n))
      /\ (WalkAt(n, "rotate") => walking[n].current \notin asked[n])
  BY DEF PrefInv, WalkPlaces
<1>5. NoWalk \in WalkStates /\ NoWalk.at = "none"
  BY DEF WalkStates, NoWalk
<1>6. CandidatesFor(n) \subseteq Mods
  BY Named
<1>7. walking[n] \in WalkStates /\ walking \in [Names -> WalkStates]
  BY <1>1 DEF OtherTypes
<1>8. /\ running \subseteq Mods /\ failed \subseteq Mods /\ asked = [k \in Names |-> asked[k]]
      /\ wishes \subseteq Names /\ unwanted \subseteq Names /\ unusable \subseteq Names
      /\ recent \subseteq Names /\ stopped \subseteq Names
  BY <1>1 DEF OtherTypes
<1> QED
  BY <1>2, <1>3, <1>4, <1>5, <1>6, <1>7, <1>8

\* The four ways a walk goes on.
LEMMA Moves ==
  ASSUME PreferencesAssumption, PrefInv, NEW n \in Names,
         NEW s \in {"none", "look", "run", "rotate", "test", "lower", "stop", "stopped", "turn",
                    "back"}
  PROVE  /\ (BeginAt(n, s) => \E w \in WalkStates : /\ walking' = [walking EXCEPT ![n] = w]
                                                   /\ w.at = s)
         /\ (Stage(n, s) => \E w \in WalkStates : /\ walking' = [walking EXCEPT ![n] = w]
                                                 /\ w.at = s /\ w.current = walking[n].current)
         /\ (Take(n, s) => \E w \in WalkStates : /\ walking' = [walking EXCEPT ![n] = w]
                                                /\ w.at = s /\ w.current = lists[n][1])
         /\ (EndWalk(n) => \E w \in WalkStates : /\ walking' = [walking EXCEPT ![n] = w]
                                                /\ w.at = "none")
<1> DEFINE h == lists[n][1]
           r == walking[n]
           b == [at |-> s, first |-> h, current |-> "none"]
           g == [at |-> s, first |-> r.first, current |-> r.current]
           t == [at |-> s, first |-> r.first, current |-> h]
<1>1. h \in Mods /\ r \in WalkStates /\ walking \in [Names -> WalkStates]
  BY WalkFacts
<1>2. r.first \in Mods \cup {"none"} /\ r.current \in Mods \cup {"none"}
  BY <1>1, Stages
<1> HIDE DEF h
<1>3. b \in WalkStates /\ g \in WalkStates /\ t \in WalkStates
  BY <1>1, <1>2 DEF WalkStates
<1>4. [r EXCEPT !.at = s] = g /\ [r EXCEPT !.at = s, !.current = h] = t
  <2> HIDE DEF r
  <2> QED
    BY <1>1, Stages
<1>5. /\ (BeginAt(n, s) => walking' = [walking EXCEPT ![n] = b])
      /\ (Stage(n, s) => walking' = [walking EXCEPT ![n] = [r EXCEPT !.at = s]])
      /\ (Take(n, s) => walking' = [walking EXCEPT ![n] = [r EXCEPT !.at = s, !.current = h]])
      /\ (EndWalk(n) => walking' = [walking EXCEPT ![n] = NoWalk])
  BY DEF BeginAt, Stage, Take, EndWalk, h
<1>6. b.at = s /\ g.at = s /\ g.current = r.current /\ t.at = s /\ t.current = h
  OBVIOUS
<1> HIDE DEF b, g, t
<1>7. BeginAt(n, s) => \E w \in WalkStates : walking' = [walking EXCEPT ![n] = w] /\ w.at = s
  BY <1>3, <1>5, <1>6
<1>8. Stage(n, s) => \E w \in WalkStates : /\ walking' = [walking EXCEPT ![n] = w]
                                           /\ w.at = s /\ w.current = r.current
  BY <1>3, <1>4, <1>5, <1>6
<1>9. Take(n, s) => \E w \in WalkStates : /\ walking' = [walking EXCEPT ![n] = w]
                                          /\ w.at = s /\ w.current = h
  BY <1>3, <1>4, <1>5, <1>6
<1>10. EndWalk(n) => \E w \in WalkStates : walking' = [walking EXCEPT ![n] = w] /\ w.at = "none"
  BY <1>5, WalkFacts
<1> QED
  BY <1>7, <1>8, <1>9, <1>10 DEF h

LEMMA BeginWalked ==
  ASSUME PreferencesAssumption, PrefInv, NEW n \in Names, BeginWalk(n) \/ BeginLower(n)
  PROVE  \E w : Walked(n, w)
<1>1. /\ \/ BeginAt(n, "look")
         \/ BeginAt(n, "lower")
      /\ stopped' \subseteq stopped
      /\ UNCHANGED <<lists, prefplans, prefqueue, running, asked, failed>>
  BY DEF BeginWalk, BeginLower
<1>2. PICK w \in WalkStates : walking' = [walking EXCEPT ![n] = w] /\ w.at \in {"look", "lower"}
  BY <1>1, Moves
<1>3. Walked(n, w)
  BY <1>1, <1>2, WalkFacts DEF Walked, prefplans, prefqueue, BeginWalk, BeginLower
<1> QED
  BY <1>3

LEMMA LookWalked ==
  ASSUME PreferencesAssumption, PrefInv, NEW n \in Names, LookAt(n)
  PROVE  \E w : Walked(n, w)
<1>1. /\ EndWalk(n) \/ Take(n, "run")
      /\ wishes' \subseteq wishes /\ recent' \subseteq recent \cup {n}
      /\ UNCHANGED <<lists, prefplans, unwanted, unusable, running, stopped, asked, failed>>
  BY DEF LookAt
<1>2. PICK w \in WalkStates : /\ walking' = [walking EXCEPT ![n] = w]
                              /\ w.at = "none" \/ (w.at = "run" /\ w.current = lists[n][1])
  BY <1>1, Moves
<1>3. Walked(n, w)
  BY <1>1, <1>2, WalkFacts DEF Walked, prefplans
<1> QED
  BY <1>3

LEMMA RunWalked ==
  ASSUME PreferencesAssumption, PrefInv, NEW n \in Names, RunModule(n)
  PROVE  \E w : Walked(n, w)
<1> DEFINE m == walking[n].current
<1>1. WalkAt(n, "run") /\ m \in CandidatesFor(n) /\ m \in Mods /\ Provides[m] \subseteq Names
  <2>1. WalkAt(n, "run")
    BY DEF RunModule
  <2> QED
    BY <2>1, WalkFacts DEF PreferencesAssumption
<1> HIDE DEF m
<1>2. PICK ok \in BOOLEAN :
        LET over == ok \/ Supplied(n)
            news == IF m \in running THEN {} ELSE Provides[m]
        IN /\ running' = IF ok THEN running \cup {m} ELSE running
           /\ failed' = IF ok THEN failed ELSE failed \cup {m}
           /\ asked' = [k \in Names |-> IF ok \/ m \notin asked[k] THEN asked[k] ELSE {}]
           /\ wishes' = (IF ok THEN wishes \ news ELSE wishes) \ (IF over THEN {n} ELSE {})
           /\ unwanted' = IF ok THEN unwanted ELSE unwanted \ news
           /\ recent' = recent \cup news \cup (IF over THEN {n} ELSE {})
           /\ IF over THEN EndWalk(n) ELSE Stage(n, "rotate")
  BY DEF RunModule, m
<1>3. UNCHANGED <<lists, goals, sorting, awaited, commits, unusable, stopped>>
  BY DEF RunModule, prefplans
<1>4. /\ running' \subseteq running \cup {m} /\ failed' \subseteq failed \cup {m}
      /\ wishes' \subseteq wishes /\ unwanted' \subseteq unwanted
      /\ recent' \subseteq recent \cup Provides[m] \cup {n}
      /\ asked' = [k \in Names |-> asked'[k]]
      /\ \A k \in Names : asked'[k] = {} \/ asked'[k] = asked[k]
      /\ EndWalk(n) \/ (Stage(n, "rotate") /\ ~ok)
  BY <1>2
<1>5. ~ok => m \notin asked'[n]
  BY <1>2
<1>6. PICK w \in WalkStates : /\ walking' = [walking EXCEPT ![n] = w]
                              /\ w.at = "none" \/ (w.at = "rotate" /\ w.current = m /\ ~ok)
  BY <1>4, Moves DEF m
<1>7. Walked(n, w)
  BY <1>1, <1>3, <1>4, <1>5, <1>6, WalkFacts DEF Walked
<1> QED
  BY <1>7

LEMMA TestWalked ==
  ASSUME PreferencesAssumption, PrefInv, NEW n \in Names, TestList(n) \/ TestDown(n)
  PROVE  \E w : Walked(n, w)
<1>1. /\ EndWalk(n) \/ Stage(n, "look") \/ Stage(n, "lower")
      /\ wishes' \subseteq wishes /\ unwanted' \subseteq unwanted
      /\ recent' \subseteq recent \cup {n} /\ unusable' \subseteq unusable \cup {n}
      /\ UNCHANGED <<lists, prefplans, running, stopped, asked, failed>>
  BY DEF TestList, TestDown
<1>2. PICK w \in WalkStates : walking' = [walking EXCEPT ![n] = w] /\ w.at \in {"none", "look", "lower"}
  BY <1>1, Moves
<1>3. Walked(n, w)
  BY <1>1, <1>2, WalkFacts DEF Walked, prefplans
<1> QED
  BY <1>3

LEMMA LowerWalked ==
  ASSUME PreferencesAssumption, PrefInv, NEW n \in Names, LowerAt(n) \/ AfterStop(n)
  PROVE  \E w : Walked(n, w)
<1>1. /\ EndWalk(n) \/ Take(n, "stop") \/ Take(n, "turn") \/ Stage(n, "turn")
      /\ unwanted' \subseteq unwanted /\ recent' \subseteq recent \cup {n}
      /\ stopped' \subseteq stopped \cup {n}
      /\ UNCHANGED <<lists, prefplans, wishes, unusable, running, asked, failed>>
  BY DEF LowerAt, AfterStop
<1>2. PICK w \in WalkStates : /\ walking' = [walking EXCEPT ![n] = w]
                              /\ \/ w.at \in {"none", "turn"}
                                 \/ w.at = "stop" /\ w.current = lists[n][1]
  BY <1>1, Moves
<1>3. Walked(n, w)
  BY <1>1, <1>2, WalkFacts DEF Walked, prefplans
<1> QED
  BY <1>3

LEMMA StopWalked ==
  ASSUME PreferencesAssumption, PrefInv, NEW n \in Names, StopModule(n)
  PROVE  \E w : Walked(n, w)
<1> DEFINE m == walking[n].current
<1>1. m \in Mods /\ Provides[m] \subseteq Names
  <2>1. WalkAt(n, "stop")
    BY DEF StopModule
  <2> QED
    BY <2>1, WalkFacts DEF PreferencesAssumption
<1> HIDE DEF m
<1>2. /\ running' \subseteq running /\ stopped' \subseteq stopped \cup {n}
      /\ wishes' \subseteq wishes /\ unwanted' \subseteq unwanted
      /\ recent' \subseteq recent \cup Provides[m]
      /\ Stage(n, "stopped")
      /\ UNCHANGED <<lists, prefplans, unusable, asked, failed>>
  BY DEF StopModule, m
<1>3. PICK w \in WalkStates : walking' = [walking EXCEPT ![n] = w] /\ w.at = "stopped"
  BY <1>2, Moves
<1>4. Walked(n, w)
  BY <1>1, <1>2, <1>3, WalkFacts DEF Walked, prefplans
<1> QED
  BY <1>4

LEMMA PrefWalk ==
  ASSUME PreferencesAssumption, PrefInv, NEW n \in Names, NEW w, Walked(n, w)
  PROVE  PrefInv'
<1> USE DEF Walked
<1>1. requested' = requested
  BY DEF requested
<1>2. /\ lists[n] \in Orders(CandidatesFor(n)) /\ lists[n][1] \in CandidatesFor(n)
      /\ walking \in [Names -> WalkStates]
  BY WalkFacts
<1>3. \A k \in Names : walking'[k] = IF k = n THEN w ELSE walking[k]
  BY <1>2
<1>4. \A k \in Names : Held(k) /\ (CandidatesFor(k))' = CandidatesFor(k)
  BY <1>1 DEF Held, CandidatesFor
<1>5. asked' \in [Names -> SUBSET Mods]
  <2>1. \A k \in Names : asked'[k] \in SUBSET Mods
    BY OthersOf DEF OtherTypes
  <2> QED
    BY <2>1
<1>6. walking' \in [Names -> WalkStates]
  BY <1>2
<1>7. OtherTypes'
  BY <1>5, <1>6, OthersOf DEF OtherTypes
<1>8. PreferencesTypeOK'
  BY <1>7, ListsSame
<1>9. \A k \in Names : Fronted(k)'
  BY <1>4, HeldFronts
<1>10. ASSUME NEW k \in Names
       PROVE  /\ asked'[k] \subseteq CandidatesFor(k) \cap requested'
              /\ WalkAt(k, "run")' \/ WalkAt(k, "rotate")' => walking'[k].current \in CandidatesFor(k)
              /\ WalkAt(k, "stop")' => walking'[k].current \in CandidatesFor(k)
              /\ WalkAt(k, "rotate")' => walking'[k].current \notin asked'[k]
  <2>1. /\ asked[k] \subseteq CandidatesFor(k) \cap requested
        /\ asked'[k] = {} \/ asked'[k] = asked[k]
        /\ WalkAt(k, "run") \/ WalkAt(k, "rotate") => walking[k].current \in CandidatesFor(k)
        /\ WalkAt(k, "stop") => walking[k].current \in CandidatesFor(k)
        /\ WalkAt(k, "rotate") => walking[k].current \notin asked[k]
    BY DEF PrefInv, WalkPlaces
  <2>2. asked'[k] \subseteq CandidatesFor(k) \cap requested'
    BY <1>1, <2>1
  <2>3. CASE k = n
    BY <1>2, <1>3, <2>2, <2>3 DEF WalkAt
  <2>4. CASE k # n
    BY <1>3, <2>1, <2>2, <2>4 DEF WalkAt
  <2> QED
    BY <2>3, <2>4
<1>11. WalkPlaces'
  <2>1. \A k \in Names : asked'[k] \subseteq (CandidatesFor(k))' \cap requested'
    BY <1>4, <1>10
  <2> QED
    BY <1>4, <1>10, <2>1 DEF WalkPlaces
<1>12. ASSUME NEW k \in Names, WalkAt(k, "run")', asked'[k] # {}
       PROVE  walking'[k].current \in requested'
  <2>1. asked'[k] = asked[k]
    BY <1>12
  <2>2. CASE k # n
    BY <1>1, <1>3, <1>12, <2>1, <2>2 DEF PrefInv, ChosenFirst, WalkAt
  <2>3. CASE k = n
    <3>1. walking'[n].current = lists[n][1]
      BY <1>3, <1>12, <2>3 DEF WalkAt
    <3>2. PICK a : a \in asked[n]
      BY <1>12, <2>1, <2>3
    <3>3. PICK i \in 0 .. Cardinality(CandidatesFor(n)) :
            /\ \A j \in 1..i : lists[n][j] \in requested
            /\ \E j \in 1..i : lists[n][j] = a
      BY <3>2 DEF PrefInv, Fronted
    <3>4. 1 \in 1..i
      BY <1>2, <3>3, OrderHead
    <3> QED
      BY <1>1, <2>3, <3>1, <3>3, <3>4
  <2> QED
    BY <2>2, <2>3
<1>13. ChosenFirst'
  BY <1>12 DEF ChosenFirst
<1> QED
  BY <1>8, <1>9, <1>11, <1>13 DEF PrefInv

\* A rotation: to bring a service up, it takes away one that has failed; to take it down,
\* nothing is left of what was asked for.
LEMMA PrefRotate ==
  ASSUME PreferencesAssumption, PrefInv, NEW n \in Names, RotateList(n) \/ TurnList(n)
  PROVE  PrefInv'
<1> DEFINE l == lists[n]
           s == IF Head(l) = walking[n].current THEN Append(Tail(l), Head(l)) ELSE l
           N == Cardinality(CandidatesFor(n))
<1>1. /\ UNCHANGED <<goals, sorting, awaited, commits, wishes, unwanted, unusable, recent,
                     running, stopped, failed>>
      /\ lists' = [lists EXCEPT ![n] = s]
      /\ Stage(n, "test") \/ Stage(n, "back")
  BY DEF RotateList, TurnList, Turned, prefplans, prefqueue
<1>2. /\ l \in Orders(CandidatesFor(n)) /\ walking \in [Names -> WalkStates]
  BY WalkFacts
<1>3. PICK w \in WalkStates : walking' = [walking EXCEPT ![n] = w] /\ w.at \in {"test", "back"}
  BY <1>1, Moves
<1>4. /\ asked' = [k \in Names |-> asked'[k]]
      /\ \A k \in Names : k # n => asked'[k] = asked[k]
      /\ asked'[n] = {} \/ (asked'[n] = asked[n] /\ walking[n].current \notin asked[n])
  <2>1. asked = [k \in Names |-> asked[k]]
    BY WalkFacts
  <2>2. CASE RotateList(n)
    BY <2>1, <2>2, WalkFacts DEF RotateList
  <2>3. CASE TurnList(n)
    BY <2>1, <2>3 DEF TurnList
  <2> QED
    BY <2>2, <2>3
<1>5. lists = [k \in Names |-> lists[k]] /\ \A k \in Names : lists[k] \in Orders(CandidatesFor(k))
  BY TypesOf DEF PrefInv, ListTypes
<1>6. N \in Nat \ {0} /\ Head(l) = l[1]
  BY <1>2, OrderHead
<1>7. s \in Orders(CandidatesFor(n))
  BY <1>2, Rotated
<1>8. \E k \in 0..N : /\ \A j \in 1..k : s[j] \in requested
                      /\ \A a \in asked'[n] : \E j \in 1..k : s[j] = a
  <2>1. CASE asked'[n] = {}
    <3>1. 0 \in 0..N /\ \A j \in 1..0 : FALSE
      BY <1>6
    <3> QED
      BY <2>1, <3>1
  <2>2. CASE asked'[n] # {}
    <3>1. asked'[n] = asked[n] /\ walking[n].current \notin asked[n]
      BY <1>4, <2>2
    <3>2. PICK k \in 0..N : /\ \A j \in 1..k : l[j] \in requested
                            /\ \A a \in asked[n] : \E j \in 1..k : l[j] = a
      BY DEF PrefInv, Fronted
    <3>3. CASE Head(l) # walking[n].current
      BY <3>1, <3>2, <3>3
    <3>4. CASE Head(l) = walking[n].current
      <4>1. \A j \in 1..(N - 1) : s[j] = l[j + 1]
        BY <1>2, <3>4, Rotated
      <4>2. l[1] \notin asked[n]
        BY <1>6, <3>1, <3>4
      <4> HIDE DEF s, l, N
      <4>3. CASE k = 0
        BY <1>6, <2>2, <3>1, <3>2, <4>3
      <4>4. CASE k # 0
        <5>1. k - 1 \in 0..N /\ \A j \in 1..(k - 1) : j \in 1..(N - 1) /\ j + 1 \in 1..k
          BY <1>6, <4>4
        <5>2. \A j \in 1..(k - 1) : s[j] \in requested
          BY <3>2, <4>1, <5>1
        <5>3. \A a \in asked[n] : \E j \in 1..(k - 1) : s[j] = a
          <6> TAKE a \in asked[n]
          <6>1. PICK i \in 1..k : l[i] = a
            BY <3>2
          <6>2. i # 1
            BY <4>2, <6>1
          <6>3. i - 1 \in 1..(k - 1) /\ i - 1 \in 1..(N - 1) /\ (i - 1) + 1 = i
            BY <1>6, <6>2
          <6>4. s[i - 1] = a
            BY <4>1, <6>1, <6>3
          <6> QED
            BY <6>3, <6>4
        <5> QED
          BY <3>1, <5>1, <5>2, <5>3
      <4> QED
        BY <4>3, <4>4
    <3> QED
      BY <3>3, <3>4
  <2> QED
    BY <2>1, <2>2
<1> HIDE DEF l, s
<1>9. /\ lists' = [k \in Names |-> lists'[k]]
      /\ \A k \in Names : lists'[k] = IF k = n THEN s ELSE lists[k]
      /\ \A k \in Names : walking'[k] = IF k = n THEN w ELSE walking[k]
  BY <1>1, <1>2, <1>3, <1>5
<1>10. \A k \in Names : (CandidatesFor(k))' = CandidatesFor(k) /\ (Orders(CandidatesFor(k)))' = Orders(CandidatesFor(k))
  BY DEF CandidatesFor, Orders
<1>11. requested' = requested
  BY <1>1 DEF requested
<1>12. PreferencesTypeOK'
  <2>1. ListTypes'
    BY <1>5, <1>7, <1>9, <1>10 DEF ListTypes
  <2>2. walking' \in [Names -> WalkStates]
    BY <1>2, <1>3
  <2>3. asked' \in [Names -> SUBSET Mods]
    <3>1. \A k \in Names : asked'[k] \in SUBSET Mods
      BY <1>4, OthersOf DEF OtherTypes
    <3> QED
      BY <1>4, <3>1
  <2>4. OtherTypes'
    BY <1>1, <2>2, <2>3, OthersOf DEF OtherTypes
  <2>5. ListTypes' /\ OtherTypes' => PreferencesTypeOK'
    BY TypesOf, PTL
  <2> QED
    BY <2>1, <2>4, <2>5
<1>13. ASSUME NEW k \in Names
       PROVE  /\ asked'[k] \subseteq CandidatesFor(k) \cap requested'
              /\ WalkAt(k, "run")' /\ asked'[k] # {} => walking'[k].current \in requested'
              /\ WalkAt(k, "run")' \/ WalkAt(k, "rotate")' => walking'[k].current \in CandidatesFor(k)
              /\ WalkAt(k, "stop")' => walking'[k].current \in CandidatesFor(k)
              /\ WalkAt(k, "rotate")' => walking'[k].current \notin asked'[k]
  <2>1. /\ asked[k] \subseteq CandidatesFor(k) \cap requested
        /\ WalkAt(k, "run") /\ asked[k] # {} => walking[k].current \in requested
        /\ WalkAt(k, "run") \/ WalkAt(k, "rotate") => walking[k].current \in CandidatesFor(k)
        /\ WalkAt(k, "stop") => walking[k].current \in CandidatesFor(k)
        /\ WalkAt(k, "rotate") => walking[k].current \notin asked[k]
    BY DEF PrefInv, WalkPlaces, ChosenFirst
  <2>2. asked'[k] \subseteq CandidatesFor(k) \cap requested'
    BY <1>4, <1>11, <2>1
  <2>3. CASE k = n
    BY <1>3, <1>9, <2>2, <2>3 DEF WalkAt
  <2>4. CASE k # n
    BY <1>4, <1>9, <1>11, <2>1, <2>2, <2>4 DEF WalkAt
  <2> QED
    BY <2>3, <2>4
<1>14. WalkPlaces' /\ ChosenFirst'
  <2>1. \A k \in Names : asked'[k] \subseteq (CandidatesFor(k))' \cap requested'
    BY <1>10, <1>13
  <2> QED
    BY <1>10, <1>13, <2>1 DEF WalkPlaces, ChosenFirst
<1>15. \A k \in Names : Fronted(k)'
  <2> TAKE k \in Names
  <2>1. CASE k = n
    BY <1>8, <1>9, <1>10, <1>11, <2>1 DEF Fronted
  <2>2. CASE k # n
    <3>1. lists'[k] = lists[k] /\ Held(k)
      BY <1>4, <1>9, <1>11, <2>2 DEF Held
    <3> QED
      BY <3>1, HeldFronts
  <2> QED
    BY <2>1, <2>2
<1> QED
  BY <1>12, <1>14, <1>15 DEF PrefInv

LEMMA PrefStep ==
  ASSUME PreferencesAssumption, PrefInv, NEW n \in Names, WalkStep(n)
  PROVE  PrefInv'
<1>1. CASE RotateList(n) \/ TurnList(n)
  BY <1>1, PrefRotate
<1>2. CASE ~(RotateList(n) \/ TurnList(n))
  <2>1. \E w : Walked(n, w)
    BY <1>2, BeginWalked, LookWalked, RunWalked, TestWalked, LowerWalked, StopWalked DEF WalkStep
  <2> QED
    BY <2>1, PrefWalk
<1> QED
  BY <1>1, <1>2

LEMMA PrefKept ==
  PreferencesAssumption => (PreferencesSpec => []PrefInv)
<1> SUFFICES ASSUME PreferencesAssumption PROVE PreferencesSpec => []PrefInv
  OBVIOUS
<1>1. PreferencesInit => PrefInv
  BY PrefInit
<1>2. PrefInv /\ [PreferencesNext]_prefvars => PrefInv'
  <2> SUFFICES ASSUME PrefInv, [PreferencesNext]_prefvars PROVE PrefInv'
    OBVIOUS
  <2>1. CASE CommitWish
    BY <2>1, PrefCommit
  <2>2. CASE SortLists
    BY <2>2, PrefSort
  <2>3. CASE AwaitWish
    BY <2>3, PrefAwait
  <2>4. CASE ReadList
    BY <2>4, PrefRead
  <2>5. ASSUME NEW n \in Names, ZapName(n) PROVE PrefInv'
    BY <2>5, PrefZap
  <2>6. ASSUME NEW n \in Names, WalkStep(n) PROVE PrefInv'
    BY <2>6, PrefStep
  <2>7. CASE UNCHANGED prefvars
    <3>1. UNCHANGED <<lists, goals, sorting, awaited, commits, wishes, unwanted, unusable, recent,
                      running, walking, stopped, asked, failed>>
      BY <2>7 DEF prefvars, prefplans, prefqueue, prefwalks
    <3>2. requested' = requested
      BY <3>1 DEF requested
    <3>3. OtherTypes'
      BY <3>1, OthersOf DEF OtherTypes
    <3>4. \A n \in Names : Held(n)
      BY <3>1, <3>2 DEF Held
    <3> QED
      BY <3>1, <3>3, <3>4, StillKept
  <2> QED
    BY <2>1, <2>2, <2>3, <2>4, <2>5, <2>6, <2>7 DEF PreferencesNext
<1> QED
  BY <1>1, <1>2, PTL DEF PreferencesSpec

\* Every list has every candidate of its service once, sorted and rotated as often as it
\* may be, and every other variable has a value of its kind
\* (mod_sort_service_list_items_by_preference, mod_apply_enable).
THEOREM PreferencesTyped == PreferencesAssumption => (PreferencesSpec => []PreferencesTypeOK)
<1>1. PrefInv => PreferencesTypeOK
  BY DEF PrefInv
<1> QED
  BY <1>1, PrefKept, PTL

\* Who asks for a service and one of its modules gets no module from a thread that begins
\* after the sort but one that some plan has named, until a module asked for has failed, a
\* candidate is zapped or the service is taken down: whatever the list was before, whoever
\* sorts it meanwhile and however often it is rotated (mod_is_requested,
\* mod_sort_service_list_items_by_preference, mod_apply_enable, mod_apply_disable).
THEOREM RequestedFirst == PreferencesAssumption => (PreferencesSpec => []ChosenFirst)
<1>1. PrefInv => ChosenFirst
  BY DEF PrefInv
<1> QED
  BY <1>1, PrefKept, PTL

-----------------------------------------------------------------------------
\* The services of modules.

\* A finite set of numbers has a greatest.
LEMMA Greatest ==
  ASSUME NEW S \in SUBSET Nat, IsFiniteSet(S), S # {}
  PROVE  \E k \in S : \A j \in S : j <= k
<1>1. /\ Cardinality(S) \in Nat
      /\ \A k \in S : Rank(S, k) \in 1 .. Cardinality(S)
      /\ \A j, k \in S : j < k => Rank(S, j) < Rank(S, k)
      /\ \A r \in 1 .. Cardinality(S) : \E k \in S : Rank(S, k) = r
  BY Ranks
<1>2. Cardinality(S) # 0
  BY FS_EmptySet
<1>3. PICK k \in S : Rank(S, k) = Cardinality(S)
  <2>1. Cardinality(S) \in 1 .. Cardinality(S)
    BY <1>1, <1>2
  <2> QED
    BY <1>1, <2>1
<1>4. ASSUME NEW j \in S PROVE j <= k
  <2>1. Rank(S, j) \in 1 .. Cardinality(S) /\ ~(Cardinality(S) < Rank(S, j))
    BY <1>1
  <2>2. ~(k < j)
    BY <1>1, <1>3, <2>1
  <2> QED
    BY <2>2
<1> QED
  BY <1>4

LEMMA FoundRule ==
  ASSUME NEW c, c.transform \in Seq(RuleNodes), NEW m, NEW s, Rules(c, m, s) # {}
  PROVE  Found(c, m, s) \in RuleNodes
<1> DEFINE S == Rules(c, m, s)
<1>1. Len(c.transform) \in Nat /\ DOMAIN c.transform = 1..Len(c.transform)
  BY LenProperties
<1> DEFINE N == Len(c.transform)
<1>2. N \in Nat /\ S \subseteq 1..N /\ S \in SUBSET Nat /\ IsFiniteSet(1..N)
  <2>1. N \in Nat /\ S \subseteq 1..N
    BY <1>1 DEF Rules
  <2> HIDE DEF S, N
  <2>2. IsFiniteSet(1..N)
    BY <2>1, FS_Interval
  <2> QED
    BY <2>1, <2>2
<1> HIDE DEF S
<1>3. IsFiniteSet(S) /\ S # {}
  BY <1>2, FS_Subset DEF S
<1>4. \E k \in S : \A j \in S : j <= k
  BY <1>2, <1>3, Greatest
<1>5. PICK k \in S : Found(c, m, s) = c.transform[k]
  BY <1>4 DEF Found, S
<1>6. k \in DOMAIN c.transform
  BY <1>1, <1>2, <1>5
<1> QED
  BY <1>5, <1>6, ElementOfSeq

\* What is in a list stays in it when another name is put behind it.
In(l, x) == \E i \in DOMAIN l : l[i] = x

LEMMA Put ==
  ASSUME NEW X, NEW b \in Seq(X), NEW x \in X
  PROVE  /\ Append(b, x) \in Seq(X) /\ In(Append(b, x), x)
         /\ \A y : In(b, y) => In(Append(b, x), y)
<1> DEFINE d == Append(b, x)
<1>1. /\ d \in Seq(X) /\ Len(d) = Len(b) + 1 /\ d[Len(b) + 1] = x
      /\ \A j \in 1..Len(b) : d[j] = b[j]
  BY AppendProperties
<1> HIDE DEF d
<1>2. /\ Len(b) \in Nat /\ DOMAIN b = 1..Len(b) /\ DOMAIN d = 1..Len(d)
  BY <1>1, LenProperties
<1>3. Len(b) + 1 \in DOMAIN d /\ \A j \in DOMAIN b : j \in DOMAIN d
  BY <1>1, <1>2
<1> QED
  BY <1>1, <1>2, <1>3 DEF d, In

LEMMA RewrittenKeeps ==
  ASSUME NEW c, c.transform \in Seq(RuleNodes), NEW m, NEW l, NEW old \in Seq(ServiceIds)
  PROVE  LET r == Rewritten(c, m, l, old)
         IN /\ r \in Seq(ServiceIds)
            /\ \A j \in DOMAIN old :
                 Rules(c, m, old[j]) = {} => In(r, old[j])
<1> DEFINE N == Len(old)
           States == Seq(ServiceIds)
           Body(b, n) == LET s == old[n]
                         IN IF Rules(c, m, s) = {} THEN Append(b, s)
                            ELSE IF l \in Found(c, m, s).strip THEN b
                            ELSE Append(b, Found(c, m, s).out)
           F == [q \in (1..N) \X States |-> Body(q[2], q[1])]
           Inv(b, n) == \A j \in 1..n : Rules(c, m, old[j]) = {} => In(b, old[j])
           I == [n \in 0..N |-> {b \in States : Inv(b, n)}]
           first == << >>
           Loops(f) == f = [i \in 0..N |-> IF i = 0 THEN first ELSE Body(f[i - 1], i)]
           f == CHOOSE f : Loops(f)
<1>1. N \in Nat /\ DOMAIN old = 1..N /\ \A j \in 1..N : old[j] \in ServiceIds
  BY LenProperties, ElementOfSeq
<1>2. Rewritten(c, m, l, old) = f[N]
  BY DEF Rewritten
<1>3. first \in I[0]
  <2>1. first \in States
    BY EmptySeq
  <2> QED
    BY <1>1, <2>1
<1>4. ASSUME NEW n \in 1..N, NEW b \in States, Inv(b, n - 1)
      PROVE  Body(b, n) \in States /\ Inv(Body(b, n), n)
  <2> DEFINE s == old[n]
  <2>1. s \in ServiceIds /\ b \in Seq(ServiceIds)
    BY <1>1
  <2>2. \A j \in 1..n : j # n => j \in 1..(n - 1)
    BY <1>1
  <2> HIDE DEF s
  <2>3. CASE Rules(c, m, s) = {}
    <3>1. Body(b, n) = Append(b, s)
      BY <2>3 DEF s
    <3>2. /\ Append(b, s) \in Seq(ServiceIds) /\ In(Append(b, s), s)
          /\ \A y : In(b, y) => In(Append(b, s), y)
      BY <2>1, Put
    <3> HIDE DEF Body
    <3>3. ASSUME NEW j \in 1..n, Rules(c, m, old[j]) = {}
          PROVE  In(Append(b, s), old[j])
      BY <1>4, <2>2, <3>2, <3>3 DEF s
    <3> QED
      BY <3>1, <3>2, <3>3
  <2>4. CASE Rules(c, m, s) # {} /\ l \in Found(c, m, s).strip
    <3>1. Body(b, n) = b
      BY <2>4 DEF s
    <3> HIDE DEF Body
    <3> QED
      BY <1>4, <2>2, <2>4, <3>1 DEF s
  <2>5. CASE Rules(c, m, s) # {} /\ l \notin Found(c, m, s).strip
    <3> DEFINE t == Found(c, m, s).out
    <3>1. Body(b, n) = Append(b, t)
      BY <2>5 DEF s
    <3>2. t \in ServiceIds
      <4>1. Found(c, m, s) \in RuleNodes
        BY <2>5, FoundRule
      <4> QED
        BY <4>1 DEF RuleNodes
    <3> HIDE DEF t, Body
    <3>3. /\ Append(b, t) \in Seq(ServiceIds)
          /\ \A y : In(b, y) => In(Append(b, t), y)
      BY <2>1, <3>2, Put
    <3>4. ASSUME NEW j \in 1..n, Rules(c, m, old[j]) = {}
          PROVE  In(Append(b, t), old[j])
      <4>1. j \in 1..(n - 1)
        BY <2>2, <2>5, <3>4 DEF s
      <4>2. In(b, old[j])
        BY <1>4, <3>4, <4>1
      <4> QED
        BY <3>3, <4>2
    <3> QED
      BY <3>1, <3>3, <3>4
  <2> QED
    BY <2>3, <2>4, <2>5
<1> HIDE DEF Body, Inv, first, States
<1>5. \A n \in 1..N : \A b \in I[n - 1] : b \in States /\ F[<<n, b>>] = Body(b, n) /\ Body(b, n) \in I[n]
  BY <1>1, <1>4
<1> HIDE DEF I, F
<1>6. \A n \in 1..N : \A b \in I[n - 1] : F[<<n, b>>] \in I[n]
  BY <1>5
<1>7. Loops(f)
  <2>1. PICK g : /\ g = [n \in 0..N |-> g[n]] /\ Rounds(g, N, first, F)
                 /\ \A n \in 0..N : g[n] \in I[n]
    <3> DEFINE M == N
    <3>1. /\ M \in Nat /\ first \in I[0]
          /\ \A n \in 1..M : \A b \in I[n - 1] : F[<<n, b>>] \in I[n]
      BY <1>1, <1>3, <1>6
    <3> HIDE DEF M
    <3>2. \E g : /\ g = [n \in 0..M |-> g[n]] /\ Rounds(g, M, first, F)
                 /\ \A n \in 0..M : g[n] \in I[n]
      BY <3>1, Loop
    <3> QED
      BY <3>2 DEF M
  <2>2. ASSUME NEW n \in 0..N
        PROVE  g[n] = IF n = 0 THEN first ELSE Body(g[n - 1], n)
    <3>1. n # 0 => n \in 1..N /\ n - 1 \in 0..N
      BY <1>1
    <3> QED
      BY <1>5, <2>1, <3>1 DEF Rounds
  <2>3. g = [n \in 0..N |-> IF n = 0 THEN first ELSE Body(g[n - 1], n)]
    BY <2>1, <2>2
  <2> QED
    BY <2>3
<1>8. f[0] = first /\ \A n \in 1..N : f[n] = Body(f[n - 1], n)
  <2> HIDE DEF f
  <2>1. \A n \in 0..N : f[n] = IF n = 0 THEN first ELSE Body(f[n - 1], n)
    BY <1>7
  <2> QED
    BY <1>1, <2>1
<1> HIDE DEF f
<1>9. \A n \in 0..N : f[n] \in I[n]
  <2>1. f[0] = first /\ \A n \in 1..N : f[n - 1] \in I[n - 1] => f[n] = F[<<n, f[n - 1]>>]
    BY <1>5, <1>8
  <2> DEFINE M == N
  <2>2. /\ M \in Nat /\ f[0] \in I[0] /\ \A n \in 1..M : \A b \in I[n - 1] : F[<<n, b>>] \in I[n]
        /\ \A n \in 1..M : f[n - 1] \in I[n - 1] => f[n] = F[<<n, f[n - 1]>>]
    BY <1>1, <1>3, <1>6, <1>8, <2>1
  <2> HIDE DEF M
  <2>3. \A n \in 0..M : f[n] \in I[n]
    BY <2>2, Kept
  <2> QED
    BY <2>3 DEF M
<1>10. f[N] \in States /\ Inv(f[N], N)
  <2>1. N \in 0..N
    BY <1>1
  <2>2. f[N] \in I[N]
    BY <1>9, <2>1
  <2> QED
    BY <2>1, <2>2 DEF I
<1> QED
  BY <1>1, <1>2, <1>10 DEF States, Inv

\* Aliases lengthen the list of what is provided.
LEMMA AliasedTyped ==
  ASSUME NEW c, c.alias \subseteq ServiceIds \X ServiceIds, IsFiniteSet(c.alias),
         NEW old \in Seq(ServiceIds)
  PROVE  Aliased(c, old) \in Seq(ServiceIds)
<1> DEFINE given == {old[i] : i \in DOMAIN old}
           more == UNION {Aliases(c, s) : s \in given} \ given
           A1 == {p[1] : p \in c.alias}
           A2 == {p[2] : p \in c.alias}
           f1 == [p \in c.alias |-> p[1]]
           f2 == [p \in c.alias |-> p[2]]
           N == Cardinality(more)
           Fits(l) == l \in [1..N -> more] /\ \A n \in more : \E i \in DOMAIN l : l[i] = n
           l == CHOOSE k \in [1..N -> more] : \A n \in more : \E i \in DOMAIN k : k[i] = n
<1>1. IsFiniteSet(A1) /\ IsFiniteSet(A2)
  <2>1. f1 \in Surjection(c.alias, A1) /\ f2 \in Surjection(c.alias, A2)
    BY DEF Surjection
  <2> HIDE DEF f1, f2, A1, A2
  <2> QED
    BY <2>1, FS_Surjection
<1>2. \A n \in more : n \in ServiceIds /\ n \in A1 \cup A2
  <2> SUFFICES ASSUME NEW n \in more PROVE n \in ServiceIds /\ n \in A1 \cup A2
    OBVIOUS
  <2>1. PICK s \in given : n \in Aliases(c, s)
    <3> HIDE DEF given
    <3> QED
      OBVIOUS
  <2>2. n \in ServiceIds /\ (<<s, n>> \in c.alias \/ <<n, s>> \in c.alias)
    BY <2>1 DEF Aliases
  <2>3. CASE <<s, n>> \in c.alias
    <3>1. <<s, n>>[2] = n
      OBVIOUS
    <3>2. n \in A2
      BY <2>3, <3>1
    <3> QED
      BY <2>2, <3>2
  <2>4. CASE <<n, s>> \in c.alias
    <3>1. <<n, s>>[1] = n
      OBVIOUS
    <3>2. n \in A1
      BY <2>4, <3>1
    <3> QED
      BY <2>2, <3>2
  <2> QED
    BY <2>2, <2>3, <2>4
<1> HIDE DEF more, A1, A2
<1>3. IsFiniteSet(A1 \cup A2) /\ more \in SUBSET (A1 \cup A2)
  BY <1>1, <1>2, FS_Union
<1>4. IsFiniteSet(more)
  <2> DEFINE A == A1 \cup A2
  <2>1. IsFiniteSet(A) /\ more \in SUBSET A
    BY <1>3
  <2> HIDE DEF A
  <2> QED
    BY <2>1, FS_Subset
<1>5. N \in Nat /\ ExistsBijection(1..N, more)
  BY <1>4, FS_CardinalityType
<1>6. \E k \in [1..N -> more] : \A n \in more : \E i \in DOMAIN k : k[i] = n
  <2>1. PICK k : k \in Bijection(1..N, more)
    BY <1>5 DEF ExistsBijection
  <2>2. k \in [1..N -> more] /\ \A n \in more : \E i \in 1..N : k[i] = n
    BY <2>1 DEF Bijection, Surjection
  <2> QED
    BY <2>2
<1>7. l \in [1..N -> more]
  BY <1>6
<1>8. Aliased(c, old) = old \o l
  BY DEF Aliased, more
<1> HIDE DEF l, N
<1>9. l \in [1..N -> ServiceIds]
  <2>1. more \subseteq ServiceIds
    BY <1>2
  <2> QED
    BY <1>7, <2>1
<1>10. l \in Seq(ServiceIds)
  BY <1>5, <1>9, SeqDef
<1> QED
  BY <1>8, <1>10, ConcatProperties

LEMMA OverriddenTyped ==
  ASSUME NEW c, NEW m \in Rids, services \in [Rids -> [Lists -> Seq(ServiceIds)]],
         \A k \in DOMAIN c.override : \A l \in DOMAIN c.override[k] :
           c.override[k][l] \in Seq(ServiceIds)
  PROVE  /\ Overridden(c, m) \in [Lists -> Seq(ServiceIds)]
         /\ m \notin DOMAIN c.override => Overridden(c, m) = services[m]
<1>1. services[m] \in [Lists -> Seq(ServiceIds)]
  OBVIOUS
<1>2. CASE m \notin DOMAIN c.override
  BY <1>1, <1>2 DEF Overridden
<1>3. CASE m \in DOMAIN c.override
  <2>1. \A l \in Lists :
          (IF l \in DOMAIN c.override[m] THEN c.override[m][l] ELSE services[m][l]) \in Seq(ServiceIds)
    BY <1>1, <1>3
  <2> QED
    BY <1>3, <2>1 DEF Overridden
<1> QED
  BY <1>2, <1>3

-----------------------------------------------------------------------------
\* What a module requires is an invariant as it stands: a walk reads the tree of one of
\* the configurations so far.
TransInv == TransformationsTypeOK /\ RequirementsKept

\* A configuration that has been in force.
LEMMA Configured ==
  ASSUME TransformationsAssumption, TransformationsTypeOK, NEW k \in 1..Current
  PROVE  /\ k \in DOMAIN config /\ config[k] \in Configurations
         /\ config[k].transform \in Seq(RuleNodes)
         /\ config[k].alias \subseteq ServiceIds \X ServiceIds /\ IsFiniteSet(config[k].alias)
         /\ \A m \in DOMAIN config[k].override : \A l \in DOMAIN config[k].override[m] :
              config[k].override[m][l] \in Seq(ServiceIds)
<1>1. k \in DOMAIN config /\ config[k] \in Configurations
  BY ElementOfSeq, LenProperties DEF TransformationsTypeOK, Current
<1> QED
  BY <1>1 DEF TransformationsAssumption

LEMMA TransInit ==
  ASSUME TransformationsAssumption, TransformationsInit
  PROVE  TransInv
<1> USE DEF TransformationsInit
<1>1. PICK c \in Configurations : config = <<c>>
  OBVIOUS
<1>2. config \in Seq(Configurations) /\ Current = 1
  BY <1>1 DEF Current
<1>3. TransformationsTypeOK
  BY <1>2 DEF TransformationsTypeOK, TransformationsAssumption
<1>4. RequirementsKept
  BY DEF RequirementsKept
<1> QED
  BY <1>3, <1>4 DEF TransInv

LEMMA TransBegin ==
  ASSUME TransformationsAssumption, TransInv, NEW t \in Updaters, NEW m \in Rids, BeginUpdate(t, m)
  PROVE  TransInv'
<1> DEFINE over == Overridden(InForce, m)
           new == [over EXCEPT !["provides"] = Aliased(InForce, @)]
<1>1. /\ services' = [services EXCEPT ![m] = new]
      /\ walker' = [walker EXCEPT ![t] = [module |-> m, list |-> "provides", tree |-> 0,
                                          begun |-> Current]]
      /\ UNCHANGED <<config, settled, checkpoints>>
  BY DEF BeginUpdate
<1>2. Current \in 1..Current /\ Current \in Nat /\ Current' = Current
  BY <1>1 DEF TransInv, TransformationsTypeOK, Current, TransformationsAssumption
<1>3. /\ InForce.alias \subseteq ServiceIds \X ServiceIds /\ IsFiniteSet(InForce.alias)
      /\ \A k \in DOMAIN InForce.override : \A l \in DOMAIN InForce.override[k] :
           InForce.override[k][l] \in Seq(ServiceIds)
      /\ Current \in DOMAIN config
  BY <1>2, Configured DEF InForce, TransInv
<1>4. services \in [Rids -> [Lists -> Seq(ServiceIds)]]
  BY DEF TransInv, TransformationsTypeOK
<1>5. over \in [Lists -> Seq(ServiceIds)] /\ (m \notin DOMAIN InForce.override => over = services[m])
  BY <1>3, <1>4, OverriddenTyped
<1> HIDE DEF over
<1>6. "provides" \in Lists /\ "requires" \in Lists
  BY DEF Lists
<1>7. Aliased(InForce, over["provides"]) \in Seq(ServiceIds)
  <2> DEFINE p == over["provides"]
  <2>1. p \in Seq(ServiceIds)
    BY <1>5, <1>6
  <2> HIDE DEF p
  <2>2. Aliased(InForce, p) \in Seq(ServiceIds)
    BY <1>3, <2>1, AliasedTyped
  <2> QED
    BY <2>2 DEF p
<1>8. new \in [Lists -> Seq(ServiceIds)] /\ new["requires"] = over["requires"]
  BY <1>5, <1>6, <1>7
<1> HIDE DEF new
<1>9. services' \in [Rids -> [Lists -> Seq(ServiceIds)]]
  BY <1>1, <1>4, <1>8
<1>10. TransformationsTypeOK'
  <2>1. \A u \in Updaters : walker'[u] = Resting' \/ walker'[u] \in
          [module : Rids, list : Lists, tree : 0..Current, begun : 1..Current]
    <3> TAKE u \in Updaters
    <3>1. Resting' = Resting
      BY DEF Resting
    <3>2. [module |-> m, list |-> "provides", tree |-> 0, begun |-> Current] \in
            [module : Rids, list : Lists, tree : 0..Current, begun : 1..Current]
      BY <1>2, <1>6
    <3>3. walker'[u] = walker[u] \/ walker'[u] = [module |-> m, list |-> "provides", tree |-> 0,
                                                begun |-> Current]
      BY <1>1
    <3> QED
      BY <3>1, <3>2, <3>3 DEF TransInv, TransformationsTypeOK
  <2> QED
    BY <1>1, <1>2, <1>9, <2>1 DEF TransInv, TransformationsTypeOK
<1>11. RequirementsKept'
  <2> SUFFICES ASSUME NEW r \in Rids, NEW i \in DOMAIN Declared[r]["requires"],
                      \A k \in DOMAIN config : Rules(config[k], r, Declared[r]["requires"][i]) = {}
                                               /\ r \notin DOMAIN config[k].override
               PROVE  \E j \in DOMAIN services'[r]["requires"] :
                        services'[r]["requires"][j] = Declared[r]["requires"][i]
    BY <1>1 DEF RequirementsKept
  <2>1. \E j \in DOMAIN services[r]["requires"] :
          services[r]["requires"][j] = Declared[r]["requires"][i]
    BY DEF TransInv, RequirementsKept
  <2>2. services'[r]["requires"] = services[r]["requires"]
    BY <1>1, <1>3, <1>4, <1>5, <1>8 DEF InForce
  <2> QED
    BY <2>1, <2>2
<1> QED
  BY <1>10, <1>11 DEF TransInv

LEMMA TransFind ==
  ASSUME TransformationsAssumption, TransInv, NEW t \in Updaters, FindTree(t)
  PROVE  TransInv'
<1>1. /\ walker[t] # Resting /\ walker' = [walker EXCEPT ![t].tree = Current]
      /\ UNCHANGED <<config, services, settled, checkpoints>>
  BY DEF FindTree
<1> DEFINE W == [module : Rids, list : Lists, tree : 0..Current, begun : 1..Current]
<1>2. walker[t] \in W /\ Current' = Current /\ Current \in 0..Current /\ Resting' = Resting
  BY <1>1 DEF TransInv, TransformationsTypeOK, Current, Resting, TransformationsAssumption
<1>3. [walker[t] EXCEPT !.tree = Current] \in W
  BY <1>2
<1>4. \A u \in Updaters : walker'[u] = walker[u] \/ walker'[u] = [walker[t] EXCEPT !.tree = Current]
  BY <1>1
<1>5. TransformationsTypeOK'
  BY <1>1, <1>2, <1>3, <1>4 DEF TransInv, TransformationsTypeOK
<1>6. RequirementsKept'
  BY <1>1 DEF TransInv, RequirementsKept
<1> QED
  BY <1>5, <1>6 DEF TransInv

LEMMA TransRewrite ==
  ASSUME TransformationsAssumption, TransInv, NEW t \in Updaters, RewriteList(t)
  PROVE  TransInv'
<1> DEFINE w == walker[t]
           m == w.module
           n == w.list
           c == config[w.tree]
           old == services[m][n]
           new == Rewritten(c, m, n, old)
           W == [module : Rids, list : Lists, tree : 0..Current, begun : 1..Current]
           next == [w EXCEPT !.list = ListAfter(n), !.tree = 0]
<1>1. /\ w # Resting /\ w.tree # 0 /\ UNCHANGED <<config, checkpoints>>
      /\ services' = [services EXCEPT ![m][n] = new]
  BY DEF RewriteList
<1>2. IF ListAfter(n) = "none"
        THEN /\ walker' = [walker EXCEPT ![t] = Resting]
             /\ settled' = [settled EXCEPT ![m] = IF w.begun = Current THEN Current ELSE 0]
        ELSE /\ walker' = [walker EXCEPT ![t].list = ListAfter(n), ![t].tree = 0]
             /\ settled' = settled
  BY DEF RewriteList
<1>3. /\ w \in W /\ services \in [Rids -> [Lists -> Seq(ServiceIds)]]
      /\ Current \in Nat /\ settled \in [Rids -> 0..Current]
      /\ config \in Seq(Configurations) /\ Current \in 1..(MaxChanges + 1)
      /\ \A u \in Updaters : walker[u] = Resting \/ walker[u] \in W
  BY <1>1 DEF TransInv, TransformationsTypeOK, TransformationsAssumption
<1>4. m \in Rids /\ n \in Lists /\ w.tree \in 1..Current /\ w.begun \in 1..Current
  BY <1>1, <1>3
<1>5. w.tree \in DOMAIN config /\ c.transform \in Seq(RuleNodes)
  <2> DEFINE k == w.tree
  <2>1. k \in 1..Current /\ TransformationsTypeOK
    BY <1>4 DEF TransInv
  <2> HIDE DEF k
  <2>2. k \in DOMAIN config /\ config[k].transform \in Seq(RuleNodes)
    BY <2>1, Configured
  <2> QED
    BY <2>2 DEF k
<1>6. old \in Seq(ServiceIds)
  BY <1>3, <1>4
<1> HIDE DEF m, n, c, old, w
<1>7. /\ new \in Seq(ServiceIds)
      /\ \A j \in DOMAIN old : Rules(c, m, old[j]) = {} => In(new, old[j])
  BY <1>5, <1>6, RewrittenKeeps
<1> HIDE DEF new
<1>8. /\ services' \in [Rids -> [Lists -> Seq(ServiceIds)]]
      /\ \A r \in Rids, l \in Lists :
           services'[r][l] = IF r = m /\ l = n THEN new ELSE services[r][l]
  BY <1>1, <1>3, <1>4, <1>7
<1>9. Current' = Current /\ Resting' = Resting
  BY <1>1 DEF Current, Resting
<1>10. settled' \in [Rids -> 0..Current]
  <2>1. (IF w.begun = Current THEN Current ELSE 0) \in 0..Current
    BY <1>3
  <2>2. settled' = settled \/ settled' = [settled EXCEPT ![m] = IF w.begun = Current THEN Current ELSE 0]
    BY <1>2
  <2> QED
    BY <1>3, <2>1, <2>2
<1>11. ListAfter(n) # "none" => next \in W
  <2>1. ListAfter(n) # "none" => ListAfter(n) \in Lists
    BY <1>4 DEF ListAfter, Lists
  <2>2. ASSUME NEW q, q \in W, NEW x \in Lists
        PROVE  [q EXCEPT !.list = x, !.tree = 0] \in W
    <3>1. [q EXCEPT !.list = x] \in W
      BY <2>2
    <3>2. ASSUME NEW p, p \in W PROVE [p EXCEPT !.tree = 0] \in W
      <4>1. 0 \in 0..Current
        BY <1>3
      <4> QED
        BY <3>2, <4>1
    <3>3. [q EXCEPT !.list = x, !.tree = 0] = [[q EXCEPT !.list = x] EXCEPT !.tree = 0]
      OBVIOUS
    <3> HIDE DEF W
    <3> QED
      BY <3>1, <3>2, <3>3
  <2> HIDE DEF W
  <2> QED
    BY <1>3, <2>1, <2>2
<1>12. \A u \in Updaters : walker'[u] = Resting \/ walker'[u] \in W
  <2> TAKE u \in Updaters
  <2>1. CASE ListAfter(n) = "none"
    <3>1. walker' = [walker EXCEPT ![t] = Resting]
      BY <1>2, <2>1
    <3> HIDE DEF W
    <3>2. walker'[u] = walker[u] \/ walker'[u] = Resting
      BY <3>1
    <3> QED
      BY <1>3, <3>2
  <2>2. CASE ListAfter(n) # "none"
    <3>1. walker' = [walker EXCEPT ![t] = next]
      BY <1>2, <2>2 DEF w
    <3> HIDE DEF next, W
    <3>2. walker'[u] = walker[u] \/ walker'[u] = next
      BY <3>1
    <3> QED
      BY <1>3, <1>11, <2>2, <3>2
  <2> QED
    BY <2>1, <2>2
<1>13. TransformationsTypeOK'
  BY <1>1, <1>3, <1>8, <1>9, <1>10, <1>12 DEF TransformationsTypeOK
<1>14. RequirementsKept'
  <2> SUFFICES ASSUME NEW r \in Rids, NEW i \in DOMAIN Declared[r]["requires"],
                      \A k \in DOMAIN config : Rules(config[k], r, Declared[r]["requires"][i]) = {}
                                               /\ r \notin DOMAIN config[k].override
               PROVE  In(services'[r]["requires"], Declared[r]["requires"][i])
    BY <1>1 DEF RequirementsKept, In
  <2> DEFINE s == Declared[r]["requires"][i]
  <2>1. PICK j \in DOMAIN services[r]["requires"] : services[r]["requires"][j] = s
    BY DEF TransInv, RequirementsKept
  <2>2. "requires" \in Lists
    BY DEF Lists
  <2>3. CASE r = m /\ n = "requires"
    <3>1. j \in DOMAIN old /\ old[j] = s
      BY <2>1, <2>3 DEF old
    <3>2. Rules(c, m, s) = {}
      BY <1>5, <2>3 DEF c
    <3> HIDE DEF s
    <3>3. In(new, s)
      BY <1>7, <3>1, <3>2
    <3>4. services'[r]["requires"] = new
      BY <1>8, <2>2, <2>3
    <3> QED
      BY <3>3, <3>4 DEF s
  <2>4. CASE ~(r = m /\ n = "requires")
    <3>1. services'[r]["requires"] = services[r]["requires"]
      BY <1>8, <2>2, <2>4
    <3> QED
      BY <2>1, <3>1 DEF In
  <2> QED
    BY <2>3, <2>4
<1> QED
  BY <1>13, <1>14 DEF TransInv

LEMMA TransUpdate ==
  ASSUME TransformationsAssumption, TransInv, NEW c \in Configurations, ConfigurationUpdate(c)
  PROVE  TransInv'
<1>1. /\ Current <= MaxChanges /\ config' = Append(config, c)
      /\ UNCHANGED <<services, walker, settled, checkpoints>>
  BY DEF ConfigurationUpdate
<1>2. config \in Seq(Configurations) /\ Current \in 1..(MaxChanges + 1) /\ MaxChanges \in Nat
  BY DEF TransInv, TransformationsTypeOK, TransformationsAssumption
<1>3. /\ config' \in Seq(Configurations) /\ Current' = Current + 1
      /\ \A k \in DOMAIN config : k \in DOMAIN config' /\ config'[k] = config[k]
  BY <1>1, <1>2, AppendProperties, LenProperties DEF Current
<1>4. Current' \in 1..(MaxChanges + 1) /\ 0..Current \subseteq 0..Current' /\ 1..Current \subseteq 1..Current'
  BY <1>1, <1>2, <1>3
<1>5. Resting' = Resting
  BY DEF Resting
<1>6. TransformationsTypeOK'
  <2>1. settled' \in [Rids -> 0..Current']
    BY <1>1, <1>4 DEF TransInv, TransformationsTypeOK
  <2>2. \A u \in Updaters : walker'[u] = Resting \/ walker'[u] \in
          [module : Rids, list : Lists, tree : 0..Current', begun : 1..Current']
    BY <1>1, <1>4 DEF TransInv, TransformationsTypeOK
  <2> QED
    BY <1>1, <1>3, <1>4, <1>5, <2>1, <2>2 DEF TransInv, TransformationsTypeOK
<1>7. RequirementsKept'
  <2> SUFFICES ASSUME NEW r \in Rids, NEW i \in DOMAIN Declared[r]["requires"],
                      \A k \in DOMAIN config' : Rules(config'[k], r, Declared[r]["requires"][i]) = {}
                                                /\ r \notin DOMAIN config'[k].override
               PROVE  \E j \in DOMAIN services[r]["requires"] :
                        services[r]["requires"][j] = Declared[r]["requires"][i]
    BY <1>1 DEF RequirementsKept
  <2>1. \A k \in DOMAIN config : Rules(config[k], r, Declared[r]["requires"][i]) = {}
                                 /\ r \notin DOMAIN config[k].override
    BY <1>3
  <2> QED
    BY <2>1 DEF TransInv, RequirementsKept
<1> QED
  BY <1>6, <1>7 DEF TransInv

LEMMA TransKept ==
  TransformationsAssumption => (TransformationsSpec => []TransInv)
<1> SUFFICES ASSUME TransformationsAssumption PROVE TransformationsSpec => []TransInv
  OBVIOUS
<1>1. TransformationsInit => TransInv
  BY TransInit
<1>2. TransInv /\ [TransformationsNext]_transformvars => TransInv'
  <2> SUFFICES ASSUME TransInv, [TransformationsNext]_transformvars PROVE TransInv'
    OBVIOUS
  <2>1. ASSUME NEW t \in Updaters, FindTree(t) PROVE TransInv'
    BY <2>1, TransFind
  <2>2. ASSUME NEW t \in Updaters, RewriteList(t) PROVE TransInv'
    BY <2>2, TransRewrite
  <2>3. ASSUME NEW t \in Updaters, NEW m \in Rids, BeginUpdate(t, m) PROVE TransInv'
    BY <2>3, TransBegin
  <2>4. ASSUME NEW c \in Configurations, ConfigurationUpdate(c) PROVE TransInv'
    BY <2>4, TransUpdate
  <2>5. CASE UNCHANGED <<config, services, walker, settled>>
    <3>1. TransformationsTypeOK'
      BY <2>5 DEF TransInv, TransformationsTypeOK, Current, Resting
    <3>2. RequirementsKept'
      BY <2>5 DEF TransInv, RequirementsKept
    <3> QED
      BY <3>1, <3>2 DEF TransInv
  <2>6. CASE ScanCheckpoints
    BY <2>5, <2>6 DEF ScanCheckpoints
  <2> QED
    BY <2>1, <2>2, <2>3, <2>4, <2>5, <2>6 DEF TransformationsNext, transformvars
<1> QED
  BY <1>1, <1>2, PTL DEF TransformationsSpec

\* The lists of a module are lists of services, and a thread that updates one reads the
\* rules of a configuration that has been (einit_module_transformations_einit_event_handler).
THEOREM TransformationsTyped ==
  TransformationsAssumption => (TransformationsSpec => []TransformationsTypeOK)
<1>1. TransInv => TransformationsTypeOK
  BY DEF TransInv
<1> QED
  BY <1>1, TransKept, PTL

\* What a module requires stays required for any modules, threads, rules, aliases and
\* overrides that do not speak of it, however the configuration changes while threads walk
\* through the rules (einit_module_transformations_einit_event_handler).
THEOREM NothingForgotten ==
  TransformationsAssumption => (TransformationsSpec => []RequirementsKept)
<1>1. TransInv => RequirementsKept
  BY DEF TransInv
<1> QED
  BY <1>1, TransKept, PTL
=============================================================================
