------------------------------- MODULE Texts -------------------------------
(* The conversions of texts that configuration, commands and replies pass   *)
(* through: str2set() and set2str() of set-lowmem.c, apply_variables() and  *)
(* strip_empty_variables() of utility.c.  A text is a sequence of           *)
(* characters.  The only action writes one more character, so that the      *)
(* reachable states are all texts of up to MaxText characters and an        *)
(* invariant speaks of the conversions of every one of them.                *)
EXTENDS Naturals, SequencesExt

CONSTANTS Chars,       \* the characters texts are written with
          Separator,   \* the one str2set() is asked to split at
          Name, Value, \* the only variable of the environment
          MaxText      \* bound: characters of a text

VARIABLE text

Start == text = <<>>

Write(c) == Len(text) < MaxText /\ text' = Append(text, c)

(***************************************************************************)
(* Sets of strings and their text.                                         *)
(***************************************************************************)

\* str2set(): the last position is never looked at, a separator there stays.
Splits(s) == {i \in 1..(Len(s) - 1) : s[i] = Separator}

\* str2set() with the splits at the positions P: what lies between them.
Pieces(s, P) ==
    LET cuts == SetToSortSeq({0, Len(s) + 1} \cup P, LAMBDA x, y : x < y)
    IN  [i \in 1..(Len(cuts) - 1) |-> SubSeq(s, cuts[i] + 1, cuts[i + 1] - 1)]

Str2Set(s) == Pieces(s, Splits(s))

Set2Str(set) ==
    FoldLeft(LAMBDA acc, i : acc \o (IF i = 1 THEN <<>> ELSE <<Separator>>) \o set[i],
             <<>>, [i \in 1..Len(set) |-> i])

(***************************************************************************)
(* Variables.  apply_variables() reads from left to right; rspos is where  *)
(* the text begins that is still to be copied should the variable that is  *)
(* being read turn out to be none, reading says that one is.               *)
(***************************************************************************)
At(s, i) == IF i \in 1..Len(s) THEN s[i] ELSE "end"
Opens(s, i) == At(s, i) = "$" /\ At(s, i + 1) = "{"

Scan0 == [pos |-> 1, out |-> <<>>, rspos |-> 1, reading |-> FALSE]

\* Mutant: the start of a variable inside of which another begins is dropped.
Open_Forgetful(s, r) == [r EXCEPT !.pos = @ + 2, !.rspos = r.pos + 2, !.reading = TRUE]

\* "${" inside of a variable: what was read of that one is plain text.
Open(s, r) ==
    [pos |-> r.pos + 2,
     out |-> IF r.reading THEN r.out \o SubSeq(s, r.rspos - 2, r.pos - 1) ELSE r.out,
     rspos |-> r.pos + 2, reading |-> TRUE]

Close(s, r, env) ==
    LET name == SubSeq(s, r.rspos, r.pos - 1)
    IN  [pos |-> r.pos + 1,
         out |-> r.out \o (IF name \in DOMAIN env THEN env[name] ELSE SubSeq(s, r.rspos - 2, r.pos)),
         rspos |-> r.pos, reading |-> FALSE]

Scan(s, r, env) ==
    CASE Opens(s, r.pos) -> Open(s, r)
      [] ~Opens(s, r.pos) /\ r.reading /\ s[r.pos] = "}" -> Close(s, r, env)
      [] ~Opens(s, r.pos) /\ r.reading /\ s[r.pos] # "}" -> [r EXCEPT !.pos = @ + 1]
      [] OTHER -> [r EXCEPT !.pos = @ + 1, !.out = Append(@, s[r.pos]), !.rspos = r.pos + 3]

\* The scan of the whole text: at most one step for each character.
Scanned(s, env) ==
    FoldLeft(LAMBDA r, i : IF r.pos > Len(s) THEN r ELSE Scan(s, r, env), Scan0, s)

ApplyVariables(s, env) == Scanned(s, env).out

\* strip_empty_variables(): the first "${" that is followed by "}" goes with
\* all in between; the text that is left is searched anew.
FirstVariable(s) ==
    LET ends == {p \in (1..Len(s)) \X (1..Len(s)) :
                   /\ p[1] + 1 < p[2] /\ Opens(s, p[1]) /\ s[p[2]] = "}"
                   /\ \A q \in (p[1] + 2)..(p[2] - 1) : s[q] \notin {"$", "}"}}
    IN  IF ends = {} THEN <<0, 0>> ELSE CHOOSE p \in ends : \A q \in ends : p[2] <= q[2]

StripOnce(s) ==
    LET p == FirstVariable(s)
    IN  IF p = <<0, 0>> THEN s ELSE SubSeq(s, 1, p[1] - 1) \o SubSeq(s, p[2] + 1, Len(s))

StripEmptyVariables(s) == FoldLeft(LAMBDA t, c : StripOnce(t), s, s)

-----------------------------------------------------------------------------
Next == \E c \in Chars : Write(c)

Spec == Start /\ [][Next]_text

TypeOK == text \in BoundedSeq(Chars, MaxText)

-----------------------------------------------------------------------------
(* Properties.                                                             *)

\* A text that is taken apart and put together again is the same text, and
\* no string of the set in between holds a separator except the last, at its
\* end (str2set, set2str).  Not the other way round: <<a, empty>> becomes the
\* text "a&", which is read as the one string that it is.
SplitJoins ==
    /\ Set2Str(Str2Set(text)) = text
    /\ \A i \in 1..Len(Str2Set(text)) : \A j \in 1..Len(Str2Set(text)[i]) :
         Str2Set(text)[i][j] = Separator => i = Len(Str2Set(text)) /\ j = Len(Str2Set(text)[i])

\* apply_variables(): a text without a variable that is known comes out as it
\* went in, nested and broken variables included, unless its last variable
\* is never closed; and no known variable is left.  What is
\* stripped afterwards has no variable left at all, not even one that the
\* removal of another has put together.
Env == (Name :> Value)
Holds(s, part) == \E i \in 1..(Len(s) - Len(part) + 1) : SubSeq(s, i, i + Len(part) - 1) = part

VariablesResolved ==
    LET none == [n \in {} |-> <<>>]
        mention == <<"$", "{">> \o Name \o <<"}">>
    IN  /\ ~Scanned(text, none).reading => ApplyVariables(text, none) = text
        /\ ~Scanned(text, Env).reading /\ ~Holds(text, mention) => ApplyVariables(text, Env) = text
        /\ ~Holds(ApplyVariables(text, Env), mention)
        /\ FirstVariable(StripEmptyVariables(ApplyVariables(text, Env))) = <<0, 0>>

=============================================================================
