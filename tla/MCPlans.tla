------------------------------ MODULE MCPlans ------------------------------
(***************************************************************************)
(* Configurations and requests for model-checking Plans.                   *)
(***************************************************************************)
EXTENDS Plans, TLC

CONSTANTS a, b, c, d, e,  \* services
          m1, m2          \* modes

Request0 == [mode |-> NoMode, enable |-> {}, disable |-> {}, shutdown |-> FALSE]
Enable(X) == [Request0 EXCEPT !.enable = X]
Disable(X) == [Request0 EXCEPT !.disable = X]
Switch(m, X, Y) == [mode |-> m, enable |-> X, disable |-> Y, shutdown |-> FALSE]
Shutdown(m, X) == [Switch(m, {}, X) EXCEPT !.shutdown = TRUE]

\* a needs b; nothing provides c.
Pair == (a :> << {b} >>) @@ (b :> << {} >>) @@ (c :> << >>)
\* The same, and d can be had in two ways, one of which needs e, which needs d.
WayOut == Pair @@ (d :> << {e}, {} >>) @@ (e :> << {d} >>)
\* Both ways to a need b.
Alternatives == (a :> << {b}, {b} >>) @@ (b :> << {} >>)

EnableFirst == {Enable({a}), Enable({b})}
Contrary == {Switch(m1, {a}, {}), Disable({a}), Switch(m2, {}, {b}), Enable({b})}
UpAndDown == {Enable({a, c}), Enable({b}), Disable({a}), Disable({b}), Switch(m2, {b}, {}),
              Shutdown(m1, {a, b})}
EachOther == {Enable({d}), Enable({e})}
Answered == UpAndDown \cup EachOther

\* The threads that commit plans are alike.
Symmetric == Permutations(Plans)

\* Bound: the module list is updated only while nothing is to go down.
Bounded == revision = 0 \/ \A p \in Plans : req[p].disable = {}

\* Two services that need each other start out down.
AnswerInit == Init /\ up[d] = 0

\* Ten quiet seconds are sure to pass only where two services need each other: where
\* modules fail, a plan has to be answered without them.
AnswerSpec ==
  /\ AnswerInit /\ [][Next]_vars /\ Progress
  /\ \A p \in Plans : SF_vars(Stall(p) /\ req[p] \in EachOther)
=============================================================================
