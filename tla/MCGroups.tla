------------------------------ MODULE MCGroups ------------------------------
(***************************************************************************)
(* A group of two services for model-checking Groups.                      *)
(***************************************************************************)
EXTENDS Groups

CONSTANTS a, b, g

MCRequires == [s \in {a, b, g} |-> << {} >>]
Grouped(seq) == [s \in {a, b, g} |-> [group |-> IF s = g THEN <<a, b>> ELSE << >>, seq |-> seq]]
SeqMost == Grouped("most")

Up(X) == [enable |-> X, disable |-> {}]
MCRequests == {Up({g})}
=============================================================================
