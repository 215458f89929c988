--------------------------- MODULE MCKeyLifecycle ---------------------------
(* Handles are strings; the name "Bob" is the other spelling of "bob". *)
EXTENDS KeyLifecycle, TLC

MCHandleOf == [n \in Name |-> IF n = "Bob" THEN "bob" ELSE n]

Symmetry == Permutations(Proc)
=============================================================================
