--------------------------- MODULE MCMemoryValidation ---------------------------
(* MemoryValidation on a small instance. *)
EXTENDS MemoryValidation

CONSTANTS owner, m1, m2, m3, v1, v2, k1, k2, a

Ids3 == {m1, m2, m3}
Values == {v1, v2}
Keys == {k1, k2}
One == {a}

\* k2 is a variant spelling of k1.
VariantKeys == [k \in Key |-> k1]

Symmetric == Permutations(Ids3) \cup Permutations(Values)
================================================================================
