----------------------------- MODULE MCMemoryStore -----------------------------
(* MemoryStore with two clients. *)
EXTENDS MemoryStore, TLC

CONSTANTS owner, inference, m1, m2, m3, v1, v2, k1, k2, a, b

Ids == {m1, m2, m3}
Values == {v1, v2}
Keys == {k1, k2}
Clients == {a, b}

Symmetric == Permutations(Ids) \cup Permutations(Values) \cup Permutations(Clients)
             \cup Permutations(Keys)

\* Bound: three memories are stored only while the clock stands still.
Timeless ==
    /\ clock = 0
    /\ \A i \in Stored : memories[i].status_changed_at = 0
    /\ \A c \in Client : call[c].at = 0
Bounded == Cardinality(Stored) <= 2 \/ Timeless
================================================================================
