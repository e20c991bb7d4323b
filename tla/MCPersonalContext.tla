--------------------------- MODULE MCPersonalContext ---------------------------
(* PersonalContext with one writing client. *)
EXTENDS PersonalContext, TLC

CONSTANTS owner, m1, m2, m3, v1, v2, taste, episode, foreign, a

Ids == {m1, m2, m3}
Values == {v1, v2}

Symmetric == Permutations(Ids) \cup Permutations(Values)
================================================================================
