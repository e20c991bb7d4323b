-------------------------- MODULE MCPerceptionBoundary --------------------------
(* PerceptionBoundary on small sets of evidence. *)
EXTENDS PerceptionBoundary, Sequences

Plain(key, at) ==
    [kind |-> "plain", key |-> key, at |-> at, result |-> at, seal |-> "none",
     refused |-> FALSE, mismatch |-> FALSE, faithful |-> TRUE, usable |-> TRUE,
     frame |-> None, depth |-> None, interp |-> None, pair |-> None]

Frame(kind, at) == [Plain(kind, at) EXCEPT !.kind = kind]
Health(seal, at) == [Plain("health:" \o seal, at) EXCEPT !.seal = seal]
Sealed(kind, seal, at, health) ==
    [Frame(kind, at) EXCEPT !.seal = seal, !.pair = health]
Interpretation(frame, at, result, seal) ==
    [Plain("interpretation", at) EXCEPT
        !.kind = "interpretation", !.result = result, !.frame = frame, !.seal = seal]
Semantic(interp, frame, at, result) ==
    [Plain("semantic", at) EXCEPT
        !.kind = "semantic", !.result = result, !.frame = frame, !.interp = interp]
Fused(frame, depth, at) ==
    [Plain("fused", at) EXCEPT
        !.kind = "fused", !.seal = "fused", !.frame = frame, !.depth = depth]

\* Frames that expire one after the other, one of them sealed by a camera adapter
\* with its health fact, one unusable, and results that come in another order than
\* their frames, evaluated and not, with their semantic observations, one of them
\* unfaithful; sealed depth frames, pairs fused with them, and evidence that is
\* refused.
Mixed ==
    << Sealed("visual", "physical", 1, 2),
       Health("physical", 1),
       Frame("visual", 2),
       [Frame("visual", 3) EXCEPT !.usable = FALSE],
       Sealed("depth", "depth", 1, 6),
       Health("depth", 1),
       Interpretation(1, 1, 3, "evaluated"),
       Interpretation(3, 2, 2, "none"),
       Interpretation(3, 2, 4, "evaluated"),
       Interpretation(4, 3, 3, "none"),
       Semantic(7, 1, 1, 3),
       Semantic(8, 3, 2, 2),
       [Semantic(8, 3, 2, 2) EXCEPT !.faithful = FALSE],
       Fused(1, 5, 1),
       [Fused(1, 5, 1) EXCEPT !.mismatch = TRUE],
       [Frame("visual", 2) EXCEPT !.refused = TRUE] >>
================================================================================
