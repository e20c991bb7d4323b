---------------------------- MODULE MCWorkingMemory ----------------------------
(* WorkingMemory on small sets of evidence. *)
EXTENDS WorkingMemory

Plain == [kind |-> "sensor", keys |-> {}, at |-> 0, result |-> 0,
          refused |-> FALSE, invalid |-> FALSE, faithful |-> TRUE, source |-> "",
          frame |-> None, interp |-> None, depth |-> None]

Sense(kind, key, at) ==
    [Plain EXCEPT !.kind = kind, !.keys = {key}, !.at = at, !.result = at]
Robot(keys, at) ==
    [Plain EXCEPT !.kind = "robot", !.keys = keys, !.at = at, !.result = at]
Interpretation(frame, at, result) ==
    [Plain EXCEPT !.kind = "interpretation", !.keys = {"camera|producer"},
                  !.at = at, !.result = result, !.frame = frame]
Semantic(interp, frame, at, result) ==
    [Plain EXCEPT !.kind = "semantic", !.at = at, !.result = result,
                  !.source = "camera|producer", !.frame = frame, !.interp = interp]
Fused(frame, depth, at, result) ==
    [Plain EXCEPT !.kind = "fused", !.keys = {"fused"}, !.at = at,
                  !.result = result, !.frame = frame, !.depth = depth]

\* Three frames, interpretations whose results come in another order than their
\* frames, their semantic batches, one of them unfaithful, a fused frame, robot
\* states that overlap in their joints, entities over capacity, and evidence that
\* is refused or invalid.
Mixed ==
    << Sense("visual", "camera", 1),
       Sense("visual", "camera", 2),
       Sense("visual", "camera", 4),
       Interpretation(1, 1, 3),
       Interpretation(2, 2, 2),
       Interpretation(2, 2, 3),
       Interpretation(3, 4, 4),
       Semantic(4, 1, 1, 3),
       Semantic(5, 2, 2, 2),
       Semantic(6, 2, 2, 3),
       Semantic(7, 3, 4, 4),
       [Semantic(5, 2, 2, 2) EXCEPT !.faithful = FALSE],
       Sense("depth", "depth", 2),
       Fused(2, 13, 2, 2),
       Robot({"j1", "j2"}, 1),
       Robot({"j1"}, 2),
       Robot({"j2"}, 3),
       Sense("entity", "x", 1),
       Sense("entity", "y", 2),
       [Robot({"j1"}, 3) EXCEPT !.refused = TRUE],
       [Robot({"j2"}, 3) EXCEPT !.invalid = TRUE] >>
================================================================================
