---------------------------- MODULE MCConsolidation ----------------------------
(* Consolidation over two frames with what was seen in them. *)
EXTENDS Consolidation

Plain == [kind |-> "entity", keys |-> {}, at |-> 0, result |-> 0,
          refused |-> FALSE, invalid |-> FALSE, faithful |-> TRUE, source |-> "",
          frame |-> None, interp |-> None, depth |-> None]

Frame(at) == [Plain EXCEPT !.kind = "visual", !.keys = {"camera"}, !.at = at,
                           !.result = at]
Interpretation(frame, at, result) ==
    [Plain EXCEPT !.kind = "interpretation", !.keys = {"camera|producer"},
                  !.at = at, !.result = result, !.frame = frame]
Batch(interp, frame, at, result) ==
    [Plain EXCEPT !.kind = "semantic", !.at = at, !.result = result,
                  !.source = "camera|producer", !.frame = frame, !.interp = interp]
Entity(key, at) == [Plain EXCEPT !.keys = {key}, !.at = at, !.result = at]

\* A frame, interpreted twice, with the batch of each interpretation, and an
\* entity of a time that has no UTC form.
Seen ==
    << Frame(0), Interpretation(1, 0, 0), Batch(2, 1, 0, 0),
       Interpretation(1, 0, 1), Batch(4, 1, 0, 1), Entity("x", 1) >>

Item(id, kind, value, confidence, size, detected) ==
    [id |-> id, kind |-> kind, value |-> value, confidence |-> confidence,
     size |-> size, detected |-> detected]

\* A person found in two places and an object, with an item without confidence
\* and one no detection stands behind; before that, another person and object.
SeenItems ==
    << {}, {},
       {Item(1, "person", 1, 9, 4, TRUE), Item(2, "object", 1, 9, 4, TRUE)},
       {},
       {Item(3, "person", 2, 8, 4, TRUE), Item(4, "person", 1, 9, 5, TRUE),
        Item(5, "object", 2, None, 4, TRUE), Item(6, "person", 3, 9, 4, FALSE),
        Item(7, "object", 1, 9, 4, TRUE)},
       {} >>

SeenConfidence == <<None, None, None, None, None, 9>>

Request(type, predicate, value, i, item) ==
    [robot |-> "ayyo", claim |-> Claim(type, "ayyo", predicate, value), obs |-> i,
     item |-> item, exact |-> TRUE]

\* Claims that go further than the evidence, references that do not fit.
CallerRequests ==
    { Request("EPISODIC", "person", 1, 3, 1),
      Request("SEMANTIC", "person", 1, 3, 1),
      Request("PREFERENCE", "person", 1, 3, 1),
      Request("EPISODIC", "object", 2, 5, 5),
      Request("EPISODIC", "person", 3, 5, 6),
      Request("EPISODIC", "person", 1, 3, None),
      Request("SPATIAL", "near", 1, 6, None),
      Request("SPATIAL", "near", 1, 6, 1),
      Request("SPATIAL", "near", 1, 1, None),
      [Request("EPISODIC", "person", 1, 3, 1) EXCEPT !.robot = "other"],
      [Request("EPISODIC", "person", 1, 3, 1) EXCEPT !.exact = FALSE] }

Offered(type, predicate, value, prov, confidence) ==
    [candidate |->
        [claim |-> Claim(type, "ayyo", predicate, value), prov |-> prov,
         source |-> <<0, 0>>, confidence |-> confidence, at |-> 0,
         semantic |-> "none", robot |-> "ayyo", correction |-> FALSE,
         bridge |-> TRUE, size |-> 4],
     eligible |-> prov = "DIRECT_OBSERVATION"]

Likes(value, prov) == Offered("PREFERENCE", "likes", value, prov, 9)

\* Owners' statements that agree, differ and repeat, inferences, corrections, and
\* candidates that claim more than they may.
CallerOffers ==
    { <<>>,
      <<Likes(1, "EXPLICIT_OWNER_STATEMENT"), Offered("EPISODIC", "fell", 1, "SYSTEM_EVENT", 4)>>,
      <<Likes(1, "EXPLICIT_OWNER_STATEMENT"), Likes(2, "TRUSTED_MANUAL_IMPORT")>>,
      <<Likes(1, "EXPLICIT_OWNER_STATEMENT"), Likes(1, "EXPLICIT_OWNER_STATEMENT")>>,
      <<Likes(1, "EXPLICIT_OWNER_STATEMENT"), Likes(1, "DERIVED_INFERENCE")>>,
      <<Offered("SEMANTIC", "is", 1, "DERIVED_INFERENCE", 9), Likes(1, "DIRECT_OBSERVATION")>>,
      <<Offered("SPATIAL", "near", 1, "DIRECT_OBSERVATION", 9),
        [Offered("SPATIAL", "near", 1, "DIRECT_OBSERVATION", 9) EXCEPT !.eligible = FALSE]>>,
      <<[Likes(1, "EXPLICIT_OWNER_STATEMENT") EXCEPT !.candidate.correction = TRUE],
        Likes(2, "EXPLICIT_OWNER_STATEMENT")>>,
      <<Offered("PROCEDURAL", "how", 1, "SYSTEM_EVENT", 9), Offered("FAILURE", "fell", 1, "SYSTEM_EVENT", None)>>,
      <<[Offered("SEMANTIC", "named", 1, "DIRECT_OBSERVATION", 9)
            EXCEPT !.candidate.semantic = "person"]>>,
      <<[Likes(1, "EXPLICIT_OWNER_STATEMENT") EXCEPT !.candidate.size = 99]>>,
      [n \in 1..4 |-> Likes(n, "EXPLICIT_OWNER_STATEMENT")] }
================================================================================
