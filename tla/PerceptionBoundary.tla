--------------------------- MODULE PerceptionBoundary ---------------------------
(***************************************************************************)
(* The perception trust boundary (perception/boundary.py): what evidence   *)
(* is let in, in which order, and on whose word.                           *)
(*                                                                         *)
(* Evidence of a camera, depth camera or microphone with a lifecycle       *)
(* adapter, evaluated interpretations and fused frames are admitted only   *)
(* on an authorization given before, which the attempt consumes whether it *)
(* succeeds or not.  Frames, interpretations and semantic observations     *)
(* form a chain of references that expiry and three capacities cut at any  *)
(* link.  Every method holds the boundary's lock: each is one action, and  *)
(* what is hard is the sequence.                                           *)
(*                                                                         *)
(* Abstractions.  An observation is a number with a fixed description; its *)
(* identity is a digest of its content, so equality of identities stands   *)
(* for the code's comparisons of whole observations.  Times are ticks.     *)
(***************************************************************************)
EXTENDS Integers, FiniteSets

CONSTANTS
    Evidence,     \* the observations that may arrive: a function of their ids
    Freshness, Ttl, Skew,
    Capacity,     \* MAX_VISUAL_SOURCE_REFERENCES, and the two equal to it
    MaxTime,      \* bound: the last source time
    MaxReceipt    \* bound: the last receipt time

None == -1

Ids == DOMAIN Evidence
obs == Evidence     \* obs[i] is observation i

\* seal says which authorization the evidence needs: "none", an adapter's, or
\* "evaluated" or "fused".  refused: wrong robot, clock or source contract;
\* mismatch: it differs from the requirement or its producer is unknown;
\* faithful: it repeats the metadata of its sources; usable: the frame is
\* available.  pair is the health fact sealed with a frame.
Observation ==
    [kind: {"plain", "visual", "depth", "fused", "interpretation", "semantic"},
     key: STRING, at: Nat, result: Nat,
     seal: {"none", "physical", "depth", "audio", "evaluated", "fused"},
     refused: BOOLEAN, mismatch: BOOLEAN, faithful: BOOLEAN, usable: BOOLEAN,
     frame: Ids \cup {None}, depth: Ids \cup {None}, interp: Ids \cup {None},
     pair: Ids \cup {None}]

ASSUME BoundsAssumption ==
    /\ Freshness \in Nat /\ Ttl \in Nat /\ Freshness < Ttl /\ Skew \in Nat
    /\ Capacity \in Nat \ {0} /\ MaxTime \in Nat /\ MaxReceipt \in Nat
\* A frame and its health fact are under one seal, and fused evidence is always
\* under its own.
ASSUME EvidenceAssumption ==
    /\ Ids \subseteq Nat
    /\ \A i \in Ids :
          /\ Evidence[i] \in Observation /\ Evidence[i].at <= Evidence[i].result
          /\ Evidence[i].pair # None => Evidence[Evidence[i].pair].seal = Evidence[i].seal
          /\ Evidence[i].kind = "fused" => Evidence[i].seal = "fused"

VARIABLES
    visual_sources, depth_sources, interpretations, semantics,
    authorized,    \* per kind of seal, the observations authorized
    last_by_key,   \* per state key, the last observation admitted
    last_now, last_receipt,
    admitted       \* history: everything admitted since the last reset

sources == <<visual_sources, depth_sources, interpretations, semantics>>
vars == <<visual_sources, depth_sources, interpretations, semantics, authorized,
          last_by_key, last_now, last_receipt, admitted>>

Seals == {"physical", "depth", "audio", "evaluated", "fused"}

Fresh ==
    /\ visual_sources = {} /\ depth_sources = {} /\ interpretations = {}
    /\ semantics = {} /\ authorized = [s \in Seals |-> {}]
    /\ last_by_key = [k \in {} |-> None]
    /\ last_now = None /\ last_receipt = None /\ admitted = {}

Init == Fresh
--------------------------------------------------------------------------------
\* Interpretations are ordered by the time of their result.
Stamp(i) == IF obs[i].kind = "interpretation" THEN obs[i].result
            ELSE obs[i].at

EarlierStamp(i, j) == Stamp(i) < Stamp(j) \/ (Stamp(i) = Stamp(j) /\ i < j)

\* The loops that drop the oldest entry until the capacity holds.
Bounded(S) == {i \in S : Cardinality({j \in S : EarlierStamp(i, j)}) < Capacity}

\* The boundary's references: frames, depth frames, interpretations, semantic
\* observations, and the authorizations that hang on them.
Refs == [vis |-> visual_sources, dep |-> depth_sources, int |-> interpretations,
         sem |-> semantics, auth |-> authorized]

\* Expired frames go, and with them everything that hangs on them.
_purge_visual_sources(r, now) ==
    LET vis == {i \in r.vis : obs[i].at >= now - Ttl}
        dep == {i \in r.dep : obs[i].at >= now - Ttl}
        int == {i \in r.int : obs[i].frame \in vis}
    IN  [r EXCEPT
          !.vis = vis, !.dep = dep, !.int = int,
          !.sem = {i \in @ : obs[i].frame \in vis /\ obs[i].interp \in int},
          !.auth.evaluated = {i \in @ : obs[i].frame \in vis},
          !.auth.fused = {i \in @ : /\ obs[i].frame \in vis
                                    /\ obs[i].depth \in dep}]

\* Mutant: an evicted frame's interpretations stay.
_remember_visual_source_mutant(r, i) == [r EXCEPT !.vis = Bounded(@ \cup {i})]

\* A frame evicted for capacity takes its interpretations, semantic observations
\* and evaluations with it, but not the authorizations of what was fused from it.
_remember_visual_source(r, i) ==
    LET vis  == Bounded(r.vis \cup {i})
        gone == (r.vis \cup {i}) \ vis
        rest(S) == {x \in S : obs[x].frame \notin gone}
    IN  [r EXCEPT !.vis = vis, !.int = rest(@), !.sem = rest(@),
                  !.auth.evaluated = rest(@)]

\* Mutant: the newest interpretation clears all semantic observations.
_remember_visual_interpretation_mutant(r, i) ==
    [r EXCEPT !.int = Bounded(@ \cup {i}), !.sem = {}]

_remember_visual_interpretation(r, i) ==
    LET int == Bounded(r.int \cup {i}) IN
    [r EXCEPT !.int = int, !.sem = {s \in @ : obs[s].interp \in int}]

_remember_depth_source(r, i) ==
    LET dep == Bounded(r.dep \cup {i}) IN
    [r EXCEPT !.dep = dep, !.auth.fused = {f \in @ : obs[f].depth \in dep}]

Install(r) ==
    /\ visual_sources' = r.vis /\ depth_sources' = r.dep
    /\ interpretations' = r.int /\ semantics' = r.sem /\ authorized' = r.auth
--------------------------------------------------------------------------------
(* Authorizations. *)

\* A frame of a lifecycle adapter and the health fact sealed with it.
\* (authorize_physical_camera, authorize_depth_camera, authorize_audio)
authorize_sealed(i) ==
    LET e == obs[i] IN
    /\ e.seal \in {"physical", "depth", "audio"} /\ e.pair # None
    /\ ~e.refused /\ ~e.mismatch /\ obs[e.pair].at = e.at
    /\ authorized' = [authorized EXCEPT ![e.seal] = Bounded(@ \cup {i, e.pair})]
    /\ UNCHANGED <<sources, last_by_key, last_now, last_receipt, admitted>>

\* One sealed evaluator result of a frame that is retained.
authorize_evaluated_visual(i) ==
    LET e == obs[i] IN
    /\ e.kind = "interpretation" /\ e.seal = "evaluated"
    /\ ~e.mismatch /\ e.frame \in visual_sources /\ e.faithful
    /\ authorized' = [authorized EXCEPT !.evaluated = Bounded(@ \cup {i})]
    /\ UNCHANGED <<sources, last_by_key, last_now, last_receipt, admitted>>

\* One sealed pair of frames that are both retained.
authorize_rgbd_fusion(i) ==
    LET e == obs[i] IN
    /\ e.kind = "fused" /\ ~e.mismatch
    /\ e.frame \in visual_sources /\ e.depth \in depth_sources
    /\ authorized' = [authorized EXCEPT !.fused = Bounded(@ \cup {i})]
    /\ UNCHANGED <<sources, last_by_key, last_now, last_receipt, admitted>>
--------------------------------------------------------------------------------
(* admit *)

\* The references once the attempt has popped its authorization.
Consumed(r, i) ==
    LET s == obs[i].seal IN
    IF s = "none" THEN r ELSE [r EXCEPT !.auth[s] = @ \ {i}]

\* Why the evidence is refused by its seal, before its content is looked at.
SealRefusal(i) ==
    LET e == obs[i] IN
    IF e.mismatch THEN "MISMATCH"
    ELSE IF e.seal # "none" /\ i \notin authorized[e.seal] THEN "NOT_AUTHORIZED"
    ELSE "ok"

\* The checks of a Person or Object observation, after the purge that left r.
SemanticRefusal(i, r, now) ==
    LET e == obs[i] IN
    IF e.at > now + Skew THEN "FUTURE_OBSERVATION"
    ELSE IF e.at < now - Freshness THEN "STALE_OBSERVATION"
    ELSE IF e.frame \notin r.vis THEN "SOURCE_FRAME_NOT_ADMITTED"
    ELSE IF ~obs[e.frame].usable THEN "SOURCE_UNAVAILABLE"
    ELSE IF obs[e.frame].at # e.at THEN "SOURCE_FRAME_MISMATCH"
    ELSE IF e.result > now + Skew THEN "RESULT_TIME_INVALID"
    ELSE IF e.interp \notin r.int THEN "SOURCE_INTERPRETATION_NOT_ADMITTED"
    ELSE IF \/ ~e.faithful \/ obs[e.interp].frame # e.frame
            \/ obs[e.interp].result # e.result
         THEN "SEMANTIC_MAPPING_MISMATCH"
    ELSE "ok"

InterpretationRefusal(i, r, now) ==
    LET e == obs[i] IN
    IF e.frame \notin r.vis THEN "SOURCE_FRAME_NOT_ADMITTED"
    ELSE IF ~e.faithful \/ obs[e.frame].at # e.at THEN "SOURCE_FRAME_MISMATCH"
    ELSE IF e.result > now + Skew THEN "RESULT_TIME_INVALID"
    ELSE "ok"

ContentRefusal(i, r, now) ==
    IF obs[i].kind = "semantic" THEN SemanticRefusal(i, r, now)
    ELSE IF obs[i].kind = "interpretation" THEN InterpretationRefusal(i, r, now)
    ELSE IF obs[i].seal = "audio" /\ obs[i].result > now + Skew
         THEN "RESULT_TIME_INVALID"
    ELSE "ok"

TimeRefusal(i, now) ==
    IF obs[i].at > now + Skew THEN "FUTURE_OBSERVATION"
    ELSE IF obs[i].at < now - Ttl THEN "STALE_OBSERVATION"
    ELSE "ok"

\* Mutant: what a key admitted last is forgotten with the frames it came from.
OrderRefusal_mutant(i, r) ==
    LET k == obs[i].key IN
    IF obs[i].kind = "semantic"
    THEN IF i \in r.sem THEN "DUPLICATE"
         ELSE IF Cardinality(r.sem) >= Capacity THEN "SEMANTIC_CAPACITY_REACHED"
         ELSE "ok"
    ELSE IF k \notin DOMAIN last_by_key THEN "ok"
    ELSE IF i = last_by_key[k] THEN "DUPLICATE"
    ELSE IF last_by_key[k] \notin r.vis \cup r.dep \cup r.int THEN "ok"
    ELSE IF Stamp(i) < Stamp(last_by_key[k]) THEN "OUT_OF_ORDER"
    ELSE IF Stamp(i) = Stamp(last_by_key[k]) THEN "TEMPORAL_CONFLICT"
    ELSE "ok"

OrderRefusal(i, r) ==
    LET k == obs[i].key IN
    IF obs[i].kind = "semantic"
    THEN IF i \in r.sem THEN "DUPLICATE"
         ELSE IF Cardinality(r.sem) >= Capacity THEN "SEMANTIC_CAPACITY_REACHED"
         ELSE "ok"
    ELSE IF k \notin DOMAIN last_by_key THEN "ok"
    ELSE IF i = last_by_key[k] THEN "DUPLICATE"
    ELSE IF Stamp(i) < Stamp(last_by_key[k]) THEN "OUT_OF_ORDER"
    ELSE IF Stamp(i) = Stamp(last_by_key[k]) THEN "TEMPORAL_CONFLICT"
    ELSE "ok"

\* The references after an admission: purged, then with the evidence remembered.
Remembered(i, r, now) ==
    LET p == _purge_visual_sources(r, now) IN
    CASE obs[i].kind = "visual" -> _remember_visual_source(p, i)
      [] obs[i].kind = "depth" -> _remember_depth_source(p, i)
      [] obs[i].kind = "interpretation" -> _remember_visual_interpretation(p, i)
      [] obs[i].kind = "semantic" -> [p EXCEPT !.sem = @ \cup {i}]
      [] OTHER -> p

\* admit(observation, now_ns, received_at_monotonic_ns).  A source time before
\* the last one raises PerceptionClockRegressionError and changes nothing.
admit(i, now, receipt) ==
    LET e  == obs[i]
        popped == IF e.mismatch THEN Refs ELSE Consumed(Refs, i)
        r  == IF e.kind = "semantic" THEN _purge_visual_sources(popped, now) ELSE popped
        ok == /\ SealRefusal(i) = "ok" /\ ContentRefusal(i, r, now) = "ok"
              /\ TimeRefusal(i, now) = "ok" /\ OrderRefusal(i, r) = "ok"
    IN  /\ now >= last_now
        /\ last_now' = now
        /\ last_receipt' = IF receipt < last_receipt THEN last_receipt ELSE receipt
        /\ IF receipt < last_receipt \/ e.refused
           THEN UNCHANGED <<sources, authorized, last_by_key, admitted>>
           ELSE IF ~ok
           THEN /\ Install(IF SealRefusal(i) = "ok" THEN r ELSE popped)
                /\ UNCHANGED <<last_by_key, admitted>>
           ELSE /\ Install(Remembered(i, r, now))
                /\ last_by_key' = IF e.kind = "semantic" THEN last_by_key
                                  ELSE [k \in DOMAIN last_by_key \cup {e.key} |->
                                          IF k = e.key THEN i ELSE last_by_key[k]]
                /\ admitted' = admitted \cup {i}

\* A typed failure of a source is admitted as a health fact of its sensor.
report_failure(i, now, receipt) ==
    /\ obs[i].kind = "plain" /\ ~obs[i].refused
    /\ admit(i, now, receipt)

reset ==
    /\ visual_sources' = {} /\ depth_sources' = {} /\ interpretations' = {}
    /\ semantics' = {} /\ authorized' = [s \in Seals |-> {}]
    /\ last_by_key' = [k \in {} |-> None]
    /\ last_now' = None /\ last_receipt' = None /\ admitted' = {}

Next ==
    \/ \E i \in Ids : \/ authorize_sealed(i) \/ authorize_evaluated_visual(i)
                      \/ authorize_rgbd_fusion(i)
    \/ \E i \in Ids, now \in 0..MaxTime, receipt \in 0..MaxReceipt :
          admit(i, now, receipt) \/ report_failure(i, now, receipt)
    \/ reset

Spec == Init /\ [][Next]_vars
--------------------------------------------------------------------------------
(* Properties. *)

\* The references are to evidence of their kind, within the capacity.
TypeOK ==
    /\ \A i \in visual_sources : obs[i].kind = "visual"
    /\ \A i \in depth_sources : obs[i].kind = "depth"
    /\ \A i \in interpretations : obs[i].kind = "interpretation"
    /\ \A i \in semantics : obs[i].kind = "semantic"
    /\ \A s \in Seals, i \in Ids : i \in authorized[s] => obs[i].seal = s
    /\ \A S \in {visual_sources, depth_sources, interpretations, semantics} \cup
                {authorized[s] : s \in Seals} : Cardinality(S) <= Capacity
    /\ last_now \in 0..MaxTime \cup {None} /\ last_receipt \in 0..MaxReceipt \cup {None}

\* The chain frame <- interpretation <- semantic observation is never cut in the
\* middle, whichever of expiry and the capacities removes a link: so
\* project_semantic_evidence never meets a semantic observation whose
\* interpretation or frame "is no longer retained".
ChainsWhole ==
    /\ \A i \in interpretations \cup authorized.evaluated :
          obs[i].frame \in visual_sources
    /\ \A i \in semantics : /\ obs[i].interp \in interpretations
                            /\ obs[obs[i].interp].frame = obs[i].frame

\* Of one state key the admitted evidence has different times, and the last
\* admitted is the newest, through expiry and eviction, for the whole epoch.
AdmissionsOrdered ==
    \A i, j \in admitted :
        /\ obs[i].kind # "semantic" =>
              Stamp(i) <= Stamp(last_by_key[obs[i].key])
        /\ ( /\ i # j /\ obs[i].kind # "semantic"
             /\ obs[j].kind # "semantic" /\ obs[i].key = obs[j].key )
           => Stamp(i) # Stamp(j)

\* Nothing is admitted twice in an epoch: a semantic observation whose chain was
\* cut cannot return, because its interpretation cannot; and what the adapters
\* sealed is let in once for each sealing.
AdmittedOnce ==
    [][ /\ \A i \in semantics' \ semantics : i \notin admitted
        /\ \A k \in DOMAIN last_by_key' :
              ( k \in DOMAIN last_by_key => last_by_key'[k] # last_by_key[k] )
              => last_by_key'[k] \notin admitted
        /\ \A i \in Ids : obs[i].seal # "none" /\ i \in admitted' \ admitted
              => i \notin authorized'[obs[i].seal] ]_vars

\* Fused evidence was made of two frames that were both admitted.
FusionGrounded ==
    \A i \in admitted : obs[i].kind = "fused" =>
        obs[i].frame \in admitted /\ obs[i].depth \in admitted

\* Whatever expires, is evicted or is refused, the references that remain are to
\* evidence whose own sources were admitted.
ReferencesGrounded == TypeOK /\ ChainsWhole /\ FusionGrounded
================================================================================
