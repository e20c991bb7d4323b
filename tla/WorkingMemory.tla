----------------------------- MODULE WorkingMemory -----------------------------
(***************************************************************************)
(* Working Memory (working_memory/service.py): bounded retention of the    *)
(* current evidence per state key, of a window of recent evidence, and of  *)
(* semantic batches that hang on retained frames and interpretations.      *)
(*                                                                         *)
(* Every method holds the service's RLock from its first change of state   *)
(* to its last, so each is one action.  What is hard is the order of       *)
(* arrivals: evidence comes late, twice, out of order, for several keys at *)
(* once, and every call also moves time and so drops what has expired.     *)
(*                                                                         *)
(* Abstractions.  An observation is a number with a fixed description, its *)
(* content being fingerprinted in its identity; the numbers stand for the  *)
(* order of observation_id.  Times are ticks.  Counters are left out.      *)
(***************************************************************************)
EXTENDS Integers, FiniteSets, Functions

CONSTANTS
    Evidence,     \* the observations that may arrive: a function of their ids
    Ttl, Skew,    \* retention_ttl_ns, permitted_future_skew_ns
    RecentCapacity, EntityCapacity, SemanticCapacity,
    MaxTime,      \* bound: the last source time
    MaxReceipt    \* bound: the last receipt time

None == -1

Kind == {"robot", "sensor", "visual", "depth", "fused", "interpretation",
         "semantic", "entity"}

Ids == DOMAIN Evidence
obs == Evidence     \* obs[i] is observation i

\* What decides the fate of an observation.  result is result_at_ns (at, where
\* the type has none); refused is TRUE of a wrong robot, provenance or sensor;
\* invalid is TRUE when the joint catalog, the producer catalog or the evaluation
\* allowlist refuses it; faithful is FALSE when its metadata or detections differ
\* from those of its sources; frame, interp, depth are the ids of the sources.
Observation ==
    [kind: Kind, keys: SUBSET STRING, at: Nat, result: Nat, refused: BOOLEAN,
     invalid: BOOLEAN, faithful: BOOLEAN, source: STRING,
     frame: Ids \cup {None}, interp: Ids \cup {None}, depth: Ids \cup {None}]

ASSUME BoundsAssumption ==
    /\ Ttl \in Nat \ {0} /\ Skew \in Nat /\ MaxTime \in Nat /\ MaxReceipt \in Nat
    /\ RecentCapacity \in Nat \ {0} /\ EntityCapacity \in Nat \ {0}
    /\ SemanticCapacity \in Nat \ {0}
\* Each kind of derived evidence is kept in a dictionary of its own and so has state
\* keys of its own; an entity observation is of one entity.
ASSUME EvidenceAssumption ==
    /\ Ids \subseteq Nat
    /\ \A i \in Ids :
          /\ Evidence[i] \in Observation
          /\ Evidence[i].at <= Evidence[i].result
          /\ Evidence[i].kind = "entity" =>
                \E k \in Evidence[i].keys : Evidence[i].keys = {k}
    /\ \A i, j \in Ids :
          ( /\ Evidence[i].kind \in {"interpretation", "semantic", "entity"}
            /\ Evidence[i].keys \cap Evidence[j].keys # {} )
          => Evidence[j].kind = Evidence[i].kind

VARIABLES
    current,       \* current evidence: a partial function of state keys
    semantic,      \* _semantic_evidence
    watermarks,    \* _semantic_watermarks: per source, the last batch accepted
    recent,        \* _recent; its order is the order of (at, id)
    last_now,      \* _last_now_ns
    last_receipt,  \* _last_receipt_monotonic_ns
    accepted       \* history: everything accepted since the last reset

vars == <<current, semantic, watermarks, recent, last_now, last_receipt, accepted>>

Empty == [k \in {} |-> None]

Init ==
    /\ current = Empty /\ semantic = {} /\ watermarks = Empty /\ recent = {}
    /\ last_now = None /\ last_receipt = None /\ accepted = {}
--------------------------------------------------------------------------------
\* The evidence of one kind that cur and rec hold.
Retained(cur, rec, kind) == {i \in Range(cur) \cup rec : obs[i].kind = kind}

\* Mutant: a batch goes with its frame only.
_drop_orphaned_semantic_evidence_mutant(sem, cur, rec) ==
    {i \in sem : obs[i].frame \in Retained(cur, rec, "visual")}

\* What stays of sem when the batches without their frame or interpretation go.
_drop_orphaned_semantic_evidence(sem, cur, rec) ==
    {i \in sem : /\ obs[i].frame \in Retained(cur, rec, "visual")
                 /\ obs[i].interp \in Retained(cur, rec, "interpretation")}

\* What the collections keep at a time: everything observed within the TTL.
Kept(S, now) == {i \in S : obs[i].at >= now - Ttl}

PurgedRecent(now) == Kept(recent, now)

PurgedCurrent(now) ==
    [k \in {l \in DOMAIN current : current[l] \in Kept(Range(current), now)}
        |-> current[k]]

_purge_expired(now) ==
    _drop_orphaned_semantic_evidence(Kept(semantic, now),
                                     PurgedCurrent(now), PurgedRecent(now))

\* The n last elements of S in the order Before.
Newest(S, n, Before(_, _)) ==
    {i \in S : Cardinality({j \in S : Before(i, j)}) < n}

Earlier(i, j) ==
    \/ obs[i].at < obs[j].at
    \/ obs[i].at = obs[j].at /\ i < j

EarlierResult(i, j) ==
    \/ obs[i].at < obs[j].at
    \/ /\ obs[i].at = obs[j].at
       /\ \/ obs[i].result < obs[j].result
          \/ obs[i].result = obs[j].result /\ i < j
--------------------------------------------------------------------------------
(* ingest: why an observation is refused, in the order of the checks. *)

\* The time by which evidence of one key is ordered.
Stamp(i) == IF obs[i].kind = "interpretation" THEN obs[i].result
            ELSE obs[i].at

_compare_current(cur, k, i) ==
    IF k \notin DOMAIN cur THEN "new"
    ELSE IF Stamp(i) < Stamp(cur[k]) THEN "older"
    ELSE IF Stamp(i) = Stamp(cur[k]) THEN "same_time_conflict"
    ELSE "newer"

\* Fused, interpreted and semantic evidence needs what it was made of.
SourcesRetained(i, cur, rec) ==
    LET e == obs[i]
        visual == Retained(cur, rec, "visual")
    IN  /\ e.faithful
        /\ e.kind \in {"fused", "interpretation", "semantic"} =>
              e.frame \in visual
        /\ e.kind = "fused" => e.depth \in Retained(cur, rec, "depth")
        /\ e.kind = "semantic" =>
              /\ e.interp \in Retained(cur, rec, "interpretation")
              /\ obs[e.interp].frame = e.frame
              /\ obs[e.interp].result = e.result
        /\ e.kind \in {"interpretation", "semantic"} =>
              obs[e.frame].at = e.at

\* Mutant: the parts that are older are replaced too.
Updated_mutant(i, cur) == obs[i].keys

\* The keys an observation of several parts is the newest evidence for.
Updated(i, cur) ==
    {k \in obs[i].keys : _compare_current(cur, k, i) \in {"new", "newer"}}

SemanticOrder(i) ==
    LET s == obs[i].source IN
    IF s \notin DOMAIN watermarks THEN "ACCEPTED"
    ELSE LET w == watermarks[s] IN
         IF obs[i].result < obs[w].result THEN "OLDER_OBSERVATION"
         ELSE IF obs[i].result > obs[w].result THEN "ACCEPTED"
         ELSE IF i = w THEN "DUPLICATE_OBSERVATION" ELSE "TEMPORAL_CONFLICT"

KeyOrder(i, cur) ==
    IF \E k \in obs[i].keys : _compare_current(cur, k, i) = "same_time_conflict"
    THEN "TEMPORAL_CONFLICT"
    ELSE IF Updated(i, cur) = {} THEN "OLDER_OBSERVATION"
    ELSE "ACCEPTED"

\* The verdict on i at time now, on what the purge has left.
Verdict(i, now, cur, sem, rec) ==
    LET e == obs[i] IN
    IF e.refused THEN "REFUSED"
    ELSE IF e.at > now + Skew \/ e.result > now + Skew THEN "FUTURE_OBSERVATION"
    ELSE IF e.at < now - Ttl THEN "EXPIRED_OBSERVATION"
    ELSE IF i \in Range(cur) \cup sem \cup rec THEN "DUPLICATE_OBSERVATION"
    ELSE IF e.invalid THEN "INVALID"
    ELSE IF ~SourcesRetained(i, cur, rec) THEN "SOURCE_OBSERVATION_MISMATCH"
    ELSE IF e.kind = "semantic" THEN SemanticOrder(i)
    ELSE KeyOrder(i, cur)
--------------------------------------------------------------------------------
(* The operations. *)

\* Mutant: the window drops its newest entry instead of its oldest.
TrimmedRecent_mutant(rec, i) ==
    IF Cardinality(rec) >= RecentCapacity THEN rec ELSE rec \cup {i}

TrimmedRecent(rec, i) == Newest(rec \cup {i}, RecentCapacity, Earlier)

\* Entities over the capacity go, the oldest first.
EvictEntities(cur) ==
    LET entities == Newest({i \in Range(cur) : obs[i].kind = "entity"},
                           EntityCapacity, Earlier)
    IN  [k \in {l \in DOMAIN cur : obs[cur[l]].kind = "entity"
                                     => cur[l] \in entities} |-> cur[k]]

\* _accept, given the collections with the observation already in its place: the
\* window is sorted and trimmed, the capacities are enforced, orphans dropped.
_accept(i, cur, sem, rec) ==
    LET kept == EvictEntities(cur)
        win  == TrimmedRecent(rec, i)
    IN  /\ current' = kept
        /\ recent' = win
        /\ semantic' = _drop_orphaned_semantic_evidence(
                           Newest(sem, SemanticCapacity, EarlierResult), kept, win)
        /\ accepted' = accepted \cup {i}

\* The collections with i in its place: the keys it is the newest evidence for.
Placed(i, cur) ==
    LET updated == Updated(i, cur) IN
    [k \in DOMAIN cur \cup updated |-> IF k \in updated THEN i ELSE cur[k]]

\* ingest(observation, now_ns, received_at_monotonic_ns).  A now_ns before the
\* last one raises WorkingMemoryClockRegressionError and changes nothing.
ingest(i, now, receipt) ==
    LET cur == PurgedCurrent(now)
        sem == _purge_expired(now)
        rec == PurgedRecent(now)
    IN  /\ now >= last_now
        /\ last_now' = now
        /\ IF receipt >= last_receipt /\ Verdict(i, now, cur, sem, rec) = "ACCEPTED"
           THEN IF obs[i].kind = "semantic"
                THEN /\ watermarks' = [s \in DOMAIN watermarks \cup {obs[i].source}
                                         |-> IF s = obs[i].source THEN i
                                             ELSE watermarks[s]]
                     /\ _accept(i, cur, sem \cup {i}, rec)
                ELSE /\ _accept(i, Placed(i, cur), sem, rec)
                     /\ UNCHANGED watermarks
           ELSE /\ current' = cur /\ semantic' = sem /\ recent' = rec
                /\ UNCHANGED <<watermarks, accepted>>
        /\ last_receipt' = IF receipt >= last_receipt THEN receipt ELSE last_receipt

\* current_snapshot, recent_evidence, query_freshness and stats: they answer from
\* what is left once time has moved.
query(now) ==
    /\ now >= last_now
    /\ last_now' = now
    /\ current' = PurgedCurrent(now)
    /\ semantic' = _purge_expired(now)
    /\ recent' = PurgedRecent(now)
    /\ UNCHANGED <<watermarks, last_receipt, accepted>>

reset ==
    /\ current' = Empty /\ semantic' = {} /\ watermarks' = Empty /\ recent' = {}
    /\ last_now' = None /\ last_receipt' = None /\ accepted' = {}

Next ==
    \/ \E i \in Ids, now \in 0..MaxTime, receipt \in 0..MaxReceipt :
          ingest(i, now, receipt)
    \/ \E now \in 0..MaxTime : query(now)
    \/ reset

Spec == Init /\ [][Next]_vars
--------------------------------------------------------------------------------
(* Properties. *)

\* The collections hold known evidence, under keys it speaks of.
TypeOK ==
    /\ \A k \in DOMAIN current :
          current[k] \in Ids /\ k \in obs[current[k]].keys
    /\ recent \subseteq Ids /\ semantic \subseteq Ids /\ accepted \subseteq Ids
    /\ \A s \in DOMAIN watermarks : obs[watermarks[s]].source = s
    /\ last_now \in 0..MaxTime \cup {None}
    /\ last_receipt \in 0..MaxReceipt \cup {None}

\* A semantic batch is retained only while the frame and the interpretation it
\* was read from are, whichever of expiry, replacement and the recent window's
\* capacity takes them away.
SemanticsGrounded ==
    \A i \in semantic :
        /\ obs[i].frame \in Retained(current, recent, "visual")
        /\ obs[i].interp \in Retained(current, recent, "interpretation")
        /\ obs[obs[i].interp].frame = obs[i].frame

\* Nothing that expired is left after any call, and nothing is from beyond the
\* permitted future.
NothingExpired ==
    last_now # None => \A i \in Range(current) \cup recent \cup semantic :
        last_now - Ttl <= obs[i].at /\ obs[i].at <= last_now + Skew

\* The recent window is exactly the newest evidence accepted in this epoch that
\* has not expired, whatever the order it arrived in: late evidence that expiry
\* or the capacity pushed out never leaves a gap behind.
RecentIsNewest ==
    recent = Newest({i \in accepted : obs[i].at >= last_now - Ttl},
                    RecentCapacity, Earlier)

\* For every joint, pose and sensor key the current evidence is the newest ever
\* accepted for that key in this epoch: expiry of the current evidence never lets
\* older evidence in again ("a same-key message with an older timestamp is
\* rejected").
CurrentIsNewest ==
    \A k \in DOMAIN current :
        obs[current[k]].kind \in {"robot", "sensor", "visual", "depth", "fused"}
          => \A i \in accepted : k \in obs[i].keys =>
                                   Stamp(i) <= Stamp(current[k])

\* Semantic batches of one source have different result times, none later than
\* that source's watermark, even after the batches that set it are gone.
SemanticsOrdered ==
    /\ \A i \in accepted : obs[i].kind = "semantic" =>
          /\ obs[i].source \in DOMAIN watermarks
          /\ obs[i].result <= obs[watermarks[obs[i].source]].result
    /\ \A i, j \in accepted :
          ( /\ obs[i].kind = "semantic" /\ obs[j].kind = "semantic"
            /\ obs[i].source = obs[j].source
            /\ obs[i].result = obs[j].result ) => i = j

\* The capacities hold after every call.
WithinBounds ==
    /\ Cardinality(recent) <= RecentCapacity
    /\ Cardinality(semantic) <= SemanticCapacity
    /\ Cardinality({k \in DOMAIN current : obs[current[k]].kind = "entity"})
         <= EntityCapacity

\* After every call, ingest, query or reset, each collection holds exactly what
\* its time and its capacity permit.
WindowsExact == TypeOK /\ RecentIsNewest /\ NothingExpired /\ WithinBounds

\* The semantic evidence stays grounded in what is retained, and ordered beyond
\* what is.
SemanticsSound == SemanticsGrounded /\ SemanticsOrdered
================================================================================
