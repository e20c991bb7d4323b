----------------------------- MODULE Consolidation -----------------------------
(***************************************************************************)
(* Memory consolidation above Working Memory (memory_consolidation/):      *)
(* discovery turns what the memory holds into proposals, the caller picks  *)
(* some of them, and execute_review stages each picked proposal against    *)
(* the memory again, selects among the candidates that were staged, and    *)
(* has the selected ones evaluated.  Nothing here writes durable memory.   *)
(*                                                                         *)
(* Each call of recent_evidence takes the memory's lock on its own, so a   *)
(* review is one step per staging: between two of them other threads may   *)
(* ingest, query at a later time, or reset the memory.  The evaluations    *)
(* read nothing of Working Memory and are one step with what follows.      *)
(*                                                                         *)
(* Abstractions.  An identity is the content it is the digest of.  The     *)
(* order of digests is the order of evidence and item numbers.  Texts are  *)
(* measured in units (Size).  Retained evidence is immutable, so that      *)
(* rebuilding it never fails.                                              *)
(***************************************************************************)
EXTENDS WorkingMemory

CONSTANTS
    Items,        \* per semantic observation: the set of its items
    Confidence,   \* per observation without items: its confidence, or None
    SubMicro,     \* the times that are no whole number of microseconds
    Freshness,    \* freshness_ns
    MaxEvidence, MaxProposals, MaxDiagnostics,  \* MAX_CANDIDATE_DISCOVERY_...
    MaxSelection,     \* MAX_CANDIDATE_SELECTION_COUNT
    MaxCharacters,    \* MAX_JSON_CHARACTERS, the bound of every aggregate text
    ProposalSize, DiagnosticSize,  \* of one in the aggregate text
    Requests,     \* what callers stage by themselves
    Offers,       \* the batches callers have selected from by themselves
    DecisionType, \* what the evaluator may decide
    Robot         \* config.robot_id

ASSUME LimitsAssumption ==
    /\ Freshness \in 0..Ttl /\ MaxEvidence \in Nat \ {0}
    /\ MaxProposals \in Nat \ {0} /\ MaxDiagnostics \in Nat \ {0}
    /\ MaxSelection \in Nat \ {0} /\ MaxCharacters \in Nat \ {0}
    /\ ProposalSize \in Nat \ {0} /\ DiagnosticSize \in Nat \ {0}
    /\ DiagnosticSize <= MaxCharacters

\* A semantic observation has items, each with an identity of its own within it.
ASSUME ItemsAssumption ==
    /\ DOMAIN Items = Ids
    /\ \A i \in Ids : /\ IsFiniteSet(Items[i])
                      /\ Evidence[i].kind = "semantic" => Items[i] # {}
                      /\ \A item \in Items[i] :
                            item.id \in Nat /\ item.kind \in {"person", "object"}
                      /\ \A x, y \in Items[i] : x.id = y.id => x = y

\* A batch of a caller is a tuple; a decision of the evaluator is one.
ASSUME CallersAssumption ==
    /\ \A batch \in Offers : /\ IsFiniteSet(DOMAIN batch)
                             /\ DOMAIN batch = 1..Cardinality(DOMAIN batch)
    /\ "none" \notin DecisionType

VARIABLES
    source_clock,  \* config.source_clock
    plan,          \* the prepared plan, or NoPlan
    review,        \* the review under way, or NoReview
    answer,        \* what the last call returned
    held           \* history: what the memory held at any time of this review

cvars == <<source_clock, plan, review, answer, held>>
allVars == <<vars, cvars>>

NoPlan == [prepared |-> FALSE]
NoReview == [running |-> FALSE]
NoAnswer == [call |-> "none"]
Raised(call) == [call |-> call, raised |-> TRUE]

Semantic(i) == obs[i].kind = "semantic"

\* The first n elements of S in the order Before.
First(S, n, Before(_, _)) == {x \in S : Cardinality({y \in S : Before(y, x)}) < n}

Least(S, Before(_, _)) == CHOOSE x \in S : \A y \in S : ~Before(y, x)

\* The sum of Weight over S: as many pairs as the weights say.
Total(S, Weight(_)) == Cardinality(UNION {{x} \X (1..Weight(x)) : x \in S})
--------------------------------------------------------------------------------
(* Requests and what they claim. *)

Claim(type, subject, predicate, value) ==
    [type |-> type, subject |-> subject, predicate |-> predicate, value |-> value]

\* What an anonymous detection supports and nothing more.
AnonymousClaim(item) == Claim("EPISODIC", Robot, item.kind, item.value)

\* A request: its claim, the robot it names, the observation and the item it
\* refers to, and whether fingerprint and source id are those of the observation.
_anonymous_semantic_proposal(i, item) ==
    [robot |-> Robot, claim |-> AnonymousClaim(item), obs |-> i,
     item |-> item.id, exact |-> TRUE]

\* _validate_anonymous_semantic_request: what a proposal may ask for.
_validate_anonymous_semantic_request(request) ==
    /\ request.claim.type = "EPISODIC"
    /\ request.claim.subject = request.robot
    /\ request.claim.predicate \in {"person", "object"}
    /\ request.item # None

ProposalBefore(p, q) ==
    \/ p.obs < q.obs
    \/ p.obs = q.obs /\ p.item < q.item

_utc_from_system_time(at) == IF at \in SubMicro THEN None ELSE at

_semantic_item(i, request) ==
    {item \in Items[i] : request.item # None /\ item.id = request.item}

\* The frame and the interpretation are among what was read, and the detection
\* the item was made from says what the item says.
_semantic_source_chain_is_exact(i, item, retained) ==
    /\ obs[i].frame \in retained /\ obs[obs[i].frame].kind = "visual"
    /\ obs[i].interp \in retained /\ obs[obs[i].interp].kind = "interpretation"
    /\ obs[obs[i].frame].at = obs[i].at
    /\ obs[obs[i].interp].frame = obs[i].frame
    /\ obs[obs[i].interp].at = obs[i].at
    /\ obs[obs[i].interp].result = obs[i].result
    /\ item.detected

_anonymous_semantic_claim_matches(request, item) ==
    request.claim = AnonymousClaim(item)
--------------------------------------------------------------------------------
(* The bridge: one request against what the memory holds. *)

Eligible(candidate) ==
    [call |-> "stage", status |-> "ELIGIBLE", reason |-> "ELIGIBLE",
     candidate |-> candidate]

NoCandidate == [claim |-> None]

_ineligible(reason) ==
    [call |-> "stage", status |-> "INELIGIBLE", reason |-> reason,
     candidate |-> NoCandidate]

_OBSERVATIONAL_MEMORY_TYPES == {"EPISODIC", "SEMANTIC", "SPATIAL", "FAILURE"}

\* What stage refuses before it reads the memory.
RefusedUnread(request, now) ==
    IF now < 0 THEN {"INVALID_STAGING_TIME"}
    ELSE IF request.robot # Robot THEN {"ROBOT_MISMATCH"}
    ELSE IF request.claim.type \notin _OBSERVATIONAL_MEMORY_TYPES
         THEN {"MEMORY_TYPE_NOT_ALLOWED"}
    ELSE IF now < last_now THEN {"SOURCE_CLOCK_REGRESSION"}
    ELSE {}

\* The evidence a candidate is made from, with the confidence it carries.
CandidateEvidence(request, i, confidence, kind, size) ==
    [claim |-> request.claim, prov |-> "DIRECT_OBSERVATION",
     source |-> <<i, request.item>>,
     confidence |-> confidence, at |-> obs[i].at, semantic |-> kind,
     robot |-> Robot, correction |-> FALSE, bridge |-> TRUE, size |-> size]

StageSemantic(request, i, retained) ==
    LET matches == _semantic_item(i, request) IN
    IF Cardinality(matches) # 1 THEN _ineligible("SOURCE_MISMATCH")
    ELSE LET item == CHOOSE x \in matches : TRUE IN
         IF ~_semantic_source_chain_is_exact(i, item, retained)
         THEN _ineligible("SOURCE_MISMATCH")
         ELSE IF item.confidence = None
         THEN _ineligible("MISSING_REQUIRED_CONFIDENCE")
         ELSE IF ~_anonymous_semantic_claim_matches(request, item)
         THEN _ineligible("SEMANTIC_CLAIM_EXCEEDS_EVIDENCE")
         ELSE Eligible(CandidateEvidence(request, i, item.confidence, item.kind,
                                         item.size))

StageOther(request, i) ==
    IF request.item # None THEN _ineligible("SOURCE_MISMATCH")
    ELSE IF Confidence[i] = None THEN _ineligible("MISSING_REQUIRED_CONFIDENCE")
    ELSE Eligible(CandidateEvidence(request, i, Confidence[i], "none", 1))

\* Mutant: the plan's word is taken for what the memory holds.
StageRetained_mutant(request, now, retained) ==
    LET i == request.obs IN
    IF ~request.exact THEN _ineligible("SOURCE_MISMATCH")
    ELSE IF obs[i].refused THEN _ineligible("PROVENANCE_NOT_ALLOWED")
    ELSE IF source_clock # "ROS_SYSTEM_TIME" THEN _ineligible("UNSUPPORTED_CLOCK")
    ELSE IF obs[i].at > now THEN _ineligible("EVIDENCE_TIME_IN_FUTURE")
    ELSE IF now - obs[i].at > Freshness THEN _ineligible("EVIDENCE_STALE")
    ELSE IF _utc_from_system_time(obs[i].at) = None
         THEN _ineligible("TIMESTAMP_NOT_UTC_CONVERTIBLE")
    ELSE IF Semantic(i)
         THEN StageSemantic(request, i, retained \cup {obs[i].frame, obs[i].interp})
    ELSE StageOther(request, i)

\* stage, once the memory has answered with retained.
StageRetained(request, now, retained) ==
    LET i == request.obs IN
    IF i \notin retained THEN _ineligible("EVIDENCE_NOT_FOUND")
    ELSE IF ~request.exact THEN _ineligible("SOURCE_MISMATCH")
    ELSE IF obs[i].refused THEN _ineligible("PROVENANCE_NOT_ALLOWED")
    ELSE IF source_clock # "ROS_SYSTEM_TIME" THEN _ineligible("UNSUPPORTED_CLOCK")
    ELSE IF obs[i].at > now THEN _ineligible("EVIDENCE_TIME_IN_FUTURE")
    ELSE IF now - obs[i].at > Freshness THEN _ineligible("EVIDENCE_STALE")
    ELSE IF _utc_from_system_time(obs[i].at) = None
         THEN _ineligible("TIMESTAMP_NOT_UTC_CONVERTIBLE")
    ELSE IF Semantic(i) THEN StageSemantic(request, i, retained)
    ELSE StageOther(request, i)

\* The result of stage, and the purge that reading the memory brings with it.
stage(request, now) ==
    IF RefusedUnread(request, now) # {}
    THEN _ineligible(CHOOSE r \in RefusedUnread(request, now) : TRUE)
    ELSE StageRetained(request, now, PurgedRecent(now))

ReadMemory(reads, now) == IF reads THEN query(now) ELSE UNCHANGED vars

\* CandidateStagingResult.__post_init__.
CandidateStagingResult(r) ==
    /\ r.status \in {"ELIGIBLE", "INELIGIBLE"}
    /\ r.status = "ELIGIBLE" <=> r.reason = "ELIGIBLE"
    /\ r.status = "ELIGIBLE" <=> r.candidate # NoCandidate
--------------------------------------------------------------------------------
(* Discovery. *)

Diagnostic(reason, evidence, item) ==
    [reason |-> reason, evidence |-> evidence, item |-> item]

Overall(reason) == Diagnostic(reason, None, None)
RESOURCE == Overall("RESOURCE_LIMIT_REACHED")

_diagnostic_key(d, e) ==
    \/ d.evidence < e.evidence
    \/ d.evidence = e.evidence /\ d.item < e.item

_aggregate_characters(proposals, diagnostics) ==
    ProposalSize * Cardinality(proposals)
        + DiagnosticSize * Cardinality(diagnostics)

_with_resource_diagnostic(diagnostics) ==
    {RESOURCE} \cup First(diagnostics \ {RESOURCE}, MaxDiagnostics - 1,
                          _diagnostic_key)

\* The largest first part of the diagnostics, the resource one apart, and then of
\* the proposals that the aggregate bound leaves room for.
Fitting(proposals, diagnostics) ==
    LET others == diagnostics \ {RESOURCE}
        Fits(n, m) == _aggregate_characters(First(proposals, m, ProposalBefore),
                          {RESOURCE} \cup First(others, n, _diagnostic_key))
                        <= MaxCharacters
        all == Cardinality(proposals)
        n == CHOOSE k \in 0..Cardinality(others) :
                /\ Fits(k, all) \/ k = 0
                /\ \A l \in (k + 1)..Cardinality(others) : ~Fits(l, all)
        m == CHOOSE k \in 0..all :
                /\ Fits(n, k) \/ k = 0
                /\ \A l \in (k + 1)..all : ~Fits(n, l)
    IN  [proposals |-> First(proposals, m, ProposalBefore),
         diagnostics |-> {RESOURCE} \cup First(others, n, _diagnostic_key)]

DiscoveryReasons(proposals, diagnostics) ==
    {d.reason : d \in diagnostics}
        \cup (IF proposals # {} THEN {"DISCOVERABLE"} ELSE {})

DiscoveryOutcome(proposals, forced, limited) ==
    IF limited THEN "RESOURCE_LIMIT_REACHED"
    ELSE IF forced # "none" THEN forced
    ELSE IF proposals # {} THEN "PROPOSALS_DISCOVERED"
    ELSE "NO_DISCOVERABLE_PROPOSALS"

\* Mutant: what is over the bounds is cut off without a word.
_result_mutant(proposals, diagnostics, retained, inspected, forced, limited) ==
    LET kept == First(proposals, MaxProposals, ProposalBefore)
        said == First(diagnostics, MaxDiagnostics, _diagnostic_key)
    IN  [call |-> "discover", proposals |-> kept, diagnostics |-> said,
         reasons |-> DiscoveryReasons(kept, said),
         outcome |-> DiscoveryOutcome(kept, forced, limited),
         retained |-> retained, inspected |-> inspected]

_result(proposals, diagnostics, retained, inspected, forced, limited) ==
    LET kept  == First(proposals, MaxProposals, ProposalBefore)
        short == \/ limited \/ Cardinality(proposals) > MaxProposals
                 \/ Cardinality(diagnostics) > MaxDiagnostics
        said  == IF short THEN _with_resource_diagnostic(diagnostics)
                 ELSE diagnostics
        over  == _aggregate_characters(kept, said) > MaxCharacters
        fit   == IF over THEN Fitting(kept, _with_resource_diagnostic(said))
                 ELSE [proposals |-> kept, diagnostics |-> said]
    IN  [call |-> "discover", proposals |-> fit.proposals,
         diagnostics |-> fit.diagnostics,
         reasons |-> DiscoveryReasons(fit.proposals, fit.diagnostics),
         outcome |-> DiscoveryOutcome(fit.proposals, forced, short \/ over),
         retained |-> retained, inspected |-> inspected]

\* CandidateDiscoveryResult.__post_init__.
CandidateDiscoveryResult(r) ==
    /\ r.reasons # {}
    /\ Cardinality(r.proposals) <= MaxProposals
    /\ \A p \in r.proposals : _validate_anonymous_semantic_request(p)
    /\ Cardinality(r.diagnostics) <= MaxDiagnostics
    /\ \A d \in r.diagnostics : /\ d.reason # "DISCOVERABLE"
                                /\ d.item # None => d.evidence # None
    /\ r.inspected \in 0..r.retained /\ r.inspected <= MaxEvidence
    /\ r.proposals # {} <=> "DISCOVERABLE" \in r.reasons
    /\ r.outcome = "PROPOSALS_DISCOVERED" => r.proposals # {}
    /\ r.outcome \in {"NO_DISCOVERABLE_PROPOSALS", "DISCOVERY_INELIGIBLE"}
          => r.proposals = {}
    /\ r.outcome = "RESOURCE_LIMIT_REACHED"
          <=> "RESOURCE_LIMIT_REACHED" \in r.reasons
    /\ r.reasons = DiscoveryReasons(r.proposals, r.diagnostics)

_common_ineligibility_reason(i, now) ==
    IF obs[i].refused THEN "PROVENANCE_NOT_ALLOWED"
    ELSE IF obs[i].at > now THEN "EVIDENCE_TIME_IN_FUTURE"
    ELSE IF now - obs[i].at > Freshness THEN "EVIDENCE_STALE"
    ELSE IF _utc_from_system_time(obs[i].at) = None
         THEN "TIMESTAMP_NOT_UTC_CONVERTIBLE"
    ELSE "none"

\* What keeps one item from being proposed.
ItemReason(i, item, retained) ==
    IF ~_semantic_source_chain_is_exact(i, item, retained)
    THEN "INVALID_SOURCE_CHAIN"
    ELSE IF item.confidence = None THEN "MISSING_REQUIRED_CONFIDENCE"
    ELSE IF ~_validate_anonymous_semantic_request(_anonymous_semantic_proposal(i, item))
    THEN "PROPOSITION_NOT_SAFELY_DERIVABLE"
    ELSE "none"

EvidenceDiagnostics(retained, now) ==
    {Diagnostic(IF _common_ineligibility_reason(i, now) # "none"
                THEN _common_ineligibility_reason(i, now)
                ELSE "UNSUPPORTED_EVIDENCE_KIND", i, None) :
        i \in {j \in retained : \/ _common_ineligibility_reason(j, now) # "none"
                                \/ ~Semantic(j)}}

\* The items that discovery looks at one by one.
Discoverable(retained, now) ==
    {i \in retained : Semantic(i) /\ _common_ineligibility_reason(i, now) = "none"}

ItemDiagnostics(retained, now) ==
    UNION {{Diagnostic(ItemReason(i, item, retained), i, item.id) :
              item \in {x \in Items[i] : ItemReason(i, x, retained) # "none"}} :
              i \in Discoverable(retained, now)}

Proposals(retained, now) ==
    UNION {{_anonymous_semantic_proposal(i, item) :
              item \in {x \in Items[i] : ItemReason(i, x, retained) = "none"}} :
              i \in Discoverable(retained, now)}

Ineligible(reason, retained, inspected) ==
    _result({}, {Overall(reason)}, retained, inspected, "DISCOVERY_INELIGIBLE", FALSE)

discover(now, retained) ==
    LET count == Cardinality(retained) IN
    IF now < 0 THEN Ineligible("INVALID_DISCOVERY_TIME", 0, 0)
    ELSE IF now < last_now THEN Ineligible("SOURCE_CLOCK_REGRESSION", 0, 0)
    ELSE IF count > MaxEvidence THEN _result({}, {RESOURCE}, count, 0, "none", TRUE)
    ELSE IF source_clock # "ROS_SYSTEM_TIME"
         THEN Ineligible("UNSUPPORTED_CLOCK", count, count)
    ELSE IF retained = {}
         THEN _result({}, {Overall("NO_RETAINED_EVIDENCE")}, 0, 0, "none", FALSE)
    ELSE _result(Proposals(retained, now),
                 EvidenceDiagnostics(retained, now) \cup ItemDiagnostics(retained, now),
                 count, count, "none", FALSE)
--------------------------------------------------------------------------------
(* Selection: a batch is a function of positions, of candidates each with the *)
(* word of its staging (eligible).                                            *)

_SUPPORTED_MEMORY_TYPES ==
    {"EPISODIC", "SEMANTIC", "PREFERENCE", "SOCIAL", "SPATIAL", "FAILURE"}

_PROVENANCE_BY_MEMORY_TYPE ==
    [EPISODIC |-> {"DIRECT_OBSERVATION", "EXPLICIT_OWNER_STATEMENT",
                   "SYSTEM_EVENT", "TRUSTED_MANUAL_IMPORT"},
     SEMANTIC |-> {"DIRECT_OBSERVATION", "EXPLICIT_OWNER_STATEMENT",
                   "TRUSTED_MANUAL_IMPORT"},
     PREFERENCE |-> {"EXPLICIT_OWNER_STATEMENT", "TRUSTED_MANUAL_IMPORT"},
     SOCIAL |-> {"EXPLICIT_OWNER_STATEMENT", "TRUSTED_MANUAL_IMPORT"},
     SPATIAL |-> {"DIRECT_OBSERVATION", "TRUSTED_MANUAL_IMPORT"},
     FAILURE |-> {"DIRECT_OBSERVATION", "SYSTEM_EVENT", "TRUSTED_MANUAL_IMPORT"}]

MIN_REVIEW_CONFIDENCE == 5   \* in tenths

_DEFER_REASONS ==
    {"DUPLICATE_CANDIDATE", "DUPLICATE_PROPOSITION", "CONFLICTING_CANDIDATE",
     "LOW_CONFIDENCE_FOR_POLICY", "DIRECT_OBSERVATION_REQUIRES_CONFIRMATION",
     "OWNER_CONFIRMATION_REQUIRED", "PROVENANCE_REQUIRES_CONFIRMATION"}
_REJECT_REASONS ==
    {"UNSUPPORTED_MEMORY_TYPE", "SOURCE_ELIGIBILITY_REQUIRED",
     "PROVENANCE_NOT_ALLOWED_FOR_MEMORY_TYPE", "UNSUPPORTED_PROVENANCE",
     "MISSING_REQUIRED_CONFIDENCE",
     "SEMANTIC_CLAIM_EXCEEDS_EVIDENCE", "CORRECTION_NOT_ALLOWED",
     "INSUFFICIENT_EVIDENCE", "RESOURCE_LIMIT_EXCEEDED"}

_has_exact_staging_eligibility(item) == item.eligible /\ item.candidate.bridge

_anonymous_semantic_claim_is_bounded(c) ==
    c.semantic # "none" =>
        /\ c.semantic \in {"person", "object"}
        /\ c.claim.type = "EPISODIC"
        /\ c.claim.subject = c.robot
        /\ c.claim.predicate = c.semantic

\* Whether one candidate alone is within the bounds, and what it adds to the sum.
_candidate_within_bounds(c) == c.size <= MaxCharacters

\* The reason that decides about one candidate.
_base_outcome(item) ==
    LET c == item.candidate IN
    IF ~_candidate_within_bounds(c) THEN "RESOURCE_LIMIT_EXCEEDED"
    ELSE IF c.claim.type \notin _SUPPORTED_MEMORY_TYPES
         THEN "UNSUPPORTED_MEMORY_TYPE"
    ELSE IF c.correction THEN "CORRECTION_NOT_ALLOWED"
    ELSE IF c.confidence = None THEN "MISSING_REQUIRED_CONFIDENCE"
    ELSE IF c.prov = "DIRECT_OBSERVATION" /\ ~_has_exact_staging_eligibility(item)
         THEN "SOURCE_ELIGIBILITY_REQUIRED"
    ELSE IF c.prov = "DIRECT_OBSERVATION" /\ ~_anonymous_semantic_claim_is_bounded(c)
         THEN "SEMANTIC_CLAIM_EXCEEDS_EVIDENCE"
    ELSE IF c.prov = "DERIVED_INFERENCE"
         THEN IF c.claim.type \in {"PREFERENCE", "SOCIAL"}
              THEN "OWNER_CONFIRMATION_REQUIRED"
              ELSE "PROVENANCE_REQUIRES_CONFIRMATION"
    ELSE IF c.prov \notin _PROVENANCE_BY_MEMORY_TYPE[c.claim.type]
         THEN "PROVENANCE_NOT_ALLOWED_FOR_MEMORY_TYPE"
    ELSE IF c.confidence < MIN_REVIEW_CONFIDENCE THEN "LOW_CONFIDENCE_FOR_POLICY"
    ELSE IF /\ c.prov = "DIRECT_OBSERVATION"
            /\ c.claim.type # "EPISODIC" \/ c.claim.subject # c.robot
         THEN "DIRECT_OBSERVATION_REQUIRES_CONFIRMATION"
    ELSE "ELIGIBLE_FOR_REVIEW"

OutcomeOf(reasons) ==
    IF reasons \cap _REJECT_REASONS # {} THEN "REJECT_SELECTION"
    ELSE IF reasons \cap _DEFER_REASONS # {} THEN "DEFER"
    ELSE "SELECT_FOR_REVIEW"

Positions(batch, c) == {n \in DOMAIN batch : batch[n].candidate = c}

SameIdentity(c, d) ==
    /\ c.claim.type = d.claim.type /\ c.claim.subject = d.claim.subject
    /\ c.claim.predicate = d.claim.predicate

\* What the rest of the batch has against a candidate.
GroupReasons(batch, c) ==
    LET others == {batch[n].candidate : n \in DOMAIN batch} \ {c} IN
    (IF Cardinality(Positions(batch, c)) > 1 THEN {"DUPLICATE_CANDIDATE"} ELSE {})
    \cup (IF \E d \in others : d.claim = c.claim
          THEN {"DUPLICATE_PROPOSITION"} ELSE {})
    \cup (IF \E d \in others : SameIdentity(c, d) /\ d.claim.value # c.claim.value
          THEN {"CONFLICTING_CANDIDATE"} ELSE {})

\* The decision on a candidate: the reasons of all its occurrences and of its
\* group; eligibility is one of them only where it is the only one.
ItemDecision(batch, c) ==
    LET base == {_base_outcome(batch[n]) : n \in Positions(batch, c)}
        group == GroupReasons(batch, c)
        reasons == IF group = {} THEN base
                   ELSE (base \cup group) \ {"ELIGIBLE_FOR_REVIEW"}
    IN  [candidate |-> c, reasons |-> reasons, outcome |-> OutcomeOf(reasons),
         count |-> Cardinality(Positions(batch, c))]

_batch_outcome(items) ==
    IF \E d \in items : d.outcome = "REJECT_SELECTION" THEN "REJECT_SELECTION"
    ELSE IF \E d \in items : d.outcome = "DEFER" THEN "DEFER"
    ELSE "SELECT_FOR_REVIEW"

_selection_decision(items, input) ==
    LET outcome == _batch_outcome(items)
        reasons == UNION {d.reasons : d \in items}
    IN  [call |-> "select", items |-> items, outcome |-> outcome, input |-> input,
         reasons |-> IF outcome = "SELECT_FOR_REVIEW" THEN reasons
                     ELSE reasons \ {"ELIGIBLE_FOR_REVIEW"}]

_batch_rejection(input, reason) ==
    [call |-> "select", items |-> {}, outcome |-> "REJECT_SELECTION",
     input |-> input, reasons |-> {reason}]

select(batch) ==
    LET n == Cardinality(DOMAIN batch)
        Weight(k) == IF _candidate_within_bounds(batch[k].candidate)
                     THEN batch[k].candidate.size ELSE 0
    IN  IF n = 0 THEN _batch_rejection(0, "INSUFFICIENT_EVIDENCE")
        ELSE IF n > MaxSelection \/ Total(DOMAIN batch, Weight) > MaxCharacters
        THEN _batch_rejection(n, "RESOURCE_LIMIT_EXCEEDED")
        ELSE _selection_decision({ItemDecision(batch, batch[k].candidate) :
                                     k \in DOMAIN batch}, n)

\* CandidateSelectionItemDecision and CandidateSelectionDecision.
CandidateSelectionItemDecision(d) ==
    /\ d.reasons # {} /\ d.count \in 1..MaxSelection
    /\ d.outcome = "SELECT_FOR_REVIEW" => d.reasons = {"ELIGIBLE_FOR_REVIEW"}
    /\ d.outcome # "SELECT_FOR_REVIEW" => "ELIGIBLE_FOR_REVIEW" \notin d.reasons
    /\ d.outcome = "DEFER" => d.reasons \subseteq _DEFER_REASONS
    /\ d.outcome = "REJECT_SELECTION" => d.reasons \cap _REJECT_REASONS # {}

CandidateSelectionDecision(s) ==
    /\ s.reasons # {}
    /\ \A d \in s.items : CandidateSelectionItemDecision(d)
    /\ \A d, e \in s.items : d.candidate = e.candidate => d = e
    /\ IF s.items # {}
       THEN /\ LET Count(d) == d.count IN s.input = Total(s.items, Count)
            /\ s.outcome = _batch_outcome(s.items)
       ELSE /\ s.outcome = "REJECT_SELECTION"
            /\ s.reasons = IF s.input = 0 THEN {"INSUFFICIENT_EVIDENCE"}
                           ELSE {"RESOURCE_LIMIT_EXCEEDED"}
--------------------------------------------------------------------------------
(* The review. *)

NoDecision == [call |-> "none"]

_review_batch(outcome, reasons, p, requested, entries, selection) ==
    [call |-> "review", outcome |-> outcome, reasons |-> reasons,
     entries |-> entries, selection |-> selection, discovered |-> p,
     requested |-> requested,
     staged |-> Cardinality({e \in entries : e.result.status = "ELIGIBLE"}),
     evaluated |-> Cardinality({e.result.candidate : e \in {x \in entries : x.evaluated}})]

_structural_batch(outcome, reason, p, requested) ==
    _review_batch(outcome, {reason}, p, requested, {}, NoDecision)

\* MemoryCandidateReviewEntry.__post_init__.
MemoryCandidateReviewEntry(e) ==
    IF e.result.status = "ELIGIBLE"
    THEN /\ e.selection # NoDecision
         /\ e.selection.candidate = e.result.candidate
         /\ e.evaluated <=> e.selection.outcome = "SELECT_FOR_REVIEW"
         /\ e.evaluated <=> e.decision # "none"
    ELSE e.selection = NoDecision /\ e.decision = "none" /\ ~e.evaluated

CompletedShape(b) ==
    LET failed == Cardinality(b.entries) - b.staged IN
    /\ b.requested # 0 /\ Cardinality(b.entries) = b.requested
    /\ b.selection # NoDecision
    /\ b.outcome = "REVIEW_COMPLETED" =>
          failed = 0 /\ b.reasons = {"REVIEW_COMPLETED"}
    /\ b.outcome = "PLAN_STALE" =>
          b.staged = 0 /\ b.reasons = {"STAGING_INELIGIBLE", "PLAN_STALE"}
    /\ b.outcome = "REVIEW_COMPLETED_WITH_INELIGIBLE_ENTRIES" =>
          /\ failed # 0 /\ b.staged # 0
          /\ b.reasons = {"REVIEW_COMPLETED", "STAGING_INELIGIBLE"}

_validate_outcome_shape(b) ==
    CASE b.outcome = "NOTHING_REQUESTED" ->
           /\ b.reasons = {"NOTHING_REQUESTED"} /\ b.requested = 0
           /\ b.entries = {} /\ b.selection = NoDecision
      [] b.outcome \in {"PLAN_INVALID", "RESOURCE_LIMIT_REACHED"} ->
           /\ b.entries = {} /\ b.selection = NoDecision
           /\ IF b.outcome = "PLAN_INVALID"
              THEN b.reasons \subseteq {"PLAN_INTEGRITY_FAILED",
                       "REQUEST_INTEGRITY_FAILED", "UNKNOWN_PROPOSAL_ID",
                       "DUPLICATE_PROPOSAL_ID"}
              ELSE b.reasons = {"RESOURCE_LIMIT_REACHED"}
      [] OTHER -> CompletedShape(b)

MemoryCandidateReviewBatch(b) ==
    /\ b.reasons # {}
    /\ \A e \in b.entries : MemoryCandidateReviewEntry(e)
    /\ \A e, f \in b.entries : e.proposal = f.proposal => e = f
    /\ b.selection # NoDecision =>
          /\ \A e \in b.entries : e.selection # NoDecision
                                    => e.selection \in b.selection.items
          /\ b.selection.input = b.staged
    /\ b.entries # {} => Cardinality(b.entries) = b.requested
    /\ _validate_outcome_shape(b)

\* The staged candidates as a batch for select, in the order of their proposals.
ReviewItems(staged) ==
    LET ok == {s \in staged : s.result.status = "ELIGIBLE"}
        Pos(s) == 1 + Cardinality({t \in ok : ProposalBefore(t.proposal, s.proposal)})
    IN  [n \in 1..Cardinality(ok) |->
            [candidate |-> (CHOOSE s \in ok : Pos(s) = n).result.candidate,
             eligible |-> TRUE]]

Selected(selection) ==
    {d.candidate : d \in {x \in selection.items : x.outcome = "SELECT_FOR_REVIEW"}}

Entries(staged, selection, decisions) ==
    {LET c == s.result.candidate
         mine == {d \in selection.items : d.candidate = c}
     IN  [proposal |-> s.proposal, result |-> s.result,
          selection |-> IF mine = {} THEN NoDecision ELSE CHOOSE d \in mine : TRUE,
          evaluated |-> c \in DOMAIN decisions,
          decision |-> IF c \in DOMAIN decisions THEN decisions[c] ELSE "none"] :
     s \in staged}

\* What is wrong with an invocation as a whole; form tells a plan or a request
\* whose content is no longer the one its identity was taken from.
StructuralFault(p, ids, twice, form) ==
    IF form = "altered_plan"
    THEN {_structural_batch("PLAN_INVALID", "PLAN_INTEGRITY_FAILED", 0, 0)}
    ELSE IF form = "overlong_request"
    THEN {_structural_batch("RESOURCE_LIMIT_REACHED", "RESOURCE_LIMIT_REACHED",
                            Cardinality(p.proposals), 0)}
    ELSE IF form = "altered_request"
    THEN {_structural_batch("PLAN_INVALID", "REQUEST_INTEGRITY_FAILED",
                            Cardinality(p.proposals), 0)}
    ELSE IF twice
    THEN {_structural_batch("PLAN_INVALID", "DUPLICATE_PROPOSAL_ID",
                            Cardinality(p.proposals), Cardinality(ids) + 1)}
    ELSE IF ~(ids \subseteq p.proposals)
    THEN {_structural_batch("PLAN_INVALID", "UNKNOWN_PROPOSAL_ID",
                            Cardinality(p.proposals), Cardinality(ids))}
    ELSE IF ids = {}
    THEN {_structural_batch("NOTHING_REQUESTED", "NOTHING_REQUESTED",
                            Cardinality(p.proposals), 0)}
    ELSE {}

ReviewOutcome(entries) ==
    LET staged == {e \in entries : e.result.status = "ELIGIBLE"} IN
    IF staged = entries THEN "REVIEW_COMPLETED"
    ELSE IF staged = {} THEN "PLAN_STALE"
    ELSE "REVIEW_COMPLETED_WITH_INELIGIBLE_ENTRIES"

ReviewReasons(outcome) ==
    [REVIEW_COMPLETED |-> {"REVIEW_COMPLETED"},
     PLAN_STALE |-> {"STAGING_INELIGIBLE", "PLAN_STALE"},
     REVIEW_COMPLETED_WITH_INELIGIBLE_ENTRIES |->
         {"REVIEW_COMPLETED", "STAGING_INELIGIBLE"}][outcome]
--------------------------------------------------------------------------------
(* The steps. *)

CInit ==
    /\ Init
    /\ source_clock \in {"ROS_SYSTEM_TIME", "SIMULATION_TIME"}
    /\ plan = NoPlan /\ review = NoReview /\ answer = NoAnswer /\ held = {}

\* The other threads that use the memory.
MemoryStep ==
    /\ Next
    /\ answer' = NoAnswer
    /\ held' = IF review = NoReview THEN {} ELSE held \cup recent'
    /\ UNCHANGED <<source_clock, plan, review>>

\* A caller stages one request of its own, or selects from candidates of its own;
\* in CNext only while there is no plan, which neither call could tell apart.
CallerStages(request, now) ==
    /\ ReadMemory(RefusedUnread(request, now) = {}, now)
    /\ answer' = stage(request, now)
    /\ UNCHANGED <<source_clock, plan, review, held>>

CallerSelects(batch) ==
    /\ answer' = select(batch)
    /\ UNCHANGED <<vars, source_clock, plan, review, held>>

\* prepare: one discovery, and the plan that holds its result.  A time that is
\* none makes the plan's constructor raise.
prepare(now) ==
    /\ plan = NoPlan
    /\ ReadMemory(now >= 0 /\ now >= last_now, now)
    /\ LET retained == PurgedRecent(now)
           found == discover(now, retained)
       IN  /\ answer' = IF now < 0 THEN Raised("prepare") ELSE found
           /\ plan' = IF now < 0 THEN NoPlan
                      ELSE [prepared |-> TRUE, at |-> now, from |-> retained,
                            proposals |-> found.proposals, outcome |-> found.outcome]
    /\ UNCHANGED <<source_clock, review, held>>

\* execute_review as far as it goes without the memory.
ReviewBegins(ids, twice, form, now) ==
    /\ plan # NoPlan /\ review = NoReview
    /\ LET fault == StructuralFault(plan, ids, twice, form) IN
       IF fault # {}
       THEN /\ answer' = CHOOSE b \in fault : TRUE
            /\ UNCHANGED <<review, held>>
       ELSE /\ review' = [running |-> TRUE, now |-> now, todo |-> ids, staged |-> {}]
            /\ held' = recent
            /\ answer' = NoAnswer
    /\ UNCHANGED <<vars, source_clock, plan>>

\* The next proposal of the loop is staged.
ReviewStages ==
    /\ review # NoReview /\ review.todo # {}
    /\ LET p == Least(review.todo, ProposalBefore) IN
       /\ ReadMemory(RefusedUnread(p, review.now) = {}, review.now)
       /\ review' = [review EXCEPT
              !.todo = @ \ {p},
              !.staged = @ \cup {[proposal |-> p, result |-> stage(p, review.now)]}]
    /\ answer' = NoAnswer
    /\ held' = held \cup recent'
    /\ UNCHANGED <<source_clock, plan>>

\* Selection, the evaluation of what was selected, and the batch.  The evaluator
\* may raise, or answer for another candidate, which raises too; and what it
\* answers may be too long in all.
ReviewConcludes(evaluation) ==
    /\ review # NoReview /\ review.todo = {}
    /\ LET selection == select(ReviewItems(review.staged))
           chosen == Selected(selection)
           found == Cardinality(plan.proposals)
           asked == Cardinality(review.staged)
           limit == _structural_batch("RESOURCE_LIMIT_REACHED",
                                      "RESOURCE_LIMIT_REACHED", found, asked)
       IN  /\ evaluation # "decided" => chosen # {}
           /\ IF DOMAIN ReviewItems(review.staged) # {} /\ selection.items = {}
              THEN answer' = limit
              ELSE CASE evaluation = "raises" -> answer' = Raised("review")
                     [] evaluation = "too_long" -> answer' = limit
                     [] evaluation = "decided" ->
                          \E decisions \in [chosen -> DecisionType] :
                             LET entries == Entries(review.staged, selection, decisions)
                                 outcome == ReviewOutcome(entries)
                             IN  answer' = _review_batch(outcome,
                                     ReviewReasons(outcome), found, asked, entries,
                                     selection)
    /\ review' = NoReview /\ held' = {}
    /\ UNCHANGED <<vars, source_clock, plan>>

Times == 0..MaxTime \cup {None}
Unknown == [robot |-> Robot, claim |-> Claim("EPISODIC", Robot, "person", None),
            obs |-> 0, item |-> 0, exact |-> TRUE]

CNext ==
    \/ MemoryStep
    \/ /\ plan = NoPlan
       /\ \/ \E request \in Requests, now \in Times : CallerStages(request, now)
          \/ \E batch \in Offers : CallerSelects(batch)
    \/ \E now \in Times : prepare(now)
    \/ /\ plan # NoPlan /\ review = NoReview
       /\ \E ids \in SUBSET plan.proposals, now \in Times :
             ReviewBegins(ids, FALSE, "exact", now)
    \/ /\ plan # NoPlan /\ review = NoReview
       /\ \/ \E form \in {"altered_plan", "altered_request", "overlong_request"} :
                ReviewBegins(plan.proposals, FALSE, form, 0)
          \/ ReviewBegins(plan.proposals \cup {Unknown}, FALSE, "exact", 0)
          \/ plan.proposals # {} /\ ReviewBegins(plan.proposals, TRUE, "exact", 0)
    \/ ReviewStages
    \/ \E evaluation \in {"decided", "raises", "too_long"} :
          ReviewConcludes(evaluation)

CSpec == CInit /\ [][CNext]_allVars
--------------------------------------------------------------------------------
(* Properties. *)

\* The parts of a plan and of a review are of their kinds.
CTypeOK ==
    /\ plan # NoPlan => /\ plan.at \in 0..MaxTime /\ plan.from \subseteq Ids
                        /\ \A p \in plan.proposals : p.obs \in Ids
    /\ review # NoReview => /\ review.now \in Times
                            /\ review.todo \subseteq plan.proposals
    /\ held \subseteq Ids

\* Every document that discovery, staging, selection and a review return is one
\* that its class constructs: none of the calls ends in an error of its own making,
\* whatever the memory lost on the way.
AnswersConstruct ==
    /\ answer.call = "stage" => CandidateStagingResult(answer)
    /\ "raised" \notin DOMAIN answer /\ answer.call = "discover"
          => CandidateDiscoveryResult(answer)
    /\ answer.call = "select" => CandidateSelectionDecision(answer)
    /\ "raised" \notin DOMAIN answer /\ answer.call = "review" =>
          /\ MemoryCandidateReviewBatch(answer)
          /\ answer.selection # NoDecision
                => CandidateSelectionDecision(answer.selection)

\* Discovery proposes nothing that staging would refuse: the two check the same
\* evidence in their own ways, and on the evidence a plan was made from, at its
\* time, every proposal of it stages.
ProposedIsStageable ==
    plan # NoPlan =>
        \A p \in plan.proposals :
            StageRetained(p, plan.at, plan.from).status = "ELIGIBLE"

\* Discovery leaves nothing out silently: when its outcome does not say that a
\* limit was reached, every item that would stage was proposed.
NothingLeftOut ==
    plan # NoPlan /\ plan.outcome # "RESOURCE_LIMIT_REACHED"
      /\ plan.outcome # "DISCOVERY_INELIGIBLE" =>
        \A i \in {j \in plan.from : Semantic(j)}, item \in UNION {Items[j] : j \in Ids} :
            LET p == _anonymous_semantic_proposal(i, item) IN
            StageRetained(p, plan.at, plan.from).status = "ELIGIBLE"
                => p \in plan.proposals

\* A plan is no capability: what a review has staged, the memory itself held,
\* together with the frame and the interpretation behind it, at some moment of
\* that review, and it was fresh at the review's time, however much was expired,
\* evicted or reset since the plan was made.
StagedWasHeld ==
    review # NoReview =>
        \A s \in review.staged : s.result.status = "ELIGIBLE" =>
            LET i == s.proposal.obs IN
            /\ {i, obs[i].frame, obs[i].interp} \subseteq held
            /\ obs[i].at \in (review.now - Freshness)..review.now

\* No review has two candidates evaluated that repeat or contradict each other,
\* also when some of its proposals could no longer be staged.
EvaluatedAgree ==
    answer.call = "review" /\ "raised" \notin DOMAIN answer =>
        \A e, f \in answer.entries :
            e.evaluated /\ f.evaluated /\ e # f =>
                ~SameIdentity(e.result.candidate, f.result.candidate)

\* Discovery is neither too narrow nor too wide: it proposes what would stage, all
\* of it or with a limit reported, in documents that construct.
DiscoveryExact == CTypeOK /\ NothingLeftOut /\ AnswersConstruct /\ ProposedIsStageable

\* A review trusts the memory and not the plan, and evaluates candidates that can
\* all be true.
ReviewsSound == StagedWasHeld /\ EvaluatedAgree
================================================================================
