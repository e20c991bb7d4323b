-------------------------- MODULE PolicyLifecycle --------------------------
(***************************************************************************)
(* From a demonstration to a policy that may be considered for activation: *)
(* scenario reports and explicit capture sessions become sealed episodes,  *)
(* episodes become an evaluation corpus with a candidate and a holdout     *)
(* partition, a candidate built from the first is evaluated offline on the *)
(* second, promoted, registered, approved, and possibly rolled back.       *)
(*                                                                         *)
(* Every stage is a pure function of immutable documents; the variables    *)
(* are the documents that callers hold.  Nothing is stored in one place: a *)
(* caller may pass any document it holds to any stage, register from an    *)
(* old registry snapshot, or read a document back from canonical JSON.  A  *)
(* document's identifier and fingerprint are modelled by its content.      *)
(***************************************************************************)
EXTENDS Integers, Sequences, FiniteSets

CONSTANTS
    ScenarioOf,     \* the catalog: assertions, required ones, authority, kind
    Answers,        \* for each scenario, what its executor may report
    Events,         \* events a caller may append to a capture session
    SourceRange,    \* the declared source time of a session: [start, end]
    Blueprints,     \* family, version, contract of a candidate, and if derived
    Rules,          \* promotion rules a criteria document may state
    RollbackRules,  \* rollback rules a criteria document may state
    RollbackClaims, \* reason and evidence kinds a rollback request may give
    Authorities,    \* authority references
    Libraries,      \* what a caller may start with, and how much it may hold
    None,           \* an absent parent, time or outcome
    Teacher,        \* the source of an episode that no scenario produced
    MaxEvents,      \* MAX_EVENTS_PER_EPISODE
    MaxPartition,   \* MAX_EPISODES_PER_PARTITION
    MaxVersions,    \* MAX_REGISTERED_VERSIONS
    MaxFamilies,    \* MAX_POLICY_FAMILIES
    Oversized(_)    \* whether the canonical JSON of a document of the registry,
                    \* given by the snapshots in it, exceeds the bound of its kind

VARIABLES
    session,        \* the capture session: its events and whether it is sealed
    episodes,       \* DemonstrationEpisodes
    corpora,        \* DemonstrationEvaluationCorpora
    candidates,     \* CandidatePolicyManifests
    reports,        \* OfflineEvaluationReports
    promotions,     \* PromotionDecisions with the documents they bind
    snapshots,      \* PolicyRegistrySnapshots, each a set of records
    rollbacks,      \* RollbackDecisions
    approvals,      \* AuthorityApprovalEvidence
    activations,    \* ActivationEligibilityDecisions
    limit           \* bounds on the documents held, fixed by the library

evidence == <<session, episodes, corpora>>
learning == <<candidates, reports, promotions>>
control  == <<rollbacks, approvals, activations, limit>>
pvars == <<evidence, learning, snapshots, control>>

Scenarios == DOMAIN ScenarioOf
Outcomes == {"success", "failure", "deferred", "rejected", "incomplete", "unknown"}
Dispositions == {"meets", "does_not_meet", "incomplete"}

---------------------------------------------------------------------------
(* Development scenarios *)

\* DevelopmentScenarioStep: every assertion belongs to one step.
ValidSteps(steps, assertions) ==
    /\ steps # {} /\ UNION steps = assertions
    /\ \A x, y \in steps : x # y => x \cap y = {}

\* DevelopmentScenarioDefinition
ValidScenario(def) ==
    /\ def.assertions # {} /\ def.required \subseteq def.assertions
    /\ ValidSteps(def.steps, def.assertions)
    /\ def.kind \in {"motion", "defer", "invalid", "generic"}
    /\ def.authority \in {"none", "development"}

\* verify_scenario_catalog: a catalog is its fixed list of valid definitions.
ValidCatalog == Scenarios # {} /\ \A s \in Scenarios : ValidScenario(ScenarioOf[s])

\* DevelopmentScenarioRunner.run: any failed assertion fails the scenario.
RunOutcome(answer) ==
    IF \/ \E a \in DOMAIN answer.results : answer.results[a] = "fail"
       \/ answer.cleanup = "incomplete"
    THEN "fail" ELSE "pass"

\* DevelopmentScenarioReport: only required assertions decide; a report that
\* disagrees cannot be constructed and the run ends without one.
ReportShape(s, answer) ==
    LET def     == ScenarioOf[s]
        outcome == RunOutcome(answer)
    IN  /\ DOMAIN answer.results = def.assertions
        /\ (outcome = "fail") <=>
              (\/ \E a \in def.required : answer.results[a] = "fail"
               \/ answer.cleanup = "incomplete")
        /\ outcome = "pass" => \A a \in def.required : answer.results[a] = "pass"
        /\ answer.development => def.authority = "development"
        /\ answer.cleanup = "clean" => answer.remaining = 0

ScenarioReport(s, answer) ==
    [scenario |-> s, outcome |-> RunOutcome(answer), answer |-> answer]

\* An adapter that looks at the kind of scenario before its outcome.
OutcomeFor_byKind(r) ==
    CASE ScenarioOf[r.scenario].kind = "defer"   -> "deferred"
      [] ScenarioOf[r.scenario].kind = "invalid" -> "rejected"
      [] ScenarioOf[r.scenario].kind = "motion"  -> "success"
      [] r.outcome = "fail" -> "failure"
      [] OTHER -> "success"

\* _outcome_for: what the adapter takes the demonstration to have been.
OutcomeFor(r) ==
    CASE r.outcome = "fail" -> "failure"
      [] r.outcome = "pass" /\ ScenarioOf[r.scenario].kind = "defer"   -> "deferred"
      [] r.outcome = "pass" /\ ScenarioOf[r.scenario].kind = "invalid" -> "rejected"
      [] OTHER -> "success"

\* A production scenario is captured only while it still shows a deferral
\* and no dispatch; the other kinds as they are.
Capturable(r) ==
    ScenarioOf[r.scenario].kind = "defer" =>
        r.answer.deferred /\ r.answer.dispatched = 0 /\ ~r.answer.development

\* The actions the fixed events of each kind of scenario record, whatever the
\* report says of them.
MotionActions == <<None, "requested", "completed", "completed", None>>
DeferActions  == <<"requested", "proposed", "deferred", "ineligible", "not_dispatched", None, None>>
InvalidActions == <<None, "rejected", None, None>>
GenericActions == <<None, None>>

ActionsFor(kind) ==
    CASE kind = "motion"  -> MotionActions
      [] kind = "defer"   -> DeferActions
      [] kind = "invalid" -> InvalidActions
      [] kind = "generic" -> GenericActions

\* None of the events of an adapter has a source time.
EventsFor(r) ==
    LET actions == ActionsFor(ScenarioOf[r.scenario].kind)
    IN  [i \in DOMAIN actions |->
            [id |-> i, index |-> i - 1, time |-> None, action |-> actions[i]]]

---------------------------------------------------------------------------
(* Teach mode *)

\* DemonstrationEvent
EventShape(event) == event.index \in 0..(MaxEvents - 1)

\* DemonstrationCaptureSession.append
CanAppend(s, event) ==
    /\ s.state = "open"
    /\ Len(s.events) < MaxEvents
    /\ event.index = Len(s.events)
    /\ \A i \in DOMAIN s.events : s.events[i].id # event.id

\* DemonstrationEpisode.__init__
EpisodeShape(source, range, events) ==
    /\ events # <<>> /\ \A i \in DOMAIN events : EventShape(events[i])
    /\ \A i \in DOMAIN events : events[i].index = i - 1
    /\ \A i, j \in DOMAIN events : events[i].id = events[j].id => i = j
    /\ IF range = None THEN \A i \in DOMAIN events : events[i].time = None
       ELSE /\ \A i \in DOMAIN events : events[i].time # None
            /\ \A i, j \in DOMAIN events : i < j => events[i].time <= events[j].time
            /\ range.start <= events[1].time
            /\ events[Len(events)].time <= range.end

Episode(source, range, events, outcome) ==
    [source |-> source, range |-> range, events |-> events, outcome |-> outcome]

\* verify_episode: the reasons it finds, looked for one event after another.
EpisodeFaults(e) ==
    {f \in {"order", "duplicate", "bound", "clock", "content"} :
        \/ f = "order" /\ \E i \in DOMAIN e.events : e.events[i].index # i - 1
        \/ f = "duplicate" /\ Cardinality({e.events[i].id : i \in DOMAIN e.events}) # Len(e.events)
        \/ f = "bound" /\ Len(e.events) \notin 1..MaxEvents
        \/ f = "clock" /\ \E i \in DOMAIN e.events :
                \/ e.range = None /\ e.events[i].time # None
                \/ e.range # None /\ e.events[i].time = None
                \/ /\ e.range # None /\ i > 1
                   /\ e.events[i].time < e.events[i - 1].time
        \/ f = "content" /\ ~EpisodeShape(e.source, e.range, e.events)}

---------------------------------------------------------------------------
(* Learning evaluation *)

\* DemonstrationEpisodeReference: an episode and the outcome said to be its.
Reference(e, outcome) == [episode |-> e, outcome |-> outcome]

EpisodesOf(references) == {x.episode : x \in references}

\* DemonstrationEvidenceSet
EvidenceSetShape(references) ==
    /\ references # {} /\ Cardinality(references) <= MaxPartition
    /\ \A x, y \in references : x.episode = y.episode => x = y

\* DemonstrationEvaluationCorpus
CorpusShape(c) ==
    /\ EvidenceSetShape(c.candidate) /\ EvidenceSetShape(c.holdout)
    /\ EpisodesOf(c.candidate) \cap EpisodesOf(c.holdout) = {}

\* CandidatePolicyManifest: bound to one evidence set, and to the exact
\* candidate it was derived from.
Candidate(b, set, parent) ==
    [family |-> b.family, version |-> b.version, contract |-> b.contract,
     evidence |-> set, parent |-> parent]

\* OfflineTrialResult: the status follows from what was observed.
Trial(candidate, reference, observed) ==
    [candidate |-> candidate, episode |-> reference.episode, expected |-> reference.outcome,
     observed |-> observed,
     status |-> IF observed = None THEN "incomplete"
                ELSE IF observed = reference.outcome THEN "match" ELSE "mismatch"]

\* verify_trial_result: the trial is rebuilt from its own fields.
TrialVerifies(t) == t = Trial(t.candidate, Reference(t.episode, t.expected), t.observed)

\* _verified_ordered_trials
VerifiedTrials(corpus, candidate, trials) ==
    /\ \A x, y \in trials : x.episode = y.episode => x = y
    /\ \A t \in trials :
          /\ TrialVerifies(t) /\ t.candidate = candidate
          /\ t.episode \notin EpisodesOf(corpus.candidate)
          /\ Reference(t.episode, t.expected) \in corpus.holdout

\* _report_from_evidence
Report(corpus, candidate, trials) ==
    LET of(status) == {t.episode : t \in {x \in trials : x.status = status}}
        missing    == EpisodesOf(corpus.holdout) \ {t.episode : t \in trials}
    IN  [corpus |-> corpus, candidate |-> candidate, trials |-> trials,
         evaluated |-> Cardinality(of("match") \cup of("mismatch")),
         incomplete |-> of("incomplete"), missing |-> missing,
         failed |-> Cardinality(of("mismatch")),
         disposition |-> IF missing # {} \/ of("incomplete") # {} THEN "incomplete"
                         ELSE IF of("mismatch") # {} THEN "does_not_meet" ELSE "meets"]

\* verify_evaluation_report: the report is rebuilt from its evidence.
ReportVerifies(r) ==
    /\ CorpusShape(r.corpus)
    /\ VerifiedTrials(r.corpus, r.candidate, r.trials)
    /\ r = Report(r.corpus, r.candidate, r.trials)

\* evaluate_offline accepts only the corpus the candidate was built from.
Evaluable(corpus, candidate) ==
    CorpusShape(corpus) /\ candidate.evidence = corpus.candidate

---------------------------------------------------------------------------
(* Promotion and rollback *)

\* PromotionCriteria: a rule for one candidate on one holdout set.
ValidPromotionRule(rule) ==
    /\ rule.dispositions \subseteq Dispositions /\ rule.dispositions # {}
    /\ rule.minimum \in Nat \ {0} /\ rule.maximumFailed \in Nat
    /\ rule.stages # {}

Criteria(rule, candidate, holdout) ==
    [rule |-> rule, candidate |-> candidate, holdout |-> holdout]

\* CandidatePromotionRequest: it names the documents it was made from.
PromotionRequest(candidate, report, criteria, stage) ==
    [candidate |-> candidate, report |-> report, criteria |-> criteria, stage |-> stage]

\* evaluate_promotion: the reasons against, none if the criteria are met.
PromotionReasons(criteria, request, candidate, report) ==
    LET rule == criteria.rule
    IN  {x \in {"criteria", "candidate", "report", "lineage", "target", "stage",
                "disposition", "incomplete", "coverage", "failures", "holdout"} :
            \/ x = "criteria"  /\ request.criteria # criteria
            \/ x = "candidate" /\ request.candidate # candidate
            \/ x = "report"    /\ request.report # report
            \/ x = "lineage"   /\ \/ report.candidate # candidate
                                  \/ report.corpus.candidate # candidate.evidence
            \/ x = "target"    /\ criteria.candidate # candidate
            \/ x = "stage"     /\ request.stage \notin rule.stages
            \/ x = "disposition" /\ report.disposition \notin rule.dispositions
            \/ x = "incomplete" /\ rule.complete
                                /\ (report.missing # {} \/ report.incomplete # {})
            \/ x = "coverage"  /\ report.evaluated < rule.minimum
            \/ x = "failures"  /\ report.failed > rule.maximumFailed
            \/ x = "holdout"   /\ report.corpus.holdout # criteria.holdout}

\* PromotionDecision
Decision(criteria, request, candidate, report) ==
    [criteria |-> criteria, request |-> request, candidate |-> candidate,
     report |-> report, stage |-> request.stage,
     status |-> IF PromotionReasons(criteria, request, candidate, report) = {}
                THEN "eligible" ELSE "not_eligible"]

\* KnownGoodPolicyReference: an eligible decision about the target itself.
KnownGoodShape(target, d) == d.status = "eligible" /\ d.candidate = target

KnownGood(target, d) ==
    [target |-> target, decision |-> d, family |-> target.family, contract |-> target.contract]

RequiredKind(reason) ==
    CASE reason = "evaluation_regression" -> "evaluation_report"
      [] reason = "safety_regression"     -> "safety_review"
      [] reason = "runtime_regression"    -> "runtime_observation"
      [] reason = "operator_request"      -> "operator_instruction"
      [] reason = "integrity_failure"     -> "integrity_report"

\* RollbackRequest: at least one reference, each once.
ValidClaim(claim) == claim.kinds # {}

\* evaluate_rollback
RollbackReasons(criteria, request, current, target, good, d) ==
    {x \in {"criteria", "current", "good", "criteria_current", "criteria_good", "target",
            "decision", "self", "lineage", "reason", "evidence", "kind"} :
        \/ x = "criteria" /\ request.criteria # criteria
        \/ x = "current"  /\ request.current # current
        \/ x = "good"     /\ request.good # good
        \/ x = "criteria_current" /\ criteria.current # current
        \/ x = "criteria_good"    /\ criteria.good # good
        \/ x = "target"   /\ good.target # target
        \/ x = "decision" /\ \/ d.status # "eligible"
                             \/ good.decision # d
                             \/ d.candidate # target
        \/ x = "self"     /\ current = target
        \/ x = "lineage"  /\ \E c \in {current, target} :
                                c.family # good.family \/ c.contract # good.contract
        \/ x = "reason"   /\ request.claim.reason \notin criteria.rule.reasons
        \/ x = "evidence" /\ Cardinality(request.claim.kinds) < criteria.rule.minimum
        \/ x = "kind"     /\ RequiredKind(request.claim.reason) \notin request.claim.kinds}

---------------------------------------------------------------------------
(* Policy registry *)

\* RegisteredPolicyVersion, with the decision and the documents it binds.
Record(d) == [candidate |-> d.candidate, decision |-> d, stage |-> d.stage]

VersionKey(r) == <<r.candidate.family, r.candidate.version>>

\* _require_resolvable_parent
ParentResolves(snapshot, r) ==
    r.candidate.parent # None =>
        \E p \in snapshot :
            /\ p.candidate = r.candidate.parent
            /\ p.candidate.family = r.candidate.family
            /\ p.candidate.contract = r.candidate.contract

\* PolicyRegistrySnapshot: what is refused for its size alone.
SnapshotFits(snapshot) ==
    /\ Cardinality(snapshot) <= MaxVersions
    /\ Cardinality({x.candidate.family : x \in snapshot}) <= MaxFamilies
    /\ ~Oversized(<<snapshot>>)

\* PolicyRegistrySnapshot: _validate_snapshot_versions.  A parent chain ends
\* because a candidate's identity covers its parent's.
SnapshotShape(snapshot) ==
    /\ SnapshotFits(snapshot)
    /\ \A x, y \in snapshot :
          /\ x.candidate = y.candidate => x = y
          /\ VersionKey(x) = VersionKey(y) => x = y
    /\ \A x \in snapshot : ParentResolves(snapshot, x)

\* A registration that believes the decision it is given.
Authoritative_byStatus(d) == d.status = "eligible"

\* _authoritative_decision: promotion is evaluated again from its evidence.
Authoritative(d) ==
    /\ ReportVerifies(d.report)
    /\ d = Decision(d.criteria, d.request, d.candidate, d.report)
    /\ d.status = "eligible"

\* Mutant: _require_resolvable_parent is not called.
RegistrationOutcome_anyParent(snapshot, r) ==
    LET same == {x \in snapshot : VersionKey(x) = VersionKey(r)}
    IN  IF r \in same THEN "already_registered"
        ELSE IF same # {} \/ \E x \in snapshot : x.candidate = r.candidate THEN "refused"
        ELSE "registered"

\* register_candidate: what it decides about a record and a snapshot, before
\* the constructors have their say.
RegistrationOutcome(snapshot, r) ==
    LET same == {x \in snapshot : VersionKey(x) = VersionKey(r)}
    IN  IF r \in same THEN "already_registered"
        ELSE IF same # {} \/ \E x \in snapshot : x.candidate = r.candidate THEN "refused"
        ELSE IF ~ParentResolves(snapshot, r) THEN "refused"
        ELSE "registered"

\* RegistrationResult: exactly the record is added.  Its document holds both
\* snapshots.
ResultShape(previous, updated, r) ==
    /\ r \notin previous /\ updated = previous \cup {r} /\ SnapshotShape(updated)
    /\ ~Oversized(<<previous, updated>>)

---------------------------------------------------------------------------
(* Approval *)

\* AuthorityReference: evidence of an external verification goes with the
\* statuses that claim one.
ValidAuthority(a) ==
    /\ a.status \in {"unverified", "verified", "revoked"}
    /\ (a.status = "unverified") <=> (a.proof = None)

ApprovalDispositions == {"approved", "rejected", "revoked"}

ApprovalRequest(record, authority) == [record |-> record, authority |-> authority]

\* AuthorityApprovalEvidence is given by the authority that was asked.
ApprovalShape(request, authority) == request.authority = authority

\* A chain that compares the policy but not the whole record.
ExactChain_sameFamily(record, request, approval) ==
    /\ request.record.candidate.family = record.candidate.family
    /\ approval.request.authority = request.authority

\* _require_exact_approval_chain
ExactChain(record, request, approval) ==
    /\ request.record = record
    /\ approval.request = request
    /\ approval.authority = request.authority

\* evaluate_activation_eligibility
ActivationReasons(approval) ==
    {x \in {"authority_unverified", "authority_revoked", "rejected", "revoked"} :
        \/ x = "authority_unverified" /\ approval.authority.status = "unverified"
        \/ x = "authority_revoked"    /\ approval.authority.status = "revoked"
        \/ x = "rejected" /\ approval.disposition = "rejected"
        \/ x = "revoked"  /\ approval.disposition = "revoked"}

---------------------------------------------------------------------------
ASSUME CatalogIsValid == ValidCatalog

ASSUME ConfigurationIsValid ==
    /\ \A rule \in Rules : ValidPromotionRule(rule)
    /\ \A claim \in RollbackClaims : ValidClaim(claim)
    /\ \A a \in Authorities : ValidAuthority(a)

ASSUME BoundsAreNumbers ==
    MaxEvents \in Nat \ {0} /\ MaxVersions \in Nat /\ MaxFamilies \in Nat

\* The empty registry a caller begins with can be constructed.
ASSUME EmptySnapshotFits == ~Oversized(<<{}>>)

\* A time is an integer, in nanoseconds.
ASSUME EventsHaveTimes == \A event \in Events : event.time \in Int \cup {None}

\* What an adapter or a session has put into an episode.
Captured(e) ==
    \E s \in Scenarios : \E answer \in Answers[s] :
        LET r == ScenarioReport(s, answer)
        IN  /\ ReportShape(s, answer) /\ EpisodeShape(r, None, EventsFor(r))
            /\ e = Episode(r, None, EventsFor(r), OutcomeFor(r))

Taught(e) ==
    /\ e = Episode(Teacher, SourceRange, e.events, e.outcome)
    /\ e.events \in Seq(Events) /\ EpisodeShape(Teacher, SourceRange, e.events)
    /\ e.outcome \in Outcomes

\* The documents a caller starts with were made by the steps below, of documents
\* it has as well.
ASSUME LibrariesAreMade ==
    \A l \in Libraries :
        /\ IsFiniteSet(l.episodes) /\ \A e \in l.episodes : Captured(e) \/ Taught(e)
        /\ \A c \in l.corpora : EpisodesOf(c.candidate \cup c.holdout) \subseteq l.episodes
        /\ \A c \in l.corpora : IsFiniteSet(c.candidate) /\ IsFiniteSet(c.holdout)
        /\ \A c \in l.candidates : c.parent \in l.candidates \cup {None}
        /\ \A r \in l.reports : r.corpus \in l.corpora /\ r.candidate \in l.candidates
        /\ \A r \in l.reports : IsFiniteSet(r.trials)
        /\ \A d \in l.promotions :
              d.candidate \in l.candidates /\ d.report \in l.reports /\ d.criteria.rule \in Rules

PInit ==
    /\ session = [state |-> "none", events |-> <<>>]
    /\ \E l \in Libraries :
          /\ episodes = l.episodes /\ corpora = l.corpora
          /\ candidates = l.candidates /\ reports = l.reports /\ promotions = l.promotions
          /\ limit = l.limit
    /\ snapshots = {{}}
    /\ rollbacks = {} /\ approvals = {} /\ activations = {}

\* One scenario is run and its report captured as an episode.
CaptureScenario(s) ==
    /\ \E answer \in Answers[s] :
          /\ ReportShape(s, answer)
          /\ LET r == ScenarioReport(s, answer)
             IN  /\ Capturable(r)
                 /\ EpisodeShape(r, None, EventsFor(r))
                 /\ episodes' = episodes \cup {Episode(r, None, EventsFor(r), OutcomeFor(r))}
    /\ UNCHANGED <<session, corpora, learning, snapshots, control>>

\* DemonstrationRecorder.begin
BeginSession ==
    /\ session.state # "open"
    /\ session' = [state |-> "open", events |-> <<>>]
    /\ UNCHANGED <<episodes, corpora, learning, snapshots, control>>

AppendEvent(event) ==
    /\ EventShape(event) /\ CanAppend(session, event)
    /\ session' = [session EXCEPT !.events = Append(@, event)]
    /\ UNCHANGED <<episodes, corpora, learning, snapshots, control>>

\* DemonstrationCaptureSession.finish: a session whose episode cannot be
\* constructed stays open.
FinishSession(outcome) ==
    /\ session.state = "open"
    /\ EpisodeShape(Teacher, SourceRange, session.events)
    /\ session' = [session EXCEPT !.state = "sealed"]
    /\ episodes' = episodes \cup {Episode(Teacher, SourceRange, session.events, outcome)}
    /\ UNCHANGED <<corpora, learning, snapshots, control>>

\* A corpus is built from episodes that verify, with their own outcomes.
BuildCorpus(P, Q) ==
    LET own(S) == {Reference(e, e.outcome) : e \in S}
        corpus == [candidate |-> own(P), holdout |-> own(Q)]
    IN  /\ \A e \in P \cup Q : EpisodeFaults(e) = {}
        /\ CorpusShape(corpus)
        /\ corpora' = corpora \cup {corpus}
        /\ UNCHANGED <<session, episodes, learning, snapshots, control>>

\* corpus_from_canonical_json: the episodes are not at hand, and the document
\* may claim any outcome of them.
ReadCorpus(corpus) ==
    /\ CorpusShape(corpus)
    /\ corpora' = corpora \cup {corpus}
    /\ UNCHANGED <<session, episodes, learning, snapshots, control>>

\* A candidate is built from the candidate partition of a corpus.
BuildCandidate(b, corpus, parent) ==
    /\ b.derived <=> parent # None
    /\ candidates' = candidates \cup {Candidate(b, corpus.candidate, parent)}
    /\ UNCHANGED <<evidence, reports, promotions, snapshots, control>>

\* evaluate_offline, with the trials a caller supplies: results of any
\* candidate on any episode of the corpus, some perhaps left out.
EvaluateOffline(corpus, candidate, trials) ==
    /\ Evaluable(corpus, candidate)
    /\ VerifiedTrials(corpus, candidate, trials)
    /\ reports' = reports \cup {Report(corpus, candidate, trials)}
    /\ UNCHANGED <<evidence, candidates, promotions, snapshots, control>>

\* evaluate_promotion, with criteria and a request that may be about other
\* documents than the ones it is called with.
EvaluatePromotion(criteria, request, candidate, report) ==
    /\ ReportVerifies(report)
    /\ promotions' = promotions \cup {Decision(criteria, request, candidate, report)}
    /\ UNCHANGED <<evidence, candidates, reports, snapshots, control>>

\* A decision read back from canonical JSON: its identity is checked, not
\* whether promotion was ever evaluated to that status.
ImportDecision(criteria, request, candidate, report) ==
    /\ promotions' = promotions \cup
          {[Decision(criteria, request, candidate, report) EXCEPT !.status = "eligible"]}
    /\ UNCHANGED <<evidence, candidates, reports, snapshots, control>>

\* register_candidate: the new snapshot stands beside the one it came from.  A
\* constructor that refuses raises, and nothing is registered.
RegisterCandidate(snapshot, d) ==
    LET updated == snapshot \cup {Record(d)}
    IN  /\ Authoritative(d)
        /\ RegistrationOutcome(snapshot, Record(d)) = "registered"
        /\ ResultShape(snapshot, updated, Record(d))
        /\ snapshots' = snapshots \cup {updated}
    /\ UNCHANGED <<evidence, learning, control>>

\* evaluate_rollback from a known-good reference made of one decision and
\* called with another.
EvaluateRollback(current, target, goodDecision, d, rule, claim, asked) ==
    LET good     == KnownGood(goodDecision.candidate, goodDecision)
        criteria == [current |-> asked, good |-> good, rule |-> rule]
        request  == [current |-> current, good |-> good, criteria |-> criteria, claim |-> claim]
    IN  /\ KnownGoodShape(goodDecision.candidate, goodDecision)
        /\ rollbacks' = rollbacks \cup
              {[current |-> current, target |-> target, decision |-> d, claim |-> claim,
                status |-> IF RollbackReasons(criteria, request, current, target, good, d) = {}
                           THEN "eligible" ELSE "rejected"]}
        /\ UNCHANGED <<evidence, learning, snapshots, approvals, activations, limit>>

\* An authority answers a request about a registered version.
GiveApproval(record, asked, authority, disposition) ==
    LET request == ApprovalRequest(record, asked)
    IN  /\ ApprovalShape(request, authority)
        /\ approvals' = approvals \cup
              {[request |-> request, authority |-> authority, disposition |-> disposition]}
        /\ UNCHANGED <<evidence, learning, snapshots, rollbacks, activations, limit>>

\* evaluate_activation_eligibility
EvaluateActivation(record, request, approval) ==
    /\ ExactChain(record, request, approval)
    /\ activations' = activations \cup
          {[record |-> record, approval |-> approval,
            status |-> IF ActivationReasons(approval) = {} THEN "eligible" ELSE "ineligible"]}
    /\ UNCHANGED <<evidence, learning, snapshots, rollbacks, approvals, limit>>

Records == UNION snapshots

\* The references a corpus document may make.
Claims == {Reference(e, o) : e \in episodes, o \in {"success", "failure"}}

Holdouts == {c.holdout : c \in corpora}

\* Trials of one candidate on some episodes of a corpus.
TrialSets(corpus) ==
    UNION {{{Trial(x[1], c, x[2][c]) : c \in S} :
               x \in candidates \X [S -> {None, "success", "failure"}]} :
           S \in SUBSET (corpus.candidate \cup corpus.holdout)}

\* A caller keeps at most the documents its library's bound allows.
Room(documents, bound) == Cardinality(documents) < bound

PNext ==
    \/ /\ Room(episodes, limit.episodes)
       /\ \/ \E s \in Scenarios : CaptureScenario(s)
          \/ BeginSession
          \/ \E event \in Events : AppendEvent(event)
          \/ \E outcome \in {"success", "incomplete"} : FinishSession(outcome)
    \/ /\ Room(corpora, limit.corpora)
       /\ \/ \E P, Q \in SUBSET episodes : BuildCorpus(P, Q)
          \/ \E P, Q \in SUBSET Claims : ReadCorpus([candidate |-> P, holdout |-> Q])
    \/ /\ Room(candidates, limit.candidates)
       /\ \E b \in Blueprints, corpus \in corpora, parent \in candidates \cup {None} :
             BuildCandidate(b, corpus, parent)
    \/ /\ Room(reports, limit.reports)
       /\ \E corpus \in corpora, c \in candidates : \E trials \in TrialSets(corpus) :
             EvaluateOffline(corpus, c, trials)
    \/ /\ Room(promotions, limit.promotions)
       /\ \E rule \in Rules, c, named \in candidates, h \in Holdouts, r \in reports :
          \E stage \in rule.stages :
              LET criteria == Criteria(rule, named, h)
                  request  == PromotionRequest(c, r, criteria, stage)
              IN  \/ \E given \in candidates : EvaluatePromotion(criteria, request, given, r)
                  \/ ImportDecision(criteria, request, c, r)
    \/ /\ Room(snapshots, limit.snapshots)
       /\ \E snapshot \in snapshots, d \in promotions : RegisterCandidate(snapshot, d)
    \/ /\ Room(rollbacks, limit.rollbacks)
       /\ \E current, target, asked \in candidates, good, d \in promotions,
             rule \in RollbackRules, claim \in RollbackClaims :
             EvaluateRollback(current, target, good, d, rule, claim, asked)
    \/ /\ Room(approvals, limit.approvals)
       /\ \E record \in Records, asked, a \in Authorities,
             disposition \in ApprovalDispositions :
             GiveApproval(record, asked, a, disposition)
    \/ /\ Room(activations, limit.activations)
       /\ \E record \in Records, x, approval \in approvals :
             EvaluateActivation(record, x.request, approval)

PSpec == PInit /\ [][PNext]_pvars

---------------------------------------------------------------------------
(* Properties *)

\* The documents refer to documents that exist.
PTypeOK ==
    /\ session.state \in {"none", "open", "sealed"} /\ Len(session.events) <= MaxEvents
    /\ \A e \in episodes : e.outcome \in Outcomes
    /\ \A c \in corpora : EpisodesOf(c.candidate \cup c.holdout) \subseteq episodes
    /\ \A c \in candidates : c.parent \in candidates \cup {None}
    /\ \A r \in reports : r.corpus \in corpora /\ r.candidate \in candidates
    /\ \A d \in promotions : d.candidate \in candidates /\ d.report \in reports
    /\ {} \in snapshots /\ \A r \in Records : r.decision \in promotions
    /\ \A x \in rollbacks : x.status \in {"eligible", "rejected"}
    /\ \A x \in approvals : x.authority \in Authorities /\ x.disposition \in ApprovalDispositions
    /\ \A x \in activations : x.approval \in approvals /\ x.record \in Records

\* What a session seals or the adapter captures passes verify_episode, whose
\* checks are written separately from the episode's constructor: event order,
\* unique events, a clock that is absent throughout or never runs back.
EpisodesVerify == \A e \in episodes : EpisodeFaults(e) = {}

\* An episode the adapter calls a success, a deferral or a rejection comes
\* from a run in which every required assertion passed and cleanup ended,
\* although the runner and the report decide on failure differently.
OutcomeIsEarned ==
    \A e \in episodes :
        e.source # Teacher /\ e.outcome \in {"success", "deferred", "rejected"} =>
            /\ e.source.answer.cleanup # "incomplete"
            /\ \A a \in ScenarioOf[e.source.scenario].required :
                  e.source.answer.results[a] = "pass"

\* A registered version was evaluated on demonstrations it was not built
\* from: whatever corpora, candidates, reports, criteria and requests were
\* mixed up on the way, some holdout episode was evaluated, as many as the
\* rule asks for, no more of them failed than it allows, and none of them is
\* evidence of the candidate.
RegisteredOnHoldout ==
    \A r \in Records :
        LET rule == r.decision.criteria.rule
            done == {t \in r.decision.report.trials : t.observed # None}
        IN  /\ r.decision.candidate = r.candidate
            /\ Cardinality(done) >= rule.minimum /\ done # {}
            /\ \A t \in done : t.candidate = r.candidate /\ t.episode \notin EpisodesOf(r.candidate.evidence)
            /\ Cardinality({t \in done : t.observed # t.expected}) <= rule.maximumFailed

\* register_candidate and the constructors it ends in, written apart, refuse
\* for the same reasons but one: once it has decided to register, from whatever
\* old snapshot, only a document that is too big makes it raise, and never the
\* identities, versions or parents in it.
OnlySizeStopsRegistration ==
    \A snapshot \in snapshots, d \in promotions :
        LET updated == snapshot \cup {Record(d)}
        IN  Authoritative(d) /\ RegistrationOutcome(snapshot, Record(d)) = "registered" =>
                \/ ResultShape(snapshot, updated, Record(d))
                \/ ~SnapshotFits(updated) \/ Oversized(<<snapshot, updated>>)

\* An eligible rollback leads from one candidate to another of the same
\* family and contract that an eligible decision is about, for a reason
\* backed by its kind of evidence.
RollbackSound ==
    \A x \in rollbacks :
        x.status = "eligible" =>
            /\ x.target # x.current
            /\ x.target.family = x.current.family /\ x.target.contract = x.current.contract
            /\ x.decision.status = "eligible" /\ x.decision.candidate = x.target
            /\ RequiredKind(x.claim.reason) \in x.claim.kinds

\* A version found eligible for activation is in a registry, and a verified
\* authority was asked about this very record and approved it.
ActivationIsApproved ==
    \A x \in activations :
        x.status = "eligible" =>
            /\ x.record \in Records
            /\ x.approval.request.record = x.record
            /\ x.approval.request.authority = x.approval.authority
            /\ x.approval.authority.status = "verified" /\ x.approval.disposition = "approved"

\* What teach mode records is well formed and says of its run what happened.
EpisodesSound == PTypeOK /\ EpisodesVerify /\ OutcomeIsEarned

\* What a registry holds was evaluated on holdout evidence, and a registration
\* that is decided fails for its size only.
RegistrySound == RegisteredOnHoldout /\ OnlySizeStopsRegistration

\* A version is released, forward by activation or back by rollback, only on a
\* decision about that version itself.
ReleasesSound == RollbackSound /\ ActivationIsApproved
=============================================================================
