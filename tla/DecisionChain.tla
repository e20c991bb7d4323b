--------------------------- MODULE DecisionChain ---------------------------
(***************************************************************************)
(* From a structured request to a transport: the Executive proposes a plan *)
(* from one context snapshot and a capability registry, the Safety Kernel  *)
(* classifies the plan under a policy, the Skill Manager binds one step to *)
(* a skill, the Runtime Bridge matches the binding with an endpoint, and   *)
(* the dispatcher or the simulation-control boundary uses the result.      *)
(*                                                                         *)
(* Every stage is a pure function of immutable documents and of one of the *)
(* configurations below; a new deployment replaces a configuration between *)
(* any two calls, and a caller may pass any document it still holds to any *)
(* stage.  A fingerprint is modelled by the content it covers, so equal    *)
(* fingerprints mean equal content (SHA-256 without collisions).           *)
(***************************************************************************)
EXTENDS Naturals, FiniteSets, FiniteSetsExt

CONSTANTS
    Keys,           \* context requirements: a domain and a predicate
    Capabilities,   \* capability identifiers
    SkillIds,       \* skill identifiers
    Requests,       \* request identifiers
    RequestOf,      \* the content of every request
    Contexts,       \* names of the states of the owner's context
    ContextOf,      \* for each, what a key is known as
    Contracts,      \* names of the capability registries
    ContractOf,     \* for each, the definition of a capability, or Absent
    Policies,       \* names of the safety policies
    PolicyOf,       \* for each, the rule of a capability, or Absent
    SkillRegistries,    \* names of the skill registries
    SkillOf,            \* for each, the definition of a skill, or Absent
    EndpointRegistries, \* names of the runtime endpoint registries
    EndpointsOf,        \* for each, its bindings of skills to endpoints
    ControlCapability,  \* the capability of the reviewed control endpoint
    Deployments,    \* what may be configured when the program starts
    Absent,         \* what a registry answers for an identifier it lacks
    Values,         \* the parameter documents
    MaxChanges,     \* bound on the replacements of a configuration
    MaxPlans,       \* bound on the proposals kept by callers
    MaxBindings,    \* bound on the bindings kept by callers
    MaxUses         \* bound on the calls of the dispatcher and the boundary

VARIABLES
    context, contract, policy, skills, endpoints,  \* what is configured now
    changes,        \* how often a configuration was replaced
    plans,          \* the ExecutiveDecisions a caller holds
    reviews,        \* the SafetyDecisions a caller holds
    bindings,       \* the SkillBindingResults a caller holds
    decisions,      \* the RuntimeDecisions a caller holds
    sent,           \* the requests a transport accepted
    commands,       \* the commands the control boundary released
    uses            \* how often the dispatcher or the boundary was called

world == <<context, contract, policy, skills, endpoints>>
papers == <<plans, reviews, bindings, decisions>>
vars == <<world, changes, papers, sent, commands, uses>>

---------------------------------------------------------------------------
(* Executive *)

\* The definitions of items merged by identifier must not contradict.
Merges(items) == \A a, b \in items : a.id = b.id => a = b

RequestedCapabilities(r) == {RequestOf[r].steps[s].capability : s \in DOMAIN RequestOf[r].steps}

StepIds == UNION {DOMAIN RequestOf[r].steps : r \in Requests}

\* The contracts behind a request: fingerprint_for covers only these.
ContractFor(registry, caps) == [c \in caps |-> ContractOf[registry][c]]

\* Parameters fit a capability when it declares every field of them and they
\* give every required field; the model lists the parameters that fit.
ValidParameters(def, parameters) == parameters \in def.parameters

RequiredContext(r, registry) ==
    RequestOf[r].context \cup
        UNION {ContractOf[registry][c].context :
                  c \in {x \in RequestedCapabilities(r) : ContractOf[registry][x] # Absent}}

\* What the snapshot says of every required and optional key, each once.
ReferencesFor(snapshot, required, optional) ==
    [k \in required \cup optional |->
        [required |-> k \in required, state |-> ContextOf[snapshot][k]]]

\* The part of the references that revalidation compares.
RelevantContext(refs) == {<<k, refs[k].state>> : k \in {x \in DOMAIN refs : refs[x].required}}

InState(refs, state) == {k \in DOMAIN refs : refs[k].required /\ refs[k].state = state}

\* A plan whose steps carry only the constraints of their capabilities.
BuildPlan_noRequestConstraints(r, registry) ==
    [s \in DOMAIN RequestOf[r].steps |->
        LET call == RequestOf[r].steps[s]
            def  == ContractOf[registry][call.capability]
        IN  [capability |-> call.capability, parameters |-> call.parameters,
             after |-> call.after, preconditions |-> def.preconditions,
             context |-> RequestOf[r].context \cup def.context,
             approvals |-> RequestOf[r].approvals \cup def.approvals,
             constraints |-> def.constraints,
             result |-> def.result]]

\* One step per invocation, its requirements those of the request and of the
\* capability together.
BuildPlan(r, registry) ==
    [s \in DOMAIN RequestOf[r].steps |->
        LET call == RequestOf[r].steps[s]
            def  == ContractOf[registry][call.capability]
        IN  [capability |-> call.capability, parameters |-> call.parameters,
             after |-> call.after, preconditions |-> def.preconditions,
             context |-> RequestOf[r].context \cup def.context,
             approvals |-> RequestOf[r].approvals \cup def.approvals,
             constraints |-> RequestOf[r].constraints \cup def.constraints,
             result |-> def.result]]

\* Steps depend on steps of the plan and never on each other in a circle:
\* every non-empty set of steps has one that depends on none of the set.
Ordered(plan) ==
    /\ \A s \in DOMAIN plan : plan[s].after \subseteq DOMAIN plan
    /\ \A S \in SUBSET DOMAIN plan :
          S # {} => \E s \in S : plan[s].after \cap S = {}

AllOf(plan, field) == UNION {plan[s][field] : s \in DOMAIN plan}

\* The shape every decision object must have, checked by its constructor.
WellFormed(d) ==
    LET missing    == InState(d.refs, "unknown")
        conflicted == InState(d.refs, "conflicted")
    IN  /\ d.type \in {"propose", "request_approval"} =>
              /\ d.plan # Absent
              /\ missing = {} /\ conflicted = {}
              /\ (d.type = "propose") <=> (d.approvals = {})
              /\ {d.plan[s].capability : s \in DOMAIN d.plan} = DOMAIN d.contract
              /\ {k \in DOMAIN d.refs : d.refs[k].required} \subseteq AllOf(d.plan, "context")
              /\ AllOf(d.plan, "approvals") = d.approvals
              /\ Ordered(d.plan)
        /\ d.type \notin {"propose", "request_approval"} => d.plan = Absent
        /\ d.type = "request_information" => missing # {} /\ conflicted = {}

\* The content a decision's own fingerprint and id cover: neither the
\* snapshot's version nor the optional references are part of it.
DecisionIdentity(d) ==
    [request |-> d.request, type |-> d.type, relevant |-> RelevantContext(d.refs),
     contract |-> d.contract, approvals |-> d.approvals, assumptions |-> d.assumptions,
     constraints |-> d.constraints, plan |-> d.plan]

Seal(d) == [body |-> d, identity |-> DecisionIdentity(d)]

\* ExecutiveService.evaluate as a function of the request, the snapshot and
\* the registry.
Evaluate(r, snapshot, registry) ==
    LET request     == RequestOf[r]
        caps        == RequestedCapabilities(r)
        known       == {c \in caps : ContractOf[registry][c] # Absent}
        unavailable == {c \in known : ~ContractOf[registry][c].available}
        refs        == ReferencesFor(snapshot, RequiredContext(r, registry), request.optional)
        merged(field) == request[field] \cup UNION {ContractOf[registry][c][field] : c \in known}
        type == IF known # caps THEN "reject"
                ELSE IF unavailable # {} \/ InState(refs, "conflicted") # {} THEN "defer"
                ELSE IF InState(refs, "unknown") # {} THEN request.missing
                ELSE IF merged("approvals") # {} THEN "request_approval"
                ELSE "propose"
    IN  [request |-> r, type |-> type, refs |-> refs, snapshot |-> snapshot,
         contract |-> ContractFor(registry, caps), approvals |-> merged("approvals"),
         assumptions |-> merged("assumptions"), constraints |-> merged("constraints"),
         plan |-> IF type \in {"propose", "request_approval"} THEN BuildPlan(r, registry)
                  ELSE Absent]

\* A request whose parameters do not fit a known capability, or whose items
\* contradict those of a capability, raises and leaves no decision.
Acceptable(r, registry) ==
    LET known == {c \in RequestedCapabilities(r) : ContractOf[registry][c] # Absent}
    IN  /\ \A s \in DOMAIN RequestOf[r].steps :
              LET call == RequestOf[r].steps[s]
              IN  call.capability \in known =>
                     ValidParameters(ContractOf[registry][call.capability], call.parameters)
        /\ \A field \in {"approvals", "assumptions", "constraints"} :
              Merges(RequestOf[r][field] \cup
                        UNION {ContractOf[registry][c][field] : c \in known})

\* A revalidation that forgets the capability contracts.
StaleSources_noContract(d, r, snapshot, registry) ==
    LET required == {k \in DOMAIN d.refs : d.refs[k].required}
        now      == ReferencesFor(snapshot, required, DOMAIN d.refs \ required)
    IN  {x \in {"request", "context"} :
            \/ x = "request" /\ r # d.request
            \/ x = "context" /\ RelevantContext(now) # RelevantContext(d.refs)}

\* ExecutiveService.revalidate: which sources of a decision have changed.
StaleSources(d, r, snapshot, registry) ==
    LET required == {k \in DOMAIN d.refs : d.refs[k].required}
        now      == ReferencesFor(snapshot, required, DOMAIN d.refs \ required)
    IN  {x \in {"request", "contract", "context"} :
            \/ x = "request" /\ r # d.request
            \/ x = "contract" /\ ContractFor(registry, DOMAIN d.contract) # d.contract
            \/ x = "context" /\ RelevantContext(now) # RelevantContext(d.refs)}

---------------------------------------------------------------------------
(* Safety Kernel *)

HazardClasses == {"informational_read_only", "internal_non_actuating",
    "external_digital_effect", "physical_movement", "physical_contact",
    "privileged_high_impact", "emergency_safety_critical", "unclassified"}

Results == {"information", "state_change", "communication", "physical_effect"}

\* The fixed v1 rule of every hazard class.
HazardRule(h) ==
    CASE h \in {"informational_read_only", "internal_non_actuating"} ->
            [disposition |-> "eligible", approvals |-> {}, prerequisites |-> {}]
      [] h \in {"external_digital_effect", "privileged_high_impact"} ->
            [disposition |-> "approval", approvals |-> {h}, prerequisites |-> {}]
      [] h \in {"physical_movement", "physical_contact"} ->
            [disposition |-> "deferred", approvals |-> {}, prerequisites |-> {h}]
      [] OTHER -> [disposition |-> "blocked", approvals |-> {}, prerequisites |-> {}]

ExpectedResults(h) ==
    CASE h = "informational_read_only" -> {"information"}
      [] h = "internal_non_actuating"  -> {"information", "state_change"}
      [] h = "external_digital_effect" -> {"communication", "state_change"}
      [] h \in {"physical_movement", "physical_contact"} -> {"physical_effect"}
      [] h = "unclassified" -> {}
      [] OTHER -> Results

Rank(disposition) ==
    CASE disposition = "eligible" -> 0 [] disposition = "approval" -> 1
      [] disposition = "deferred" -> 2 [] disposition = "blocked"  -> 3

\* The parts of snapshot_proposal.  The plan: steps in an order of their own.
InspectPlan(d) ==
    /\ d.type \in {"propose", "request_approval"}
    /\ d.plan # Absent /\ DOMAIN d.plan # {} /\ Ordered(d.plan)

\* The context: every required reference is resolved.
InspectContext(d) ==
    \A k \in DOMAIN d.refs :
        d.refs[k].required => d.refs[k].state \notin {"unknown", "conflicted"}

\* The totals of the decision are those of its steps.
InspectTotals(d) ==
    /\ {d.plan[s].capability : s \in DOMAIN d.plan} = DOMAIN d.contract
    /\ AllOf(d.plan, "approvals") = d.approvals
    /\ (d.type = "propose") <=> (d.approvals = {})
    /\ AllOf(d.plan, "constraints") = d.constraints
    /\ AllOf(d.plan, "context") = {k \in DOMAIN d.refs : d.refs[k].required}

\* What is demanded before a proposal is looked at; revalidation leaves out
\* only the comparison with the fingerprint.
Inspectable(p) ==
    /\ InspectPlan(p.body) /\ InspectContext(p.body) /\ InspectTotals(p.body)
    /\ WellFormed(p.body)

\* A kernel that trusts the decision's own id.
Intact_trusting(p) == TRUE

Intact(p) == p.identity = DecisionIdentity(p.body)

\* Assumptions are put on the first step of the kernel's own topological order.
FirstStep(plan) == Min({s \in DOMAIN plan : plan[s].after = {}})

\* SafetyKernel._evaluate_step
EvaluateStep(rules, step, assumptions) ==
    LET rule   == rules[step.capability]
        hazard == IF rule = Absent THEN "unclassified" ELSE rule.hazard
        base   == HazardRule(hazard)
        lacking == IF rule = Absent THEN {}
                   ELSE (rule.preconditions \ step.preconditions)
                        \cup {c \in rule.constraints : \A x \in step.constraints : x.id # c}
        approvals == base.approvals \cup {a.id : a \in step.approvals}
        prerequisites == lacking \cup base.prerequisites \cup {a.id : a \in assumptions}
        blocked == lacking # {} \/ step.result \notin ExpectedResults(hazard)
        needed  == IF prerequisites # {} THEN "deferred"
                   ELSE IF approvals # {} THEN "approval" ELSE "eligible"
    IN  [hazard |-> hazard, approvals |-> approvals, prerequisites |-> prerequisites,
         disposition |-> IF blocked THEN "blocked"
                         ELSE CHOOSE x \in {base.disposition, needed} :
                                \A y \in {base.disposition, needed} : Rank(y) <= Rank(x)]

\* SafetyKernel.evaluate: the decision keeps the policy and the whole proposal
\* it was made from (its proposal fingerprint), the snapshot's version included.
Review(p, pol) ==
    LET plan  == p.body.plan
        steps == [s \in DOMAIN plan |->
                     EvaluateStep(PolicyOf[pol], plan[s],
                                  IF s = FirstStep(plan) THEN p.body.assumptions ELSE {})]
    IN  [proposal |-> p, policy |-> pol, steps |-> steps,
         disposition |-> CHOOSE x \in {steps[s].disposition : s \in DOMAIN steps} :
                            \A s \in DOMAIN steps : Rank(steps[s].disposition) <= Rank(x)]

\* SafetyKernel.revalidate
ReviewStale(review, p, pol) == review.proposal # p \/ review.policy # pol

---------------------------------------------------------------------------
(* Skill Manager *)

\* SkillRegistry.selection: a request to bind, pinned to the registry.
Selection(reg, skill, capability, step) ==
    [skill |-> skill, definition |-> SkillOf[reg][skill], capability |-> capability,
     step |-> step, registry |-> reg]

\* A caller may still hold a selection made from an earlier registry.
Selections ==
    {Selection(x[1], x[2], x[3], x[4]) :
        x \in {y \in SkillRegistries \X SkillIds \X Capabilities \X StepIds :
                 /\ SkillOf[y[1]][y[2]] # Absent
                 /\ y[3] \in SkillOf[y[1]][y[2]].capabilities}}

Ineligible(reason, sel, review) ==
    [status |-> "ineligible", reason |-> reason, selection |-> sel, review |-> review]

\* Whether one step of a reviewed proposal fits the selected skill.
Compatible(sel, p, review) ==
    LET def == sel.definition
    IN  /\ sel.step \in DOMAIN p.body.plan
        /\ LET step == p.body.plan[sel.step]
           IN  /\ step.capability = sel.capability
               /\ sel.capability \in def.capabilities
               /\ def.availability = "available"
               /\ step.parameters \in def.parameters
               /\ step.context = def.context
               /\ step.result = def.result
        /\ review.steps[sel.step].hazard = def.hazard
        /\ def.approvals \subseteq review.steps[sel.step].approvals

\* A binding that goes by the approvals and not by the disposition.
Bind_byApprovals(p, review, sel, pol, reg) ==
    IF ReviewStale(review, p, pol) THEN Ineligible("safety_decision_stale", sel, review)
    ELSE IF SkillOf[reg][sel.skill] = Absent \/ sel.registry # reg
            \/ sel.capability \notin sel.definition.capabilities
         THEN Ineligible("registry_selection_stale", sel, review)
    ELSE IF review.disposition = "blocked" THEN Ineligible("safety_blocked", sel, review)
    ELSE IF ~Compatible(sel, p, review)
         THEN Ineligible(IF sel.definition.availability # "available"
                            THEN "skill_unavailable" ELSE "incompatible", sel, review)
    ELSE [status |-> IF \E s \in DOMAIN review.steps : review.steps[s].approvals # {} THEN "approval" ELSE "eligible",
          reason |-> "none", selection |-> sel, review |-> review]

\* SkillManagerService.bind, first the freshness of its three inputs, then the
\* disposition of the whole plan, then the fit of the one step.
Bind(p, review, sel, pol, reg) ==
    IF ReviewStale(review, p, pol) THEN Ineligible("safety_decision_stale", sel, review)
    ELSE IF SkillOf[reg][sel.skill] = Absent \/ sel.registry # reg
            \/ sel.capability \notin sel.definition.capabilities
         THEN Ineligible("registry_selection_stale", sel, review)
    ELSE IF review.disposition = "blocked" THEN Ineligible("safety_blocked", sel, review)
    ELSE IF review.disposition = "deferred" THEN Ineligible("safety_deferred", sel, review)
    ELSE IF ~Compatible(sel, p, review)
         THEN Ineligible(IF sel.definition.availability # "available"
                            THEN "skill_unavailable" ELSE "incompatible", sel, review)
    ELSE [status |-> IF review.disposition = "approval" THEN "approval" ELSE "eligible",
          reason |-> "none", selection |-> sel, review |-> review]

\* bind raises when the proposal was altered after it was made, or when the
\* review is not the one a fresh evaluation gives.
Bindable(p, review, pol) ==
    /\ Inspectable(p)
    /\ ~ReviewStale(review, p, pol) => Intact(p) /\ review = Review(p, pol)

---------------------------------------------------------------------------
(* Runtime Bridge, dispatcher and control boundary *)

\* RuntimeEndpointRegistry.resolve: an exact match, or none.
Resolve(table, b) ==
    {e \in table : /\ e.skill = b.selection.skill
                   /\ e.definition.version = b.selection.definition.version
                   /\ e.capability = b.selection.capability
                   /\ e.definition.backend = b.selection.definition.backend}

\* RuntimeBridge.evaluate
Eligibility(b, registry) ==
    LET verdict(status, e) ==
            [status |-> status, binding |-> b, registry |-> registry, endpoint |-> e]
        found == Resolve(EndpointsOf[registry], b)
    IN  IF b.status = "ineligible"
        THEN verdict(CASE b.reason = "safety_blocked"  -> "blocked"
                       [] b.reason = "safety_deferred" -> "deferred"
                       [] b.reason \in {"safety_decision_stale", "registry_selection_stale"} -> "stale"
                       [] b.reason = "skill_unavailable" -> "unavailable"
                       [] OTHER -> "rejected", Absent)
        ELSE IF b.status = "approval" THEN verdict("approval_required", Absent)
        ELSE IF found = {} THEN verdict("rejected", Absent)
        ELSE LET e == CHOOSE x \in found : TRUE
             IN  IF e.definition # b.selection.definition THEN verdict("stale", Absent)
                 ELSE IF ~e.available THEN verdict("unavailable", Absent)
                 ELSE verdict("eligible", e)

\* The parameters a runtime request carries to its endpoint.
RequestFields(d) ==
    d.binding.review.proposal.body.plan[d.binding.selection.step].parameters

\* What a transport may answer; UnavailableRosServiceTransport only the first.
TransportAnswers == {"unavailable", "failure", "rejected", "accepted"}

\* RuntimeDispatcher.dispatch: the transport is asked only if the bridge still
\* gives the same decision for the binding the caller says is current.
DispatchStatus(d, current, registry, answer) ==
    IF d.status # "eligible" THEN "not_eligible"
    ELSE IF Eligibility(current, registry) # d THEN "rejected_before_dispatch"
    ELSE answer

\* RuntimeSimulationControlBoundary.authorize: the same, and the request must
\* be for the reviewed control endpoint and a physical-movement skill.
Authorizable(d, current, registry) ==
    /\ d.status = "eligible" /\ Eligibility(current, registry) = d
    /\ d.endpoint.name = "control" /\ d.endpoint.capability = ControlCapability
    /\ d.binding.selection.definition.hazard = "physical_movement"

---------------------------------------------------------------------------
(* What the constructors of the configurations and of the documents accept *)

UniqueIds(items) == \A a, b \in items : a.id = b.id => a = b

ValidRequest(q) ==
    /\ DOMAIN q.steps # {} /\ Ordered(q.steps)
    /\ q.context \cap q.optional = {}
    /\ UniqueIds(q.constraints) /\ UniqueIds(q.approvals) /\ UniqueIds(q.assumptions)
    /\ q.missing \in {"defer", "request_information"}

ValidCapability(def) ==
    /\ UniqueIds(def.constraints) /\ UniqueIds(def.approvals) /\ UniqueIds(def.assumptions)
    /\ def.available \in BOOLEAN /\ def.result \in Results

ValidRule(rule) == rule.hazard \in HazardClasses \ {"unclassified"}

\* The fixed rules pair an approval with its class and a deferral with its
\* prerequisites, one rule for each class.
ValidHazardRules ==
    \A h \in HazardClasses :
        /\ (HazardRule(h).disposition = "approval") <=> (HazardRule(h).approvals # {})
        /\ (HazardRule(h).disposition = "deferred") <=> (HazardRule(h).prerequisites # {})

ValidSkill(def) ==
    /\ def.capabilities # {}
    /\ def.hazard \in HazardClasses \ {"unclassified"} /\ def.result \in Results
    /\ def.lifecycle = "deprecated" => def.availability \notin {"available", "degraded"}
    /\ def.concurrency = "parallel" => def.exclusive = {}
    /\ def.concurrency = "governed" => def.exclusive \cup def.shared # {}
    /\ def.concurrency = "exclusive" => def.exclusive # {} /\ def.shared = {}

ValidEndpoint(e) ==
    /\ e.definition.availability = "available"
    /\ e.capability \in e.definition.capabilities

ValidEndpoints(table) ==
    /\ \A e \in table : ValidEndpoint(e)
    /\ \A e, f \in table : e # f =>
          /\ <<e.skill, e.definition.version, e.capability, e.definition.backend>>
                # <<f.skill, f.definition.version, f.capability, f.definition.backend>>
          /\ e.name # f.name

ASSUME ConfigurationsAreValid ==
    /\ \A r \in Requests : ValidRequest(RequestOf[r])
    /\ \A g \in Contracts, c \in Capabilities :
          ContractOf[g][c] # Absent => ValidCapability(ContractOf[g][c])
    /\ \A pol \in Policies, c \in Capabilities :
          PolicyOf[pol][c] # Absent => ValidRule(PolicyOf[pol][c])
    /\ ValidHazardRules
    /\ \A g \in SkillRegistries, k \in SkillIds :
          SkillOf[g][k] # Absent => ValidSkill(SkillOf[g][k])
    /\ \A g \in EndpointRegistries : ValidEndpoints(EndpointsOf[g])

\* Step identifiers sort, what is requested and deployed is configured, and no
\* endpoint is the absent one.
ASSUME ReferencesResolve ==
    /\ StepIds \subseteq Nat
    /\ \A r \in Requests : RequestedCapabilities(r) \subseteq Capabilities
    /\ \A d \in Deployments :
          /\ d.context \in Contexts /\ d.contract \in Contracts /\ d.policy \in Policies
          /\ d.skills \in SkillRegistries /\ d.endpoints \in EndpointRegistries
    /\ \A g \in EndpointRegistries : Absent \notin EndpointsOf[g]

ASSUME BoundsAssumption == {MaxChanges, MaxPlans, MaxBindings, MaxUses} \subseteq Nat

\* The least a step of a class may come out as, in a table of its own.
MinimumDisposition(h) ==
    CASE h \in {"informational_read_only", "internal_non_actuating"} -> "eligible"
      [] h \in {"external_digital_effect", "privileged_high_impact"} -> "approval"
      [] h \in {"physical_movement", "physical_contact"} -> "deferred"
      [] OTHER -> "blocked"

\* SafetyStepDecision
StepDecisionShape(x) ==
    /\ x.disposition = "eligible" => x.approvals = {} /\ x.prerequisites = {}
    /\ x.disposition = "approval" => x.approvals # {} /\ x.prerequisites = {}
    /\ x.disposition = "deferred" => x.prerequisites # {}
    /\ x.hazard = "unclassified" => x.disposition = "blocked"
    /\ Rank(x.disposition) >= Rank(MinimumDisposition(x.hazard))

\* SafetyDecision
SafetyDecisionShape(review) ==
    /\ DOMAIN review.steps # {}
    /\ \A s \in DOMAIN review.steps :
          /\ StepDecisionShape(review.steps[s])
          /\ Rank(review.steps[s].disposition) <= Rank(review.disposition)

\* SkillInvocation: the approvals are those of the whole safety decision.
InvocationShape(b) ==
    LET review == b.review
        def    == b.selection.definition
        all    == UNION {review.steps[s].approvals : s \in DOMAIN review.steps}
        refs   == review.proposal.body.refs
    IN  /\ b.selection.capability \in def.capabilities
        /\ review.proposal.body.plan[b.selection.step].parameters \in def.parameters
        /\ def.context = {k \in DOMAIN refs : refs[k].required /\ k \in def.context}
        /\ (b.status = "eligible") <=> (all = {})
        /\ def.approvals \subseteq review.steps[b.selection.step].approvals

\* SkillBindingResult
BindingShape(b) ==
    /\ (b.status = "ineligible") <=> (b.reason # "none")
    /\ b.status # "ineligible" => InvocationShape(b)

\* RuntimeRequest
RuntimeRequestShape(d) ==
    /\ d.binding.status = "eligible"
    /\ d.endpoint.skill = d.binding.selection.skill
    /\ d.endpoint.definition = d.binding.selection.definition
    /\ d.endpoint.capability = d.binding.selection.capability
    /\ RequestFields(d) \in d.endpoint.definition.parameters

\* RuntimeDecision
RuntimeDecisionShape(d) ==
    /\ (d.status = "eligible") <=> (d.endpoint # Absent)
    /\ d.status = "eligible" => RuntimeRequestShape(d)
    /\ d.status = "approval_required" => d.binding.status = "approval"
    /\ d.status = "blocked"  => d.binding.reason = "safety_blocked"
    /\ d.status = "deferred" => d.binding.reason = "safety_deferred"

---------------------------------------------------------------------------
Init ==
    /\ \E d \in Deployments :
          /\ context = d.context /\ contract = d.contract /\ policy = d.policy
          /\ skills = d.skills /\ endpoints = d.endpoints
    /\ changes = 0
    /\ plans = {} /\ reviews = {} /\ bindings = {} /\ decisions = {}
    /\ sent = {} /\ commands = {} /\ uses = 0

\* A correction changes the owner's context, or a deployment replaces one of
\* the four immutable configurations.
Reconfigure ==
    /\ changes < MaxChanges
    /\ changes' = changes + 1
    /\ \/ /\ context' \in Contexts \ {context}
          /\ UNCHANGED <<contract, policy, skills, endpoints>>
       \/ /\ contract' \in Contracts \ {contract}
          /\ UNCHANGED <<context, policy, skills, endpoints>>
       \/ /\ policy' \in Policies \ {policy}
          /\ UNCHANGED <<context, contract, skills, endpoints>>
       \/ /\ skills' \in SkillRegistries \ {skills}
          /\ UNCHANGED <<context, contract, policy, endpoints>>
       \/ /\ endpoints' \in EndpointRegistries \ {endpoints}
          /\ UNCHANGED <<context, contract, policy, skills>>
    /\ UNCHANGED <<papers, sent, commands, uses>>

\* ExecutiveService.evaluate on the current snapshot and registry.
Propose(r) ==
    /\ Acceptable(r, contract)
    /\ LET d == Evaluate(r, context, contract)
       IN  /\ WellFormed(d)
           /\ plans' = plans \cup {Seal(d)}
    /\ Cardinality(plans') <= MaxPlans
    /\ UNCHANGED <<world, changes, reviews, bindings, decisions, sent, commands, uses>>

\* A holder edits the parameters of a step of a copy without making a new
\* decision.
Alter(p) ==
    /\ p.body.plan # Absent /\ Intact(p)
    /\ \E s \in DOMAIN p.body.plan, v \in Values :
          /\ p.body.plan[s].parameters # v
          /\ plans' = plans \cup {[p EXCEPT !.body.plan[s].parameters = v]}
    /\ Cardinality(plans') <= MaxPlans
    /\ UNCHANGED <<world, changes, reviews, bindings, decisions, sent, commands, uses>>

\* SafetyKernel.evaluate of a proposal that it can inspect and that is intact.
Assess(p) ==
    /\ Inspectable(p) /\ Intact(p)
    /\ reviews' = reviews \cup {Review(p, policy)}
    /\ UNCHANGED <<world, changes, plans, bindings, decisions, sent, commands, uses>>

\* SkillManagerService.bind of any proposal, review and current selection.
BindStep(p, review, sel) ==
    /\ Bindable(p, review, policy)
    /\ bindings' = bindings \cup {Bind(p, review, sel, policy, skills)}
    /\ Cardinality(bindings') <= MaxBindings
    /\ UNCHANGED <<world, changes, plans, reviews, decisions, sent, commands, uses>>

\* RuntimeBridge.evaluate of any binding.
Match(b) ==
    /\ decisions' = decisions \cup {Eligibility(b, endpoints)}
    /\ UNCHANGED <<world, changes, plans, reviews, bindings, sent, commands, uses>>

\* RuntimeDispatcher.dispatch: only an acceptance leaves a trace.
Dispatch(d, current) ==
    /\ uses < MaxUses
    /\ uses' = uses + 1
    /\ \E answer \in TransportAnswers :
          sent' = IF DispatchStatus(d, current, endpoints, answer) = "accepted"
                  THEN sent \cup {d} ELSE sent
    /\ UNCHANGED <<world, changes, papers, commands>>

\* RuntimeSimulationControlBoundary.authorize
Authorize(d, current) ==
    /\ uses < MaxUses
    /\ uses' = uses + 1
    /\ commands' = commands \cup (IF Authorizable(d, current, endpoints) THEN {d} ELSE {})
    /\ UNCHANGED <<world, changes, papers, sent>>

Next ==
    \/ Reconfigure
    \/ \E r \in Requests : Propose(r)
    \/ \E p \in plans : Alter(p) \/ Assess(p)
    \/ \E p \in plans, review \in reviews, sel \in Selections : BindStep(p, review, sel)
    \/ \E b \in bindings : Match(b)
    \/ \E d \in decisions, b \in bindings : Dispatch(d, b) \/ Authorize(d, b)

Spec == Init /\ [][Next]_vars

---------------------------------------------------------------------------
(* Properties *)

Made(p) == p.body.plan # Absent /\ Intact(p)

\* The configurations in force and the documents callers hold have their types.
TypeOK ==
    /\ context \in Contexts /\ contract \in Contracts /\ policy \in Policies
    /\ skills \in SkillRegistries /\ endpoints \in EndpointRegistries
    /\ changes \in 0..MaxChanges /\ uses \in 0..MaxUses
    /\ \A p \in plans : p.body.request \in Requests /\ p.body.snapshot \in Contexts
    /\ \A r \in reviews : r.proposal \in plans /\ r.policy \in Policies
    /\ \A b \in bindings : b.review \in reviews /\ b.status \in {"eligible", "approval", "ineligible"}
    /\ \A d \in decisions : d.binding \in bindings /\ d.registry \in EndpointRegistries
    /\ sent \subseteq decisions /\ commands \subseteq decisions

\* The Safety Kernel checks a proposal on its own, without the Executive's
\* code, and every plan the Executive makes passes: requirements merged from
\* the request and several capabilities, dependencies, context and approvals
\* agree with what snapshot_proposal recomputes from the steps.
SafetyAcceptsEveryPlan == \A p \in plans : Made(p) => Inspectable(p)

\* A decision that ExecutiveService.revalidate calls current is the one that
\* evaluate would make now from the current context and registry, although
\* revalidate compares only three fingerprints and never plans again.
RevalidationSound ==
    \A p \in plans :
        Intact(p) /\ StaleSources(p.body, p.body.request, context, contract) = {} =>
            DecisionIdentity(Evaluate(p.body.request, context, contract)) = p.identity

\* No command for a joint ever leaves the control boundary: it wants a skill
\* classified as physical movement, which bind accepts only for a step
\* reviewed as physical movement, which every policy defers.
PhysicalNeverAuthorized == commands = {}

\* Every document a stage assembles satisfies the constructor of its type, so
\* no stage raises on a state that the stages before it accepted: dispositions,
\* approvals and prerequisites of the kernel, the invocation's context and
\* approvals, the bridge's statuses and reasons agree with each other.
EveryDocumentConstructs ==
    /\ \A review \in reviews : SafetyDecisionShape(review)
    /\ \A b \in bindings : BindingShape(b)
    /\ \A d \in decisions : RuntimeDecisionShape(d)

\* What a transport accepted is one step of a decision that was made from a
\* request, with the request's own parameters, under a policy that leaves
\* every step of that plan free of hazard, approval and open assumption.
AcceptedIsGrounded ==
    \A d \in sent :
        LET p == d.binding.review.proposal
            s == d.binding.selection.step
        IN  /\ Made(p)
            /\ RequestFields(d) = RequestOf[p.body.request].steps[s].parameters
            /\ d.endpoint.capability = RequestOf[p.body.request].steps[s].capability
            /\ p.body.approvals = {} /\ p.body.assumptions = {}
            /\ InState(p.body.refs, "unknown") \cup InState(p.body.refs, "conflicted") = {}
            /\ \A t \in DOMAIN p.body.plan :
                  LET rule == PolicyOf[d.binding.review.policy][p.body.plan[t].capability]
                  IN  rule # Absent /\ rule.hazard \in {"informational_read_only", "internal_non_actuating"}

\* Whether a policy leaves every step of a proposal eligible.
EligibleUnder(pol, p) == Review(p, pol).disposition = "eligible"

Gate == INSTANCE ReviewGate WITH
    Allowed  <- EligibleUnder,
    proposed <- {p \in plans : Made(p)},
    cleared  <- {<<b.review.proposal, b.selection.step>> :
                    b \in {x \in bindings : x.status = "eligible"}},
    accepted <- {<<d.binding.review.proposal, d.binding.selection.step>> : d \in sent}

\* The whole chain implements the two-step gate: a step is cleared only while
\* the policy in force allows its whole plan, and accepted only if cleared.
ImplementsGate == Gate!Spec

\* The stages agree with each other: what one produces, the next can read and
\* build upon, whatever was reconfigured in between.
StagesAgree == TypeOK /\ SafetyAcceptsEveryPlan /\ EveryDocumentConstructs

\* Only what is grounded leaves the chain, and nothing physical does.
OnlyGroundedLeaves == PhysicalNeverAuthorized /\ AcceptedIsGrounded
=============================================================================
