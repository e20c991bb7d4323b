------------------------- MODULE ManipulationReview -------------------------
(***************************************************************************)
(* The documents a simulated arm movement needs before it may start: a     *)
(* planning request and the MoveIt proof of its interpolated path (stage   *)
(* 9A), the timed trajectory, its safety review and its handoff to a skill *)
(* (stage 9B), and the execution request with its dense collision proof    *)
(* (stage 9C).                                                             *)
(*                                                                         *)
(* Every stage is a pure function whose constructor raises on a wrong      *)
(* input; an exception changes nothing, so it is a step that is not        *)
(* enabled.  The inputs of a stage come from any request: reports,         *)
(* proposals, safety decisions and bindings of another trajectory are      *)
(* offered too.  A fingerprint is modelled by the content it covers.       *)
(*                                                                         *)
(* Positions and times are integers of a unit small enough for every       *)
(* division below to be exact on the requests that are checked             *)
(* (InterpolationExact); the code computes in binary floating point.       *)
(***************************************************************************)
EXTENDS Integers, Sequences, FiniteSets, FiniteSetsExt

CONSTANTS
    Joints,         \* the movable joints of the group
    Chain,          \* the chain of joint references from Base to Tip
    Base, Tip,      \* the links the chain must join
    Poses,          \* the joint positions a caller asks for
    Boxes,          \* collision boxes
    Region,         \* for each box, the joint positions that touch it
    SelfRegion,     \* the joint positions in which the arm touches itself
    Scenes,         \* the sets of boxes a planning scene may hold
    Configurations, \* planner configurations: step and maximum of waypoints
    Timings,        \* timing configurations
    Kernels,        \* names of safety kernels
    ReviewOf,       \* how each kernel classifies a trajectory review
    Skills,         \* definitions of the future-execution skill
    Sampling,       \* the sampling policy of the dense collision check
    Absent          \* a document that does not exist yet

VARIABLE doc        \* the documents of the request under review

---------------------------------------------------------------------------
(* Robot model, joint catalog and planning request *)

\* A joint reference: a fixed joint carries no limits, a movable one carries
\* an ordered pair and a positive velocity (here: time per unit of travel).
JointReferenceShape(ref) ==
    /\ ref.kind \in {"fixed", "revolute"}
    /\ (ref.kind = "fixed") => ref.lower = Absent /\ ref.upper = Absent /\ ref.slowness = Absent
    /\ (ref.kind = "revolute") => ref.lower < ref.upper /\ ref.slowness > 0

\* A catalog: an unbroken chain from the base link to the tip link, every
\* joint named once, the planning joints being its movable ones.
CatalogShape(chain) ==
    /\ \A i \in DOMAIN chain : JointReferenceShape(chain[i])
    /\ \A i, k \in DOMAIN chain : chain[i].name = chain[k].name => i = k
    /\ chain[1].parent = Base /\ chain[Len(chain)].child = Tip
    /\ \A i \in 1 .. Len(chain) - 1 : chain[i].child = chain[i + 1].parent
    /\ {chain[i].name : i \in {k \in DOMAIN chain : chain[k].kind = "revolute"}} = Joints

ReferenceOf(j) == Chain[CHOOSE i \in DOMAIN Chain : Chain[i].name = j]

\* validate_positions: every joint of the group, each within its limits.
ValidPositions(q) ==
    /\ DOMAIN q = Joints
    /\ \A j \in Joints : ReferenceOf(j).lower <= q[j] /\ q[j] <= ReferenceOf(j).upper

ConfigurationShape(c) == c.step > 0 /\ c.max >= 2

SceneShape(scene) == scene \subseteq Boxes

RequestShape(r) ==
    /\ ValidPositions(r.start) /\ ValidPositions(r.goal)
    /\ SceneShape(r.scene)
    /\ ConfigurationShape(r.config)

Distance(a, b) == IF a < b THEN b - a ELSE a - b

\* The largest travel of a joint between two positions.
Travel(p, q) == Max({Distance(p[j], q[j]) : j \in Joints})

\* How many pieces of at most step make up a travel, at least one.
Pieces(travel, step) == Max({1, (travel + step - 1) \div step})

\* The position after i of n equal pieces of the way from p to q.
Between(p, q, i, n) == [j \in Joints |-> p[j] + ((q[j] - p[j]) * i) \div n]

\* The interpolation fits the bound on the number of waypoints.
Interpolates(r) ==
    /\ Travel(r.start, r.goal) <= r.config.step * (r.config.max - 1)
    /\ Pieces(Travel(r.start, r.goal), r.config.step) + 1 <= r.config.max

\* _deterministic_joint_positions: the waypoints, start and goal included.
Waypoints(r) ==
    LET n == Pieces(Travel(r.start, r.goal), r.config.step)
    IN  [i \in 1 .. n + 1 |-> Between(r.start, r.goal, i - 1, n)]

\* A later stage binds to every request the reviewed limits allow.
Requests ==
    {r \in [start : Poses, goal : Poses, scene : Scenes, config : Configurations] :
        RequestShape(r) /\ Interpolates(r)}

---------------------------------------------------------------------------
(* What MoveIt answers, and the evidence built from it *)

\* A box is a region of joint positions.
Inside(q, region) == \A j \in Joints : region[j].low <= q[j] /\ q[j] <= region[j].high

HitsScene(q, scene) == \E b \in scene : Inside(q, Region[b])

HitsItself(q) == Inside(q, SelfRegion)

\* The headless planning-scene program: it checks every waypoint of the
\* request it was run for, in that request's scene.
MoveItReport(r) ==
    LET points == Waypoints(r)
    IN  [config |-> r.config, scene |-> r.scene, waypoints |-> points,
         self_free |-> [i \in DOMAIN points |-> ~HitsItself(points[i])],
         scene_free |-> [i \in DOMAIN points |-> ~HitsScene(points[i], r.scene)]]

PlanReported(report) ==
    \A i \in DOMAIN report.waypoints : report.self_free[i] /\ report.scene_free[i]

\* moveit_collision_proof_from_canonical_json: the report is positive and is
\* about the configuration, the scene and the waypoints of this request.
ProofFromReport(r, report) ==
    /\ PlanReported(report)
    /\ report.config = r.config
    /\ report.scene = r.scene
    /\ report.waypoints = Waypoints(r)

\* MoveItCollisionProof: one result of each kind for every waypoint.
ProofShape(p) == DOMAIN p.self_free = DOMAIN p.waypoints /\ DOMAIN p.scene_free = DOMAIN p.waypoints

Statuses == {"collision_free", "start_collision", "goal_collision", "path_collision", "no_plan"}

\* ManipulationPlanEvidence: only positive evidence carries a proof and
\* waypoints, and these are the interpolation of the request itself.
PlanEvidenceShape(r, e) ==
    /\ e.proof # Absent =>
          /\ ProofShape(e.proof)
          /\ e.proof.waypoints = Waypoints(r) /\ e.proof.scene = r.scene
          /\ e.proof.config = r.config
    /\ IF e.status = "collision_free"
          THEN /\ e.proof # Absent
               /\ \A i \in DOMAIN e.proof.waypoints : e.proof.self_free[i] /\ e.proof.scene_free[i]
               /\ Len(e.waypoints) >= 2 /\ Len(e.waypoints) <= r.config.max
               /\ \A i \in DOMAIN e.waypoints : ValidPositions(e.waypoints[i])
               /\ e.waypoints[1] = r.start /\ e.waypoints[Len(e.waypoints)] = r.goal
               /\ e.waypoints = Waypoints(r)
          ELSE e.proof = Absent /\ e.waypoints = << >>

\* evaluate_manipulation_plan: only positive evidence is available for review.
PlanDecision(e) == IF e.status = "collision_free" THEN "available" ELSE "rejected"

\* ManipulationPlanningDecision: neither better nor worse than its evidence.
PlanDecisionShape(d) == (d.disposition = "available") <=> (d.evidence.status = "collision_free")

---------------------------------------------------------------------------
(* The timed trajectory *)

TimingShape(t) == t.slow > 0 /\ t.minimum > 0 /\ t.minimum <= t.maximum /\ t.points >= 2

\* The time a segment takes: its slowest joint at the scaled velocity limit,
\* and never less than the configured minimum.
SegmentTime(p, q, t) ==
    Max({t.minimum, Max({Distance(p[j], q[j]) * ReferenceOf(j).slowness * t.slow : j \in Joints})})

\* The time from the start at every point.
PointTimes(points, t) ==
    LET elapsed[i \in DOMAIN points] ==
            IF i = 1 THEN 0 ELSE elapsed[i - 1] + SegmentTime(points[i - 1], points[i], t)
    IN  elapsed

\* What _schedule refuses: too many points, a position outside the limits, a
\* segment in which no joint moves, and a trajectory that takes too long.
Schedules(points, t) ==
    /\ 2 <= Len(points) /\ Len(points) <= t.points
    /\ \A i \in DOMAIN points : ValidPositions(points[i])
    /\ \A i \in 2 .. Len(points) :
          /\ Travel(points[i - 1], points[i]) > 0
          /\ SegmentTime(points[i - 1], points[i], t) <= t.maximum - PointTimes(points, t)[i - 1]

\* TrajectoryConstructionRequest: an unexecuted positive planning decision
\* with its proof.
TrajectoryRequestShape(d, t) ==
    /\ TimingShape(t)
    /\ d.disposition = "available" /\ d.evidence.status = "collision_free"
    /\ d.evidence.proof # Absent

\* construct_deterministic_trajectory: the waypoints of the evidence with
\* their times.
TrajectoryOf(d, t) ==
    LET points == d.evidence.waypoints
    IN  [timing |-> t,
         points |-> [i \in DOMAIN points |-> [at |-> PointTimes(points, t)[i], q |-> points[i]]]]

PointShape(points, i) == IF i = 1 THEN points[i].at = 0 ELSE points[i].at > 0

\* DeterministicJointTrajectory: point by point what the schedule says.
TrajectoryShape(d, trajectory) ==
    /\ Schedules(d.evidence.waypoints, trajectory.timing)
    /\ \A i \in DOMAIN trajectory.points : PointShape(trajectory.points, i)
    /\ trajectory = TrajectoryOf(d, trajectory.timing)

---------------------------------------------------------------------------
(* Safety review and handoff of a trajectory *)

\* A proposal is about the evidence its parameters name; only the closed
\* one-step review proposal is acceptable.
ExactProposal(evidence, proposal) == proposal.closed /\ proposal.evidence = evidence

\* A safety decision is what a kernel answered for a proposal.
SafetyDecision(kernel, proposal) == [kernel |-> kernel, proposal |-> proposal, review |-> ReviewOf[kernel]]

\* _validated_safety_context: the decision is current under the kernel and
\* is for this proposal, which is for this evidence.
SafetyContext(evidence, proposal, decision, kernel) ==
    /\ ExactProposal(evidence, proposal)
    /\ decision = SafetyDecision(kernel, proposal)

\* evaluate_trajectory_safety_eligibility.
SafetyResult(evidence, proposal, decision, kernel) ==
    LET review   == decision.review
        eligible == review.disposition = "eligible" /\ review.hazard = "internal"
    IN  [evidence |-> evidence, proposal |-> proposal, decision |-> decision, kernel |-> kernel,
         reference |-> [review |-> review, evidence |-> evidence],
         status |-> IF eligible THEN "eligible" ELSE "ineligible",
         reason |-> IF eligible THEN "safety_eligible"
                    ELSE CASE review.disposition = "approval" -> "approval_required"
                           [] review.disposition = "deferred" -> "deferred"
                           [] review.disposition = "blocked"  -> "blocked"
                           [] review.disposition = "eligible" -> "classification_mismatch"]

\* SafetyEligibilityReference: the review it is drawn from, bound to one
\* trajectory's lineage.
SafetyReferenceShape(s) == s.reference = [review |-> s.decision.review, evidence |-> s.evidence]

\* TrajectorySafetyEligibilityResult: its context holds again, and status
\* and reason follow from the referenced review.
SafetyResultShape(s) ==
    /\ SafetyContext(s.evidence, s.proposal, s.decision, s.kernel)
    /\ SafetyReferenceShape(s)
    /\ (s.status = "eligible") <=>
          (s.reference.review.disposition = "eligible" /\ s.reference.review.hazard = "internal")
    /\ (s.status = "eligible") <=> (s.reason = "safety_eligible")
    /\ (s.reason = "classification_mismatch") =>
          s.reference.review.disposition = "eligible" /\ s.reference.review.hazard # "internal"

\* A skill that can only ever be an inert review: available, validated, with
\* nothing required and no side effect to repeat.
InertSkill(skill) == skill.available /\ skill.validated /\ skill.inert

\* What a manager answered for a safety decision: the invocation carries the
\* parameters of the decision's proposal.
BindingOf(manager, decision) ==
    LET eligible == /\ decision.kernel = manager.kernel
                    /\ decision.review.disposition = "eligible"
                    /\ manager.skill.available /\ manager.skill.validated
    IN  [skill |-> manager.skill, decision |-> decision,
         parameters |-> IF eligible THEN decision.proposal.evidence ELSE Absent,
         status |-> IF eligible THEN "eligible" ELSE "ineligible"]

\* _validated_skill_binding_context: the manager works with the kernel of
\* the review and still registers the skill of the binding, and the binding
\* is for the reviewed decision and, when positive, for this trajectory.
BindingContext(s, binding, manager) ==
    /\ manager.kernel = s.kernel
    /\ binding.skill = manager.skill
    /\ binding.decision = s.decision
    /\ (binding.status = "eligible") => binding.parameters = s.evidence

SkillEligible(s, binding) ==
    /\ binding.status = "eligible"
    /\ InertSkill(binding.skill)
    /\ binding.parameters = s.evidence

\* evaluate_execution_handoff_eligibility.
HandoffDecision(s, binding, manager) ==
    LET decided(status, reason, reference) ==
            [safety |-> s, binding |-> binding, manager |-> manager,
             status |-> status, reason |-> reason, reference |-> reference]
    IN  IF s.status # "eligible" THEN decided("ineligible", "safety_ineligible", Absent)
        ELSE IF ~SkillEligible(s, binding) THEN decided("ineligible", "skill_ineligible", Absent)
        ELSE decided("eligible", "handoff_eligible",
                     [skill |-> binding.skill, evidence |-> s.evidence, decision |-> s.decision])

\* ExecutionHandoffEligibilityDecision.
HandoffShape(h) ==
    /\ SafetyResultShape(h.safety)
    /\ BindingContext(h.safety, h.binding, h.manager)
    /\ IF h.status = "eligible"
          THEN /\ h.safety.status = "eligible"
               /\ SkillEligible(h.safety, h.binding)
               /\ h.reference = [skill |-> h.binding.skill, evidence |-> h.safety.evidence,
                                 decision |-> h.safety.decision]
          ELSE /\ h.reference = Absent
               /\ h.reason = "safety_ineligible" => h.safety.status # "eligible"
               /\ h.reason = "skill_ineligible" =>
                     h.safety.status = "eligible" /\ ~SkillEligible(h.safety, h.binding)

---------------------------------------------------------------------------
(* The execution request and its dense collision proof *)

SamplingShape(policy) == policy.step > 0 /\ policy.per_segment >= 1 /\ policy.total >= 2

\* SimulationExecutionRequest: a positive handoff of at least two points.
ExecutionRequestShape(h, trajectory) ==
    /\ HandoffShape(h)
    /\ SamplingShape(Sampling)
    /\ h.status = "eligible"
    /\ Len(trajectory.points) >= 2

\* Rounds the number of subdivisions down.
Subdivisions_floor(p, q) == Max({1, Travel(p, q) \div Sampling.step})

\* Into how many samples the segment from p to q is divided.
Subdivisions(p, q) == Pieces(Travel(p, q), Sampling.step)

\* expected_dense_samples: the first point, and every subdivision of every
\* segment, its end included.
DenseSamples(points) ==
    {[segment |-> 1, index |-> 0, q |-> points[1].q]} \cup
    UNION {{[segment |-> s, index |-> i,
             q |-> Between(points[s].q, points[s + 1].q, i, Subdivisions(points[s].q, points[s + 1].q))] :
                i \in 1 .. Subdivisions(points[s].q, points[s + 1].q)} : s \in 1 .. Len(points) - 1}

\* Its two ceilings.
DenseFits(points) ==
    /\ \A s \in 1 .. Len(points) - 1 : Subdivisions(points[s].q, points[s + 1].q) <= Sampling.per_segment
    /\ Cardinality(DenseSamples(points)) <= Sampling.total

\* preflight_input_document: what the dense checker is given.
PreflightInput(r, points) == [scene |-> r.scene, samples |-> DenseSamples(points)]

\* The dense checker: every sample against itself, the scene and the limits.
PreflightReport(input) ==
    [input |-> input,
     free  |-> {s \in input.samples :
                   ~HitsItself(s.q) /\ ~HitsScene(s.q, input.scene) /\ ValidPositions(s.q)}]

\* simulation_collision_proof_from_canonical_json: a report about exactly the
\* samples of this request; it may report collisions.
CollisionProofFrom(r, points, report) == report.input = PreflightInput(r, points)

\* SimulationCollisionProof.
CollisionProofShape(r, points, proof) ==
    /\ proof.input = PreflightInput(r, points)
    /\ proof.free \subseteq proof.input.samples
    /\ DenseFits(points)

ProofIsFree(proof) == proof.free = proof.input.samples

---------------------------------------------------------------------------
(* The stages, in the order reviewed_execution_request runs them *)

NoDocuments ==
    [request |-> Absent, evidence |-> Absent, decision |-> Absent, trajectory |-> Absent,
     safety |-> Absent, handoff |-> Absent, execution |-> Absent, proof |-> Absent]

ReviewInit == doc = NoDocuments

Undecided(r) == [NoDocuments EXCEPT !.request = r]

\* A request and the evidence a caller builds for it from some report, or
\* with the status it claims for a path that was not found free.
ReportPlan ==
    /\ doc.request = Absent
    /\ \E r \in Requests, status \in Statuses, other \in Requests :
          LET report   == MoveItReport(other)
              positive == status = "collision_free"
              evidence == [status |-> status,
                           proof |-> IF positive THEN report ELSE Absent,
                           waypoints |-> IF positive THEN Waypoints(r) ELSE << >>]
          IN  /\ positive => ProofFromReport(r, report)
              /\ PlanEvidenceShape(r, evidence)
              /\ doc' = [Undecided(r) EXCEPT !.evidence = evidence,
                            !.decision = [disposition |-> PlanDecision(evidence), evidence |-> evidence]]

TimeTrajectory ==
    /\ doc.decision # Absent /\ doc.trajectory = Absent
    /\ \E t \in Timings :
          /\ TrajectoryRequestShape(doc.decision, t)
          /\ Schedules(doc.decision.evidence.waypoints, t)
          /\ doc' = [doc EXCEPT !.trajectory = TrajectoryOf(doc.decision, t)]

\* The trajectory evidence is the lineage so far; another lineage differs.
EvidenceOf(d) == [request |-> d.request, trajectory |-> d.trajectory]

\* The evidence of some other trajectory.
OtherEvidence == Absent

Proposals == [evidence : {EvidenceOf(doc), OtherEvidence}, closed : BOOLEAN]

ReviewSafety ==
    /\ doc.trajectory # Absent /\ doc.safety = Absent
    /\ \E kernel, decider \in Kernels, proposal, decided \in Proposals :
          LET decision == SafetyDecision(decider, decided)
          IN  /\ SafetyContext(EvidenceOf(doc), proposal, decision, kernel)
              /\ doc' = [doc EXCEPT !.safety = SafetyResult(EvidenceOf(doc), proposal, decision, kernel)]

Managers == [kernel : Kernels, skill : Skills]

HandOff ==
    /\ doc.safety # Absent /\ doc.handoff = Absent
    /\ \E manager, binder \in Managers, bound \in Proposals, kernel \in Kernels :
          LET binding == BindingOf(binder, SafetyDecision(kernel, bound))
          IN  /\ BindingContext(doc.safety, binding, manager)
              /\ doc' = [doc EXCEPT !.handoff = HandoffDecision(doc.safety, binding, manager)]

RequestExecution ==
    /\ doc.handoff # Absent /\ doc.execution = Absent
    /\ ExecutionRequestShape(doc.handoff, doc.trajectory)
    /\ doc' = [doc EXCEPT !.execution = Sampling]

\* The report handed over may be the one of another scene.
ProveDense ==
    /\ doc.execution # Absent /\ doc.proof = Absent
    /\ DenseFits(doc.trajectory.points)
    /\ \E scene \in Scenes :
          LET report == PreflightReport(PreflightInput([doc.request EXCEPT !.scene = scene],
                                                       doc.trajectory.points))
          IN  /\ CollisionProofFrom(doc.request, doc.trajectory.points, report)
              /\ doc' = [doc EXCEPT !.proof = report]

ReviewNext ==
    ReportPlan \/ TimeTrajectory \/ ReviewSafety \/ HandOff \/ RequestExecution \/ ProveDense

ReviewSpec == ReviewInit /\ [][ReviewNext]_doc

\* What a program keeps of the reviewed documents: what it still reads.
KeptDocuments(d) ==
    [NoDocuments EXCEPT !.request = d.request, !.trajectory = d.trajectory, !.proof = d.proof]

\* A trajectory is under review.
Timed == doc.decision # Absent /\ doc.trajectory # Absent

---------------------------------------------------------------------------
(* Assumptions *)

ASSUME CatalogAssumption == CatalogShape(Chain)

ASSUME SamplingAssumption == SamplingShape(Sampling)

\* The group has joints, every number is an integer of the unit, and a kernel
\* answers with one of the four dispositions.
ASSUME ArmAssumption ==
    /\ IsFiniteSet(Joints) /\ Joints # {}
    /\ \A i \in DOMAIN Chain : Chain[i].kind = "revolute" => Chain[i].slowness \in Int
    /\ Poses \subseteq [Joints -> Int]
    /\ \A c \in Configurations : c.step \in Int /\ c.max \in Int
    /\ \A t \in Timings : {t.slow, t.minimum, t.maximum, t.points} \subseteq Int
    /\ {Sampling.step, Sampling.per_segment, Sampling.total} \subseteq Int
    /\ ReviewOf \in [Kernels -> [disposition : {"eligible", "approval", "deferred", "blocked"},
                                 hazard : STRING]]

ASSUME InterpolationExact ==
    \A r \in Requests :
        LET points == Waypoints(r)
            n      == Len(points) - 1
        IN  /\ \A i \in 0 .. n, j \in Joints : ((r.goal[j] - r.start[j]) * i) % n = 0
            /\ \A s \in 1 .. n, j \in Joints :
                  (points[s + 1][j] - points[s][j]) % Subdivisions(points[s], points[s + 1]) = 0

---------------------------------------------------------------------------
(* Properties *)

\* Along the timed trajectory no joint is ever asked to move faster than its
\* scaled limit, times strictly increase and end within the configured
\* maximum, and the movement leads from the requested start to the requested
\* goal: interpolation, evidence, decision and _schedule (models.py) together.
TrajectoryWithinLimits ==
    Timed =>
        LET points == doc.trajectory.points
            t      == doc.trajectory.timing
        IN  /\ points[1].q = doc.request.start /\ points[Len(points)].q = doc.request.goal
            /\ points[Len(points)].at <= t.maximum
            /\ \A i \in 2 .. Len(points) :
                  /\ points[i].at - points[i - 1].at >= t.minimum
                  /\ \A j \in Joints :
                        /\ ReferenceOf(j).lower <= points[i].q[j] /\ points[i].q[j] <= ReferenceOf(j).upper
                        /\ Distance(points[i].q[j], points[i - 1].q[j]) * ReferenceOf(j).slowness * t.slow
                              <= points[i].at - points[i - 1].at

\* A waypoint that was handed off is really free in the scene of its own
\* request, whatever reports of other requests were offered
\* (moveit_collision_proof_from_canonical_json, ManipulationPlanEvidence).
WaypointsReallyFree ==
    Timed =>
        \A i \in DOMAIN doc.trajectory.points :
            LET q == doc.trajectory.points[i].q
            IN  ~HitsItself(q) /\ ~HitsScene(q, doc.request.scene)

\* An eligible handoff was reviewed for this very trajectory by a kernel that
\* calls it eligible and non-actuating, and the skill manager that bound it
\* works with that same kernel (_validated_safety_context,
\* _validated_skill_binding_context).
HandoffGrounded ==
    doc.handoff # Absent /\ doc.handoff.status = "eligible" =>
        /\ doc.handoff.reference.evidence = EvidenceOf(doc)
        /\ doc.handoff.safety.decision.proposal = [evidence |-> EvidenceOf(doc), closed |-> TRUE]
        /\ ReviewOf[doc.handoff.manager.kernel] = [disposition |-> "eligible", hazard |-> "internal"]
        /\ doc.handoff.reference.decision.kernel = doc.handoff.manager.kernel
        /\ InertSkill(doc.handoff.manager.skill)

\* The evaluators never build a document that its own constructor rejects:
\* each constructor re-derives status, reasons and references independently.
ReviewConstructs ==
    /\ doc.decision # Absent => PlanDecisionShape(doc.decision)
    /\ Timed => TrajectoryShape(doc.decision, doc.trajectory)
    /\ doc.safety # Absent => SafetyResultShape(doc.safety)
    /\ doc.handoff # Absent => HandoffShape(doc.handoff)
    /\ Timed /\ doc.proof # Absent => CollisionProofShape(doc.request, doc.trajectory.points, doc.proof)

\* Between p and q, at part k of n of the way, the arm is at most half a
\* sampling step from a sample s.
Near(p, q, k, n, s) ==
    \A j \in Joints : 2 * Distance(p[j] * n + (q[j] - p[j]) * k, s[j] * n) <= Sampling.step * n

\* Wherever the controller's interpolation takes the arm, it is at most half
\* a sampling step away from a configuration that was checked and is free in
\* the request's own scene (expected_dense_samples, SimulationCollisionProof).
DenselyChecked ==
    Timed /\ doc.proof # Absent /\ ProofIsFree(doc.proof) =>
        \A s \in 1 .. Len(doc.trajectory.points) - 1 :
            LET p == doc.trajectory.points[s].q
                q == doc.trajectory.points[s + 1].q
                n == Travel(p, q)
            IN  \A k \in 0 .. n :
                   \E sample \in doc.proof.free :
                       /\ Near(p, q, k, n, sample.q)
                       /\ ~HitsItself(sample.q) /\ ~HitsScene(sample.q, doc.request.scene)

\* What the four review stages hand on is a trajectory that keeps its limits,
\* is free where it was sampled and was reviewed as it is, in documents that
\* construct (planning, trajectory, safety and skill binding, dense proof).
ReviewSound ==
    /\ TrajectoryWithinLimits /\ WaypointsReallyFree /\ DenselyChecked
    /\ HandoffGrounded /\ ReviewConstructs
=============================================================================
