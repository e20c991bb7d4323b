------------------------- MODULE SimulatedExecution -------------------------
(***************************************************************************)
(* The stage 9C client (stage9c_execution.py), the simulator and the       *)
(* controller's action server: the client waits for fresh joint states and *)
(* base poses, reads the controllers, evaluates the preflight, sends one   *)
(* FollowJointTrajectory goal, waits for its result and classifies what it *)
(* observed afterwards.                                                    *)
(*                                                                         *)
(* now is the simulator's clock in ticks of 250 ms.  Every tick the arm    *)
(* moves and each topic publishes one sample; at most one topic is late in *)
(* a tick: it delivers nothing, or the sample of the tick before.  Stamps  *)
(* of a topic increase, so a newer stamp is a larger sequence number.  The *)
(* client's own deadlines run on the monotonic clock, which the simulator  *)
(* does not keep pace with: a wait may run out whenever its condition does *)
(* not hold.                                                               *)
(***************************************************************************)
EXTENDS ManipulationReview

CONSTANTS
    Reviewed,       \* the planning requests the programs may be built with
    TickTime,       \* trajectory time that passes in one tick
    WaitFresh,      \* age in ticks of the samples a wait accepts (250 ms)
    DocFresh,       \* age in ticks of the evidence a document accepts (500 ms)
    MaxTime,        \* bound on the simulated time
    MaxFaults       \* bound on faults, delays and losses together

ASSUME TicksAssumption ==
    /\ TickTime \in Nat \ {0}
    /\ WaitFresh \in Nat /\ DocFresh \in Nat
    /\ MaxTime \in Nat /\ MaxFaults \in Nat

VARIABLES
    mode,   \* the program: "review" until one starts, "execution" or "grasp"
    now,    \* simulated time
    sim,    \* the arm, the base and the controller
    goal,   \* the action server's view of the goal
    seen,   \* the latest samples the client received
    node,   \* the client
    faults  \* how many faults, delays and losses there were

execVars == <<now, sim, goal, seen, node, faults>>

Never == MaxTime + 1

\* expected_goal_points: the goal is the reviewed trajectory, point by point.
GoalPoints == doc.trajectory.points

\* How long the trajectory takes, in ticks.
Duration == GoalPoints[Len(GoalPoints)].at \div TickTime

\* The arm's position after some ticks of movement, times the segment's time
\* (the factor it returns), between the points before and after that moment.
SegmentAt(tick) ==
    LET points == GoalPoints
    IN  CHOOSE s \in 1 .. Len(points) - 1 :
            points[s].at <= tick * TickTime /\ tick * TickTime <= points[s + 1].at

---------------------------------------------------------------------------
(* What the client waits for *)

Fresh(at, t, bound) == 0 <= t - at /\ t - at <= bound

\* _current_whole_body_state.
Whole == IF seen.joint = Absent \/ seen.base = Absent THEN Absent
         ELSE [joint |-> seen.joint, base |-> seen.base]

\* What a wait for whole-body state waits for.
WholeMatches(w, after, target) ==
    /\ w # Absent
    /\ Fresh(w.joint.at, now, WaitFresh) /\ Fresh(w.base.at, now, WaitFresh)
    /\ w.joint.at > after[1] /\ w.base.at > after[2]
    /\ target # Absent => w.joint.value = target

\* The client waits for something that has not happened yet, or is gone.
Waiting ==
    \/ node.pc = "done"
    \/ node.pc \in {"whole1", "whole2"} /\ ~WholeMatches(Whole, <<0, 0>>, Absent)
    \/ node.pc = "final" /\ ~WholeMatches(Whole, node.mark, Duration)
    \/ node.pc = "accept" /\ goal = "sent"
    \/ node.pc = "result" /\ goal = "running"

---------------------------------------------------------------------------
(* Simulator, topics and action server (external) *)

Upright == sim.tipped > now

\* What a topic hands over in a tick.
Kinds == {"current", "previous", "none"}

Punctual == [topic |-> "all", kind |-> "current"]

\* Which topic is late in a tick, and how.
Lateness(topics) == {Punctual} \cup [topic : topics, kind : {"previous", "none"}]

KindOf(late, topic) == IF late.topic = topic THEN late.kind ELSE "current"

\* The latest sample of a topic after a tick to time t.
Received(last, kind, t, value, before) ==
    CASE kind = "current" -> [at |-> t, value |-> value]
      [] kind = "previous" /\ (last = Absent \/ last.at < t - 1) -> [at |-> t - 1, value |-> before]
      [] OTHER -> last

\* One tick: a running trajectory advances, then the two state topics are
\* delivered; feedback of a running goal reaches the client or does not.  A
\* tick that overtakes something that could have happened before it (behind)
\* counts as a delay.  The simulator outlives the client.
TickArm(late, behind) ==
    /\ now < MaxTime /\ mode # "review"
    /\ node.pc = "done" => late = Punctual
    /\ faults' = faults + (IF late = Punctual THEN 0 ELSE 1) + (IF behind THEN 1 ELSE 0)
    /\ faults' <= MaxFaults
    /\ now' = now + 1
    /\ LET arm == IF sim.moving /\ sim.arm < Duration THEN sim.arm + 1 ELSE sim.arm
       IN  /\ sim' = [sim EXCEPT !.arm = arm, !.before = sim.arm]
           /\ seen' = [seen EXCEPT
                 !.joint = Received(@, KindOf(late, "joint"), now + 1, arm, sim.arm),
                 !.base  = Received(@, KindOf(late, "base"), now + 1, sim.tipped > now + 1, Upright)]
    /\ node' \in IF sim.moving /\ node.pc = "result" THEN {node, [node EXCEPT !.feedback = TRUE]}
                 ELSE {node}
    /\ UNCHANGED <<mode, doc, goal>>

\* The server answers a goal: it accepts when its controller is active.
Accept ==
    /\ goal = "sent" /\ sim.ready
    /\ goal' = "running" /\ sim' = [sim EXCEPT !.moving = TRUE]
    /\ UNCHANGED <<mode, doc, now, seen, node, faults>>

Reject ==
    /\ goal = "sent" /\ ~sim.ready
    /\ goal' = "rejected"
    /\ UNCHANGED <<mode, doc, now, sim, seen, node, faults>>

Succeed ==
    /\ goal = "running" /\ sim.arm = Duration
    /\ goal' = "succeeded" /\ sim' = [sim EXCEPT !.moving = FALSE]
    /\ UNCHANGED <<mode, doc, now, seen, node, faults>>

\* A fault: the base tips over, the controller drops out (and its goal is
\* aborted where it stands), a path tolerance is violated, the server dies,
\* or a feedback message is malformed.
Fault ==
    /\ faults < MaxFaults /\ mode # "review" /\ node.pc # "done" /\ now < MaxTime
    /\ faults' = faults + 1
    /\ \/ /\ Upright /\ sim' = [sim EXCEPT !.tipped = now + 1]
          /\ UNCHANGED <<goal, node>>
       \/ /\ sim.ready
          /\ sim' = [sim EXCEPT !.ready = FALSE, !.moving = FALSE]
          /\ goal' = IF goal = "running" THEN "aborted" ELSE goal
          /\ UNCHANGED node
       \/ /\ goal = "running"
          /\ goal' \in {"aborted", "path_violated", "lost"}
          /\ sim' = [sim EXCEPT !.moving = FALSE]
          /\ UNCHANGED node
       \/ /\ goal = "running" /\ node.pc = "result"
          /\ node' = [node EXCEPT !.malformed = TRUE]
          /\ UNCHANGED <<sim, goal>>
    /\ UNCHANGED <<mode, doc, now, seen>>

---------------------------------------------------------------------------
(* Evidence documents *)

\* SimulationControllerState.ready.
Ready(ctl) == ctl.active /\ ctl.base_observable

\* Does not look at what the dense proof says.
PreflightReady_anyProof(proof, start, ctl, t) ==
    /\ Ready(ctl)
    /\ Fresh(start.at, t, DocFresh) /\ Fresh(ctl.at, t, DocFresh)
    /\ start.value = 0

\* _preflight_reasons: the joint state and the controller are fresh, the arm
\* is at the start, and the dense proof is free.
PreflightReady(proof, start, ctl, t) ==
    /\ ProofIsFree(proof)
    /\ Ready(ctl)
    /\ Fresh(start.at, t, DocFresh) /\ Fresh(ctl.at, t, DocFresh)
    /\ start.value = 0

\* SimulationPreflightEvidence: its constructor derives the status again.
PreflightEvidence(proof, start, ctl, t) ==
    [start |-> start, ctl |-> ctl,
     status |-> IF PreflightReady(proof, start, ctl, t) THEN "ready" ELSE "rejected"]

\* The final states are newer than the initial ones and all evidence fresh.
PostStateFresh(first, final, ctl, t) ==
    /\ final.joint.at > first.joint.at /\ final.base.at > first.base.at
    /\ Fresh(final.joint.at, t, DocFresh) /\ Fresh(final.base.at, t, DocFresh)
    /\ Fresh(ctl.at, t, DocFresh)

\* _stability_reasons is empty: fresh newer evidence, a ready controller, and
\* a base that is upright before and after.
Stable(first, final, ctl, t) ==
    /\ PostStateFresh(first, final, ctl, t)
    /\ Ready(ctl)
    /\ first.base.value /\ final.base.value

\* SimulationStabilityObservation: its constructor derives the status again.
StabilityObservation(first, final, ctl, t) ==
    [ctl |-> ctl, evaluated |-> t,
     status |-> IF Stable(first, final, ctl, t) THEN "stable" ELSE "rejected"]

\* The classification of execute, for a goal that was accepted and answered.
Classify(answer, malformed, final, stable) ==
    CASE malformed -> "malformed_feedback"
      [] answer = "canceled" -> "aborted"
      [] answer = "path_violated" -> "path_violated"
      [] answer = "succeeded" /\ final # Absent /\ stable /\ final.joint.value = Duration -> "completed"
      [] answer = "succeeded" /\ final # Absent /\ ~stable -> "unstable"
      [] answer = "succeeded" -> "goal_violated"
      [] OTHER -> "aborted"

\* SimulationExecutionObservation: a completion carries feedback, the target
\* position and stability; a timeout has asked for cancellation.
ObservationShape(o) ==
    /\ o.started <= o.completed
    /\ o.outcome = "completed" =>
          /\ o.acceptance = "accepted" /\ o.feedback /\ ~o.cancel
          /\ o.final # Absent /\ o.stable /\ o.final.joint.value = Duration
    /\ o.outcome = "unstable" => o.acceptance = "accepted" /\ o.final # Absent /\ ~o.stable
    /\ o.outcome = "unavailable" => o.acceptance = "not_sent"
    /\ o.outcome = "goal_rejected" => o.acceptance = "rejected"
    /\ o.outcome = "timed_out" => o.acceptance = "accepted" /\ o.cancel

\* SimulationExecutionResult: the initial evidence is fresh at the start of
\* the run, and the final evidence was observed during it.
ResultShape(first, o) ==
    o.final # Absent =>
        /\ Fresh(first.joint.at, o.started, DocFresh) /\ Fresh(first.base.at, o.started, DocFresh)
        /\ \A at \in {o.final.joint.at, o.final.base.at, o.ctl.at} :
              o.started <= at /\ at <= o.completed

---------------------------------------------------------------------------
(* The client *)

\* SimulationControllerState before it was read.
NoController == [active |-> FALSE, base_observable |-> FALSE, at |-> 0]

\* What a new client node holds.
NewNode(pc) ==
    [pc |-> pc, first |-> Absent, ctl |-> NoController, started |-> 0, mark |-> <<0, 0>>,
     final |-> Absent, feedback |-> FALSE, malformed |-> FALSE, outcome |-> "none",
     completed |-> 0, result |-> 0, confirmed |-> FALSE, exit |-> 0]

ExecutionInit ==
    /\ ReviewInit
    /\ mode = "review" /\ now = 0 /\ goal = "none" /\ faults = 0
    /\ sim = [arm |-> 0, before |-> 0, moving |-> FALSE, tipped |-> Never, ready |-> TRUE]
    /\ seen = [joint |-> Absent, base |-> Absent]
    /\ node = NewNode("idle")

\* main: the reviewed documents are built (reviewed_moveit_reports), then the
\* node is created and starts waiting.
Start(program, pc) ==
    /\ mode = "review" /\ doc.proof # Absent /\ doc.request \in Reviewed
    /\ mode' = program
    /\ node' = NewNode(pc)
    /\ doc' = KeptDocuments(doc)
    /\ UNCHANGED <<now, sim, goal, seen, faults>>

\* main ends; every exception of the run ends in exit code 2.
Exit(code, outcome) == [node EXCEPT !.pc = "done", !.exit = code, !.outcome = outcome]

\* The two programs run the same waits in a different order: stage 9D reads
\* the controllers after the second wait.
AfterFixture == IF mode = "grasp" THEN "whole2" ELSE "flags"
AfterStamp == IF mode = "grasp" THEN "preflight" ELSE "whole2"
AfterWhole == IF mode = "grasp" THEN "flags" ELSE "preflight"

\* wait_for_whole_body_state: the state it waits for; when its time runs out
\* the latest state, whatever it is; and nothing when no time was left.
WholeReturned(after, target, noTime) ==
    IF WholeMatches(Whole, after, target) THEN {Whole}
    ELSE {Whole} \cup (IF noTime THEN {Absent} ELSE {})

WaitFirst ==
    /\ node.pc = "whole1"
    /\ \E w \in WholeReturned(<<0, 0>>, Absent, FALSE) :
          node' = IF w = Absent THEN Exit(2, "no_state") ELSE [node EXCEPT !.pc = "fixture"]
    /\ UNCHANGED <<mode, doc, now, sim, goal, seen, faults>>

\* wait_for_support_fixture: the description is latched, so it arrives; the
\* wait may still run out.
WaitFixture ==
    /\ node.pc = "fixture"
    /\ node' \in {[node EXCEPT !.pc = AfterFixture], Exit(2, "no_fixture")}
    /\ UNCHANGED <<mode, doc, now, sim, goal, seen, faults>>

WaitSecond ==
    /\ node.pc = "whole2"
    /\ \E w \in WholeReturned(<<0, 0>>, Absent, FALSE) :
          node' = IF w = Absent THEN Exit(2, "no_state")
                  ELSE [node EXCEPT !.pc = AfterWhole, !.first = w]
    /\ UNCHANGED <<mode, doc, now, sim, goal, seen, faults>>

\* controller_state, first part: the services answer (or one of them times
\* out, which reads as inactive).
ReadFlags(active) == [node EXCEPT !.ctl = [NoController EXCEPT !.active = active]]

\* controller_state, second part: after the last of its calls the evidence is
\* stamped and the base pose judged.
StampController ==
    [node.ctl EXCEPT !.at = now,
        !.base_observable = seen.base # Absent /\ Fresh(seen.base.at, now, WaitFresh)]

ControllerFlags ==
    /\ node.pc \in {"flags", "flags_post"}
    /\ \E active \in {sim.ready, FALSE} :
          node' = [ReadFlags(active) EXCEPT !.pc = IF node.pc = "flags" THEN "stamp" ELSE "stamp_post"]
    /\ UNCHANGED <<mode, doc, now, sim, goal, seen, faults>>

ControllerStamp ==
    /\ node.pc = "stamp"
    /\ node' = [node EXCEPT !.ctl = StampController, !.pc = AfterStamp]
    /\ UNCHANGED <<mode, doc, now, sim, goal, seen, faults>>

\* evaluate_simulation_preflight and create_simulation_execution_goal; then
\* execute sends the goal.
Preflight ==
    /\ node.pc = "preflight"
    /\ IF PreflightEvidence(doc.proof, node.first.joint, node.ctl, now).status = "ready"
          THEN /\ node' = [node EXCEPT !.pc = "accept", !.started = now]
               /\ goal' = "sent"
          ELSE /\ node' = Exit(2, "preflight_rejected")
               /\ UNCHANGED goal
    /\ UNCHANGED <<mode, doc, now, sim, seen, faults>>

\* An observation of execute that has no stability evidence.
Bare(acceptance, outcome, cancel) ==
    [acceptance |-> acceptance, outcome |-> outcome, started |-> node.started, completed |-> now,
     feedback |-> node.feedback, cancel |-> cancel, final |-> Absent, stable |-> FALSE, ctl |-> NoController]

\* The acceptance has not come within five seconds; the goal stays with the
\* server.
SendTimesOut ==
    /\ node.pc = "accept" /\ goal = "sent"
    /\ ObservationShape(Bare("not_sent", "unavailable", FALSE))
    /\ node' = [Exit(2, "unavailable") EXCEPT !.completed = now]
    /\ UNCHANGED <<mode, doc, now, sim, goal, seen, faults>>

TakeAcceptance ==
    /\ node.pc = "accept" /\ goal # "sent"
    /\ node' = IF goal = "rejected" THEN [Exit(2, "goal_rejected") EXCEPT !.completed = now]
               ELSE [node EXCEPT !.pc = "result"]
    /\ UNCHANGED <<mode, doc, now, sim, goal, seen, faults>>

\* The execution deadline passes before the result has arrived, which may be
\* on its way: cancellation is requested and confirmed, or not.
ResultTimesOut ==
    /\ node.pc = "result"
    /\ ObservationShape(Bare("accepted", "timed_out", TRUE))
    /\ \E confirmed \in {FALSE, goal = "running"} :
          /\ node' = [Exit(2, "timed_out") EXCEPT !.completed = now, !.confirmed = confirmed]
          /\ goal' = IF confirmed THEN "canceled" ELSE goal
          /\ sim' = IF confirmed THEN [sim EXCEPT !.moving = FALSE] ELSE sim
    /\ UNCHANGED <<mode, doc, now, seen, faults>>

\* The result arrives; the samples seen so far are the mark the final state
\* must be newer than.
TakeResult ==
    /\ node.pc = "result" /\ goal \notin {"sent", "running"}
    /\ node' = IF goal = "lost" THEN [Exit(2, "simulator_shutdown") EXCEPT !.completed = now]
               ELSE [node EXCEPT !.pc = "final", !.result = now,
                        !.mark = <<IF seen.joint = Absent THEN 0 ELSE seen.joint.at,
                                   IF seen.base = Absent THEN 0 ELSE seen.base.at>>]
    /\ UNCHANGED <<mode, doc, now, sim, goal, seen, faults>>

WaitFinal ==
    /\ node.pc = "final"
    /\ \E w \in WholeReturned(node.mark, Duration, TRUE) :
          node' = [node EXCEPT !.final = w, !.pc = IF w = Absent THEN "evaluate" ELSE "flags_post"]
    /\ UNCHANGED <<mode, doc, now, sim, goal, seen, faults>>

\* The post-result controller state and, at once, the evaluation of the
\* stability and of the outcome; then the result document, and the exit code
\* of stage 9C or the next phase of stage 9D.
Evaluate ==
    /\ node.pc \in {"evaluate", "stamp_post"}
    /\ LET ctl     == IF node.pc = "evaluate" THEN NoController ELSE StampController
           stable  == /\ node.final # Absent
                      /\ StabilityObservation(node.first, node.final, ctl, now).status = "stable"
           outcome == Classify(goal, node.malformed, node.final, stable)
           o == [acceptance |-> "accepted", outcome |-> outcome, started |-> node.started,
                 completed |-> now, feedback |-> node.feedback, cancel |-> FALSE,
                 final |-> node.final, stable |-> stable, ctl |-> ctl]
           built == ObservationShape(o) /\ ResultShape(node.first, o)
       IN  node' = IF built /\ outcome = "completed"
                   THEN [node EXCEPT !.ctl = ctl, !.outcome = outcome, !.completed = now, !.exit = 0,
                            !.pc = IF mode = "grasp" THEN "hold" ELSE "done"]
                   ELSE [Exit(2, IF built THEN outcome ELSE "invalid") EXCEPT !.completed = now, !.ctl = ctl]
    /\ UNCHANGED <<mode, doc, now, sim, goal, seen, faults>>

Client ==
    \/ WaitFirst \/ WaitFixture \/ WaitSecond \/ ControllerFlags \/ ControllerStamp
    \/ Preflight \/ SendTimesOut \/ TakeAcceptance \/ ResultTimesOut \/ TakeResult
    \/ WaitFinal \/ Evaluate

Server == Accept \/ Reject \/ Succeed

---------------------------------------------------------------------------
(* Properties *)

\* Once the goal was sent, wherever the simulated arm is, it is at most half
\* a sampling step from a configuration that was checked and is free in the
\* scene of the reviewed request: review, proof and preflight together.
ArmNearChecked ==
    goal # "none" =>
        LET points == GoalPoints
            s      == SegmentAt(sim.arm)
            length == points[s + 1].at - points[s].at
        IN  \E sample \in doc.proof.free :
               /\ ~HitsItself(sample.q) /\ ~HitsScene(sample.q, doc.request.scene)
               /\ Near(points[s].q, points[s + 1].q, sim.arm * TickTime - points[s].at, length, sample.q)

\* A completed run is what it says: the server succeeded, the arm has arrived,
\* and the base was upright at an instant of the run less than the freshness
\* bound before its completion (execute, _stability_reasons, ResultShape).
CompletedIsTrue ==
    node.outcome = "completed" =>
        /\ goal = "succeeded" /\ sim.arm = Duration
        /\ sim.tipped > node.started
        /\ sim.tipped > node.completed - DocFresh

\* An outcome is reported for an arm that rests, except when the acceptance
\* never came or the cancellation was not confirmed (execute :488-:536).
RestWhenReported ==
    node.pc = "done" /\ sim.moving =>
        \/ node.outcome = "unavailable"
        \/ node.outcome = "timed_out" /\ ~node.confirmed

\* However samples are lost or late and whatever fails, the client comes to
\* an end: every wait is bounded (MAX_WAIT_SECONDS, the goal's timeout).
ClientEnds == (mode # "review") ~> (node.pc = "done")
=============================================================================
