------------------------ MODULE GraspInteractionProofs ------------------------
(***************************************************************************)
(* Proofs about GraspInteraction and the modules it extends, for any arm,  *)
(* scenes, requests, trajectory, sampling policy and freshness bounds, and *)
(* any number of faults, delays and losses: first what the two programs    *)
(* report, then what the review stages hand on and where the arm goes.     *)
(***************************************************************************)
EXTENDS GraspInteraction, FiniteSetTheorems, WellFoundedInduction, TLAPS

\* Where the client has not sent a goal yet, has its answer, and has reported the
\* movement complete.
Before == {"idle", "pregrasp", "contact", "attach", "whole1", "fixture", "whole2", "flags",
           "stamp", "preflight"}
Carried == {"hold", "held", "release", "whole3", "flags_release", "stamp_release"}
Answered == {"final", "evaluate", "flags_post", "stamp_post"} \cup Carried

\* The fields of the records that are updated in part.
Shapes ==
    /\ {"arm", "before", "moving", "tipped", "ready"} \subseteq DOMAIN sim
    /\ {"joint", "base"} \subseteq DOMAIN seen
    /\ {"pc", "first", "ctl", "started", "mark", "final", "feedback", "malformed", "outcome",
        "completed", "result", "confirmed", "exit"} \subseteq DOMAIN node
    /\ {"place", "before", "carried"} \subseteq DOMAIN object
    /\ {"attached", "asked"} \subseteq DOMAIN plugin
    /\ {"pregrasp", "mark", "contact", "attached", "marks", "hold", "released", "apart",
        "complete"} \subseteq DOMAIN grasp

\* The goal is where the client takes it to be: an arm that moves has a running
\* goal, and a goal is left open only by a program that reports so.
GoalOpen == goal \in {"sent", "running"}

GoalFollowed ==
    /\ mode = "review" => node.pc = "idle"
    /\ node.pc \in Before \cup {"accept", "result", "done"} \cup Answered
    /\ node.pc \in Before => goal = "none"
    /\ node.pc = "accept" => goal # "none"
    /\ node.pc = "result" => goal \notin {"none", "sent"}
    /\ node.pc \in Answered => goal # "none" /\ ~GoalOpen
    /\ node.pc = "done" /\ GoalOpen =>
          \/ node.outcome = "unavailable"
          \/ node.outcome = "timed_out" /\ ~node.confirmed
    /\ sim.moving => goal = "running"
    /\ goal = "succeeded" => sim.arm = Duration

\* A sample of the base says what the base was at its time.
Sampled(s) == s.at \in Nat /\ s.at <= now /\ (s.value => sim.tipped > s.at)

\* What the client has seen of the base, and what it concluded.
BaseObserved ==
    /\ seen.base # Absent => Sampled(seen.base)
    /\ node.final # Absent => Sampled(node.final.base)
    /\ node.started \in Nat /\ node.started <= now
    /\ node.completed \in Nat /\ node.completed <= now
    /\ node.outcome = "completed" =>
          /\ node.pc \in Carried \cup {"done"}
          /\ goal = "succeeded" /\ node.started <= node.completed
          /\ sim.tipped > node.started /\ sim.tipped > node.completed - DocFresh

\* A pose of the object is not of a place it only came to later, and shows it in
\* place no longer than it was.
PoseTrue(s) ==
    /\ s.at \in Nat /\ s.at <= now /\ s.value \in {0, 1}
    /\ s.value = 1 => object.place = 1
    /\ s.value = 0 /\ ~object.carried =>
          s.at < now /\ (node.pc \in {"hold", "held"} => s.at < node.completed)

\* The object stays where it was left, and the evidence of the grasp is about it.
ObjectFollowed ==
    /\ plugin.attached => object.place = 0
    /\ object.carried \in BOOLEAN
    /\ ~object.carried => object.place = 1
    /\ heard.pose # Absent => PoseTrue(heard.pose)
    /\ node.pc \in Carried => node.outcome = "completed"
    /\ node.pc \in {"pregrasp", "contact", "attach"} \cup Carried => mode = "grasp"
    /\ mode = "grasp" /\ node.pc \notin {"idle", "pregrasp", "done"} => grasp.pregrasp.pose.value = 0
    /\ node.pc \in Carried \ {"hold", "held"} => object.carried /\ grasp.hold.pose.value = 0
    /\ node.pc \in {"whole3", "flags_release", "stamp_release"} => object.place = 1
    /\ grasp.complete =>
          node.pc = "done" /\ goal = "succeeded" /\ object.carried /\ object.place = 1

Grasped == TypeOK /\ Shapes /\ GoalFollowed /\ BaseObserved /\ ObjectFollowed

--------------------------------------------------------------------------------
(* The client. *)

Others == UNCHANGED <<mode, doc, now, seen, faults>>
World == UNCHANGED <<sim, goal>>

\* What of the client the invariant is about.
Keeps(n, m) ==
    /\ DOMAIN m = DOMAIN n
    /\ m.final = n.final /\ m.started = n.started /\ m.completed = n.completed
    /\ m.outcome = n.outcome /\ m.confirmed = n.confirmed /\ m.exit = n.exit

LEMMA DurationKept ==
    ASSUME UNCHANGED doc
    PROVE  Duration' = Duration
  BY DEF Duration, GoalPoints

\* The client goes on, and nothing but its place changes of what matters.
LEMMA Proceeds ==
    ASSUME Grasped, Others, World, UNCHANGED graspVars, Keeps(node, node'),
           node.pc # "idle", node.pc # "done",
           \/ /\ node.pc \in Before \ {"contact", "attach"}
              /\ node'.pc \in Before \ {"idle", "pregrasp", "contact", "attach"}
              /\ mode = "grasp" => node.pc # "pregrasp"
           \/ node.pc \in Answered \ Carried /\ node'.pc \in Answered \ Carried
           \/ node.pc = "flags_release" /\ node'.pc = "stamp_release"
           \/ node.pc = "accept" /\ node'.pc = "result" /\ goal # "sent"
           \/ node.pc = "result" /\ node'.pc = "final" /\ ~GoalOpen
    PROVE  Grasped'
<1>1. TypeOK'
  BY DEF Grasped, TypeOK, Others, World, graspVars, Keeps
<1>2. Shapes'
  BY DEF Grasped, Shapes, Others, World, graspVars, Keeps
<1>3. GoalFollowed'
  BY DurationKept DEF Grasped, GoalFollowed, GoalOpen, Before, Answered, Carried, Others, World, Keeps
<1>4. BaseObserved'
  BY DEF Grasped, GoalFollowed, BaseObserved, Sampled, Before, Answered, Carried, Others, World, Keeps
<1>5. ObjectFollowed'
  BY DEF Grasped, ObjectFollowed, PoseTrue, Before, Answered, Carried, Others, World, graspVars, Keeps
<1> QED
  BY <1>1, <1>2, <1>3, <1>4, <1>5 DEF Grasped

\* The client ends.
LEMMA Ends ==
    ASSUME Grasped, Others, UNCHANGED graspVars, World, DOMAIN node' = DOMAIN node,
           node.pc # "idle", node'.pc = "done", node'.exit \in {0, 2},
           node'.final = node.final, node'.started = node.started,
           node'.completed \in {node.completed, now},
           node.outcome # "completed", node'.outcome # "completed",
           GoalOpen => \/ node'.outcome = "unavailable"
                       \/ node'.outcome = "timed_out" /\ ~node'.confirmed
    PROVE  Grasped'
<1>1. TypeOK'
  BY DEF Grasped, TypeOK, Others, World, graspVars
<1>2. Shapes'
  BY DEF Grasped, Shapes, Others, World, graspVars
<1>3. GoalFollowed'
  BY DurationKept DEF Grasped, GoalFollowed, GoalOpen, Before, Answered, Carried, Others, World
<1>4. BaseObserved'
  BY DEF Grasped, TypeOK, GoalFollowed, BaseObserved, Sampled, Before, Answered, Carried, Others, World
<1>5. ObjectFollowed'
  BY DEF Grasped, ObjectFollowed, PoseTrue, Before, Answered, Carried, Others, World, graspVars
<1> QED
  BY <1>1, <1>2, <1>3, <1>4, <1>5 DEF Grasped

LEMMA ExitOf ==
    ASSUME Shapes, NEW code, NEW outcome, NEW n, n = Exit(code, outcome)
    PROVE  /\ DOMAIN n = DOMAIN node /\ n.pc = "done" /\ n.exit = code /\ n.outcome = outcome
           /\ n.final = node.final /\ n.started = node.started /\ n.completed = node.completed
           /\ n.confirmed = node.confirmed
  BY DEF Exit, Shapes

\* A wait that runs out before the movement was completed.
LEMMA GivesUp ==
    ASSUME Grasped, Others, UNCHANGED graspVars, World, node.pc \in Before \cup (Answered \ Carried),
           node.pc # "idle", NEW outcome, outcome # "completed", node' = Exit(2, outcome)
    PROVE  Grasped'
<1>1. /\ DOMAIN node' = DOMAIN node /\ node'.pc = "done" /\ node'.exit = 2
      /\ node'.outcome = outcome /\ node'.final = node.final
      /\ node'.started = node.started /\ node'.completed = node.completed
  BY ExitOf DEF Grasped
<1>2. node.outcome # "completed" /\ ~GoalOpen
  BY DEF Grasped, GoalFollowed, BaseObserved, GoalOpen, Before, Answered, Carried
<1> QED
  BY <1>1, <1>2, Ends

LEMMA WaitFirstKeeps ==
    ASSUME Grasped, WaitFirst, UNCHANGED graspVars
    PROVE  Grasped'
<1>1. /\ Others /\ World /\ node.pc = "whole1"
      /\ node' = Exit(2, "no_state") \/ node' = [node EXCEPT !.pc = "fixture"]
  BY DEF WaitFirst, Others, World
<1>2. CASE node' = Exit(2, "no_state")
  BY <1>1, <1>2, GivesUp DEF Before
<1>3. CASE node' = [node EXCEPT !.pc = "fixture"]
  <2>1. Keeps(node, node') /\ node'.pc = "fixture"
    BY <1>3 DEF Grasped, Shapes, Keeps
  <2> QED
    BY <1>1, <2>1, Proceeds DEF Before
<1> QED
  BY <1>1, <1>2, <1>3

LEMMA WaitFixtureKeeps ==
    ASSUME Grasped, WaitFixture, UNCHANGED graspVars
    PROVE  Grasped'
<1>1. /\ Others /\ World /\ node.pc = "fixture"
      /\ node' = Exit(2, "no_fixture") \/ node' = [node EXCEPT !.pc = AfterFixture]
  BY DEF WaitFixture, Others, World
<1>2. CASE node' = Exit(2, "no_fixture")
  BY <1>1, <1>2, GivesUp DEF Before
<1>3. CASE node' = [node EXCEPT !.pc = AfterFixture]
  <2>1. Keeps(node, node') /\ node'.pc \in {"whole2", "flags"}
    BY <1>3 DEF Grasped, Shapes, Keeps, AfterFixture
  <2> QED
    BY <1>1, <2>1, Proceeds DEF Before
<1> QED
  BY <1>1, <1>2, <1>3

LEMMA WaitSecondKeeps ==
    ASSUME Grasped, WaitSecond, UNCHANGED graspVars
    PROVE  Grasped'
<1>1. /\ Others /\ World /\ node.pc = "whole2"
      /\ \/ node' = Exit(2, "no_state")
         \/ \E w : node' = [node EXCEPT !.pc = AfterWhole, !.first = w]
  BY DEF WaitSecond, Others, World
<1>2. CASE node' = Exit(2, "no_state")
  BY <1>1, <1>2, GivesUp DEF Before
<1>3. CASE \E w : node' = [node EXCEPT !.pc = AfterWhole, !.first = w]
  <2>1. Keeps(node, node') /\ node'.pc \in {"flags", "preflight"}
    BY <1>3 DEF Grasped, Shapes, Keeps, AfterWhole
  <2> QED
    BY <1>1, <2>1, Proceeds DEF Before
<1> QED
  BY <1>1, <1>2, <1>3

LEMMA ControllerFlagsKeeps ==
    ASSUME Grasped, ControllerFlags, UNCHANGED graspVars
    PROVE  Grasped'
<1>1. /\ Others /\ World /\ node.pc \in {"flags", "flags_post"}
      /\ \E active : node' = [ReadFlags(active) EXCEPT
                             !.pc = IF node.pc = "flags" THEN "stamp" ELSE "stamp_post"]
  BY DEF ControllerFlags, Others, World
<1>2. Keeps(node, node') /\ node'.pc = IF node.pc = "flags" THEN "stamp" ELSE "stamp_post"
  BY <1>1 DEF Grasped, Shapes, Keeps, ReadFlags
<1> QED
  BY <1>1, <1>2, Proceeds DEF Before, Answered, Carried

LEMMA ControllerStampKeeps ==
    ASSUME Grasped, ControllerStamp, UNCHANGED graspVars
    PROVE  Grasped'
<1>1. /\ Others /\ World /\ node.pc = "stamp"
      /\ node' = [node EXCEPT !.ctl = StampController, !.pc = AfterStamp]
  BY DEF ControllerStamp, Others, World
<1>2. Keeps(node, node') /\ node'.pc \in {"preflight", "whole2"}
  BY <1>1 DEF Grasped, Shapes, Keeps, AfterStamp
<1> QED
  BY <1>1, <1>2, Proceeds DEF Before

LEMMA PreflightKeeps ==
    ASSUME Grasped, Preflight, UNCHANGED graspVars
    PROVE  Grasped'
<1>1. /\ Others /\ UNCHANGED sim /\ node.pc = "preflight"
      /\ \/ node' = [node EXCEPT !.pc = "accept", !.started = now] /\ goal' = "sent"
         \/ node' = Exit(2, "preflight_rejected") /\ UNCHANGED goal
  BY DEF Preflight, Others
<1>2. CASE node' = Exit(2, "preflight_rejected") /\ UNCHANGED goal
  BY <1>1, <1>2, GivesUp DEF Before, World
<1>3. CASE node' = [node EXCEPT !.pc = "accept", !.started = now] /\ goal' = "sent"
  <2>1. /\ DOMAIN node' = DOMAIN node /\ node'.pc = "accept" /\ node'.started = now
        /\ node'.final = node.final /\ node'.completed = node.completed
        /\ node'.outcome = node.outcome /\ node'.exit = node.exit
    BY <1>3 DEF Grasped, Shapes
  <2>2. TypeOK'
    BY <1>1, <1>3, <2>1 DEF Grasped, TypeOK, Others, graspVars
  <2>3. Shapes'
    BY <1>1, <2>1 DEF Grasped, Shapes, Others, graspVars
  <2>4. GoalFollowed'
    BY <1>1, <1>3, <2>1 DEF Grasped, GoalFollowed, GoalOpen, Before, Answered, Carried, Others
  <2>5. BaseObserved'
    BY <1>1, <1>3, <2>1
       DEF Grasped, TypeOK, GoalFollowed, BaseObserved, Sampled, Before, Answered, Carried, Others
  <2>6. ObjectFollowed'
    BY <1>1, <2>1 DEF Grasped, ObjectFollowed, PoseTrue, Before, Answered, Carried, Others, graspVars
  <2> QED
    BY <2>2, <2>3, <2>4, <2>5, <2>6 DEF Grasped
<1> QED
  BY <1>1, <1>2, <1>3

LEMMA SendTimesOutKeeps ==
    ASSUME Grasped, SendTimesOut, UNCHANGED graspVars
    PROVE  Grasped'
<1>1. /\ Others /\ World /\ node.pc = "accept"
      /\ node' = [Exit(2, "unavailable") EXCEPT !.completed = now]
  BY DEF SendTimesOut, Others, World
<1>2. /\ DOMAIN node' = DOMAIN node /\ node'.pc = "done" /\ node'.exit = 2
      /\ node'.outcome = "unavailable" /\ node'.final = node.final
      /\ node'.started = node.started /\ node'.completed = now
  BY <1>1, ExitOf DEF Grasped, Shapes
<1>3. node.outcome # "completed"
  BY <1>1 DEF Grasped, BaseObserved, Carried
<1> QED
  BY <1>1, <1>2, <1>3, Ends

LEMMA TakeAcceptanceKeeps ==
    ASSUME Grasped, TakeAcceptance, UNCHANGED graspVars
    PROVE  Grasped'
<1>1. /\ Others /\ World /\ node.pc = "accept" /\ goal # "sent"
      /\ \/ goal = "rejected" /\ node' = [Exit(2, "goal_rejected") EXCEPT !.completed = now]
         \/ node' = [node EXCEPT !.pc = "result"]
  BY DEF TakeAcceptance, Others, World
<1>2. CASE goal = "rejected" /\ node' = [Exit(2, "goal_rejected") EXCEPT !.completed = now]
  <2>1. /\ DOMAIN node' = DOMAIN node /\ node'.pc = "done" /\ node'.exit = 2
        /\ node'.outcome = "goal_rejected" /\ node'.final = node.final
        /\ node'.started = node.started /\ node'.completed = now
    BY <1>2, ExitOf DEF Grasped, Shapes
  <2>2. node.outcome # "completed" /\ ~GoalOpen
    BY <1>1, <1>2 DEF Grasped, BaseObserved, Carried, GoalOpen
  <2> QED
    BY <1>1, <2>1, <2>2, Ends
<1>3. CASE node' = [node EXCEPT !.pc = "result"]
  <2>1. Keeps(node, node') /\ node'.pc = "result"
    BY <1>3 DEF Grasped, Shapes, Keeps
  <2> QED
    BY <1>1, <2>1, Proceeds
<1> QED
  BY <1>1, <1>2, <1>3

\* A cancellation that is confirmed stops the arm.
LEMMA ResultTimesOutKeeps ==
    ASSUME Grasped, ResultTimesOut, UNCHANGED graspVars
    PROVE  Grasped'
<1>1. PICK confirmed \in {FALSE, goal = "running"} :
         /\ Others /\ node.pc = "result"
         /\ node' = [Exit(2, "timed_out") EXCEPT !.completed = now, !.confirmed = confirmed]
         /\ goal' = IF confirmed THEN "canceled" ELSE goal
         /\ sim' = IF confirmed THEN [sim EXCEPT !.moving = FALSE] ELSE sim
  BY DEF ResultTimesOut, Others
<1>2. /\ DOMAIN node' = DOMAIN node /\ node'.pc = "done" /\ node'.exit = 2
      /\ node'.outcome = "timed_out" /\ node'.final = node.final
      /\ node'.started = node.started /\ node'.completed = now
      /\ node'.confirmed = confirmed
  BY <1>1, ExitOf DEF Grasped, Shapes
<1>3. node.outcome # "completed"
  BY <1>1 DEF Grasped, BaseObserved, Carried
<1>4. CASE ~confirmed
  BY <1>1, <1>2, <1>3, <1>4, Ends DEF World
<1>5. CASE confirmed
  <2>1. /\ goal' = "canceled" /\ sim'.moving = FALSE /\ DOMAIN sim' = DOMAIN sim
        /\ sim'.tipped = sim.tipped /\ sim'.ready = sim.ready
    BY <1>1, <1>5 DEF Grasped, Shapes
  <2>2. TypeOK'
    BY <1>1, <1>2, <2>1 DEF Grasped, TypeOK, Others, graspVars
  <2>3. Shapes'
    BY <1>1, <1>2, <2>1 DEF Grasped, Shapes, Others, graspVars
  <2>4. GoalFollowed'
    BY <1>1, <1>2, <2>1 DEF Grasped, GoalFollowed, GoalOpen, Before, Answered, Carried, Others
  <2>5. BaseObserved'
    BY <1>1, <1>2, <1>3, <2>1 DEF Grasped, TypeOK, BaseObserved, Sampled, Carried, Others
  <2>6. ObjectFollowed'
    BY <1>1, <1>2, <2>1 DEF Grasped, ObjectFollowed, PoseTrue, Carried, Others, graspVars
  <2> QED
    BY <2>2, <2>3, <2>4, <2>5, <2>6 DEF Grasped
<1> QED
  BY <1>4, <1>5

LEMMA TakeResultKeeps ==
    ASSUME Grasped, TakeResult, UNCHANGED graspVars
    PROVE  Grasped'
<1>1. /\ Others /\ World /\ node.pc = "result" /\ ~GoalOpen
      /\ \/ node' = [Exit(2, "simulator_shutdown") EXCEPT !.completed = now]
         \/ \E mark : node' = [node EXCEPT !.pc = "final", !.result = now, !.mark = mark]
  BY DEF TakeResult, Others, World, GoalOpen
<1>2. CASE node' = [Exit(2, "simulator_shutdown") EXCEPT !.completed = now]
  <2>1. /\ DOMAIN node' = DOMAIN node /\ node'.pc = "done" /\ node'.exit = 2
        /\ node'.outcome = "simulator_shutdown" /\ node'.final = node.final
        /\ node'.started = node.started /\ node'.completed = now
    BY <1>2, ExitOf DEF Grasped, Shapes
  <2>2. node.outcome # "completed"
    BY <1>1 DEF Grasped, BaseObserved, Carried
  <2> QED
    BY <1>1, <2>1, <2>2, Ends
<1>3. CASE \E mark : node' = [node EXCEPT !.pc = "final", !.result = now, !.mark = mark]
  <2>1. Keeps(node, node') /\ node'.pc = "final"
    BY <1>3 DEF Grasped, Shapes, Keeps
  <2> QED
    BY <1>1, <2>1, Proceeds
<1> QED
  BY <1>1, <1>2, <1>3

\* A state that is returned is the latest, and has a sample of the base.
LEMMA ReturnedIsSampled ==
    ASSUME Grasped, NEW after, NEW target, NEW noTime,
           NEW w \in WholeReturned(after, target, noTime), w # Absent
    PROVE  Sampled(w.base)
<1>1. w = Whole
  BY DEF WholeReturned
<1>2. seen.base # Absent /\ w = [joint |-> seen.joint, base |-> seen.base]
  BY <1>1 DEF Whole
<1> QED
  BY <1>2 DEF Grasped, BaseObserved

\* The client takes the latest state as the final one.
LEMMA TakesFinal ==
    ASSUME Grasped, Others, World, UNCHANGED graspVars, DOMAIN node' = DOMAIN node,
           node'.final # Absent => Sampled(node'.final.base),
           node'.started = node.started, node'.completed = node.completed,
           node'.outcome = node.outcome, node'.exit = node.exit,
           \/ node.pc = "final" /\ node'.pc \in {"evaluate", "flags_post"}
           \/ node.pc = "whole3" /\ node'.pc = "flags_release"
    PROVE  Grasped'
<1>1. TypeOK'
  BY DEF Grasped, TypeOK, Others, World, graspVars
<1>2. Shapes'
  BY DEF Grasped, Shapes, Others, World, graspVars
<1>3. GoalFollowed'
  BY DurationKept DEF Grasped, GoalFollowed, GoalOpen, Before, Answered, Carried, Others, World
<1>4. BaseObserved'
  BY DEF Grasped, TypeOK, BaseObserved, Sampled, Carried, Others, World
<1>5. ObjectFollowed'
  BY DEF Grasped, ObjectFollowed, PoseTrue, Carried, Others, World, graspVars
<1> QED
  BY <1>1, <1>2, <1>3, <1>4, <1>5 DEF Grasped

LEMMA WaitFinalKeeps ==
    ASSUME Grasped, WaitFinal, UNCHANGED graspVars
    PROVE  Grasped'
<1>1. PICK w \in WholeReturned(node.mark, Duration, TRUE) :
         /\ Others /\ World /\ node.pc = "final"
         /\ node' = [node EXCEPT !.final = w, !.pc = IF w = Absent THEN "evaluate" ELSE "flags_post"]
  BY DEF WaitFinal, Others, World
<1>2. /\ DOMAIN node' = DOMAIN node /\ node'.final = w
      /\ node'.pc \in {"evaluate", "flags_post"}
      /\ node'.started = node.started /\ node'.completed = node.completed
      /\ node'.outcome = node.outcome /\ node'.exit = node.exit
  BY <1>1 DEF Grasped, Shapes
<1>3. w # Absent => Sampled(w.base)
  BY ReturnedIsSampled
<1> QED
  BY <1>1, <1>2, <1>3, TakesFinal

\* A movement is classified completed only when the server says so and the final
\* sample of the base, taken during the run and fresh, shows it upright.
LEMMA CompletedMeans ==
    ASSUME NEW answer, NEW malformed, NEW final, NEW stable,
           Classify(answer, malformed, final, stable) = "completed"
    PROVE  answer = "succeeded" /\ final # Absent /\ stable
  BY DEF Classify

LEMMA StableMeans ==
    ASSUME NEW first, NEW final, NEW ctl, NEW t,
           StabilityObservation(first, final, ctl, t).status = "stable"
    PROVE  final.base.value /\ Fresh(final.base.at, t, DocFresh)
<1>1. Stable(first, final, ctl, t)
  BY DEF StabilityObservation
<1> QED
  BY <1>1 DEF Stable, PostStateFresh

LEMMA EvaluateKeeps ==
    ASSUME Grasped, Evaluate, UNCHANGED graspVars
    PROVE  Grasped'
<1> DEFINE ctl == IF node.pc = "evaluate" THEN NoController ELSE StampController
           stable == /\ node.final # Absent
                     /\ StabilityObservation(node.first, node.final, ctl, now).status = "stable"
           outcome == Classify(goal, node.malformed, node.final, stable)
           o == [acceptance |-> "accepted", outcome |-> outcome, started |-> node.started,
                 completed |-> now, feedback |-> node.feedback, cancel |-> FALSE,
                 final |-> node.final, stable |-> stable, ctl |-> ctl]
           built == ObservationShape(o) /\ ResultShape(node.first, o)
<1>1. /\ Others /\ World /\ node.pc \in {"evaluate", "stamp_post"}
      /\ node' = IF built /\ outcome = "completed"
                 THEN [node EXCEPT !.ctl = ctl, !.outcome = outcome, !.completed = now, !.exit = 0,
                          !.pc = IF mode = "grasp" THEN "hold" ELSE "done"]
                 ELSE [Exit(2, IF built THEN outcome ELSE "invalid")
                          EXCEPT !.completed = now, !.ctl = ctl]
  BY DEF Evaluate, Others, World
<1>2. node.outcome # "completed" /\ ~GoalOpen
  BY <1>1 DEF Grasped, BaseObserved, GoalFollowed, Answered, Carried
<1>3. ASSUME built, outcome = "completed"
      PROVE  /\ goal = "succeeded" /\ node.started <= now
             /\ sim.tipped > node.started /\ sim.tipped > now - DocFresh
  <2>1. goal = "succeeded" /\ node.final # Absent /\ stable
    <3> HIDE DEF stable
    <3> QED
      BY <1>3, CompletedMeans
  <2>2. node.final.base.value /\ Fresh(node.final.base.at, now, DocFresh)
    BY <2>1, StableMeans
  <2>3. /\ node.final.base.at \in Nat /\ sim.tipped > node.final.base.at
        /\ node.started \in Nat /\ node.started <= now /\ now \in Nat /\ sim.tipped \in Int
    BY <2>1, <2>2, TicksAssumption DEF Grasped, TypeOK, BaseObserved, Sampled, Never
  <2>4. /\ o.final = node.final /\ o.started = node.started
        /\ ResultShape(node.first, o)
    BY <1>3
  <2> HIDE DEF o
  <2>5. node.started <= node.final.base.at
    BY <2>1, <2>4 DEF ResultShape
  <2> QED
    BY <2>1, <2>2, <2>3, <2>5, TicksAssumption DEF Fresh
<1> HIDE DEF built, outcome, ctl
<1>4. CASE built /\ outcome = "completed"
  <2>1. /\ DOMAIN node' = DOMAIN node /\ node'.pc = IF mode = "grasp" THEN "hold" ELSE "done"
        /\ node'.final = node.final /\ node'.started = node.started /\ node'.completed = now
        /\ node'.outcome = "completed" /\ node'.exit = 0
    BY <1>1, <1>4 DEF Grasped, Shapes
  <2>2. TypeOK'
    BY <1>1, <2>1 DEF Grasped, TypeOK, Others, World, graspVars
  <2>3. Shapes'
    BY <1>1, <2>1 DEF Grasped, Shapes, Others, World, graspVars
  <2>4. GoalFollowed'
    BY <1>1, <1>2, <2>1, DurationKept
       DEF Grasped, GoalFollowed, GoalOpen, Before, Answered, Carried, Others, World
  <2>5. BaseObserved'
    BY <1>1, <1>3, <1>4, <2>1 DEF Grasped, TypeOK, BaseObserved, Sampled, Carried, Others, World
  <2>6. ObjectFollowed'
    BY <1>1, <2>1 DEF Grasped, ObjectFollowed, PoseTrue, Carried, Others, World, graspVars
  <2> QED
    BY <2>2, <2>3, <2>4, <2>5, <2>6 DEF Grasped
<1>5. CASE ~(built /\ outcome = "completed")
  <2> DEFINE reported == IF built THEN outcome ELSE "invalid"
  <2>1. node' = [Exit(2, reported) EXCEPT !.completed = now, !.ctl = ctl] /\ reported # "completed"
    BY <1>1, <1>5
  <2> HIDE DEF reported
  <2>2. /\ DOMAIN node' = DOMAIN node /\ node'.pc = "done" /\ node'.exit = 2
        /\ node'.outcome = reported /\ node'.final = node.final
        /\ node'.started = node.started /\ node'.completed = now
    BY <2>1, ExitOf DEF Grasped, Shapes
  <2> QED
    BY <1>1, <1>2, <2>1, <2>2, Ends
<1> QED
  BY <1>4, <1>5

LEMMA ClientKeeps ==
    ASSUME Grasped, Client, UNCHANGED graspVars
    PROVE  Grasped'
  BY WaitFirstKeeps, WaitFixtureKeeps, WaitSecondKeeps, ControllerFlagsKeeps,
     ControllerStampKeeps, PreflightKeeps, SendTimesOutKeeps, TakeAcceptanceKeeps,
     ResultTimesOutKeeps, TakeResultKeeps, WaitFinalKeeps, EvaluateKeeps
  DEF Client

--------------------------------------------------------------------------------
(* The action server and the faults. *)

\* The server answers, or fails: the arm moves only for a goal it has taken.
LEMMA GoalMoves ==
    ASSUME Grasped, UNCHANGED <<mode, doc, now, seen, node, graspVars>>,
           faults' \in 0 .. MaxFaults, DOMAIN sim' = DOMAIN sim,
           sim'.tipped = sim.tipped, sim'.arm = sim.arm, sim'.ready \in BOOLEAN,
           \/ goal = "sent" /\ goal' = "running" /\ sim'.moving = TRUE
           \/ goal = "sent" /\ goal' = "rejected" /\ sim'.moving = sim.moving
           \/ goal = "running" /\ sim.arm = Duration /\ goal' = "succeeded" /\ sim'.moving = FALSE
           \/ goal = "running" /\ goal' \in {"aborted", "path_violated", "lost"} /\ sim'.moving = FALSE
           \/ goal' = goal /\ sim'.moving = FALSE
    PROVE  Grasped'
<1>1. TypeOK'
  BY DEF Grasped, TypeOK, graspVars
<1>2. Shapes'
  BY DEF Grasped, Shapes, graspVars
<1>3. GoalFollowed'
  BY DurationKept DEF Grasped, GoalFollowed, GoalOpen, Before, Answered, Carried
<1>4. BaseObserved'
  BY DEF Grasped, TypeOK, BaseObserved, GoalFollowed, Sampled, Carried
<1>5. ObjectFollowed'
  BY DEF Grasped, ObjectFollowed, PoseTrue, Carried, graspVars
<1> QED
  BY <1>1, <1>2, <1>3, <1>4, <1>5 DEF Grasped

LEMMA ServerKeeps ==
    ASSUME Grasped, Server, UNCHANGED graspVars
    PROVE  Grasped'
<1>1. CASE Accept
  <2>1. /\ Others /\ UNCHANGED node /\ goal = "sent" /\ goal' = "running"
        /\ sim' = [sim EXCEPT !.moving = TRUE]
    BY <1>1 DEF Accept, Others
  <2>2. /\ DOMAIN sim' = DOMAIN sim /\ sim'.tipped = sim.tipped /\ sim'.arm = sim.arm
        /\ sim'.ready = sim.ready /\ sim'.moving = TRUE
    BY <2>1 DEF Grasped, Shapes
  <2> QED
    BY <2>1, <2>2, GoalMoves DEF Grasped, TypeOK, Others
<1>2. CASE Reject
  <2>1. Others /\ UNCHANGED <<node, sim>> /\ goal = "sent" /\ goal' = "rejected"
    BY <1>2 DEF Reject, Others
  <2> QED
    BY <2>1, GoalMoves DEF Grasped, TypeOK, Others
<1>3. CASE Succeed
  <2>1. /\ Others /\ UNCHANGED node /\ goal = "running" /\ goal' = "succeeded"
        /\ sim.arm = Duration /\ sim' = [sim EXCEPT !.moving = FALSE]
    BY <1>3 DEF Succeed, Others
  <2>2. /\ DOMAIN sim' = DOMAIN sim /\ sim'.tipped = sim.tipped /\ sim'.arm = sim.arm
        /\ sim'.ready = sim.ready /\ sim'.moving = FALSE
    BY <2>1 DEF Grasped, Shapes
  <2> QED
    BY <2>1, <2>2, GoalMoves DEF Grasped, TypeOK, Others
<1> QED
  BY <1>1, <1>2, <1>3 DEF Server

\* What only marks the client, where it is.
LEMMA NodeRemarks ==
    ASSUME Grasped, UNCHANGED <<mode, doc, now, sim, goal, seen, graspVars>>,
           faults' \in 0 .. MaxFaults, Keeps(node, node'), node'.pc = node.pc
    PROVE  Grasped'
<1>1. TypeOK'
  BY DEF Grasped, TypeOK, graspVars, Keeps
<1>2. Shapes'
  BY DEF Grasped, Shapes, graspVars, Keeps
<1>3. GoalFollowed'
  BY DurationKept DEF Grasped, GoalFollowed, GoalOpen, Keeps
<1>4. BaseObserved'
  BY DEF Grasped, BaseObserved, Sampled, Keeps
<1>5. ObjectFollowed'
  BY DEF Grasped, ObjectFollowed, PoseTrue, graspVars, Keeps
<1> QED
  BY <1>1, <1>2, <1>3, <1>4, <1>5 DEF Grasped

LEMMA FaultKeeps ==
    ASSUME Grasped, Fault, UNCHANGED graspVars
    PROVE  Grasped'
<1>1. /\ UNCHANGED <<mode, doc, now, seen>> /\ faults' \in 0 .. MaxFaults /\ now' = now
      /\ now \in Nat /\ now < MaxTime /\ node.pc # "done" /\ mode # "review"
  BY TicksAssumption DEF Fault, Grasped, TypeOK
<1>2. CASE Upright /\ sim' = [sim EXCEPT !.tipped = now + 1] /\ UNCHANGED <<goal, node>>
  <2>1. /\ DOMAIN sim' = DOMAIN sim /\ sim'.tipped = now + 1 /\ sim'.arm = sim.arm
        /\ sim'.ready = sim.ready /\ sim'.moving = sim.moving /\ sim.tipped > now
    BY <1>2 DEF Grasped, Shapes, Upright
  <2>2. now + 1 \in 1 .. Never /\ sim.tipped \in Int
    BY <1>1, TicksAssumption DEF Never, Grasped, TypeOK
  <2>3. TypeOK'
    BY <1>1, <1>2, <2>1, <2>2 DEF Grasped, TypeOK, graspVars, Never
  <2>4. Shapes'
    BY <1>1, <1>2, <2>1 DEF Grasped, Shapes, graspVars
  <2>5. GoalFollowed'
    BY <1>1, <1>2, <2>1, DurationKept DEF Grasped, GoalFollowed, GoalOpen
  <2>6. BaseObserved'
    BY <1>1, <1>2, <2>1, <2>2, TicksAssumption DEF Grasped, BaseObserved, Sampled
  <2>7. ObjectFollowed'
    BY <1>1, <1>2, <2>1 DEF Grasped, ObjectFollowed, PoseTrue, graspVars
  <2> QED
    BY <2>3, <2>4, <2>5, <2>6, <2>7 DEF Grasped
<1>3. CASE /\ sim' = [sim EXCEPT !.ready = FALSE, !.moving = FALSE] /\ UNCHANGED node
           /\ goal' = IF goal = "running" THEN "aborted" ELSE goal
  <2>1. /\ DOMAIN sim' = DOMAIN sim /\ sim'.tipped = sim.tipped /\ sim'.arm = sim.arm
        /\ sim'.ready = FALSE /\ sim'.moving = FALSE
    BY <1>3 DEF Grasped, Shapes
  <2> QED
    BY <1>1, <1>3, <2>1, GoalMoves
<1>4. CASE /\ goal = "running" /\ goal' \in {"aborted", "path_violated", "lost"}
           /\ sim' = [sim EXCEPT !.moving = FALSE] /\ UNCHANGED node
  <2>1. /\ DOMAIN sim' = DOMAIN sim /\ sim'.tipped = sim.tipped /\ sim'.arm = sim.arm
        /\ sim'.ready = sim.ready /\ sim'.moving = FALSE
    BY <1>4 DEF Grasped, Shapes
  <2> QED
    BY <1>1, <1>4, <2>1, GoalMoves DEF Grasped, TypeOK
<1>5. CASE node' = [node EXCEPT !.malformed = TRUE] /\ UNCHANGED <<sim, goal>>
  <2>1. Keeps(node, node') /\ node'.pc = node.pc
    BY <1>5 DEF Grasped, Shapes, Keeps
  <2> QED
    BY <1>1, <1>5, <2>1, NodeRemarks
<1> QED
  BY <1>2, <1>3, <1>4, <1>5 DEF Fault

--------------------------------------------------------------------------------
(* A tick of the simulator. *)

LEMMA ReceivedOne ==
    ASSUME NEW last, NEW kind, NEW t \in Int, NEW value, NEW before,
           NEW r, r = Received(last, kind, t, value, before)
    PROVE  \/ r = [at |-> t, value |-> value]
           \/ r = [at |-> t - 1, value |-> before]
           \/ r = last
  BY DEF Received

LEMMA SampleOf ==
    ASSUME NEW at, NEW value \in BOOLEAN, NEW s, s = [at |-> at, value |-> value]
    PROVE  s.at = at /\ (s.value => value)
<1>1. s.at = at /\ s.value = value
  OBVIOUS
<1> QED
  BY <1>1, Zenon

\* What a tick does to the arm, the samples and the client.
Advanced(arm) ==
    /\ UNCHANGED <<mode, doc, goal>> /\ mode # "review"
    /\ now \in Nat /\ now < MaxTime /\ now' = now + 1 /\ faults' \in 0 .. MaxFaults
    /\ sim' = [sim EXCEPT !.arm = arm, !.before = sim.arm]
    /\ ~sim.moving => arm = sim.arm
    /\ \E joint, kind : seen' = [seen EXCEPT !.joint = joint,
                        !.base = Received(@, kind, now + 1, sim.tipped > now + 1, Upright)]
    /\ node' = node \/ node' = [node EXCEPT !.feedback = TRUE]

LEMMA TickArmAdvances ==
    ASSUME Grasped, NEW late, NEW behind, TickArm(late, behind)
    PROVE  Advanced(IF sim.moving /\ sim.arm < Duration THEN sim.arm + 1 ELSE sim.arm)
<1>1. now \in Nat /\ faults \in Nat /\ MaxFaults \in Nat
  BY TicksAssumption DEF Grasped, TypeOK
<1>2. faults' \in 0 .. MaxFaults
  BY <1>1 DEF TickArm
<1>3. node' = node \/ node' = [node EXCEPT !.feedback = TRUE]
  BY DEF TickArm
<1> QED
  BY <1>1, <1>2, <1>3 DEF TickArm, Advanced

LEMMA AdvancedBase ==
    ASSUME Grasped, NEW arm, Advanced(arm)
    PROVE  /\ Keeps(node, node') /\ node'.pc = node.pc
           /\ DOMAIN sim' = DOMAIN sim /\ sim'.tipped = sim.tipped /\ sim'.arm = arm
           /\ sim'.ready = sim.ready /\ sim'.moving = sim.moving
           /\ DOMAIN seen' = DOMAIN seen
           /\ BaseObserved' /\ GoalFollowed'
<1>1. /\ DOMAIN sim' = DOMAIN sim /\ sim'.tipped = sim.tipped /\ sim'.arm = arm
      /\ sim'.ready = sim.ready /\ sim'.moving = sim.moving
  BY DEF Advanced, Grasped, Shapes
<1>2. Keeps(node, node') /\ node'.pc = node.pc
  BY DEF Advanced, Grasped, Shapes, Keeps
<1>3. PICK joint, kind : seen' = [seen EXCEPT !.joint = joint,
                !.base = Received(@, kind, now + 1, sim.tipped > now + 1, Upright)]
  BY DEF Advanced
<1>4. /\ DOMAIN seen' = DOMAIN seen
      /\ seen'.base = Received(seen.base, kind, now + 1, sim.tipped > now + 1, Upright)
  BY <1>3 DEF Grasped, Shapes
<1>5. now \in Nat /\ now' = now + 1 /\ sim.tipped \in Int
  BY TicksAssumption DEF Advanced, Grasped, TypeOK, Never
<1> DEFINE upright == sim.tipped > now + 1
<1>6. seen'.base # Absent => Sampled(seen.base)'
  <2>1. CASE seen'.base = [at |-> now + 1, value |-> upright]
    <3>1. upright \in BOOLEAN /\ (upright => sim'.tipped > now')
      BY <1>1, <1>5
    <3> HIDE DEF upright
    <3>2. seen'.base.at = now + 1 /\ (seen'.base.value => upright)
      BY <2>1, <3>1, SampleOf
    <3>3. seen'.base.value => sim'.tipped > now'
      BY <3>1, <3>2
    <3> QED
      BY <1>5, <3>2, <3>3 DEF Sampled
  <2>2. CASE seen'.base = [at |-> now + 1 - 1, value |-> Upright]
    <3>1. Upright \in BOOLEAN /\ (Upright => sim'.tipped > now)
      BY <1>1, <1>5 DEF Upright
    <3>2. seen'.base.at = now + 1 - 1 /\ (seen'.base.value => Upright)
      BY <2>2, <3>1, SampleOf
    <3>3. seen'.base.value => sim'.tipped > now
      BY <3>1, <3>2
    <3> QED
      BY <1>5, <3>2, <3>3 DEF Sampled
  <2>3. CASE seen'.base = seen.base
    BY <1>1, <1>5, <2>3 DEF Grasped, BaseObserved, Sampled
  <2> QED
    BY <1>4, <1>5, <2>1, <2>2, <2>3, ReceivedOne
<1>7. BaseObserved'
  BY <1>1, <1>2, <1>5, <1>6 DEF Advanced, Grasped, BaseObserved, Sampled, Keeps
<1>8. GoalFollowed'
  BY <1>1, <1>2, DurationKept DEF Advanced, Grasped, GoalFollowed, GoalOpen, Keeps
<1> QED
  BY <1>1, <1>2, <1>4, <1>7, <1>8

LEMMA ObjectMoves ==
    ASSUME Grasped, NEW kind, NEW poseKind, NEW advanced \in BOOLEAN, NEW arm, Advanced(arm),
           advanced => sim.moving, UNCHANGED <<mail, grasp>>,
           plugin' = PreUpdate(now + 1, kind),
           object' = ObjectAfter(plugin', advanced),
           NEW state, NEW contact,
           heard' = [state |-> state, contact |-> contact,
                     pose |-> Received(heard.pose, poseKind, now + 1, object'.place, object.place)]
    PROVE  ObjectFollowed' /\ object'.place \in {0, 1} /\ plugin'.asked = {}
           /\ DOMAIN object' = DOMAIN object /\ {"attached", "asked"} \subseteq DOMAIN plugin'
<1>1. /\ {"attached", "asked"} \subseteq DOMAIN plugin' /\ plugin'.asked = {}
      /\ plugin'.attached => plugin.attached \/ object.place = 0
  BY DEF PreUpdate, MayAttach
<1>2. /\ DOMAIN object' = DOMAIN object
      /\ object'.place = IF ~plugin'.attached /\ (~plugin'.preload \/ advanced) THEN 1
                         ELSE object.place
      /\ object'.carried = (object.carried /\ ~(advanced /\ ~plugin'.attached))
  BY DEF ObjectAfter, Grasped, Shapes
<1>3. Keeps(node, node') /\ node'.pc = node.pc
  BY AdvancedBase
<1>4. /\ object.place \in {0, 1} /\ object'.place \in {0, 1}
      /\ object.place = 1 => object'.place = 1
      /\ plugin'.attached => object'.place = 0
      /\ object'.carried \in BOOLEAN /\ (object'.carried => object.carried)
      /\ ~object'.carried => object'.place = 1
  BY <1>1, <1>2 DEF Grasped, TypeOK, ObjectFollowed
<1>5. now \in Nat /\ now' = now + 1 /\ node.completed \in Nat /\ node.completed <= now
  BY DEF Advanced, Grasped, BaseObserved
<1>6. node.pc \in Answered \/ grasp.complete => ~advanced /\ (object'.carried = object.carried)
  BY <1>2 DEF Grasped, GoalFollowed, GoalOpen, ObjectFollowed
<1>7. heard'.pose # Absent => PoseTrue(heard.pose)'
  <2>1. heard'.pose = Received(heard.pose, poseKind, now + 1, object'.place, object.place)
    OBVIOUS
  <2>2. CASE heard'.pose = [at |-> now + 1, value |-> object'.place]
    BY <1>4, <1>5, <2>2 DEF PoseTrue
  <2>3. CASE heard'.pose = [at |-> now + 1 - 1, value |-> object.place]
    <3>1. node.pc \in {"hold", "held"} => object'.carried = object.carried
      BY <1>6 DEF Answered, Carried
    <3>2. ~object.carried => object.place = 1
      BY DEF Grasped, ObjectFollowed
    <3> QED
      BY <1>3, <1>4, <1>5, <2>3, <3>1, <3>2 DEF PoseTrue, Keeps
  <2>4. CASE heard'.pose = heard.pose
    <3>1. node.pc \in {"hold", "held"} => object'.carried = object.carried
      BY <1>6 DEF Answered, Carried
    <3> QED
      <4>1. ASSUME heard'.pose # Absent
            PROVE  PoseTrue(heard.pose)
        BY <2>4, <4>1 DEF Grasped, ObjectFollowed
      <4> QED
        BY <1>3, <1>4, <1>5, <2>4, <3>1, <4>1 DEF PoseTrue, Keeps
  <2> QED
    BY <1>5, <2>1, <2>2, <2>3, <2>4, ReceivedOne
<1>8. ObjectFollowed'
  BY <1>1, <1>3, <1>4, <1>6, <1>7
     DEF Advanced, Grasped, ObjectFollowed, Keeps, Answered, Carried
<1> QED
  BY <1>1, <1>2, <1>4, <1>8

LEMMA TickKeeps ==
    ASSUME Grasped, Tick
    PROVE  Grasped'
<1> DEFINE arm == IF sim.moving /\ sim.arm < Duration THEN sim.arm + 1 ELSE sim.arm
<1>1. PICK late \in Lateness(Topics) :
         /\ TickArm(late, ~(Waiting \/ GraspWaiting) \/ mail # {})
         /\ IF mode # "grasp" THEN UNCHANGED <<object, plugin, heard>>
            ELSE /\ object' = ObjectAfter(PreUpdate(now + 1, KindOf(late, "touch")), sim'.arm # sim.arm)
                 /\ plugin' = PreUpdate(now + 1, KindOf(late, "touch"))
                 /\ \E state, contact :
                       heard' = [state |-> state, contact |-> contact,
                                 pose |-> Received(heard.pose, KindOf(late, "pose"), now + 1,
                                                   object'.place, object.place)]
         /\ UNCHANGED <<mail, grasp>>
  BY DEF Tick
<1>2. Advanced(arm)
  BY <1>1, TickArmAdvances
<1> HIDE DEF arm
<1>3. /\ Keeps(node, node') /\ node'.pc = node.pc
      /\ DOMAIN sim' = DOMAIN sim /\ sim'.tipped = sim.tipped /\ sim'.arm = arm
      /\ sim'.ready = sim.ready /\ sim'.moving = sim.moving
      /\ DOMAIN seen' = DOMAIN seen /\ BaseObserved' /\ GoalFollowed'
  BY <1>2, AdvancedBase
<1>4. sim'.arm # sim.arm => sim.moving
  BY <1>2, <1>3 DEF Advanced
<1>5. now' \in 0 .. MaxTime
  BY <1>2, TicksAssumption DEF Advanced
<1>6. CASE mode # "grasp"
  <2>1. UNCHANGED graspVars
    BY <1>1, <1>6 DEF graspVars
  <2>2. TypeOK'
    BY <1>2, <1>3, <1>5, <2>1 DEF Grasped, TypeOK, Advanced, Keeps, graspVars
  <2>3. Shapes'
    BY <1>3, <2>1 DEF Grasped, Shapes, Keeps, graspVars
  <2>4. now \in Nat /\ now' = now + 1
    BY <1>2 DEF Advanced
  <2>5. heard'.pose # Absent => PoseTrue(heard.pose)'
    BY <1>3, <2>1, <2>4 DEF Grasped, ObjectFollowed, PoseTrue, graspVars, Keeps
  <2>6. ObjectFollowed'
    BY <1>2, <1>3, <2>1, <2>5 DEF Grasped, ObjectFollowed, Advanced, graspVars, Keeps
  <2> QED
    BY <1>3, <2>2, <2>3, <2>6 DEF Grasped
<1>7. CASE mode = "grasp"
  <2> DEFINE advanced == sim'.arm # sim.arm
  <2>1. PICK state, contact :
           heard' = [state |-> state, contact |-> contact,
                     pose |-> Received(heard.pose, KindOf(late, "pose"), now + 1,
                                       object'.place, object.place)]
    BY <1>1, <1>7
  <2>2. /\ plugin' = PreUpdate(now + 1, KindOf(late, "touch"))
        /\ object' = ObjectAfter(plugin', advanced) /\ UNCHANGED <<mail, grasp>>
    BY <1>1, <1>7
  <2>3. advanced \in BOOLEAN /\ (advanced => sim.moving)
    BY <1>4
  <2> HIDE DEF advanced
  <2>4. /\ ObjectFollowed' /\ object'.place \in {0, 1} /\ plugin'.asked = {}
        /\ DOMAIN object' = DOMAIN object /\ {"attached", "asked"} \subseteq DOMAIN plugin'
    BY <1>2, <2>1, <2>2, <2>3, ObjectMoves
  <2>5. TypeOK'
    BY <1>2, <1>3, <1>5, <2>2, <2>4 DEF Grasped, TypeOK, Advanced, Keeps
  <2>6. Shapes'
    BY <1>3, <2>2, <2>4 DEF Grasped, Shapes, Keeps
  <2> QED
    BY <1>3, <2>4, <2>5, <2>6 DEF Grasped
<1> QED
  BY <1>6, <1>7

--------------------------------------------------------------------------------
(* Commands on their way to the plugin. *)

LEMMA MailKeeps ==
    ASSUME Grasped, DeliverMail \/ StrayMail
    PROVE  Grasped'
<1>1. /\ UNCHANGED <<mode, doc, now, sim, goal, seen, node, object, heard, grasp>>
      /\ mail' \subseteq {"attach", "detach"} /\ faults' \in 0 .. MaxFaults
      /\ \/ UNCHANGED plugin
         \/ \E m \in mail : plugin' = [plugin EXCEPT !.asked = @ \cup {m}]
  BY TicksAssumption DEF DeliverMail, StrayMail, Grasped, TypeOK
<1>2. /\ plugin'.attached = plugin.attached /\ plugin'.asked \subseteq {"attach", "detach"}
      /\ DOMAIN plugin' = DOMAIN plugin
  BY <1>1 DEF Grasped, Shapes, TypeOK
<1>3. TypeOK'
  BY <1>1, <1>2 DEF Grasped, TypeOK
<1>4. Shapes'
  BY <1>1, <1>2 DEF Grasped, Shapes
<1>5. GoalFollowed'
  BY <1>1, DurationKept DEF Grasped, GoalFollowed, GoalOpen
<1>6. BaseObserved'
  BY <1>1 DEF Grasped, BaseObserved, Sampled
<1>7. ObjectFollowed'
  BY <1>1, <1>2 DEF Grasped, ObjectFollowed, PoseTrue
<1> QED
  BY <1>3, <1>4, <1>5, <1>6, <1>7 DEF Grasped

--------------------------------------------------------------------------------
(* The client of stage 9D. *)

\* A step of it that keeps the robot and what was observed of the movement.
LEMMA GraspMoves ==
    ASSUME Grasped, Unmoved, DOMAIN node' = DOMAIN node, DOMAIN grasp' = DOMAIN grasp,
           mail' \subseteq {"attach", "detach"}, node.pc # "idle", node.pc # "done",
           node'.final = node.final, node'.started = node.started,
           node'.completed = node.completed,
           node'.outcome = node.outcome \/ node'.outcome # "completed",
           node'.exit \in {0, 2},
           \/ /\ node.pc \in Before /\ node'.pc \in (Before \ {"idle"}) \cup {"done"}
              /\ node'.outcome # "completed"
           \/ /\ node.pc \in Carried /\ node'.pc \in Carried \cup {"done"}
              /\ node'.outcome = node.outcome,
           ObjectFollowed'
    PROVE  Grasped'
<1>1. TypeOK'
  BY DEF Grasped, TypeOK, Unmoved
<1>2. Shapes'
  BY DEF Grasped, Shapes, Unmoved
<1>3. GoalFollowed'
  BY DurationKept DEF Grasped, GoalFollowed, GoalOpen, Before, Answered, Carried, Unmoved
<1>4. BaseObserved'
  BY DEF Grasped, TypeOK, BaseObserved, Sampled, Before, Carried, Unmoved
<1> QED
  BY <1>1, <1>2, <1>3, <1>4 DEF Grasped

LEMMA GiveUpKeeps ==
    ASSUME Grasped, NEW pc \in {"pregrasp", "contact", "attach", "held", "release"}, GiveUp(pc)
    PROVE  Grasped'
<1>1. node.pc = pc /\ node' = Exit(2, node.outcome) /\ UNCHANGED <<grasp, mail>> /\ Unmoved
  BY DEF GiveUp
<1>2. /\ DOMAIN node' = DOMAIN node /\ node'.pc = "done" /\ node'.exit = 2
      /\ node'.outcome = node.outcome /\ node'.final = node.final
      /\ node'.started = node.started /\ node'.completed = node.completed
  BY <1>1, ExitOf DEF Grasped
<1>3. node.pc \in Before => node.outcome # "completed"
  BY DEF Grasped, BaseObserved, Before, Carried
<1>4. ObjectFollowed'
  BY <1>1, <1>2 DEF Grasped, ObjectFollowed, PoseTrue, Carried, Unmoved
<1>5. mail' \subseteq {"attach", "detach"}
  BY <1>1 DEF Grasped, TypeOK
<1> QED
  BY <1>1, <1>2, <1>3, <1>4, <1>5, GraspMoves DEF Before, Carried

\* The pose of a snapshot is the latest one, and the object in place when it says so.
LEMMA SnapshotPose ==
    ASSUME Grasped, NEW value, NEW after, SnapshotReady(value, after)
    PROVE  /\ heard.pose # Absent /\ PoseTrue(heard.pose) /\ heard.pose.value \in {0, 1}
           /\ Snapshot.pose = heard.pose
  BY DEF SnapshotReady, Grasped, ObjectFollowed, PoseTrue, Snapshot

LEMMA PregraspKeeps ==
    ASSUME Grasped, Pregrasp
    PROVE  Grasped'
<1>1. /\ node.pc = "pregrasp" /\ UNCHANGED mail /\ Unmoved
      /\ \/ /\ heard.pose.value = 0 /\ node' = [node EXCEPT !.pc = "contact"]
            /\ \E mark : grasp' = [grasp EXCEPT !.pregrasp = Snapshot, !.mark = mark]
         \/ node' = Exit(2, "none") /\ UNCHANGED grasp
  BY DEF Pregrasp, PregraspShape
<1>2. mail' \subseteq {"attach", "detach"}
  BY <1>1 DEF Grasped, TypeOK
<1>3. CASE node' = Exit(2, "none") /\ UNCHANGED grasp
  <2>1. /\ DOMAIN node' = DOMAIN node /\ node'.pc = "done" /\ node'.exit = 2
        /\ node'.outcome = "none" /\ node'.final = node.final
        /\ node'.started = node.started /\ node'.completed = node.completed
    BY <1>3, ExitOf DEF Grasped
  <2>2. ObjectFollowed'
    BY <1>1, <1>3, <2>1 DEF Grasped, ObjectFollowed, PoseTrue, Carried, Unmoved
  <2> QED
    BY <1>1, <1>2, <1>3, <2>1, <2>2, GraspMoves DEF Before
<1>4. CASE ~(node' = Exit(2, "none") /\ UNCHANGED grasp)
  <2>1. PICK mark : grasp' = [grasp EXCEPT !.pregrasp = Snapshot, !.mark = mark]
    BY <1>1, <1>4
  <2>2. /\ DOMAIN grasp' = DOMAIN grasp /\ grasp'.pregrasp = Snapshot
        /\ grasp'.complete = grasp.complete /\ grasp'.hold = grasp.hold
    BY <2>1 DEF Grasped, Shapes
  <2>3. Keeps(node, node') /\ node'.pc = "contact"
    BY <1>1, <1>4 DEF Grasped, Shapes, Keeps
  <2>4. grasp'.pregrasp.pose.value = 0
    <3>1. heard.pose.value = 0
      BY <1>1, <1>4
    <3>2. Snapshot.pose = heard.pose
      BY DEF Snapshot
    <3> QED
      BY <2>2, <3>1, <3>2
  <2>5. ObjectFollowed'
    BY <1>1, <2>2, <2>3, <2>4 DEF Grasped, ObjectFollowed, PoseTrue, Carried, Unmoved, Keeps
  <2>6. node.outcome # "completed"
    BY <1>1 DEF Grasped, BaseObserved, Carried
  <2> QED
    BY <1>1, <1>2, <2>2, <2>3, <2>5, <2>6, GraspMoves DEF Before, Keeps, Grasped, TypeOK
<1> QED
  BY <1>3, <1>4

LEMMA TakeContactKeeps ==
    ASSUME Grasped, TakeContact
    PROVE  Grasped'
<1>1. /\ node.pc = "contact" /\ Unmoved /\ mail' = mail \cup {"attach"}
      /\ node' = [node EXCEPT !.pc = "attach"]
      /\ grasp' = [grasp EXCEPT !.contact = heard.contact]
  BY DEF TakeContact
<1>2. mail' \subseteq {"attach", "detach"}
  BY <1>1 DEF Grasped, TypeOK
<1>3. /\ DOMAIN grasp' = DOMAIN grasp /\ grasp'.pregrasp = grasp.pregrasp
      /\ grasp'.complete = grasp.complete /\ grasp'.hold = grasp.hold
  BY <1>1 DEF Grasped, Shapes
<1>4. Keeps(node, node') /\ node'.pc = "attach"
  BY <1>1 DEF Grasped, Shapes, Keeps
<1>5. ObjectFollowed'
  BY <1>1, <1>3, <1>4 DEF Grasped, ObjectFollowed, PoseTrue, Carried, Unmoved, Keeps
<1>6. node.outcome # "completed"
  BY <1>1 DEF Grasped, BaseObserved, Carried
<1> QED
  BY <1>1, <1>2, <1>3, <1>4, <1>5, <1>6, GraspMoves DEF Before, Keeps, Grasped, TypeOK

LEMMA AttachKeeps ==
    ASSUME Grasped, Attach
    PROVE  Grasped'
<1>1. /\ node.pc = "attach" /\ Unmoved /\ UNCHANGED mail
      /\ grasp' = [grasp EXCEPT !.attached = heard.state] \/ grasp' = grasp
      /\ node' = [node EXCEPT !.pc = "whole1"] \/ node' = Exit(2, "none")
  BY DEF Attach
<1>2. mail' \subseteq {"attach", "detach"}
  BY <1>1 DEF Grasped, TypeOK
<1>3. /\ DOMAIN grasp' = DOMAIN grasp /\ grasp'.pregrasp = grasp.pregrasp
      /\ grasp'.complete = grasp.complete /\ grasp'.hold = grasp.hold
  BY <1>1 DEF Grasped, Shapes
<1>4. /\ DOMAIN node' = DOMAIN node /\ node'.pc \in {"whole1", "done"}
      /\ node'.exit \in {0, 2} /\ node'.outcome # "completed" /\ node'.final = node.final
      /\ node'.started = node.started /\ node'.completed = node.completed
  <2>1. CASE node' = [node EXCEPT !.pc = "whole1"]
    BY <1>1, <2>1 DEF Grasped, Shapes, TypeOK, BaseObserved, Carried
  <2>2. CASE node' = Exit(2, "none")
    BY <2>2, ExitOf DEF Grasped
  <2> QED
    BY <1>1, <2>1, <2>2
<1>5. ObjectFollowed'
  BY <1>1, <1>3, <1>4 DEF Grasped, ObjectFollowed, PoseTrue, Carried, Unmoved
<1> QED
  BY <1>1, <1>2, <1>3, <1>4, <1>5, GraspMoves DEF Before

LEMMA MarkHoldKeeps ==
    ASSUME Grasped, MarkHold
    PROVE  Grasped'
<1>1. /\ node.pc = "hold" /\ Unmoved /\ UNCHANGED mail
      /\ node' = [node EXCEPT !.pc = "held"]
      /\ grasp' = [grasp EXCEPT !.marks = <<heard.state.at, heard.pose.at>>]
  BY DEF MarkHold
<1>2. mail' \subseteq {"attach", "detach"}
  BY <1>1 DEF Grasped, TypeOK
<1>3. /\ DOMAIN grasp' = DOMAIN grasp /\ grasp'.pregrasp = grasp.pregrasp
      /\ grasp'.complete = grasp.complete /\ grasp'.hold = grasp.hold
  BY <1>1 DEF Grasped, Shapes
<1>4. Keeps(node, node') /\ node'.pc = "held"
  BY <1>1 DEF Grasped, Shapes, Keeps
<1>5. ObjectFollowed'
  BY <1>1, <1>3, <1>4 DEF Grasped, ObjectFollowed, PoseTrue, Carried, Unmoved, Keeps
<1> QED
  BY <1>1, <1>2, <1>3, <1>4, <1>5, GraspMoves DEF Carried, Keeps, Grasped, TypeOK

\* The pose of the hold is of after the movement and shows the object in place: it
\* was carried all the way.
LEMMA HoldKeeps ==
    ASSUME Grasped, Hold
    PROVE  Grasped'
<1>1. /\ node.pc = "held" /\ SnapshotReady("attached", grasp.marks) /\ Unmoved
      /\ \/ /\ HoldShape(heard.pose, heard.state, now)
            /\ grasp' = [grasp EXCEPT !.hold = Snapshot, !.released = now]
            /\ mail' = mail \cup {"detach"} /\ node' = [node EXCEPT !.pc = "release"]
         \/ node' = Exit(2, node.outcome) /\ UNCHANGED <<grasp, mail>>
  BY DEF Hold
<1>2. mail' \subseteq {"attach", "detach"}
  BY <1>1 DEF Grasped, TypeOK
<1>3. CASE node' = Exit(2, node.outcome) /\ UNCHANGED <<grasp, mail>>
  <2>1. /\ DOMAIN node' = DOMAIN node /\ node'.pc = "done" /\ node'.exit = 2
        /\ node'.outcome = node.outcome /\ node'.final = node.final
        /\ node'.started = node.started /\ node'.completed = node.completed
    BY <1>3, ExitOf DEF Grasped
  <2>2. ObjectFollowed'
    BY <1>1, <1>3, <2>1 DEF Grasped, ObjectFollowed, PoseTrue, Carried, Unmoved
  <2> QED
    BY <1>1, <1>2, <1>3, <2>1, <2>2, GraspMoves DEF Carried
<1>4. CASE ~(node' = Exit(2, node.outcome) /\ UNCHANGED <<grasp, mail>>)
  <2>1. /\ HoldShape(heard.pose, heard.state, now) /\ node' = [node EXCEPT !.pc = "release"]
        /\ grasp' = [grasp EXCEPT !.hold = Snapshot, !.released = now]
    BY <1>1, <1>4
  <2>2. /\ DOMAIN grasp' = DOMAIN grasp /\ grasp'.pregrasp = grasp.pregrasp
        /\ grasp'.complete = grasp.complete /\ grasp'.hold = Snapshot
    BY <2>1 DEF Grasped, Shapes
  <2>3. Keeps(node, node') /\ node'.pc = "release"
    BY <2>1 DEF Grasped, Shapes, Keeps
  <2>4. PoseTrue(heard.pose) /\ Snapshot.pose = heard.pose /\ heard.pose.value \in {0, 1}
    BY <1>1, SnapshotPose
  <2>5. grasp.pregrasp.pose.value = 0
    BY <1>1 DEF Grasped, ObjectFollowed, Carried
  <2>6. heard.pose.value = 0 /\ heard.pose.at >= node.completed
    BY <2>1, <2>4, <2>5 DEF HoldShape, RelativeChange, HoldTolerance, Distance
  <2>7. object.carried
    <3>1. ~object.carried => heard.pose.at < node.completed
      BY <1>1, <2>4, <2>6 DEF PoseTrue
    <3>2. heard.pose.at \in Int /\ node.completed \in Int
      BY <2>4 DEF PoseTrue, Grasped, BaseObserved
    <3> QED
      BY <2>6, <3>1, <3>2
  <2>8. ObjectFollowed'
    BY <1>1, <2>2, <2>3, <2>4, <2>6, <2>7
       DEF Grasped, ObjectFollowed, PoseTrue, Carried, Unmoved, Keeps
  <2> QED
    BY <1>1, <1>2, <2>2, <2>3, <2>8, GraspMoves DEF Carried, Keeps, Grasped, TypeOK
<1> QED
  BY <1>3, <1>4

\* The object that is apart was carried: it came away only now.
LEMMA SeeReleaseKeeps ==
    ASSUME Grasped, SeeRelease
    PROVE  Grasped'
<1>1. /\ node.pc = "release" /\ ReleaseReady /\ Unmoved /\ UNCHANGED mail
      /\ grasp' = [grasp EXCEPT !.apart = Snapshot] /\ node' = [node EXCEPT !.pc = "whole3"]
  BY DEF SeeRelease
<1>2. mail' \subseteq {"attach", "detach"}
  BY <1>1 DEF Grasped, TypeOK
<1>3. /\ DOMAIN grasp' = DOMAIN grasp /\ grasp'.pregrasp = grasp.pregrasp
      /\ grasp'.complete = grasp.complete /\ grasp'.hold = grasp.hold
  BY <1>1 DEF Grasped, Shapes
<1>4. Keeps(node, node') /\ node'.pc = "whole3"
  BY <1>1 DEF Grasped, Shapes, Keeps
<1>5. PoseTrue(heard.pose) /\ heard.pose.value \in {0, 1}
  BY <1>1, SnapshotPose DEF ReleaseReady
<1>6. grasp.hold.pose.value = 0 /\ object.carried
  BY <1>1 DEF Grasped, ObjectFollowed, Carried
<1>7. object.place = 1
  <2>1. heard.pose.value = 1
    BY <1>1, <1>5, <1>6 DEF ReleaseReady, RelativeChange, MinimumRelease, Distance
  <2> QED
    BY <1>5, <2>1 DEF PoseTrue
<1>8. ObjectFollowed'
  BY <1>1, <1>3, <1>4, <1>7 DEF Grasped, ObjectFollowed, PoseTrue, Carried, Unmoved, Keeps
<1> QED
  BY <1>1, <1>2, <1>3, <1>4, <1>8, GraspMoves DEF Carried, Keeps, Grasped, TypeOK

LEMMA WaitReleaseKeeps ==
    ASSUME Grasped, WaitRelease
    PROVE  Grasped'
<1>1. PICK w \in WholeReturned(<<node.final.joint.at, node.final.base.at>>, Absent, FALSE) :
         /\ node.pc = "whole3" /\ Unmoved /\ UNCHANGED <<grasp, mail>>
         /\ \/ w = Absent /\ node' = Exit(2, node.outcome)
            \/ w # Absent /\ node' = [node EXCEPT !.pc = "flags_release", !.final = w]
  BY DEF WaitRelease
<1>2. mail' \subseteq {"attach", "detach"}
  BY <1>1 DEF Grasped, TypeOK
<1>3. CASE node' = Exit(2, node.outcome)
  <2>1. /\ DOMAIN node' = DOMAIN node /\ node'.pc = "done" /\ node'.exit = 2
        /\ node'.outcome = node.outcome /\ node'.final = node.final
        /\ node'.started = node.started /\ node'.completed = node.completed
    BY <1>3, ExitOf DEF Grasped
  <2>2. ObjectFollowed'
    BY <1>1, <2>1 DEF Grasped, ObjectFollowed, PoseTrue, Carried, Unmoved
  <2> QED
    BY <1>1, <1>2, <2>1, <2>2, GraspMoves DEF Carried
<1>4. CASE w # Absent /\ node' = [node EXCEPT !.pc = "flags_release", !.final = w]
  <2>1. /\ DOMAIN node' = DOMAIN node /\ node'.final = w /\ node'.pc = "flags_release"
        /\ node'.started = node.started /\ node'.completed = node.completed
        /\ node'.outcome = node.outcome /\ node'.exit = node.exit
    BY <1>4 DEF Grasped, Shapes
  <2>2. Sampled(w.base)
    BY <1>4, ReturnedIsSampled
  <2> QED
    BY <1>1, <2>1, <2>2, TakesFinal DEF Unmoved, Others, World, graspVars
<1> QED
  BY <1>1, <1>3, <1>4

LEMMA ReleaseFlagsKeeps ==
    ASSUME Grasped, ReleaseFlags
    PROVE  Grasped'
<1>1. /\ node.pc = "flags_release" /\ Unmoved /\ UNCHANGED <<grasp, mail>>
      /\ \E active : node' = [ReadFlags(active) EXCEPT !.pc = "stamp_release"]
  BY DEF ReleaseFlags
<1>2. Keeps(node, node') /\ node'.pc = "stamp_release"
  BY <1>1 DEF Grasped, Shapes, Keeps, ReadFlags
<1> QED
  BY <1>1, <1>2, Proceeds DEF Unmoved, Others, World, graspVars

LEMMA FinishKeeps ==
    ASSUME Grasped, Finish
    PROVE  Grasped'
<1>1. PICK built :
         /\ node.pc = "stamp_release" /\ Unmoved /\ UNCHANGED mail
         /\ node' = Exit(IF built THEN 0 ELSE 2, node.outcome)
         /\ grasp' = [grasp EXCEPT !.complete = built]
  BY DEF Finish
<1>2. mail' \subseteq {"attach", "detach"}
  BY <1>1 DEF Grasped, TypeOK
<1>3. /\ DOMAIN node' = DOMAIN node /\ node'.pc = "done" /\ node'.exit \in {0, 2}
      /\ node'.outcome = node.outcome /\ node'.final = node.final
      /\ node'.started = node.started /\ node'.completed = node.completed
  <2> DEFINE code == IF built THEN 0 ELSE 2
  <2>1. node' = Exit(code, node.outcome) /\ code \in {0, 2}
    BY <1>1
  <2> HIDE DEF code
  <2> QED
    BY <2>1, ExitOf DEF Grasped
<1>4. /\ DOMAIN grasp' = DOMAIN grasp /\ grasp'.pregrasp = grasp.pregrasp
      /\ grasp'.hold = grasp.hold
  BY <1>1 DEF Grasped, Shapes
<1>5. goal = "succeeded" /\ object.carried /\ object.place = 1
  BY <1>1 DEF Grasped, BaseObserved, ObjectFollowed, Carried
<1>6. ObjectFollowed'
  BY <1>1, <1>3, <1>4, <1>5 DEF Grasped, ObjectFollowed, PoseTrue, Carried, Unmoved
<1> QED
  BY <1>1, <1>2, <1>3, <1>4, <1>6, GraspMoves DEF Carried

LEMMA GraspClientKeeps ==
    ASSUME Grasped, GraspClient
    PROVE  Grasped'
  BY PregraspKeeps, TakeContactKeeps, AttachKeeps, MarkHoldKeeps, HoldKeeps, SeeReleaseKeeps,
     WaitReleaseKeeps, ReleaseFlagsKeeps, FinishKeeps, GiveUpKeeps
  DEF GraspClient

--------------------------------------------------------------------------------
(* What the programs report. *)

\* Until a program starts nothing is moved or observed.
LEMMA ReviewKeeps ==
    ASSUME Grasped, Review
    PROVE  Grasped'
<1>1. UNCHANGED <<mode, now, sim, goal, seen, node, faults, graspVars>> /\ mode = "review"
  BY DEF Review, execVars
<1>2. goal = "none"
  BY <1>1 DEF Grasped, GoalFollowed, Before
<1>3. TypeOK' /\ Shapes'
  BY <1>1 DEF Grasped, TypeOK, Shapes, graspVars
<1>4. GoalFollowed'
  BY <1>1, <1>2 DEF Grasped, GoalFollowed, GoalOpen
<1>5. BaseObserved'
  BY <1>1 DEF Grasped, BaseObserved, Sampled
<1>6. ObjectFollowed'
  BY <1>1 DEF Grasped, ObjectFollowed, PoseTrue, graspVars
<1> QED
  BY <1>3, <1>4, <1>5, <1>6 DEF Grasped

LEMMA ProgramsKeeps ==
    ASSUME Grasped, Programs
    PROVE  Grasped'
<1>1. /\ UNCHANGED <<now, sim, goal, seen, faults, graspVars>> /\ mode = "review"
      /\ \/ mode' = "execution" /\ node' = NewNode("whole1")
         \/ mode' = "grasp" /\ node' = NewNode("pregrasp")
  BY DEF Programs, Start
<1>2. node.pc = "idle" /\ goal = "none"
  BY <1>1 DEF Grasped, GoalFollowed, Before
<1>3. /\ DOMAIN node' = {"pc", "first", "ctl", "started", "mark", "final", "feedback", "malformed",
                          "outcome", "completed", "result", "confirmed", "exit"}
      /\ node'.final = Absent /\ node'.started = 0 /\ node'.completed = 0
      /\ node'.outcome = "none" /\ node'.exit = 0
      /\ node'.pc = IF mode' = "grasp" THEN "pregrasp" ELSE "whole1"
  BY <1>1 DEF NewNode
<1>4. TypeOK'
  BY <1>1, <1>3 DEF Grasped, TypeOK, graspVars
<1>5. Shapes'
  BY <1>1, <1>3 DEF Grasped, Shapes, graspVars
<1>6. GoalFollowed'
  BY <1>1, <1>2, <1>3 DEF Grasped, GoalFollowed, GoalOpen, Before, Answered, Carried
<1>7. BaseObserved'
  BY <1>1, <1>3 DEF Grasped, TypeOK, BaseObserved, Sampled
<1>8. ObjectFollowed'
  BY <1>1, <1>2, <1>3 DEF Grasped, ObjectFollowed, PoseTrue, Carried, graspVars
<1> QED
  BY <1>4, <1>5, <1>6, <1>7, <1>8 DEF Grasped

LEMMA InitGrasped ==
    ASSUME Init
    PROVE  Grasped
<1> USE TicksAssumption DEF Init, ExecutionInit
<1>1. /\ DOMAIN node = {"pc", "first", "ctl", "started", "mark", "final", "feedback", "malformed",
                         "outcome", "completed", "result", "confirmed", "exit"}
      /\ node.final = Absent /\ node.started = 0 /\ node.completed = 0
      /\ node.outcome = "none" /\ node.exit = 0 /\ node.pc = "idle"
  BY DEF NewNode
<1>2. TypeOK
  BY <1>1 DEF TypeOK, Never, InitialPlugin
<1>3. Shapes
  BY <1>1 DEF Shapes, InitialPlugin, NoGrasp
<1>4. GoalFollowed
  BY <1>1 DEF GoalFollowed, GoalOpen, Before, Answered, Carried
<1>5. BaseObserved
  BY <1>1 DEF BaseObserved
<1>6. ObjectFollowed
  BY <1>1 DEF ObjectFollowed, InitialPlugin, NoGrasp, Carried
<1> QED
  BY <1>2, <1>3, <1>4, <1>5, <1>6 DEF Grasped

LEMMA GraspedStays == Spec => []Grasped
<1>1. Grasped /\ [Next]_vars => Grasped'
  <2> SUFFICES ASSUME Grasped, [Next]_vars
               PROVE  Grasped'
    OBVIOUS
  <2>1. CASE Next
    BY <2>1, ReviewKeeps, ProgramsKeeps, TickKeeps, MailKeeps, ClientKeeps, ServerKeeps,
       FaultKeeps, GraspClientKeeps
    DEF Next
  <2>2. CASE UNCHANGED vars
    <3>1. UNCHANGED <<mode, doc, now, sim, goal, seen, node, faults, graspVars>>
      BY <2>2 DEF vars, execVars
    <3>2. TypeOK' /\ Shapes'
      BY <3>1 DEF Grasped, TypeOK, Shapes, graspVars
    <3>3. GoalFollowed'
      BY <3>1, DurationKept DEF Grasped, GoalFollowed, GoalOpen
    <3>4. BaseObserved'
      BY <3>1 DEF Grasped, BaseObserved, Sampled
    <3>5. ObjectFollowed'
      BY <3>1 DEF Grasped, ObjectFollowed, PoseTrue, graspVars
    <3> QED
      BY <3>2, <3>3, <3>4, <3>5 DEF Grasped
  <2> QED
    BY <2>1, <2>2
<1> QED
  BY <1>1, InitGrasped, PTL DEF Spec

\* What the two programs report is true of the robot: a completed movement has ended
\* at the goal with a base that was upright after it began, an arm still moves only
\* under a report that says so, and a grasp that is reported complete carried the
\* object all the way and let it go; for any faults, losses, delays and stray
\* commands (execute, _stability_reasons, Stage9DInteractionNode.run, PreUpdate).
THEOREM ReportsStayTrue == Spec => []ReportsTrue
<1>1. Grasped => ReportsTrue
  <2> SUFFICES ASSUME Grasped
               PROVE  ReportsTrue
    OBVIOUS
  <2>1. CompletedIsTrue
    BY DEF Grasped, GoalFollowed, BaseObserved, CompletedIsTrue
  <2>2. RestWhenReported
    BY DEF Grasped, GoalFollowed, GoalOpen, RestWhenReported
  <2>3. AttachedInPlace /\ ResultMeansCarried
    BY DEF Grasped, ObjectFollowed, AttachedInPlace, ResultMeansCarried
  <2> QED
    BY <2>1, <2>2, <2>3 DEF Grasped, ReportsTrue
<1> QED
  BY <1>1, GraspedStays, PTL

--------------------------------------------------------------------------------
(* Least numbers and greatest values. *)

\* A set of naturals that is not empty has a least member.
LEMMA LeastNumber ==
    ASSUME NEW S, S \subseteq Nat, S # {}
    PROVE  \E x \in S : \A y \in S : x <= y
<1> DEFINE R == {p \in Nat \X Nat : p[1] < p[2]}
<1>1. IsWellFoundedOn(R, Nat)
  BY NatLessThanWellFounded DEF OpToRel
<1>2. PICK x \in S : \A y \in S : ~ (<<y, x>> \in R)
  <2> HIDE DEF R
  <2> QED
    BY <1>1, WFMin
<1>3. ASSUME NEW y \in S PROVE x <= y
  <2>1. x \in Nat /\ y \in Nat /\ <<y, x>> \in Nat \X Nat
    OBVIOUS
  <2>2. ~ (<<y, x>> \in R)
    BY <1>2
  <2>3. ~ (y < x)
    BY <2>1, <2>2
  <2> QED
    BY <2>1, <2>3
<1> QED
  BY <1>3

\* A finite set of integers has a greatest one, which Max is.
LEMMA MaxIs ==
    ASSUME NEW S, IsFiniteSet(S), S \subseteq Int, S # {}
    PROVE  Max(S) \in S /\ \A x \in S : x <= Max(S)
<1> DEFINE Above(x) == {y \in S : y > x}
           Counts == {Cardinality(Above(x)) : x \in S}
<1>1. \A x \in S : IsFiniteSet(Above(x)) /\ Cardinality(Above(x)) \in Nat
  BY FS_Subset, FS_CardinalityType
<1>2. PICK x \in S : \A y \in S : Cardinality(Above(x)) <= Cardinality(Above(y))
  <2>1. Counts \subseteq Nat /\ Counts # {}
    BY <1>1
  <2>2. PICK c \in Counts : \A d \in Counts : c <= d
    <3> HIDE DEF Counts
    <3> QED
      BY <2>1, LeastNumber
  <2> QED
    BY <2>2
<1>3. ASSUME NEW y \in S, y > x PROVE FALSE
  <2>1. Above(y) \subseteq Above(x) /\ y \in Above(x) /\ y \notin Above(y)
    <3>1. x \in Int /\ y \in Int /\ \A z \in S : z \in Int
      OBVIOUS
    <3>2. \A z \in S : z > y => z > x
      BY <1>3, <3>1
    <3>3. ~(y > y)
      BY <3>1
    <3>4. y \in Above(x) /\ y \notin Above(y)
      BY <1>3, <3>3, Zenon
    <3>5. Above(y) \subseteq Above(x)
      BY <3>2, Zenon
    <3> QED
      BY <3>4, <3>5
  <2>2. Above(y) # Above(x)
    BY <2>1
  <2>3. Cardinality(Above(y)) < Cardinality(Above(x))
    <3> HIDE DEF Above
    <3> QED
      BY <1>1, <2>1, <2>2, FS_Subset
  <2> QED
    BY <1>1, <1>2, <2>3
<1>4. \A y \in S : x >= y
  BY <1>3
<1> QED
  BY <1>4 DEF Max

LEMMA PairMax ==
    ASSUME NEW a \in Int, NEW b \in Int, NEW T, \A y : y \in T <=> y = a \/ y = b
    PROVE  (Max(T) = a \/ Max(T) = b) /\ a <= Max(T) /\ b <= Max(T)
<1>1. IsFiniteSet(T)
  <2>1. IsFiniteSet({a})
    BY FS_Singleton
  <2>2. IsFiniteSet({a} \cup {b})
    BY <2>1, FS_AddElement
  <2>3. {a} \cup {b} = {a, b}
    OBVIOUS
  <2> QED
    BY <2>2, <2>3
<1> QED
  BY <1>1, MaxIs

\* The greatest value of a function on a finite set.
LEMMA MaxOver ==
    ASSUME NEW S, IsFiniteSet(S), S # {}, NEW f \in [S -> Int],
           NEW T, \A y : y \in T <=> \E x \in S : y = f[x]
    PROVE  Max(T) \in Int /\ (\A x \in S : f[x] <= Max(T)) /\ \E x \in S : Max(T) = f[x]
<1>1. f \in Surjection(S, T)
  BY DEF Surjection
<1>2. IsFiniteSet(T)
  BY <1>1, FS_Surjection
<1>3. T \subseteq Int /\ T # {} /\ \A x \in S : f[x] \in T
  OBVIOUS
<1>4. Max(T) \in T /\ \A y \in T : y <= Max(T)
  BY <1>2, <1>3, MaxIs
<1> QED
  BY <1>3, <1>4

--------------------------------------------------------------------------------
(* Distances, pieces and positions on the way. *)

Positions == [Joints -> Int]

LEMMA DistanceIs ==
    ASSUME NEW a \in Int, NEW b \in Int
    PROVE  /\ Distance(a, b) \in Nat /\ Distance(a, b) = Distance(b, a)
           /\ a - b <= Distance(a, b) /\ b - a <= Distance(a, b)
           /\ Distance(a, b) = a - b \/ Distance(a, b) = b - a
  BY DEF Distance

LEMMA TravelIs ==
    ASSUME NEW p \in Positions, NEW q \in Positions
    PROVE  Travel(p, q) \in Nat /\ \A j \in Joints : Distance(p[j], q[j]) <= Travel(p, q)
<1> DEFINE f == [j \in Joints |-> Distance(p[j], q[j])]
<1>1. \A j \in Joints : p[j] \in Int /\ q[j] \in Int
  BY DEF Positions
<1>2. \A j \in Joints : Distance(p[j], q[j]) \in Nat
  BY <1>1, DistanceIs
<1>3. f \in [Joints -> Int]
  BY <1>2
<1> DEFINE T == {Distance(p[j], q[j]) : j \in Joints}
<1>4. \A y : y \in T <=> \E j \in Joints : y = f[j]
  OBVIOUS
<1>5. Travel(p, q) = Max(T)
  BY DEF Travel
<1>6. \A j \in Joints : f[j] = Distance(p[j], q[j])
  OBVIOUS
<1> HIDE DEF f, T
<1>7. /\ \A j \in Joints : f[j] <= Travel(p, q)
      /\ \E j \in Joints : Travel(p, q) = f[j]
  BY <1>3, <1>4, <1>5, MaxOver, ArmAssumption
<1> QED
  BY <1>2, <1>6, <1>7

\* The pieces cover the travel.
LEMMA PiecesAre ==
    ASSUME NEW travel \in Nat, NEW step \in Nat, step > 0
    PROVE  /\ Pieces(travel, step) \in Nat /\ Pieces(travel, step) >= 1
           /\ travel <= Pieces(travel, step) * step
<1> DEFINE c == (travel + step - 1) \div step
<1>1. c \in Int /\ travel + step - 1 < step * (c + 1)
  <2>1. travel + step - 1 \in Int /\ step \in Int
    OBVIOUS
  <2>2. (travel + step - 1) = step * c + ((travel + step - 1) % step)
    BY <2>1
  <2>3. (travel + step - 1) % step < step
    BY <2>1
  <2> QED
    BY <2>1, <2>2, <2>3
<1> DEFINE T == {1, c}
<1>2. Pieces(travel, step) = Max(T) /\ \A y : y \in T <=> y = 1 \/ y = c
  BY DEF Pieces
<1> HIDE DEF c, T
<1>3. (Pieces(travel, step) = 1 \/ Pieces(travel, step) = c) /\ Pieces(travel, step) >= 1 /\ Pieces(travel, step) >= c
  <2>1. 1 \in Int /\ c \in Int
    BY <1>1
  <2>2. \A y : y \in T <=> y = 1 \/ y = c
    BY <1>2
  <2>3. (Max(T) = 1 \/ Max(T) = c) /\ 1 <= Max(T) /\ c <= Max(T)
    BY <2>1, <2>2, PairMax
  <2> QED
    BY <1>2, <2>1, <2>3
<1>4. travel <= step * c
  BY <1>1
<1>5. c * step <= Pieces(travel, step) * step
  BY <1>1, <1>3
<1> QED
  BY <1>1, <1>3, <1>4, <1>5

LEMMA BetweenEnds ==
    ASSUME NEW p \in Positions, NEW q \in Positions, NEW n \in Nat, n >= 1
    PROVE  Between(p, q, 0, n) = p /\ Between(p, q, n, n) = q
<1>1. ASSUME NEW j \in Joints
      PROVE  p[j] + ((q[j] - p[j]) * 0) \div n = p[j] /\ p[j] + ((q[j] - p[j]) * n) \div n = q[j]
  <2>1. p[j] \in Int /\ q[j] \in Int
    BY DEF Positions
  <2>2. ((q[j] - p[j]) * 0) \div n = 0
    BY <2>1
  <2> DEFINE d == q[j] - p[j]
  <2>3. d \in Int
    BY <2>1
  <2>4. (d * n) \div n = d
    <3> HIDE DEF d
    <3> QED
      BY <2>3
  <2> QED
    BY <2>1, <2>2, <2>4
<1>2. p = [j \in Joints |-> p[j]] /\ q = [j \in Joints |-> q[j]]
  BY DEF Positions
<1> QED
  BY <1>1, <1>2 DEF Between

\* The nearest of m equal pieces of a way to part k of n of it.
LEMMA Nearest ==
    ASSUME NEW m \in Nat, m >= 1, NEW n \in Nat, n >= 1, NEW k \in 0 .. n
    PROVE  \E i \in 0 .. m : -n <= 2 * (m * k - i * n) /\ 2 * (m * k - i * n) <= n
<1> DEFINE a == 2 * (m * k) + n
           b == 2 * n
           i == a \div b
<1>1. a \in Nat /\ b \in Nat /\ b > 0 /\ m * k \in Nat /\ m * k <= m * n /\ m * n \in Nat
  OBVIOUS
<1>2. i \in Int /\ b * i <= a /\ a < b * i + b
  <2> HIDE DEF a, b
  <2>1. a = b * (a \div b) + (a % b) /\ 0 <= a % b /\ a % b < b
    BY <1>1
  <2> QED
    BY <1>1, <2>1
<1> HIDE DEF i
<1>3. 2 * (i * n) <= 2 * (m * k) + n /\ 2 * (m * k) + n < 2 * (i * n) + 2 * n
  <2>1. b * i = 2 * (i * n)
    BY <1>2
  <2> QED
    BY <1>2, <2>1
<1>4. i >= 0
  <2>1. ASSUME i <= -1 PROVE FALSE
    <3>1. i * n <= -n
      BY <1>2, <2>1
    <3>2. i * n \in Int
      BY <1>2
    <3> QED
      BY <1>1, <1>3, <3>1, <3>2
  <2> QED
    BY <1>2, <2>1
<1>5. i <= m
  <2>1. ASSUME i >= m + 1 PROVE FALSE
    <3>1. i * n >= (m + 1) * n
      BY <1>2, <2>1
    <3>2. (m + 1) * n = m * n + n
      OBVIOUS
    <3>3. i * n \in Int
      BY <1>2
    <3> DEFINE x == i * n
               y == m * k
               z == m * n
    <3>4. x \in Int /\ y \in Int /\ z \in Int /\ y <= z /\ x >= z + n /\ 2 * x <= 2 * y + n
      BY <1>1, <1>3, <3>1, <3>2, <3>3
    <3> HIDE DEF x, y, z
    <3> QED
      BY <3>4
  <2> QED
    BY <1>2, <2>1
<1> QED
  BY <1>1, <1>2, <1>3, <1>4, <1>5

\* In one joint: e is what a piece adds, d the whole way.
LEMMA NearInOne ==
    ASSUME NEW a \in Int, NEW d \in Int, NEW e \in Int, NEW step \in Nat, NEW m \in Nat, m >= 1,
           NEW n \in Nat, NEW k \in Nat, NEW i \in Nat, d = m * e,
           -(m * step) <= d, d <= m * step,
           -n <= 2 * (m * k - i * n), 2 * (m * k - i * n) <= n
    PROVE  2 * Distance(a * n + d * k, (a + e * i) * n) <= step * n
<1> DEFINE w == m * k - i * n
<1>1. w \in Int /\ -n <= 2 * w /\ 2 * w <= n
  OBVIOUS
<1>2. -step <= e /\ e <= step
  <2>1. e <= step
    <3> SUFFICES ASSUME e >= step + 1 PROVE FALSE
      OBVIOUS
    <3>1. m * e >= m * (step + 1)
      OBVIOUS
    <3>2. m * (step + 1) = m * step + m
      OBVIOUS
    <3> QED
      BY <3>1, <3>2
  <2>2. -step <= e
    <3> SUFFICES ASSUME -e >= step + 1 PROVE FALSE
      OBVIOUS
    <3>1. m * (-e) >= m * (step + 1)
      OBVIOUS
    <3>2. m * (step + 1) = m * step + m /\ m * (-e) = -(m * e)
      OBVIOUS
    <3> QED
      BY <3>1, <3>2
  <2> QED
    BY <2>1, <2>2
<1>3. (a * n + d * k) - (a + e * i) * n = e * w
  OBVIOUS
<1> HIDE DEF w
<1>4. 2 * (e * w) <= step * n /\ -(step * n) <= 2 * (e * w)
  <2>1. e * w <= step * w \/ e * w <= step * (-w)
    BY <1>1, <1>2
  <2>2. -(e * w) <= step * w \/ -(e * w) <= step * (-w)
    BY <1>1, <1>2
  <2>3. step * (2 * w) <= step * n /\ step * (-(2 * w)) <= step * n
    BY <1>1
  <2>4. step * (2 * w) = 2 * (step * w) /\ step * (-(2 * w)) = 2 * (step * (-w))
    BY <1>1
  <2>5. step * n \in Int /\ e * w \in Int /\ step * w \in Int /\ step * (-w) \in Int
    BY <1>1
  <2> QED
    BY <2>1, <2>2, <2>3, <2>4, <2>5
<1>5. a * n + d * k \in Int /\ (a + e * i) * n \in Int /\ e * w \in Int /\ step * n \in Int
  BY <1>1
<1> QED
  BY <1>3, <1>4, <1>5 DEF Distance

LEMMA SamplingNumbers ==
    Sampling.step \in Nat /\ Sampling.step > 0
  BY ArmAssumption, SamplingAssumption DEF SamplingShape

LEMMA SubdivisionsAre ==
    ASSUME NEW p \in Positions, NEW q \in Positions
    PROVE  /\ Subdivisions(p, q) \in Nat /\ Subdivisions(p, q) >= 1
           /\ Travel(p, q) <= Subdivisions(p, q) * Sampling.step
<1>1. Travel(p, q) \in Nat
  BY TravelIs
<1> QED
  BY <1>1, SamplingNumbers, PiecesAre DEF Subdivisions

\* What one piece of an exact division adds.
LEMMA ExactPiece ==
    ASSUME NEW d \in Int, NEW m \in Nat, m >= 1, d % m = 0
    PROVE  \E e \in Int : d = m * e /\ \A i \in Nat : (d * i) \div m = e * i
<1> DEFINE e == d \div m
<1>1. e \in Int /\ d = m * e
  <2>1. d = m * (d \div m) + (d % m)
    OBVIOUS
  <2>2. d \div m \in Int
    OBVIOUS
  <2> QED
    BY <2>1, <2>2
<1> HIDE DEF e
<1>2. ASSUME NEW i \in Nat PROVE (d * i) \div m = e * i
  <2>1. d * i = m * (e * i)
    BY <1>1
  <2> DEFINE x == e * i
  <2>2. x \in Int
    BY <1>1
  <2>3. (m * x) \div m = x
    <3> HIDE DEF x
    <3> QED
      BY <2>2
  <2> QED
    BY <2>1, <2>3
<1> QED
  BY <1>1, <1>2

\* Wherever the arm is between p and q, one of the samples of an exact
\* division of the way is near.
LEMMA SampleNear ==
    ASSUME NEW p \in Positions, NEW q \in Positions,
           \A j \in Joints : (q[j] - p[j]) % Subdivisions(p, q) = 0,
           NEW n \in Nat, n >= 1, NEW k \in 0 .. n
    PROVE  \E i \in 0 .. Subdivisions(p, q) : Near(p, q, k, n, Between(p, q, i, Subdivisions(p, q)))
<1> DEFINE m == Subdivisions(p, q)
<1>1. m \in Nat /\ m >= 1 /\ Travel(p, q) <= m * Sampling.step /\ Travel(p, q) \in Nat
  BY SubdivisionsAre, TravelIs
<1>2. \A j \in Joints : (q[j] - p[j]) % m = 0
  OBVIOUS
<1>3. \A j \in Joints : Distance(p[j], q[j]) <= Travel(p, q)
  BY TravelIs
<1> HIDE DEF m
<1>4. PICK i \in 0 .. m : -n <= 2 * (m * k - i * n) /\ 2 * (m * k - i * n) <= n
  BY <1>1, Nearest
<1>5. ASSUME NEW j \in Joints
      PROVE  2 * Distance(p[j] * n + (q[j] - p[j]) * k, Between(p, q, i, m)[j] * n) <= Sampling.step * n
  <2>1. p[j] \in Int /\ q[j] \in Int
    BY DEF Positions
  <2> DEFINE a == p[j]
             d == q[j] - p[j]
  <2>2. a \in Int /\ d \in Int /\ d % m = 0 /\ i \in Nat /\ k \in Nat
    BY <1>2, <2>1
  <2>3. Between(p, q, i, m)[j] = a + (d * i) \div m
    BY DEF Between
  <2>4. d <= m * Sampling.step /\ -(m * Sampling.step) <= d
    <3>3. /\ Distance(p[j], q[j]) \in Nat
          /\ p[j] - q[j] <= Distance(p[j], q[j]) /\ q[j] - p[j] <= Distance(p[j], q[j])
      BY <2>1, DistanceIs
    <3>1. d <= Distance(p[j], q[j]) /\ -d <= Distance(p[j], q[j]) /\ Distance(p[j], q[j]) \in Nat
      BY <2>1, <3>3
    <3>2. m * Sampling.step \in Int
      BY <1>1, SamplingNumbers
    <3> QED
      BY <1>1, <1>3, <2>2, <3>1, <3>2
  <2>5. p[j] * n + (q[j] - p[j]) * k = a * n + d * k
    OBVIOUS
  <2> HIDE DEF a, d
  <2>6. PICK e \in Int : d = m * e /\ (d * i) \div m = e * i
    BY <1>1, <2>2, ExactPiece
  <2>7. 2 * Distance(a * n + d * k, (a + e * i) * n) <= Sampling.step * n
    BY <1>1, <1>4, <2>2, <2>4, <2>6, SamplingNumbers, NearInOne
  <2> QED
    BY <2>3, <2>5, <2>6, <2>7
<1>6. Near(p, q, k, n, Between(p, q, i, m))
  BY <1>5 DEF Near
<1> QED
  BY <1>6 DEF m

--------------------------------------------------------------------------------
(* Times of the points. *)

LEMMA SlownessIs ==
    ASSUME NEW j \in Joints
    PROVE  ReferenceOf(j).slowness \in Int
<1>1. PICK i \in DOMAIN Chain : Chain[i].kind = "revolute" /\ Chain[i].name = j
  BY CatalogAssumption DEF CatalogShape
<1>2. \A k \in DOMAIN Chain : Chain[k].name = j => k = i
  BY <1>1, CatalogAssumption DEF CatalogShape
<1>3. (CHOOSE k \in DOMAIN Chain : Chain[k].name = j) = i
  BY <1>1, <1>2
<1> QED
  BY <1>1, <1>3, ArmAssumption DEF ReferenceOf

\* The numbers of a timing configuration.
TimingNumbers(t) ==
    /\ t.slow \in Int /\ t.minimum \in Int /\ t.maximum \in Int /\ t.points \in Int
    /\ TimingShape(t)

\* A segment takes at least the minimum and as long as each of its joints.
LEMMA SegmentTimeIs ==
    ASSUME NEW p \in Positions, NEW q \in Positions, NEW t, TimingNumbers(t)
    PROVE  /\ SegmentTime(p, q, t) \in Int /\ t.minimum <= SegmentTime(p, q, t)
           /\ \A j \in Joints :
                 Distance(p[j], q[j]) * ReferenceOf(j).slowness * t.slow <= SegmentTime(p, q, t)
<1> DEFINE cost(j) == Distance(p[j], q[j]) * ReferenceOf(j).slowness * t.slow
           f == [j \in Joints |-> cost(j)]
           T == {cost(j) : j \in Joints}
<1>1. \A j \in Joints : cost(j) \in Int
  <2> TAKE j \in Joints
  <2>1. p[j] \in Int /\ q[j] \in Int
    BY DEF Positions
  <2>3. Distance(p[j], q[j]) \in Nat
    BY <2>1, DistanceIs
  <2>4. ReferenceOf(j).slowness \in Int
    BY SlownessIs
  <2>2. Distance(p[j], q[j]) \in Int /\ ReferenceOf(j).slowness \in Int /\ t.slow \in Int
    BY <2>3, <2>4 DEF TimingNumbers
  <2> QED
    BY <2>2
<1>2. f \in [Joints -> Int] /\ \A j \in Joints : f[j] = cost(j)
  BY <1>1
<1>3. \A y : y \in T <=> \E j \in Joints : y = f[j]
  BY <1>2
<1> DEFINE U == {t.minimum, Max(T)}
<1>4. SegmentTime(p, q, t) = Max(U)
  BY DEF SegmentTime
<1>5. \A y : y \in U <=> y = t.minimum \/ y = Max(T)
  OBVIOUS
<1> HIDE DEF f, T
<1>6. Max(T) \in Int /\ \A j \in Joints : f[j] <= Max(T)
  BY <1>2, <1>3, MaxOver, ArmAssumption
<1> HIDE DEF U
<1>7. (Max(U) = t.minimum \/ Max(U) = Max(T)) /\ t.minimum <= Max(U) /\ Max(T) <= Max(U)
  <2>1. t.minimum \in Int
    BY DEF TimingNumbers
  <2> QED
    BY <1>5, <1>6, <2>1, PairMax
<1>8. Max(U) \in Int /\ t.minimum \in Int
  BY <1>6, <1>7 DEF TimingNumbers
<1>9. \A j \in Joints : cost(j) <= Max(U)
  <2> HIDE DEF cost
  <2> QED
    BY <1>1, <1>2, <1>6, <1>7, <1>8
<1> QED
  BY <1>4, <1>7, <1>8, <1>9

\* The recursion that adds up the durations c has a solution.
Adds(f, L, c) ==
    f = [i \in 1 .. L |-> IF i = 1 THEN 0 ELSE f[i - 1] + c[i]]

LEMMA AddsExists ==
    ASSUME NEW L \in Nat, NEW c
    PROVE  \E f : Adds(f, L, c)
<1> DEFINE Bad == {n \in Nat : ~ \E f : Adds(f, n, c)}
<1>1. ASSUME NEW n \in Bad, \A k \in Bad : n <= k PROVE FALSE
  <2>1. n \in Nat /\ ~ \E f : Adds(f, n, c)
    OBVIOUS
  <2>2. CASE n = 0
    <3> DEFINE f == [i \in 1 .. 0 |-> 0]
    <3>1. 1 .. 0 = {}
      OBVIOUS
    <3>2. f = [i \in 1 .. 0 |-> IF i = 1 THEN 0 ELSE f[i - 1] + c[i]]
      BY <3>1
    <3>3. Adds(f, n, c)
      BY <2>2, <3>2 DEF Adds
    <3> QED
      BY <2>1, <3>3
  <2>3. CASE n > 0
    <3>1. n - 1 \in Nat /\ ~(n <= n - 1)
      BY <2>1, <2>3
    <3>2. n - 1 \notin Bad
      BY <1>1, <3>1
    <3>3. PICK g : Adds(g, n - 1, c)
      BY <3>1, <3>2
    <3> DEFINE f == [i \in 1 .. n |-> IF i = 1 THEN 0 ELSE g[i - 1] + c[i]]
    <3>4. \A i \in 1 .. n - 1 : g[i] = IF i = 1 THEN 0 ELSE g[i - 1] + c[i]
      <4>1. DOMAIN g = 1 .. n - 1 /\ g = [i \in 1 .. n - 1 |-> IF i = 1 THEN 0 ELSE g[i - 1] + c[i]]
        BY <3>3 DEF Adds
      <4> QED
        BY <4>1
    <3>5. \A i \in 1 .. n - 1 : f[i] = g[i]
      BY <2>1, <3>4
    <3>6. \A i \in 1 .. n : i # 1 => f[i - 1] = g[i - 1]
      <4> HIDE DEF f
      <4> TAKE i \in 1 .. n
      <4> HAVE i # 1
      <4>1. i - 1 \in 1 .. n - 1
        BY <2>1
      <4> QED
        BY <3>5, <4>1
    <3>7. f = [i \in 1 .. n |-> IF i = 1 THEN 0 ELSE f[i - 1] + c[i]]
      BY <3>6
    <3>8. Adds(f, n, c)
      <4> HIDE DEF f
      <4> QED
        BY <3>7 DEF Adds
    <3> QED
      BY <2>1, <3>8
  <2> QED
    BY <2>1, <2>2, <2>3
<1>2. Bad = {}
  <2> HIDE DEF Bad
  <2>1. Bad \subseteq Nat
    BY DEF Bad
  <2> QED
    BY <1>1, <2>1, LeastNumber
<1> QED
  BY <1>2

LEMMA PointTimesAre ==
    ASSUME NEW L \in Nat, NEW points, DOMAIN points = 1 .. L,
           \A i \in 1 .. L : points[i] \in Positions,
           NEW t, TimingNumbers(t)
    PROVE  /\ DOMAIN PointTimes(points, t) = 1 .. L
           /\ \A i \in 1 .. L : PointTimes(points, t)[i] \in Nat
           /\ L >= 1 => PointTimes(points, t)[1] = 0
           /\ \A i \in 2 .. L :
                 /\ SegmentTime(points[i - 1], points[i], t) \in Nat
                 /\ PointTimes(points, t)[i]
                       = PointTimes(points, t)[i - 1] + SegmentTime(points[i - 1], points[i], t)
<1> DEFINE at == PointTimes(points, t)
           c == [i \in 1 .. L |-> SegmentTime(points[i - 1], points[i], t)]
<1>1. at = CHOOSE f : f = [i \in 1 .. L |-> IF i = 1 THEN 0
                                            ELSE f[i - 1] + SegmentTime(points[i - 1], points[i], t)]
  BY DEF PointTimes
<1>2. \E f : f = [i \in 1 .. L |-> IF i = 1 THEN 0
                                   ELSE f[i - 1] + SegmentTime(points[i - 1], points[i], t)]
  <2>1. PICK f : Adds(f, L, c)
    BY AddsExists
  <2>2. f = [i \in 1 .. L |-> IF i = 1 THEN 0 ELSE f[i - 1] + c[i]]
    BY <2>1 DEF Adds
  <2>3. \A i \in 1 .. L : c[i] = SegmentTime(points[i - 1], points[i], t)
    OBVIOUS
  <2> HIDE DEF c
  <2>4. f = [i \in 1 .. L |-> IF i = 1 THEN 0
                              ELSE f[i - 1] + SegmentTime(points[i - 1], points[i], t)]
    BY <2>2, <2>3
  <2> QED
    BY <2>4
<1>3. at = [i \in 1 .. L |-> IF i = 1 THEN 0
                             ELSE at[i - 1] + SegmentTime(points[i - 1], points[i], t)]
  <2> HIDE DEF at
  <2> QED
    BY <1>1, <1>2
<1> HIDE DEF at, c
<1>4. DOMAIN at = 1 .. L /\ (L >= 1 => at[1] = 0)
  <2>1. DOMAIN at = 1 .. L
    BY <1>3
  <2>2. ASSUME L >= 1 PROVE at[1] = 0
    <3>1. 1 \in 1 .. L
      BY <2>2
    <3> QED
      BY <1>3, <3>1
  <2> QED
    BY <2>1, <2>2
<1>5. ASSUME NEW i \in 2 .. L
      PROVE  /\ i \in 1 .. L /\ i - 1 \in 1 .. L
             /\ SegmentTime(points[i - 1], points[i], t) \in Nat
             /\ at[i] = at[i - 1] + SegmentTime(points[i - 1], points[i], t)
  <2>1. i \in 1 .. L /\ i - 1 \in 1 .. L /\ i # 1
    OBVIOUS
  <2>2. points[i - 1] \in Positions /\ points[i] \in Positions
    BY <2>1
  <2>3. SegmentTime(points[i - 1], points[i], t) \in Int
        /\ t.minimum <= SegmentTime(points[i - 1], points[i], t)
    BY <2>2, SegmentTimeIs
  <2>4. t.minimum > 0 /\ t.minimum \in Int
    BY DEF TimingNumbers, TimingShape
  <2>5. at[i] = at[i - 1] + SegmentTime(points[i - 1], points[i], t)
    BY <1>3, <2>1
  <2> QED
    BY <2>1, <2>3, <2>4, <2>5
<1> DEFINE Bad == {i \in Nat : i \in 1 .. L /\ at[i] \notin Nat}
<1>6. ASSUME NEW i \in Bad, \A k \in Bad : i <= k PROVE FALSE
  <2>1. i \in 1 .. L /\ at[i] \notin Nat
    OBVIOUS
  <2>2. i # 1
    BY <1>4, <2>1
  <2>3. i \in 2 .. L
    BY <2>1, <2>2
  <2>4. i - 1 \in Nat /\ ~(i <= i - 1) /\ i - 1 \in 1 .. L
    BY <2>1, <2>3
  <2>5. at[i - 1] \in Nat
    BY <1>6, <2>4
  <2> QED
    BY <1>5, <2>1, <2>3, <2>5
<1>7. Bad = {}
  <2> HIDE DEF Bad
  <2>1. Bad \subseteq Nat
    BY DEF Bad
  <2> QED
    BY <1>6, <2>1, LeastNumber
<1>8. \A i \in 1 .. L : at[i] \in Nat
  BY <1>7
<1> QED
  BY <1>4, <1>5, <1>8 DEF at

--------------------------------------------------------------------------------
(* The reviewed documents. *)

\* The timed trajectory over the waypoints of r.
TimedPath(r, t) ==
    [timing |-> t,
     points |-> [i \in DOMAIN Waypoints(r) |-> [at |-> PointTimes(Waypoints(r), t)[i], q |-> Waypoints(r)[i]]]]

\* Every waypoint of r is free in the scene of r.
PathIsFree(r) ==
    \A i \in DOMAIN Waypoints(r) : ~HitsItself(Waypoints(r)[i]) /\ ~HitsScene(Waypoints(r)[i], r.scene)

\* Positive evidence is about the waypoints of the request, and they are free.
EvidenceHolds(r, e) ==
    e.status = "collision_free" => e.waypoints = Waypoints(r) /\ PathIsFree(r)

Planned(d) ==
    d.decision # Absent =>
        /\ d.request \in Requests
        /\ d.decision.disposition = PlanDecision(d.decision.evidence)
        /\ EvidenceHolds(d.request, d.decision.evidence)

Scheduled(d) ==
    d.trajectory # Absent =>
        /\ d.request \in Requests
        /\ d.trajectory.timing \in Timings /\ TimingShape(d.trajectory.timing)
        /\ Schedules(Waypoints(d.request), d.trajectory.timing)
        /\ d.trajectory = TimedPath(d.request, d.trajectory.timing)
        /\ d.decision # Absent => d.decision.evidence.status = "collision_free"

\* The one proposal, decision and result a review can end with.
ReviewedBy(evidence, kernel) ==
    LET proposal == [evidence |-> evidence, closed |-> TRUE]
    IN  SafetyResult(evidence, proposal, SafetyDecision(kernel, proposal), kernel)

Judged(d) ==
    d.safety # Absent =>
        /\ d.trajectory # Absent
        /\ \E kernel \in Kernels : d.safety = ReviewedBy(EvidenceOf(d), kernel)

Bound(d) ==
    d.handoff # Absent =>
        /\ d.safety # Absent
        /\ \E manager, binding :
              /\ BindingContext(d.safety, binding, manager)
              /\ d.handoff = HandoffDecision(d.safety, binding, manager)

Proved(d) ==
    /\ d.execution # Absent => d.handoff # Absent
    /\ d.proof # Absent =>
          /\ d.trajectory # Absent
          /\ DenseFits(d.trajectory.points)
          /\ d.proof = PreflightReport(PreflightInput(d.request, d.trajectory.points))

Documented(d) ==
    /\ DOMAIN d = DOMAIN NoDocuments
    /\ Planned(d) /\ Scheduled(d) /\ Judged(d) /\ Bound(d) /\ Proved(d)

--------------------------------------------------------------------------------
(* The waypoints of a request. *)

LEMMA RequestIs ==
    ASSUME NEW r \in Requests
    PROVE  /\ r.start \in Positions /\ r.goal \in Positions
           /\ r.config.step \in Nat /\ r.config.step > 0
<1>1. /\ r.start \in Poses /\ r.goal \in Poses /\ r.config \in Configurations
      /\ r.config.step > 0
  BY DEF Requests, RequestShape, ConfigurationShape
<1>2. r.config.step \in Int
  BY <1>1, ArmAssumption
<1> QED
  BY <1>1, <1>2, ArmAssumption DEF Positions

LEMMA BetweenIs ==
    ASSUME NEW p \in Positions, NEW q \in Positions, NEW i \in Nat, NEW n \in Nat, n >= 1
    PROVE  Between(p, q, i, n) \in Positions
<1>1. ASSUME NEW j \in Joints
      PROVE  p[j] + ((q[j] - p[j]) * i) \div n \in Int
  <2>1. p[j] \in Int /\ q[j] \in Int
    BY DEF Positions
  <2>2. (q[j] - p[j]) * i \in Int
    BY <2>1
  <2>3. ((q[j] - p[j]) * i) \div n \in Int
    BY <2>2
  <2> QED
    BY <2>1, <2>3
<1> QED
  BY <1>1 DEF Between, Positions

LEMMA WaypointsAre ==
    ASSUME NEW r \in Requests
    PROVE  \E n \in Nat :
              /\ n >= 1
              /\ DOMAIN Waypoints(r) = 1 .. n + 1 /\ Len(Waypoints(r)) = n + 1
              /\ \A i \in 1 .. n + 1 : Waypoints(r)[i] \in Positions
              /\ Waypoints(r)[1] = r.start /\ Waypoints(r)[n + 1] = r.goal
<1> DEFINE p == r.start
           q == r.goal
           n == Pieces(Travel(p, q), r.config.step)
<1>1. p \in Positions /\ q \in Positions /\ r.config.step \in Nat /\ r.config.step > 0
  BY RequestIs
<1>2. Travel(p, q) \in Nat
  BY <1>1, TravelIs
<1>3. n \in Nat /\ n >= 1
  BY <1>1, <1>2, PiecesAre
<1>4. Waypoints(r) = [i \in 1 .. n + 1 |-> Between(p, q, i - 1, n)]
  BY DEF Waypoints
<1> HIDE DEF n, p, q
<1>5. \A i \in 1 .. n + 1 : Waypoints(r)[i] = Between(p, q, i - 1, n) /\ i - 1 \in Nat
  BY <1>3, <1>4
<1>6. \A i \in 1 .. n + 1 : Waypoints(r)[i] \in Positions
  BY <1>1, <1>3, <1>5, BetweenIs
<1>7. DOMAIN Waypoints(r) = 1 .. n + 1
  BY <1>4
<1>8. Len(Waypoints(r)) = n + 1
  <2>1. Waypoints(r) \in Seq(Positions)
    <3>1. Waypoints(r) \in [1 .. n + 1 -> Positions]
      BY <1>4, <1>5, <1>6
    <3>2. n + 1 \in Nat
      BY <1>3
    <3> QED
      BY <3>1, <3>2
  <2> QED
    BY <1>3, <1>7, <2>1
<1>9. Waypoints(r)[1] = p /\ Waypoints(r)[n + 1] = q
  <2>1. 1 \in 1 .. n + 1 /\ n + 1 \in 1 .. n + 1 /\ 1 - 1 = 0 /\ (n + 1) - 1 = n
    BY <1>3
  <2>2. Waypoints(r)[1] = Between(p, q, 0, n) /\ Waypoints(r)[n + 1] = Between(p, q, n, n)
    BY <1>5, <2>1
  <2> QED
    BY <1>1, <1>3, <2>2, BetweenEnds
<1> QED
  BY <1>3, <1>6, <1>7, <1>8, <1>9 DEF p, q

--------------------------------------------------------------------------------
(* The stages of the review. *)

Fields == {"request", "evidence", "decision", "trajectory", "safety", "handoff", "execution", "proof"}

LEMMA FieldsAre == DOMAIN NoDocuments = Fields
  BY DEF NoDocuments, Fields

LEMMA InitDocumented ==
    ASSUME ReviewInit
    PROVE  Documented(doc)
  BY DEF ReviewInit, NoDocuments, Documented, Planned, Scheduled, Judged, Bound, Proved

LEMMA ReportPlanKeeps ==
    ASSUME Documented(doc), ReportPlan
    PROVE  Documented(doc')
<1>1. PICK r \in Requests, status \in Statuses, other \in Requests :
          LET report   == MoveItReport(other)
              positive == status = "collision_free"
              evidence == [status |-> status,
                           proof |-> IF positive THEN report ELSE Absent,
                           waypoints |-> IF positive THEN Waypoints(r) ELSE << >>]
          IN  /\ positive => ProofFromReport(r, report)
              /\ PlanEvidenceShape(r, evidence)
              /\ doc' = [Undecided(r) EXCEPT !.evidence = evidence,
                            !.decision = [disposition |-> PlanDecision(evidence), evidence |-> evidence]]
  BY DEF ReportPlan
<1> DEFINE evidence == [status |-> status,
                        proof |-> IF status = "collision_free" THEN MoveItReport(other) ELSE Absent,
                        waypoints |-> IF status = "collision_free" THEN Waypoints(r) ELSE << >>]
<1>2. evidence.status = status /\ (status = "collision_free" => evidence.waypoints = Waypoints(r))
  OBVIOUS
<1>3. /\ status = "collision_free" => ProofFromReport(r, MoveItReport(other))
      /\ doc' = [Undecided(r) EXCEPT !.evidence = evidence,
                    !.decision = [disposition |-> PlanDecision(evidence), evidence |-> evidence]]
  BY <1>1
<1> HIDE DEF evidence
<1>4. /\ DOMAIN doc' = Fields /\ doc'.request = r
      /\ doc'.decision.disposition = PlanDecision(evidence) /\ doc'.decision.evidence = evidence
      /\ doc'.trajectory = Absent /\ doc'.safety = Absent /\ doc'.handoff = Absent
      /\ doc'.execution = Absent /\ doc'.proof = Absent
  BY <1>3 DEF Undecided, NoDocuments, Fields
<1>5. ASSUME status = "collision_free" PROVE PathIsFree(r)
  <2> DEFINE report == MoveItReport(other)
             points == Waypoints(other)
  <2>1. PlanReported(report) /\ report.scene = r.scene /\ report.waypoints = Waypoints(r)
    BY <1>3, <1>5 DEF ProofFromReport
  <2>2. /\ report.waypoints = points /\ report.scene = other.scene
        /\ report.self_free = [i \in DOMAIN points |-> ~HitsItself(points[i])]
        /\ report.scene_free = [i \in DOMAIN points |-> ~HitsScene(points[i], other.scene)]
    BY DEF MoveItReport
  <2> HIDE DEF report, points
  <2>3. ASSUME NEW i \in DOMAIN Waypoints(r)
        PROVE  ~HitsItself(Waypoints(r)[i]) /\ ~HitsScene(Waypoints(r)[i], r.scene)
    <3>1. i \in DOMAIN points /\ points[i] = Waypoints(r)[i] /\ other.scene = r.scene
      BY <2>1, <2>2
    <3>2. report.self_free[i] /\ report.scene_free[i]
      BY <2>1 DEF PlanReported
    <3>3. report.self_free[i] = ~HitsItself(points[i])
      BY <2>2, <3>1
    <3>4. report.scene_free[i] = ~HitsScene(points[i], other.scene)
      BY <2>2, <3>1
    <3> QED
      BY <3>1, <3>2, <3>3, <3>4
  <2> QED
    BY <2>3 DEF PathIsFree
<1>6. EvidenceHolds(r, evidence)
  BY <1>2, <1>5 DEF EvidenceHolds
<1>7. Planned(doc')
  BY <1>4, <1>6 DEF Planned
<1>8. Scheduled(doc') /\ Judged(doc') /\ Bound(doc') /\ Proved(doc')
  BY <1>4 DEF Scheduled, Judged, Bound, Proved
<1> QED
  BY <1>4, <1>7, <1>8, FieldsAre DEF Documented

LEMMA TimeTrajectoryKeeps ==
    ASSUME Documented(doc), TimeTrajectory
    PROVE  Documented(doc')
<1>1. PICK t \in Timings :
          /\ TrajectoryRequestShape(doc.decision, t)
          /\ Schedules(doc.decision.evidence.waypoints, t)
          /\ doc' = [doc EXCEPT !.trajectory = TrajectoryOf(doc.decision, t)]
  BY DEF TimeTrajectory
<1>2. doc.decision # Absent /\ doc.trajectory = Absent
  BY DEF TimeTrajectory
<1>3. /\ DOMAIN doc' = Fields /\ doc'.request = doc.request /\ doc'.decision = doc.decision
      /\ doc'.trajectory = TrajectoryOf(doc.decision, t)
      /\ doc'.safety = doc.safety /\ doc'.handoff = doc.handoff
      /\ doc'.execution = doc.execution /\ doc'.proof = doc.proof
  BY <1>1, FieldsAre DEF Documented, Fields
<1>4. /\ doc.request \in Requests /\ doc.decision.evidence.status = "collision_free"
      /\ doc.decision.evidence.waypoints = Waypoints(doc.request) /\ TimingShape(t)
  BY <1>1, <1>2 DEF Documented, Planned, EvidenceHolds, TrajectoryRequestShape
<1>5. doc'.trajectory = TimedPath(doc.request, t) /\ doc'.trajectory.timing = t
  BY <1>3, <1>4 DEF TrajectoryOf, TimedPath
<1>6. doc.safety = Absent /\ doc.handoff = Absent /\ doc.execution = Absent /\ doc.proof = Absent
  BY <1>2 DEF Documented, Judged, Bound, Proved
<1>7. Planned(doc')
  BY <1>3 DEF Documented, Planned
<1>8. Scheduled(doc')
  BY <1>1, <1>3, <1>4, <1>5 DEF Scheduled
<1>9. Judged(doc') /\ Bound(doc') /\ Proved(doc')
  BY <1>3, <1>6 DEF Judged, Bound, Proved
<1> QED
  BY <1>3, <1>7, <1>8, <1>9, FieldsAre DEF Documented

\* The stages after the trajectory leave the lineage as it is.
LEMMA LaterStage ==
    ASSUME Documented(doc), DOMAIN doc' = Fields,
           doc'.request = doc.request, doc'.decision = doc.decision, doc'.trajectory = doc.trajectory
    PROVE  Planned(doc') /\ Scheduled(doc') /\ EvidenceOf(doc') = EvidenceOf(doc)
<1>1. Planned(doc')
  BY DEF Documented, Planned
<1>2. Scheduled(doc')
  BY DEF Documented, Scheduled
<1> QED
  BY <1>1, <1>2 DEF EvidenceOf

LEMMA ReviewSafetyKeeps ==
    ASSUME Documented(doc), ReviewSafety
    PROVE  Documented(doc')
<1> DEFINE E == EvidenceOf(doc)
<1>1. PICK kernel \in Kernels, decider \in Kernels, proposal \in Proposals, decided \in Proposals :
          /\ SafetyContext(E, proposal, SafetyDecision(decider, decided), kernel)
          /\ doc' = [doc EXCEPT !.safety = SafetyResult(E, proposal, SafetyDecision(decider, decided), kernel)]
  BY DEF ReviewSafety
<1>2. doc.trajectory # Absent /\ doc.safety = Absent
  BY DEF ReviewSafety
<1>3. proposal = [evidence |-> E, closed |-> TRUE]
  <2>1. proposal.closed /\ proposal.evidence = E
    BY <1>1 DEF SafetyContext, ExactProposal
  <2>2. proposal \in [evidence : {EvidenceOf(doc), OtherEvidence}, closed : BOOLEAN]
    BY DEF Proposals
  <2>3. proposal = [evidence |-> proposal.evidence, closed |-> proposal.closed] /\ proposal.closed \in BOOLEAN
    BY <2>2
  <2>4. proposal.closed = TRUE
    BY <2>1, <2>3
  <2> QED
    BY <2>1, <2>3, <2>4
<1>4. SafetyDecision(decider, decided) = SafetyDecision(kernel, proposal)
  BY <1>1 DEF SafetyContext
<1>5. doc' = [doc EXCEPT !.safety = ReviewedBy(E, kernel)]
  BY <1>1, <1>3, <1>4 DEF ReviewedBy
<1> HIDE DEF E
<1>6. /\ DOMAIN doc' = Fields /\ doc'.request = doc.request /\ doc'.decision = doc.decision
      /\ doc'.trajectory = doc.trajectory /\ doc'.safety = ReviewedBy(E, kernel)
      /\ doc'.handoff = doc.handoff /\ doc'.execution = doc.execution /\ doc'.proof = doc.proof
  BY <1>5, FieldsAre DEF Documented, Fields
<1>7. doc.handoff = Absent /\ doc.execution = Absent
  BY <1>2 DEF Documented, Bound, Proved
<1>8. Planned(doc') /\ Scheduled(doc') /\ EvidenceOf(doc') = E
  BY <1>6, LaterStage DEF E
<1>9. Judged(doc')
  BY <1>2, <1>6, <1>8 DEF Judged
<1>10. Bound(doc') /\ Proved(doc')
  BY <1>6, <1>7 DEF Documented, Bound, Proved
<1> QED
  BY <1>6, <1>8, <1>9, <1>10, FieldsAre DEF Documented

LEMMA HandOffKeeps ==
    ASSUME Documented(doc), HandOff
    PROVE  Documented(doc')
<1>1. PICK manager \in Managers, binder \in Managers, bound \in Proposals, kernel \in Kernels :
          /\ BindingContext(doc.safety, BindingOf(binder, SafetyDecision(kernel, bound)), manager)
          /\ doc' = [doc EXCEPT !.handoff =
                        HandoffDecision(doc.safety, BindingOf(binder, SafetyDecision(kernel, bound)), manager)]
  BY DEF HandOff
<1> DEFINE binding == BindingOf(binder, SafetyDecision(kernel, bound))
<1>2. /\ BindingContext(doc.safety, binding, manager)
      /\ doc' = [doc EXCEPT !.handoff = HandoffDecision(doc.safety, binding, manager)]
  BY <1>1
<1>3. doc.safety # Absent /\ doc.handoff = Absent
  BY DEF HandOff
<1> HIDE DEF binding
<1>4. /\ DOMAIN doc' = Fields /\ doc'.request = doc.request /\ doc'.decision = doc.decision
      /\ doc'.trajectory = doc.trajectory /\ doc'.safety = doc.safety
      /\ doc'.handoff = HandoffDecision(doc.safety, binding, manager)
      /\ doc'.execution = doc.execution /\ doc'.proof = doc.proof
  BY <1>2, FieldsAre DEF Documented, Fields
<1>5. Planned(doc') /\ Scheduled(doc') /\ EvidenceOf(doc') = EvidenceOf(doc)
  BY <1>4, LaterStage
<1>6. Judged(doc')
  BY <1>4, <1>5 DEF Documented, Judged
<1>7. Bound(doc')
  BY <1>2, <1>3, <1>4 DEF Bound
<1>8. doc.execution = Absent
  BY <1>3 DEF Documented, Proved
<1>9. Proved(doc')
  BY <1>4, <1>8 DEF Documented, Proved
<1> QED
  BY <1>4, <1>5, <1>6, <1>7, <1>9, FieldsAre DEF Documented

LEMMA RequestExecutionKeeps ==
    ASSUME Documented(doc), RequestExecution
    PROVE  Documented(doc')
<1>1. doc.handoff # Absent /\ doc' = [doc EXCEPT !.execution = Sampling]
  BY DEF RequestExecution
<1>2. /\ DOMAIN doc' = Fields /\ doc'.request = doc.request /\ doc'.decision = doc.decision
      /\ doc'.trajectory = doc.trajectory /\ doc'.safety = doc.safety
      /\ doc'.handoff = doc.handoff /\ doc'.proof = doc.proof
  BY <1>1, FieldsAre DEF Documented, Fields
<1>3. Planned(doc') /\ Scheduled(doc') /\ EvidenceOf(doc') = EvidenceOf(doc)
  BY <1>2, LaterStage
<1>4. Judged(doc') /\ Bound(doc')
  BY <1>2, <1>3 DEF Documented, Judged, Bound
<1>5. Proved(doc')
  BY <1>1, <1>2 DEF Documented, Proved
<1> QED
  BY <1>2, <1>3, <1>4, <1>5, FieldsAre DEF Documented

LEMMA ProveDenseKeeps ==
    ASSUME Documented(doc), ProveDense
    PROVE  Documented(doc')
<1>1. PICK scene \in Scenes :
          LET report == PreflightReport(PreflightInput([doc.request EXCEPT !.scene = scene],
                                                       doc.trajectory.points))
          IN  /\ CollisionProofFrom(doc.request, doc.trajectory.points, report)
              /\ doc' = [doc EXCEPT !.proof = report]
  BY DEF ProveDense
<1> DEFINE input == PreflightInput([doc.request EXCEPT !.scene = scene], doc.trajectory.points)
<1>2. /\ CollisionProofFrom(doc.request, doc.trajectory.points, PreflightReport(input))
      /\ doc' = [doc EXCEPT !.proof = PreflightReport(input)]
  BY <1>1
<1> HIDE DEF input
<1>3. input = PreflightInput(doc.request, doc.trajectory.points)
  BY <1>2 DEF CollisionProofFrom, PreflightReport
<1>4. doc.trajectory # Absent /\ DenseFits(doc.trajectory.points)
  BY DEF ProveDense, Documented, Judged, Bound, Proved
<1>5. /\ DOMAIN doc' = Fields /\ doc'.request = doc.request /\ doc'.decision = doc.decision
      /\ doc'.trajectory = doc.trajectory /\ doc'.safety = doc.safety
      /\ doc'.handoff = doc.handoff /\ doc'.execution = doc.execution
      /\ doc'.proof = PreflightReport(input)
  BY <1>2, FieldsAre DEF Documented, Fields
<1>6. Planned(doc') /\ Scheduled(doc') /\ EvidenceOf(doc') = EvidenceOf(doc)
  BY <1>5, LaterStage
<1>7. Judged(doc') /\ Bound(doc')
  BY <1>5, <1>6 DEF Documented, Judged, Bound
<1>8. Proved(doc')
  BY <1>3, <1>4, <1>5 DEF Documented, Proved
<1> QED
  BY <1>5, <1>6, <1>7, <1>8, FieldsAre DEF Documented

\* What a program keeps is still as it was reviewed.
LEMMA KeptDocumented ==
    ASSUME Documented(doc), NEW d, d = KeptDocuments(doc)
    PROVE  /\ Documented(d)
           /\ d.request = doc.request /\ d.trajectory = doc.trajectory /\ d.proof = doc.proof
<1>1. /\ DOMAIN d = Fields /\ d.request = doc.request /\ d.trajectory = doc.trajectory
      /\ d.proof = doc.proof /\ d.decision = Absent /\ d.safety = Absent /\ d.handoff = Absent
      /\ d.execution = Absent
  BY DEF KeptDocuments, NoDocuments, Fields
<1>2. Planned(d) /\ Judged(d) /\ Bound(d)
  BY <1>1 DEF Planned, Judged, Bound
<1>3. Scheduled(d)
  BY <1>1 DEF Documented, Scheduled
<1>4. Proved(d)
  BY <1>1 DEF Documented, Proved
<1> QED
  BY <1>1, <1>2, <1>3, <1>4, FieldsAre DEF Documented

LEMMA ReviewNextKeeps ==
    ASSUME Documented(doc), ReviewNext
    PROVE  Documented(doc')
  BY ReportPlanKeeps, TimeTrajectoryKeeps, ReviewSafetyKeeps, HandOffKeeps, RequestExecutionKeeps,
     ProveDenseKeeps DEF ReviewNext

--------------------------------------------------------------------------------
(* What the reviewed documents say. *)

\* The trajectory of a reviewed request, point by point.
LEMMA TrajectoryIs ==
    ASSUME Documented(doc), doc.trajectory # Absent
    PROVE  \E n \in Nat :
              /\ n >= 1 /\ Len(doc.trajectory.points) = n + 1 /\ DOMAIN doc.trajectory.points = 1 .. n + 1
              /\ TimingNumbers(doc.trajectory.timing)
              /\ doc.request \in Requests
              /\ DOMAIN Waypoints(doc.request) = 1 .. n + 1 /\ Len(Waypoints(doc.request)) = n + 1
              /\ \A i \in 1 .. n + 1 :
                    /\ doc.trajectory.points[i].q = Waypoints(doc.request)[i]
                    /\ doc.trajectory.points[i].q \in Positions
                    /\ ValidPositions(doc.trajectory.points[i].q)
                    /\ doc.trajectory.points[i].at
                          = PointTimes(Waypoints(doc.request), doc.trajectory.timing)[i]
                    /\ doc.trajectory.points[i].at \in Nat
              /\ doc.trajectory.points[1].at = 0
              /\ doc.trajectory.points[1].q = doc.request.start
              /\ doc.trajectory.points[n + 1].q = doc.request.goal
              /\ \A i \in 2 .. n + 1 :
                    LET time == SegmentTime(doc.trajectory.points[i - 1].q, doc.trajectory.points[i].q,
                                            doc.trajectory.timing)
                    IN  /\ doc.trajectory.points[i].at = doc.trajectory.points[i - 1].at + time
                        /\ time \in Nat
                        /\ time <= doc.trajectory.timing.maximum - doc.trajectory.points[i - 1].at
                        /\ Travel(doc.trajectory.points[i - 1].q, doc.trajectory.points[i].q) > 0
<1> DEFINE r == doc.request
           t == doc.trajectory.timing
           w == Waypoints(r)
           points == doc.trajectory.points
<1>1. /\ r \in Requests /\ t \in Timings /\ TimingShape(t) /\ Schedules(w, t)
      /\ doc.trajectory = TimedPath(r, t)
  BY DEF Documented, Scheduled
<1>2. TimingNumbers(t)
  BY <1>1, ArmAssumption DEF TimingNumbers
<1>3. points = [i \in DOMAIN w |-> [at |-> PointTimes(w, t)[i], q |-> w[i]]]
  <2>1. doc.trajectory.points = TimedPath(r, t).points
    BY <1>1
  <2> QED
    BY <2>1 DEF TimedPath
<1>4. PICK n \in Nat :
         /\ n >= 1 /\ DOMAIN w = 1 .. n + 1 /\ Len(w) = n + 1
         /\ \A i \in 1 .. n + 1 : w[i] \in Positions
         /\ w[1] = r.start /\ w[n + 1] = r.goal
  BY <1>1, WaypointsAre
<1> HIDE DEF r, t, w, points
<1>5. Len(points) = n + 1 /\ DOMAIN points = 1 .. n + 1
  <2>1. DOMAIN points = 1 .. n + 1 /\ n + 1 \in Nat
    BY <1>3, <1>4
  <2> DEFINE S == {points[i] : i \in 1 .. n + 1}
  <2>2. points \in [1 .. n + 1 -> S]
    BY <1>3, <2>1
  <2> HIDE DEF S
  <2>3. points \in Seq(S)
    BY <2>1, <2>2
  <2> QED
    BY <2>1, <2>3
<1>6. \A i \in 1 .. n + 1 : points[i].q = w[i] /\ points[i].at = PointTimes(w, t)[i]
  BY <1>3, <1>4
<1>7. /\ \A i \in 1 .. n + 1 : PointTimes(w, t)[i] \in Nat
      /\ PointTimes(w, t)[1] = 0
      /\ \A i \in 2 .. n + 1 :
            /\ SegmentTime(w[i - 1], w[i], t) \in Nat
            /\ PointTimes(w, t)[i] = PointTimes(w, t)[i - 1] + SegmentTime(w[i - 1], w[i], t)
  <2>1. n + 1 \in Nat /\ n + 1 >= 1
    BY <1>4
  <2> QED
    BY <1>2, <1>4, <2>1, PointTimesAre
<1>8. /\ \A i \in 1 .. n + 1 : ValidPositions(w[i])
      /\ \A i \in 2 .. n + 1 :
            /\ Travel(w[i - 1], w[i]) > 0
            /\ SegmentTime(w[i - 1], w[i], t) <= t.maximum - PointTimes(w, t)[i - 1]
  BY <1>1, <1>4 DEF Schedules
<1>9. 1 \in 1 .. n + 1 /\ n + 1 \in 1 .. n + 1 /\ \A i \in 2 .. n + 1 : i \in 1 .. n + 1 /\ i - 1 \in 1 .. n + 1
  BY <1>4
<1>10. \A i \in 1 .. n + 1 :
          /\ points[i].q = w[i] /\ points[i].q \in Positions /\ ValidPositions(points[i].q)
          /\ points[i].at = PointTimes(w, t)[i] /\ points[i].at \in Nat
  BY <1>4, <1>6, <1>7, <1>8
<1>11. points[1].at = 0 /\ points[1].q = r.start /\ points[n + 1].q = r.goal
  BY <1>4, <1>6, <1>7, <1>9
<1>12. ASSUME NEW i \in 2 .. n + 1
       PROVE  /\ points[i].at = points[i - 1].at + SegmentTime(points[i - 1].q, points[i].q, t)
              /\ SegmentTime(points[i - 1].q, points[i].q, t) \in Nat
              /\ SegmentTime(points[i - 1].q, points[i].q, t) <= t.maximum - points[i - 1].at
              /\ Travel(points[i - 1].q, points[i].q) > 0
  <2>1. /\ points[i].q = w[i] /\ points[i - 1].q = w[i - 1]
        /\ points[i].at = PointTimes(w, t)[i] /\ points[i - 1].at = PointTimes(w, t)[i - 1]
    BY <1>6, <1>9
  <2> QED
    BY <1>7, <1>8, <2>1
<1> QED
  BY <1>1, <1>2, <1>4, <1>5, <1>10, <1>11, <1>12 DEF r, t, w, points

LEMMA LimitsKept ==
    ASSUME Documented(doc)
    PROVE  TrajectoryWithinLimits
<1> DEFINE points == doc.trajectory.points
           t == doc.trajectory.timing
           time(i) == SegmentTime(points[i - 1].q, points[i].q, t)
<1>1. ASSUME Timed
      PROVE  /\ points[1].q = doc.request.start /\ points[Len(points)].q = doc.request.goal
             /\ points[Len(points)].at <= t.maximum
             /\ \A i \in 2 .. Len(points) :
                   /\ points[i].at - points[i - 1].at >= t.minimum
                   /\ \A j \in Joints :
                         /\ ReferenceOf(j).lower <= points[i].q[j] /\ points[i].q[j] <= ReferenceOf(j).upper
                         /\ Distance(points[i].q[j], points[i - 1].q[j]) * ReferenceOf(j).slowness * t.slow
                               <= points[i].at - points[i - 1].at
  <2>1. doc.trajectory # Absent
    BY <1>1 DEF Timed
  <2>2. PICK n \in Nat :
           /\ n >= 1 /\ Len(points) = n + 1 /\ TimingNumbers(t)
           /\ \A i \in 1 .. n + 1 : points[i].q \in Positions /\ ValidPositions(points[i].q) /\ points[i].at \in Nat
           /\ points[1].q = doc.request.start /\ points[n + 1].q = doc.request.goal
           /\ \A i \in 2 .. n + 1 :
                 /\ points[i].at = points[i - 1].at + time(i)
                 /\ time(i) \in Nat /\ time(i) <= t.maximum - points[i - 1].at
    BY <2>1, TrajectoryIs
  <2> HIDE DEF points, t
  <2>3. ASSUME NEW i \in 2 .. n + 1
        PROVE  /\ points[i].at - points[i - 1].at >= t.minimum
               /\ points[i].at <= t.maximum
               /\ \A j \in Joints :
                     /\ ReferenceOf(j).lower <= points[i].q[j] /\ points[i].q[j] <= ReferenceOf(j).upper
                     /\ Distance(points[i].q[j], points[i - 1].q[j]) * ReferenceOf(j).slowness * t.slow
                           <= points[i].at - points[i - 1].at
    <3> DEFINE p == points[i - 1].q
               q == points[i].q
    <3>1. i \in 1 .. n + 1 /\ i - 1 \in 1 .. n + 1
      BY <2>2
    <3>2. /\ p \in Positions /\ q \in Positions /\ ValidPositions(q)
          /\ points[i].at \in Nat /\ points[i - 1].at \in Nat
      BY <2>2, <3>1
    <3>3. /\ points[i].at = points[i - 1].at + time(i)
          /\ time(i) \in Nat /\ time(i) <= t.maximum - points[i - 1].at
      BY <2>2
    <3>4. time(i) = SegmentTime(p, q, t)
      OBVIOUS
    <3>5. t.minimum \in Int /\ t.maximum \in Int
      BY <2>2 DEF TimingNumbers
    <3> HIDE DEF p, q, time
    <3>6. /\ t.minimum <= time(i)
          /\ \A j \in Joints : Distance(p[j], q[j]) * ReferenceOf(j).slowness * t.slow <= time(i)
      BY <2>2, <3>2, <3>4, SegmentTimeIs
    <3>7. points[i].at - points[i - 1].at = time(i) /\ points[i].at <= t.maximum
      BY <3>2, <3>3, <3>5
    <3>8. ASSUME NEW j \in Joints
          PROVE  /\ ReferenceOf(j).lower <= q[j] /\ q[j] <= ReferenceOf(j).upper
                 /\ Distance(q[j], p[j]) * ReferenceOf(j).slowness * t.slow <= time(i)
      <4>1. p[j] \in Int /\ q[j] \in Int
        BY <3>2 DEF Positions
      <4>2. Distance(p[j], q[j]) = Distance(q[j], p[j])
        BY <4>1, DistanceIs
      <4>3. ReferenceOf(j).lower <= q[j] /\ q[j] <= ReferenceOf(j).upper
        BY <3>2 DEF ValidPositions
      <4>4. Distance(p[j], q[j]) * ReferenceOf(j).slowness * t.slow <= time(i)
        BY <3>6
      <4> QED
        BY <4>2, <4>3, <4>4
    <3>9. t.minimum <= time(i) => time(i) >= t.minimum
      BY <3>3, <3>5
    <3> QED
      BY <3>6, <3>7, <3>8, <3>9 DEF p, q
  <2>4. points[n + 1].at <= t.maximum
    <3>1. n + 1 \in 2 .. n + 1
      BY <2>2
    <3> QED
      BY <2>3, <3>1
  <2> QED
    BY <2>2, <2>3, <2>4
<1> QED
  BY <1>1 DEF TrajectoryWithinLimits

LEMMA WaypointsFree ==
    ASSUME Documented(doc), Timed
    PROVE  /\ doc.request \in Requests /\ PathIsFree(doc.request)
           /\ doc.decision.evidence.status = "collision_free"
           /\ doc.decision.evidence.waypoints = Waypoints(doc.request)
  BY DEF Documented, Planned, Scheduled, EvidenceHolds, Timed

LEMMA FreeKept ==
    ASSUME Documented(doc)
    PROVE  WaypointsReallyFree
<1>1. ASSUME Timed, NEW i \in DOMAIN doc.trajectory.points
      PROVE  /\ ~HitsItself(doc.trajectory.points[i].q)
             /\ ~HitsScene(doc.trajectory.points[i].q, doc.request.scene)
  <2>1. PICK n \in Nat :
           /\ DOMAIN doc.trajectory.points = 1 .. n + 1
           /\ DOMAIN Waypoints(doc.request) = 1 .. n + 1
           /\ \A k \in 1 .. n + 1 : doc.trajectory.points[k].q = Waypoints(doc.request)[k]
    BY <1>1, TrajectoryIs DEF Timed
  <2>2. i \in DOMAIN Waypoints(doc.request) /\ doc.trajectory.points[i].q = Waypoints(doc.request)[i]
    BY <1>1, <2>1
  <2>3. PathIsFree(doc.request)
    BY <1>1, WaypointsFree
  <2> QED
    BY <2>2, <2>3 DEF PathIsFree
<1> QED
  BY <1>1 DEF WaypointsReallyFree

\* A safety result and a handoff for it construct.
LEMMA ReviewedShape ==
    ASSUME NEW evidence, NEW kernel \in Kernels, NEW s, s = ReviewedBy(evidence, kernel)
    PROVE  /\ SafetyResultShape(s)
           /\ s.evidence = evidence /\ s.kernel = kernel
           /\ s.decision = SafetyDecision(kernel, [evidence |-> evidence, closed |-> TRUE])
<1> DEFINE proposal == [evidence |-> evidence, closed |-> TRUE]
           decision == SafetyDecision(kernel, proposal)
           review == ReviewOf[kernel]
           eligible == review.disposition = "eligible" /\ review.hazard = "internal"
<1>1. review.disposition \in {"eligible", "approval", "deferred", "blocked"}
  BY ArmAssumption
<1>2. /\ s.evidence = evidence /\ s.proposal = proposal /\ s.decision = decision /\ s.kernel = kernel
      /\ s.reference = [review |-> decision.review, evidence |-> evidence]
      /\ s.status = IF decision.review.disposition = "eligible" /\ decision.review.hazard = "internal"
                    THEN "eligible" ELSE "ineligible"
      /\ s.reason = IF decision.review.disposition = "eligible" /\ decision.review.hazard = "internal"
                    THEN "safety_eligible"
                    ELSE CASE decision.review.disposition = "approval" -> "approval_required"
                           [] decision.review.disposition = "deferred" -> "deferred"
                           [] decision.review.disposition = "blocked"  -> "blocked"
                           [] decision.review.disposition = "eligible" -> "classification_mismatch"
  BY DEF ReviewedBy, SafetyResult
<1>3. decision.review = review
  BY DEF SafetyDecision
<1>4. SafetyContext(s.evidence, s.proposal, s.decision, s.kernel)
  BY <1>2 DEF SafetyContext, ExactProposal
<1>5. SafetyReferenceShape(s)
  BY <1>2 DEF SafetyReferenceShape
<1> HIDE DEF decision, review
<1>6. /\ s.reference.review = review
      /\ s.status = IF eligible THEN "eligible" ELSE "ineligible"
      /\ (s.reason = "safety_eligible") <=> eligible
      /\ (s.reason = "classification_mismatch") => review.disposition = "eligible" /\ review.hazard # "internal"
  <2>1. s.reference.review = review /\ s.status = IF eligible THEN "eligible" ELSE "ineligible"
    BY <1>2, <1>3
  <2>2. s.reason = IF eligible THEN "safety_eligible"
                   ELSE CASE review.disposition = "approval" -> "approval_required"
                          [] review.disposition = "deferred" -> "deferred"
                          [] review.disposition = "blocked"  -> "blocked"
                          [] review.disposition = "eligible" -> "classification_mismatch"
    BY <1>2, <1>3
  <2>3. CASE eligible
    BY <2>1, <2>2, <2>3
  <2>4. CASE ~eligible
    <3>1. \/ review.disposition = "approval" /\ s.reason = "approval_required"
          \/ review.disposition = "deferred" /\ s.reason = "deferred"
          \/ review.disposition = "blocked" /\ s.reason = "blocked"
          \/ review.disposition = "eligible" /\ s.reason = "classification_mismatch"
      BY <1>1, <2>2, <2>4
    <3> QED
      BY <2>1, <2>4, <3>1
  <2> QED
    BY <2>3, <2>4
<1> QED
  BY <1>2, <1>4, <1>5, <1>6 DEF SafetyResultShape, decision

LEMMA HandedShape ==
    ASSUME NEW s, SafetyResultShape(s), NEW binding, NEW manager, BindingContext(s, binding, manager),
           NEW h, h = HandoffDecision(s, binding, manager)
    PROVE  /\ HandoffShape(h) /\ h.safety = s /\ h.manager = manager /\ h.binding = binding
<1>1. CASE s.status # "eligible"
  <2>1. h = [safety |-> s, binding |-> binding, manager |-> manager, status |-> "ineligible",
             reason |-> "safety_ineligible", reference |-> Absent]
    BY <1>1 DEF HandoffDecision
  <2> QED
    BY <1>1, <2>1 DEF HandoffShape
<1>2. CASE s.status = "eligible" /\ ~SkillEligible(s, binding)
  <2>1. h = [safety |-> s, binding |-> binding, manager |-> manager, status |-> "ineligible",
             reason |-> "skill_ineligible", reference |-> Absent]
    BY <1>2 DEF HandoffDecision
  <2> QED
    BY <1>2, <2>1 DEF HandoffShape
<1>3. CASE s.status = "eligible" /\ SkillEligible(s, binding)
  <2>1. h = [safety |-> s, binding |-> binding, manager |-> manager, status |-> "eligible",
             reason |-> "handoff_eligible",
             reference |-> [skill |-> binding.skill, evidence |-> s.evidence, decision |-> s.decision]]
    BY <1>3 DEF HandoffDecision
  <2> QED
    BY <1>3, <2>1 DEF HandoffShape
<1> QED
  BY <1>1, <1>2, <1>3

LEMMA GroundedKept ==
    ASSUME Documented(doc)
    PROVE  HandoffGrounded
<1> SUFFICES ASSUME doc.handoff # Absent, doc.handoff.status = "eligible"
             PROVE  /\ doc.handoff.reference.evidence = EvidenceOf(doc)
                    /\ doc.handoff.safety.decision.proposal = [evidence |-> EvidenceOf(doc), closed |-> TRUE]
                    /\ ReviewOf[doc.handoff.manager.kernel] = [disposition |-> "eligible", hazard |-> "internal"]
                    /\ doc.handoff.reference.decision.kernel = doc.handoff.manager.kernel
                    /\ InertSkill(doc.handoff.manager.skill)
  BY DEF HandoffGrounded
<1> DEFINE E == EvidenceOf(doc)
           h == doc.handoff
           s == doc.safety
<1>1. doc.safety # Absent
  BY DEF Documented, Bound
<1>2. PICK kernel \in Kernels : s = ReviewedBy(E, kernel)
  BY <1>1 DEF Documented, Judged
<1>3. PICK manager, binding : BindingContext(s, binding, manager) /\ h = HandoffDecision(s, binding, manager)
  BY DEF Documented, Bound
<1> HIDE DEF E, s
<1>4. /\ SafetyResultShape(s) /\ s.evidence = E /\ s.kernel = kernel
      /\ s.decision = SafetyDecision(kernel, [evidence |-> E, closed |-> TRUE])
  BY <1>2, ReviewedShape
<1>5. /\ s.decision.kernel = kernel /\ s.decision.review = ReviewOf[kernel]
      /\ s.decision.proposal = [evidence |-> E, closed |-> TRUE]
  BY <1>4 DEF SafetyDecision
<1>6. HandoffShape(h) /\ h.safety = s /\ h.manager = manager /\ h.binding = binding
  BY <1>3, <1>4, HandedShape
<1>7. /\ s.status = "eligible" /\ SkillEligible(s, binding)
      /\ h.reference = [skill |-> binding.skill, evidence |-> s.evidence, decision |-> s.decision]
  BY <1>6 DEF HandoffShape
<1>8. manager.kernel = kernel /\ binding.skill = manager.skill
  BY <1>3, <1>4 DEF BindingContext
<1>9. ReviewOf[kernel].disposition = "eligible" /\ ReviewOf[kernel].hazard = "internal"
  BY <1>4, <1>5, <1>7 DEF SafetyResultShape, SafetyReferenceShape
<1>10. ReviewOf[kernel] = [disposition |-> "eligible", hazard |-> "internal"]
  <2>1. ReviewOf[kernel] \in [disposition : {"eligible", "approval", "deferred", "blocked"}, hazard : STRING]
    BY ArmAssumption
  <2>2. ReviewOf[kernel] = [disposition |-> ReviewOf[kernel].disposition, hazard |-> ReviewOf[kernel].hazard]
    BY <2>1
  <2> QED
    BY <1>9, <2>2
<1>11. InertSkill(manager.skill)
  BY <1>7, <1>8 DEF SkillEligible
<1>12. h.reference.evidence = E /\ h.reference.decision = s.decision
  BY <1>4, <1>7
<1> QED
  BY <1>5, <1>6, <1>8, <1>10, <1>11, <1>12 DEF E

LEMMA ConstructsKept ==
    ASSUME Documented(doc)
    PROVE  ReviewConstructs
<1>1. doc.decision # Absent => PlanDecisionShape(doc.decision)
  BY DEF Documented, Planned, PlanDecision, PlanDecisionShape
<1>2. ASSUME Timed PROVE TrajectoryShape(doc.decision, doc.trajectory)
  <2> DEFINE t == doc.trajectory.timing
             points == doc.trajectory.points
  <2>1. doc.trajectory # Absent
    BY <1>2 DEF Timed
  <2>2. doc.decision.evidence.waypoints = Waypoints(doc.request)
    BY <1>2, WaypointsFree
  <2>3. Schedules(Waypoints(doc.request), t) /\ doc.trajectory = TimedPath(doc.request, t)
    BY <2>1 DEF Documented, Scheduled
  <2>4. doc.trajectory = TrajectoryOf(doc.decision, t)
    BY <2>2, <2>3 DEF TimedPath, TrajectoryOf
  <2>5. ASSUME NEW i \in DOMAIN points PROVE PointShape(points, i)
    <3>1. PICK n \in Nat :
             /\ n >= 1 /\ DOMAIN points = 1 .. n + 1 /\ TimingNumbers(t) /\ points[1].at = 0
             /\ \A k \in 1 .. n + 1 : points[k].q \in Positions /\ points[k].at \in Nat
             /\ \A k \in 2 .. n + 1 :
                   points[k].at = points[k - 1].at + SegmentTime(points[k - 1].q, points[k].q, t)
      BY <2>1, TrajectoryIs
    <3>2. CASE i = 1
      BY <3>1, <3>2 DEF PointShape
    <3>3. CASE i # 1
      <4> HIDE DEF points, t
      <4>1. i \in 2 .. n + 1 /\ i \in 1 .. n + 1 /\ i - 1 \in 1 .. n + 1
        BY <2>5, <3>1, <3>3
      <4>2. /\ points[i].q \in Positions /\ points[i - 1].q \in Positions
            /\ points[i].at \in Nat /\ points[i - 1].at \in Nat
            /\ points[i].at = points[i - 1].at + SegmentTime(points[i - 1].q, points[i].q, t)
        BY <3>1, <4>1
      <4>3. /\ SegmentTime(points[i - 1].q, points[i].q, t) \in Int
            /\ t.minimum <= SegmentTime(points[i - 1].q, points[i].q, t)
        BY <3>1, <4>2, SegmentTimeIs
      <4>4. t.minimum \in Int /\ t.minimum > 0
        BY <3>1 DEF TimingNumbers, TimingShape
      <4>5. points[i].at > 0
        BY <4>2, <4>3, <4>4
      <4> QED
        BY <3>3, <4>5 DEF PointShape
    <3> QED
      BY <3>2, <3>3
  <2> QED
    BY <2>2, <2>3, <2>4, <2>5 DEF TrajectoryShape
<1>3. ASSUME doc.safety # Absent PROVE SafetyResultShape(doc.safety)
  <2>1. PICK kernel \in Kernels : doc.safety = ReviewedBy(EvidenceOf(doc), kernel)
    BY <1>3 DEF Documented, Judged
  <2> QED
    BY <2>1, ReviewedShape
<1>4. ASSUME doc.handoff # Absent PROVE HandoffShape(doc.handoff)
  <2>1. PICK manager, binding : /\ BindingContext(doc.safety, binding, manager)
                                /\ doc.handoff = HandoffDecision(doc.safety, binding, manager)
    BY <1>4 DEF Documented, Bound
  <2>2. SafetyResultShape(doc.safety)
    BY <1>3, <1>4 DEF Documented, Bound
  <2> QED
    BY <2>1, <2>2, HandedShape
<1>5. Timed /\ doc.proof # Absent => CollisionProofShape(doc.request, doc.trajectory.points, doc.proof)
  <2> SUFFICES ASSUME doc.proof # Absent
               PROVE  CollisionProofShape(doc.request, doc.trajectory.points, doc.proof)
    OBVIOUS
  <2> DEFINE input == PreflightInput(doc.request, doc.trajectory.points)
  <2>1. doc.proof = PreflightReport(input) /\ DenseFits(doc.trajectory.points)
    BY DEF Documented, Proved
  <2> HIDE DEF input
  <2>2. doc.proof.input = input /\ doc.proof.free \subseteq input.samples
    BY <2>1 DEF PreflightReport
  <2> QED
    BY <2>1, <2>2 DEF CollisionProofShape, input
<1> QED
  BY <1>1, <1>2, <1>3, <1>4, <1>5 DEF ReviewConstructs

--------------------------------------------------------------------------------
(* The dense samples. *)

\* Every division of a segment, its start included, is a sample.
LEMMA SampleIsDense ==
    ASSUME NEW points, NEW n \in Nat, n >= 1, Len(points) = n + 1,
           \A s \in 1 .. n + 1 : points[s].q \in Positions,
           NEW s \in 1 .. n, NEW i \in 0 .. Subdivisions(points[s].q, points[s + 1].q)
    PROVE  \E sample \in DenseSamples(points) :
              sample.q = Between(points[s].q, points[s + 1].q, i, Subdivisions(points[s].q, points[s + 1].q))
<1> DEFINE sub(k) == Subdivisions(points[k].q, points[k + 1].q)
           made(k, x) == [segment |-> k, index |-> x, q |-> Between(points[k].q, points[k + 1].q, x, sub(k))]
<1>1. \A k \in 1 .. n : sub(k) \in Nat /\ sub(k) >= 1 /\ points[k].q \in Positions /\ points[k + 1].q \in Positions
  <2> TAKE k \in 1 .. n
  <2>1. k \in 1 .. n + 1 /\ k + 1 \in 1 .. n + 1
    OBVIOUS
  <2> QED
    BY <2>1, SubdivisionsAre
<1>2. Len(points) - 1 = n
  OBVIOUS
<1>3. \A k \in 1 .. n : \A x \in 1 .. sub(k) : made(k, x) \in DenseSamples(points)
  BY <1>2 DEF DenseSamples
<1>4. [segment |-> 1, index |-> 0, q |-> points[1].q] \in DenseSamples(points)
  BY DEF DenseSamples
<1> HIDE DEF sub
<1>5. CASE i # 0
  <2>1. i \in 1 .. sub(s)
    BY <1>1, <1>5 DEF sub
  <2>2. made(s, i) \in DenseSamples(points)
    BY <1>3, <2>1
  <2> QED
    BY <2>2 DEF sub
<1>6. CASE i = 0
  <2>1. Between(points[s].q, points[s + 1].q, i, sub(s)) = points[s].q
    BY <1>1, <1>6, BetweenEnds
  <2>2. CASE s = 1
    BY <1>4, <2>1, <2>2 DEF sub
  <2>3. CASE s # 1
    <3>1. s - 1 \in 1 .. n /\ (s - 1) + 1 = s
      BY <2>3
    <3>2. sub(s - 1) \in 1 .. sub(s - 1)
      BY <1>1, <3>1
    <3>3. made(s - 1, sub(s - 1)) \in DenseSamples(points)
      BY <1>3, <3>1, <3>2
    <3>4. made(s - 1, sub(s - 1)).q = points[s].q
      BY <1>1, <3>1, BetweenEnds
    <3> QED
      BY <2>1, <3>3, <3>4 DEF sub
  <2> QED
    BY <2>2, <2>3
<1> QED
  BY <1>5, <1>6

\* Wherever between two points the arm is, a checked and free sample is near.
LEMMA NearChecked ==
    ASSUME Documented(doc), doc.proof # Absent, ProofIsFree(doc.proof),
           NEW n \in Nat, Len(doc.trajectory.points) = n + 1, NEW s \in 1 .. n,
           NEW m \in Nat, m >= 1, NEW k \in 0 .. m
    PROVE  \E sample \in doc.proof.free :
              /\ Near(doc.trajectory.points[s].q, doc.trajectory.points[s + 1].q, k, m, sample.q)
              /\ ~HitsItself(sample.q) /\ ~HitsScene(sample.q, doc.request.scene)
<1> DEFINE r == doc.request
           points == doc.trajectory.points
           w == Waypoints(r)
           p == points[s].q
           q == points[s + 1].q
           input == PreflightInput(r, points)
<1>1. doc.trajectory # Absent /\ doc.proof = PreflightReport(input)
  BY DEF Documented, Proved
<1>2. /\ n >= 1 /\ r \in Requests /\ Len(w) = n + 1
      /\ \A i \in 1 .. n + 1 : points[i].q = w[i] /\ points[i].q \in Positions
  <2>1. PICK l \in Nat :
           /\ l >= 1 /\ Len(points) = l + 1 /\ r \in Requests /\ Len(w) = l + 1
           /\ \A i \in 1 .. l + 1 : points[i].q = w[i] /\ points[i].q \in Positions
    BY <1>1, TrajectoryIs
  <2>2. l = n
    BY <2>1
  <2> QED
    BY <2>1, <2>2
<1>3. \A j \in Joints : (q[j] - p[j]) % Subdivisions(p, q) = 0
  <2>1. \A x \in 1 .. Len(w) - 1, j \in Joints :
           (w[x + 1][j] - w[x][j]) % Subdivisions(w[x], w[x + 1]) = 0
    BY <1>2, InterpolationExact
  <2>2. Len(w) - 1 = n /\ s \in 1 .. n + 1 /\ s + 1 \in 1 .. n + 1
    BY <1>2
  <2>3. p = w[s] /\ q = w[s + 1]
    BY <1>2, <2>2
  <2> QED
    BY <2>1, <2>2, <2>3
<1>4. p \in Positions /\ q \in Positions
  <2>1. s \in 1 .. n + 1 /\ s + 1 \in 1 .. n + 1
    OBVIOUS
  <2> QED
    BY <1>2, <2>1
<1>5. PICK i \in 0 .. Subdivisions(p, q) : Near(p, q, k, m, Between(p, q, i, Subdivisions(p, q)))
  <2> HIDE DEF p, q
  <2> QED
    BY <1>3, <1>4, SampleNear
<1>6. PICK sample \in DenseSamples(points) : sample.q = Between(p, q, i, Subdivisions(p, q))
  <2>1. Len(points) = n + 1 /\ \A x \in 1 .. n + 1 : points[x].q \in Positions
    BY <1>2
  <2> HIDE DEF points
  <2> QED
    BY <1>2, <2>1, SampleIsDense
<1>7. sample \in doc.proof.free /\ ~HitsItself(sample.q) /\ ~HitsScene(sample.q, r.scene)
  <2>1. input.samples = DenseSamples(points) /\ input.scene = r.scene
    BY DEF PreflightInput
  <2> HIDE DEF input
  <2>2. /\ doc.proof.input = input
        /\ doc.proof.free = {x \in input.samples :
               ~HitsItself(x.q) /\ ~HitsScene(x.q, input.scene) /\ ValidPositions(x.q)}
    BY <1>1 DEF PreflightReport
  <2>3. sample \in doc.proof.free
    BY <1>6, <2>1, <2>2 DEF ProofIsFree
  <2> QED
    BY <2>1, <2>2, <2>3
<1> QED
  BY <1>5, <1>6, <1>7

LEMMA DenseKept ==
    ASSUME Documented(doc)
    PROVE  DenselyChecked
<1>1. ASSUME Timed, doc.proof # Absent, ProofIsFree(doc.proof),
             NEW s \in 1 .. Len(doc.trajectory.points) - 1,
             NEW k \in 0 .. Travel(doc.trajectory.points[s].q, doc.trajectory.points[s + 1].q)
      PROVE  \E sample \in doc.proof.free :
                 /\ Near(doc.trajectory.points[s].q, doc.trajectory.points[s + 1].q, k,
                         Travel(doc.trajectory.points[s].q, doc.trajectory.points[s + 1].q), sample.q)
                 /\ ~HitsItself(sample.q) /\ ~HitsScene(sample.q, doc.request.scene)
  <2> DEFINE points == doc.trajectory.points
             m == Travel(points[s].q, points[s + 1].q)
  <2>1. PICK n \in Nat :
           /\ n >= 1 /\ Len(points) = n + 1
           /\ \A i \in 1 .. n + 1 : points[i].q \in Positions
           /\ \A i \in 2 .. n + 1 : Travel(points[i - 1].q, points[i].q) > 0
    BY <1>1, TrajectoryIs DEF Timed
  <2>2. /\ s \in 1 .. n /\ s \in 1 .. n + 1 /\ s + 1 \in 1 .. n + 1 /\ s + 1 \in 2 .. n + 1
        /\ (s + 1) - 1 = s
    BY <1>1, <2>1
  <2>3. m \in Nat
    BY <2>1, <2>2, TravelIs
  <2>4. m > 0
    BY <2>1, <2>2
  <2>5. m >= 1 /\ k \in 0 .. m
    BY <1>1, <2>3, <2>4
  <2> HIDE DEF m
  <2>6. \E sample \in doc.proof.free :
            /\ Near(points[s].q, points[s + 1].q, k, m, sample.q)
            /\ ~HitsItself(sample.q) /\ ~HitsScene(sample.q, doc.request.scene)
    BY <1>1, <2>1, <2>2, <2>3, <2>5, NearChecked
  <2> QED
    BY <2>6 DEF m
<1> QED
  BY <1>1 DEF DenselyChecked

LEMMA DocumentsSound ==
    ASSUME Documented(doc)
    PROVE  ReviewSound
  BY LimitsKept, FreeKept, DenseKept, GroundedKept, ConstructsKept DEF ReviewSound

--------------------------------------------------------------------------------
(* The arm. *)

\* Once a program runs the documents stay, the arm is on its trajectory, and a goal
\* is sent only under a proof that is free.
Tracked ==
    /\ Documented(doc)
    /\ sim.arm \in Nat
    /\ mode = "review" => sim.arm = 0
    /\ mode # "review" => doc.proof # Absent /\ sim.arm <= Duration
    /\ goal # "none" => ProofIsFree(doc.proof)

\* What every step of a running program but a tick leaves as it is.
Unmoving ==
    /\ UNCHANGED <<mode, doc>>
    /\ sim'.arm = sim.arm
    /\ goal = "none" => goal' = "none" \/ ProofIsFree(doc.proof)

LEMMA UnmovingKeeps ==
    ASSUME Tracked, Unmoving
    PROVE  Tracked'
<1>1. Documented(doc)'
  BY DEF Tracked, Unmoving
<1>2. Duration' = Duration
  BY DurationKept DEF Unmoving
<1> QED
  BY <1>1, <1>2 DEF Tracked, Unmoving

LEMMA DurationIs ==
    ASSUME Documented(doc), doc.trajectory # Absent
    PROVE  \E n \in Nat :
              /\ n >= 1 /\ Len(GoalPoints) = n + 1
              /\ GoalPoints[n + 1].at \in Nat /\ Duration \in Nat
              /\ Duration * TickTime <= GoalPoints[n + 1].at
<1>1. PICK n \in Nat : /\ n >= 1 /\ Len(doc.trajectory.points) = n + 1
                       /\ \A i \in 1 .. n + 1 : doc.trajectory.points[i].at \in Nat
  BY TrajectoryIs
<1> DEFINE x == GoalPoints[n + 1].at
<1>2. Len(GoalPoints) = n + 1 /\ x \in Nat
  <2>1. n + 1 \in 1 .. n + 1
    BY <1>1
  <2> QED
    BY <1>1, <2>1 DEF GoalPoints
<1>3. Duration = x \div TickTime
  BY <1>2 DEF Duration
<1> HIDE DEF x
<1>4. TickTime \in Nat /\ TickTime > 0
  BY TicksAssumption
<1>5. x = TickTime * (x \div TickTime) + (x % TickTime) /\ 0 <= x % TickTime /\ x \div TickTime \in Int
  BY <1>2, <1>4
<1>6. x \div TickTime \in Nat
  BY <1>2, <1>4
<1>7. (x \div TickTime) * TickTime <= x
  BY <1>2, <1>4, <1>5
<1> QED
  BY <1>1, <1>2, <1>3, <1>6, <1>7 DEF x

LEMMA ReviewTracked ==
    ASSUME Grasped, Tracked, Review
    PROVE  Tracked'
<1>1. UNCHANGED <<mode, sim, goal>> /\ mode = "review" /\ ReviewNext
  BY DEF Review, execVars
<1>2. Documented(doc')
  BY <1>1, ReviewNextKeeps DEF Tracked
<1>3. goal = "none"
  BY <1>1 DEF Grasped, GoalFollowed, Before
<1> QED
  BY <1>1, <1>2, <1>3 DEF Tracked

LEMMA ProgramsTracked ==
    ASSUME Grasped, Tracked, Programs
    PROVE  Tracked'
<1>1. /\ UNCHANGED <<sim, goal>> /\ mode = "review" /\ doc.proof # Absent
      /\ doc' = KeptDocuments(doc)
  BY DEF Programs, Start
<1>2. Documented(doc') /\ doc'.proof # Absent
  BY <1>1, KeptDocumented DEF Tracked
<1>3. sim'.arm = 0 /\ goal' = "none"
  BY <1>1 DEF Tracked, Grasped, GoalFollowed, Before
<1>4. doc'.trajectory # Absent
  BY <1>2 DEF Documented, Proved
<1>5. Duration' \in Nat
  <2>1. doc.trajectory # Absent /\ doc'.trajectory = doc.trajectory
    BY <1>1, KeptDocumented DEF Tracked, Documented, Proved
  <2>2. Duration' = Duration
    BY <2>1 DEF Duration, GoalPoints
  <2> QED
    BY <2>1, <2>2, DurationIs DEF Tracked
<1> QED
  BY <1>2, <1>3, <1>5 DEF Tracked

\* A tick moves the arm by one, and never beyond the end of its trajectory.
LEMMA TickTracked ==
    ASSUME Grasped, Tracked, Tick
    PROVE  Tracked'
<1>1. PICK late \in Lateness(Topics) : TickArm(late, ~(Waiting \/ GraspWaiting) \/ mail # {})
  BY DEF Tick
<1> DEFINE arm == IF sim.moving /\ sim.arm < Duration THEN sim.arm + 1 ELSE sim.arm
<1>2. /\ UNCHANGED <<mode, doc, goal>> /\ mode # "review"
      /\ sim' = [sim EXCEPT !.arm = arm, !.before = sim.arm]
  BY <1>1 DEF TickArm
<1>3. sim'.arm = arm
  BY <1>2 DEF Grasped, Shapes
<1>4. Duration' = Duration
  BY <1>2, DurationKept
<1>5. doc.trajectory # Absent
  BY <1>2 DEF Tracked, Documented, Proved
<1>6. Duration \in Nat /\ sim.arm \in Nat /\ sim.arm <= Duration
  BY <1>2, <1>5, DurationIs DEF Tracked
<1>7. arm \in Nat /\ arm <= Duration
  BY <1>6
<1> HIDE DEF arm
<1>8. Documented(doc)'
  BY <1>2 DEF Tracked
<1> QED
  BY <1>2, <1>3, <1>4, <1>7, <1>8 DEF Tracked

\* Only a preflight that finds the proof free sends a goal.
LEMMA PreflightSends ==
    ASSUME Preflight
    PROVE  Unmoving
<1>1. UNCHANGED <<mode, doc, sim>>
  BY DEF Preflight
<1>2. CASE PreflightEvidence(doc.proof, node.first.joint, node.ctl, now).status = "ready"
  <2>1. PreflightReady(doc.proof, node.first.joint, node.ctl, now)
    BY <1>2 DEF PreflightEvidence
  <2>2. ProofIsFree(doc.proof)
    BY <2>1 DEF PreflightReady
  <2> QED
    BY <1>1, <2>2 DEF Unmoving
<1>3. CASE PreflightEvidence(doc.proof, node.first.joint, node.ctl, now).status # "ready"
  <2>1. UNCHANGED goal
    BY <1>3 DEF Preflight
  <2> QED
    BY <1>1, <2>1 DEF Unmoving
<1> QED
  BY <1>2, <1>3

LEMMA ClientUnmoving ==
    ASSUME Grasped, Client
    PROVE  Unmoving
<1>1. CASE Preflight
  BY <1>1, PreflightSends
<1>2. CASE ResultTimesOut
  <2>1. PICK confirmed \in {FALSE, goal = "running"} :
           /\ goal' = IF confirmed THEN "canceled" ELSE goal
           /\ sim' = IF confirmed THEN [sim EXCEPT !.moving = FALSE] ELSE sim
    BY <1>2 DEF ResultTimesOut
  <2>2. UNCHANGED <<mode, doc>>
    BY <1>2 DEF ResultTimesOut
  <2>3. goal = "none" => ~confirmed
    BY <2>1
  <2>4. sim'.arm = sim.arm
    <3>1. CASE confirmed
      BY <2>1, <3>1 DEF Grasped, Shapes
    <3>2. CASE ~confirmed
      BY <2>1, <3>2
    <3> QED
      BY <3>1, <3>2
  <2> QED
    BY <2>1, <2>2, <2>3, <2>4 DEF Unmoving
<1>3. CASE WaitFirst \/ WaitFixture \/ WaitSecond \/ ControllerFlags \/ ControllerStamp
           \/ SendTimesOut \/ TakeAcceptance \/ TakeResult \/ WaitFinal \/ Evaluate
  <2>1. UNCHANGED <<mode, doc, sim, goal>>
    BY <1>3 DEF WaitFirst, WaitFixture, WaitSecond, ControllerFlags, ControllerStamp,
                SendTimesOut, TakeAcceptance, TakeResult, WaitFinal, Evaluate
  <2> QED
    BY <2>1 DEF Unmoving
<1> QED
  BY <1>1, <1>2, <1>3 DEF Client

LEMMA ServerUnmoving ==
    ASSUME Grasped, Server
    PROVE  Unmoving
<1>1. CASE Accept
  <2>1. UNCHANGED <<mode, doc>> /\ goal = "sent" /\ sim' = [sim EXCEPT !.moving = TRUE]
    BY <1>1 DEF Accept
  <2> QED
    BY <2>1 DEF Unmoving, Grasped, Shapes
<1>2. CASE Reject
  BY <1>2 DEF Reject, Unmoving
<1>3. CASE Succeed
  <2>1. UNCHANGED <<mode, doc>> /\ goal = "running" /\ sim' = [sim EXCEPT !.moving = FALSE]
    BY <1>3 DEF Succeed
  <2> QED
    BY <2>1 DEF Unmoving, Grasped, Shapes
<1> QED
  BY <1>1, <1>2, <1>3 DEF Server

LEMMA FaultUnmoving ==
    ASSUME Grasped, Fault
    PROVE  Unmoving
<1>1. UNCHANGED <<mode, doc>>
  BY DEF Fault
<1>2. /\ \/ sim' = [sim EXCEPT !.tipped = now + 1]
         \/ sim' = [sim EXCEPT !.ready = FALSE, !.moving = FALSE]
         \/ sim' = [sim EXCEPT !.moving = FALSE]
         \/ sim' = sim
      /\ goal' = goal \/ goal = "running"
  BY DEF Fault
<1>3. sim'.arm = sim.arm
  BY <1>2 DEF Grasped, Shapes
<1> QED
  BY <1>1, <1>2, <1>3 DEF Unmoving

LEMMA GraspUnmoving ==
    ASSUME DeliverMail \/ StrayMail \/ GraspClient
    PROVE  Unmoving
<1>1. UNCHANGED <<mode, doc, sim, goal>>
  <2>1. CASE DeliverMail \/ StrayMail
    BY <2>1 DEF DeliverMail, StrayMail
  <2>2. CASE GraspClient
    <3>1. Unmoved
      BY <2>2 DEF GraspClient, Pregrasp, TakeContact, Attach, MarkHold, Hold, SeeRelease,
                  WaitRelease, ReleaseFlags, Finish, GiveUp
    <3> QED
      BY <3>1 DEF Unmoved
  <2> QED
    BY <2>1, <2>2
<1> QED
  BY <1>1 DEF Unmoving

LEMMA InitTracked ==
    ASSUME Init
    PROVE  Tracked
<1>1. Documented(doc)
  BY InitDocumented DEF Init, ExecutionInit
<1>2. mode = "review" /\ goal = "none" /\ sim.arm = 0
  BY DEF Init, ExecutionInit
<1> QED
  BY <1>1, <1>2 DEF Tracked

LEMMA TrackedStays == Spec => []Tracked
<1>1. Grasped /\ Tracked /\ [Next]_vars => Tracked'
  <2> SUFFICES ASSUME Grasped, Tracked, [Next]_vars
               PROVE  Tracked'
    OBVIOUS
  <2>1. CASE Review
    BY <2>1, ReviewTracked
  <2>2. CASE Programs
    BY <2>2, ProgramsTracked
  <2>3. CASE Tick
    BY <2>3, TickTracked
  <2>4. CASE DeliverMail \/ StrayMail \/ GraspClient
    BY <2>4, GraspUnmoving, UnmovingKeeps
  <2>5. CASE Client \/ Server \/ Fault
    BY <2>5, ClientUnmoving, ServerUnmoving, FaultUnmoving, UnmovingKeeps
  <2>6. CASE UNCHANGED vars
    <3>1. Unmoving
      BY <2>6 DEF vars, execVars, Unmoving
    <3> QED
      BY <3>1, UnmovingKeeps
  <2> QED
    BY <2>1, <2>2, <2>3, <2>4, <2>5, <2>6 DEF Next
<1> QED
  BY <1>1, InitTracked, GraspedStays, PTL DEF Spec

\* A moment of a rising list of times that starts at 0 lies between two of them.
LEMMA MomentBetween ==
    ASSUME NEW n \in Nat, n >= 1, NEW at, \A i \in 1 .. n + 1 : at[i] \in Nat, at[1] = 0,
           NEW x \in Nat, x <= at[n + 1]
    PROVE  \E s \in 1 .. n : at[s] <= x /\ x <= at[s + 1]
<1> DEFINE S == {i \in Nat : i \in 2 .. n + 1 /\ x <= at[i]}
<1>1. S \subseteq Nat /\ n + 1 \in S
  OBVIOUS
<1>2. PICK i \in S : \A k \in S : i <= k
  <2> HIDE DEF S
  <2> QED
    BY <1>1, LeastNumber
<1>3. i \in 2 .. n + 1 /\ x <= at[i] /\ i - 1 \in 1 .. n /\ (i - 1) + 1 = i
  BY <1>2
<1>4. at[i - 1] <= x
  <2>1. CASE i = 2
    BY <2>1
  <2>2. CASE i # 2
    <3>1. i - 1 \in 2 .. n + 1 /\ i - 1 \in Nat /\ ~(i <= i - 1) /\ i - 1 \in 1 .. n + 1
      BY <1>3, <2>2
    <3>2. i - 1 \notin S
      BY <1>2, <3>1
    <3>3. ~(x <= at[i - 1])
      BY <3>1, <3>2
    <3> QED
      BY <3>1, <3>3
  <2> QED
    BY <2>1, <2>2
<1> QED
  BY <1>3, <1>4

LEMMA ArmIsNear ==
    ASSUME Grasped, Tracked
    PROVE  ArmNearChecked
<1> SUFFICES ASSUME goal # "none"
             PROVE  LET points == GoalPoints
                        s      == SegmentAt(sim.arm)
                        length == points[s + 1].at - points[s].at
                    IN  \E sample \in doc.proof.free :
                           /\ ~HitsItself(sample.q) /\ ~HitsScene(sample.q, doc.request.scene)
                           /\ Near(points[s].q, points[s + 1].q, sim.arm * TickTime - points[s].at,
                                   length, sample.q)
  BY DEF ArmNearChecked
<1> DEFINE points == doc.trajectory.points
           t == doc.trajectory.timing
           x == sim.arm * TickTime
           s == SegmentAt(sim.arm)
<1>1. /\ mode # "review" /\ Documented(doc) /\ doc.proof # Absent /\ ProofIsFree(doc.proof)
      /\ sim.arm \in Nat /\ sim.arm <= Duration
  BY DEF Grasped, GoalFollowed, Before, Tracked
<1>2. doc.trajectory # Absent
  BY <1>1 DEF Documented, Proved
<1>3. PICK n \in Nat :
         /\ n >= 1 /\ Len(points) = n + 1 /\ TimingNumbers(t)
         /\ points[1].at = 0
         /\ \A i \in 1 .. n + 1 : points[i].q \in Positions /\ points[i].at \in Nat
         /\ \A i \in 2 .. n + 1 :
               points[i].at = points[i - 1].at + SegmentTime(points[i - 1].q, points[i].q, t)
  BY <1>1, <1>2, TrajectoryIs
<1>4. GoalPoints = points
  BY DEF GoalPoints
<1>5. x \in Nat /\ x <= points[n + 1].at
  <2>1. PICK l \in Nat : /\ Len(GoalPoints) = l + 1 /\ GoalPoints[l + 1].at \in Nat
                         /\ Duration \in Nat /\ Duration * TickTime <= GoalPoints[l + 1].at
    BY <1>1, <1>2, DurationIs
  <2>2. l = n
    BY <1>3, <1>4, <2>1
  <2>3. TickTime \in Nat
    BY TicksAssumption
  <2>4. x \in Nat /\ x <= Duration * TickTime /\ Duration * TickTime \in Nat
    BY <1>1, <2>1, <2>3
  <2> QED
    BY <1>3, <1>4, <2>1, <2>2, <2>4
<1> HIDE DEF points, t, x
<1>6. \E y \in 1 .. n : points[y].at <= x /\ x <= points[y + 1].at
  <2> DEFINE at == [i \in 1 .. n + 1 |-> points[i].at]
  <2>1. \A i \in 1 .. n + 1 : at[i] = points[i].at /\ at[i] \in Nat
    BY <1>3
  <2>2. 1 \in 1 .. n + 1 /\ n + 1 \in 1 .. n + 1 /\ \A y \in 1 .. n : y \in 1 .. n + 1 /\ y + 1 \in 1 .. n + 1
    BY <1>3
  <2>3. at[1] = 0 /\ x <= at[n + 1]
    BY <1>3, <1>5, <2>1, <2>2
  <2> HIDE DEF at
  <2>4. \E y \in 1 .. n : at[y] <= x /\ x <= at[y + 1]
    BY <1>3, <1>5, <2>1, <2>3, MomentBetween
  <2> QED
    BY <2>1, <2>2, <2>4
<1>7. s \in 1 .. n /\ points[s].at <= x /\ x <= points[s + 1].at
  <2>1. Len(points) - 1 = n
    BY <1>3
  <2>2. s = CHOOSE y \in 1 .. n : points[y].at <= x /\ x <= points[y + 1].at
    BY <1>4, <2>1 DEF SegmentAt, x
  <2> HIDE DEF s
  <2> QED
    BY <1>6, <2>2
<1> HIDE DEF s
<1> DEFINE length == points[s + 1].at - points[s].at
           k == x - points[s].at
<1>8. length \in Nat /\ length >= 1 /\ k \in 0 .. length
  <2>1. s \in 1 .. n + 1 /\ s + 1 \in 1 .. n + 1 /\ s + 1 \in 2 .. n + 1 /\ (s + 1) - 1 = s
    BY <1>3, <1>7
  <2>2. /\ points[s + 1].at = points[s].at + SegmentTime(points[s].q, points[s + 1].q, t)
        /\ points[s].q \in Positions /\ points[s + 1].q \in Positions
        /\ points[s].at \in Nat /\ points[s + 1].at \in Nat
    BY <1>3, <2>1
  <2>3. /\ SegmentTime(points[s].q, points[s + 1].q, t) \in Int
        /\ t.minimum <= SegmentTime(points[s].q, points[s + 1].q, t)
    BY <1>3, <2>2, SegmentTimeIs
  <2>4. t.minimum \in Int /\ t.minimum > 0
    BY <1>3 DEF TimingNumbers, TimingShape
  <2> QED
    BY <1>5, <1>7, <2>2, <2>3, <2>4
<1> HIDE DEF length, k
<1>9. \E sample \in doc.proof.free :
         /\ Near(points[s].q, points[s + 1].q, k, length, sample.q)
         /\ ~HitsItself(sample.q) /\ ~HitsScene(sample.q, doc.request.scene)
  <2>1. Len(doc.trajectory.points) = n + 1
    BY <1>3 DEF points
  <2> QED
    BY <1>1, <1>7, <1>8, <2>1, NearChecked DEF points
<1> QED
  BY <1>4, <1>9 DEF s, x, k, length

\* What the review stages hand on is sound, whatever reports, proposals, decisions and
\* bindings of other trajectories they are offered: the trajectory keeps its limits and
\* is free where it was sampled, its dense samples cover the way between its points,
\* an eligible handoff is about this trajectory and one kernel, and every document
\* passes its own constructor (_deterministic_joint_positions, _schedule,
\* expected_dense_samples, _validated_safety_context, _validated_skill_binding_context).
THEOREM ReviewStaysSound == Spec => []ReviewSound
<1>1. Tracked => ReviewSound
  BY DocumentsSound DEF Tracked
<1> QED
  BY <1>1, TrackedStays, PTL

\* Once a goal was sent, wherever the simulated arm is, it is at most half a sampling
\* step from a configuration that was checked and found free in the reviewed scene; for
\* any arm, trajectory, sampling policy and scene (execute, _preflight_reasons,
\* expected_dense_samples, SimulationCollisionProof).
THEOREM ArmStaysNearChecked == Spec => []ArmNearChecked
<1>1. Grasped /\ Tracked => ArmNearChecked
  BY ArmIsNear
<1> QED
  BY <1>1, GraspedStays, TrackedStays, PTL
=================================================================================
