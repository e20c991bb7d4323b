------------------------- MODULE MCGraspInteraction -------------------------
(* A two-joint arm; the movement that is executed takes two ticks, in a     *)
(* free scene or past a box hidden between its two waypoints.  The other    *)
(* requests have more waypoints, a box on one of them, a pose beyond the    *)
(* limits, more dense samples than the policy allows.                       *)
EXTENDS GraspInteraction

CONSTANTS j1, j2, mount, wall, hidden, table, link, hand,
          strict, lax, asking, waiting, refusing

MCJoints == {j1, j2}

Movable(name, parent, child, slowness) ==
    [name |-> name, kind |-> "revolute", parent |-> parent, child |-> child,
     lower |-> 0, upper |-> 30, slowness |-> slowness]

MCChain ==
    << [name |-> mount, kind |-> "fixed", parent |-> table, child |-> link,
        lower |-> Absent, upper |-> Absent, slowness |-> Absent],
       Movable(j1, link, link, 1), Movable(j2, link, hand, 2) >>

At(a, b) == [j \in MCJoints |-> IF j = j1 THEN a ELSE b]

MCPoses == {At(0, 0), At(12, 0), At(24, 12), At(36, 0)}

Slab(low, high) == [j \in MCJoints |-> IF j = j1 THEN [low |-> low, high |-> high] ELSE [low |-> 0, high |-> 30]]

MCBoxes == {wall, hidden}
MCRegion == [b \in MCBoxes |-> IF b = wall THEN Slab(7, 9) ELSE Slab(3, 9)]
MCSelfRegion == [j \in MCJoints |-> IF j = j1 THEN [low |-> 15, high |-> 17] ELSE [low |-> 0, high |-> 9]]
MCScenes == {{}, {wall}, {hidden}}

MCConfigurations == {[step |-> 8, max |-> 4], [step |-> 12, max |-> 3]}

Timing(maximum) == [slow |-> 1, minimum |-> 1, maximum |-> maximum, points |-> 4]
MCTimings == {Timing(40), Timing(10)}

MCKernels == {strict, lax, asking, waiting, refusing}
MCReviewOf ==
    [k \in MCKernels |->
        CASE k = strict   -> [disposition |-> "eligible", hazard |-> "internal"]
          [] k = lax      -> [disposition |-> "eligible", hazard |-> "physical"]
          [] k = asking   -> [disposition |-> "approval", hazard |-> "internal"]
          [] k = waiting  -> [disposition |-> "deferred", hazard |-> "internal"]
          [] k = refusing -> [disposition |-> "blocked", hazard |-> "internal"]]

MCSkills ==
    {[available |-> TRUE, validated |-> TRUE, inert |-> TRUE],
     [available |-> TRUE, validated |-> TRUE, inert |-> FALSE],
     [available |-> FALSE, validated |-> TRUE, inert |-> TRUE]}

MCSampling == [step |-> 4, per_segment |-> 3, total |-> 6]

Move(scene) == [start |-> At(0, 0), goal |-> At(12, 0), scene |-> scene, config |-> [step |-> 12, max |-> 3]]
MCReviewed == {Move({}), Move({hidden})}
=============================================================================
