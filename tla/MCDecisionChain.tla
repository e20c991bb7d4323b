--------------------------- MODULE MCDecisionChain ---------------------------
(***************************************************************************)
(* Three requests over three capabilities.  "read" and "note" do not move    *)
(* the robot, "move" does.  The second policy, registry and context each   *)
(* differ from the first in what one stage must notice.                    *)
(***************************************************************************)
EXTENDS DecisionChain, TLC

Constraint(n, text) == [id |-> n, text |-> text]

MCRequestOf ==
    [ask |-> [steps |-> (1 :> [capability |-> "note", parameters |-> "p", after |-> {}])
                        @@ (2 :> [capability |-> "read", parameters |-> "q", after |-> {1}]),
              context |-> {"k1"}, optional |-> {"k2"}, approvals |-> {},
              assumptions |-> {}, constraints |-> {Constraint("quiet", "x")},
              missing |-> "request_information"],
     go  |-> [steps |-> (1 :> [capability |-> "move", parameters |-> "p", after |-> {}]),
              context |-> {"k1"}, optional |-> {},
              approvals |-> {[id |-> "owner"]}, assumptions |-> {[id |-> "clear_floor"]},
              constraints |-> {}, missing |-> "defer"],
     slip |-> [steps |-> (1 :> [capability |-> "move", parameters |-> "p", after |-> {}]),
              context |-> {}, optional |-> {}, approvals |-> {},
              assumptions |-> {}, constraints |-> {}, missing |-> "defer"]]

MCContextOf == [c1 |-> [k1 |-> "known1", k2 |-> "unknown"],
                c2 |-> [k1 |-> "unknown", k2 |-> "known1"]]

Capability(parameters, context_, constraints, preconditions, result) ==
    [available |-> TRUE, parameters |-> parameters, context |-> context_,
     approvals |-> {}, assumptions |-> {}, constraints |-> constraints,
     preconditions |-> preconditions, result |-> result]

MCContractOf ==
    LET read == Capability({"q"}, {"k1"}, {}, {}, "information")
        note == Capability({"p", "q"}, {"k1"}, {Constraint("log", "y")}, {"idle"}, "state_change")
        move == Capability({"p"}, {"k1"}, {}, {}, "physical_effect")
    IN  [k1 |-> [read |-> read, note |-> note, move |-> move],
         k2 |-> [read |-> read, note |-> [note EXCEPT !.constraints = {}],
                move |-> [move EXCEPT !.result = "state_change"]]]

Rule(hazard, preconditions, constraints) ==
    [hazard |-> hazard, preconditions |-> preconditions, constraints |-> constraints]

MCPolicyOf ==
    [p1 |-> [read |-> Rule("informational_read_only", {}, {}),
             note |-> Rule("internal_non_actuating", {"idle"}, {"log"}),
             move |-> Rule("physical_movement", {}, {})],
     p2 |-> [read |-> Rule("privileged_high_impact", {}, {}),
             note |-> Rule("internal_non_actuating", {}, {}),
             move |-> Rule("internal_non_actuating", {}, {})]]

Skill(version, caps, parameters, result, hazard) ==
    [version |-> version, backend |-> "ros", capabilities |-> caps,
     parameters |-> parameters, context |-> {"k1"}, result |-> result,
     hazard |-> hazard, approvals |-> {}, availability |-> "available",
     lifecycle |-> "active", concurrency |-> "exclusive", exclusive |-> {"arm"}, shared |-> {}]

\* "pushes" moves the robot and claims to be a mere change of state, as the
\* second registry and the second policy do of "move".
SNote   == Skill(1, {"note"}, {"p", "q"}, "state_change", "internal_non_actuating")
SPushes == Skill(1, {"note", "move"}, {"p"}, "state_change", "physical_movement")
SMoves  == Skill(1, {"move"}, {"p"}, "physical_effect", "physical_movement")

MCSkillOf ==
    [s1 |-> [a |-> SNote, b |-> SPushes],
     s2 |-> [a |-> [SNote EXCEPT !.parameters = {"p"}], b |-> SMoves]]

Endpoint(skill, def, cap, available, name) ==
    [skill |-> skill, definition |-> def, capability |-> cap,
     available |-> available, name |-> name]

MCEndpointsOf ==
    [e1 |-> {Endpoint("a", SNote, "note", TRUE, "notes"),
             Endpoint("b", SPushes, "move", TRUE, "control")},
     e2 |-> {Endpoint("a", MCSkillOf["s2"]["a"], "note", TRUE, "notes"),
             Endpoint("b", SMoves, "move", FALSE, "control")}]

MCDeployments ==
    {[context |-> "c1", contract |-> k, policy |-> "p1", skills |-> "s1", endpoints |-> "e1"] :
        k \in {"k1", "k2"}}
=============================================================================
