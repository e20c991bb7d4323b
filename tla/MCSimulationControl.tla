-------------------------- MODULE MCSimulationControl --------------------------
(* SimulationControl with one or two commands. *)
EXTENDS SimulationControl, TLC

CONSTANTS c1, c2

Ask(target, issued, expires) ==
    [target |-> target, issued |-> issued, expires |-> expires, valid |-> TRUE]

\* Two commands at once, one for where the joint is and one for farther away
\* than the tolerance.
TwoTargets == (c1 :> Ask(0, 0, 1)) @@ (c2 :> Ask(2, 0, 1))

\* Joint states overtake one another and the clock lags, on a steady system.
LateStates == [MaxTime |-> 1, MaxSamples |-> 2, MaxInFlight |-> 2,
               Unsteady |-> {}, MayClose |-> FALSE]

\* Lifecycles change, queries fail, and the node is shut down.
Faults == [MaxTime |-> 0, MaxSamples |-> 1, MaxInFlight |-> 1,
           Unsteady |-> {"controllers", "hardware"}, MayClose |-> TRUE]

LateStatesOrFaults == {LateStates, Faults}
================================================================================
