--------------------------- MODULE SimulationControl ---------------------------
(***************************************************************************)
(* The development control of the neck joint: the service callback of      *)
(* simulation_control_node.py, the adapter it calls                        *)
(* (simulation_control/adapter.py), and the gateway to ros2_control.       *)
(*                                                                         *)
(* Callbacks run on the threads of one executor in a reentrant group, so   *)
(* several commands, joint states and lifecycle answers are handled at the *)
(* same time and share the gateway.  A handler blocks its thread twice, in *)
(* _refresh_lifecycle and in wait_for_feedback, each time for a bounded    *)
(* wall time; the model lets either wait end at any moment.  What happens  *)
(* under the gateway's lock, and each read of the simulation clock with    *)
(* the checks that follow it, is one step.                                 *)
(*                                                                         *)
(* Positions and times are small integers.  A joint within the tolerance   *)
(* of a target has reached it, and a change of the least observable size   *)
(* is a motion: a command for where the joint already is completes when    *)
(* the joint moves within the tolerance.  The lifecycles of the position   *)
(* controller and of the state broadcaster, which one answer reports, are  *)
(* one value that is active when both are.  ros2_control, the joint and    *)
(* /clock are external and modelled by what the code sees of them.         *)
(***************************************************************************)
EXTENDS Integers, FiniteSets

CONSTANTS
    Command,       \* the requests: a function of their ids
    Threads,       \* the executor's threads
    SnapshotAge, StateAge,  \* MAX_CONTROLLER_SNAPSHOT_AGE_NS, MAX_JOINT_STATE_AGE_NS
    Tolerance, LeastChange, \* position_tolerance, MINIMUM_OBSERVABLE_CHANGE
    MaxPosition,   \* bound: the positions of the joint
    Scenarios      \* bound: what may happen around the node

Ids == DOMAIN Command
cmd == Command

\* valid: well formed, of the enabled development source, and within the limits
\* of the URDF.
Request == [target: 0..MaxPosition, issued: Nat, expires: Nat, valid: BOOLEAN]

\* MaxTime: the last simulation time; MaxSamples: the joint states published;
\* MaxInFlight: those being delivered at one time; Unsteady: the parts that are
\* reconfigured and whose queries fail; MayClose: whether the node is shut down.
Scenario == [MaxTime: Nat, MaxSamples: Nat, MaxInFlight: Nat,
             Unsteady: SUBSET {"controllers", "hardware"}, MayClose: BOOLEAN]

ASSUME ConstantsAssumption ==
    /\ \A c \in Ids : cmd[c] \in Request /\ cmd[c].issued < cmd[c].expires
    /\ Threads \in Nat \ {0} /\ SnapshotAge \in Nat /\ StateAge \in Nat
    /\ Tolerance \in Nat \ {0} /\ LeastChange \in Nat \ {0}
    /\ MaxPosition \in Nat /\ \A s \in Scenarios : s \in Scenario

None == "none"
Lifecycle == {"unavailable", "inactive", "active"}
NoQueries == [controllers |-> None, hardware |-> None]
NoSample == [position |-> 0, at |-> 0, seq |-> 0]

VARIABLES
    time,        \* the simulation's time
    now,         \* this node's view of it, from /clock
    position,    \* where the joint is
    goal,        \* what the controller was told last
    topic,       \* the command published and not yet taken: the queue's depth is one
    manager,     \* the true lifecycles of controllers and hardware
    arriving,    \* joint states published and not yet handled
    samples,     \* how many were published
    lifecycle,   \* the gateway's lifecycles and the time they were observed
    future,      \* the pending queries, with their answers once served
    running,     \* the answers whose callbacks run and have not got the lock yet
    joint_state, \* the gateway's last sample, its seq the gateway's _sequence
    closing,
    call,        \* what each command's handler is doing, and its result
    taken,       \* history: the commands the controller took
    scenario     \* the scenario of this behaviour

plant   == <<time, now, position, goal, manager, samples>>
gateway == <<lifecycle, future, running, joint_state, closing>>
vars == <<time, now, position, goal, topic, manager, arriving, samples,
          lifecycle, future, running, joint_state, closing, call, taken, scenario>>

Idle == [pc |-> "idle", status |-> None, snapshot |-> NoSample, controllers |-> None,
         hardware |-> None, observed |-> 0, dispatch_at |-> 0, feedback |-> NoSample,
         dispatched |-> FALSE]

Init ==
    /\ time = 0 /\ now = 0 /\ position = 0 /\ goal = 0 /\ topic = {}
    /\ manager = [controllers |-> "active", hardware |-> "active"]
    /\ arriving = {} /\ samples = 0
    /\ lifecycle = [controllers |-> "unavailable", hardware |-> "unavailable", at |-> 0]
    /\ future = NoQueries /\ running = NoQueries
    /\ joint_state = NoSample /\ closing = FALSE
    /\ call = [c \in Ids |-> Idle]
    /\ taken = {} /\ scenario \in Scenarios
--------------------------------------------------------------------------------
(* The simulation, external. *)

Tick ==
    /\ time < scenario.MaxTime /\ time' = time + 1
    /\ UNCHANGED <<now, position, goal, topic, manager, arriving, samples, gateway,
                   call, taken, scenario>>

\* A message of /clock.
ClockMessage ==
    /\ now < time /\ now' = time
    /\ UNCHANGED <<time, position, goal, topic, manager, arriving, samples, gateway,
                   call, taken, scenario>>

\* The controller takes the command that waits on its topic.
TakeCommand ==
    /\ manager.controllers = "active"
    /\ \E c \in topic : goal' = cmd[c].target /\ taken' = taken \cup {c}
    /\ topic' = {}
    /\ UNCHANGED <<time, now, position, manager, arriving, samples, gateway, call,
                   scenario>>

\* The joint moves towards the goal.
Move ==
    /\ position # goal /\ manager.hardware = "active"
    /\ position' = IF position < goal THEN position + 1 ELSE position - 1
    /\ UNCHANGED <<time, now, goal, topic, manager, arriving, samples, gateway, call,
                   taken, scenario>>

\* The broadcaster publishes the joint's state.
Broadcast ==
    /\ samples < scenario.MaxSamples /\ Cardinality(arriving) < scenario.MaxInFlight
    /\ samples' = samples + 1
    /\ arriving' = arriving \cup {[position |-> position, at |-> time]}
    /\ UNCHANGED <<time, now, position, goal, topic, manager, gateway, call, taken,
                   scenario>>

\* A controller or the hardware is deactivated or activated.
Reconfigure(part) ==
    /\ part \in scenario.Unsteady
    /\ manager' = [manager EXCEPT ![part] = IF @ = "active" THEN "inactive" ELSE "active"]
    /\ UNCHANGED <<time, now, position, goal, topic, arriving, samples, gateway, call,
                   taken, scenario>>

\* The controller manager answers a query, or the query fails.
Serve(part) ==
    /\ future[part] = "sent"
    /\ \E answer \in {manager[part], "unavailable"} :
          /\ answer = "unavailable" => part \in scenario.Unsteady
          /\ future' = [future EXCEPT ![part] = answer]
    /\ UNCHANGED <<plant, topic, arriving, lifecycle, running, joint_state, closing, call,
                   taken, scenario>>
--------------------------------------------------------------------------------
(* Callbacks of the gateway. *)

Handling == {c \in Ids : call[c].pc \notin {"idle", "done"}}

Callbacks == {part \in DOMAIN running : running[part] # None}

\* A callback needs a thread that no handler and no other callback holds.
ThreadFree == Cardinality(Handling) + Cardinality(Callbacks) < Threads

\* Two states may be handled at the same time, and the later one first.
_on_joint_state(s) ==
    /\ ThreadFree
    /\ arriving' = arriving \ {s}
    /\ joint_state' = [position |-> s.position, at |-> s.at, seq |-> joint_state.seq + 1]
    /\ UNCHANGED <<plant, topic, lifecycle, future, running, closing, call, taken, scenario>>

\* The callback of a served query starts, before it asks for the lock.
StartCallback(part) ==
    /\ ThreadFree /\ future[part] \in Lifecycle /\ running[part] = None
    /\ running' = [running EXCEPT ![part] = future[part]]
    /\ UNCHANGED <<plant, topic, arriving, lifecycle, future, joint_state, closing, call,
                   taken, scenario>>

\* _on_controllers and _on_hardware: either sets the one observation time.
_on_lifecycle(part) ==
    /\ running[part] # None /\ running' = [running EXCEPT ![part] = None]
    /\ IF closing THEN UNCHANGED <<lifecycle, future>>
       ELSE /\ lifecycle' = [lifecycle EXCEPT ![part] = running[part], !.at = now]
            /\ future' = [future EXCEPT ![part] = None]
    /\ UNCHANGED <<plant, topic, arriving, joint_state, closing, call, taken, scenario>>

\* SIGINT: the pending queries are dropped and their callbacks removed.
close ==
    /\ scenario.MayClose /\ ~closing
    /\ closing' = TRUE
    /\ future' = NoQueries
    /\ UNCHANGED <<plant, topic, arriving, lifecycle, running, joint_state, call, taken,
                   scenario>>
--------------------------------------------------------------------------------
(* A command's handler. *)

others == <<plant, topic, arriving, gateway, taken, scenario>>

\* The result of a command; the evidence of one that COMPLETED stays with it.
Done(c, status) ==
    [call EXCEPT ![c] =
        IF status = "COMPLETED" THEN [@ EXCEPT !.pc = "done", !.status = status]
        ELSE [Idle EXCEPT !.pc = "done", !.status = status, !.dispatched = call[c].dispatched]]

\* The checks of execute before it looks at the controller.
EntryRefusal(c) ==
    IF ~cmd[c].valid THEN "INVALID"
    ELSE IF now < cmd[c].issued THEN "COMMAND_FROM_FUTURE"
    ELSE IF now > cmd[c].expires THEN "STALE_COMMAND"
    ELSE "ok"

_handle_command(c) ==
    /\ call[c].pc = "idle" /\ ThreadFree
    /\ call' = IF EntryRefusal(c) = "ok" THEN [call EXCEPT ![c].pc = "refresh"]
               ELSE Done(c, EntryRefusal(c))
    /\ UNCHANGED others

\* Mutant: a query is sent while the node closes.
_refresh_lifecycle_mutant(c) ==
    /\ call[c].pc = "refresh"
    /\ call' = [call EXCEPT ![c].pc = "waiting"]
    /\ \/ UNCHANGED future
       \/ future' = [p \in DOMAIN future |->
                       IF future[p] = None THEN "sent" ELSE future[p]]
    /\ UNCHANGED <<plant, topic, arriving, lifecycle, running, joint_state, closing, taken,
                   scenario>>

\* Queries are sent where none is pending, if both services are ready.
_refresh_lifecycle(c) ==
    /\ call[c].pc = "refresh"
    /\ call' = [call EXCEPT ![c].pc = "waiting"]
    /\ \/ UNCHANGED future
       \/ /\ ~closing
          /\ future' = [p \in DOMAIN future |->
                          IF future[p] = None THEN "sent" ELSE future[p]]
    /\ UNCHANGED <<plant, topic, arriving, lifecycle, running, joint_state, closing, taken,
                   scenario>>

\* The wait is over, by the answers, the deadline or close; the snapshot is read.
snapshot(c) ==
    /\ call[c].pc = "waiting"
    /\ call' = [call EXCEPT ![c] = [@ EXCEPT
                  !.pc = "check", !.snapshot = joint_state, !.observed = lifecycle.at,
                  !.controllers = lifecycle.controllers, !.hardware = lifecycle.hardware]]
    /\ UNCHANGED others

\* The checks between the snapshot and the dispatch, at dispatch_now_ns = now.
\* subscribers says whether the command topic had a subscriber in the snapshot.
DispatchRefusal(c, subscribers) ==
    LET s == call[c] IN
    IF now < cmd[c].issued THEN "COMMAND_FROM_FUTURE"
    ELSE IF now > cmd[c].expires THEN "STALE_COMMAND"
    ELSE IF s.observed > now \/ now - s.observed > SnapshotAge THEN "CONTROLLER_UNAVAILABLE"
    ELSE IF s.hardware # "active" THEN "CONTROL_SYSTEM_INACTIVE"
    ELSE IF s.controllers # "active" THEN "CONTROLLER_INACTIVE"
    ELSE IF ~subscribers THEN "COMMAND_RECEIVER_UNAVAILABLE"
    ELSE IF s.snapshot.seq = 0 THEN "STATE_UNAVAILABLE"
    ELSE IF s.snapshot.at > now \/ now - s.snapshot.at > StateAge THEN "STATE_STALE"
    ELSE "ok"

Check(c) ==
    /\ call[c].pc = "check"
    /\ \E subscribers \in BOOLEAN :
          call' = IF DispatchRefusal(c, subscribers) = "ok"
                  THEN [call EXCEPT ![c] = [@ EXCEPT
                          !.pc = "dispatch", !.dispatch_at = now, !.observed = 0,
                          !.controllers = None, !.hardware = None]]
                  ELSE Done(c, DispatchRefusal(c, subscribers))
    /\ UNCHANGED others

\* Mutant: the command is published before the subscribers are counted.
dispatch_position_mutant(c) ==
    /\ call[c].pc = "dispatch"
    /\ topic' = {c}
    /\ \/ call' = [call EXCEPT ![c].pc = "feedback", ![c].dispatched = TRUE]
       \/ call' = Done(c, "CONTROLLER_REJECTED")
    /\ UNCHANGED <<plant, arriving, gateway, taken, scenario>>

\* The command is published, or the topic has lost its subscriber.
dispatch_position(c) ==
    /\ call[c].pc = "dispatch"
    /\ \/ /\ topic' = {c}
          /\ call' = [call EXCEPT ![c].pc = "feedback", ![c].dispatched = TRUE]
       \/ call' = Done(c, "CONTROLLER_REJECTED") /\ UNCHANGED topic
    /\ UNCHANGED <<plant, arriving, gateway, taken, scenario>>

Distance(p, q) == IF p < q THEN q - p ELSE p - q

\* Mutant: the wait has no deadline.
wait_for_feedback_mutant(c) ==
    /\ call[c].pc = "feedback"
    /\ joint_state.seq > call[c].snapshot.seq
    /\ Distance(joint_state.position, cmd[c].target) <= Tolerance
    /\ call' = [call EXCEPT ![c].pc = "judge", ![c].feedback = joint_state]
    /\ UNCHANGED others

\* The wait ends with a later sample within the tolerance of the target, or at
\* the deadline with whatever later sample there is.
wait_for_feedback(c) ==
    /\ call[c].pc = "feedback"
    /\ call' = IF joint_state.seq > call[c].snapshot.seq
               THEN [call EXCEPT ![c].pc = "judge", ![c].feedback = joint_state]
               ELSE Done(c, "FEEDBACK_TIMEOUT")
    /\ UNCHANGED others

\* Any observable motion counts, whatever set the joint in motion.
state_changed(s) == Distance(s.feedback.position, s.snapshot.position) >= LeastChange

target_reached(c) == Distance(call[c].feedback.position, cmd[c].target) <= Tolerance

\* Mutant: the feedback's time is not compared with the dispatch's.
Verdict_mutant(c) ==
    LET s == call[c] IN
    IF s.feedback.at > now THEN "STATE_STALE"
    ELSE IF ~state_changed(s) \/ ~target_reached(c) THEN "TARGET_NOT_REACHED"
    ELSE "COMPLETED"

Verdict(c) ==
    LET s == call[c] IN
    IF s.feedback.at < s.dispatch_at \/ s.feedback.at > now THEN "STATE_STALE"
    ELSE IF ~state_changed(s) \/ ~target_reached(c) THEN "TARGET_NOT_REACHED"
    ELSE "COMPLETED"

Judge(c) ==
    /\ call[c].pc = "judge"
    /\ call' = Done(c, Verdict(c))
    /\ UNCHANGED others
--------------------------------------------------------------------------------
Handler(c) ==
    \/ _refresh_lifecycle(c) \/ snapshot(c) \/ Check(c) \/ dispatch_position(c)
    \/ wait_for_feedback(c) \/ Judge(c)

Environment ==
    \/ Tick \/ ClockMessage \/ TakeCommand \/ Move \/ Broadcast
    \/ \E part \in DOMAIN future : Reconfigure(part) \/ Serve(part)

Next ==
    \/ Environment
    \/ \E s \in arriving : _on_joint_state(s)
    \/ \E part \in DOMAIN future : StartCallback(part) \/ _on_lifecycle(part)
    \/ close
    \/ \E c \in Ids : _handle_command(c) \/ Handler(c)

Spec == Init /\ [][Next]_vars

\* A handler's steps are code of a running thread, and both of its waits are
\* bounded by the wall clock, whatever the simulation and the services do.
FairSpec == Spec /\ \A c \in Ids : WF_vars(Handler(c))
--------------------------------------------------------------------------------
(* Properties. *)

Sample == [position: 0..MaxPosition, at: 0..scenario.MaxTime, seq: 0..scenario.MaxSamples]

\* The node, its gateway and the controller have their types, and no more
\* handlers and callbacks run than the executor has threads.
TypeOK ==
    /\ time \in 0..scenario.MaxTime /\ now \in 0..time
    /\ position \in 0..MaxPosition /\ goal \in 0..MaxPosition
    /\ topic \subseteq Ids /\ taken \subseteq Ids
    /\ manager \in [{"controllers", "hardware"} -> {"active", "inactive"}]
    /\ arriving \subseteq [position: 0..MaxPosition, at: 0..scenario.MaxTime]
    /\ Cardinality(Handling) + Cardinality(Callbacks) <= Threads
    /\ running \in [{"controllers", "hardware"} -> {None} \cup Lifecycle]
    /\ future \in [{"controllers", "hardware"} -> {None, "sent"} \cup Lifecycle]
    /\ joint_state \in Sample
    /\ \A c \in Ids : call[c].snapshot \in Sample /\ call[c].feedback \in Sample

\* A command reported COMPLETED was published, and two joint states back the
\* report, though states are handled out of order and the clock lags: one taken
\* no later than the dispatch, and one taken no earlier, numbered later by the
\* gateway, within the tolerance of the target and an observable change away
\* from the first.
CompletedIsObserved ==
    \A c \in Ids : call[c].status = "COMPLETED" =>
        LET before == call[c].snapshot  after == call[c].feedback
        IN  /\ call[c].dispatched
            /\ before.at <= call[c].dispatch_at /\ call[c].dispatch_at <= after.at
            /\ before.seq < after.seq
            /\ Distance(after.position, cmd[c].target) <= Tolerance
            /\ Distance(after.position, before.position) >= LeastChange

\* A command whose result denies the dispatch never reaches the controller.
UndispatchedNeverTaken ==
    /\ TypeOK
    /\ \A c \in Ids : ~call[c].dispatched => c \notin topic \cup taken

\* Once the node closes it keeps quiet: no query is sent or left pending, and what
\* it knows of the lifecycles changes no more, whatever handler was about to
\* refresh and whichever answer is late.
ClosedIsFinal ==
    [][closing => lifecycle' = lifecycle /\ future' = NoQueries]_vars

\* Every command that was taken up is answered, even with every thread held by a
\* handler that waits for a callback no thread can run.
CommandsAnswered ==
    \A c \in Ids : call[c].pc # "idle" ~> call[c].pc = "done"
================================================================================
