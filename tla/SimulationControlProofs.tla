------------------------ MODULE SimulationControlProofs ------------------------
(***************************************************************************)
(* Proofs about SimulationControl, for any commands, any number of         *)
(* threads, any limits on the ages and any scenarios.                      *)
(***************************************************************************)
EXTENDS SimulationControl, FiniteSetTheorems, TLAPS

Parts == {"controllers", "hardware"}

Status == {None, "INVALID", "COMMAND_FROM_FUTURE", "STALE_COMMAND", "CONTROLLER_UNAVAILABLE",
           "CONTROL_SYSTEM_INACTIVE", "CONTROLLER_INACTIVE", "COMMAND_RECEIVER_UNAVAILABLE",
           "STATE_UNAVAILABLE", "STATE_STALE", "CONTROLLER_REJECTED", "FEEDBACK_TIMEOUT",
           "TARGET_NOT_REACHED", "COMPLETED"}

Phase == {"idle", "refresh", "waiting", "check", "dispatch", "feedback", "judge", "done"}

CallState == [pc: Phase, status: Status, snapshot: Sample, controllers: {None} \cup Lifecycle,
              hardware: {None} \cup Lifecycle, observed: Nat, dispatch_at: Nat,
              feedback: Sample, dispatched: BOOLEAN]

\* The simulation: the joint states published are bounded by the scenario, and
\* every one not handled is among them.
PlantTypes ==
    /\ scenario \in Scenario
    /\ time \in 0..scenario.MaxTime /\ now \in 0..time
    /\ position \in 0..MaxPosition /\ goal \in 0..MaxPosition
    /\ topic \subseteq Ids /\ taken \subseteq Ids
    /\ manager \in [Parts -> {"active", "inactive"}]
    /\ arriving \subseteq [position: 0..MaxPosition, at: 0..scenario.MaxTime]
    /\ IsFiniteSet(arriving)
    /\ samples \in 0..scenario.MaxSamples

GatewayTypes ==
    /\ lifecycle \in [controllers: Lifecycle, hardware: Lifecycle, at: Nat]
    /\ running \in [Parts -> {None} \cup Lifecycle]
    /\ future \in [Parts -> {None, "sent"} \cup Lifecycle]
    /\ joint_state \in Sample
    /\ closing \in BOOLEAN

\* A sequence number of the gateway was a joint state that has been handled.
SamplesCounted == joint_state.seq + Cardinality(arriving) <= samples

CallTypes == call \in [Ids -> CallState]

ThreadsBound ==
    /\ IsFiniteSet(Handling)
    /\ Cardinality(Handling) + Cardinality(Callbacks) <= Threads

TypeInv == PlantTypes /\ GatewayTypes /\ SamplesCounted /\ CallTypes /\ ThreadsBound

--------------------------------------------------------------------------------
(* Threads: a step that takes none up, and one that takes up a free one. *)

LEMMA CallbacksFinite ==
    ASSUME running \in [Parts -> {None} \cup Lifecycle]
    PROVE  IsFiniteSet(Callbacks)
<1>1. IsFiniteSet({"controllers"})
  BY FS_Singleton
<1>2. IsFiniteSet({"controllers"} \cup {"hardware"})
  BY <1>1, FS_AddElement
<1> QED
  BY <1>2, FS_Subset, Callbacks \subseteq {"controllers"} \cup {"hardware"} DEF Callbacks, Parts

LEMMA NoThreadTaken ==
    ASSUME NEW H, NEW K, NEW H1, NEW K1, IsFiniteSet(H), IsFiniteSet(K),
           H1 \subseteq H, K1 \subseteq K, Cardinality(H) + Cardinality(K) <= Threads
    PROVE  /\ IsFiniteSet(H1)
           /\ Cardinality(H1) + Cardinality(K1) <= Threads
<1>1. /\ IsFiniteSet(H1) /\ IsFiniteSet(K1)
      /\ Cardinality(H1) <= Cardinality(H) /\ Cardinality(K1) <= Cardinality(K)
  BY FS_Subset
<1>2. /\ Cardinality(H) \in Nat /\ Cardinality(K) \in Nat
      /\ Cardinality(H1) \in Nat /\ Cardinality(K1) \in Nat
  BY <1>1, FS_CardinalityType
<1> QED
  BY <1>1, <1>2, ConstantsAssumption

LEMMA AtMostOneMore ==
    ASSUME NEW S, NEW T, NEW x, IsFiniteSet(S), T \subseteq S \cup {x}
    PROVE  /\ IsFiniteSet(T) /\ Cardinality(T) \in Nat /\ Cardinality(S) \in Nat
           /\ Cardinality(T) <= Cardinality(S) + 1
<1>1. /\ IsFiniteSet(S \cup {x})
      /\ Cardinality(S \cup {x}) = Cardinality(S) \/ Cardinality(S \cup {x}) = Cardinality(S) + 1
  BY FS_AddElement
<1>2. IsFiniteSet(T) /\ Cardinality(T) <= Cardinality(S \cup {x})
  BY <1>1, FS_Subset
<1>3. Cardinality(T) \in Nat /\ Cardinality(S) \in Nat /\ Cardinality(S \cup {x}) \in Nat
  BY <1>1, <1>2, FS_CardinalityType
<1> QED
  BY <1>1, <1>2, <1>3

LEMMA FreeThreadTaken ==
    ASSUME NEW H, NEW K, NEW H1, NEW K1, IsFiniteSet(H), IsFiniteSet(K), NEW x,
           \/ H1 \subseteq H \cup {x} /\ K1 \subseteq K
           \/ H1 \subseteq H /\ K1 \subseteq K \cup {x},
           Cardinality(H) + Cardinality(K) < Threads
    PROVE  /\ IsFiniteSet(H1)
           /\ Cardinality(H1) + Cardinality(K1) <= Threads
<1>1. CASE H1 \subseteq H \cup {x} /\ K1 \subseteq K
  <2>1. Cardinality(H1) <= Cardinality(H) + 1 /\ IsFiniteSet(H1)
    BY <1>1, AtMostOneMore
  <2>2. Cardinality(K1) <= Cardinality(K) /\ IsFiniteSet(K1)
    BY <1>1, FS_Subset
  <2> QED
    BY <2>1, <2>2, FS_CardinalityType, ConstantsAssumption
<1>2. CASE H1 \subseteq H /\ K1 \subseteq K \cup {x}
  <2>1. Cardinality(K1) <= Cardinality(K) + 1 /\ IsFiniteSet(K1)
    BY <1>2, AtMostOneMore
  <2>2. Cardinality(H1) <= Cardinality(H) /\ IsFiniteSet(H1)
    BY <1>2, FS_Subset
  <2> QED
    BY <2>1, <2>2, FS_CardinalityType, ConstantsAssumption
<1> QED
  BY <1>1, <1>2

--------------------------------------------------------------------------------
(* The types. *)

LEMMA InitTypes ==
    ASSUME Init
    PROVE  TypeInv
<1>1. scenario \in Scenario
  BY ConstantsAssumption DEF Init
<1>2. IsFiniteSet({}) /\ Cardinality({}) = 0
  BY FS_EmptySet
<1>3. Handling = {} /\ Callbacks = {}
  BY DEF Init, Handling, Callbacks, Idle, NoQueries, None
<1>4. NoSample \in Sample
  BY <1>1, ConstantsAssumption DEF NoSample, Sample, Scenario
<1>5. PlantTypes
  BY <1>1, <1>2, ConstantsAssumption DEF Init, PlantTypes, Scenario, Parts
<1>6. GatewayTypes
  <2>1. lifecycle \in [controllers: Lifecycle, hardware: Lifecycle, at: Nat]
    BY DEF Init, Lifecycle
  <2>2. NoQueries \in [Parts -> {None} \cup Lifecycle]
    BY DEF NoQueries, Parts
  <2>3. NoQueries \in [Parts -> {None, "sent"} \cup Lifecycle]
    BY DEF NoQueries, Parts
  <2> QED
    BY <1>4, <2>1, <2>2, <2>3 DEF Init, GatewayTypes
<1>7. SamplesCounted
  BY <1>2 DEF Init, SamplesCounted, NoSample
<1>8. CallTypes
  BY <1>4 DEF Init, CallTypes, CallState, Idle, Phase, Status, None, Lifecycle
<1>9. ThreadsBound
  BY <1>2, <1>3, ConstantsAssumption DEF ThreadsBound
<1> QED
  BY <1>5, <1>6, <1>7, <1>8, <1>9 DEF TypeInv

\* A step that leaves the handlers and the callbacks alone takes no thread.
LEMMA ThreadsUnchanged ==
    ASSUME ThreadsBound, call' = call, running' = running
    PROVE  ThreadsBound'
BY DEF ThreadsBound, Handling, Callbacks

LEMMA EnvironmentTypes ==
    ASSUME TypeInv, Environment
    PROVE  TypeInv' /\ scenario' = scenario
<1> USE DEF TypeInv, plant, gateway
<1>1. CASE Tick
  <2>1. PlantTypes'
    BY <1>1 DEF Tick, PlantTypes, Scenario
  <2>2. scenario' = scenario /\ GatewayTypes' /\ SamplesCounted' /\ CallTypes'
    BY <1>1 DEF Tick, GatewayTypes, SamplesCounted, CallTypes, CallState, Sample
  <2> QED
    BY <1>1, <2>1, <2>2, ThreadsUnchanged DEF Tick
<1>2. CASE ClockMessage
  <2>1. PlantTypes'
    BY <1>2 DEF ClockMessage, PlantTypes, Scenario
  <2>2. scenario' = scenario /\ GatewayTypes' /\ SamplesCounted' /\ CallTypes'
    BY <1>2 DEF ClockMessage, GatewayTypes, SamplesCounted, CallTypes, CallState, Sample
  <2> QED
    BY <1>2, <2>1, <2>2, ThreadsUnchanged DEF ClockMessage
<1>3. CASE TakeCommand
  <2>1. PlantTypes'
    BY <1>3, ConstantsAssumption DEF TakeCommand, PlantTypes, Request
  <2>2. scenario' = scenario /\ GatewayTypes' /\ SamplesCounted' /\ CallTypes'
    BY <1>3 DEF TakeCommand, GatewayTypes, SamplesCounted, CallTypes, CallState, Sample
  <2> QED
    BY <1>3, <2>1, <2>2, ThreadsUnchanged DEF TakeCommand
<1>4. CASE Move
  <2>1. PlantTypes'
    BY <1>4, ConstantsAssumption DEF Move, PlantTypes
  <2>2. scenario' = scenario /\ GatewayTypes' /\ SamplesCounted' /\ CallTypes'
    BY <1>4 DEF Move, GatewayTypes, SamplesCounted, CallTypes, CallState, Sample
  <2> QED
    BY <1>4, <2>1, <2>2, ThreadsUnchanged DEF Move
<1>5. CASE Broadcast
  <2>1. /\ IsFiniteSet(arriving') /\ Cardinality(arriving) \in Nat
        /\ Cardinality(arriving') \in Nat
        /\ Cardinality(arriving') <= Cardinality(arriving) + 1
    BY <1>5, AtMostOneMore DEF Broadcast, PlantTypes
  <2>2. PlantTypes'
    BY <1>5, <2>1 DEF Broadcast, PlantTypes, Scenario
  <2>3. scenario' = scenario /\ GatewayTypes' /\ CallTypes'
    BY <1>5 DEF Broadcast, GatewayTypes, CallTypes, CallState, Sample
  <2>4. SamplesCounted'
    BY <1>5, <2>1 DEF Broadcast, SamplesCounted, PlantTypes, GatewayTypes, Sample, Scenario
  <2> QED
    BY <1>5, <2>2, <2>3, <2>4, ThreadsUnchanged DEF Broadcast
<1>6. ASSUME NEW part \in DOMAIN future, Reconfigure(part)
      PROVE  TypeInv' /\ scenario' = scenario
  <2>1. PlantTypes'
    BY <1>6 DEF Reconfigure, PlantTypes
  <2>2. scenario' = scenario /\ GatewayTypes' /\ SamplesCounted' /\ CallTypes'
    BY <1>6 DEF Reconfigure, GatewayTypes, SamplesCounted, CallTypes, CallState, Sample
  <2> QED
    BY <1>6, <2>1, <2>2, ThreadsUnchanged DEF Reconfigure
<1>7. ASSUME NEW part \in DOMAIN future, Serve(part)
      PROVE  TypeInv' /\ scenario' = scenario
  <2>1. scenario' = scenario /\ PlantTypes' /\ SamplesCounted' /\ CallTypes'
    BY <1>7 DEF Serve, PlantTypes, SamplesCounted, CallTypes, CallState, Sample
  <2>2. GatewayTypes'
    BY <1>7 DEF Serve, GatewayTypes, PlantTypes, Sample, Lifecycle
  <2> QED
    BY <1>7, <2>1, <2>2, ThreadsUnchanged DEF Serve
<1> QED
  BY <1>1, <1>2, <1>3, <1>4, <1>5, <1>6, <1>7 DEF Environment

LEMMA CallbackTypes ==
    ASSUME TypeInv,
           \/ \E s \in arriving : _on_joint_state(s)
           \/ \E part \in DOMAIN future : StartCallback(part) \/ _on_lifecycle(part)
           \/ close
    PROVE  TypeInv' /\ scenario' = scenario
<1> USE DEF TypeInv, plant
<1>1. ASSUME NEW s \in arriving, _on_joint_state(s)
      PROVE  TypeInv' /\ scenario' = scenario
  <2>1. IsFiniteSet(arriving') /\ Cardinality(arriving) \in Nat
        /\ Cardinality(arriving') = Cardinality(arriving) - 1
    BY <1>1, FS_RemoveElement, FS_CardinalityType DEF _on_joint_state, PlantTypes
  <2>2. Cardinality(arriving') \in Nat
    BY <2>1, FS_CardinalityType
  <2>3. scenario' = scenario /\ PlantTypes' /\ CallTypes'
    BY <1>1, <2>1 DEF _on_joint_state, PlantTypes, CallTypes, CallState, Sample
  <2>4. joint_state' \in Sample /\ SamplesCounted'
    BY <1>1, <2>1, <2>2
    DEF _on_joint_state, PlantTypes, GatewayTypes, SamplesCounted, Sample, Scenario
  <2>5. GatewayTypes'
    BY <1>1, <2>4 DEF _on_joint_state, GatewayTypes, Sample
  <2> QED
    BY <1>1, <2>3, <2>4, <2>5, ThreadsUnchanged DEF _on_joint_state
<1>2. ASSUME NEW part \in DOMAIN future, StartCallback(part)
      PROVE  TypeInv' /\ scenario' = scenario
  <2>1. scenario' = scenario /\ PlantTypes' /\ SamplesCounted' /\ CallTypes'
    BY <1>2 DEF StartCallback, PlantTypes, SamplesCounted, CallTypes, CallState, Sample
  <2>2. GatewayTypes'
    BY <1>2 DEF StartCallback, GatewayTypes, Sample
  <2>3. Handling' \subseteq Handling /\ Callbacks' \subseteq Callbacks \cup {part}
    BY <1>2 DEF StartCallback, Handling, Callbacks, GatewayTypes
  <2>4. IsFiniteSet(Callbacks)
    BY CallbacksFinite DEF GatewayTypes
  <2>5. ThreadsBound'
    BY <1>2, <2>3, <2>4, FreeThreadTaken DEF StartCallback, ThreadFree, ThreadsBound
  <2> QED
    BY <2>1, <2>2, <2>5
<1>3. ASSUME NEW part \in DOMAIN future, _on_lifecycle(part)
      PROVE  TypeInv' /\ scenario' = scenario
  <2>1. scenario' = scenario /\ PlantTypes' /\ SamplesCounted' /\ CallTypes'
    BY <1>3 DEF _on_lifecycle, PlantTypes, SamplesCounted, CallTypes, CallState, Sample
  <2>2. part \in Parts /\ running[part] \in Lifecycle
    BY <1>3 DEF _on_lifecycle, GatewayTypes
  <2>3. lifecycle' \in [controllers: Lifecycle, hardware: Lifecycle, at: Nat]
    <3>1. now \in Nat
      BY DEF PlantTypes, Scenario
    <3>2. CASE part = "controllers"
      BY <1>3, <2>2, <3>1, <3>2 DEF _on_lifecycle, GatewayTypes
    <3>3. CASE part = "hardware"
      BY <1>3, <2>2, <3>1, <3>3 DEF _on_lifecycle, GatewayTypes
    <3> QED
      BY <2>2, <3>2, <3>3 DEF Parts
  <2>4. GatewayTypes'
    BY <1>3, <2>3 DEF _on_lifecycle, GatewayTypes, Sample
  <2>5. Handling' \subseteq Handling /\ Callbacks' \subseteq Callbacks
    BY <1>3 DEF _on_lifecycle, Handling, Callbacks, GatewayTypes
  <2>6. IsFiniteSet(Callbacks)
    BY CallbacksFinite DEF GatewayTypes
  <2>7. ThreadsBound'
    BY <2>5, <2>6, NoThreadTaken DEF ThreadsBound
  <2> QED
    BY <2>1, <2>4, <2>7
<1>4. CASE close
  <2>1. scenario' = scenario /\ PlantTypes' /\ SamplesCounted' /\ CallTypes'
    BY <1>4 DEF close, PlantTypes, SamplesCounted, CallTypes, CallState, Sample
  <2>2. NoQueries \in [Parts -> {None, "sent"} \cup Lifecycle]
    BY DEF NoQueries, Parts
  <2>3. GatewayTypes'
    BY <1>4, <2>2 DEF close, GatewayTypes, Sample
  <2> QED
    BY <1>4, <2>1, <2>3, ThreadsUnchanged DEF close
<1> QED
  BY <1>1, <1>2, <1>3, <1>4

--------------------------------------------------------------------------------
(* A command's handler changes the state of its own call only. *)

OnlyCall(c) == \A d \in Ids : d # c => call'[d] = call[d]

\* What is known of the result Done makes.
LEMMA DoneResult ==
    ASSUME CallTypes, GatewayTypes, NEW c \in Ids, NEW status \in Status,
           NoSample \in Sample, call' = Done(c, status)
    PROVE  /\ call' \in [Ids -> CallState] /\ OnlyCall(c)
           /\ call'[c].pc = "done" /\ call'[c].status = status
           /\ call'[c].dispatched = call[c].dispatched
           /\ status = "COMPLETED" =>
                 call'[c] = [call[c] EXCEPT !.pc = "done", !.status = status]
<1>1. CASE status = "COMPLETED"
  <2>1. call' = [call EXCEPT ![c] = [call[c] EXCEPT !.pc = "done", !.status = status]]
    BY <1>1 DEF Done
  <2>2. [call[c] EXCEPT !.pc = "done", !.status = status] \in CallState
    BY DEF CallTypes, CallState, Phase
  <2> QED
    BY <2>1, <2>2 DEF CallTypes, CallState, OnlyCall
<1>2. CASE status # "COMPLETED"
  <2> DEFINE r == [Idle EXCEPT !.pc = "done", !.status = status,
                                !.dispatched = call[c].dispatched]
  <2>1. call' = [call EXCEPT ![c] = r]
    BY <1>2 DEF Done
  <2>2. r \in CallState /\ r.pc = "done" /\ r.status = status
        /\ r.dispatched = call[c].dispatched
    BY DEF CallTypes, CallState, Phase, Idle
  <2> QED
    BY <1>2, <2>1, <2>2 DEF CallTypes, OnlyCall
<1> QED
  BY <1>1, <1>2

\* Every handler step is of one of these kinds: it moves its call, or ends it.
LEMMA HandlerTypes ==
    ASSUME TypeInv, NEW c \in Ids, _handle_command(c) \/ Handler(c)
    PROVE  TypeInv' /\ scenario' = scenario /\ OnlyCall(c)
<1> USE DEF TypeInv, others, plant, gateway
<1>1. NoSample \in Sample
  BY ConstantsAssumption DEF PlantTypes, Scenario, Sample, NoSample
<1>2. scenario' = scenario /\ PlantTypes' /\ SamplesCounted' /\ GatewayTypes'
  <2>1. CASE _refresh_lifecycle(c)
    BY <2>1 DEF _refresh_lifecycle, PlantTypes, GatewayTypes, SamplesCounted, Sample
  <2>2. CASE dispatch_position(c)
    BY <2>2 DEF dispatch_position, PlantTypes, GatewayTypes, SamplesCounted, Sample
  <2>3. CASE \/ _handle_command(c) \/ snapshot(c) \/ Check(c) \/ wait_for_feedback(c)
             \/ Judge(c)
    BY <2>3 DEF _handle_command, snapshot, Check, wait_for_feedback, Judge,
                PlantTypes, GatewayTypes, SamplesCounted, Sample
  <2> QED
    BY <2>1, <2>2, <2>3 DEF Handler
<1>3. CallTypes' /\ OnlyCall(c)
  <2> SUFFICES call' \in [Ids -> CallState] /\ OnlyCall(c)
    BY <1>2 DEF CallTypes, CallState, Sample
  <2>1. CASE _handle_command(c)
    <3>1. CASE EntryRefusal(c) = "ok"
      BY <2>1, <3>1 DEF _handle_command, CallTypes, CallState, Phase, OnlyCall
    <3>2. CASE EntryRefusal(c) # "ok"
      <4>1. EntryRefusal(c) \in Status
        BY <3>2 DEF EntryRefusal, Status
      <4> QED
        BY <1>1, <2>1, <3>2, <4>1, DoneResult DEF _handle_command
    <3> QED
      BY <3>1, <3>2
  <2>2. CASE _refresh_lifecycle(c)
    BY <2>2 DEF _refresh_lifecycle, CallTypes, CallState, Phase, OnlyCall
  <2>3. CASE snapshot(c)
    <3>1. lifecycle.at \in Nat /\ lifecycle.controllers \in Lifecycle
          /\ lifecycle.hardware \in Lifecycle /\ joint_state \in Sample
      BY DEF GatewayTypes
    <3> QED
      BY <2>3, <3>1 DEF snapshot, CallTypes, CallState, Phase, OnlyCall
  <2>4. CASE Check(c)
    <3>1. PICK subscribers \in BOOLEAN :
          call' = IF DispatchRefusal(c, subscribers) = "ok"
                  THEN [call EXCEPT ![c] = [@ EXCEPT
                          !.pc = "dispatch", !.dispatch_at = now, !.observed = 0,
                          !.controllers = None, !.hardware = None]]
                  ELSE Done(c, DispatchRefusal(c, subscribers))
      BY <2>4 DEF Check
    <3>2. CASE DispatchRefusal(c, subscribers) = "ok"
      <4>1. now \in Nat
        BY DEF PlantTypes, Scenario
      <4> QED
        BY <3>1, <3>2, <4>1 DEF CallTypes, CallState, Phase, OnlyCall
    <3>3. CASE DispatchRefusal(c, subscribers) # "ok"
      <4>1. DispatchRefusal(c, subscribers) \in Status
        BY <3>3 DEF DispatchRefusal, Status
      <4> QED
        BY <1>1, <3>1, <3>3, <4>1, DoneResult
    <3> QED
      BY <3>2, <3>3
  <2>5. CASE dispatch_position(c)
    <3>1. CASE call' = Done(c, "CONTROLLER_REJECTED")
      BY <1>1, <3>1, DoneResult DEF Status
    <3>2. CASE call' = [call EXCEPT ![c].pc = "feedback", ![c].dispatched = TRUE]
      <4>1. call \in [Ids -> CallState]
        BY DEF CallTypes
      <4>2. [call[c] EXCEPT !.pc = "feedback", !.dispatched = TRUE] \in CallState
        BY <4>1 DEF CallState, Phase
      <4>3. call' = [call EXCEPT ![c] =
                       [call[c] EXCEPT !.pc = "feedback", !.dispatched = TRUE]]
        BY <3>2, <4>1
      <4> QED
        BY <4>1, <4>2, <4>3 DEF OnlyCall
    <3> QED
      BY <2>5, <3>1, <3>2 DEF dispatch_position
  <2>6. CASE wait_for_feedback(c)
    <3>1. CASE call' = Done(c, "FEEDBACK_TIMEOUT")
      BY <1>1, <3>1, DoneResult DEF Status
    <3>2. CASE call' = [call EXCEPT ![c].pc = "judge", ![c].feedback = joint_state]
      <4>1. joint_state \in Sample /\ call \in [Ids -> CallState]
        BY DEF GatewayTypes, CallTypes
      <4>2. [call[c] EXCEPT !.pc = "judge", !.feedback = joint_state] \in CallState
        BY <4>1 DEF CallState, Phase
      <4>3. call' = [call EXCEPT ![c] =
                       [call[c] EXCEPT !.pc = "judge", !.feedback = joint_state]]
        BY <3>2, <4>1
      <4> QED
        BY <4>1, <4>2, <4>3 DEF OnlyCall
    <3> QED
      BY <2>6, <3>1, <3>2 DEF wait_for_feedback
  <2>7. CASE Judge(c)
    <3>1. Verdict(c) \in Status
      BY DEF Verdict, Status
    <3> QED
      BY <1>1, <2>7, <3>1, DoneResult DEF Judge
  <2> QED
    BY <2>1, <2>2, <2>3, <2>4, <2>5, <2>6, <2>7 DEF Handler
<1>4. running' = running
  BY DEF Handler, _handle_command, _refresh_lifecycle, snapshot, Check, dispatch_position,
         wait_for_feedback, Judge
<1>5. IsFiniteSet(Callbacks) /\ IsFiniteSet(Handling) /\ Callbacks' \subseteq Callbacks
  BY <1>4, CallbacksFinite DEF GatewayTypes, Callbacks, ThreadsBound
<1>6. ThreadsBound'
  <2>1. CASE _handle_command(c)
    <3>1. Handling' \subseteq Handling \cup {c}
      BY <1>3 DEF Handling, OnlyCall
    <3>2. Cardinality(Handling) + Cardinality(Callbacks) < Threads
      BY <2>1 DEF _handle_command, ThreadFree
    <3> QED
      BY <1>5, <3>1, <3>2, FreeThreadTaken DEF ThreadsBound
  <2>2. CASE Handler(c)
    <3>1. c \in Handling
      BY <2>2 DEF Handler, Handling, _refresh_lifecycle, snapshot, Check, dispatch_position,
                  wait_for_feedback, Judge
    <3>2. Handling' \subseteq Handling
      BY <1>3, <3>1 DEF Handling, OnlyCall
    <3> QED
      BY <1>5, <3>2, NoThreadTaken DEF ThreadsBound
  <2> QED
    BY <2>1, <2>2
<1> QED
  BY <1>2, <1>3, <1>6

LEMMA NextTypes ==
    ASSUME TypeInv, [Next]_vars
    PROVE  TypeInv' /\ scenario' = scenario
<1>1. CASE Next
  BY <1>1, EnvironmentTypes, CallbackTypes, HandlerTypes DEF Next
<1>2. CASE UNCHANGED vars
  <2>1. /\ scenario' = scenario /\ PlantTypes' /\ GatewayTypes' /\ SamplesCounted' /\ CallTypes'
        /\ call' = call /\ running' = running
    BY <1>2 DEF vars, TypeInv, PlantTypes, GatewayTypes, SamplesCounted, CallTypes,
                CallState, Sample
  <2> QED
    BY <2>1, ThreadsUnchanged DEF TypeInv
<1> QED
  BY <1>1, <1>2
--------------------------------------------------------------------------------
(* What a call has seen and done, as its handler goes on. *)

\* A call has a result only when it is done.  One that may dispatch started from
\* a sample that was not from its future; one past the dispatch has dispatched;
\* one that is judged has feedback of a later number.
CallOrdered(r, target) ==
    /\ r.pc # "done" => r.status = None
    /\ r.pc \in {"dispatch", "feedback", "judge"} => r.snapshot.at <= r.dispatch_at
    /\ r.pc \in {"feedback", "judge"} => r.dispatched
    /\ r.pc = "judge" => r.snapshot.seq < r.feedback.seq
    /\ r.status = "COMPLETED" =>
          /\ r.dispatched
          /\ r.snapshot.at <= r.dispatch_at /\ r.dispatch_at <= r.feedback.at
          /\ r.snapshot.seq < r.feedback.seq
          /\ Distance(r.feedback.position, target) <= Tolerance
          /\ Distance(r.feedback.position, r.snapshot.position) >= LeastChange

CallsOrdered == \A c \in Ids : CallOrdered(call[c], cmd[c].target)

\* Only a dispatched command is on the topic or was taken.
DispatchedBefore == \A c \in topic \cup taken : call[c].dispatched

\* No query is pending once the node closes.
ClosedIsQuiet == closing => future = NoQueries

IInv == TypeInv /\ CallsOrdered /\ DispatchedBefore /\ ClosedIsQuiet

LEMMA InitIInv ==
    ASSUME Init
    PROVE  IInv
<1>1. CallsOrdered
  BY DEF Init, CallsOrdered, CallOrdered, Idle, None
<1>2. DispatchedBefore /\ ClosedIsQuiet
  BY DEF Init, DispatchedBefore, ClosedIsQuiet
<1> QED
  BY <1>1, <1>2, InitTypes DEF IInv

\* A handler step keeps the order of its own call.
LEMMA HandlerOrdered ==
    ASSUME IInv, NEW c \in Ids, _handle_command(c) \/ Handler(c)
    PROVE  CallsOrdered' /\ (call[c].dispatched => call'[c].dispatched)
<1>1. TypeInv /\ TypeInv' /\ OnlyCall(c)
  BY HandlerTypes DEF IInv
<1>2. CallOrdered(call[c], cmd[c].target)
  BY DEF IInv, CallsOrdered
<1>3. NoSample \in Sample /\ CallTypes /\ GatewayTypes /\ call \in [Ids -> CallState]
  BY <1>1, ConstantsAssumption
  DEF TypeInv, CallTypes, PlantTypes, Scenario, Sample, NoSample
<1>4. ASSUME NEW status \in Status, status # "COMPLETED", call' = Done(c, status)
      PROVE  CallOrdered(call'[c], cmd[c].target) /\ call'[c].dispatched = call[c].dispatched
  BY <1>3, <1>4, DoneResult DEF CallOrdered
<1>5. CallOrdered(call'[c], cmd[c].target) /\ (call[c].dispatched => call'[c].dispatched)
  <2>1. CASE _handle_command(c)
    <3>1. CASE EntryRefusal(c) = "ok"
      BY <1>2, <1>3, <2>1, <3>1 DEF _handle_command, CallOrdered, CallState
    <3>2. CASE EntryRefusal(c) # "ok"
      <4>1. EntryRefusal(c) \in Status \ {"COMPLETED"}
        BY <3>2 DEF EntryRefusal, Status
      <4> QED
        BY <1>4, <2>1, <3>2, <4>1 DEF _handle_command
    <3> QED
      BY <3>1, <3>2
  <2>2. CASE _refresh_lifecycle(c)
    BY <1>2, <1>3, <2>2 DEF _refresh_lifecycle, CallOrdered, CallState
  <2>3. CASE snapshot(c)
    BY <1>2, <1>3, <2>3 DEF snapshot, CallOrdered, CallState, None
  <2>4. CASE Check(c)
    <3>1. PICK subscribers \in BOOLEAN :
          call' = IF DispatchRefusal(c, subscribers) = "ok"
                  THEN [call EXCEPT ![c] = [@ EXCEPT
                          !.pc = "dispatch", !.dispatch_at = now, !.observed = 0,
                          !.controllers = None, !.hardware = None]]
                  ELSE Done(c, DispatchRefusal(c, subscribers))
      BY <2>4 DEF Check
    <3>2. CASE DispatchRefusal(c, subscribers) = "ok"
      <4>1. ~(call[c].snapshot.at > now)
        BY <3>2 DEF DispatchRefusal
      <4>2. call[c].snapshot.at \in Int /\ now \in Int
        BY <1>1, <1>3 DEF CallState, Sample, TypeInv, PlantTypes, Scenario
      <4>3. call[c].snapshot.at <= now
        BY <4>1, <4>2
      <4> QED
        BY <1>2, <1>3, <2>4, <3>1, <3>2, <4>3 DEF Check, CallOrdered, CallState, None
    <3>3. CASE DispatchRefusal(c, subscribers) # "ok"
      <4>1. DispatchRefusal(c, subscribers) \in Status \ {"COMPLETED"}
        BY <3>3 DEF DispatchRefusal, Status
      <4> QED
        BY <1>4, <3>1, <3>3, <4>1
    <3> QED
      BY <3>2, <3>3
  <2>5. CASE dispatch_position(c)
    <3>1. CASE call' = Done(c, "CONTROLLER_REJECTED")
      BY <1>4, <3>1 DEF Status
    <3>2. CASE call' = [call EXCEPT ![c].pc = "feedback", ![c].dispatched = TRUE]
      BY <1>2, <1>3, <2>5, <3>2 DEF dispatch_position, CallOrdered, CallState, None
    <3> QED
      BY <2>5, <3>1, <3>2 DEF dispatch_position
  <2>6. CASE wait_for_feedback(c)
    <3>1. CASE call' = Done(c, "FEEDBACK_TIMEOUT")
      BY <1>4, <3>1 DEF Status
    <3>2. CASE call' = [call EXCEPT ![c].pc = "judge", ![c].feedback = joint_state]
      <4>1. joint_state.seq > call[c].snapshot.seq
        <5>1. call'[c].pc = "judge"
          BY <1>3, <3>2 DEF CallState
        <5>2. "FEEDBACK_TIMEOUT" \in Status
          BY DEF Status
        <5> QED
          BY <1>3, <2>6, <5>1, <5>2, DoneResult DEF wait_for_feedback
      <4>2. call[c].snapshot.seq \in Int /\ joint_state.seq \in Int
        BY <1>1, <1>3 DEF CallState, GatewayTypes, Sample, TypeInv, PlantTypes, Scenario
      <4>3. call[c].snapshot.seq < joint_state.seq
        BY <4>1, <4>2
      <4>4. call'[c] = [call[c] EXCEPT !.pc = "judge", !.feedback = joint_state]
        BY <1>3, <3>2
      <4> QED
        BY <1>2, <1>3, <2>6, <4>3, <4>4 DEF wait_for_feedback, CallOrdered, CallState, None
    <3> QED
      BY <2>6, <3>1, <3>2 DEF wait_for_feedback
  <2>7. CASE Judge(c)
    <3>1. CASE Verdict(c) = "COMPLETED"
      <4>1. /\ ~(call[c].feedback.at < call[c].dispatch_at)
            /\ Distance(call[c].feedback.position, cmd[c].target) <= Tolerance
            /\ Distance(call[c].feedback.position, call[c].snapshot.position) >= LeastChange
        BY <3>1 DEF Verdict, state_changed, target_reached
      <4>2. call[c].feedback.at \in Int /\ call[c].dispatch_at \in Int
        BY <1>3 DEF CallState, Sample
      <4>3. call[c].dispatch_at <= call[c].feedback.at
        BY <4>1, <4>2
      <4>4. call'[c] = [call[c] EXCEPT !.pc = "done", !.status = "COMPLETED"]
        BY <1>3, <2>7, <3>1, DoneResult DEF Judge, Status
      <4> QED
        BY <1>2, <1>3, <2>7, <4>1, <4>3, <4>4 DEF Judge, CallOrdered, CallState
    <3>2. CASE Verdict(c) # "COMPLETED"
      BY <1>4, <2>7, <3>2 DEF Judge, Verdict, Status
    <3> QED
      BY <3>1, <3>2
  <2> QED
    BY <2>1, <2>2, <2>3, <2>4, <2>5, <2>6, <2>7 DEF Handler
<1>6. CallsOrdered'
  BY <1>1, <1>5 DEF CallsOrdered, OnlyCall, IInv
<1> QED
  BY <1>5, <1>6

LEMMA NextIInv ==
    ASSUME IInv, [Next]_vars
    PROVE  IInv'
<1>1. TypeInv' /\ TypeInv
  BY NextTypes DEF IInv
<1>2. ASSUME NEW c \in Ids, _handle_command(c) \/ Handler(c)
      PROVE  IInv'
  <2>1. CallsOrdered' /\ (call[c].dispatched => call'[c].dispatched) /\ OnlyCall(c)
    BY <1>1, <1>2, HandlerOrdered, HandlerTypes
  <2>2. taken' = taken /\ (topic' = topic \/ (topic' = {c} /\ call'[c].dispatched))
    <3>1. CASE dispatch_position(c)
      <4>1. call \in [Ids -> CallState]
        BY <1>1 DEF TypeInv, CallTypes
      <4>2. ASSUME call' = [call EXCEPT ![c].pc = "feedback", ![c].dispatched = TRUE]
            PROVE  call'[c].dispatched
        BY <4>1, <4>2 DEF CallState
      <4> QED
        BY <3>1, <4>2 DEF dispatch_position
    <3>2. CASE \/ _handle_command(c) \/ _refresh_lifecycle(c) \/ snapshot(c) \/ Check(c)
               \/ wait_for_feedback(c) \/ Judge(c)
      BY <3>2 DEF _handle_command, _refresh_lifecycle, snapshot, Check,
                  wait_for_feedback, Judge, others
    <3> QED
      BY <1>2, <3>1, <3>2 DEF Handler
  <2>3. DispatchedBefore'
    BY <1>1, <2>1, <2>2 DEF IInv, DispatchedBefore, OnlyCall, TypeInv, PlantTypes
  <2>4. closing' = closing /\ (closing => future' = future)
    BY <1>2 DEF _handle_command, Handler, _refresh_lifecycle, snapshot, Check,
                dispatch_position, wait_for_feedback, Judge, others, plant, gateway
  <2> QED
    BY <1>1, <2>1, <2>3, <2>4 DEF IInv, ClosedIsQuiet
<1>3. CASE Environment
  <2>1. call' = call /\ topic' \cup taken' \subseteq topic \cup taken /\ closing' = closing
    BY <1>3 DEF Environment, Tick, ClockMessage, TakeCommand, Move, Broadcast, Reconfigure,
                Serve, plant, gateway
  <2>2. future = NoQueries => future' = future
    <3>1. ASSUME NEW part \in DOMAIN future, Serve(part), future = NoQueries
          PROVE  FALSE
      BY <3>1 DEF Serve, NoQueries, None
    <3>2. CASE \/ Tick \/ ClockMessage \/ TakeCommand \/ Move \/ Broadcast
               \/ \E part \in DOMAIN future : Reconfigure(part)
      BY <3>2 DEF Tick, ClockMessage, TakeCommand, Move, Broadcast, Reconfigure, gateway
    <3> QED
      BY <1>3, <3>1, <3>2 DEF Environment
  <2> QED
    BY <1>1, <2>1, <2>2 DEF IInv, CallsOrdered, DispatchedBefore, ClosedIsQuiet
<1>4. CASE \/ \E s \in arriving : _on_joint_state(s)
           \/ \E part \in DOMAIN future : StartCallback(part) \/ _on_lifecycle(part)
           \/ close
           \/ UNCHANGED vars
  <2>1. call' = call /\ topic' = topic /\ taken' = taken
    BY <1>4 DEF _on_joint_state, StartCallback, _on_lifecycle, close, vars, plant
  <2>2. ClosedIsQuiet'
    BY <1>4 DEF IInv, ClosedIsQuiet, _on_joint_state, StartCallback, _on_lifecycle, close, vars
  <2> QED
    BY <1>1, <2>1, <2>2 DEF IInv, CallsOrdered, DispatchedBefore
<1> QED
  BY <1>2, <1>3, <1>4 DEF Next

\* The inductive invariant of the development control.
LEMMA SpecIInv == Spec => []IInv
BY InitIInv, NextIInv, PTL DEF Spec

--------------------------------------------------------------------------------
(* The theorems. *)

\* A command reported COMPLETED (adapter.execute) was published, and a sample
\* taken at or after its dispatch shows the joint at the target it was not at.
THEOREM CompletionObserved == Spec => []CompletedIsObserved
<1>1. IInv => CompletedIsObserved
  BY DEF IInv, CallsOrdered, CallOrdered, CompletedIsObserved
<1> QED
  BY <1>1, SpecIInv, PTL

\* The node keeps its types, runs no more callbacks than it has threads, and a
\* command whose result denies the dispatch never reaches the controller.
THEOREM DenialIsTrue == Spec => []UndispatchedNeverTaken
<1>1. IInv => TypeOK
  BY DEF IInv, TypeInv, PlantTypes, GatewayTypes, ThreadsBound, CallTypes, CallState,
         TypeOK, Parts
<1>2. IInv => UndispatchedNeverTaken
  BY <1>1 DEF IInv, UndispatchedNeverTaken, DispatchedBefore
<1> QED
  BY <1>2, SpecIInv, PTL

\* Once the node closes (close, under the gateway's lock) no query is sent or
\* left pending and what it knows of the lifecycles changes no more.
THEOREM ClosedStaysFinal == Spec => ClosedIsFinal
<1>1. ASSUME IInv, [Next]_vars
      PROVE  [closing => lifecycle' = lifecycle /\ future' = NoQueries]_vars
  <2>1. ClosedIsQuiet /\ ClosedIsQuiet'
    BY <1>1, NextIInv DEF IInv
  <2>2. closing => closing' /\ lifecycle' = lifecycle
    BY <1>1 DEF Next, Environment, Tick, ClockMessage, TakeCommand, Move, Broadcast,
                Reconfigure, Serve, _on_joint_state, StartCallback, _on_lifecycle, close,
                _handle_command, Handler, _refresh_lifecycle, snapshot, Check,
                dispatch_position, wait_for_feedback, Judge, others, plant, gateway, vars
  <2> QED
    BY <2>1, <2>2 DEF ClosedIsQuiet
<1> QED
  BY <1>1, SpecIInv, PTL DEF Spec, ClosedIsFinal
================================================================================
