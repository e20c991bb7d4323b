------------------------------- MODULE WorldModel -------------------------------
(***************************************************************************)
(* The world model's data (world_model/models.py, projector.py): what an   *)
(* observation must be to exist at all, and the snapshot that is projected *)
(* from the evidence Working Memory holds.                                 *)
(*                                                                         *)
(* Abstractions.  An observation keeps what decides its fate: its kind,    *)
(* the sensor (or, for an interpretation, the producer) it is of, when it  *)
(* was acquired and when its result was made, the availability it states   *)
(* and its form: "malformed" content breaks a bound, a type or a covariance*)
(* rule of its constructor, "unfit" content constructs but breaks the URDF *)
(* limits of the joint catalog.  What was derived from a frame has the     *)
(* frame's acquisition time, which names the frame within its epoch.  The  *)
(* identity is a digest of the content, so equal records are the same      *)
(* observation.  Times are ticks.                                          *)
(***************************************************************************)
EXTENDS Integers, FiniteSets

CONSTANTS
    Freshness, Ttl, Skew,   \* freshness_ns, retention_ttl_ns, permitted_future_skew_ns
    MaxTime                 \* bound: the last time of the source clock

ASSUME TimesAssumption ==
    Freshness \in Nat /\ Ttl \in Nat /\ Freshness < Ttl /\ Skew \in Nat /\ MaxTime \in Nat

\* The reviewed sensors and the producers of interpretations.
Sensors == {"joints", "imu", "pose", "camera", "depth", "rgbd", "microphone"}
Producers == {"reference", "semantic", "evaluated"}

Observation ==
    [kind: {"robot", "imu", "pose", "health", "visual", "depth", "audio", "fused",
            "interpretation", "semantic"},
     of: Sensors \cup Producers, at: 0..MaxTime, result: 0..MaxTime,
     avail: {"available", "error"}, form: {"good", "unfit", "malformed"}]
--------------------------------------------------------------------------------
(* The constructors: the observations that exist.  A measurement is available; *)
(* only a health fact states that a sensor has failed.                         *)

Measured(o, sensor) == o.of = sensor /\ o.avail = "available" /\ o.form # "malformed"

RobotStateObservation(o) == Measured(o, "joints") /\ o.result = o.at
ImuObservation(o) == Measured(o, "imu") /\ o.result = o.at
BodyPoseObservation(o) == Measured(o, "pose") /\ o.result = o.at

\* A frame has a nonzero acquisition time.
VisualFrameObservation(o) == Measured(o, "camera") /\ o.at >= 1 /\ o.result = o.at
DepthFrameObservation(o) == Measured(o, "depth") /\ o.at >= 1 /\ o.result = o.at
AudioFrameObservation(o) == Measured(o, "microphone") /\ o.at >= 1 /\ o.at <= o.result

\* The result is not before the acquisition, which both components share.
FusedRgbdObservation(o) == Measured(o, "rgbd") /\ o.at <= o.result
VisualInterpretationObservation(o) ==
    /\ \E p \in Producers : Measured(o, p)
    /\ o.at <= o.result
SemanticEvidenceObservation(o) == Measured(o, "semantic") /\ o.at <= o.result
SensorHealthObservation(o) == o.of \in Sensors /\ o.form # "malformed" /\ o.result = o.at

Constructs(o) ==
    CASE o.kind = "robot"          -> RobotStateObservation(o)
      [] o.kind = "imu"            -> ImuObservation(o)
      [] o.kind = "pose"           -> BodyPoseObservation(o)
      [] o.kind = "health"         -> SensorHealthObservation(o)
      [] o.kind = "visual"         -> VisualFrameObservation(o)
      [] o.kind = "depth"          -> DepthFrameObservation(o)
      [] o.kind = "audio"          -> AudioFrameObservation(o)
      [] o.kind = "fused"          -> FusedRgbdObservation(o)
      [] o.kind = "interpretation" -> VisualInterpretationObservation(o)
      [] o.kind = "semantic"       -> SemanticEvidenceObservation(o)

\* rebuild_observation constructs the observation again from its own fields, which
\* gives the same observation or raises.
rebuild_observation(o) == Constructs(o)

Evidence(kind, of, at, form) ==
    [kind |-> kind, of |-> of, at |-> at, result |-> at, avail |-> "available",
     form |-> form]
Health(of, at, avail) == [Evidence("health", of, at, "good") EXCEPT !.avail = avail]
Derived(kind, of, at, result) == [Evidence(kind, of, at, "good") EXCEPT !.result = result]

\* The state key under which evidence is current, and the time that orders it.
Key(o) == <<o.kind, o.of>>
Stamp(o) == IF o.kind = "interpretation" THEN o.result ELSE o.at

\* The catalog refuses a joint outside its URDF limits.
validate_observation(o) == o.kind = "robot" => o.form = "good"
--------------------------------------------------------------------------------
(* The projector. *)

freshness_for(at, now) == IF at >= now - Freshness THEN "fresh" ELSE "stale"

\* The newest evidence of each key; semantic batches are all current.
Current(kept) ==
    {o \in kept : o.kind # "semantic" => \A p \in kept : Key(p) = Key(o) => Stamp(p) <= Stamp(o)}

MeasurementOf(sensor) ==
    CASE sensor = "joints" -> "robot" [] sensor = "imu" -> "imu"
      [] sensor = "microphone" -> "audio" [] sensor = "pose" -> "pose"
      [] sensor = "camera" -> "visual" [] sensor = "depth" -> "depth"
      [] sensor = "rgbd" -> "fused"

\* What a sensor's state is taken from: its health fact, unless the measurement is
\* newer.
SelectedEvidence(current, sensor) ==
    LET measured == {o \in current : Key(o) = <<MeasurementOf(sensor), sensor>>}
        health   == {o \in current : Key(o) = <<"health", sensor>>}
    IN  IF \E h \in health : \A m \in measured : h.at >= m.at THEN health ELSE measured

SensorAvailabilityState(current, sensor, now) ==
    LET selected == SelectedEvidence(current, sensor) IN
    IF selected = {} THEN "unavailable"
    ELSE LET o == CHOOSE x \in selected : TRUE IN
         IF freshness_for(o.at, now) = "stale" THEN "stale" ELSE o.avail

\* The Observed...State of each observation: its freshness, and an availability
\* that is its sensor's, or its own for what has no sensor state.
ObservedState(o, current, now) ==
    LET fresh == freshness_for(o.at, now) IN
    [observation |-> o, freshness |-> fresh,
     availability |->
        IF fresh = "stale" THEN "stale"
        ELSE IF o.kind \in {"health", "interpretation", "semantic", "robot"} THEN o.avail
        ELSE SensorAvailabilityState(current, o.of, now)]

\* project(now_ns, ...): one snapshot of the sensors a composition knows.
project(kept, sensors, now) ==
    LET current == Current(kept) IN
    [captured_at |-> now,
     sensors |-> [s \in sensors |-> SensorAvailabilityState(current, s, now)],
     states  |-> {ObservedState(o, current, now) : o \in current}]

\* project, RobotBodyState and WorldSnapshot raise unless every observation can be
\* rebuilt and is of a known sensor, and no key has two states.
SnapshotConstructs(kept, sensors) ==
    LET current == Current(kept) IN
    /\ \A o \in current :
          /\ rebuild_observation(o) /\ validate_observation(o)
          /\ o.kind \notin {"interpretation", "semantic"} => o.of \in sensors
    /\ \A o, p \in current : o # p /\ o.kind # "semantic" => Key(o) # Key(p)
================================================================================
