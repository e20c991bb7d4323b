----------------------------- MODULE WorldModelNode -----------------------------
(***************************************************************************)
(* The World Model node (scripts/world_model_node.py): a lifecycle node on *)
(* a single-threaded executor that drives the sensor adapters, the trust   *)
(* boundary and Working Memory together.  Each callback, service and       *)
(* transition runs alone and is one action.                                *)
(*                                                                         *)
(* What is hard: boundary and memory each keep their own last time, and a  *)
(* query moves only the memory's; when the source clock goes back whichever*)
(* of them is asked first raises, both are emptied, and the callback goes  *)
(* on with evidence of two epochs in its hands, while the adapters, the    *)
(* transform buffer and the waiting images know nothing of it.             *)
(*                                                                         *)
(* Abstractions.  PerceptionBoundary, WorkingMemory and SensorAdapters     *)
(* model the parts in full; here they keep what a second part can observe. *)
(* A callback reads the clock several times: now is its first read and     *)
(* later every other one.  The two are equal under simulation time, whose  *)
(* clock the same executor moves between callbacks; the system clock may   *)
(* be stepped in between.  The detections of one frame are one semantic    *)
(* observation.  Receipt times, counters and log lines are left out.       *)
(***************************************************************************)
EXTENDS WorldModel

CONSTANTS
    Parameters,   \* the parameter sets the node may be configured with
    PairWait,     \* how long an adapter keeps half a pair
    MaxCalls,     \* bound: the callbacks and queries of a behaviour
    MaxRegress    \* bound: how often the source clock goes back

ASSUME NodeAssumption ==
    PairWait \in Nat /\ MaxCalls \in Nat /\ MaxRegress \in Nat

None == -1
Nothing == [profile |-> "none", sim_time |-> TRUE]

VARIABLES
    phase,      \* the lifecycle state; "crashed" when a callback raised
    cfg,        \* the parameters it is configured with
    ev,         \* boundary and memory: see NoEvidence
    adapters,   \* per adapter of the composition, its state
    waiting,    \* _pending_image and _pending_camera_info
    poses,      \* the newest transform in _pose_buffer
    answer,     \* what a query has just returned
    clock, calls, regressions

vars == <<phase, cfg, ev, adapters, waiting, poses, answer, clock, calls, regressions>>

\* last, admitted, auth: the boundary's last time, what it admitted since its reset
\* and what it has authorized; mlast, kept: the memory's last time and evidence;
\* evaluated: _visual_evaluated_this_activation.
NoEvidence == [last |-> None, admitted |-> {}, auth |-> {}, mlast |-> None, kept |-> {},
               evaluated |-> FALSE]
NotReady == [captured_at |-> None, ready |-> FALSE, sensors |-> <<>>, states |-> {}]
NobodyWaits == [image |-> None, info |-> None]

Init ==
    /\ phase = "unconfigured" /\ cfg = Nothing /\ ev = NoEvidence
    /\ adapters = <<>> /\ waiting = NobodyWaits /\ poses = None /\ answer = NotReady
    /\ clock = 0 /\ calls = 0 /\ regressions = 0
--------------------------------------------------------------------------------
(* Configuration.  An adapter parameter is "off", "on", or "wrong" when the name *)
(* of its profile does not go with it.                                          *)

Profiles == {"simulation", "physical", "physical_camera_fixture", "depth_fixture",
             "audio_fixture"}

ProfileAccepted(c) ==
    /\ c.profile \in Profiles
    /\ c.profile = "simulation" => c.sim_time
    /\ c.profile \in {"physical", "physical_camera_fixture"} => ~c.sim_time

FixturesOff(c) == ~c.reference /\ ~c.semantic /\ ~c.evaluation

PhysicalCameraAccepted(c) ==
    /\ c.physical # "wrong"
    /\ c.physical = "on" => c.profile = "physical_camera_fixture" /\ FixturesOff(c)

DepthCameraAccepted(c) ==
    /\ c.depth # "wrong"
    /\ c.depth = "on" => c.profile \in {"simulation", "depth_fixture"}

RgbdFusionAccepted(c) ==
    /\ c.rgbd # "wrong"
    /\ c.rgbd = "on" => /\ c.profile = "depth_fixture" /\ c.depth = "on"
                        /\ c.physical # "on" /\ FixturesOff(c)

HeadAudioAccepted(c) ==
    /\ c.audio # "wrong"
    /\ c.audio = "on" => c.profile = "audio_fixture"

Accepted(c) ==
    /\ ProfileAccepted(c)
    /\ ~(c.evaluation /\ (c.reference \/ c.semantic))
    /\ PhysicalCameraAccepted(c) /\ DepthCameraAccepted(c)
    /\ RgbdFusionAccepted(c) /\ HeadAudioAccepted(c)

CameraEnabled(c) == c.profile = "simulation" \/ c.physical = "on" \/ c.rgbd = "on"

SensorCatalog(c) ==
    {"joints", "imu", "pose", "camera", "depth"}
        \cup (IF c.rgbd = "on" THEN {"rgbd"} ELSE {})
        \cup (IF c.audio = "on" THEN {"microphone"} ELSE {})

\* The adapters of a composition, by the sensor they serve.
AdaptersOf(c) ==
    (IF c.physical = "on" THEN {"camera"} ELSE {}) \cup (IF c.depth = "on" THEN {"depth"} ELSE {})
        \cup (IF c.rgbd = "on" THEN {"rgbd"} ELSE {})
        \cup (IF c.audio = "on" THEN {"microphone"} ELSE {})

Streams(a) == CASE a = "rgbd" -> {"rgb", "depth"} [] a = "microphone" -> {"frame"}
                [] OTHER -> {"image", "info"}

Idle(a) == [state |-> "inactive", pend |-> [s \in Streams(a) |-> {}], last |-> 0,
            taken |-> [s \in Streams(a) |-> 0]]

\* on_configure: every part is built, or none is kept.
on_configure(c) ==
    /\ phase = "unconfigured"
    /\ IF Accepted(c)
       THEN /\ phase' = "inactive" /\ cfg' = c
            /\ adapters' = [a \in AdaptersOf(c) |-> Idle(a)]
       ELSE UNCHANGED <<phase, cfg, adapters>>
    /\ ev' = NoEvidence
    /\ answer' = NotReady
    /\ UNCHANGED <<waiting, poses, clock, calls, regressions>>
--------------------------------------------------------------------------------
(* Lifecycle. *)

ActivatedAdapter(a) == [Idle(a) EXCEPT !.state = "active"]

on_activate ==
    /\ phase = "inactive" /\ phase' = "active"
    /\ adapters' = [a \in DOMAIN adapters |-> ActivatedAdapter(a)]
    /\ ev' = [ev EXCEPT !.evaluated = FALSE]
    /\ poses' = None
    /\ answer' = NotReady
    /\ UNCHANGED <<cfg, waiting, clock, calls, regressions>>

\* Boundary and memory are emptied only with the adapter of a camera or microphone.
on_deactivate ==
    /\ phase = "active" /\ phase' = "inactive"
    /\ adapters' = [a \in DOMAIN adapters |-> Idle(a)]
    /\ ev' = IF DOMAIN adapters \ {"rgbd"} # {} THEN NoEvidence ELSE [ev EXCEPT !.evaluated = FALSE]
    /\ waiting' = NobodyWaits /\ poses' = None
    /\ answer' = NotReady
    /\ UNCHANGED <<cfg, clock, calls, regressions>>

Emptied ==
    /\ cfg' = Nothing /\ ev' = NoEvidence /\ adapters' = <<>>
    /\ waiting' = NobodyWaits /\ poses' = None /\ answer' = NotReady

\* on_cleanup, and on_error, which calls it.
on_cleanup ==
    /\ phase = "inactive" /\ phase' = "unconfigured"
    /\ Emptied /\ UNCHANGED <<clock, calls, regressions>>

on_shutdown ==
    /\ phase \in {"unconfigured", "inactive", "active"} /\ phase' = "finalized"
    /\ Emptied /\ UNCHANGED <<clock, calls, regressions>>
--------------------------------------------------------------------------------
(* The boundary and the memory, as the callbacks use them. *)

\* Evidence that is admitted only on an authorization.
NeedsSeal(o) ==
    \/ o.kind \in {"depth", "fused", "audio"}
    \/ o.kind = "visual" /\ cfg.physical = "on"
    \/ o.kind = "interpretation" /\ o.of = "evaluated"
    \/ o.kind = "health" /\ o.of \in {"camera", "depth", "microphone"}

Frames(S, kind, at) == {o \in S : o.kind = kind /\ o.at = at}

\* What derived evidence was made of, in S.
SourcesIn(S, o) ==
    /\ o.kind \in {"fused", "interpretation", "semantic"} => Frames(S, "visual", o.at) # {}
    /\ o.kind = "fused" => Frames(S, "depth", o.at) # {}
    /\ o.kind = "semantic" =>
          \E i \in Frames(S, "interpretation", o.at) : i.of = o.of /\ i.result = o.result

\* admit: why evidence is refused.
Admission(e, o, now) ==
    IF NeedsSeal(o) /\ o \notin e.auth THEN "NOT_AUTHORIZED"
    ELSE IF o.kind # "fused" /\ ~SourcesIn(e.admitted, o) THEN "SOURCE_NOT_ADMITTED"
    ELSE IF o.result > now + Skew THEN "FUTURE_OBSERVATION"
    ELSE IF o.at < now - Ttl \/ (o.kind = "semantic" /\ o.at < now - Freshness)
         THEN "STALE_OBSERVATION"
    ELSE IF o \in e.admitted THEN "DUPLICATE"
    ELSE IF \E p \in e.admitted : o.kind # "semantic" /\ Key(p) = Key(o) /\ Stamp(p) >= Stamp(o)
         THEN "OUT_OF_ORDER"
    ELSE "ACCEPTED"

Live(kept, now) == {o \in kept : o.at >= now - Ttl}

\* ingest, given that the boundary accepted: the memory may still refuse.
Ingested(e, o, now) ==
    LET live == Live(e.kept, now)
        fits == /\ validate_observation(o) /\ SourcesIn(live, o)
                /\ \A p \in live : Key(p) = Key(o) => Stamp(p) < Stamp(o)
    IN  [e EXCEPT !.mlast = now, !.kept = IF fits THEN live \cup {o} ELSE live]

\* admit and ingest at one time.  A part that is ahead of this time raises, the
\* memory when the boundary has already taken the evidence.
TryAdmit(e, o, now) ==
    LET status == Admission(e, o, now)
        taken  == [e EXCEPT !.last = now, !.auth = @ \ {o},
                            !.admitted = IF status = "ACCEPTED" THEN @ \cup {o} ELSE @]
        regressed == now < e.last \/ (status = "ACCEPTED" /\ now < e.mlast)
    IN  [raised |-> regressed, status |-> IF regressed THEN "RAISED" ELSE status,
         e |-> IF status = "ACCEPTED" /\ ~regressed THEN Ingested(taken, o, now) ELSE taken]

\* Mutant: only the boundary is emptied.
_reset_evidence_epoch_mutant(e) == [NoEvidence EXCEPT !.mlast = e.mlast, !.kept = e.kept]

\* The adapters, the waiting images and the transform buffer are not touched.
_reset_evidence_epoch(e) == NoEvidence

\* A regression empties both and the same evidence is tried once more; what had an
\* authorization has lost it.
_admit_and_retain(e, o, now, later) ==
    LET first == TryAdmit(e, o, now) IN
    IF first.raised THEN TryAdmit(_reset_evidence_epoch(e), o, later) ELSE first

--------------------------------------------------------------------------------
(* The adapters: SensorAdapters, for one source and the present session. *)

Without(pend, at) == [s \in DOMAIN pend |-> pend[s] \ {at}]

\* A message that is timely, newer than the last pair and not waiting already; the
\* synchronizer takes a stream only forward.
Takes(name, a, stream, at, now) ==
    /\ at <= now + Skew /\ at >= now - Ttl /\ at > a.last /\ at \notin a.pend[stream]
    /\ name = "rgbd" => at > a.taken[stream]

\* The adapter after a message, and whether a pair was completed and sealed.
Submit(name, a, stream, at, now) ==
    LET pend == [s \in DOMAIN a.pend |->
                    {t \in a.pend[s] \cup (IF s = stream THEN {at} ELSE {}) : t >= at - PairWait}]
        whole == \A s \in DOMAIN pend : at \in pend[s]
        taken == IF name = "rgbd" THEN [a.taken EXCEPT ![stream] = at] ELSE a.taken
    IN  IF ~Takes(name, a, stream, at, now) THEN [a |-> a, sealed |-> FALSE]
        ELSE [a |-> [state |-> a.state, pend |-> IF whole THEN Without(pend, at) ELSE pend,
                     last |-> IF whole THEN at ELSE a.last, taken |-> taken],
              sealed |-> whole]

\* authorize_rgbd_fusion: both components must be admitted in this epoch.
AuthorizeFused(e, f) == SourcesIn(e.admitted, f)

\* _handle_rgbd_fusion_result, after an admitted frame was given to the synchronizer.
Fused(e, stream, at, now, later) ==
    LET r == Submit("rgbd", adapters["rgbd"], stream, at, now)
        f == Derived("fused", "rgbd", at, IF at < now THEN now ELSE at)
    IN  [rig |-> [adapters EXCEPT !["rgbd"] = r.a],
         e |-> IF r.sealed /\ AuthorizeFused(e, f)
               THEN _admit_and_retain([e EXCEPT !.auth = @ \cup {f}], f, later, later).e
               ELSE e]

\* An admitted frame is fused in a composition that has the synchronizer.
MaybeFused(r, stream, at, later) ==
    IF "rgbd" \in DOMAIN adapters /\ r.status = "ACCEPTED"
    THEN Fused(r.e, stream, at, later, later)
    ELSE [rig |-> adapters, e |-> r.e]

\* A sealed pair of frame and health fact: authorized, then the frame, then what it
\* fuses to, then the health fact, and nothing after a frame that did not get in.
\* (_handle_physical_camera_result, _handle_depth_camera_result, _on_audio_frame)
Unsealed(e, frame, health, now, later) ==
    LET r == _admit_and_retain([e EXCEPT !.auth = @ \cup {frame, health}], frame, now, later)
        f == MaybeFused(r, "depth", frame.at, later)
    IN  IF r.status # "ACCEPTED" THEN f
        ELSE [f EXCEPT !.e = _admit_and_retain(@, health, later, later).e]
--------------------------------------------------------------------------------
(* The callbacks. *)

\* A callback is delivered to an active node; its later reads of the clock.
Reads == IF cfg.sim_time THEN {clock} ELSE {t \in 0..MaxTime : t \in (clock - 1)..(clock + 1)}
Called(later) ==
    /\ phase = "active" /\ calls < MaxCalls /\ calls' = calls + 1
    /\ clock' = later
    /\ UNCHANGED <<cfg, regressions>>

\* What a callback makes of the evidence and of the adapters.
Becomes(r) == ev' = r.e /\ adapters' = r.rig

Quiet == answer' = NotReady /\ UNCHANGED <<phase, adapters, waiting, poses>>

\* _on_joint_state, _on_imu: what does not construct is only counted.
_on_body(o, later) ==
    /\ Called(later) /\ Quiet
    /\ ev' = IF Constructs(o) THEN _admit_and_retain(ev, o, clock, later).e ELSE ev

\* A health fact for each reviewed component of the message, in turn.
_on_diagnostics(components, at, avail, later) ==
    LET imu == IF "imu" \in components
               THEN _admit_and_retain(ev, Health("imu", at, avail), clock, later).e ELSE ev
        now == IF "imu" \in components THEN later ELSE clock
    IN  /\ Called(later) /\ Quiet
        /\ ev' = IF "joints" \in components
                 THEN _admit_and_retain(imu, Health("joints", at, avail), now, later).e
                 ELSE imu

\* The failure is reported as a health fact of the pose sensor.  Nothing catches a
\* regression here: it leaves the callback.
_report_pose_failure(e, now) == TryAdmit(e, Health("pose", now, "error"), now)

\* tf2 refuses a transform that is older than its cache, counted from the newest.
InBuffer(at) == at >= 1 /\ (poses = None \/ at >= poses - Ttl)

\* _on_localization: the pose through the transform buffer; a pose that cannot be
\* had, or is stale, is reported as a failure.
_on_localization(at, form, later) ==
    LET o == Evidence("pose", "pose", at, form)
        usable == Constructs(o) /\ InBuffer(at)
        r == _admit_and_retain(ev, o, clock, later)
        failed == IF usable THEN _report_pose_failure(r.e, later)
                  ELSE _report_pose_failure(ev, clock)
        fails == ~usable \/ r.status = "STALE_OBSERVATION"
    IN  /\ Called(later)
        /\ poses' = IF Constructs(o) /\ InBuffer(at) /\ (poses = None \/ at > poses)
                    THEN at ELSE poses
        /\ ev' = IF fails THEN failed.e ELSE r.e
        /\ phase' = IF fails /\ failed.raised THEN "crashed" ELSE phase
        /\ answer' = NotReady /\ UNCHANGED <<adapters, waiting>>

\* What is made of an admitted frame, in turn: the reference interpretation, the
\* semantic fixture, the evaluation.  Each starts from what the one before left.
Interpreted(e, at, producer, later) ==
    LET o == Derived("interpretation", producer, at, IF at < later THEN later ELSE at) IN
    _admit_and_retain(e, o, later, later)

\* _admit_semantic_fixture: the interpretation, then the semantic observation from
\* it; a regression empties the epoch and ends the chain.
SemanticFixture(e, at, later) ==
    LET i == Interpreted(e, at, "semantic", later)
        o == Derived("semantic", "semantic", at, IF at < later THEN later ELSE at)
        s == TryAdmit(i.e, o, later)
    IN  IF i.status # "ACCEPTED" THEN i.e
        ELSE IF s.raised THEN _reset_evidence_epoch(i.e) ELSE s.e

\* _evaluate_visual_frame: one evaluation per activation, bound to an admitted frame.
EvaluateVisualFrame(e, at, later) ==
    LET o == Derived("interpretation", "evaluated", at, IF at < later THEN later ELSE at)
        bound == SourcesIn(e.admitted, o)
        r == _admit_and_retain([e EXCEPT !.auth = @ \cup {o}], o, later, later)
    IN  IF e.evaluated \/ ~bound THEN e
        ELSE IF r.status = "ACCEPTED" THEN [r.e EXCEPT !.evaluated = TRUE] ELSE r.e

FrameFollowUps(e, at, later) ==
    LET a == IF cfg.reference THEN Interpreted(e, at, "reference", later).e ELSE e
        b == IF cfg.semantic THEN SemanticFixture(a, at, later) ELSE a
    IN  IF cfg.evaluation THEN EvaluateVisualFrame(b, at, later) ELSE b

\* _try_visual_pair, when a camera without an adapter has both halves.
VisualPair(at, later) ==
    LET o == Evidence("visual", "camera", at, "good")
        r == _admit_and_retain(ev, o, clock, later)
        f == MaybeFused(r, "rgb", at, later)
    IN  IF ~Constructs(o) THEN [rig |-> adapters, e |-> ev]
        ELSE IF r.status # "ACCEPTED" THEN f
        ELSE [f EXCEPT !.e = FrameFollowUps(@, at, later)]

\* The older half is dropped, equal halves are taken.
_on_visual(half, at, later) ==
    LET w == [waiting EXCEPT ![half] = at]
        v == VisualPair(at, later)
    IN  /\ Called(later)
        /\ waiting' = IF w.image = None \/ w.info = None THEN w
                      ELSE IF w.image < w.info THEN [w EXCEPT !.image = None]
                      ELSE IF w.info < w.image THEN [w EXCEPT !.info = None]
                      ELSE NobodyWaits
        /\ IF w.image = w.info
           THEN Becomes(v)
           ELSE UNCHANGED <<ev, adapters>>
        /\ answer' = NotReady /\ UNCHANGED <<phase, poses>>

FrameKind(name) == CASE name = "camera" -> "visual" [] name = "depth" -> "depth"
                     [] name = "microphone" -> "audio"

\* The adapter that sealed a pair has moved on as well.
WithAdapter(u, name, a) == [rig |-> [u.rig EXCEPT ![name] = a], e |-> u.e]

\* A message for the adapter of a camera or the microphone, and what is sealed by it.
_on_adapter(name, stream, at, later) ==
    LET s == Submit(name, adapters[name], stream, at, clock)
        u == Unsealed(ev, Evidence(FrameKind(name), name, at, "good"),
                      Health(name, at, "available"), later, later)
    IN  /\ Called(later)
        /\ IF s.sealed THEN Becomes(WithAdapter(u, name, s.a))
           ELSE ev' = ev /\ adapters' = [adapters EXCEPT ![name] = s.a]
        /\ answer' = NotReady /\ UNCHANGED <<phase, waiting, poses>>

\* The camera's topics go to its adapter, if there is one.
_on_image(at, later) ==
    IF "camera" \in DOMAIN adapters THEN _on_adapter("camera", "image", at, later)
    ELSE _on_visual("image", at, later)
_on_camera_info(at, later) ==
    IF "camera" \in DOMAIN adapters THEN _on_adapter("camera", "info", at, later)
    ELSE _on_visual("info", at, later)

_on_depth_image(at, later) == _on_adapter("depth", "image", at, later)
_on_depth_camera_info(at, later) == _on_adapter("depth", "info", at, later)
_on_audio_frame(at, later) == _on_adapter("microphone", "frame", at, later)
--------------------------------------------------------------------------------
(* The queries: what of a snapshot a response carries. *)

Of(snap, kinds) == {s \in snap.states : s.observation.kind \in kinds}

\* The sensor states and the health facts are in every response to a body query.
SensorsAnswered(snap) == Of(snap, {"health"})

\* Without joint evidence the rest is withheld.
JointsAnswered(snap) == Of(snap, {"robot"})
ImuAnswered(snap) == Of(snap, {"imu"})
PoseAnswered(snap) == Of(snap, {"pose"})
FramesAnswered(snap) == Of(snap, {"visual", "audio", "depth"})
FusedAnswered(snap) == Of(snap, {"fused"})

\* Of several interpretations the first by producer.
InterpretationAnswered(snap) ==
    {s \in Of(snap, {"interpretation"}) :
        s.observation.of = "semantic" =>
            \A r \in Of(snap, {"interpretation"}) : r.observation.of = "semantic"}

BodyResponse(snap) ==
    LET ready == JointsAnswered(snap) # {} IN
    [captured_at |-> snap.captured_at, ready |-> ready, sensors |-> snap.sensors,
     states |-> SensorsAnswered(snap) \cup
                (IF ~ready THEN {}
                 ELSE JointsAnswered(snap) \cup ImuAnswered(snap) \cup PoseAnswered(snap)
                        \cup FramesAnswered(snap) \cup FusedAnswered(snap)
                        \cup InterpretationAnswered(snap))]

\* The semantic response is ready also when there is nothing to say.
populate_semantic_response(snap) ==
    [captured_at |-> snap.captured_at, ready |-> TRUE, sensors |-> <<>>,
     states |-> Of(snap, {"semantic"})]

\* A query asks the memory only, and only the memory's time moves.  A snapshot that
\* does not construct raises, and nothing catches it.
Asked(later, topic) ==
    LET live == Live(ev.kept, clock)
        Response(snap) == IF topic = "body" THEN BodyResponse(snap)
                          ELSE populate_semantic_response(snap)
    IN
    /\ Called(later)
    /\ IF clock < ev.mlast
       THEN ev' = _reset_evidence_epoch(ev) /\ answer' = NotReady /\ phase' = phase
       ELSE /\ ev' = [ev EXCEPT !.mlast = clock, !.kept = live]
            /\ IF SnapshotConstructs(live, SensorCatalog(cfg))
               THEN /\ answer' = Response(project(live, SensorCatalog(cfg), clock))
                    /\ phase' = phase
               ELSE answer' = NotReady /\ phase' = "crashed"
    /\ UNCHANGED <<adapters, waiting, poses>>

\* Mutant: a regression is answered from what is there.
_handle_query_mutant(later) ==
    /\ Called(later)
    /\ ev' = [ev EXCEPT !.mlast = clock, !.kept = Live(@, clock)]
    /\ answer' = BodyResponse(project(ev'.kept, SensorCatalog(cfg), clock))
    /\ UNCHANGED <<phase, adapters, waiting, poses>>

_handle_query(later) == Asked(later, "body")
_handle_semantic_query(later) == Asked(later, "semantic")
--------------------------------------------------------------------------------
(* The source clock, and what arrives. *)

Advance ==
    /\ clock < MaxTime /\ clock' = clock + 1
    /\ answer' = NotReady
    /\ UNCHANGED <<phase, cfg, ev, adapters, waiting, poses, calls, regressions>>

\* A simulator that is reset, a system clock that is set.
Regress ==
    /\ regressions < MaxRegress /\ regressions' = regressions + 1
    /\ \E t \in 0..MaxTime : t < clock /\ clock' = t
    /\ answer' = NotReady
    /\ UNCHANGED <<phase, cfg, ev, adapters, waiting, poses, calls>>

Stamps == {t \in 0..MaxTime : t <= clock + Skew + 1}

\* One message; traffic says which topics carry messages in a composition.
Message ==
    /\ phase = "active" /\ calls < MaxCalls
    /\ \E later \in Reads, at \in Stamps :
          \/ \E form \in {"good", "unfit", "malformed"} :
                "joints" \in cfg.traffic /\ _on_body(Evidence("robot", "joints", at, form), later)
          \/ \E form \in {"good", "malformed"} :
                "imu" \in cfg.traffic /\ _on_body(Evidence("imu", "imu", at, form), later)
          \/ \E form \in {"good", "malformed"} :
                "pose" \in cfg.traffic /\ _on_localization(at, form, later)
          \/ \E S \in SUBSET {"imu", "joints"}, avail \in {"available", "error"} :
                "diagnostics" \in cfg.traffic /\ S # {} /\ _on_diagnostics(S, at, avail, later)
          \/ /\ CameraEnabled(cfg) /\ "camera" \in cfg.traffic
             /\ _on_image(at, later) \/ _on_camera_info(at, later)
          \/ /\ {"depth"} \subseteq DOMAIN adapters \cap cfg.traffic /\ at >= 1
             /\ _on_depth_image(at, later) \/ _on_depth_camera_info(at, later)
          \/ /\ {"microphone"} \subseteq DOMAIN adapters \cap cfg.traffic /\ at >= 1
             /\ _on_audio_frame(at, later)

Next ==
    \/ \E c \in Parameters : on_configure(c)
    \/ on_activate \/ on_deactivate \/ on_cleanup \/ on_shutdown
    \/ Message
    \/ \E later \in Reads : _handle_query(later) \/ _handle_semantic_query(later)
    \/ Advance \/ Regress

Spec == Init /\ [][Next]_vars
--------------------------------------------------------------------------------
(* Properties. *)

\* The node's lifecycle, evidence and adapters have their types.
TypeOK ==
    /\ phase \in {"unconfigured", "inactive", "active", "finalized", "crashed"}
    /\ cfg \in Parameters \cup {Nothing}
    /\ ev.admitted \cup ev.auth \cup ev.kept \subseteq Observation
    /\ ev.last \in 0..MaxTime \cup {None} /\ ev.mlast \in 0..MaxTime \cup {None}
    /\ DOMAIN adapters \subseteq Sensors

\* Memory and boundary are always of the same epoch, whichever of them a regression
\* of the clock surprises and however far a query has moved the memory's time: what
\* is retained was admitted since the boundary's last reset.
EpochAgreement == ev.kept \subseteq ev.admitted

\* A query answers with evidence of its own time only: nothing past its retention
\* and nothing from the future, also just after the source clock went back.
AnswersCurrent ==
    \A s \in answer.states :
        /\ s.observation.at >= answer.captured_at - Ttl
        /\ s.observation.result <= answer.captured_at + Skew

\* An answer calls a sensor available only if a measurement newer than every failure
\* in the same answer supports it.
FailuresWin ==
    \A s \in answer.states :
        ( /\ answer.ready /\ s.observation.kind = "health" /\ s.observation.avail = "error"
          /\ answer.sensors[s.observation.of] = "available" )
        => \E m \in answer.states : /\ m.observation.kind # "health"
                                    /\ m.observation.of = s.observation.of
                                    /\ m.observation.at > s.observation.at

\* The health fact sealed with a frame is only ever admitted beside that frame: a
\* regression between the two leaves neither of them half admitted.
SealedTogether ==
    \A h \in ev.admitted :
        h.kind = "health" /\ NeedsSeal(h) => Frames(ev.admitted, FrameKind(h.of), h.at) # {}

\* A fused frame is made of two frames of the present epoch, although the
\* synchronizer keeps its half of a pair through a regression.
FusionFromEpoch ==
    \A f \in ev.admitted : f.kind = "fused" => SourcesIn(ev.admitted, f)

\* The adapters are active exactly while the node is, and nothing that arrived in one
\* activation waits for its partner in the next.
AdaptersFollowNode ==
    /\ \A a \in DOMAIN adapters : (adapters[a].state = "active") = (phase \in {"active", "crashed"})
    /\ phase \notin {"active", "crashed"} => waiting = NobodyWaits /\ poses = None

\* The node calls its frame evaluated only while it holds the evaluation: a new
\* epoch within an activation is evaluated again.
EvaluatedIsHeld ==
    ev.evaluated => \E o \in ev.admitted : Key(o) = <<"interpretation", "evaluated">>

\* Every state of the memory can be projected: no query of an active node raises.
EveryQueryAnswers ==
    phase = "active" => SnapshotConstructs(ev.kept, SensorCatalog(cfg))

\* Boundary, memory, adapters and evaluator follow one epoch, through regressions
\* of the clock and lifecycle transitions at any point.
OneEpoch ==
    /\ TypeOK /\ EpochAgreement /\ SealedTogether /\ FusionFromEpoch
    /\ AdaptersFollowNode /\ EvaluatedIsHeld

\* Every query of an active node is answered, from evidence of its own time, with
\* a failure outweighed only by a newer measurement.
AnswersSound == AnswersCurrent /\ FailuresWin /\ EveryQueryAnswers
================================================================================
