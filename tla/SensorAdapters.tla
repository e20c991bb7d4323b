----------------------------- MODULE SensorAdapters -----------------------------
(***************************************************************************)
(* The lifecycle adapters that stand between the sensor callbacks and the   *)
(* perception boundary: the physical and the depth camera, which pair an    *)
(* image with the CameraInfo of the same acquisition time, the microphone,  *)
(* whose frames need no partner, and the RGB-D synchronizer, which pairs    *)
(* admitted RGB and depth frames.  The four are one state machine that      *)
(* differs in how it is configured and in what it accepts; kind says which  *)
(* of them a behaviour is about.                                            *)
(*                                                                          *)
(* A source is named by its manifest, and a calibration by the source whose *)
(* reviewed calibration it is; the microphone and the synchronizer have no  *)
(* calibration and keep that of their own source here.  An adapter's lock   *)
(* makes each of its methods one step.  Diagnostics and counters are left   *)
(* out.                                                                     *)
(***************************************************************************)
EXTENDS Integers, FiniteSets

CONSTANTS
    Kinds,       \* the adapters a run is about
    Source,      \* the registered sources
    PairWait, Retention, Skew,
    Capacity,    \* MAX_..._PENDING_PAIRS, MAX_RGBD_PENDING_PER_STREAM
    MaxTime,     \* bound: the last acquisition time
    MaxEpoch     \* bound: the activations

ASSUME AdaptersAssumption ==
    /\ Kinds \subseteq {"physical", "depth", "audio", "rgbd"}
    /\ PairWait \in Nat /\ Retention \in Nat /\ PairWait < Retention
    /\ Skew \in Nat /\ Capacity \in Nat \ {0}
    /\ MaxTime \in Nat /\ MaxEpoch \in Nat

None == "none"
ASSUME NoneAssumption == None \notin Source

Cameras == {"physical", "depth"}
Streams(k) == CASE k \in Cameras -> {"image", "info"}
                [] k = "audio"   -> {"frame"}
                [] k = "rgbd"    -> {"rgb", "depth"}

VARIABLES
    kind,
    state, source, calibration,
    epoch,          \* the number of the last activation
    session,        \* the active session, named by its source and epoch
    pending,        \* per stream, what waits for its partner
    last_accepted,
    last_at,        \* per stream, the last time taken: kept by the synchronizer only
    admission,      \* the set of what the last call returned: empty or one admission
    issued          \* history: the admissions issued

vars == <<kind, state, source, calibration, epoch, session, pending, last_accepted,
          last_at, admission, issued>>

NoSession == [source |-> None, epoch |-> 0]
Empty == [s \in Streams(kind) |-> {}]
NoTimes == [s \in Streams(kind) |-> 0]     \* acquisition times are positive

Init ==
    /\ kind \in Kinds
    /\ state = "unconfigured" /\ source = None /\ calibration = None
    /\ epoch = 0 /\ session = NoSession
    /\ pending = Empty /\ last_accepted = 0 /\ last_at = NoTimes
    /\ admission = {} /\ issued = {}
--------------------------------------------------------------------------------
(* Configuration. *)

Configurable == state \in {"unconfigured", "inactive"}

\* The physical camera checks the calibration before it changes anything.
configure_physical(s, c) ==
    /\ kind = "physical" /\ Configurable
    /\ IF c \notin {None, s}
       THEN UNCHANGED <<state, source, calibration, session, pending>>
       ELSE /\ source' = s /\ calibration' = c /\ state' = "inactive"
            /\ session' = NoSession
            /\ pending' = IF c = None THEN pending ELSE Empty
    /\ admission' = {}
    /\ UNCHANGED <<kind, epoch, last_accepted, last_at, issued>>

\* The depth camera has taken the source when it refuses the calibration.
configure_depth(s, c) ==
    /\ kind = "depth" /\ Configurable
    /\ source' = s /\ session' = NoSession /\ pending' = Empty
    /\ IF c \notin {None, s} THEN UNCHANGED <<calibration, state>>
       ELSE calibration' = c /\ state' = "inactive"
    /\ admission' = {}
    /\ UNCHANGED <<kind, epoch, last_accepted, last_at, issued>>

configure_audio(s) ==
    /\ kind = "audio" /\ Configurable
    /\ source' = s /\ calibration' = s /\ state' = "inactive"
    /\ session' = NoSession /\ last_accepted' = 0
    /\ admission' = {}
    /\ UNCHANGED <<kind, epoch, pending, last_at, issued>>

\* The source stands for the requirement.
configure_rgbd(s) ==
    /\ kind = "rgbd" /\ Configurable
    /\ source' = s /\ calibration' = s /\ state' = "inactive"
    /\ pending' = Empty /\ last_at' = NoTimes
    /\ admission' = {}
    /\ UNCHANGED <<kind, epoch, session, last_accepted, issued>>
--------------------------------------------------------------------------------
(* The lifecycle. *)

\* The synchronizer is activated with the depth camera and given its session.
activate ==
    /\ state = "inactive" /\ source # None /\ calibration # None
    /\ epoch < MaxEpoch /\ epoch' = epoch + 1
    /\ session' = [source |-> source, epoch |-> epoch']
    /\ state' = "active"
    /\ pending' = Empty /\ last_at' = NoTimes /\ last_accepted' = 0
    /\ admission' = {}
    /\ UNCHANGED <<kind, source, calibration, issued>>

\* Mutant: what was pending stays.
deactivate_mutant ==
    /\ state = "active" /\ state' = "inactive"
    /\ session' = NoSession
    /\ admission' = {}
    /\ UNCHANGED <<kind, source, calibration, epoch, pending, last_accepted, last_at, issued>>

\* The physical camera keeps last_accepted until it is activated again.
deactivate ==
    /\ state = "active" /\ state' = "inactive"
    /\ session' = NoSession
    /\ pending' = Empty /\ last_at' = NoTimes
    /\ last_accepted' = IF kind = "physical" THEN last_accepted ELSE 0
    /\ admission' = {}
    /\ UNCHANGED <<kind, source, calibration, epoch, issued>>

\* Mutant: the epochs start again.
cleanup_mutant ==
    /\ Configurable
    /\ state' = "unconfigured" /\ source' = None /\ calibration' = None
    /\ session' = NoSession /\ epoch' = 0
    /\ pending' = Empty /\ last_at' = NoTimes
    /\ last_accepted' = IF kind = "rgbd" THEN last_accepted ELSE 0
    /\ admission' = {}
    /\ UNCHANGED <<kind, issued>>

cleanup ==
    /\ Configurable
    /\ state' = "unconfigured" /\ source' = None /\ calibration' = None
    /\ session' = NoSession
    /\ pending' = Empty /\ last_at' = NoTimes
    /\ last_accepted' = IF kind = "rgbd" THEN last_accepted ELSE 0
    /\ admission' = {}
    /\ UNCHANGED <<kind, epoch, issued>>

shutdown ==
    /\ state' = "finalized" /\ source' = None /\ calibration' = None
    /\ session' = NoSession
    /\ pending' = Empty /\ last_at' = NoTimes
    /\ last_accepted' = IF kind = "physical" THEN last_accepted ELSE 0
    /\ admission' = {}
    /\ UNCHANGED <<kind, epoch, issued>>
--------------------------------------------------------------------------------
(* Evidence. *)

\* A callback's metadata: its stream, acquisition and result time, the source and
\* the session it names, its form ("misfit" when the image has another size than
\* the calibration) and, for a CameraInfo, its calibration.
Message ==
    [stream: Streams(kind), at: 1..MaxTime, result: 1..MaxTime, source: Source,
     epoch: 1..MaxEpoch, form: {"good", "misfit", "unsupported"}, calibration: Source]

\* Only audio has a result time of its own and only images have a size.
WellFormed(m) ==
    /\ m.at <= m.result /\ (m.stream # "frame" => m.result = m.at)
    /\ m.form = "misfit" => m.stream = "image"
    /\ m.stream # "info" => m.calibration = m.source

Timely(m, now) ==
    /\ m.result <= now + Skew /\ m.at >= now - Retention
    /\ m.at > last_accepted

OfSession(m) == [source |-> m.source, epoch |-> m.epoch] = session

Waiting(m) == \E w \in pending[m.stream] : w.at = m.at

\* _validate_common, and what either submit method of a camera adds to it.
CameraAccepts(m, now) ==
    /\ source # None /\ calibration # None /\ session # NoSession
    /\ OfSession(m) /\ m.source = source /\ Timely(m, now)
    /\ m.stream = "image" => m.form # "unsupported"
    /\ m.stream = "info" => m.calibration = calibration
    /\ ~Waiting(m)

AudioAccepts(m, now) ==
    OfSession(m) /\ m.source = source /\ m.form = "good" /\ Timely(m, now)

\* An RGB frame names no session.
RgbdAccepts(m, now) ==
    /\ m.source = source /\ m.form = "good"
    /\ m.stream = "depth" => OfSession(m)
    /\ Timely(m, now) /\ ~Waiting(m) /\ m.at > last_at[m.stream]

Accepts(m, now) ==
    /\ state = "active"
    /\ CASE kind \in Cameras -> CameraAccepts(m, now)
         [] kind = "audio"   -> AudioAccepts(m, now)
         [] kind = "rgbd"    -> RgbdAccepts(m, now)

\* The newest n of a set of waiting messages.
NewestOf(n, ws) == {w \in ws : Cardinality({v \in ws : v.at > w.at}) < n}

\* What waited too long goes, and then the oldest while a stream is over capacity;
\* the message that has just come may go too.
_evict_pending(p, newest) ==
    [s \in DOMAIN p |-> NewestOf(Capacity, {w \in p[s] : w.at >= newest - PairWait})]

Partners(p, at) == {w \in UNION {p[s] : s \in DOMAIN p} : w.at = at}
Without(p, at) == [s \in DOMAIN p |-> {w \in p[s] : w.at # at}]

\* The sealed admission, unless the frame, made with the adapter's calibration,
\* fails the requirement of its source.
Sealed(pair, at) ==
    IF calibration = source THEN {[session |-> session, at |-> at, of |-> pair]} ELSE {}

\* Mutant: a pair that does not fit stays.
_try_pair_mutant(p, at) ==
    LET pair == Partners(p, at) IN
    IF \/ \E s \in DOMAIN p : {w \in p[s] : w.at = at} = {}
       \/ \E w \in pair : w.form = "misfit"
    THEN pending' = p /\ admission' = {} /\ UNCHANGED <<last_accepted, issued>>
    ELSE /\ pending' = Without(p, at)
         /\ last_accepted' = at
         /\ admission' = Sealed(pair, at)
         /\ issued' = issued \cup {[session |-> a.session, at |-> a.at] : a \in admission'}

\* When every stream has a message of this time they are taken out and, if they
\* fit, admitted; the order advances even if the admission is then refused.
_try_pair(p, at) ==
    LET pair == Partners(p, at) IN
    IF \E s \in DOMAIN p : {w \in p[s] : w.at = at} = {}
    THEN pending' = p /\ admission' = {} /\ UNCHANGED <<last_accepted, issued>>
    ELSE /\ pending' = Without(p, at)
         /\ IF \E w \in pair : w.form = "misfit"
            THEN admission' = {} /\ UNCHANGED <<last_accepted, issued>>
            ELSE /\ last_accepted' = at
                 /\ admission' = Sealed(pair, at)
                 /\ issued' = issued \cup
                      {[session |-> a.session, at |-> a.at] : a \in admission'}

\* during: history, the epoch in which the message came.
submit(m, now) ==
    /\ IF ~Accepts(m, now)
       THEN admission' = {} /\ UNCHANGED <<pending, last_at, last_accepted, issued>>
       ELSE LET w == [stream |-> m.stream, at |-> m.at, form |-> m.form,
                      epoch |-> m.epoch, during |-> epoch]
            IN  /\ last_at' = [last_at EXCEPT ![m.stream] = IF kind = "rgbd" THEN m.at ELSE 0]
                /\ _try_pair(_evict_pending([pending EXCEPT ![m.stream] = @ \cup {w}], m.at),
                             m.at)
    /\ UNCHANGED <<kind, state, source, calibration, epoch, session>>
--------------------------------------------------------------------------------
Next ==
    \/ \E s \in Source, c \in Source \cup {None} : configure_physical(s, c)
    \/ \E s \in Source, c \in Source \cup {None} : configure_depth(s, c)
    \/ \E s \in Source : configure_audio(s)
    \/ \E s \in Source : configure_rgbd(s)
    \/ activate \/ deactivate \/ cleanup \/ shutdown
    \/ \E m \in Message, now \in 0..MaxTime : WellFormed(m) /\ submit(m, now)

Spec == Init /\ [][Next]_vars
--------------------------------------------------------------------------------
(* Properties. *)

\* The adapter's fields have their types, a session is open exactly while it is
\* active, and no queue exceeds its capacity.
TypeOK ==
    /\ kind \in Kinds
    /\ state \in {"unconfigured", "inactive", "active", "finalized"}
    /\ source \in Source \cup {None} /\ calibration \in Source \cup {None}
    /\ epoch \in 0..MaxEpoch /\ last_accepted \in 0..MaxTime
    /\ (session = NoSession) = (state # "active")
    /\ \A s \in Streams(kind) : Cardinality(pending[s]) <= Capacity

\* Nothing outlives its session: what waits came during the present activation,
\* whatever was configured, cleaned up and activated since.
PendingIsCurrent ==
    \A s \in Streams(kind) : \A w \in pending[s] :
        state = "active" /\ w.during = epoch

\* Partners find each other in whatever order they come and however the queues
\* overflow: no image waits beside the CameraInfo of its time, no RGB frame beside
\* its depth frame.
NoPartnersWait ==
    \A r, s \in Streams(kind) : r # s =>
        {w.at : w \in pending[r]} \cap {w.at : w \in pending[s]} = {}

\* Within a session admissions are issued in strictly increasing acquisition time,
\* so a repeated or delayed frame is never sealed a second time; and an activation
\* opens a session in which nothing was ever issued, also after the adapter was
\* cleaned up and configured for the same source again.
AdmittedInOrder ==
    [][ /\ \A a \in issued, b \in admission' : a.session = b.session => a.at < b.at
        /\ state # "active" /\ state' = "active" =>
              \A a \in issued : a.session # session' ]_vars

\* A sealed admission is made of messages that came in its own session and that
\* name it, an RGB frame excepted, and carries the calibration of its source, even
\* after a configuration that failed half way.
AdmissionsOfSession ==
    \A a \in admission :
        /\ a.session = session /\ calibration = source
        /\ \A w \in a.of : /\ w.during = session.epoch
                           /\ w.stream # "rgb" => w.epoch = session.epoch

\* Sessions do not leak into each other: neither what waits for a partner nor what
\* is sealed mixes messages, sources or calibrations of two activations.
SessionsIsolated == TypeOK /\ PendingIsCurrent /\ AdmissionsOfSession
================================================================================
