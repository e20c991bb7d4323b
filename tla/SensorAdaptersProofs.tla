-------------------------- MODULE SensorAdaptersProofs --------------------------
(***************************************************************************)
(* Proofs about SensorAdapters, for any sources, limits, capacity and      *)
(* number of activations, and for each of the four kinds of adapter.       *)
(***************************************************************************)
EXTENDS SensorAdapters, FiniteSetTheorems, WellFoundedInduction, TLAPS

\* What may wait in an adapter of kind k.
Waiter(k) == [stream: Streams(k), at: 1..MaxTime,
              form: {"good", "misfit", "unsupported"}, epoch: 1..MaxEpoch,
              during: 0..MaxEpoch]

\* Queues of an adapter of kind k in which no stream has two messages of one time.
Queues(k) == {p \in [Streams(k) -> SUBSET Waiter(k)] :
                 \A s \in Streams(k) :
                    /\ IsFiniteSet(p[s])
                    /\ \A v, w \in p[s] : v.at = w.at => v = w}

\* All that waits came in activation e and names its session, RGB frames excepted.
OfActivation(p, k, e) ==
    \A s \in Streams(k) : \A w \in p[s] :
        w.during = e /\ (w.stream # "rgb" => w.epoch = e)

\* No two streams hold messages of one time, but perhaps of time t.
ApartBut(p, k, t) ==
    \A r, s \in Streams(k) : r # s =>
        \A v \in p[r], w \in p[s] : v.at = w.at => v.at = t

Nothing == 0    \* no acquisition time

Fields ==
    /\ kind \in Kinds
    /\ state \in {"unconfigured", "inactive", "active", "finalized"}
    /\ source \in Source \cup {None} /\ calibration \in Source \cup {None}
    /\ epoch \in 0..MaxEpoch /\ last_accepted \in 0..MaxTime

SessionOpen ==
    /\ state = "active" => /\ session = [source |-> source, epoch |-> epoch]
                           /\ source # None /\ epoch >= 1
    /\ state # "active" => session = NoSession /\ pending = Empty

QueuesSound ==
    /\ pending \in Queues(kind)
    /\ \A s \in Streams(kind) : Cardinality(pending[s]) <= Capacity
    /\ OfActivation(pending, kind, epoch)
    /\ ApartBut(pending, kind, Nothing)
    /\ kind = "audio" => pending = Empty

\* What was issued belongs to an activation so far, and of the open session it is
\* not newer than the last time accepted.
IssuedBefore ==
    \A a \in issued :
        /\ a.session \in [source: Source, epoch: 1..epoch]
        /\ a.session = session => a.at \in Nat /\ a.at <= last_accepted

IInv == Fields /\ SessionOpen /\ QueuesSound /\ IssuedBefore /\ AdmissionsOfSession

\* What AdmittedInOrder says of a step.
OrderStep ==
    /\ \A a \in issued, b \in admission' : a.session = b.session => a.at < b.at
    /\ state # "active" /\ state' = "active" => \A a \in issued : a.session # session'

--------------------------------------------------------------------------------
(* The queues. *)

LEMMA StreamsOf ==
    ASSUME NEW k \in Kinds
    PROVE  \/ Streams(k) = {"image", "info"} \/ Streams(k) = {"frame"}
           \/ Streams(k) = {"rgb", "depth"}
BY AdaptersAssumption DEF Streams, Cameras

LEMMA EmptyQueues ==
    ASSUME NEW k \in Kinds, NEW p, p = [s \in Streams(k) |-> {}]
    PROVE  /\ p \in Queues(k) /\ \A s \in Streams(k) : Cardinality(p[s]) <= Capacity
           /\ \A e : OfActivation(p, k, e)
           /\ ApartBut(p, k, Nothing)
<1>1. p \in [Streams(k) -> SUBSET Waiter(k)] /\ \A s \in Streams(k) : p[s] = {}
  OBVIOUS
<1>2. IsFiniteSet({}) /\ Cardinality({}) = 0
  BY FS_EmptySet
<1> QED
  BY <1>1, <1>2, AdaptersAssumption DEF Queues, OfActivation, ApartBut

\* The least time of a set of messages.
LEMMA OldestWaits ==
    ASSUME NEW S, IsFiniteSet(S), S # {}, \A w \in S : w.at \in Nat
    PROVE  \E m \in S : \A w \in S : m.at <= w.at
<1> DEFINE A == {w.at : w \in S}
           R == {p \in Nat \X Nat : p[1] < p[2]}
<1>1. A \subseteq Nat /\ A # {}
  OBVIOUS
<1>2. IsWellFoundedOn(R, Nat)
  BY NatLessThanWellFounded DEF OpToRel
<1>3. PICK x \in A : \A y \in A : ~ (<<y, x>> \in R)
  <2> HIDE DEF R, A
  <2> QED
    BY <1>1, <1>2, WFMin
<1>4. \A y \in A : x <= y
  <2> SUFFICES ASSUME NEW y \in A PROVE x <= y
    OBVIOUS
  <2>1. x \in Nat /\ y \in Nat /\ <<y, x>> \in Nat \X Nat
    BY <1>1
  <2>2. ~ (<<y, x>> \in R)
    BY <1>3
  <2>3. ~ (y < x)
    BY <2>1, <2>2
  <2> QED
    BY <2>1, <2>3
<1> QED
  BY <1>3, <1>4

\* The newest n of messages of different times are n at most.
LEMMA NewestAreFew ==
    ASSUME NEW S, IsFiniteSet(S), \A w \in S : w.at \in Nat,
           \A v, w \in S : v.at = w.at => v = w, NEW n \in Nat \ {0}
    PROVE  /\ NewestOf(n, S) \subseteq S /\ IsFiniteSet(NewestOf(n, S))
           /\ Cardinality(NewestOf(n, S)) <= n
<1> DEFINE B == NewestOf(n, S)
<1>1. B \subseteq S
  BY DEF NewestOf
<1>2. IsFiniteSet(B)
  BY <1>1, FS_Subset
<1>3. CASE B = {}
  BY <1>1, <1>2, <1>3, FS_EmptySet
<1>4. CASE B # {}
  <2>1. PICK m \in B : \A w \in B : m.at <= w.at
    <3>1. \A w \in B : w.at \in Nat
      BY <1>1
    <3> HIDE DEF B
    <3> QED
      BY <1>2, <1>4, <3>1, OldestWaits
  <2> DEFINE Later == {v \in S : v.at > m.at}
  <2>2. Cardinality(Later) < n
    BY <2>1 DEF NewestOf
  <2>3. B \ {m} \subseteq Later
    <3> SUFFICES ASSUME NEW w \in B \ {m} PROVE w \in Later
      OBVIOUS
    <3>1. w \in S /\ m \in S /\ w.at \in Nat /\ m.at \in Nat /\ w.at # m.at
      BY <1>1, <2>1
    <3> QED
      BY <2>1, <3>1
  <2>4. IsFiniteSet(Later)
    <3>1. Later \subseteq S
      OBVIOUS
    <3> QED
      BY <3>1, FS_Subset
  <2> HIDE DEF B, Later
  <2>5. IsFiniteSet(B \ {m}) /\ Cardinality(B \ {m}) = Cardinality(B) - 1
    BY <1>2, <2>1, FS_RemoveElement
  <2>6. Cardinality(B \ {m}) <= Cardinality(Later)
    BY <2>3, <2>4, FS_Subset
  <2>7. Cardinality(B) \in Nat /\ Cardinality(B \ {m}) \in Nat /\ Cardinality(Later) \in Nat
    BY <1>2, <2>4, <2>5, FS_CardinalityType
  <2>8. Cardinality(B) <= n
    BY <2>2, <2>5, <2>6, <2>7
  <2> QED
    BY <1>1, <1>2, <2>8 DEF B
<1> QED
  BY <1>3, <1>4

\* A message put where no other of its time waits.
LEMMA PutInQueue ==
    ASSUME NEW k, NEW p \in Queues(k), NEW s \in Streams(k), NEW w \in Waiter(k),
           \A v \in p[s] : v.at # w.at,
           NEW q, q = [p EXCEPT ![s] = @ \cup {w}]
    PROVE  q \in Queues(k)
<1>1. p \in [Streams(k) -> SUBSET Waiter(k)]
  BY DEF Queues
<1>2. q \in [Streams(k) -> SUBSET Waiter(k)]
  BY <1>1
<1>3. ASSUME NEW t \in Streams(k)
      PROVE  IsFiniteSet(q[t]) /\ \A v, u \in q[t] : v.at = u.at => v = u
  <2>1. CASE t = s
    <3>1. q[t] = p[s] \cup {w}
      BY <1>1, <2>1
    <3>2. IsFiniteSet(q[t])
      BY <3>1, FS_AddElement DEF Queues
    <3> QED
      BY <3>1, <3>2 DEF Queues
  <2>2. CASE t # s
    BY <1>1, <2>2 DEF Queues
  <2> QED
    BY <2>1, <2>2
<1> QED
  BY <1>2, <1>3 DEF Queues

\* Part of the queues.
LEMMA PartOfQueues ==
    ASSUME NEW k, NEW p \in Queues(k), NEW q, DOMAIN q = Streams(k),
           q = [s \in DOMAIN q |-> q[s]],
           \A s \in Streams(k) : q[s] \subseteq p[s]
    PROVE  q \in Queues(k)
<1>1. p \in [Streams(k) -> SUBSET Waiter(k)]
  BY DEF Queues
<1>2. q \in [Streams(k) -> SUBSET Waiter(k)]
  BY <1>1
<1>3. \A s \in Streams(k) : IsFiniteSet(q[s])
  BY FS_Subset DEF Queues
<1> QED
  BY <1>2, <1>3 DEF Queues

\* What _evict_pending leaves.
LEMMA Evicted ==
    ASSUME NEW k, NEW p \in Queues(k), NEW newest \in Nat, NEW q, q = _evict_pending(p, newest)
    PROVE  /\ q \in Queues(k)
           /\ \A s \in Streams(k) : q[s] \subseteq p[s] /\ Cardinality(q[s]) <= Capacity
<1>1. p \in [Streams(k) -> SUBSET Waiter(k)]
  BY DEF Queues
<1> DEFINE Young(s) == {w \in p[s] : w.at >= newest - PairWait}
<1>2. q = [s \in Streams(k) |-> NewestOf(Capacity, Young(s))]
  BY <1>1 DEF _evict_pending
<1>3. ASSUME NEW s \in Streams(k)
      PROVE  q[s] \subseteq p[s] /\ Cardinality(q[s]) <= Capacity
  <2>1. Young(s) \subseteq p[s] /\ IsFiniteSet(p[s])
    BY DEF Queues
  <2>2. IsFiniteSet(Young(s))
    BY <2>1, FS_Subset
  <2>3. /\ \A w \in Young(s) : w.at \in Nat
        /\ \A v, w \in Young(s) : v.at = w.at => v = w
    BY <1>1, AdaptersAssumption DEF Queues, Waiter
  <2>4. q[s] = NewestOf(Capacity, Young(s))
    BY <1>2
  <2>5. Capacity \in Nat \ {0}
    BY AdaptersAssumption
  <2> HIDE DEF Young
  <2> QED
    BY <2>1, <2>2, <2>3, <2>4, <2>5, NewestAreFew
<1>4. DOMAIN q = Streams(k) /\ q = [s \in DOMAIN q |-> q[s]]
  BY <1>2
<1> HIDE DEF Young
<1> QED
  BY <1>3, <1>4, PartOfQueues

--------------------------------------------------------------------------------
(* Configuration and lifecycle. *)

LEMMA InitIInv == Init => IInv
<1> SUFFICES ASSUME Init PROVE IInv
  OBVIOUS
<1>1. kind \in Kinds /\ pending = [s \in Streams(kind) |-> {}]
  BY DEF Init, Empty
<1>2. QueuesSound
  BY <1>1, EmptyQueues DEF QueuesSound, Empty
<1>3. Fields
  BY AdaptersAssumption DEF Init, Fields
<1> QED
  BY <1>2, <1>3 DEF Init, IInv, SessionOpen, IssuedBefore, AdmissionsOfSession

\* An adapter that is not active holds no session and nothing waits in it.
LEMMA IdleStep ==
    ASSUME IInv, Fields', state' # "active", session' = NoSession, pending' = Empty,
           admission' = {}, UNCHANGED <<kind, epoch, issued>>
    PROVE  IInv' /\ OrderStep
<1>1. kind \in Kinds /\ pending' = [s \in Streams(kind) |-> {}]
  BY DEF IInv, Fields, Empty
<1>2. QueuesSound'
  BY <1>1, EmptyQueues DEF QueuesSound, Empty
<1>3. SessionOpen'
  BY DEF SessionOpen, Empty, NoSession
<1>4. IssuedBefore'
  <2> SUFFICES ASSUME NEW a \in issued
               PROVE  a.session \in [source: Source, epoch: 1..epoch] /\ a.session # NoSession
    BY DEF IssuedBefore
  <2>1. a.session \in [source: Source, epoch: 1..epoch]
    BY DEF IInv, IssuedBefore
  <2> QED
    BY <2>1, NoneAssumption DEF NoSession
<1> QED
  BY <1>2, <1>3, <1>4 DEF IInv, AdmissionsOfSession, OrderStep

LEMMA ConfigureStep ==
    ASSUME IInv, NEW s \in Source, NEW c \in Source \cup {None},
           \/ configure_physical(s, c) \/ configure_depth(s, c)
           \/ configure_audio(s) \/ configure_rgbd(s)
    PROVE  IInv' /\ OrderStep
<1>1. state # "active" /\ session = NoSession /\ pending = Empty /\ Fields
  BY DEF configure_physical, configure_depth, configure_audio, configure_rgbd,
         Configurable, IInv, SessionOpen
<1>2. admission' = {} /\ UNCHANGED <<kind, epoch, issued>>
  BY DEF configure_physical, configure_depth, configure_audio, configure_rgbd
<1>3. pending' = Empty /\ session' = NoSession
  BY <1>1 DEF configure_physical, configure_depth, configure_audio, configure_rgbd
<1>4. state' \in {state, "inactive"} /\ last_accepted' \in {last_accepted, 0}
      /\ source' \in {source, s} /\ calibration' \in {calibration, c, s}
  BY DEF configure_physical, configure_depth, configure_audio, configure_rgbd
<1>5. Fields' /\ state' # "active"
  BY <1>1, <1>2, <1>4, AdaptersAssumption DEF Fields, Configurable
<1> QED
  BY <1>2, <1>3, <1>5, IdleStep

LEMMA StopStep ==
    ASSUME IInv, deactivate \/ cleanup \/ shutdown
    PROVE  IInv' /\ OrderStep
<1>1. /\ admission' = {} /\ UNCHANGED <<kind, epoch, issued>>
      /\ pending' = Empty /\ session' = NoSession
      /\ state' \in {"inactive", "unconfigured", "finalized"}
      /\ source' \in {source, None} /\ calibration' \in {calibration, None}
      /\ last_accepted' \in {last_accepted, 0}
  BY DEF deactivate, cleanup, shutdown
<1>2. Fields'
  BY <1>1, AdaptersAssumption DEF IInv, Fields
<1> QED
  BY <1>1, <1>2, IdleStep

LEMMA ActivateStep ==
    ASSUME IInv, activate
    PROVE  IInv' /\ OrderStep
<1>1. /\ source \in Source /\ epoch \in Nat /\ epoch' = epoch + 1 /\ epoch' \in 0..MaxEpoch
      /\ session' = [source |-> source, epoch |-> epoch'] /\ state' = "active"
      /\ pending' = Empty /\ last_accepted' = 0 /\ admission' = {}
      /\ UNCHANGED <<kind, source, calibration, issued>>
  BY AdaptersAssumption DEF activate, IInv, Fields
<1>2. kind \in Kinds /\ pending' = [s \in Streams(kind) |-> {}]
  BY <1>1 DEF IInv, Fields, Empty
<1>3. QueuesSound'
  BY <1>1, <1>2, EmptyQueues DEF QueuesSound, Empty
<1>4. Fields' /\ SessionOpen'
  BY <1>1, NoneAssumption, AdaptersAssumption DEF IInv, Fields, SessionOpen
<1>5. ASSUME NEW a \in issued
      PROVE  a.session \in [source: Source, epoch: 1..epoch'] /\ a.session # session'
  <2>1. a.session \in [source: Source, epoch: 1..epoch]
    BY DEF IInv, IssuedBefore
  <2>2. a.session.epoch # session'.epoch
    BY <1>1, <2>1
  <2>3. 1..epoch \subseteq 1..epoch'
    BY <1>1
  <2> QED
    BY <2>1, <2>2, <2>3
<1>6. IssuedBefore'
  BY <1>1, <1>5 DEF IssuedBefore
<1> QED
  BY <1>1, <1>3, <1>4, <1>5, <1>6 DEF IInv, AdmissionsOfSession, OrderStep

--------------------------------------------------------------------------------
(* Evidence. *)

\* A message alone in its queue is not evicted.
LEMMA LoneStays ==
    ASSUME NEW w, w.at \in Nat, NEW p, NEW s \in DOMAIN p, p[s] = {w},
           NEW q, q = _evict_pending(p, w.at)
    PROVE  w \in q[s]
<1>1. PairWait \in Nat /\ Capacity \in Nat \ {0}
  BY AdaptersAssumption
<1>2. {v \in p[s] : v.at >= w.at - PairWait} = {w}
  BY <1>1
<1>3. q[s] = NewestOf(Capacity, {w})
  BY <1>2 DEF _evict_pending
<1>4. {v \in {w} : v.at > w.at} = {}
  OBVIOUS
<1>5. Cardinality({v \in {w} : v.at > w.at}) < Capacity
  BY <1>1, <1>4, FS_EmptySet
<1> QED
  BY <1>3, <1>5 DEF NewestOf

\* What every adapter requires of a message it takes.
LEMMA AcceptedMessage ==
    ASSUME IInv, NEW m \in Message, NEW now \in 0..MaxTime, Accepts(m, now)
    PROVE  /\ state = "active" /\ m.at > last_accepted
           /\ kind # "audio" => \A v \in pending[m.stream] : v.at # m.at
           /\ m.stream # "rgb" => m.epoch = epoch
<1>1. state = "active" /\ session = [source |-> source, epoch |-> epoch] /\ kind \in Kinds
  BY DEF Accepts, IInv, SessionOpen, Fields
<1>2. m.stream \in Streams(kind)
  BY DEF Message
<1>3. CASE kind \in Cameras
  <2>1. CameraAccepts(m, now)
    BY <1>3 DEF Accepts, Cameras
  <2>2. m.at > last_accepted /\ \A v \in pending[m.stream] : v.at # m.at
    BY <2>1 DEF CameraAccepts, Timely, Waiting
  <2>3. [source |-> m.source, epoch |-> m.epoch] = [source |-> source, epoch |-> epoch]
    BY <1>1, <2>1 DEF CameraAccepts, OfSession
  <2> QED
    BY <1>1, <2>2, <2>3
<1>4. CASE kind = "audio"
  BY <1>1, <1>4 DEF Accepts, AudioAccepts, Timely, OfSession, Cameras
<1>5. CASE kind = "rgbd"
  BY <1>1, <1>2, <1>5 DEF Accepts, RgbdAccepts, Timely, OfSession, Waiting, Cameras, Streams
<1> QED
  BY <1>1, <1>3, <1>4, <1>5, AdaptersAssumption DEF Cameras

\* A message in its queue, the queues evicted.
LEMMA Queued ==
    ASSUME IInv, NEW m \in Message, NEW now \in 0..MaxTime, Accepts(m, now),
           NEW w, w = [stream |-> m.stream, at |-> m.at, form |-> m.form,
                       epoch |-> m.epoch, during |-> epoch],
           NEW q, q = _evict_pending([pending EXCEPT ![m.stream] = @ \cup {w}], m.at)
    PROVE  /\ q \in Queues(kind)
           /\ \A s \in Streams(kind) : Cardinality(q[s]) <= Capacity
           /\ OfActivation(q, kind, epoch) /\ ApartBut(q, kind, m.at)
           /\ kind = "audio" => q = [s \in Streams(kind) |-> {w}]
<1>1. /\ m.stream \in Streams(kind) /\ m.at \in 1..MaxTime /\ w \in Waiter(kind)
      /\ w.at = m.at /\ w.during = epoch /\ w.stream = m.stream /\ w.epoch = m.epoch
  BY DEF Message, Waiter, IInv, Fields
<1>2. m.stream # "rgb" => m.epoch = epoch
  BY AcceptedMessage
<1>3. /\ pending \in Queues(kind) /\ OfActivation(pending, kind, epoch)
      /\ ApartBut(pending, kind, Nothing)
      /\ kind = "audio" => pending = Empty
  BY DEF IInv, QueuesSound
<1>4. \A v \in pending[m.stream] : v.at # w.at
  BY <1>1, <1>3, AcceptedMessage DEF Empty
<1> DEFINE p == [pending EXCEPT ![m.stream] = @ \cup {w}]
<1>5. p \in Queues(kind)
  BY <1>1, <1>3, <1>4, PutInQueue
<1>6. pending \in [Streams(kind) -> SUBSET Waiter(kind)] /\ p \in [Streams(kind) -> SUBSET Waiter(kind)]
  BY <1>3, <1>5 DEF Queues
<1>7. \A s \in Streams(kind) : \A v \in p[s] : v \in pending[s] \/ (s = m.stream /\ v = w)
  BY <1>6
<1>8. q = _evict_pending(p, m.at) /\ m.at \in Nat
  BY <1>1, AdaptersAssumption
<1> HIDE DEF p
<1>9. q \in Queues(kind) /\ \A s \in Streams(kind) : q[s] \subseteq p[s] /\ Cardinality(q[s]) <= Capacity
  BY <1>5, <1>8, Evicted
<1>10. OfActivation(q, kind, epoch)
  <2> SUFFICES ASSUME NEW s \in Streams(kind), NEW v \in q[s]
               PROVE  v.during = epoch /\ (v.stream # "rgb" => v.epoch = epoch)
    BY DEF OfActivation
  <2>1. v \in pending[s] \/ v = w
    BY <1>7, <1>9
  <2> QED
    BY <1>1, <1>2, <1>3, <2>1 DEF OfActivation
<1>11. ApartBut(q, kind, m.at)
  <2> SUFFICES ASSUME NEW r \in Streams(kind), NEW s \in Streams(kind), r # s,
                      NEW v \in q[r], NEW u \in q[s], v.at = u.at
               PROVE  v.at = m.at
    BY DEF ApartBut
  <2>1. (v \in pending[r] \/ v = w) /\ (u \in pending[s] \/ u = w)
    BY <1>7, <1>9
  <2>2. CASE v \in pending[r] /\ u \in pending[s]
    <3>1. v.at = Nothing
      BY <1>3, <2>2 DEF ApartBut
    <3>2. v.at \in 1..MaxTime
      BY <1>6, <2>2 DEF Waiter
    <3> QED
      BY <3>1, <3>2, AdaptersAssumption DEF Nothing
  <2> QED
    BY <1>1, <2>1, <2>2
<1>12. ASSUME kind = "audio" PROVE q = [s \in Streams(kind) |-> {w}]
  <2>1. Streams(kind) = {"frame"} /\ m.stream = "frame"
    BY <1>1, <1>12 DEF Streams, Cameras
  <2>2. pending["frame"] = {}
    BY <1>3, <1>12, <2>1 DEF Empty
  <2>3. p["frame"] = {w} /\ DOMAIN p = {"frame"}
    BY <1>6, <2>1, <2>2 DEF p
  <2>4. w \in q["frame"]
    BY <1>1, <1>8, <2>3, LoneStays
  <2>5. q["frame"] = {w}
    BY <1>9, <2>1, <2>3, <2>4
  <2>6. q \in [{"frame"} -> SUBSET Waiter(kind)]
    BY <1>9, <2>1 DEF Queues
  <2> QED
    BY <2>1, <2>5, <2>6
<1> QED
  BY <1>9, <1>10, <1>11, <1>12

\* The queues after _try_pair: no partners are left waiting.
LEMMA Paired ==
    ASSUME NEW k \in Kinds, NEW e, NEW at, NEW q \in Queues(k),
           \A s \in Streams(k) : Cardinality(q[s]) <= Capacity,
           OfActivation(q, k, e), ApartBut(q, k, at),
           NEW p, \/ p = Without(q, at)
                  \/ p = q /\ \E s \in Streams(k) : {w \in q[s] : w.at = at} = {}
    PROVE  /\ p \in Queues(k)
           /\ \A s \in Streams(k) : p[s] \subseteq q[s] /\ Cardinality(p[s]) <= Capacity
           /\ OfActivation(p, k, e) /\ ApartBut(p, k, Nothing)
<1>1. q \in [Streams(k) -> SUBSET Waiter(k)]
  BY DEF Queues
<1>2. CASE p = Without(q, at)
  <2>1. p = [s \in Streams(k) |-> {w \in q[s] : w.at # at}]
    BY <1>1, <1>2 DEF Without
  <2>2. \A s \in Streams(k) : p[s] = {w \in q[s] : w.at # at}
    BY <2>1
  <2>3. \A s \in Streams(k) : p[s] \subseteq q[s]
    BY <2>2
  <2>4. p \in Queues(k)
    <3>1. DOMAIN p = Streams(k) /\ p = [s \in DOMAIN p |-> p[s]]
      BY <2>1
    <3> QED
      BY <2>3, <3>1, PartOfQueues
  <2>5. ASSUME NEW s \in Streams(k) PROVE Cardinality(p[s]) <= Capacity
    <3>1. IsFiniteSet(q[s])
      BY DEF Queues
    <3>2. IsFiniteSet(p[s]) /\ Cardinality(p[s]) <= Cardinality(q[s])
      BY <2>3, <3>1, FS_Subset
    <3>3. Cardinality(p[s]) \in Nat /\ Cardinality(q[s]) \in Nat
      BY <3>1, <3>2, FS_CardinalityType
    <3>4. Cardinality(q[s]) <= Capacity
      OBVIOUS
    <3> QED
      BY <3>2, <3>3, <3>4, AdaptersAssumption
  <2>6. OfActivation(p, k, e)
    BY <2>3 DEF OfActivation
  <2>7. ApartBut(p, k, Nothing)
    BY <2>2 DEF ApartBut
  <2> QED
    BY <2>3, <2>4, <2>5, <2>6, <2>7
<1>3. CASE p = q /\ \E s \in Streams(k) : {w \in q[s] : w.at = at} = {}
  <2>1. PICK t \in Streams(k) : {w \in q[t] : w.at = at} = {}
    BY <1>3
  <2>2. ApartBut(p, k, Nothing)
    <3> SUFFICES ASSUME NEW r \in Streams(k), NEW s \in Streams(k), r # s,
                        NEW v \in q[r], NEW w \in q[s], v.at = w.at
                 PROVE  FALSE
      BY <1>3 DEF ApartBut
    <3>1. v.at = at /\ w.at = at
      BY DEF ApartBut
    <3>2. t = r \/ t = s
      BY StreamsOf
    <3> QED
      BY <2>1, <3>1, <3>2
  <2> QED
    BY <1>3, <2>2
<1> QED
  BY <1>2, <1>3

LEMMA SubmitStep ==
    ASSUME IInv, NEW m \in Message, NEW now \in 0..MaxTime, submit(m, now)
    PROVE  IInv' /\ OrderStep
<1>1. UNCHANGED <<kind, state, source, calibration, epoch, session>>
  BY DEF submit
<1>2. CASE ~Accepts(m, now)
  <2>1. admission' = {} /\ UNCHANGED <<pending, last_accepted, issued>>
    BY <1>2 DEF submit
  <2>2. Fields' /\ IssuedBefore'
    BY <1>1, <2>1 DEF IInv, Fields, IssuedBefore
  <2>3. SessionOpen'
    BY <1>1, <2>1 DEF IInv, SessionOpen, Empty
  <2>4. QueuesSound'
    BY <1>1, <2>1 DEF IInv, QueuesSound, Empty
  <2>5. AdmissionsOfSession' /\ OrderStep
    BY <1>1, <2>1 DEF AdmissionsOfSession, OrderStep
  <2> QED
    BY <2>2, <2>3, <2>4, <2>5 DEF IInv
<1>3. CASE Accepts(m, now)
  <2> DEFINE w == [stream |-> m.stream, at |-> m.at, form |-> m.form,
                   epoch |-> m.epoch, during |-> epoch]
             q == _evict_pending([pending EXCEPT ![m.stream] = @ \cup {w}], m.at)
             pair == Partners(q, m.at)
  <2>1. _try_pair(q, m.at)
    BY <1>3 DEF submit
  <2>2. /\ q \in Queues(kind)
        /\ \A s \in Streams(kind) : Cardinality(q[s]) <= Capacity
        /\ OfActivation(q, kind, epoch) /\ ApartBut(q, kind, m.at)
        /\ kind = "audio" => q = [s \in Streams(kind) |-> {w}]
    BY <1>3, Queued
  <2>3. w.at = m.at
    OBVIOUS
  <2> HIDE DEF w, q
  <2>4. q \in [Streams(kind) -> SUBSET Waiter(kind)] /\ DOMAIN q = Streams(kind)
    BY <2>2 DEF Queues
  <2>5. /\ state = "active" /\ m.at > last_accepted
        /\ session = [source |-> source, epoch |-> epoch] /\ epoch >= 1 /\ source \in Source
        /\ kind \in Kinds /\ epoch \in 0..MaxEpoch /\ last_accepted \in 0..MaxTime
        /\ m.at \in 1..MaxTime
    BY <1>3, AcceptedMessage DEF IInv, SessionOpen, Fields, Message
  <2>6. \/ pending' = Without(q, m.at)
        \/ pending' = q /\ \E s \in Streams(kind) : {v \in q[s] : v.at = m.at} = {}
    BY <2>1, <2>4 DEF _try_pair
  <2>7. \/ admission' = {} /\ UNCHANGED <<last_accepted, issued>>
        \/ /\ last_accepted' = m.at /\ admission' = Sealed(pair, m.at)
           /\ issued' = issued \cup {[session |-> a.session, at |-> a.at] : a \in admission'}
    BY <2>1 DEF _try_pair
  <2>8. \A a \in admission' : /\ a.session = session /\ a.at = m.at /\ a.of = pair
                              /\ calibration = source
    BY <2>7 DEF Sealed
  <2>9. Fields'
    BY <1>1, <2>5, <2>7, AdaptersAssumption DEF IInv, Fields
  <2>10. SessionOpen'
    BY <1>1, <2>5, NoneAssumption DEF SessionOpen
  <2>11. QueuesSound'
    <3>1. /\ pending' \in Queues(kind)
          /\ \A s \in Streams(kind) : Cardinality(pending'[s]) <= Capacity
          /\ OfActivation(pending', kind, epoch) /\ ApartBut(pending', kind, Nothing)
      BY <2>2, <2>5, <2>6, Paired
    <3>2. ASSUME kind = "audio" PROVE pending' = Empty
      <4>1. Streams(kind) = {"frame"}
        BY <3>2 DEF Streams, Cameras
      <4>2. q["frame"] = {w} /\ {v \in q["frame"] : v.at = m.at} # {}
        BY <2>2, <2>3, <3>2, <4>1
      <4>3. pending' = Without(q, m.at)
        BY <2>6, <4>1, <4>2
      <4>4. {v \in q["frame"] : v.at # m.at} = {}
        BY <2>3, <4>2
      <4>5. pending' = [s \in {"frame"} |-> {v \in q[s] : v.at # m.at}]
        BY <2>4, <4>1, <4>3 DEF Without
      <4> QED
        BY <4>1, <4>4, <4>5 DEF Empty
    <3> QED
      BY <1>1, <3>1, <3>2 DEF QueuesSound, Empty, OfActivation, ApartBut, Queues
  <2>12. IssuedBefore'
    <3> SUFFICES ASSUME NEW a \in issued'
                 PROVE  /\ a.session \in [source: Source, epoch: 1..epoch]
                        /\ a.session = session => a.at \in Nat /\ a.at <= last_accepted'
      BY <1>1 DEF IssuedBefore
    <3>1. CASE a \in issued
      <4>1. /\ a.session \in [source: Source, epoch: 1..epoch]
            /\ a.session = session => a.at \in Nat /\ a.at <= last_accepted
        BY <3>1 DEF IInv, IssuedBefore
      <4>2. last_accepted' \in {last_accepted, m.at}
        BY <2>7
      <4> QED
        BY <2>5, <4>1, <4>2
    <3>2. CASE a \notin issued
      <4>1. a.session = session /\ a.at = m.at /\ last_accepted' = m.at
        BY <2>7, <2>8, <3>2
      <4> QED
        BY <2>5, <4>1
    <3> QED
      BY <3>1, <3>2
  <2>13. \A x \in pair : x.during = epoch /\ (x.stream # "rgb" => x.epoch = epoch)
    <3> SUFFICES ASSUME NEW x \in pair
                 PROVE  x.during = epoch /\ (x.stream # "rgb" => x.epoch = epoch)
      OBVIOUS
    <3>1. \E s \in DOMAIN q : x \in q[s]
      BY DEF Partners
    <3> QED
      BY <2>2, <2>4, <3>1 DEF OfActivation
  <2>14. AdmissionsOfSession'
    BY <1>1, <2>5, <2>8, <2>13 DEF AdmissionsOfSession
  <2>15. OrderStep
    <3>1. ASSUME NEW a \in issued, NEW b \in admission', a.session = b.session PROVE a.at < b.at
      <4>1. b.session = session /\ b.at = m.at
        BY <2>8
      <4>2. a.at \in Nat /\ a.at <= last_accepted
        BY <3>1, <4>1 DEF IInv, IssuedBefore
      <4> QED
        BY <2>5, <4>1, <4>2
    <3> QED
      BY <2>5, <3>1 DEF OrderStep
  <2> QED
    BY <2>9, <2>10, <2>11, <2>12, <2>14, <2>15 DEF IInv
<1> QED
  BY <1>2, <1>3

LEMMA NextIInv == IInv /\ [Next]_vars => IInv' /\ (OrderStep \/ UNCHANGED vars)
<1> SUFFICES ASSUME IInv, [Next]_vars PROVE IInv' /\ (OrderStep \/ UNCHANGED vars)
  OBVIOUS
<1>1. CASE \E s \in Source, c \in Source \cup {None} :
              \/ configure_physical(s, c) \/ configure_depth(s, c)
              \/ configure_audio(s) \/ configure_rgbd(s)
  BY <1>1, ConfigureStep
<1>2. CASE activate
  BY <1>2, ActivateStep
<1>3. CASE deactivate \/ cleanup \/ shutdown
  BY <1>3, StopStep
<1>4. CASE \E m \in Message, now \in 0..MaxTime : submit(m, now)
  BY <1>4, SubmitStep
<1>5. CASE UNCHANGED vars
  BY <1>5 DEF vars, IInv, Fields, SessionOpen, QueuesSound, IssuedBefore, Empty,
              AdmissionsOfSession
<1> QED
  BY <1>1, <1>2, <1>3, <1>4, <1>5 DEF Next

\* The inductive invariant of an adapter.
LEMMA SpecIInv == Spec => []IInv
BY InitIInv, NextIInv, PTL DEF Spec

--------------------------------------------------------------------------------
(* The theorems. *)

\* Sessions do not leak into each other: what waits and what submit seals is of the
\* present activation, with the calibration of its source, within the capacity.
THEOREM SessionsStayIsolated == Spec => []SessionsIsolated
<1>1. IInv => TypeOK
  <2> SUFFICES ASSUME IInv PROVE TypeOK
    OBVIOUS
  <2>1. (session = NoSession) = (state # "active")
    <3>1. CASE state = "active"
      <4>1. session = [source |-> source, epoch |-> epoch] /\ epoch >= 1
        BY <3>1 DEF IInv, SessionOpen
      <4>2. session # NoSession
        BY <4>1 DEF NoSession
      <4> QED
        BY <3>1, <4>2
    <3>2. CASE state # "active"
      BY <3>2 DEF IInv, SessionOpen
    <3> QED
      BY <3>1, <3>2
  <2> QED
    BY <2>1 DEF IInv, Fields, QueuesSound, TypeOK
<1>2. IInv => PendingIsCurrent
  <2> SUFFICES ASSUME IInv, NEW s \in Streams(kind), NEW w \in pending[s]
               PROVE  state = "active" /\ w.during = epoch
    BY DEF PendingIsCurrent
  <2>1. w.during = epoch
    BY DEF IInv, QueuesSound, OfActivation
  <2>2. pending # Empty
    BY DEF Empty
  <2> QED
    BY <2>1, <2>2 DEF IInv, SessionOpen
<1>3. IInv => SessionsIsolated
  BY <1>1, <1>2 DEF IInv, SessionsIsolated
<1> QED
  BY <1>3, SpecIInv, PTL

\* However messages come and queues overflow, no two streams hold messages of one
\* acquisition time: _try_pair takes partners out as soon as both are there.
THEOREM NoPartnersEverWait == Spec => []NoPartnersWait
<1>1. IInv => NoPartnersWait
  <2> SUFFICES ASSUME IInv, NEW r \in Streams(kind), NEW s \in Streams(kind), r # s,
                      NEW v \in pending[r], NEW w \in pending[s], v.at = w.at
               PROVE  FALSE
    BY DEF NoPartnersWait
  <2>1. v.at = Nothing
    BY DEF IInv, QueuesSound, ApartBut
  <2>2. v.at \in 1..MaxTime
    BY DEF IInv, QueuesSound, Queues, Waiter
  <2> QED
    BY <2>1, <2>2, AdaptersAssumption DEF Nothing
<1> QED
  BY <1>1, SpecIInv, PTL

\* Within a session submit seals in strictly increasing acquisition time, and
\* activate opens a session in which nothing was ever issued.
THEOREM AdmittedStaysInOrder == Spec => AdmittedInOrder
<1>1. IInv /\ [Next]_vars =>
        [ /\ \A a \in issued, b \in admission' : a.session = b.session => a.at < b.at
          /\ state # "active" /\ state' = "active" =>
                \A a \in issued : a.session # session' ]_vars
  BY NextIInv DEF OrderStep
<1> QED
  BY <1>1, SpecIInv, PTL DEF Spec, AdmittedInOrder
================================================================================
