------------------------- MODULE WorldModelNodeProofs -------------------------
(***************************************************************************)
(* Proofs about WorldModelNode, for any parameter sets, any times and any  *)
(* number of callbacks and regressions of the clock.                       *)
(***************************************************************************)
EXTENDS WorldModelNode, TLAPS

Time == 0..MaxTime

--------------------------------------------------------------------------------
(* What boundary and memory hold; S is the set of sensors of the composition. *)

\* A health fact that is sealed with a frame.
SealedHealth(o) == o.kind = "health" /\ o.of \in {"camera", "depth", "microphone"}

Typed(e) ==
    /\ e = [last |-> e.last, admitted |-> e.admitted, auth |-> e.auth,
            mlast |-> e.mlast, kept |-> e.kept, evaluated |-> e.evaluated]
    /\ e.admitted \cup e.auth \cup e.kept \subseteq Observation
    /\ e.last \in Time \cup {None} /\ e.mlast \in Time \cup {None}
    /\ e.evaluated \in BOOLEAN

\* What the boundary admitted was made of what it had admitted in the same epoch.
Grounded(e) ==
    /\ \A h \in e.admitted :
          SealedHealth(h) => Frames(e.admitted, FrameKind(h.of), h.at) # {}
    /\ \A f \in e.admitted : f.kind = "fused" => SourcesIn(e.admitted, f)

Evaluated(e) ==
    e.evaluated => \E o \in e.admitted : Key(o) = <<"interpretation", "evaluated">>

\* Evidence the projector can do with.
Fit(o, S) ==
    /\ Constructs(o)
    /\ o.kind \notin {"interpretation", "semantic"} => o.of \in S

\* The memory holds nothing from the future, and of a key no two of one time.
Retained(e, S) ==
    /\ e.kept \subseteq e.admitted
    /\ \A o \in e.kept : /\ Fit(o, S) /\ validate_observation(o)
                         /\ o.result <= e.mlast + Skew
    /\ \A o, p \in e.kept : o # p /\ Key(o) = Key(p) => Stamp(o) # Stamp(p)

Sane(e, S) == Typed(e) /\ Grounded(e) /\ Evaluated(e) /\ Retained(e, S)

\* What needs a seal was sealed beside its sources, or has no seal any more.
Backed(e, o) ==
    /\ SealedHealth(o) /\ o \in e.auth => Frames(e.admitted, FrameKind(o.of), o.at) # {}
    /\ o.kind = "fused" /\ o \in e.auth => SourcesIn(e.admitted, o)

\* After an attempt the epoch goes on, or a new one has begun without seals.
Follows(e, d) == e.admitted \subseteq d.admitted /\ d.auth \subseteq e.auth

LEMMA Numbers ==
    /\ Time \subseteq Int /\ Time \cup {None} \subseteq Int
    /\ Freshness \in Int /\ Ttl \in Int /\ Skew \in Int /\ Skew >= 0 /\ Ttl >= 0
    /\ \A o \in Observation : /\ o.at \in Time /\ o.result \in Time
                              /\ o.at \in Int /\ o.result \in Int /\ Stamp(o) \in Int
  BY TimesAssumption DEF Time, None, Observation, Stamp

LEMMA EmptySane ==
    ASSUME NEW S
    PROVE  /\ Sane(NoEvidence, S) /\ NoEvidence.auth = {} /\ NoEvidence.admitted = {}
           /\ NoEvidence.last = None /\ NoEvidence.mlast = None /\ NoEvidence.kept = {}
<1>1. /\ NoEvidence.auth = {} /\ NoEvidence.admitted = {} /\ NoEvidence.kept = {}
      /\ NoEvidence.last = None /\ NoEvidence.mlast = None /\ NoEvidence.evaluated = FALSE
  BY DEF NoEvidence
<1>2. Typed(NoEvidence)
  BY <1>1 DEF Typed, NoEvidence
<1> QED
  BY <1>1, <1>2 DEF Sane, Grounded, Evaluated, Retained

\* More that is admitted keeps what was made of less.
LEMMA SourcesGrow ==
    ASSUME NEW S, NEW T, S \subseteq T, NEW o
    PROVE  /\ SourcesIn(S, o) => SourcesIn(T, o)
           /\ \A kind, at : Frames(S, kind, at) # {} => Frames(T, kind, at) # {}
<1>1. \A kind, at : Frames(S, kind, at) \subseteq Frames(T, kind, at)
  BY DEF Frames
<1> QED
  BY <1>1 DEF SourcesIn

\* The boundary's half: the evidence is admitted, or not, and its seal is spent.
Taken(e, o, now, status) ==
    [e EXCEPT !.last = now, !.auth = @ \ {o},
              !.admitted = IF status = "ACCEPTED" THEN @ \cup {o} ELSE @]

LEMMA TakenSane ==
    ASSUME NEW S, NEW e, Sane(e, S), NEW o \in Observation, NEW now \in Time, Backed(e, o),
           NEW status, status = Admission(e, o, now), NEW d, d = Taken(e, o, now, status)
    PROVE  /\ Sane(d, S) /\ Follows(e, d) /\ d.mlast = e.mlast /\ d.kept = e.kept
           /\ d.last = now /\ d.evaluated = e.evaluated
           /\ status = "ACCEPTED" => o \in d.admitted /\ o \notin e.admitted
                                     /\ o.result <= now + Skew
<1>1. /\ d.last = now /\ d.auth = e.auth \ {o} /\ d.mlast = e.mlast /\ d.kept = e.kept
      /\ d.admitted = IF status = "ACCEPTED" THEN e.admitted \cup {o} ELSE e.admitted
      /\ d.evaluated = e.evaluated
      /\ d = [last |-> d.last, admitted |-> d.admitted, auth |-> d.auth,
              mlast |-> d.mlast, kept |-> d.kept, evaluated |-> d.evaluated]
  BY DEF Sane, Typed, Taken
<1>2. Typed(d)
  BY <1>1 DEF Sane, Typed
<1>3. status = "ACCEPTED" => /\ NeedsSeal(o) => o \in e.auth
                             /\ o \notin e.admitted /\ ~ (o.result > now + Skew)
  BY DEF Admission
<1>4. e.admitted \subseteq d.admitted
  BY <1>1
<1>5. Grounded(d)
  <2>1. ASSUME NEW h \in d.admitted, SealedHealth(h)
        PROVE  Frames(d.admitted, FrameKind(h.of), h.at) # {}
    <3>1. CASE h \in e.admitted
      BY <1>4, <2>1, <3>1, SourcesGrow DEF Sane, Grounded
    <3>2. CASE h = o /\ status = "ACCEPTED"
      <4>1. NeedsSeal(o)
        BY <2>1, <3>2 DEF SealedHealth, NeedsSeal
      <4>2. Frames(e.admitted, FrameKind(o.of), o.at) # {}
        BY <1>3, <2>1, <3>2, <4>1 DEF Backed
      <4> QED
        BY <1>4, <3>2, <4>2, SourcesGrow
    <3> QED
      BY <1>1, <2>1, <3>1, <3>2
  <2>2. ASSUME NEW f \in d.admitted, f.kind = "fused"
        PROVE  SourcesIn(d.admitted, f)
    <3>1. CASE f \in e.admitted
      BY <1>4, <2>2, <3>1, SourcesGrow DEF Sane, Grounded
    <3>2. CASE f = o /\ status = "ACCEPTED"
      <4>1. NeedsSeal(o)
        BY <2>2, <3>2 DEF NeedsSeal
      <4>2. SourcesIn(e.admitted, o)
        BY <1>3, <2>2, <3>2, <4>1 DEF Backed
      <4> QED
        BY <1>4, <3>2, <4>2, SourcesGrow
    <3> QED
      BY <1>1, <2>2, <3>1, <3>2
  <2> QED
    BY <2>1, <2>2 DEF Grounded
<1>6. Evaluated(d)
  BY <1>1, <1>4 DEF Sane, Evaluated
<1>7. Retained(d, S)
  BY <1>1, <1>4 DEF Sane, Retained
<1>8. status = "ACCEPTED" => o.result <= now + Skew
  BY <1>3, Numbers
<1> QED
  BY <1>1, <1>2, <1>3, <1>4, <1>5, <1>6, <1>7, <1>8 DEF Sane, Follows

\* The memory's half.
LEMMA IngestedSane ==
    ASSUME NEW S, NEW e, Sane(e, S), NEW o \in e.admitted, NEW now \in Time, Fit(o, S),
           e.mlast <= now, o.result <= now + Skew, NEW d, d = Ingested(e, o, now)
    PROVE  /\ Sane(d, S) /\ d.admitted = e.admitted /\ d.auth = e.auth
           /\ d.evaluated = e.evaluated
<1> DEFINE live == Live(e.kept, now)
           fits == /\ validate_observation(o) /\ SourcesIn(live, o)
                   /\ \A p \in live : Key(p) = Key(o) => Stamp(p) < Stamp(o)
           kept == IF fits THEN live \cup {o} ELSE live
<1>1. d = [e EXCEPT !.mlast = now, !.kept = kept]
  BY DEF Ingested
<1>2. /\ d.last = e.last /\ d.auth = e.auth /\ d.admitted = e.admitted
      /\ d.mlast = now /\ d.kept = kept /\ d.evaluated = e.evaluated
      /\ d = [last |-> d.last, admitted |-> d.admitted, auth |-> d.auth,
              mlast |-> d.mlast, kept |-> d.kept, evaluated |-> d.evaluated]
  <2> HIDE DEF kept
  <2> QED
    BY <1>1 DEF Sane, Typed
<1>3. live \subseteq e.kept /\ kept \subseteq e.kept \cup {o}
  BY DEF Live
<1>4. kept \subseteq e.admitted /\ kept \subseteq Observation
  BY <1>3 DEF Sane, Typed, Retained
<1>5. Typed(d)
  BY <1>2, <1>4 DEF Sane, Typed
<1>6. Grounded(d) /\ Evaluated(d)
  BY <1>2 DEF Sane, Grounded, Evaluated
<1>7. ASSUME NEW p \in kept
      PROVE  Fit(p, S) /\ validate_observation(p) /\ p.result <= now + Skew
  <2>1. CASE p \in e.kept
    <3>1. p.result <= e.mlast + Skew /\ p.result \in Int /\ e.mlast \in Int
      BY <2>1, Numbers DEF Sane, Typed, Retained
    <3>2. p.result <= now + Skew
      BY <3>1, Numbers
    <3> QED
      BY <2>1, <3>2 DEF Sane, Retained
  <2>2. CASE p = o /\ fits
    BY <2>2
  <2> QED
    BY <1>7, <1>3, <2>1, <2>2
<1>8. ASSUME NEW p \in kept, NEW q \in kept, p # q, Key(p) = Key(q)
      PROVE  Stamp(p) # Stamp(q)
  <2>1. Stamp(p) \in Int /\ Stamp(q) \in Int
    BY <1>4, Numbers
  <2>2. CASE p \in live /\ q \in live
    BY <1>3, <1>8, <2>2 DEF Sane, Retained
  <2>3. CASE p = o /\ q \in live /\ fits
    BY <1>8, <2>1, <2>3
  <2>4. CASE q = o /\ p \in live /\ fits
    BY <1>8, <2>1, <2>4
  <2> QED
    BY <1>8, <2>2, <2>3, <2>4
<1>9. Retained(d, S)
  BY <1>2, <1>4, <1>7, <1>8 DEF Retained
<1> QED
  BY <1>2, <1>5, <1>6, <1>9 DEF Sane

\* One attempt at both.
LEMMA TryAdmitSane ==
    ASSUME NEW S, NEW e, Sane(e, S), NEW o \in Observation, NEW now \in Time, Fit(o, S),
           Backed(e, o), NEW r, r = TryAdmit(e, o, now)
    PROVE  /\ Sane(r.e, S) /\ Follows(e, r.e)
           /\ r.status = "ACCEPTED" => o \in r.e.admitted
           /\ r.raised \in BOOLEAN /\ (e = NoEvidence => ~ r.raised)
<1> DEFINE status == Admission(e, o, now)
           taken == Taken(e, o, now, status)
           regressed == now < e.last \/ (status = "ACCEPTED" /\ now < e.mlast)
<1>1. /\ r.raised = regressed /\ r.status = IF regressed THEN "RAISED" ELSE status
      /\ r.e = IF status = "ACCEPTED" /\ ~regressed THEN Ingested(taken, o, now) ELSE taken
  BY DEF TryAdmit, Taken
<1>2. /\ Sane(taken, S) /\ Follows(e, taken) /\ taken.mlast = e.mlast
      /\ status = "ACCEPTED" => o \in taken.admitted /\ o.result <= now + Skew
  BY TakenSane
<1>3. e.last \in Int /\ e.mlast \in Int /\ now \in Int /\ now >= 0
  BY Numbers DEF Sane, Typed, Time
<1>4. e = NoEvidence => ~ regressed
  BY <1>3, EmptySane DEF None
<1> HIDE DEF status, taken
<1>5. CASE status = "ACCEPTED" /\ ~regressed
  <2>1. taken.mlast <= now
    BY <1>2, <1>3, <1>5
  <2>2. /\ Sane(Ingested(taken, o, now), S)
        /\ Ingested(taken, o, now).admitted = taken.admitted
        /\ Ingested(taken, o, now).auth = taken.auth
    BY <1>2, <1>5, <2>1, IngestedSane
  <2> QED
    BY <1>1, <1>2, <1>4, <1>5, <2>2 DEF Follows
<1>6. CASE ~ (status = "ACCEPTED" /\ ~regressed)
  BY <1>1, <1>2, <1>4, <1>6
<1> QED
  BY <1>5, <1>6

\* An attempt that meets a regression is made again in the new epoch.
LEMMA RetainSane ==
    ASSUME NEW S, NEW e, Sane(e, S), NEW o \in Observation, NEW now \in Time, Fit(o, S),
           NEW later \in Time, Backed(e, o), NEW r, r = _admit_and_retain(e, o, now, later)
    PROVE  /\ Sane(r.e, S) /\ (Follows(e, r.e) \/ r.e.auth = {})
           /\ r.status = "ACCEPTED" => o \in r.e.admitted
           /\ ~ r.raised
<1>1. CASE TryAdmit(e, o, now).raised
  <2>1. r = TryAdmit(NoEvidence, o, later)
    BY <1>1 DEF _admit_and_retain, _reset_evidence_epoch
  <2>2. Sane(NoEvidence, S) /\ NoEvidence.auth = {} /\ Backed(NoEvidence, o)
    BY EmptySane DEF Backed
  <2>3. /\ Sane(r.e, S) /\ Follows(NoEvidence, r.e) /\ ~ r.raised
        /\ r.status = "ACCEPTED" => o \in r.e.admitted
    BY <2>1, <2>2, TryAdmitSane
  <2> QED
    BY <2>2, <2>3 DEF Follows
<1>2. CASE ~ TryAdmit(e, o, now).raised
  BY <1>2, TryAdmitSane DEF _admit_and_retain
<1> QED
  BY <1>1, <1>2

--------------------------------------------------------------------------------
(* The adapters. *)

AdapterOk(a) ==
    /\ a = [state |-> a.state, pend |-> a.pend, last |-> a.last, taken |-> a.taken]
    /\ a.last \in Nat

LEMMA SubmitOk ==
    ASSUME NEW name, NEW a, AdapterOk(a), NEW stream, NEW at \in Time, NEW now,
           NEW r, r = Submit(name, a, stream, at, now)
    PROVE  AdapterOk(r.a) /\ r.a.state = a.state /\ (r.sealed => at >= 1)
<1> DEFINE pend == [s \in DOMAIN a.pend |->
                       {t \in a.pend[s] \cup (IF s = stream THEN {at} ELSE {}) : t >= at - PairWait}]
           whole == \A s \in DOMAIN pend : at \in pend[s]
           rest == IF whole THEN Without(pend, at) ELSE pend
           taken == IF name = "rgbd" THEN [a.taken EXCEPT ![stream] = at] ELSE a.taken
<1>1. r = IF ~Takes(name, a, stream, at, now) THEN [a |-> a, sealed |-> FALSE]
          ELSE [a |-> [state |-> a.state, pend |-> rest,
                       last |-> IF whole THEN at ELSE a.last, taken |-> taken],
                sealed |-> whole]
  BY DEF Submit
<1> HIDE DEF pend, whole, rest, taken
<1>2. at \in Nat /\ (Takes(name, a, stream, at, now) => at > a.last)
  BY DEF Takes, Time
<1>3. CASE ~Takes(name, a, stream, at, now)
  BY <1>1, <1>3
<1>4. CASE Takes(name, a, stream, at, now)
  BY <1>1, <1>2, <1>4 DEF AdapterOk
<1> QED
  BY <1>3, <1>4

\* g is f with some adapters moved on in the state they are in.
Moved(f, g) ==
    /\ DOMAIN g = DOMAIN f
    /\ \A x \in DOMAIN f : AdapterOk(g[x]) /\ g[x].state = f[x].state

Rig(f) == \A x \in DOMAIN f : AdapterOk(f[x])

\* One adapter moved on.
LEMMA OneMoves ==
    ASSUME NEW f, Rig(f), Moved(adapters, f), NEW x \in DOMAIN f,
           NEW a, AdapterOk(a), a.state = adapters[x].state
    PROVE  Moved(adapters, [f EXCEPT ![x] = a])
<1> DEFINE g == [f EXCEPT ![x] = a]
<1>1. DOMAIN g = DOMAIN f /\ \A y \in DOMAIN f : g[y] = IF y = x THEN a ELSE f[y]
  OBVIOUS
<1> HIDE DEF g
<1> QED
  BY <1>1 DEF Moved, Rig

--------------------------------------------------------------------------------
(* What is sealed and fused. *)

LEMMA SealSane ==
    ASSUME NEW S, NEW e, Sane(e, S), NEW X, X \subseteq Observation,
           NEW d, d = [e EXCEPT !.auth = @ \cup X]
    PROVE  Sane(d, S) /\ d.admitted = e.admitted /\ d.evaluated = e.evaluated
<1>1. /\ d.last = e.last /\ d.auth = e.auth \cup X /\ d.mlast = e.mlast /\ d.kept = e.kept
      /\ d.admitted = e.admitted /\ d.evaluated = e.evaluated
      /\ d = [last |-> d.last, admitted |-> d.admitted, auth |-> d.auth,
              mlast |-> d.mlast, kept |-> d.kept, evaluated |-> d.evaluated]
  BY DEF Sane, Typed
<1> QED
  BY <1>1 DEF Sane, Typed, Grounded, Evaluated, Retained

\* An observation made of a frame has the frame's time and a result no earlier.
LEMMA DerivedOk ==
    ASSUME NEW at \in Time, NEW now \in Time, NEW result, result = IF at < now THEN now ELSE at
    PROVE  /\ \A p \in Producers :
                 LET o == Derived("interpretation", p, at, result) IN
                 o \in Observation /\ \A S : Fit(o, S)
           /\ LET o == Derived("semantic", "semantic", at, result) IN
              o \in Observation /\ \A S : Fit(o, S)
           /\ LET o == Derived("fused", "rgbd", at, result) IN
              o \in Observation /\ \A S : "rgbd" \in S => Fit(o, S)
<1>1. result \in Time /\ at <= result
  BY Numbers DEF Time
<1>2. \A kind, of : Derived(kind, of, at, result) =
         [kind |-> kind, of |-> of, at |-> at, result |-> result, avail |-> "available",
          form |-> "good"]
  BY DEF Derived, Evidence
<1>3. ASSUME NEW p \in Producers, NEW o, o = Derived("interpretation", p, at, result)
      PROVE  o \in Observation /\ \A S : Fit(o, S)
  <2>1. o = [kind |-> "interpretation", of |-> p, at |-> at, result |-> result,
             avail |-> "available", form |-> "good"]
    BY <1>2, <1>3
  <2>2. Constructs(o)
    BY <1>1, <2>1 DEF Constructs, VisualInterpretationObservation, Measured
  <2> QED
    BY <1>1, <2>1, <2>2 DEF Observation, Fit, Time
<1>4. ASSUME NEW o, o = Derived("semantic", "semantic", at, result)
      PROVE  o \in Observation /\ \A S : Fit(o, S)
  <2>1. o = [kind |-> "semantic", of |-> "semantic", at |-> at, result |-> result,
             avail |-> "available", form |-> "good"]
    BY <1>2, <1>4
  <2>2. Constructs(o)
    BY <1>1, <2>1 DEF Constructs, SemanticEvidenceObservation, Measured
  <2> QED
    BY <1>1, <2>1, <2>2 DEF Observation, Fit, Time, Producers
<1>5. ASSUME NEW o, o = Derived("fused", "rgbd", at, result)
      PROVE  o \in Observation /\ \A S : "rgbd" \in S => Fit(o, S)
  <2>1. o = [kind |-> "fused", of |-> "rgbd", at |-> at, result |-> result,
             avail |-> "available", form |-> "good"]
    BY <1>2, <1>5
  <2>2. Constructs(o)
    BY <1>1, <2>1 DEF Constructs, FusedRgbdObservation, Measured
  <2> QED
    BY <1>1, <2>1, <2>2 DEF Observation, Fit, Time, Sensors
<1> QED
  BY <1>3, <1>4, <1>5

\* The epoch goes on with what it had, or has begun anew without seals.
Continues(e, d) == e.admitted \subseteq d.admitted \/ d.auth = {}

LEMMA FusedSane ==
    ASSUME NEW S, NEW e, Sane(e, S), "rgbd" \in S, NEW stream, NEW at \in Time,
           NEW now \in Time, NEW later \in Time, Rig(adapters), "rgbd" \in DOMAIN adapters,
           NEW r, r = Fused(e, stream, at, now, later)
    PROVE  /\ r = [rig |-> r.rig, e |-> r.e] /\ Moved(adapters, r.rig)
           /\ Sane(r.e, S) /\ Continues(e, r.e)
<1> DEFINE q == Submit("rgbd", adapters["rgbd"], stream, at, now)
           f == Derived("fused", "rgbd", at, IF at < now THEN now ELSE at)
           d == [e EXCEPT !.auth = @ \cup {f}]
           t == _admit_and_retain(d, f, later, later)
           g == [adapters EXCEPT !["rgbd"] = q.a]
<1>1. r = [rig |-> g, e |-> IF q.sealed /\ AuthorizeFused(e, f) THEN t.e ELSE e]
  BY DEF Fused
<1>2. Moved(adapters, g)
  <2>1. AdapterOk(q.a) /\ q.a.state = adapters["rgbd"].state
    BY SubmitOk DEF Rig
  <2>2. Moved(adapters, adapters)
    BY DEF Moved, Rig
  <2> HIDE DEF q
  <2> QED
    BY <2>1, <2>2, OneMoves
<1>3. f \in Observation /\ Fit(f, S)
  BY DerivedOk
<1>4. f.kind = "fused"
  BY DEF Derived, Evidence
<1> HIDE DEF g, q, f
<1>5. Sane(d, S) /\ d.admitted = e.admitted
  <2> DEFINE X == {f}
  <2>1. X \subseteq Observation /\ d = [e EXCEPT !.auth = @ \cup X]
    BY <1>3
  <2> HIDE DEF X, d
  <2> QED
    BY <2>1, SealSane
<1> HIDE DEF d
<1>6. CASE q.sealed /\ AuthorizeFused(e, f)
  <2>1. Backed(d, f)
    BY <1>4, <1>5, <1>6 DEF Backed, AuthorizeFused, SealedHealth
  <2>2. Sane(t.e, S) /\ (Follows(d, t.e) \/ t.e.auth = {})
    BY <1>3, <1>5, <2>1, RetainSane
  <2>3. Continues(e, t.e)
    BY <1>5, <2>2 DEF Follows, Continues
  <2> HIDE DEF t
  <2> QED
    BY <1>1, <1>2, <1>6, <2>2, <2>3
<1>7. CASE ~ (q.sealed /\ AuthorizeFused(e, f))
  <2> HIDE DEF t
  <2> QED
    BY <1>1, <1>2, <1>7 DEF Continues
<1> QED
  BY <1>6, <1>7

LEMMA MaybeFusedSane ==
    ASSUME NEW S, NEW r, Sane(r.e, S), "rgbd" \in DOMAIN adapters => "rgbd" \in S,
           Rig(adapters), NEW stream, NEW at \in Time, NEW later \in Time,
           NEW f, f = MaybeFused(r, stream, at, later)
    PROVE  /\ f = [rig |-> f.rig, e |-> f.e] /\ Moved(adapters, f.rig)
           /\ Sane(f.e, S) /\ Continues(r.e, f.e)
<1>1. Moved(adapters, adapters)
  BY DEF Moved, Rig
<1>2. CASE "rgbd" \in DOMAIN adapters /\ r.status = "ACCEPTED"
  BY <1>2, FusedSane DEF MaybeFused
<1>3. CASE ~ ("rgbd" \in DOMAIN adapters /\ r.status = "ACCEPTED")
  BY <1>1, <1>3 DEF MaybeFused, Continues
<1> QED
  BY <1>2, <1>3

\* A frame and its health fact.
LEMMA UnsealedSane ==
    ASSUME NEW S, NEW e, Sane(e, S), "rgbd" \in DOMAIN adapters => "rgbd" \in S,
           Rig(adapters), NEW now \in Time, NEW later \in Time,
           NEW frame \in Observation, Fit(frame, S), frame.kind \in {"visual", "depth", "audio"},
           NEW health \in Observation, Fit(health, S), health.kind = "health",
           FrameKind(health.of) = frame.kind, health.at = frame.at,
           NEW u, u = Unsealed(e, frame, health, now, later)
    PROVE  Moved(adapters, u.rig) /\ Sane(u.e, S)
<1> DEFINE d == [e EXCEPT !.auth = @ \cup {frame, health}]
           r == _admit_and_retain(d, frame, now, later)
           f == MaybeFused(r, "depth", frame.at, later)
           h == _admit_and_retain(f.e, health, later, later)
<1>1. u = IF r.status # "ACCEPTED" THEN f ELSE [f EXCEPT !.e = h.e]
  BY DEF Unsealed
<1>2. Sane(d, S)
  BY SealSane
<1>3. frame.at \in Time
  BY Numbers
<1> HIDE DEF d
<1>4. Backed(d, frame)
  BY DEF Backed, SealedHealth
<1>5. Sane(r.e, S) /\ (r.status = "ACCEPTED" => frame \in r.e.admitted)
  BY <1>2, <1>4, RetainSane
<1> HIDE DEF r
<1>6. /\ f = [rig |-> f.rig, e |-> f.e] /\ Moved(adapters, f.rig)
      /\ Sane(f.e, S) /\ Continues(r.e, f.e)
  BY <1>3, <1>5, MaybeFusedSane
<1> HIDE DEF f
<1>7. ASSUME r.status = "ACCEPTED"
      PROVE  Sane(h.e, S)
  <2>1. health \in f.e.auth => frame \in Frames(f.e.admitted, frame.kind, frame.at)
    BY <1>5, <1>6, <1>7 DEF Continues, Frames
  <2>2. Backed(f.e, health)
    BY <2>1 DEF Backed
  <2> QED
    BY <1>6, <2>2, RetainSane
<1> HIDE DEF h
<1>8. CASE r.status # "ACCEPTED"
  BY <1>1, <1>6, <1>8
<1>9. CASE r.status = "ACCEPTED"
  <2>1. u.rig = f.rig /\ u.e = h.e
    BY <1>1, <1>6, <1>9
  <2> QED
    BY <1>6, <1>7, <1>9, <2>1
<1> QED
  BY <1>8, <1>9

--------------------------------------------------------------------------------
(* What is made of an admitted frame. *)

LEMMA InterpretedSane ==
    ASSUME NEW S, NEW e, Sane(e, S), NEW at \in Time, NEW later \in Time,
           NEW p \in Producers, NEW r, r = Interpreted(e, at, p, later)
    PROVE  Sane(r.e, S)
<1> DEFINE o == Derived("interpretation", p, at, IF at < later THEN later ELSE at)
<1>1. o \in Observation /\ Fit(o, S)
  BY DerivedOk
<1>2. o.kind = "interpretation"
  BY DEF Derived, Evidence
<1>3. r = _admit_and_retain(e, o, later, later)
  BY DEF Interpreted
<1> HIDE DEF o
<1>4. Backed(e, o)
  BY <1>2 DEF Backed, SealedHealth
<1> QED
  BY <1>1, <1>3, <1>4, RetainSane

LEMMA SemanticFixtureSane ==
    ASSUME NEW S, NEW e, Sane(e, S), NEW at \in Time, NEW later \in Time
    PROVE  Sane(SemanticFixture(e, at, later), S)
<1> DEFINE i == Interpreted(e, at, "semantic", later)
           o == Derived("semantic", "semantic", at, IF at < later THEN later ELSE at)
           s == TryAdmit(i.e, o, later)
<1>1. SemanticFixture(e, at, later) =
         IF i.status # "ACCEPTED" THEN i.e
         ELSE IF s.raised THEN _reset_evidence_epoch(i.e) ELSE s.e
  BY DEF SemanticFixture
<1>2. Sane(i.e, S)
  BY InterpretedSane DEF Producers
<1>3. o \in Observation /\ Fit(o, S)
  BY DerivedOk
<1>4. o.kind = "semantic"
  BY DEF Derived, Evidence
<1> HIDE DEF i, o
<1>5. Backed(i.e, o)
  BY <1>4 DEF Backed, SealedHealth
<1>6. Sane(s.e, S)
  BY <1>2, <1>3, <1>5, TryAdmitSane
<1>7. Sane(_reset_evidence_epoch(i.e), S)
  BY EmptySane DEF _reset_evidence_epoch
<1> HIDE DEF s
<1> QED
  BY <1>1, <1>2, <1>6, <1>7

\* The evaluator's mark says that the evaluation is held, or nothing.
LEMMA MarkedSane ==
    ASSUME NEW S, NEW e, Sane(e, S), NEW mark \in BOOLEAN,
           mark => \E o \in e.admitted : Key(o) = <<"interpretation", "evaluated">>
    PROVE  Sane([e EXCEPT !.evaluated = mark], S)
<1> DEFINE d == [e EXCEPT !.evaluated = mark]
<1>1. /\ d.last = e.last /\ d.auth = e.auth /\ d.mlast = e.mlast /\ d.kept = e.kept
      /\ d.admitted = e.admitted /\ d.evaluated = mark
      /\ d = [last |-> d.last, admitted |-> d.admitted, auth |-> d.auth,
              mlast |-> d.mlast, kept |-> d.kept, evaluated |-> d.evaluated]
  BY DEF Sane, Typed
<1> HIDE DEF d
<1>2. Sane(d, S)
  BY <1>1 DEF Sane, Typed, Grounded, Evaluated, Retained
<1> QED
  BY <1>2 DEF d

\* The frame is called evaluated when its evaluation has just been admitted.
LEMMA EvaluatedSane ==
    ASSUME NEW S, NEW e, Sane(e, S), NEW o \in e.admitted,
           Key(o) = <<"interpretation", "evaluated">>
    PROVE  Sane([e EXCEPT !.evaluated = TRUE], S)
  BY MarkedSane

\* A new activation has evaluated nothing.
LEMMA UnevaluatedSane ==
    ASSUME NEW S, NEW e, Sane(e, S)
    PROVE  Sane([e EXCEPT !.evaluated = FALSE], S)
  BY MarkedSane

LEMMA EvaluateVisualFrameSane ==
    ASSUME NEW S, NEW e, Sane(e, S), NEW at \in Time, NEW later \in Time
    PROVE  Sane(EvaluateVisualFrame(e, at, later), S)
<1> DEFINE o == Derived("interpretation", "evaluated", at, IF at < later THEN later ELSE at)
           d == [e EXCEPT !.auth = @ \cup {o}]
           r == _admit_and_retain(d, o, later, later)
<1>1. EvaluateVisualFrame(e, at, later) =
         IF e.evaluated \/ ~ SourcesIn(e.admitted, o) THEN e
         ELSE IF r.status = "ACCEPTED" THEN [r.e EXCEPT !.evaluated = TRUE] ELSE r.e
  BY DEF EvaluateVisualFrame
<1>2. o \in Observation /\ Fit(o, S)
  BY DerivedOk DEF Producers
<1>3. o.kind = "interpretation" /\ Key(o) = <<"interpretation", "evaluated">>
  BY DEF Derived, Evidence, Key
<1> HIDE DEF o
<1>4. Sane(d, S)
  <2> DEFINE X == {o}
  <2>1. X \subseteq Observation /\ d = [e EXCEPT !.auth = @ \cup X]
    BY <1>2
  <2> HIDE DEF X, d
  <2> QED
    BY <2>1, SealSane
<1> HIDE DEF d
<1>5. Backed(d, o)
  BY <1>3 DEF Backed, SealedHealth
<1>6. Sane(r.e, S) /\ (r.status = "ACCEPTED" => o \in r.e.admitted)
  BY <1>2, <1>4, <1>5, RetainSane
<1> HIDE DEF r
<1>7. r.status = "ACCEPTED" => Sane([r.e EXCEPT !.evaluated = TRUE], S)
  BY <1>3, <1>6, EvaluatedSane
<1> QED
  BY <1>1, <1>6, <1>7

LEMMA FrameFollowUpsSane ==
    ASSUME NEW S, NEW e, Sane(e, S), NEW at \in Time, NEW later \in Time
    PROVE  Sane(FrameFollowUps(e, at, later), S)
<1> DEFINE a == IF cfg.reference THEN Interpreted(e, at, "reference", later).e ELSE e
           b == IF cfg.semantic THEN SemanticFixture(a, at, later) ELSE a
<1>1. Sane(a, S)
  BY InterpretedSane DEF Producers
<1> HIDE DEF a
<1>2. Sane(b, S)
  BY <1>1, SemanticFixtureSane
<1>3. FrameFollowUps(e, at, later) = IF cfg.evaluation THEN EvaluateVisualFrame(b, at, later) ELSE b
  BY DEF FrameFollowUps, a
<1> HIDE DEF b
<1> QED
  BY <1>2, <1>3, EvaluateVisualFrameSane

\* The content of evidence that a callback makes of a message.
LEMMA EvidenceOk ==
    ASSUME NEW kind, NEW of, NEW at \in Time, NEW form, NEW o, o = Evidence(kind, of, at, form)
    PROVE  /\ o.kind = kind /\ o.of = of /\ o.at = at /\ o.form = form
           /\ ( /\ kind \in {"robot", "imu", "pose", "visual", "depth", "audio"}
                /\ of \in Sensors /\ form \in {"good", "unfit", "malformed"} )
              => o \in Observation
           /\ \A S : Constructs(o) /\ of \in S => Fit(o, S)
<1>1. o = [kind |-> kind, of |-> of, at |-> at, result |-> at, avail |-> "available",
           form |-> form]
  BY DEF Evidence
<1> QED
  BY <1>1 DEF Observation, Fit, Time

LEMMA HealthOk ==
    ASSUME NEW of \in Sensors, NEW at \in Time, NEW avail \in {"available", "error"},
           NEW h, h = Health(of, at, avail)
    PROVE  /\ h.kind = "health" /\ h.of = of /\ h.at = at
           /\ h \in Observation /\ \A S : of \in S => Fit(h, S)
<1>1. h = [kind |-> "health", of |-> of, at |-> at, result |-> at, avail |-> avail,
           form |-> "good"]
  BY DEF Health, Evidence
<1>2. Constructs(h)
  BY <1>1 DEF Constructs, SensorHealthObservation
<1> QED
  BY <1>1, <1>2 DEF Observation, Fit, Time

LEMMA VisualPairSane ==
    ASSUME NEW S, Sane(ev, S), "rgbd" \in DOMAIN adapters => "rgbd" \in S, "camera" \in S,
           Rig(adapters), clock \in Time, NEW at \in Time, NEW later \in Time,
           NEW v, v = VisualPair(at, later)
    PROVE  Moved(adapters, v.rig) /\ Sane(v.e, S)
<1> DEFINE o == Evidence("visual", "camera", at, "good")
           r == _admit_and_retain(ev, o, clock, later)
           f == MaybeFused(r, "rgb", at, later)
           g == FrameFollowUps(f.e, at, later)
<1>1. v = IF ~Constructs(o) THEN [rig |-> adapters, e |-> ev]
          ELSE IF r.status # "ACCEPTED" THEN f ELSE [f EXCEPT !.e = g]
  BY DEF VisualPair
<1>2. o \in Observation /\ o.kind = "visual" /\ (Constructs(o) => Fit(o, S))
  BY EvidenceOk DEF Sensors
<1> HIDE DEF o
<1>3. CASE ~ Constructs(o)
  <2>1. v.e = ev /\ v.rig = adapters
    BY <1>1, <1>3
  <2> QED
    BY <2>1 DEF Moved, Rig
<1>4. CASE Constructs(o)
  <2>1. Backed(ev, o)
    BY <1>2 DEF Backed, SealedHealth
  <2>2. Sane(r.e, S)
    BY <1>2, <1>4, <2>1, RetainSane
  <2> HIDE DEF r
  <2>3. f = [rig |-> f.rig, e |-> f.e] /\ Moved(adapters, f.rig) /\ Sane(f.e, S)
    BY <2>2, MaybeFusedSane
  <2> HIDE DEF f
  <2>4. Sane(g, S)
    BY <2>3, FrameFollowUpsSane
  <2> HIDE DEF g
  <2>5. v.rig = f.rig /\ (v.e = f.e \/ v.e = g)
    BY <1>1, <1>4, <2>3
  <2> QED
    BY <2>3, <2>4, <2>5
<1> QED
  BY <1>3, <1>4

--------------------------------------------------------------------------------
(* The node. *)

\* The sensors of the composition; without one nothing is known.
Known == IF phase \in {"unconfigured", "finalized"} THEN {} ELSE SensorCatalog(cfg)

Node ==
    /\ phase \in {"unconfigured", "inactive", "active", "finalized", "crashed"}
    /\ cfg \in Parameters \cup {Nothing}
    /\ clock \in Time
    /\ Sane(ev, Known)
    /\ DOMAIN adapters \subseteq Sensors \cap Known
    /\ Rig(adapters)
    /\ AdaptersFollowNode
    /\ AnswersCurrent /\ FailuresWin

LEMMA NobodyAsked ==
    ASSUME answer' = NotReady
    PROVE  AnswersCurrent' /\ FailuresWin'
<1>1. answer'.states = {}
  BY DEF NotReady
<1> QED
  BY <1>1 DEF AnswersCurrent, FailuresWin

LEMMA CatalogKnows ==
    ASSUME NEW c
    PROVE  /\ {"joints", "imu", "pose", "camera", "depth"} \subseteq SensorCatalog(c)
           /\ AdaptersOf(c) \subseteq Sensors \cap SensorCatalog(c)
  BY DEF SensorCatalog, AdaptersOf, Sensors

LEMMA IdleOk ==
    ASSUME NEW a
    PROVE  /\ AdapterOk(Idle(a)) /\ Idle(a).state = "inactive"
           /\ AdapterOk(ActivatedAdapter(a)) /\ ActivatedAdapter(a).state = "active"
<1> DEFINE p == [s \in Streams(a) |-> {}]
           t == [s \in Streams(a) |-> 0]
<1>1. Idle(a) = [state |-> "inactive", pend |-> p, last |-> 0, taken |-> t]
  BY DEF Idle
<1> HIDE DEF p, t
<1>2. ActivatedAdapter(a) = [state |-> "active", pend |-> p, last |-> 0, taken |-> t]
  BY <1>1 DEF ActivatedAdapter
<1> QED
  BY <1>1, <1>2 DEF AdapterOk

\* Lifecycle: nothing is kept that a composition did not make.
LEMMA Configures ==
    ASSUME Node, NEW c \in Parameters, on_configure(c)
    PROVE  Node'
<1>1. AnswersCurrent' /\ FailuresWin'
  BY NobodyAsked DEF on_configure
<1>2. Sane(ev', Known') /\ clock' \in Time
  BY EmptySane DEF Node, on_configure
<1>3. phase = "unconfigured" /\ waiting' = NobodyWaits /\ poses' = None
  BY DEF Node, on_configure, AdaptersFollowNode
<1>4. CASE Accepted(c)
  <2>1. phase' = "inactive" /\ cfg' = c /\ adapters' = [a \in AdaptersOf(c) |-> Idle(a)]
    BY <1>4 DEF on_configure
  <2>2. Known' = SensorCatalog(c)
    BY <2>1 DEF Known
  <2>3. DOMAIN adapters' \subseteq Sensors \cap Known'
    BY <2>1, <2>2, CatalogKnows
  <2>4. Rig(adapters') /\ AdaptersFollowNode'
    BY <1>3, <2>1, IdleOk DEF Rig, AdaptersFollowNode
  <2> QED
    BY <1>1, <1>2, <2>1, <2>3, <2>4 DEF Node
<1>5. CASE ~ Accepted(c)
  <2>1. UNCHANGED <<phase, cfg, adapters>>
    BY <1>5 DEF on_configure
  <2>2. AdaptersFollowNode' /\ Known' = Known
    BY <1>3, <2>1 DEF Node, AdaptersFollowNode, Known
  <2> QED
    BY <1>1, <1>2, <2>1, <2>2 DEF Node
<1> QED
  BY <1>4, <1>5

LEMMA Activates ==
    ASSUME Node, on_activate
    PROVE  Node'
<1>1. AnswersCurrent' /\ FailuresWin'
  BY NobodyAsked DEF on_activate
<1>2. /\ phase = "inactive" /\ phase' = "active" /\ cfg' = cfg /\ clock' = clock
      /\ Known' = Known
      /\ adapters' = [a \in DOMAIN adapters |-> ActivatedAdapter(a)]
  BY DEF on_activate, Known
<1>3. Sane(ev', Known')
  BY <1>2, UnevaluatedSane DEF Node, on_activate
<1>4. Rig(adapters') /\ AdaptersFollowNode' /\ DOMAIN adapters' = DOMAIN adapters
  BY <1>2, IdleOk DEF Rig, AdaptersFollowNode
<1> QED
  BY <1>1, <1>2, <1>3, <1>4 DEF Node

LEMMA Deactivates ==
    ASSUME Node, on_deactivate
    PROVE  Node'
<1>1. AnswersCurrent' /\ FailuresWin'
  BY NobodyAsked DEF on_deactivate
<1>2. /\ phase = "active" /\ phase' = "inactive" /\ cfg' = cfg /\ clock' = clock
      /\ Known' = Known /\ waiting' = NobodyWaits /\ poses' = None
      /\ adapters' = [a \in DOMAIN adapters |-> Idle(a)]
      /\ ev' = NoEvidence \/ ev' = [ev EXCEPT !.evaluated = FALSE]
  BY DEF on_deactivate, Known
<1>3. Sane(ev', Known')
  BY <1>2, UnevaluatedSane, EmptySane DEF Node
<1>4. Rig(adapters') /\ AdaptersFollowNode' /\ DOMAIN adapters' = DOMAIN adapters
  BY <1>2, IdleOk DEF Rig, AdaptersFollowNode
<1> QED
  BY <1>1, <1>2, <1>3, <1>4 DEF Node

LEMMA Empties ==
    ASSUME Node, on_cleanup \/ on_shutdown
    PROVE  Node'
<1>1. Emptied /\ clock' = clock /\ phase' \in {"unconfigured", "finalized"}
  BY DEF on_cleanup, on_shutdown
<1>2. AnswersCurrent' /\ FailuresWin'
  BY <1>1, NobodyAsked DEF Emptied
<1>3. Sane(ev', Known') /\ DOMAIN adapters' = {}
  BY <1>1, EmptySane DEF Emptied
<1>4. Rig(adapters') /\ AdaptersFollowNode'
  BY <1>1, <1>3 DEF Emptied, Rig, AdaptersFollowNode
<1> QED
  BY <1>1, <1>2, <1>3, <1>4 DEF Node, Emptied

LEMMA ClockMoves ==
    ASSUME Node, Advance \/ Regress
    PROVE  Node'
<1>1. UNCHANGED <<phase, cfg, ev, adapters, waiting, poses>> /\ answer' = NotReady
  BY DEF Advance, Regress
<1>2. clock' \in Time
  BY TimesAssumption DEF Node, Advance, Regress, Time
<1>3. AnswersCurrent' /\ FailuresWin'
  BY <1>1, NobodyAsked
<1> QED
  BY <1>1, <1>2, <1>3 DEF Node, Known, AdaptersFollowNode, Rig

\* A callback leaves the composition as it is, whatever it raises.
LEMMA CallbackKeeps ==
    ASSUME Node, NEW later \in Time, Called(later), phase' \in {"active", "crashed"},
           Sane(ev', Known), Moved(adapters, adapters'), AnswersCurrent', FailuresWin'
    PROVE  Node'
<1>1. phase = "active" /\ cfg' = cfg /\ clock' = later
  BY DEF Called
<1>2. Known' = Known
  BY <1>1 DEF Known
<1>3. DOMAIN adapters' = DOMAIN adapters /\ Rig(adapters') /\ AdaptersFollowNode'
  BY <1>1 DEF Node, Moved, Rig, AdaptersFollowNode
<1> QED
  BY <1>1, <1>2, <1>3 DEF Node

\* An active node has a composition.
LEMMA ActiveKnows ==
    ASSUME Node, NEW later, Called(later)
    PROVE  /\ Known = SensorCatalog(cfg) /\ clock \in Time /\ Sane(ev, Known) /\ Rig(adapters)
           /\ {"joints", "imu", "pose", "camera", "depth"} \subseteq Known
           /\ DOMAIN adapters \subseteq Known /\ Moved(adapters, adapters)
           /\ phase = "active"
<1>1. phase = "active"
  BY DEF Called
<1>2. Known = SensorCatalog(cfg)
  BY <1>1 DEF Known
<1> QED
  BY <1>1, <1>2, CatalogKnows DEF Node, Moved, Rig

\* A callback that only brings evidence and nothing for a client.
LEMMA QuietKeeps ==
    ASSUME Node, NEW later \in Time, Called(later), answer' = NotReady,
           phase' \in {"active", "crashed"}, Sane(ev', Known), Moved(adapters, adapters')
    PROVE  Node'
  BY NobodyAsked, CallbackKeeps

\* The evidence of a body sensor or its health: what is not sealed with a frame.
LEMMA BodyEvidenceSane ==
    ASSUME NEW S, NEW e, Sane(e, S), NEW o \in Observation, Fit(o, S), o.kind # "fused",
           o.kind = "health" => o.of \in {"imu", "joints", "pose"},
           NEW now \in Time, NEW later \in Time
    PROVE  Sane(_admit_and_retain(e, o, now, later).e, S) /\ Sane(TryAdmit(e, o, now).e, S)
<1>1. Backed(e, o)
  BY DEF Backed, SealedHealth
<1> QED
  BY <1>1, RetainSane, TryAdmitSane

LEMMA BodyCallback ==
    ASSUME Node, NEW later \in Time, NEW at \in Time,
           NEW kind, NEW of, <<kind, of>> \in {<<"robot", "joints">>, <<"imu", "imu">>},
           NEW form \in {"good", "unfit", "malformed"}, _on_body(Evidence(kind, of, at, form), later)
    PROVE  Node'
<1> DEFINE o == Evidence(kind, of, at, form)
<1>1. /\ Called(later) /\ Quiet
      /\ kind \in {"robot", "imu"} /\ of \in {"joints", "imu"}
  BY DEF _on_body
<1>2. /\ Sane(ev, Known) /\ clock \in Time /\ Moved(adapters, adapters) /\ phase = "active"
      /\ {"joints", "imu"} \subseteq Known
  BY <1>1, ActiveKnows
<1>3. o \in Observation /\ o.kind \in {"robot", "imu"} /\ (Constructs(o) => Fit(o, Known))
  <2>1. of \in Known /\ of \in Sensors
    BY <1>1, <1>2 DEF Sensors
  <2> QED
    BY <1>1, <2>1, EvidenceOk
<1>4. ev' = IF Constructs(o) THEN _admit_and_retain(ev, o, clock, later).e ELSE ev
  BY DEF _on_body
<1> HIDE DEF o
<1>5. Constructs(o) => Sane(_admit_and_retain(ev, o, clock, later).e, Known)
  BY <1>2, <1>3, BodyEvidenceSane
<1>6. Sane(ev', Known)
  BY <1>2, <1>4, <1>5
<1> QED
  BY <1>1, <1>2, <1>6, QuietKeeps DEF Quiet

LEMMA DiagnosticsCallback ==
    ASSUME Node, NEW later \in Time, NEW at \in Time, NEW components,
           NEW avail \in {"available", "error"}, _on_diagnostics(components, at, avail, later)
    PROVE  Node'
<1> DEFINE h == Health("imu", at, avail)
           imu == IF "imu" \in components THEN _admit_and_retain(ev, h, clock, later).e ELSE ev
           now == IF "imu" \in components THEN later ELSE clock
           j == Health("joints", at, avail)
<1>1. /\ Called(later) /\ Quiet
      /\ ev' = IF "joints" \in components THEN _admit_and_retain(imu, j, now, later).e ELSE imu
  BY DEF _on_diagnostics
<1>2. /\ Sane(ev, Known) /\ clock \in Time /\ Moved(adapters, adapters) /\ phase = "active"
      /\ "imu" \in Known /\ "joints" \in Known
  BY <1>1, ActiveKnows
<1>3. /\ h \in Observation /\ Fit(h, Known) /\ h.kind = "health" /\ h.of = "imu"
      /\ j \in Observation /\ Fit(j, Known) /\ j.kind = "health" /\ j.of = "joints"
  BY <1>2, HealthOk DEF Sensors
<1>4. now \in Time
  BY <1>2
<1> HIDE DEF h, j, now
<1>5. Sane(imu, Known)
  BY <1>2, <1>3, BodyEvidenceSane
<1> HIDE DEF imu
<1>6. Sane(_admit_and_retain(imu, j, now, later).e, Known)
  BY <1>3, <1>4, <1>5, BodyEvidenceSane
<1>7. Sane(ev', Known)
  BY <1>1, <1>5, <1>6
<1> QED
  BY <1>1, <1>2, <1>7, QuietKeeps DEF Quiet

LEMMA LocalizationCallback ==
    ASSUME Node, NEW later \in Time, NEW at \in Time, NEW form \in {"good", "malformed"},
           _on_localization(at, form, later)
    PROVE  Node'
<1> DEFINE o == Evidence("pose", "pose", at, form)
           usable == Constructs(o) /\ InBuffer(at)
           r == _admit_and_retain(ev, o, clock, later)
           failed == IF usable THEN _report_pose_failure(r.e, later)
                     ELSE _report_pose_failure(ev, clock)
           fails == ~usable \/ r.status = "STALE_OBSERVATION"
<1>1. /\ Called(later) /\ answer' = NotReady /\ adapters' = adapters
      /\ ev' = IF fails THEN failed.e ELSE r.e
      /\ phase' = IF fails /\ failed.raised THEN "crashed" ELSE phase
  BY DEF _on_localization
<1>2. /\ Sane(ev, Known) /\ clock \in Time /\ Moved(adapters, adapters) /\ phase = "active"
      /\ "pose" \in Known
  BY <1>1, ActiveKnows
<1>3. o \in Observation /\ o.kind = "pose" /\ (Constructs(o) => Fit(o, Known))
  BY <1>2, EvidenceOk DEF Sensors
<1> HIDE DEF o
<1>4. ASSUME NEW e, Sane(e, Known), NEW now \in Time
      PROVE  Sane(_report_pose_failure(e, now).e, Known)
  <2> DEFINE h == Health("pose", now, "error")
  <2>1. h \in Observation /\ Fit(h, Known) /\ h.kind = "health" /\ h.of = "pose"
    BY <1>2, HealthOk DEF Sensors
  <2>2. _report_pose_failure(e, now) = TryAdmit(e, h, now)
    BY DEF _report_pose_failure
  <2> HIDE DEF h
  <2> QED
    BY <1>4, <2>1, <2>2, BodyEvidenceSane
<1>5. usable => Sane(r.e, Known)
  BY <1>2, <1>3, BodyEvidenceSane
<1> HIDE DEF r
<1>6. Sane(failed.e, Known)
  <2>1. CASE usable
    <3>1. Sane(_report_pose_failure(r.e, later).e, Known)
      BY <1>4, <1>5, <2>1
    <3> QED
      BY <2>1, <3>1
  <2>2. CASE ~ usable
    <3>1. Sane(_report_pose_failure(ev, clock).e, Known)
      BY <1>2, <1>4
    <3> QED
      BY <2>2, <3>1
  <2> QED
    BY <2>1, <2>2
<1> HIDE DEF failed
<1>7. Sane(ev', Known)
  BY <1>1, <1>5, <1>6
<1>8. phase' \in {"active", "crashed"}
  BY <1>1, <1>2
<1> QED
  BY <1>1, <1>2, <1>7, <1>8, QuietKeeps

LEMMA VisualCallback ==
    ASSUME Node, NEW later \in Time, NEW at \in Time, NEW half, _on_visual(half, at, later)
    PROVE  Node'
<1> DEFINE v == VisualPair(at, later)
<1>1. /\ Called(later) /\ answer' = NotReady /\ phase' = phase
      /\ \/ ev' = v.e /\ adapters' = v.rig
         \/ ev' = ev /\ adapters' = adapters
  BY DEF _on_visual, Becomes
<1>2. /\ Sane(ev, Known) /\ clock \in Time /\ Moved(adapters, adapters) /\ phase = "active"
      /\ "camera" \in Known /\ DOMAIN adapters \subseteq Known /\ Rig(adapters)
  BY <1>1, ActiveKnows
<1>3. Moved(adapters, v.rig) /\ Sane(v.e, Known)
  BY <1>2, VisualPairSane
<1> HIDE DEF v
<1> QED
  BY <1>1, <1>2, <1>3, QuietKeeps

LEMMA AdapterCallback ==
    ASSUME Node, NEW later \in Time, NEW at \in Time, NEW stream,
           NEW name \in DOMAIN adapters, name \in {"camera", "depth", "microphone"},
           _on_adapter(name, stream, at, later)
    PROVE  Node'
<1> DEFINE s == Submit(name, adapters[name], stream, at, clock)
           frame == Evidence(FrameKind(name), name, at, "good")
           health == Health(name, at, "available")
           u == Unsealed(ev, frame, health, later, later)
<1>1. /\ Called(later) /\ answer' = NotReady /\ phase' = phase
      /\ IF s.sealed THEN ev' = u.e /\ adapters' = [u.rig EXCEPT ![name] = s.a]
         ELSE ev' = ev /\ adapters' = [adapters EXCEPT ![name] = s.a]
  BY DEF _on_adapter, Becomes, WithAdapter
<1>2. /\ Sane(ev, Known) /\ clock \in Time /\ Moved(adapters, adapters) /\ phase = "active"
      /\ DOMAIN adapters \subseteq Known /\ Rig(adapters)
  BY <1>1, ActiveKnows
<1>3. AdapterOk(s.a) /\ s.a.state = adapters[name].state /\ (s.sealed => at >= 1)
  BY <1>2, SubmitOk DEF Rig
<1> HIDE DEF s
<1>4. CASE ~ s.sealed
  <2>1. Moved(adapters, [adapters EXCEPT ![name] = s.a])
    BY <1>2, <1>3, OneMoves
  <2> QED
    BY <1>1, <1>2, <1>4, <2>1, QuietKeeps
<1>5. CASE s.sealed
  <2>1. name \in Sensors /\ name \in Known /\ FrameKind(name) \in {"visual", "depth", "audio"}
    BY <1>2 DEF Sensors, FrameKind
  <2>2. /\ frame \in Observation /\ frame.kind = FrameKind(name) /\ frame.at = at
        /\ Constructs(frame) => Fit(frame, Known)
    BY <2>1, EvidenceOk
  <2>3. Constructs(frame)
    <3>1. frame = [kind |-> FrameKind(name), of |-> name, at |-> at, result |-> at,
                   avail |-> "available", form |-> "good"]
      BY DEF Evidence
    <3>2. at >= 1 /\ at <= at
      BY <1>3, <1>5 DEF Time
    <3>3. /\ frame.kind = FrameKind(name) /\ frame.of = name /\ frame.at = at
          /\ frame.result = at /\ frame.avail = "available" /\ frame.form = "good"
      BY <3>1
    <3> HIDE DEF frame
    <3>4. CASE name = "camera"
      BY <3>2, <3>3, <3>4 DEF Constructs, FrameKind, VisualFrameObservation, Measured
    <3>5. CASE name = "depth"
      BY <3>2, <3>3, <3>5 DEF Constructs, FrameKind, DepthFrameObservation, Measured
    <3>6. CASE name = "microphone"
      BY <3>2, <3>3, <3>6 DEF Constructs, FrameKind, AudioFrameObservation, Measured
    <3> QED
      BY <3>4, <3>5, <3>6
  <2>4. /\ health \in Observation /\ Fit(health, Known) /\ health.kind = "health"
        /\ health.of = name /\ health.at = at
    BY <2>1, HealthOk
  <2> HIDE DEF frame, health
  <2>5. Moved(adapters, u.rig) /\ Sane(u.e, Known)
    BY <1>2, <2>1, <2>2, <2>3, <2>4, UnsealedSane
  <2> HIDE DEF u
  <2>6. Moved(adapters, [u.rig EXCEPT ![name] = s.a])
    BY <1>3, <2>5, OneMoves DEF Moved, Rig
  <2> QED
    BY <1>1, <1>2, <1>5, <2>5, <2>6, QuietKeeps
<1> QED
  BY <1>4, <1>5

--------------------------------------------------------------------------------
(* Queries. *)

\* The memory as a query leaves it: nothing is added, what is past its retention is
\* dropped.
Read(e, now) == [e EXCEPT !.mlast = now, !.kept = Live(e.kept, now)]

LEMMA ReadSane ==
    ASSUME NEW S, NEW e, Sane(e, S), NEW now \in Time, ~ (now < e.mlast),
           NEW d, d = Read(e, now)
    PROVE  Sane(d, S) /\ d.kept = Live(e.kept, now) /\ d.mlast = now
<1> DEFINE live == Live(e.kept, now)
<1>1. /\ d.last = e.last /\ d.auth = e.auth /\ d.mlast = now /\ d.kept = live
      /\ d.admitted = e.admitted /\ d.evaluated = e.evaluated
      /\ d = [last |-> d.last, admitted |-> d.admitted, auth |-> d.auth,
              mlast |-> d.mlast, kept |-> d.kept, evaluated |-> d.evaluated]
  BY DEF Sane, Typed, Read
<1>2. live \subseteq e.kept
  BY DEF Live
<1>3. Typed(d) /\ Grounded(d) /\ Evaluated(d)
  BY <1>1, <1>2 DEF Sane, Typed, Grounded, Evaluated
<1>4. ASSUME NEW o \in live
      PROVE  o.result <= now + Skew
  <2>1. o.result <= e.mlast + Skew /\ o.result \in Int /\ e.mlast \in Int /\ now \in Int
    BY <1>2, Numbers DEF Sane, Typed, Retained
  <2> QED
    BY <2>1, Numbers
<1>5. Retained(d, S)
  BY <1>1, <1>2, <1>4 DEF Sane, Retained
<1> QED
  BY <1>1, <1>3, <1>5 DEF Sane

\* The memory's evidence projects: one state for each key but the semantic one.
LEMMA OneCurrent ==
    ASSUME NEW S, NEW e, Sane(e, S), NEW o \in Current(e.kept), NEW p \in Current(e.kept),
           Key(o) = Key(p), o.kind # "semantic"
    PROVE  o = p
<1>1. o \in e.kept /\ p \in e.kept /\ o \in Observation /\ p \in Observation
  BY DEF Current, Sane, Typed
<1>2. p.kind = o.kind
  BY DEF Key
<1>3. Stamp(p) <= Stamp(o) /\ Stamp(o) <= Stamp(p)
  BY <1>1, <1>2 DEF Current
<1>4. Stamp(p) = Stamp(o)
  BY <1>1, <1>3, Numbers
<1> QED
  BY <1>1, <1>4 DEF Sane, Retained

LEMMA MemoryProjects ==
    ASSUME NEW S, NEW e, Sane(e, S)
    PROVE  SnapshotConstructs(e.kept, S)
<1>1. Current(e.kept) \subseteq e.kept
  BY DEF Current
<1>2. \A o \in Current(e.kept) :
          /\ rebuild_observation(o) /\ validate_observation(o)
          /\ o.kind \notin {"interpretation", "semantic"} => o.of \in S
  BY <1>1 DEF Sane, Retained, Fit, rebuild_observation
<1>3. \A o, p \in Current(e.kept) : o # p /\ o.kind # "semantic" => Key(o) # Key(p)
  BY OneCurrent
<1> QED
  BY <1>2, <1>3 DEF SnapshotConstructs

\* A snapshot of the memory tells what the memory currently holds.
LEMMA SnapshotTells ==
    ASSUME NEW kept, NEW S, NEW now, NEW snap, snap = project(kept, S, now)
    PROVE  /\ snap.captured_at = now
           /\ \A t \in snap.states : t.observation \in Current(kept)
           /\ \A o \in Current(kept) : \E t \in snap.states : t.observation = o
           /\ \A s \in S : snap.sensors[s] = SensorAvailabilityState(Current(kept), s, now)
<1> DEFINE current == Current(kept)
           states == {ObservedState(o, current, now) : o \in current}
           sensors == [s \in S |-> SensorAvailabilityState(current, s, now)]
<1>1. snap = [captured_at |-> now, sensors |-> sensors, states |-> states]
  BY DEF project
<1>2. \A o : ObservedState(o, current, now).observation = o
  BY DEF ObservedState
<1>3. /\ \A t \in states : t.observation \in current
      /\ \A o \in current : \E t \in states : t.observation = o
  BY <1>2
<1>4. \A s \in S : sensors[s] = SensorAvailabilityState(current, s, now)
  OBVIOUS
<1> HIDE DEF states, sensors
<1> QED
  BY <1>1, <1>3, <1>4

LEMMA MeasurementKinds ==
    ASSUME NEW sensor \in Sensors
    PROVE  MeasurementOf(sensor) \in {"robot", "imu", "pose", "visual", "depth", "audio", "fused"}
  BY DEF MeasurementOf, Sensors

\* A sensor that has failed is available only by a newer measurement.
LEMMA FailureOutweighed ==
    ASSUME NEW S, NEW e, Sane(e, S), NEW now, NEW h \in Current(e.kept),
           h.kind = "health", h.avail = "error",
           SensorAvailabilityState(Current(e.kept), h.of, now) = "available"
    PROVE  \E m \in Current(e.kept) : /\ m.kind = MeasurementOf(h.of) /\ m.of = h.of
                                      /\ m.at > h.at
<1> DEFINE current == Current(e.kept)
           measured == {o \in current : Key(o) = <<MeasurementOf(h.of), h.of>>}
           health == {o \in current : Key(o) = <<"health", h.of>>}
           selected == SelectedEvidence(current, h.of)
           x == CHOOSE o \in selected : TRUE
<1>1. selected = IF \E g \in health : \A m \in measured : g.at >= m.at THEN health ELSE measured
  BY DEF SelectedEvidence
<1>2. h \in health /\ \A g \in health : g = h
  <2>1. h \in health
    BY DEF Key
  <2>2. ASSUME NEW g \in health
        PROVE  g = h
    <3>1. Key(g) = Key(h) /\ g.kind = "health"
      BY DEF Key
    <3> QED
      BY <3>1, OneCurrent
  <2> QED
    BY <2>1, <2>2
<1>3. selected # {} /\ x.avail = "available"
  BY DEF SensorAvailabilityState
<1> HIDE DEF selected
<1>4. x \in selected
  BY <1>3
<1> HIDE DEF x
<1>5. ~ \A m \in measured : h.at >= m.at
  BY <1>1, <1>2, <1>3, <1>4
<1>6. PICK m \in measured : ~ (h.at >= m.at)
  BY <1>5
<1>7. m \in Observation /\ h \in Observation
  BY DEF Current, Sane, Typed
<1>8. m.at > h.at
  BY <1>6, <1>7, Numbers
<1> QED
  BY <1>6, <1>8 DEF Key

\* What a response carries: states of the snapshot, for a body query the health and,
\* with joint evidence, the measurements among them.
LEMMA BodyCarries ==
    ASSUME NEW snap, NEW r, r = BodyResponse(snap)
    PROVE  /\ r.captured_at = snap.captured_at /\ r.sensors = snap.sensors
           /\ r.states \subseteq snap.states
           /\ r.ready => \A t \in snap.states :
                 t.observation.kind \in {"robot", "imu", "pose", "visual", "depth", "audio", "fused"}
                 => t \in r.states
  BY DEF BodyResponse, SensorsAnswered, JointsAnswered, ImuAnswered, PoseAnswered, FramesAnswered,
         FusedAnswered, InterpretationAnswered, Of

LEMMA SemanticCarries ==
    ASSUME NEW snap, NEW r, r = populate_semantic_response(snap)
    PROVE  /\ r.captured_at = snap.captured_at /\ r.states \subseteq snap.states
           /\ \A t \in r.states : t.observation.kind = "semantic"
  BY DEF populate_semantic_response, Of

LEMMA AnswerSound ==
    ASSUME NEW S, NEW e, Sane(e, S), NEW now, e.mlast = now, \A o \in e.kept : o.at >= now - Ttl,
           NEW snap, snap = project(e.kept, S, now),
           answer' = BodyResponse(snap) \/ answer' = populate_semantic_response(snap)
    PROVE  AnswersCurrent' /\ FailuresWin'
<1>1. answer'.captured_at = now /\ answer'.states \subseteq snap.states
  BY SnapshotTells, BodyCarries, SemanticCarries
<1>2. \A t \in snap.states : t.observation \in Current(e.kept) /\ t.observation \in e.kept
  BY SnapshotTells DEF Current
<1>3. AnswersCurrent'
  BY <1>1, <1>2 DEF AnswersCurrent, Sane, Retained
<1>4. ASSUME NEW s \in answer'.states, answer'.ready, s.observation.kind = "health",
             s.observation.avail = "error", answer'.sensors[s.observation.of] = "available"
      PROVE  \E m \in answer'.states : /\ m.observation.kind # "health"
                                       /\ m.observation.of = s.observation.of
                                       /\ m.observation.at > s.observation.at
  <2> DEFINE h == s.observation
  <2>1. answer' = BodyResponse(snap)
    BY <1>4, SemanticCarries
  <2>2. h \in Current(e.kept) /\ h \in e.kept
    BY <1>1, <1>2
  <2>3. h.of \in S /\ h.of \in Sensors
    BY <1>4, <2>2 DEF Sane, Retained, Fit, Constructs, SensorHealthObservation
  <2>4. SensorAvailabilityState(Current(e.kept), h.of, now) = "available"
    BY <1>4, <2>1, <2>3, SnapshotTells, BodyCarries
  <2>5. PICK m \in Current(e.kept) : /\ m.kind = MeasurementOf(h.of) /\ m.of = h.of
                                     /\ m.at > h.at
    BY <1>4, <2>2, <2>4, FailureOutweighed
  <2>6. PICK t \in snap.states : t.observation = m
    BY SnapshotTells
  <2>7. m.kind \in {"robot", "imu", "pose", "visual", "depth", "audio", "fused"}
    BY <2>3, <2>5, MeasurementKinds
  <2>8. t \in answer'.states
    BY <1>4, <2>1, <2>6, <2>7, BodyCarries
  <2> QED
    BY <2>5, <2>6, <2>7, <2>8
<1>5. FailuresWin'
  BY <1>4 DEF FailuresWin
<1> QED
  BY <1>3, <1>5

LEMMA QueryCallback ==
    ASSUME Node, NEW later \in Time, NEW topic, Asked(later, topic)
    PROVE  Node'
<1> DEFINE live == Live(ev.kept, clock)
           snap == project(live, SensorCatalog(cfg), clock)
           d == [ev EXCEPT !.mlast = clock, !.kept = live]
<1>1. Called(later) /\ adapters' = adapters
  BY DEF Asked
<1>2. /\ Sane(ev, Known) /\ clock \in Time /\ Moved(adapters, adapters) /\ phase = "active"
      /\ Known = SensorCatalog(cfg)
  BY <1>1, ActiveKnows
<1>3. CASE clock < ev.mlast
  <2>1. ev' = NoEvidence /\ answer' = NotReady /\ phase' = phase
    BY <1>3 DEF Asked, _reset_evidence_epoch
  <2> QED
    BY <1>1, <1>2, <2>1, EmptySane, QuietKeeps
<1>4. CASE ~ (clock < ev.mlast)
  <2>1. /\ ev' = d
        /\ \/ /\ answer' = BodyResponse(snap) \/ answer' = populate_semantic_response(snap)
              /\ phase' = phase
           \/ answer' = NotReady /\ phase' = "crashed"
    BY <1>4 DEF Asked
  <2>2. Sane(d, Known) /\ d.kept = live /\ d.mlast = clock
    <3>1. d = Read(ev, clock)
      BY DEF Read
    <3> HIDE DEF d
    <3> QED
      BY <1>2, <1>4, <3>1, ReadSane
  <2>3. \A o \in live : o.at >= clock - Ttl
    BY DEF Live
  <2> HIDE DEF live, d
  <2>4. snap = project(d.kept, Known, clock)
    BY <1>2, <2>2
  <2> HIDE DEF snap
  <2>5. CASE answer' = BodyResponse(snap) \/ answer' = populate_semantic_response(snap)
    <3>1. AnswersCurrent' /\ FailuresWin'
      BY <2>2, <2>3, <2>4, <2>5, AnswerSound
    <3> QED
      BY <1>1, <1>2, <2>1, <2>2, <3>1, CallbackKeeps
  <2>6. CASE answer' = NotReady
    BY <1>1, <1>2, <2>1, <2>2, <2>6, QuietKeeps
  <2> QED
    BY <2>1, <2>5, <2>6
<1> QED
  BY <1>3, <1>4

--------------------------------------------------------------------------------
(* The invariant. *)

LEMMA ReadsAreTimes ==
    ASSUME clock \in Time, NEW later \in Reads
    PROVE  later \in Time
  BY DEF Reads, Time

LEMMA MessageKeeps ==
    ASSUME Node, Message
    PROVE  Node'
<1>1. PICK later \in Reads, at \in Stamps :
          \/ \E form \in {"good", "unfit", "malformed"} :
                _on_body(Evidence("robot", "joints", at, form), later)
          \/ \E form \in {"good", "malformed"} : _on_body(Evidence("imu", "imu", at, form), later)
          \/ \E form \in {"good", "malformed"} : _on_localization(at, form, later)
          \/ \E S \in SUBSET {"imu", "joints"}, avail \in {"available", "error"} :
                _on_diagnostics(S, at, avail, later)
          \/ _on_image(at, later) \/ _on_camera_info(at, later)
          \/ "depth" \in DOMAIN adapters
             /\ (_on_depth_image(at, later) \/ _on_depth_camera_info(at, later))
          \/ "microphone" \in DOMAIN adapters /\ _on_audio_frame(at, later)
  BY DEF Message
<1>2. later \in Time /\ at \in Time
  BY ReadsAreTimes DEF Node, Stamps, Time
<1>3. ASSUME NEW form \in {"good", "unfit", "malformed"},
             _on_body(Evidence("robot", "joints", at, form), later)
      PROVE  Node'
  BY <1>2, <1>3, BodyCallback
<1>4. ASSUME NEW form \in {"good", "malformed"},
             _on_body(Evidence("imu", "imu", at, form), later)
      PROVE  Node'
  BY <1>2, <1>4, BodyCallback
<1>5. ASSUME NEW form \in {"good", "malformed"}, _on_localization(at, form, later)
      PROVE  Node'
  BY <1>2, <1>5, LocalizationCallback
<1>6. ASSUME NEW S, NEW avail \in {"available", "error"}, _on_diagnostics(S, at, avail, later)
      PROVE  Node'
  BY <1>2, <1>6, DiagnosticsCallback
<1>7. ASSUME _on_image(at, later) \/ _on_camera_info(at, later)
      PROVE  Node'
  BY <1>2, <1>7, VisualCallback, AdapterCallback DEF _on_image, _on_camera_info
<1>8. ASSUME "depth" \in DOMAIN adapters,
             _on_depth_image(at, later) \/ _on_depth_camera_info(at, later)
      PROVE  Node'
  BY <1>2, <1>8, AdapterCallback DEF _on_depth_image, _on_depth_camera_info
<1>9. ASSUME "microphone" \in DOMAIN adapters, _on_audio_frame(at, later)
      PROVE  Node'
  BY <1>2, <1>9, AdapterCallback DEF _on_audio_frame
<1> QED
  BY <1>1, <1>3, <1>4, <1>5, <1>6, <1>7, <1>8, <1>9

LEMMA NodeStarts ==
    ASSUME Init
    PROVE  Node
<1>1. /\ phase = "unconfigured" /\ cfg = Nothing /\ ev = NoEvidence /\ DOMAIN adapters = {}
      /\ waiting = NobodyWaits /\ poses = None /\ answer.states = {} /\ clock \in Time
  BY TimesAssumption DEF Init, NotReady, Time
<1> QED
  BY <1>1, EmptySane DEF Node, Rig, AdaptersFollowNode, AnswersCurrent, FailuresWin

LEMMA NodeStep ==
    ASSUME Node, [Next]_vars
    PROVE  Node'
<1>1. ASSUME NEW c \in Parameters, on_configure(c)
      PROVE  Node'
  BY <1>1, Configures
<1>2. CASE on_activate
  BY <1>2, Activates
<1>3. CASE on_deactivate
  BY <1>3, Deactivates
<1>4. CASE on_cleanup \/ on_shutdown
  BY <1>4, Empties
<1>5. CASE Message
  BY <1>5, MessageKeeps
<1>6. ASSUME NEW later \in Reads, _handle_query(later) \/ _handle_semantic_query(later)
      PROVE  Node'
  <2>1. later \in Time
    BY ReadsAreTimes DEF Node
  <2> QED
    BY <1>6, <2>1, QueryCallback DEF _handle_query, _handle_semantic_query
<1>7. CASE Advance \/ Regress
  BY <1>7, ClockMoves
<1>8. CASE UNCHANGED vars
  BY <1>8 DEF vars, Node, Known, Rig, AdaptersFollowNode, AnswersCurrent, FailuresWin
<1> QED
  BY <1>1, <1>2, <1>3, <1>4, <1>5, <1>6, <1>7, <1>8 DEF Next

LEMMA NodeAlways == Spec => []Node
<1>1. Init => Node
  BY NodeStarts
<1>2. Node /\ [Next]_vars => Node'
  BY NodeStep
<1> QED
  BY <1>1, <1>2, PTL DEF Spec

\* What the memory retains was admitted in the boundary's present epoch, what was
\* sealed or fused together was admitted together, and the adapters and the
\* evaluator's mark are of that epoch and activation: through any number of
\* regressions of the clock, in a callback or between two, and any order of
\* messages, queries and lifecycle transitions (_admit_and_retain,
\* _reset_evidence_epoch, on_deactivate).
THEOREM NodeStaysInOneEpoch == Spec => []OneEpoch
<1>1. Node => OneEpoch
  <2>1. ASSUME Node
        PROVE  TypeOK
    <3>1. Typed(ev)
      BY <2>1 DEF Node, Sane
    <3>2. /\ ev.admitted \cup ev.auth \cup ev.kept \subseteq Observation
          /\ ev.last \in 0..MaxTime \cup {None} /\ ev.mlast \in 0..MaxTime \cup {None}
      BY <3>1 DEF Typed, Time
    <3>3. DOMAIN adapters \subseteq Sensors
      BY <2>1 DEF Node
    <3> QED
      BY <2>1, <3>2, <3>3 DEF Node, TypeOK
  <2>2. ASSUME Node
        PROVE  EpochAgreement /\ SealedTogether /\ FusionFromEpoch /\ EvaluatedIsHeld
    <3>1. \A h : h.kind = "health" /\ NeedsSeal(h) => SealedHealth(h)
      BY DEF NeedsSeal, SealedHealth
    <3> QED
      BY <2>2, <3>1 DEF Node, Sane, Grounded, Evaluated, Retained, EpochAgreement, SealedTogether,
                        FusionFromEpoch, EvaluatedIsHeld
  <2> QED
    BY <2>1, <2>2 DEF OneEpoch, Node
<1> QED
  BY <1>1, NodeAlways, PTL

\* Every query of an active node finds a memory that projects, and is answered from
\* evidence of its own time in which a failure is outweighed only by a newer
\* measurement (_handle_query, project).
THEOREM AnswersStaySound == Spec => []AnswersSound
<1>1. Node => AnswersSound
  <2>1. ASSUME Node, phase = "active"
        PROVE  SnapshotConstructs(ev.kept, SensorCatalog(cfg))
    BY <2>1, MemoryProjects DEF Node, Known
  <2> QED
    BY <2>1 DEF Node, AnswersSound, EveryQueryAnswers
<1> QED
  BY <1>1, NodeAlways, PTL
================================================================================
