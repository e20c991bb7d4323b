----------------------- MODULE PerceptionBoundaryProofs -----------------------
(***************************************************************************)
(* Proofs about PerceptionBoundary, for any evidence, any limits and any   *)
(* capacity.                                                               *)
(***************************************************************************)
EXTENDS PerceptionBoundary, FiniteSetTheorems, TLAPS

\* References and authorizations of the right types.
RefSet == [vis: SUBSET Ids, dep: SUBSET Ids, int: SUBSET Ids, sem: SUBSET Ids,
           auth: [Seals -> SUBSET Ids]]

\* References are to evidence of their kind, authorizations are under their seal.
Kinds(r) ==
    /\ \A i \in r.vis : obs[i].kind = "visual"
    /\ \A i \in r.dep : obs[i].kind = "depth"
    /\ \A i \in r.int : obs[i].kind = "interpretation"
    /\ \A i \in r.sem : obs[i].kind = "semantic"
    /\ \A s \in Seals : \A i \in r.auth[s] : obs[i].seal = s

Small(S) == IsFiniteSet(S) /\ Cardinality(S) <= Capacity

WithinCapacity(r) ==
    /\ Small(r.vis) /\ Small(r.dep) /\ Small(r.int) /\ Small(r.sem)
    /\ \A s \in Seals : Small(r.auth[s])

Chains(r) ==
    /\ \A i \in r.int \cup r.auth["evaluated"] : obs[i].frame \in r.vis
    /\ \A i \in r.sem : obs[i].interp \in r.int /\ obs[obs[i].interp].frame = obs[i].frame

\* What is referred to was admitted, and so were the sources of a fused frame.
Grounded(r, adm) ==
    /\ r.vis \cup r.dep \cup r.int \cup r.sem \subseteq adm
    /\ \A i \in r.auth["fused"] : obs[i].frame \in adm /\ obs[i].depth \in adm

\* A semantic observation that was admitted and is gone has lost the
\* interpretation it was made from.
CutForGood(r, adm) ==
    \A i \in adm : obs[i].kind = "semantic" =>
        obs[i].interp \in adm /\ (i \notin r.sem => obs[i].interp \notin r.int)

Sound(r, adm) ==
    r \in RefSet /\ Kinds(r) /\ WithinCapacity(r) /\ Chains(r) /\ Grounded(r, adm)
    /\ CutForGood(r, adm)

--------------------------------------------------------------------------------
(* The capacity. *)

LEMMA LeastNumber ==
    ASSUME NEW S, S \subseteq Nat, S # {}
    PROVE  \E x \in S : \A y \in S : x <= y
<1> DEFINE R == {p \in Nat \X Nat : p[1] < p[2]}
<1>1. IsWellFoundedOn(R, Nat)
  BY NatLessThanWellFounded DEF OpToRel
<1>2. PICK x \in S : \A y \in S : ~ (<<y, x>> \in R)
  <2> HIDE DEF R
  <2> QED
    BY <1>1, WFMin
<1>3. ASSUME NEW y \in S PROVE x <= y
  <2>1. x \in Nat /\ y \in Nat /\ <<y, x>> \in Nat \X Nat
    OBVIOUS
  <2>2. ~ (<<y, x>> \in R)
    BY <1>2
  <2>3. ~ (y < x)
    BY <2>1, <2>2
  <2> QED
    BY <2>1, <2>3
<1> QED
  BY <1>3

LEMMA StampType ==
    ASSUME NEW i \in Ids
    PROVE  Stamp(i) \in Nat /\ i \in Nat
BY EvidenceAssumption DEF Stamp, Observation, obs

\* The oldest of a set of observations.
LEMMA OldestExists ==
    ASSUME NEW S, S \subseteq Ids, S # {}
    PROVE  \E m \in S : \A j \in S : j = m \/ EarlierStamp(m, j)
<1>1. {Stamp(i) : i \in S} \subseteq Nat /\ {Stamp(i) : i \in S} # {}
  BY StampType
<1>2. PICK t \in {Stamp(i) : i \in S} : \A u \in {Stamp(i) : i \in S} : t <= u
  BY <1>1, LeastNumber
<1>3. {i \in S : Stamp(i) = t} \subseteq Nat /\ {i \in S : Stamp(i) = t} # {}
  BY <1>2, StampType
<1>4. PICK m \in {i \in S : Stamp(i) = t} : \A j \in {i \in S : Stamp(i) = t} : m <= j
  BY <1>3, LeastNumber
<1>5. ASSUME NEW j \in S, j # m PROVE EarlierStamp(m, j)
  <2>1. Stamp(m) = t /\ m \in S /\ Stamp(j) \in Nat /\ Stamp(m) \in Nat /\ j \in Nat /\ m \in Nat
    BY <1>4, StampType
  <2>2. Stamp(m) <= Stamp(j)
    BY <1>2, <2>1
  <2>3. Stamp(j) = Stamp(m) => m <= j
    BY <1>4, <2>1
  <2> QED
    BY <1>5, <2>1, <2>2, <2>3 DEF EarlierStamp
<1> QED
  BY <1>4, <1>5

LEMMA BoundedIsSmall ==
    ASSUME NEW S, S \subseteq Ids, IsFiniteSet(S)
    PROVE  Bounded(S) \subseteq S /\ Small(Bounded(S))
<1> DEFINE B == Bounded(S)
<1>1. B \subseteq S
  BY DEF Bounded
<1>2. IsFiniteSet(B)
  BY <1>1, FS_Subset
<1>3. CASE B = {}
  BY <1>2, <1>3, FS_EmptySet, BoundsAssumption DEF Small
<1>4. CASE B # {}
  <2>1. PICK m \in B : \A j \in B : j = m \/ EarlierStamp(m, j)
    BY <1>1, <1>4, OldestExists
  <2> DEFINE Later == {j \in S : EarlierStamp(m, j)}
  <2>2. Cardinality(Later) < Capacity
    BY <2>1 DEF Bounded
  <2>3. B \ {m} \subseteq Later
    BY <1>1, <2>1
  <2>4. IsFiniteSet(Later) /\ IsFiniteSet(B \ {m})
    <3>1. Later \subseteq S
      OBVIOUS
    <3>2. IsFiniteSet(Later)
      BY <3>1, FS_Subset
    <3>3. IsFiniteSet(B \ {m})
      <4> HIDE DEF B
      <4> QED
        BY <1>2, FS_RemoveElement
    <3> QED
      BY <3>2, <3>3
  <2>5. Cardinality(B \ {m}) <= Cardinality(Later)
    <3> HIDE DEF B, Later
    <3> QED
      BY <2>3, <2>4, FS_Subset
  <2>6. Cardinality(B \ {m}) = Cardinality(B) - 1
    <3> HIDE DEF B
    <3> QED
      BY <1>2, <2>1, FS_RemoveElement
  <2>7. Cardinality(B) \in Nat /\ Cardinality(B \ {m}) \in Nat /\ Cardinality(Later) \in Nat
    BY <1>2, <2>4, FS_CardinalityType
  <2>8. Cardinality(B) <= Capacity
    <3> HIDE DEF B, Later
    <3> QED
      BY <2>2, <2>5, <2>6, <2>7, BoundsAssumption
  <2> QED
    BY <1>1, <1>2, <2>8 DEF Small
<1> QED
  BY <1>1, <1>3, <1>4

LEMMA SmallSubset ==
    ASSUME NEW S, Small(S), NEW T, T \subseteq S
    PROVE  Small(T)
<1>1. IsFiniteSet(T) /\ Cardinality(T) <= Cardinality(S)
  BY FS_Subset DEF Small
<1>2. Cardinality(T) \in Nat /\ Cardinality(S) \in Nat
  BY <1>1, FS_CardinalityType DEF Small
<1> QED
  BY <1>1, <1>2, BoundsAssumption DEF Small

\* One more, then the oldest dropped until the capacity holds.
LEMMA BoundedWithOneMore ==
    ASSUME NEW S, S \subseteq Ids, Small(S), NEW i \in Ids
    PROVE  Small(Bounded(S \cup {i})) /\ Bounded(S \cup {i}) \subseteq S \cup {i}
<1>1. IsFiniteSet(S \cup {i})
  BY FS_AddElement DEF Small
<1> QED
  BY <1>1, BoundedIsSmall

--------------------------------------------------------------------------------
(* The references each operator leaves. *)

\* What the purge leaves, field by field.
LEMMA PurgeFields ==
    ASSUME NEW r \in RefSet, NEW now, NEW p, p = _purge_visual_sources(r, now)
    PROVE  /\ p \in RefSet
           /\ p.vis = {i \in r.vis : obs[i].at >= now - Ttl}
           /\ p.dep = {i \in r.dep : obs[i].at >= now - Ttl}
           /\ p.int = {i \in r.int : obs[i].frame \in p.vis}
           /\ p.sem = {i \in r.sem : obs[i].frame \in p.vis /\ obs[i].interp \in p.int}
           /\ p.auth["evaluated"] = {i \in r.auth["evaluated"] : obs[i].frame \in p.vis}
           /\ p.auth["fused"] = {i \in r.auth["fused"] :
                                   obs[i].frame \in p.vis /\ obs[i].depth \in p.dep}
           /\ \A s \in Seals : p.auth[s] \subseteq r.auth[s]
<1> DEFINE vis == {i \in r.vis : obs[i].at >= now - Ttl}
           dep == {i \in r.dep : obs[i].at >= now - Ttl}
           int == {i \in r.int : obs[i].frame \in vis}
           sem == {i \in r.sem : obs[i].frame \in vis /\ obs[i].interp \in int}
           ev  == {i \in r.auth["evaluated"] : obs[i].frame \in vis}
           fu  == {i \in r.auth["fused"] : obs[i].frame \in vis /\ obs[i].depth \in dep}
<1>1. p = [r EXCEPT !.vis = vis, !.dep = dep, !.int = int, !.sem = sem,
                    !.auth["evaluated"] = ev, !.auth["fused"] = fu]
  BY DEF _purge_visual_sources
<1>2. /\ vis \subseteq r.vis /\ dep \subseteq r.dep /\ int \subseteq r.int /\ sem \subseteq r.sem
      /\ ev \subseteq r.auth["evaluated"] /\ fu \subseteq r.auth["fused"]
  OBVIOUS
<1>3. /\ vis = {i \in r.vis : obs[i].at >= now - Ttl}
      /\ dep = {i \in r.dep : obs[i].at >= now - Ttl}
      /\ int = {i \in r.int : obs[i].frame \in vis}
      /\ sem = {i \in r.sem : obs[i].frame \in vis /\ obs[i].interp \in int}
      /\ ev = {i \in r.auth["evaluated"] : obs[i].frame \in vis}
      /\ fu = {i \in r.auth["fused"] : obs[i].frame \in vis /\ obs[i].depth \in dep}
  OBVIOUS
<1> HIDE DEF vis, dep, int, sem, ev, fu
<1>4. /\ p.vis = vis /\ p.dep = dep /\ p.int = int /\ p.sem = sem
      /\ p.auth = [r.auth EXCEPT !["evaluated"] = ev, !["fused"] = fu]
  BY <1>1 DEF RefSet
<1>5. r.auth \in [Seals -> SUBSET Ids]
  BY DEF RefSet
<1>6. /\ p.auth["evaluated"] = ev /\ p.auth["fused"] = fu
      /\ \A s \in Seals : p.auth[s] \subseteq r.auth[s]
      /\ p.auth \in [Seals -> SUBSET Ids]
  BY <1>2, <1>4, <1>5 DEF Seals
<1>7. p = [vis |-> p.vis, dep |-> p.dep, int |-> p.int, sem |-> p.sem, auth |-> p.auth]
  BY <1>1 DEF RefSet
<1>8. p \in RefSet
  <2>1. p.vis \in SUBSET Ids /\ p.dep \in SUBSET Ids /\ p.int \in SUBSET Ids /\ p.sem \in SUBSET Ids
    BY <1>2, <1>4 DEF RefSet
  <2> QED
    BY <1>6, <1>7, <2>1 DEF RefSet
<1> QED
  BY <1>3, <1>4, <1>6, <1>8

\* The purge cuts no chain in the middle.
LEMMA PurgeSound ==
    ASSUME NEW r, NEW adm, Sound(r, adm), NEW now, NEW p, p = _purge_visual_sources(r, now)
    PROVE  Sound(p, adm)
<1>1. r \in RefSet
  BY DEF Sound
<1>2. /\ p \in RefSet
      /\ p.vis = {i \in r.vis : obs[i].at >= now - Ttl}
      /\ p.dep = {i \in r.dep : obs[i].at >= now - Ttl}
      /\ p.int = {i \in r.int : obs[i].frame \in p.vis}
      /\ p.sem = {i \in r.sem : obs[i].frame \in p.vis /\ obs[i].interp \in p.int}
      /\ p.auth["evaluated"] = {i \in r.auth["evaluated"] : obs[i].frame \in p.vis}
      /\ \A s \in Seals : p.auth[s] \subseteq r.auth[s]
  BY <1>1, PurgeFields
<1>3. p.vis \subseteq r.vis /\ p.dep \subseteq r.dep /\ p.int \subseteq r.int /\ p.sem \subseteq r.sem
  BY <1>2
<1>4. Kinds(p)
  BY <1>2, <1>3 DEF Sound, Kinds
<1>5. WithinCapacity(p)
  BY <1>2, <1>3, SmallSubset DEF Sound, WithinCapacity
<1>6. Chains(p)
  BY <1>2 DEF Sound, Chains
<1>7. Grounded(p, adm)
  BY <1>2, <1>3 DEF Sound, Grounded, Seals
<1>8. CutForGood(p, adm)
  <2> SUFFICES ASSUME NEW i \in adm, obs[i].kind = "semantic"
               PROVE  obs[i].interp \in adm /\ (i \notin p.sem => obs[i].interp \notin p.int)
    BY DEF CutForGood
  <2>1. obs[i].interp \in adm /\ (i \notin r.sem => obs[i].interp \notin r.int)
    BY DEF Sound, CutForGood
  <2>2. i \in r.sem => obs[obs[i].interp].frame = obs[i].frame
    BY DEF Sound, Chains
  <2> QED
    BY <1>2, <1>3, <2>1, <2>2
<1> QED
  BY <1>2, <1>4, <1>5, <1>6, <1>7, <1>8 DEF Sound

\* Popping an authorization.
LEMMA ConsumedSound ==
    ASSUME NEW r, NEW adm, Sound(r, adm), NEW i \in Ids, NEW p, p = Consumed(r, i)
    PROVE  /\ Sound(p, adm)
           /\ p.vis = r.vis /\ p.dep = r.dep /\ p.int = r.int /\ p.sem = r.sem
           /\ obs[i].seal # "none" => i \notin p.auth[obs[i].seal]
<1>1. r \in RefSet /\ r.auth \in [Seals -> SUBSET Ids]
  BY DEF Sound, RefSet
<1> DEFINE s == obs[i].seal
<1>2. s \in Seals \cup {"none"}
  BY EvidenceAssumption DEF Observation, obs, Seals
<1>3. CASE s = "none"
  <2>1. p = r
    BY <1>3 DEF Consumed
  <2> QED
    BY <1>3, <2>1
<1>4. CASE s \in Seals
  <2>1. p = [r EXCEPT !.auth[s] = r.auth[s] \ {i}]
    BY <1>4 DEF Consumed, Seals
  <2> HIDE DEF s
  <2>2. /\ p.vis = r.vis /\ p.dep = r.dep /\ p.int = r.int /\ p.sem = r.sem
        /\ p.auth = [r.auth EXCEPT ![s] = r.auth[s] \ {i}]
    BY <1>1, <2>1 DEF RefSet
  <2>3. /\ p.auth \in [Seals -> SUBSET Ids] /\ p.auth[s] = r.auth[s] \ {i}
        /\ \A t \in Seals : p.auth[t] \subseteq r.auth[t]
    BY <1>1, <1>4, <2>2
  <2>4. p \in RefSet
    <3>1. p = [vis |-> p.vis, dep |-> p.dep, int |-> p.int, sem |-> p.sem, auth |-> p.auth]
      BY <1>1, <2>1 DEF RefSet
    <3>2. p.vis \in SUBSET Ids /\ p.dep \in SUBSET Ids /\ p.int \in SUBSET Ids /\ p.sem \in SUBSET Ids
      BY <1>1, <2>2 DEF RefSet
    <3> QED
      BY <2>3, <3>1, <3>2 DEF RefSet
  <2>5. Kinds(p) /\ CutForGood(p, adm)
    BY <2>2, <2>3 DEF Sound, Kinds, CutForGood
  <2>6. WithinCapacity(p)
    BY <2>2, <2>3, SmallSubset DEF Sound, WithinCapacity
  <2>7. Chains(p) /\ Grounded(p, adm)
    BY <2>2, <2>3 DEF Sound, Chains, Grounded, Seals
  <2>8. Sound(p, adm)
    BY <2>4, <2>5, <2>6, <2>7 DEF Sound
  <2>9. i \notin p.auth[s]
    BY <2>3
  <2> QED
    BY <2>2, <2>8, <2>9 DEF s
<1> QED
  BY <1>2, <1>3, <1>4

--------------------------------------------------------------------------------
(* Remembering what was admitted. *)

\* An evicted frame takes its interpretations and observations with it.
LEMMA RememberVisualSound ==
    ASSUME NEW r, NEW adm, Sound(r, adm), NEW i \in Ids, obs[i].kind = "visual",
           NEW p, p = _remember_visual_source(r, i)
    PROVE  Sound(p, adm \cup {i}) /\ \A s \in Seals : p.auth[s] \subseteq r.auth[s]
<1> DEFINE vis == Bounded(r.vis \cup {i})
           kept(S) == {x \in S : obs[x].frame \notin (r.vis \cup {i}) \ vis}
<1>1. r \in RefSet /\ r.auth \in [Seals -> SUBSET Ids] /\ r.vis \subseteq Ids /\ Small(r.vis)
  BY DEF Sound, RefSet, WithinCapacity
<1>2. Small(vis) /\ vis \subseteq r.vis \cup {i}
  BY <1>1, BoundedWithOneMore
<1>3. p = [r EXCEPT !.vis = vis, !.int = kept(r.int), !.sem = kept(r.sem),
                    !.auth["evaluated"] = kept(r.auth["evaluated"])]
  BY DEF _remember_visual_source
<1> DEFINE int == kept(r.int)
           sem == kept(r.sem)
           ev  == kept(r.auth["evaluated"])
<1>4. /\ int = {x \in r.int : obs[x].frame \notin (r.vis \cup {i}) \ vis}
      /\ sem = {x \in r.sem : obs[x].frame \notin (r.vis \cup {i}) \ vis}
      /\ ev = {x \in r.auth["evaluated"] : obs[x].frame \notin (r.vis \cup {i}) \ vis}
  OBVIOUS
<1>5. p = [r EXCEPT !.vis = vis, !.int = int, !.sem = sem, !.auth["evaluated"] = ev]
  BY <1>3
<1> HIDE DEF vis, kept, int, sem, ev
<1>6. /\ p.vis = vis /\ p.dep = r.dep /\ p.int = int /\ p.sem = sem
      /\ p.auth = [r.auth EXCEPT !["evaluated"] = ev]
      /\ p = [vis |-> p.vis, dep |-> p.dep, int |-> p.int, sem |-> p.sem, auth |-> p.auth]
  BY <1>1, <1>5 DEF RefSet
<1>7. /\ p.auth \in [Seals -> SUBSET Ids] /\ p.auth["evaluated"] = ev
      /\ \A s \in Seals : p.auth[s] \subseteq r.auth[s]
  BY <1>1, <1>4, <1>6 DEF Seals
<1>8. p.int \subseteq r.int /\ p.sem \subseteq r.sem
  BY <1>4, <1>6
<1>9. p \in RefSet
  <2>1. p.vis \in SUBSET Ids /\ p.dep \in SUBSET Ids /\ p.int \in SUBSET Ids /\ p.sem \in SUBSET Ids
    BY <1>1, <1>2, <1>6, <1>8 DEF RefSet
  <2> QED
    BY <1>6, <1>7, <2>1 DEF RefSet
<1>10. Kinds(p)
  BY <1>2, <1>6, <1>7, <1>8 DEF Sound, Kinds
<1>11. WithinCapacity(p)
  BY <1>2, <1>6, <1>7, <1>8, SmallSubset DEF Sound, WithinCapacity
<1>12. Chains(p)
  <2>1. ASSUME NEW x \in p.int \cup p.auth["evaluated"] PROVE obs[x].frame \in p.vis
    BY <2>1, <1>4, <1>6, <1>7 DEF Sound, Chains
  <2>2. ASSUME NEW x \in p.sem
        PROVE  obs[x].interp \in p.int /\ obs[obs[x].interp].frame = obs[x].frame
    BY <2>2, <1>4, <1>6 DEF Sound, Chains
  <2> QED
    BY <2>1, <2>2 DEF Chains
<1>13. Grounded(p, adm \cup {i})
  BY <1>2, <1>6, <1>7, <1>8 DEF Sound, Grounded, Seals
<1>14. CutForGood(p, adm \cup {i})
  <2> SUFFICES ASSUME NEW x \in adm \cup {i}, obs[x].kind = "semantic"
               PROVE  obs[x].interp \in adm /\ (x \notin p.sem => obs[x].interp \notin p.int)
    BY DEF CutForGood
  <2>1. x \in adm
    OBVIOUS
  <2>2. obs[x].interp \in adm /\ (x \notin r.sem => obs[x].interp \notin r.int)
    BY <2>1 DEF Sound, CutForGood
  <2>3. x \in r.sem => obs[obs[x].interp].frame = obs[x].frame
    BY DEF Sound, Chains
  <2> QED
    BY <1>4, <1>6, <1>8, <2>2, <2>3
<1> QED
  BY <1>7, <1>9, <1>10, <1>11, <1>12, <1>13, <1>14 DEF Sound

LEMMA RememberDepthSound ==
    ASSUME NEW r, NEW adm, Sound(r, adm), NEW i \in Ids, obs[i].kind = "depth",
           NEW p, p = _remember_depth_source(r, i)
    PROVE  Sound(p, adm \cup {i}) /\ \A s \in Seals : p.auth[s] \subseteq r.auth[s]
<1> DEFINE dep == Bounded(r.dep \cup {i})
           fu == {f \in r.auth["fused"] : obs[f].depth \in dep}
<1>1. r \in RefSet /\ r.auth \in [Seals -> SUBSET Ids] /\ r.dep \subseteq Ids /\ Small(r.dep)
  BY DEF Sound, RefSet, WithinCapacity
<1>2. Small(dep) /\ dep \subseteq r.dep \cup {i} /\ fu \subseteq r.auth["fused"]
  BY <1>1, BoundedWithOneMore
<1>3. p = [r EXCEPT !.dep = dep, !.auth["fused"] = fu]
  BY DEF _remember_depth_source
<1> HIDE DEF dep, fu
<1>4. /\ p.vis = r.vis /\ p.dep = dep /\ p.int = r.int /\ p.sem = r.sem
      /\ p.auth = [r.auth EXCEPT !["fused"] = fu]
      /\ p = [vis |-> p.vis, dep |-> p.dep, int |-> p.int, sem |-> p.sem, auth |-> p.auth]
  BY <1>1, <1>3 DEF RefSet
<1>5. /\ p.auth \in [Seals -> SUBSET Ids]
      /\ \A s \in Seals : p.auth[s] \subseteq r.auth[s]
  BY <1>1, <1>2, <1>4 DEF Seals
<1>6. p \in RefSet
  <2>1. p.vis \in SUBSET Ids /\ p.dep \in SUBSET Ids /\ p.int \in SUBSET Ids /\ p.sem \in SUBSET Ids
    BY <1>1, <1>2, <1>4 DEF RefSet
  <2> QED
    BY <1>4, <1>5, <2>1 DEF RefSet
<1>7. Kinds(p)
  BY <1>2, <1>4, <1>5 DEF Sound, Kinds
<1>8. WithinCapacity(p)
  BY <1>2, <1>4, <1>5, SmallSubset DEF Sound, WithinCapacity
<1>9. Chains(p)
  BY <1>4, <1>5 DEF Sound, Chains, Seals
<1>10. Grounded(p, adm \cup {i})
  BY <1>2, <1>4, <1>5 DEF Sound, Grounded, Seals
<1>11. CutForGood(p, adm \cup {i})
  BY <1>4 DEF Sound, CutForGood
<1> QED
  BY <1>5, <1>6, <1>7, <1>8, <1>9, <1>10, <1>11 DEF Sound

\* An interpretation is new, and its frame is retained.
LEMMA RememberInterpretationSound ==
    ASSUME NEW r, NEW adm, Sound(r, adm), NEW i \in Ids, obs[i].kind = "interpretation",
           i \notin adm, obs[i].frame \in r.vis,
           NEW p, p = _remember_visual_interpretation(r, i)
    PROVE  Sound(p, adm \cup {i}) /\ \A s \in Seals : p.auth[s] \subseteq r.auth[s]
<1> DEFINE int == Bounded(r.int \cup {i})
           sem == {s \in r.sem : obs[s].interp \in int}
<1>1. r \in RefSet /\ r.auth \in [Seals -> SUBSET Ids] /\ r.int \subseteq Ids /\ Small(r.int)
  BY DEF Sound, RefSet, WithinCapacity
<1>2. Small(int) /\ int \subseteq r.int \cup {i} /\ sem \subseteq r.sem
  BY <1>1, BoundedWithOneMore
<1>3. p = [r EXCEPT !.int = int, !.sem = sem]
  BY DEF _remember_visual_interpretation
<1>4. sem = {s \in r.sem : obs[s].interp \in int}
  OBVIOUS
<1> HIDE DEF int, sem
<1>5. /\ p.vis = r.vis /\ p.dep = r.dep /\ p.int = int /\ p.sem = sem /\ p.auth = r.auth
      /\ p = [vis |-> p.vis, dep |-> p.dep, int |-> p.int, sem |-> p.sem, auth |-> p.auth]
  BY <1>1, <1>3 DEF RefSet
<1>6. p \in RefSet
  <2>1. p.vis \in SUBSET Ids /\ p.dep \in SUBSET Ids /\ p.int \in SUBSET Ids /\ p.sem \in SUBSET Ids
    BY <1>1, <1>2, <1>5 DEF RefSet
  <2> QED
    BY <1>1, <1>5, <2>1 DEF RefSet
<1>7. Kinds(p)
  BY <1>2, <1>5 DEF Sound, Kinds
<1>8. WithinCapacity(p)
  BY <1>2, <1>5, SmallSubset DEF Sound, WithinCapacity
<1>9. Chains(p)
  BY <1>2, <1>4, <1>5 DEF Sound, Chains
<1>10. Grounded(p, adm \cup {i})
  BY <1>2, <1>5 DEF Sound, Grounded
<1>11. CutForGood(p, adm \cup {i})
  <2> SUFFICES ASSUME NEW x \in adm \cup {i}, obs[x].kind = "semantic"
               PROVE  obs[x].interp \in adm /\ (x \notin p.sem => obs[x].interp \notin p.int)
    BY DEF CutForGood
  <2>1. x \in adm
    OBVIOUS
  <2>2. obs[x].interp \in adm /\ (x \notin r.sem => obs[x].interp \notin r.int)
    BY <2>1 DEF Sound, CutForGood
  <2>3. obs[x].interp # i
    BY <2>2
  <2> QED
    BY <1>2, <1>4, <1>5, <2>2, <2>3
<1> QED
  BY <1>5, <1>6, <1>7, <1>8, <1>9, <1>10, <1>11 DEF Sound

LEMMA RememberSemanticSound ==
    ASSUME NEW r, NEW adm, Sound(r, adm), NEW i \in Ids, obs[i].kind = "semantic",
           i \notin r.sem, Cardinality(r.sem) < Capacity,
           obs[i].interp \in r.int, obs[obs[i].interp].frame = obs[i].frame,
           NEW p, p = [r EXCEPT !.sem = r.sem \cup {i}]
    PROVE  Sound(p, adm \cup {i}) /\ \A s \in Seals : p.auth[s] \subseteq r.auth[s]
<1>1. r \in RefSet /\ r.auth \in [Seals -> SUBSET Ids]
  BY DEF Sound, RefSet
<1>2. Small(r.sem \cup {i})
  <2>1. IsFiniteSet(r.sem)
    BY DEF Sound, WithinCapacity, Small
  <2>2. IsFiniteSet(r.sem \cup {i}) /\ Cardinality(r.sem \cup {i}) = Cardinality(r.sem) + 1
    BY <2>1, FS_AddElement
  <2>3. Cardinality(r.sem) \in Nat
    BY <2>1, FS_CardinalityType
  <2> QED
    BY <2>2, <2>3, BoundsAssumption DEF Small
<1>3. /\ p.vis = r.vis /\ p.dep = r.dep /\ p.int = r.int /\ p.sem = r.sem \cup {i} /\ p.auth = r.auth
      /\ p = [vis |-> p.vis, dep |-> p.dep, int |-> p.int, sem |-> p.sem, auth |-> p.auth]
  BY <1>1 DEF RefSet
<1>4. p \in RefSet
  <2>1. p.vis \in SUBSET Ids /\ p.dep \in SUBSET Ids /\ p.int \in SUBSET Ids /\ p.sem \in SUBSET Ids
    BY <1>1, <1>3 DEF RefSet
  <2> QED
    BY <1>1, <1>3, <2>1 DEF RefSet
<1>5. Kinds(p)
  BY <1>3 DEF Sound, Kinds
<1>6. WithinCapacity(p)
  BY <1>2, <1>3 DEF Sound, WithinCapacity
<1>7. Chains(p)
  BY <1>3 DEF Sound, Chains
<1>8. Grounded(p, adm \cup {i})
  BY <1>3 DEF Sound, Grounded
<1>9. CutForGood(p, adm \cup {i})
  BY <1>3 DEF Sound, CutForGood, Grounded
<1> QED
  BY <1>3, <1>4, <1>5, <1>6, <1>7, <1>8, <1>9 DEF Sound

--------------------------------------------------------------------------------
(* The inductive invariant. *)

\* What is admitted under a state key, semantic observations aside, has different
\* times, and the key's last admission is one of it, the newest.
KeysOrdered ==
    /\ admitted \subseteq Ids
    /\ \A k \in DOMAIN last_by_key :
          /\ last_by_key[k] \in admitted /\ obs[last_by_key[k]].key = k
          /\ obs[last_by_key[k]].kind # "semantic"
    /\ \A i \in admitted : obs[i].kind # "semantic" =>
          /\ obs[i].key \in DOMAIN last_by_key
          /\ Stamp(i) <= Stamp(last_by_key[obs[i].key])
    /\ \A i, j \in admitted :
          ( /\ i # j /\ obs[i].kind # "semantic"
            /\ obs[j].kind # "semantic" /\ obs[i].key = obs[j].key )
          => Stamp(i) # Stamp(j)

Clocks == /\ last_now \in 0..MaxTime \cup {None}
          /\ last_receipt \in 0..MaxReceipt \cup {None}

IInv == Sound(Refs, admitted) /\ KeysOrdered /\ FusionGrounded /\ Clocks

\* What AdmittedOnce says of a step.
OnceStep ==
    /\ \A i \in semantics' \ semantics : i \notin admitted
    /\ \A k \in DOMAIN last_by_key' :
          ( k \in DOMAIN last_by_key => last_by_key'[k] # last_by_key[k] )
          => last_by_key'[k] \notin admitted
    /\ \A i \in Ids : obs[i].seal # "none" /\ i \in admitted' \ admitted
          => i \notin authorized'[obs[i].seal]

LEMMA EmptySmall == Small({})
BY FS_EmptySet, BoundsAssumption DEF Small

LEMMA FreshSound ==
    ASSUME NEW r, r = [vis |-> {}, dep |-> {}, int |-> {}, sem |-> {},
                       auth |-> [s \in Seals |-> {}]]
    PROVE  Sound(r, {})
<1>1. /\ r.vis = {} /\ r.dep = {} /\ r.int = {} /\ r.sem = {} /\ \A s \in Seals : r.auth[s] = {}
  OBVIOUS
<1>2. r \in RefSet
  BY DEF RefSet
<1>3. Kinds(r) /\ CutForGood(r, {})
  BY <1>1 DEF Kinds, CutForGood
<1>4. WithinCapacity(r)
  BY <1>1, EmptySmall DEF WithinCapacity
<1>5. Chains(r) /\ Grounded(r, {})
  BY <1>1 DEF Chains, Grounded, Seals
<1> QED
  BY <1>2, <1>3, <1>4, <1>5 DEF Sound

LEMMA InitIInv == Init => IInv
<1> SUFFICES ASSUME Init PROVE IInv
  OBVIOUS
<1> USE DEF Init, Fresh
<1>1. Sound(Refs, admitted)
  <2>1. Refs = [vis |-> {}, dep |-> {}, int |-> {}, sem |-> {}, auth |-> [s \in Seals |-> {}]]
    BY DEF Refs
  <2> QED
    BY <2>1, FreshSound
<1> QED
  BY <1>1 DEF IInv, KeysOrdered, FusionGrounded, Clocks

LEMMA InstallRefs ==
    ASSUME NEW r \in RefSet, Install(r)
    PROVE  Refs' = r
BY DEF Install, Refs, RefSet

\* One authorization more, under its own seal.
LEMMA AuthorizeSound ==
    ASSUME NEW r, NEW adm, Sound(r, adm), NEW s \in Seals, NEW S,
           S \subseteq r.auth[s] \cup Ids, Small(S),
           \A i \in S : obs[i].seal = s,
           s = "evaluated" => \A i \in S : obs[i].frame \in r.vis,
           s = "fused" => \A i \in S : obs[i].frame \in adm /\ obs[i].depth \in adm,
           NEW p, p = [r EXCEPT !.auth = [r.auth EXCEPT ![s] = S]]
    PROVE  Sound(p, adm)
<1>1. r \in RefSet /\ r.auth \in [Seals -> SUBSET Ids]
  BY DEF Sound, RefSet
<1>2. /\ p.vis = r.vis /\ p.dep = r.dep /\ p.int = r.int /\ p.sem = r.sem
      /\ p.auth = [r.auth EXCEPT ![s] = S]
      /\ p = [vis |-> p.vis, dep |-> p.dep, int |-> p.int, sem |-> p.sem, auth |-> p.auth]
  BY <1>1 DEF RefSet
<1>3. /\ p.auth \in [Seals -> SUBSET Ids] /\ p.auth[s] = S
      /\ \A t \in Seals : t # s => p.auth[t] = r.auth[t]
  BY <1>1, <1>2
<1>4. p \in RefSet
  <2>1. p.vis \in SUBSET Ids /\ p.dep \in SUBSET Ids /\ p.int \in SUBSET Ids /\ p.sem \in SUBSET Ids
    BY <1>1, <1>2 DEF RefSet
  <2> QED
    BY <1>2, <1>3, <2>1 DEF RefSet
<1>5. Kinds(p) /\ CutForGood(p, adm)
  BY <1>2, <1>3 DEF Sound, Kinds, CutForGood
<1>6. WithinCapacity(p)
  BY <1>2, <1>3 DEF Sound, WithinCapacity
<1>7. Chains(p) /\ Grounded(p, adm)
  BY <1>2, <1>3 DEF Sound, Chains, Grounded, Seals
<1> QED
  BY <1>4, <1>5, <1>6, <1>7 DEF Sound

\* Every authorization is of one observation or two, under their seal.
LEMMA AuthorizeStep ==
    ASSUME IInv, NEW i \in Ids,
           authorize_sealed(i) \/ authorize_evaluated_visual(i) \/ authorize_rgbd_fusion(i)
    PROVE  IInv' /\ OnceStep
<1>1. /\ Sound(Refs, admitted) /\ Refs \in RefSet /\ authorized \in [Seals -> SUBSET Ids]
      /\ \A s \in Seals : Small(authorized[s]) /\ \A j \in authorized[s] : obs[j].seal = s
  BY DEF IInv, Sound, RefSet, Refs, WithinCapacity, Kinds
<1>2. /\ UNCHANGED <<sources, last_by_key, last_now, last_receipt, admitted>>
      /\ \E s \in Seals, j \in Ids :
            LET S == Bounded(authorized[s] \cup {i, j}) IN
            /\ authorized' = [authorized EXCEPT ![s] = S]
            /\ obs[i].seal = s /\ obs[j].seal = s
            /\ s = "evaluated" => i = j /\ obs[i].frame \in visual_sources
            /\ s = "fused" => i = j /\ obs[i].frame \in admitted /\ obs[i].depth \in admitted
  <2>1. CASE authorize_sealed(i)
    <3>1. obs[i].pair \in Ids /\ obs[obs[i].pair].seal = obs[i].seal
      BY <2>1, EvidenceAssumption DEF authorize_sealed, obs, Observation
    <3>2. obs[i].seal \in Seals /\ obs[i].seal # "evaluated" /\ obs[i].seal # "fused"
      BY <2>1 DEF authorize_sealed, Seals
    <3> QED
      BY <2>1, <3>1, <3>2 DEF authorize_sealed
  <2>2. CASE authorize_evaluated_visual(i)
    <3>1. {i, i} = {i} /\ "evaluated" \in Seals
      BY DEF Seals
    <3>2. authorized' = [authorized EXCEPT !["evaluated"] = Bounded(authorized["evaluated"] \cup {i, i})]
      BY <2>2, <3>1 DEF authorize_evaluated_visual
    <3> QED
      BY <2>2, <3>1, <3>2 DEF authorize_evaluated_visual
  <2>3. CASE authorize_rgbd_fusion(i)
    <3>1. {i, i} = {i} /\ "fused" \in Seals
      BY DEF Seals
    <3>2. authorized' = [authorized EXCEPT !["fused"] = Bounded(authorized["fused"] \cup {i, i})]
      BY <2>3, <3>1 DEF authorize_rgbd_fusion
    <3>3. obs[i].seal = "fused"
      BY <2>3, EvidenceAssumption DEF authorize_rgbd_fusion, obs
    <3>4. obs[i].frame \in admitted /\ obs[i].depth \in admitted
      BY <1>1, <2>3 DEF authorize_rgbd_fusion, Sound, Grounded, Refs
    <3> QED
      BY <2>3, <3>1, <3>2, <3>3, <3>4 DEF authorize_rgbd_fusion
  <2> QED
    BY <2>1, <2>2, <2>3
<1>3. PICK s \in Seals, j \in Ids :
            /\ authorized' = [authorized EXCEPT ![s] = Bounded(authorized[s] \cup {i, j})]
            /\ obs[i].seal = s /\ obs[j].seal = s
            /\ s = "evaluated" => i = j /\ obs[i].frame \in visual_sources
            /\ s = "fused" => i = j /\ obs[i].frame \in admitted /\ obs[i].depth \in admitted
  BY <1>2
<1> DEFINE S == Bounded(authorized[s] \cup {i, j})
<1>4. S \subseteq authorized[s] \cup {i, j} /\ Small(S) /\ S \subseteq Ids
  <2>1. authorized[s] \cup {i, j} \subseteq Ids
    BY <1>1
  <2>2. IsFiniteSet((authorized[s] \cup {i}) \cup {j})
    BY <1>1, FS_AddElement DEF Small
  <2>3. (authorized[s] \cup {i}) \cup {j} = authorized[s] \cup {i, j}
    OBVIOUS
  <2> QED
    BY <2>1, <2>2, <2>3, BoundedIsSmall
<1> DEFINE p == [Refs EXCEPT !.auth = [Refs.auth EXCEPT ![s] = S]]
<1> HIDE DEF S
<1>5. Sound(p, admitted)
  <2>1. \A x \in S : obs[x].seal = s
    BY <1>1, <1>3, <1>4
  <2>2. s = "evaluated" => \A x \in S : obs[x].frame \in Refs.vis
    BY <1>1, <1>3, <1>4 DEF Sound, Chains, Refs
  <2>3. s = "fused" => \A x \in S : obs[x].frame \in admitted /\ obs[x].depth \in admitted
    BY <1>1, <1>3, <1>4 DEF Sound, Grounded, Refs
  <2>4. S \subseteq Refs.auth[s] \cup Ids
    BY <1>4
  <2> HIDE DEF p
  <2>5. p = [Refs EXCEPT !.auth = [Refs.auth EXCEPT ![s] = S]]
    BY DEF p
  <2> QED
    BY <1>1, <1>4, <2>1, <2>2, <2>3, <2>4, <2>5, AuthorizeSound
<1>6. Refs' = p
  BY <1>2, <1>3 DEF Refs, sources, S
<1>7. Sound(Refs, admitted)'
  <2>1. admitted' = admitted
    BY <1>2
  <2> QED
    BY <1>5, <1>6, <2>1 DEF Sound, Kinds, WithinCapacity, Chains, Grounded, CutForGood
<1>8. KeysOrdered' /\ FusionGrounded' /\ Clocks'
  BY <1>2 DEF IInv, KeysOrdered, FusionGrounded, Clocks
<1>9. OnceStep
  BY <1>2 DEF OnceStep, sources
<1> QED
  BY <1>7, <1>8, <1>9 DEF IInv

--------------------------------------------------------------------------------
(* Admission. *)

\* The references an attempt works on: its authorization is popped, and before a
\* semantic observation is judged the boundary is purged.
Popped(i) == IF obs[i].mismatch THEN Refs ELSE Consumed(Refs, i)

Judged(i, now) == IF obs[i].kind = "semantic"
                  THEN _purge_visual_sources(Popped(i), now) ELSE Popped(i)

Accepted(i, now) ==
    /\ SealRefusal(i) = "ok" /\ ContentRefusal(i, Judged(i, now), now) = "ok"
    /\ TimeRefusal(i, now) = "ok" /\ OrderRefusal(i, Judged(i, now)) = "ok"

LEMMA JudgedSound ==
    ASSUME IInv, NEW i \in Ids, NEW now
    PROVE  /\ Sound(Popped(i), admitted) /\ Sound(Judged(i, now), admitted)
           /\ Judged(i, now).sem \subseteq semantics
           /\ obs[i].kind # "semantic" => Judged(i, now).sem = semantics
           /\ obs[i].seal # "none" /\ ~obs[i].mismatch
                 => i \notin Judged(i, now).auth[obs[i].seal]
<1>1. Sound(Refs, admitted) /\ Refs.sem = semantics
  BY DEF IInv, Refs
<1>2. /\ Sound(Popped(i), admitted) /\ Popped(i).sem = semantics
      /\ obs[i].seal # "none" /\ ~obs[i].mismatch => i \notin Popped(i).auth[obs[i].seal]
  <2>1. CASE obs[i].mismatch
    BY <1>1, <2>1 DEF Popped
  <2>2. CASE ~obs[i].mismatch
    <3>1. Popped(i) = Consumed(Refs, i)
      BY <2>2 DEF Popped
    <3> QED
      BY <1>1, <3>1, ConsumedSound
  <2> QED
    BY <2>1, <2>2
<1>3. CASE obs[i].kind = "semantic"
  <2>1. Judged(i, now) = _purge_visual_sources(Popped(i), now)
    BY <1>3 DEF Judged
  <2>2. Sound(Judged(i, now), admitted)
    BY <1>2, <2>1, PurgeSound
  <2>3. Popped(i) \in RefSet
    BY <1>2 DEF Sound
  <2>4. /\ Judged(i, now).sem = {x \in Popped(i).sem :
              obs[x].frame \in Judged(i, now).vis /\ obs[x].interp \in Judged(i, now).int}
        /\ \A s \in Seals : Judged(i, now).auth[s] \subseteq Popped(i).auth[s]
    BY <2>1, <2>3, PurgeFields
  <2>5. obs[i].seal \in Seals \cup {"none"}
    BY EvidenceAssumption DEF Observation, obs, Seals
  <2> QED
    BY <1>2, <1>3, <2>2, <2>4, <2>5
<1>4. CASE obs[i].kind # "semantic"
  BY <1>2, <1>4 DEF Judged
<1> QED
  BY <1>3, <1>4

\* What is accepted was not admitted before.
LEMMA AcceptedIsNew ==
    ASSUME IInv, NEW i \in Ids, NEW now, Accepted(i, now)
    PROVE  /\ i \notin admitted
           /\ obs[i].kind # "semantic" =>
                 \A j \in admitted : obs[j].kind # "semantic" /\ obs[j].key = obs[i].key
                                      => Stamp(j) < Stamp(i)
<1>1. Sound(Judged(i, now), admitted) /\ admitted \subseteq Ids /\ KeysOrdered
  BY JudgedSound DEF IInv, KeysOrdered
<1>2. OrderRefusal(i, Judged(i, now)) = "ok" /\ ContentRefusal(i, Judged(i, now), now) = "ok"
  BY DEF Accepted
<1>3. CASE obs[i].kind = "semantic"
  <2>1. i \notin Judged(i, now).sem
    BY <1>2, <1>3 DEF OrderRefusal
  <2>2. obs[i].interp \in Judged(i, now).int
    BY <1>2, <1>3 DEF ContentRefusal, SemanticRefusal
  <2> QED
    BY <1>1, <1>3, <2>1, <2>2 DEF Sound, CutForGood
<1>4. CASE obs[i].kind # "semantic"
  <2>1. ASSUME NEW j \in admitted, obs[j].kind # "semantic", obs[j].key = obs[i].key
        PROVE  Stamp(j) < Stamp(i)
    <3> DEFINE last == last_by_key[obs[i].key]
    <3>1. obs[i].key \in DOMAIN last_by_key /\ Stamp(j) <= Stamp(last) /\ last \in admitted
      BY <1>1, <2>1 DEF KeysOrdered
    <3>2. Stamp(i) \in Nat /\ Stamp(j) \in Nat /\ Stamp(last) \in Nat
      BY <1>1, <3>1, StampType
    <3>3. ~(Stamp(i) < Stamp(last)) /\ Stamp(i) # Stamp(last)
      BY <1>2, <1>4, <3>1 DEF OrderRefusal
    <3> QED
      BY <3>1, <3>2, <3>3
  <2>2. i \notin admitted
    <3> SUFFICES ASSUME i \in admitted PROVE FALSE
      OBVIOUS
    <3>1. Stamp(i) < Stamp(i)
      BY <1>4, <2>1
    <3> QED
      BY <3>1, StampType
  <2> QED
    BY <1>4, <2>1, <2>2
<1> QED
  BY <1>3, <1>4

\* What the boundary refers to after an admission.
LEMMA RememberedSound ==
    ASSUME IInv, NEW i \in Ids, NEW now \in Nat, Accepted(i, now),
           NEW q, q = Remembered(i, Judged(i, now), now)
    PROVE  /\ Sound(q, admitted \cup {i})
           /\ \A s \in Seals : q.auth[s] \subseteq Judged(i, now).auth[s]
           /\ q.sem \subseteq semantics \cup {i}
           /\ obs[i].kind # "semantic" => q.sem \subseteq semantics
<1> DEFINE r == Judged(i, now)
           p == _purge_visual_sources(r, now)
<1>1. /\ Sound(r, admitted) /\ r \in RefSet /\ r.sem \subseteq semantics
      /\ obs[i].kind # "semantic" => r.sem = semantics
  BY JudgedSound DEF Sound
<1>2. q = CASE obs[i].kind = "visual" -> _remember_visual_source(p, i)
            [] obs[i].kind = "depth" -> _remember_depth_source(p, i)
            [] obs[i].kind = "interpretation" -> _remember_visual_interpretation(p, i)
            [] obs[i].kind = "semantic" -> [p EXCEPT !.sem = @ \cup {i}]
            [] OTHER -> p
  BY DEF Remembered
<1>3. p = _purge_visual_sources(r, now) /\ r = Judged(i, now)
  OBVIOUS
<1>4. obs[i] \in Observation
  BY EvidenceAssumption DEF obs
<1> HIDE DEF r, p
<1>5. Sound(p, admitted)
  BY <1>1, <1>3, PurgeSound
<1>6. /\ p \in RefSet
      /\ p.vis = {x \in r.vis : obs[x].at >= now - Ttl}
      /\ p.int = {x \in r.int : obs[x].frame \in p.vis}
      /\ p.sem = {x \in r.sem : obs[x].frame \in p.vis /\ obs[x].interp \in p.int}
      /\ \A s \in Seals : p.auth[s] \subseteq r.auth[s]
  BY <1>1, <1>3, PurgeFields
<1>7. p.sem \subseteq semantics
  BY <1>1, <1>6
<1>8. i \notin admitted /\ ContentRefusal(i, r, now) = "ok" /\ TimeRefusal(i, now) = "ok"
      /\ OrderRefusal(i, r) = "ok"
  BY <1>3, AcceptedIsNew DEF Accepted
<1>9. CASE obs[i].kind = "visual"
  <2>1. q = _remember_visual_source(p, i)
    BY <1>2, <1>9
  <2>2. Sound(q, admitted \cup {i}) /\ \A s \in Seals : q.auth[s] \subseteq p.auth[s]
    BY <1>5, <1>9, <2>1, RememberVisualSound
  <2>3. q.sem \subseteq p.sem
    <3>1. q.sem = {x \in p.sem : obs[x].frame \notin
                      (p.vis \cup {i}) \ Bounded(p.vis \cup {i})}
      BY <1>6, <2>1 DEF _remember_visual_source, RefSet
    <3> QED
      BY <3>1
  <2> QED
    BY <1>3, <1>6, <1>7, <2>2, <2>3
<1>10. CASE obs[i].kind = "depth"
  <2>1. q = _remember_depth_source(p, i)
    BY <1>2, <1>10
  <2>2. Sound(q, admitted \cup {i}) /\ \A s \in Seals : q.auth[s] \subseteq p.auth[s]
    BY <1>5, <1>10, <2>1, RememberDepthSound
  <2>3. q.sem = p.sem
    BY <1>6, <2>1 DEF _remember_depth_source, RefSet
  <2> QED
    BY <1>3, <1>6, <1>7, <2>2, <2>3
<1>11. CASE obs[i].kind = "interpretation"
  <2>1. q = _remember_visual_interpretation(p, i)
    BY <1>2, <1>11
  <2>2. obs[i].frame \in r.vis /\ obs[obs[i].frame].at = obs[i].at
    BY <1>8, <1>11 DEF ContentRefusal, InterpretationRefusal
  <2>3. obs[i].at >= now - Ttl
    BY <1>4, <1>8, BoundsAssumption DEF TimeRefusal, Observation
  <2>4. obs[i].frame \in p.vis
    BY <1>6, <2>2, <2>3
  <2>5. Sound(q, admitted \cup {i}) /\ \A s \in Seals : q.auth[s] \subseteq p.auth[s]
    BY <1>5, <1>8, <1>11, <2>1, <2>4, RememberInterpretationSound
  <2>6. q.sem \subseteq p.sem
    <3>1. q.sem = {x \in p.sem : obs[x].interp \in Bounded(p.int \cup {i})}
      BY <1>6, <2>1 DEF _remember_visual_interpretation, RefSet
    <3> QED
      BY <3>1
  <2> QED
    BY <1>3, <1>6, <1>7, <2>5, <2>6
<1>12. CASE obs[i].kind = "semantic"
  <2>1. q = [p EXCEPT !.sem = p.sem \cup {i}]
    BY <1>2, <1>12
  <2>2. i \notin r.sem /\ ~(Cardinality(r.sem) >= Capacity)
    BY <1>8, <1>12 DEF OrderRefusal
  <2>3. /\ obs[i].frame \in r.vis /\ obs[i].interp \in r.int
        /\ obs[obs[i].interp].frame = obs[i].frame
    BY <1>8, <1>12 DEF ContentRefusal, SemanticRefusal
  <2>4. r.vis = {x \in r.vis : obs[x].at >= now - Ttl}
    <3>1. Popped(i) \in RefSet
      BY JudgedSound DEF Sound
    <3>2. r = _purge_visual_sources(Popped(i), now)
      BY <1>3, <1>12 DEF Judged
    <3>3. r.vis = {x \in Popped(i).vis : obs[x].at >= now - Ttl}
      BY <3>1, <3>2, PurgeFields
    <3> QED
      BY <3>3
  <2>5. p.vis = r.vis /\ obs[i].interp \in p.int
    BY <1>6, <2>3, <2>4
  <2>6. i \notin p.sem /\ Cardinality(p.sem) < Capacity
    <3>1. p.sem \subseteq r.sem /\ IsFiniteSet(r.sem)
      BY <1>1, <1>6 DEF Sound, WithinCapacity, Small
    <3>2. /\ IsFiniteSet(p.sem) /\ Cardinality(p.sem) <= Cardinality(r.sem)
          /\ Cardinality(p.sem) \in Nat /\ Cardinality(r.sem) \in Nat
      BY <3>1, FS_Subset, FS_CardinalityType
    <3> QED
      BY <2>2, <3>1, <3>2, BoundsAssumption
  <2>7. Sound(q, admitted \cup {i}) /\ \A s \in Seals : q.auth[s] \subseteq p.auth[s]
    BY <1>5, <1>12, <2>1, <2>3, <2>5, <2>6, RememberSemanticSound
  <2>8. q.sem = p.sem \cup {i}
    BY <1>6, <2>1 DEF RefSet
  <2> QED
    BY <1>3, <1>6, <1>7, <1>12, <2>7, <2>8
<1>13. CASE obs[i].kind \notin {"visual", "depth", "interpretation", "semantic"}
  <2>1. q = p
    BY <1>2, <1>13
  <2>2. Sound(p, admitted \cup {i})
    BY <1>5, <1>13 DEF Sound, Grounded, CutForGood
  <2> QED
    BY <1>3, <1>6, <1>7, <2>1, <2>2
<1> QED
  BY <1>9, <1>10, <1>11, <1>12, <1>13

\* The order of a key after one more admission under it.
LEMMA OneMoreAdmission ==
    ASSUME IInv, NEW i \in Ids, NEW now, Accepted(i, now),
           last_by_key' = (IF obs[i].kind = "semantic" THEN last_by_key
                           ELSE [k \in DOMAIN last_by_key \cup {obs[i].key} |->
                                   IF k = obs[i].key THEN i ELSE last_by_key[k]]),
           admitted' = admitted \cup {i}
    PROVE  /\ KeysOrdered'
           /\ \A k \in DOMAIN last_by_key' :
                 ( k \in DOMAIN last_by_key => last_by_key'[k] # last_by_key[k] )
                 => last_by_key'[k] = i
<1>1. KeysOrdered /\ admitted \subseteq Ids /\ i \notin admitted
  BY AcceptedIsNew DEF IInv, KeysOrdered
<1>2. CASE obs[i].kind = "semantic"
  BY <1>1, <1>2 DEF KeysOrdered
<1>3. CASE obs[i].kind # "semantic"
  <2>1. \A j \in admitted : obs[j].kind # "semantic" /\ obs[j].key = obs[i].key
                             => Stamp(j) < Stamp(i)
    BY <1>3, AcceptedIsNew
  <2>2. /\ DOMAIN last_by_key' = DOMAIN last_by_key \cup {obs[i].key}
        /\ last_by_key'[obs[i].key] = i
        /\ \A k \in DOMAIN last_by_key : k # obs[i].key => last_by_key'[k] = last_by_key[k]
    BY <1>3
  <2>3. \A j \in admitted \cup {i} : Stamp(j) \in Nat
    BY <1>1, StampType
  <2>4. ASSUME NEW k \in DOMAIN last_by_key'
        PROVE  /\ last_by_key'[k] \in admitted' /\ obs[last_by_key'[k]].key = k
               /\ obs[last_by_key'[k]].kind # "semantic"
    BY <1>1, <1>3, <2>2 DEF KeysOrdered
  <2>5. ASSUME NEW j \in admitted', obs[j].kind # "semantic"
        PROVE  /\ obs[j].key \in DOMAIN last_by_key'
               /\ Stamp(j) <= Stamp(last_by_key'[obs[j].key])
    <3>1. CASE j = i
      BY <2>2, <2>3, <3>1
    <3>2. CASE j \in admitted /\ obs[j].key = obs[i].key
      BY <2>1, <2>2, <2>3, <2>5, <3>2
    <3>3. CASE j \in admitted /\ obs[j].key # obs[i].key
      BY <1>1, <2>2, <2>5, <3>3 DEF KeysOrdered
    <3> QED
      BY <3>1, <3>2, <3>3
  <2>6. ASSUME NEW j \in admitted', NEW l \in admitted', j # l, obs[j].kind # "semantic",
               obs[l].kind # "semantic", obs[j].key = obs[l].key
        PROVE  Stamp(j) # Stamp(l)
    <3>1. CASE j = i
      BY <2>1, <2>3, <2>6, <3>1
    <3>2. CASE l = i
      BY <2>1, <2>3, <2>6, <3>2
    <3>3. CASE j \in admitted /\ l \in admitted
      BY <1>1, <2>6, <3>3 DEF KeysOrdered
    <3> QED
      BY <3>1, <3>2, <3>3
  <2>7. admitted' \subseteq Ids
    BY <1>1
  <2>8. KeysOrdered'
    BY <2>4, <2>5, <2>6, <2>7 DEF KeysOrdered
  <2> QED
    BY <2>2, <2>8
<1> QED
  BY <1>2, <1>3

LEMMA AdmitStep ==
    ASSUME IInv, NEW i \in Ids, NEW now \in 0..MaxTime, NEW receipt \in 0..MaxReceipt,
           admit(i, now, receipt)
    PROVE  IInv' /\ OnceStep
<1>1. Clocks'
  BY DEF admit, IInv, Clocks
<1>2. CASE receipt < last_receipt \/ obs[i].refused
  <2>1. UNCHANGED <<sources, authorized, last_by_key, admitted>>
    BY <1>2 DEF admit
  <2>2. Refs' = Refs
    BY <2>1 DEF Refs, sources
  <2>3. Sound(Refs, admitted)'
    BY <2>1, <2>2 DEF IInv, Sound, Kinds, WithinCapacity, Chains, Grounded, CutForGood
  <2>4. KeysOrdered' /\ FusionGrounded'
    BY <2>1 DEF IInv, KeysOrdered, FusionGrounded
  <2> QED
    BY <1>1, <2>1, <2>3, <2>4 DEF IInv, OnceStep, sources
<1>3. CASE ~(receipt < last_receipt \/ obs[i].refused) /\ ~Accepted(i, now)
  <2>1. PICK r \in {Judged(i, now), Popped(i)} :
            Install(r) /\ UNCHANGED <<last_by_key, admitted>>
    BY <1>3 DEF admit, Accepted, Judged, Popped
  <2>2. Sound(r, admitted) /\ r \in RefSet
    BY <2>1, JudgedSound DEF Sound
  <2>3. Refs' = r
    BY <2>1, <2>2, InstallRefs
  <2>4. Sound(Refs, admitted)'
    BY <2>1, <2>2, <2>3 DEF Sound, Kinds, WithinCapacity, Chains, Grounded, CutForGood
  <2>5. KeysOrdered' /\ FusionGrounded'
    BY <2>1 DEF IInv, KeysOrdered, FusionGrounded
  <2>6. r.sem \subseteq semantics
    <3>1. Popped(i).sem \subseteq semantics
      <4>1. Sound(Refs, admitted) /\ Refs.sem = semantics
        BY DEF IInv, Refs
      <4> QED
        BY <4>1, ConsumedSound DEF Popped
    <3> QED
      BY <2>1, <3>1, JudgedSound
  <2>7. semantics' \subseteq semantics
    BY <2>1, <2>6 DEF Install
  <2>8. OnceStep
    BY <2>1, <2>7 DEF OnceStep
  <2> QED
    BY <1>1, <2>4, <2>5, <2>8 DEF IInv
<1>4. CASE ~(receipt < last_receipt \/ obs[i].refused) /\ Accepted(i, now)
  <2>1. /\ Install(Remembered(i, Judged(i, now), now))
        /\ last_by_key' = (IF obs[i].kind = "semantic" THEN last_by_key
                           ELSE [k \in DOMAIN last_by_key \cup {obs[i].key} |->
                                   IF k = obs[i].key THEN i ELSE last_by_key[k]])
        /\ admitted' = admitted \cup {i}
    BY <1>4 DEF admit, Accepted, Judged, Popped
  <2> DEFINE q == Remembered(i, Judged(i, now), now)
  <2>2. now \in Nat
    BY BoundsAssumption
  <2>3. /\ Sound(q, admitted \cup {i}) /\ q.sem \subseteq semantics \cup {i}
        /\ \A s \in Seals : q.auth[s] \subseteq Judged(i, now).auth[s]
    BY <1>4, <2>2, RememberedSound
  <2>4. Install(q)
    BY <2>1
  <2> HIDE DEF q
  <2>5. Refs' = q
    BY <2>3, <2>4, InstallRefs DEF Sound
  <2>6. Sound(Refs, admitted)'
    BY <2>1, <2>3, <2>5 DEF Sound, Kinds, WithinCapacity, Chains, Grounded, CutForGood
  <2>7. /\ KeysOrdered'
        /\ \A k \in DOMAIN last_by_key' :
              ( k \in DOMAIN last_by_key => last_by_key'[k] # last_by_key[k] )
              => last_by_key'[k] = i
    BY <1>4, <2>1, OneMoreAdmission
  <2>8. i \notin admitted
    BY <1>4, AcceptedIsNew
  <2>9. obs[i].kind = "fused" => obs[i].frame \in admitted /\ obs[i].depth \in admitted
    <3>1. SealRefusal(i) = "ok"
      BY <1>4 DEF Accepted
    <3>2. obs[i].kind = "fused" => i \in authorized["fused"]
      BY <3>1, EvidenceAssumption DEF SealRefusal, obs
    <3> QED
      BY <3>2 DEF IInv, Sound, Grounded, Refs
  <2>10. FusionGrounded'
    BY <2>1, <2>9 DEF IInv, FusionGrounded
  <2>11. obs[i].seal # "none" => i \notin authorized'[obs[i].seal]
    <3>1. ~obs[i].mismatch
      BY <1>4 DEF Accepted, SealRefusal
    <3>2. obs[i].seal # "none" => i \notin Judged(i, now).auth[obs[i].seal]
      BY <3>1, JudgedSound
    <3>3. obs[i].seal \in Seals \cup {"none"}
      BY EvidenceAssumption DEF Observation, obs, Seals
    <3> QED
      BY <2>3, <2>4, <3>2, <3>3 DEF Install
  <2>12. semantics' \subseteq semantics \cup {i}
    BY <2>3, <2>4 DEF Install
  <2>13. OnceStep
    BY <2>1, <2>7, <2>8, <2>11, <2>12 DEF OnceStep
  <2> QED
    BY <1>1, <2>6, <2>7, <2>10, <2>13 DEF IInv
<1> QED
  BY <1>2, <1>3, <1>4

LEMMA NextIInv == IInv /\ [Next]_vars => IInv' /\ (OnceStep \/ UNCHANGED vars)
<1> SUFFICES ASSUME IInv, [Next]_vars PROVE IInv' /\ (OnceStep \/ UNCHANGED vars)
  OBVIOUS
<1>1. CASE \E i \in Ids : \/ authorize_sealed(i) \/ authorize_evaluated_visual(i)
                         \/ authorize_rgbd_fusion(i)
  BY <1>1, AuthorizeStep
<1>2. CASE \E i \in Ids, now \in 0..MaxTime, receipt \in 0..MaxReceipt :
              admit(i, now, receipt) \/ report_failure(i, now, receipt)
  BY <1>2, AdmitStep DEF report_failure
<1>3. CASE reset
  <2>1. Fresh'
    BY <1>3 DEF reset, Fresh
  <2>2. Refs' = [vis |-> {}, dep |-> {}, int |-> {}, sem |-> {}, auth |-> [s \in Seals |-> {}]]
        /\ admitted' = {}
    BY <2>1 DEF Fresh, Refs
  <2>3. Sound(Refs', {})
    BY <2>2, FreshSound
  <2>4. Sound(Refs, admitted)'
    BY <2>2, <2>3 DEF Sound, Kinds, WithinCapacity, Chains, Grounded, CutForGood
  <2>5. KeysOrdered' /\ FusionGrounded' /\ Clocks'
    BY <2>1 DEF Fresh, KeysOrdered, FusionGrounded, Clocks
  <2>6. OnceStep
    BY <2>1 DEF Fresh, OnceStep
  <2> QED
    BY <2>4, <2>5, <2>6 DEF IInv
<1>4. CASE UNCHANGED vars
  <2>1. Refs' = Refs /\ admitted' = admitted
    BY <1>4 DEF Refs, vars
  <2>2. Sound(Refs, admitted)'
    BY <2>1 DEF IInv, Sound, Kinds, WithinCapacity, Chains, Grounded, CutForGood
  <2>3. KeysOrdered' /\ FusionGrounded' /\ Clocks'
    BY <1>4 DEF IInv, vars, KeysOrdered, FusionGrounded, Clocks
  <2> QED
    BY <1>4, <2>2, <2>3 DEF IInv
<1> QED
  BY <1>1, <1>2, <1>3, <1>4 DEF Next

\* The inductive invariant of the boundary.
LEMMA SpecIInv == Spec => []IInv
BY InitIInv, NextIInv, PTL DEF Spec

--------------------------------------------------------------------------------
(* The theorems. *)

\* Through expiry, eviction and refusal the boundary's references are of their
\* kind and within MAX_VISUAL_SOURCE_REFERENCES, the chain from a semantic
\* observation to its frame is whole, and fused evidence is of admitted frames.
THEOREM ReferencesStayGrounded == Spec => []ReferencesGrounded
<1>1. IInv => TypeOK
  <2> SUFFICES ASSUME IInv PROVE TypeOK
    OBVIOUS
  <2>1. Kinds(Refs) /\ WithinCapacity(Refs) /\ Clocks
    BY DEF IInv, Sound
  <2> QED
    BY <2>1 DEF TypeOK, Kinds, WithinCapacity, Small, Refs, Clocks
<1>2. IInv => ChainsWhole
  BY DEF IInv, Sound, Chains, Refs, ChainsWhole
<1>3. IInv => ReferencesGrounded
  BY <1>1, <1>2 DEF IInv, ReferencesGrounded
<1> QED
  BY <1>3, SpecIInv, PTL

\* Of one state key the admitted evidence has different times and the one admit
\* recorded last is the newest.
THEOREM AdmissionsStayOrdered == Spec => []AdmissionsOrdered
<1>1. IInv => AdmissionsOrdered
  BY DEF IInv, KeysOrdered, AdmissionsOrdered
<1> QED
  BY <1>1, SpecIInv, PTL

\* Nothing is admitted twice in an epoch, and an authorization admits once.
THEOREM NothingTwice == Spec => AdmittedOnce
<1>1. IInv /\ [Next]_vars =>
        [ /\ \A i \in semantics' \ semantics : i \notin admitted
          /\ \A k \in DOMAIN last_by_key' :
                ( k \in DOMAIN last_by_key => last_by_key'[k] # last_by_key[k] )
                => last_by_key'[k] \notin admitted
          /\ \A i \in Ids : obs[i].seal # "none" /\ i \in admitted' \ admitted
                => i \notin authorized'[obs[i].seal] ]_vars
  BY NextIInv DEF OnceStep
<1> QED
  BY <1>1, SpecIInv, PTL DEF Spec, AdmittedOnce
================================================================================
