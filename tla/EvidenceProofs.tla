----------------------------- MODULE EvidenceProofs -----------------------------
(***************************************************************************)
(* Proofs about WorkingMemory, for any evidence, retention and capacities, *)
(* and about Consolidation above it.                                       *)
(***************************************************************************)
EXTENDS Consolidation, FiniteSetTheorems, WellFoundedInduction, TLAPS

\* The two orders as relations, and the n last elements of a set by a relation.
EarlierR == {p \in Ids \X Ids : Earlier(p[1], p[2])}
EarlierResultR == {p \in Ids \X Ids : EarlierResult(p[1], p[2])}

After(S, R, i) == {j \in S : <<i, j>> \in R}
Last(S, n, R) == {i \in S : Cardinality(After(S, R, i)) < n}

Strict(S, R) == /\ \A x \in S : <<x, x>> \notin R
                /\ \A x, y, z \in S : <<x, y>> \in R /\ <<y, z>> \in R => <<x, z>> \in R
Linear(S, R) == \A x, y \in S : x = y \/ <<x, y>> \in R \/ <<y, x>> \in R

--------------------------------------------------------------------------------
(* The last elements of a set. *)

LEMMA LeastNumber ==
    ASSUME NEW S, S \subseteq Nat, S # {}
    PROVE  \E x \in S : \A y \in S : x <= y
<1> DEFINE R == {p \in Nat \X Nat : p[1] < p[2]}
<1>1. IsWellFoundedOn(R, Nat)
  BY NatLessThanWellFounded DEF OpToRel
<1>2. PICK x \in S : \A y \in S : ~ (<<y, x>> \in R)
  <2> HIDE DEF R
  <2> QED
    BY <1>1, WFMin
<1>3. ASSUME NEW y \in S PROVE x <= y
  <2>1. x \in Nat /\ y \in Nat /\ <<y, x>> \in Nat \X Nat
    OBVIOUS
  <2>2. ~ (<<y, x>> \in R)
    BY <1>2
  <2>3. ~ (y < x)
    BY <2>1, <2>2
  <2> QED
    BY <2>1, <2>3
<1> QED
  BY <1>3

LEMMA AfterIsFinite ==
    ASSUME NEW S, IsFiniteSet(S), NEW R, NEW i
    PROVE  /\ After(S, R, i) \subseteq S /\ IsFiniteSet(After(S, R, i))
           /\ Cardinality(After(S, R, i)) \in Nat
<1>1. After(S, R, i) \subseteq S
  BY DEF After
<1> QED
  BY <1>1, FS_Subset, FS_CardinalityType

\* Fewer elements come after a later one.
LEMMA FewerAfter ==
    ASSUME NEW S, IsFiniteSet(S), NEW R, Strict(S, R), NEW x \in S, NEW y \in S,
           <<x, y>> \in R
    PROVE  Cardinality(After(S, R, y)) < Cardinality(After(S, R, x))
<1> DEFINE A == After(S, R, x)
           B == After(S, R, y)
<1>1. B \subseteq A /\ y \in A /\ y \notin B
  BY DEF After, Strict
<1>2. /\ IsFiniteSet(A) /\ IsFiniteSet(B)
      /\ Cardinality(A) \in Nat /\ Cardinality(B) \in Nat
  BY AfterIsFinite
<1> HIDE DEF A, B
<1>3. Cardinality(B) <= Cardinality(A) /\ Cardinality(A \ {y}) = Cardinality(A) - 1
  BY <1>1, <1>2, FS_Subset, FS_RemoveElement
<1>4. B \subseteq A \ {y} /\ IsFiniteSet(A \ {y})
  BY <1>1, <1>2, FS_RemoveElement
<1>5. Cardinality(B) <= Cardinality(A \ {y})
  BY <1>4, FS_Subset
<1>6. Cardinality(B) < Cardinality(A)
  BY <1>2, <1>3, <1>5
<1> QED
  BY <1>6 DEF A, B

\* The n last elements are n at most.
LEMMA LastAreFew ==
    ASSUME NEW S, IsFiniteSet(S), NEW R, Strict(S, R), Linear(S, R), NEW n \in Nat \ {0}
    PROVE  /\ Last(S, n, R) \subseteq S /\ IsFiniteSet(Last(S, n, R))
           /\ Cardinality(Last(S, n, R)) <= n
<1> DEFINE N == Last(S, n, R)
<1>1. N \subseteq S
  BY DEF Last
<1>2. IsFiniteSet(N)
  BY <1>1, FS_Subset
<1>3. CASE N = {}
  BY <1>1, <1>2, <1>3, FS_EmptySet
<1>4. CASE N # {}
  <2> DEFINE C == {n - Cardinality(After(S, R, x)) : x \in N}
  <2>1. \A x \in N : Cardinality(After(S, R, x)) \in Nat /\ Cardinality(After(S, R, x)) < n
    BY AfterIsFinite DEF Last
  <2>2. C \subseteq Nat /\ C # {}
    BY <1>4, <2>1
  <2>3. PICK c \in C : \A d \in C : c <= d
    <3> HIDE DEF C
    <3> QED
      BY <2>2, LeastNumber
  <2>4. PICK m \in N : c = n - Cardinality(After(S, R, m))
    BY <2>3
  <2>5. ASSUME NEW y \in N, y # m PROVE y \in After(S, R, m)
    <3>1. y \in S /\ m \in S
      BY <1>1
    <3>2. n - Cardinality(After(S, R, m)) <= n - Cardinality(After(S, R, y))
      BY <2>3, <2>4
    <3>3. ~ (Cardinality(After(S, R, m)) < Cardinality(After(S, R, y)))
      BY <2>1, <3>2
    <3>4. <<y, m>> \notin R
      BY <3>1, <3>3, FewerAfter
    <3> QED
      BY <2>5, <3>1, <3>4 DEF Linear, After
  <2> HIDE DEF N
  <2>6. N \ {m} \subseteq After(S, R, m)
    BY <2>5
  <2>7. /\ IsFiniteSet(After(S, R, m)) /\ Cardinality(After(S, R, m)) \in Nat
        /\ Cardinality(After(S, R, m)) < n
    BY <2>1, AfterIsFinite
  <2>8. IsFiniteSet(N \ {m}) /\ Cardinality(N \ {m}) = Cardinality(N) - 1
    BY <1>2, FS_RemoveElement
  <2>9. Cardinality(N \ {m}) <= Cardinality(After(S, R, m))
    BY <2>6, <2>7, FS_Subset
  <2>10. Cardinality(N) \in Nat
    BY <1>2, FS_CardinalityType
  <2>11. Cardinality(N) <= n
    BY <2>7, <2>8, <2>9, <2>10
  <2> QED
    BY <1>1, <1>2, <2>11 DEF N
<1> QED
  BY <1>3, <1>4

\* One more element among the last n: the rest of the set makes no difference.
LEMMA LastWithOneMore ==
    ASSUME NEW S, IsFiniteSet(S), NEW i, NEW R, Strict(S \cup {i}, R), NEW n \in Nat \ {0}
    PROVE  /\ Last(Last(S, n, R) \cup {i}, n, R) \subseteq Last(S \cup {i}, n, R)
           /\ Last(S \cup {i}, n, R) \subseteq Last(Last(S, n, R) \cup {i}, n, R)
<1> DEFINE N == Last(S, n, R)
           T == S \cup {i}
           M == N \cup {i}
<1>1. IsFiniteSet(T) /\ IsFiniteSet(S) /\ N \subseteq S /\ IsFiniteSet(N)
  <2>1. N \subseteq S
    BY DEF Last
  <2> QED
    BY <2>1, FS_AddElement, FS_Subset
<1>2. IsFiniteSet(M) /\ M \subseteq T
  BY <1>1, FS_AddElement
<1>3. ASSUME NEW x \in Last(T, n, R) PROVE x \in Last(M, n, R)
  <2>1. x \in T /\ Cardinality(After(T, R, x)) < n
    BY <1>3 DEF Last
  <2>2. After(S, R, x) \subseteq After(T, R, x) /\ After(M, R, x) \subseteq After(T, R, x)
    BY <1>2 DEF After
  <2>3. /\ Cardinality(After(S, R, x)) <= Cardinality(After(T, R, x))
        /\ Cardinality(After(M, R, x)) <= Cardinality(After(T, R, x))
        /\ Cardinality(After(S, R, x)) \in Nat /\ Cardinality(After(M, R, x)) \in Nat
        /\ Cardinality(After(T, R, x)) \in Nat
    <3> HIDE DEF N, T, M
    <3> QED
      BY <1>1, <1>2, <2>2, AfterIsFinite, FS_Subset
  <2>4. Cardinality(After(S, R, x)) < n /\ Cardinality(After(M, R, x)) < n
    BY <2>1, <2>3
  <2>5. x \in M
    BY <2>1, <2>4 DEF Last
  <2> QED
    BY <2>4, <2>5 DEF Last
<1>4. ASSUME NEW x \in Last(M, n, R) PROVE x \in Last(T, n, R)
  <2>1. x \in M /\ x \in T /\ Cardinality(After(M, R, x)) < n
    BY <1>2, <1>4 DEF Last
  <2> DEFINE D == {j \in S \ N : <<x, j>> \in R}
  <2>2. CASE D = {}
    <3>1. After(T, R, x) \subseteq After(M, R, x)
      BY <1>1, <2>2 DEF After
    <3>2. /\ Cardinality(After(T, R, x)) <= Cardinality(After(M, R, x))
          /\ Cardinality(After(T, R, x)) \in Nat /\ Cardinality(After(M, R, x)) \in Nat
      <4> HIDE DEF N, T, M
      <4> QED
        BY <1>1, <1>2, <3>1, AfterIsFinite, FS_Subset
    <3>3. Cardinality(After(T, R, x)) < n
      BY <2>1, <3>2
    <3> QED
      BY <2>1, <3>3 DEF Last
  <2>3. CASE D # {}
    <3> DEFINE C == {Cardinality(After(S, R, j)) : j \in D}
    <3>1. C \subseteq Nat /\ C # {}
      <4>1. \A j \in D : Cardinality(After(S, R, j)) \in Nat
        BY AfterIsFinite
      <4> HIDE DEF D
      <4> QED
        BY <2>3, <4>1
    <3>2. PICK c \in C : \A d \in C : c <= d
      <4> HIDE DEF C
      <4> QED
        BY <3>1, LeastNumber
    <3>3. PICK j \in D : c = Cardinality(After(S, R, j))
      BY <3>2
    <3>4. j \in S /\ j \notin N /\ <<x, j>> \in R /\ Cardinality(After(S, R, j)) \in Nat
      BY <3>3, AfterIsFinite
    <3>5. ~ (Cardinality(After(S, R, j)) < n)
      BY <3>4 DEF Last
    <3>6. ASSUME NEW l \in After(S, R, j) PROVE l \in After(M, R, x)
      <4>1. l \in S /\ <<j, l>> \in R
        BY DEF After
      <4>2. <<x, l>> \in R
        BY <2>1, <3>4, <4>1 DEF Strict
      <4>3. l \in N
        <5> SUFFICES ASSUME l \notin N PROVE FALSE
          OBVIOUS
        <5>1. l \in D
          BY <4>1, <4>2
        <5>2. c <= Cardinality(After(S, R, l))
          BY <3>2, <5>1
        <5>3. Strict(S, R)
          BY DEF Strict
        <5>4. Cardinality(After(S, R, l)) < Cardinality(After(S, R, j))
          BY <3>4, <4>1, <5>3, FewerAfter
        <5>5. Cardinality(After(S, R, l)) \in Nat
          BY AfterIsFinite
        <5> QED
          BY <3>3, <3>4, <5>2, <5>4, <5>5
      <4> QED
        BY <4>2, <4>3 DEF After
    <3>7. /\ Cardinality(After(S, R, j)) <= Cardinality(After(M, R, x))
          /\ Cardinality(After(M, R, x)) \in Nat
      <4>1. After(S, R, j) \subseteq After(M, R, x)
        BY <3>6
      <4> HIDE DEF N, T, M
      <4> QED
        BY <1>2, <4>1, AfterIsFinite, FS_Subset
    <3>8. FALSE
      BY <2>1, <3>4, <3>5, <3>7
    <3> QED
      BY <3>8
  <2> QED
    BY <2>2, <2>3
<1> QED
  BY <1>3, <1>4

\* The part of a set that is closed under the order keeps its last elements.
LEMMA LastOfLater ==
    ASSUME NEW S, NEW T, T \subseteq S, NEW R, NEW n,
           \A x \in T, y \in S : <<x, y>> \in R => y \in T
    PROVE  Last(S, n, R) \cap T = Last(T, n, R)
<1>1. \A x \in T : After(S, R, x) = After(T, R, x)
  BY DEF After
<1> QED
  BY <1>1 DEF Last

--------------------------------------------------------------------------------
(* The orders of evidence. *)

LEMMA EvidenceType ==
    ASSUME NEW i \in Ids
    PROVE  /\ i \in Nat /\ obs[i] \in Observation /\ obs[i].at \in Nat /\ obs[i].result \in Nat
           /\ Stamp(i) \in Nat /\ obs[i].at <= obs[i].result
           /\ obs[i].kind # "interpretation" => Stamp(i) = obs[i].at
BY EvidenceAssumption DEF Stamp, Observation, obs

LEMMA EarlierOrders ==
    ASSUME NEW S, S \subseteq Ids
    PROVE  Strict(S, EarlierR) /\ Linear(S, EarlierR)
<1>1. \A x \in S : x \in Ids /\ x \in Nat /\ obs[x].at \in Nat
  BY EvidenceType
<1>2. \A x, y \in S : <<x, y>> \in EarlierR
                       <=> obs[x].at < obs[y].at \/ (obs[x].at = obs[y].at /\ x < y)
  BY <1>1 DEF EarlierR, Earlier
<1>3. Strict(S, EarlierR)
  BY <1>1, <1>2 DEF Strict
<1>4. Linear(S, EarlierR)
  <2> SUFFICES ASSUME NEW x \in S, NEW y \in S, x # y
               PROVE  <<x, y>> \in EarlierR \/ <<y, x>> \in EarlierR
    BY DEF Linear
  <2>1. x < y \/ y < x
    BY <1>1
  <2> QED
    BY <1>1, <1>2, <2>1
<1> QED
  BY <1>3, <1>4

LEMMA EarlierResultOrders ==
    ASSUME NEW S, S \subseteq Ids
    PROVE  Strict(S, EarlierResultR) /\ Linear(S, EarlierResultR)
<1>1. \A x \in S : x \in Ids /\ x \in Nat /\ obs[x].at \in Nat /\ obs[x].result \in Nat
  BY EvidenceType
<1>2. \A x, y \in S : <<x, y>> \in EarlierResultR
          <=> \/ obs[x].at < obs[y].at
              \/ /\ obs[x].at = obs[y].at
                 /\ obs[x].result < obs[y].result \/ (obs[x].result = obs[y].result /\ x < y)
  BY <1>1 DEF EarlierResultR, EarlierResult
<1>3. Strict(S, EarlierResultR)
  BY <1>1, <1>2 DEF Strict
<1>4. Linear(S, EarlierResultR)
  <2> SUFFICES ASSUME NEW x \in S, NEW y \in S, x # y
               PROVE  <<x, y>> \in EarlierResultR \/ <<y, x>> \in EarlierResultR
    BY DEF Linear
  <2>1. x < y \/ y < x
    BY <1>1
  <2> QED
    BY <1>1, <1>2, <2>1
<1> QED
  BY <1>3, <1>4

LEMMA NewestIsLast ==
    ASSUME NEW S, S \subseteq Ids, NEW n
    PROVE  /\ Newest(S, n, Earlier) = Last(S, n, EarlierR)
           /\ Newest(S, n, EarlierResult) = Last(S, n, EarlierResultR)
<1>1. \A i \in S : {j \in S : Earlier(i, j)} = After(S, EarlierR, i)
  BY DEF After, EarlierR
<1>2. \A i \in S : {j \in S : EarlierResult(i, j)} = After(S, EarlierResultR, i)
  BY DEF After, EarlierResultR
<1> QED
  BY <1>1, <1>2 DEF Newest, Last

--------------------------------------------------------------------------------
(* What Working Memory holds. *)

Body == {"robot", "sensor", "visual", "depth", "fused"}

Live(acc, now) == {i \in acc : obs[i].at >= now - Ttl}

\* Everything held was accepted, under keys it speaks of.
Held(cur, sem, acc) ==
    /\ IsFiniteSet(acc) /\ acc \subseteq Ids
    /\ Range(cur) \subseteq acc /\ sem \subseteq acc
    /\ \A k \in DOMAIN cur : k \in obs[cur[k]].keys
    /\ \A i \in sem : obs[i].kind = "semantic"

Window(rec, acc, now) == rec = Last(Live(acc, now), RecentCapacity, EarlierR)

InTime(cur, sem, acc, now) ==
    /\ \A i \in acc : obs[i].at <= now + Skew
    /\ \A i \in Range(cur) \cup sem : obs[i].at >= now - Ttl

\* Of a key of the body the current evidence is the newest accepted, and where
\* there is none all that was accepted has expired.
NewestOfBody(cur, acc, now) ==
    \A i \in acc : obs[i].kind \in Body =>
        \A k \in obs[i].keys :
            \/ k \in DOMAIN cur /\ Stamp(i) <= Stamp(cur[k])
            \/ obs[i].at < now - Ttl

\* A batch has its frame and its interpretation, and these belong together.
Rooted(cur, sem, rec, acc) ==
    /\ \A i \in sem : /\ obs[i].frame \in Retained(cur, rec, "visual")
                      /\ obs[i].interp \in Retained(cur, rec, "interpretation")
    /\ \A i \in acc : obs[i].kind = "semantic" => obs[obs[i].interp].frame = obs[i].frame

EntityKeys(cur) == {k \in DOMAIN cur : obs[cur[k]].kind = "entity"}

Small(S, n) == IsFiniteSet(S) /\ Cardinality(S) <= n

Sane(cur, sem, rec, acc, now) ==
    /\ Held(cur, sem, acc) /\ Window(rec, acc, now) /\ InTime(cur, sem, acc, now)
    /\ NewestOfBody(cur, acc, now) /\ Rooted(cur, sem, rec, acc)
    /\ Small(sem, SemanticCapacity) /\ Small(EntityKeys(cur), EntityCapacity)

LEMMA SmallSubset ==
    ASSUME NEW n \in Nat, NEW S, Small(S, n), NEW T, T \subseteq S
    PROVE  Small(T, n)
<1>1. IsFiniteSet(T) /\ Cardinality(T) <= Cardinality(S)
  BY FS_Subset DEF Small
<1>2. Cardinality(T) \in Nat /\ Cardinality(S) \in Nat
  BY <1>1, FS_CardinalityType DEF Small
<1> QED
  BY <1>1, <1>2 DEF Small

\* Time moves: the window, of what lives, is what the purge leaves of it.
LEMMA WindowMoves ==
    ASSUME NEW acc, acc \subseteq Ids, NEW t \in Int, NEW now \in Int, t <= now,
           NEW rec, Window(rec, acc, t)
    PROVE  Window(Kept(rec, now), acc, now)
<1>1. Ttl \in Int /\ \A i \in acc : obs[i].at \in Nat
  BY EvidenceType, BoundsAssumption
<1> DEFINE S == Live(acc, t)
           T == Live(acc, now)
<1>2. T \subseteq S
  BY <1>1 DEF Live
<1>3. \A x \in T, y \in S : <<x, y>> \in EarlierR => y \in T
  BY <1>1 DEF EarlierR, Earlier, Live
<1>4. Last(S, RecentCapacity, EarlierR) \cap T = Last(T, RecentCapacity, EarlierR)
  <2> HIDE DEF S, T
  <2> QED
    BY <1>2, <1>3, LastOfLater
<1>5. Kept(rec, now) = Last(S, RecentCapacity, EarlierR) \cap T
  <2>1. Last(S, RecentCapacity, EarlierR) \subseteq acc
    BY DEF Last, Live
  <2> QED
    BY <2>1 DEF Window, Kept, Live
<1> QED
  BY <1>4, <1>5 DEF Window

\* What the purge leaves of the current evidence.
LEMMA PurgedCurrentFacts ==
    ASSUME NEW now, NEW cur, cur = PurgedCurrent(now)
    PROVE  /\ \A k \in DOMAIN cur : /\ k \in DOMAIN current /\ cur[k] = current[k]
                                    /\ obs[cur[k]].at >= now - Ttl
           /\ \A k \in DOMAIN current : k \notin DOMAIN cur => ~(obs[current[k]].at >= now - Ttl)
           /\ Range(cur) \subseteq Range(current)
           /\ DOMAIN cur \subseteq DOMAIN current
<1>1. DOMAIN cur = {l \in DOMAIN current : current[l] \in Kept(Range(current), now)}
  BY DEF PurgedCurrent
<1>2. \A k \in DOMAIN cur : cur[k] = current[k]
  BY DEF PurgedCurrent
<1>3. \A k \in DOMAIN current : current[k] \in Range(current)
  BY DEF Range
<1>4. DOMAIN cur \subseteq DOMAIN current
  BY <1>1
<1>5. Range(cur) \subseteq Range(current)
  BY <1>2, <1>4 DEF Range
<1> QED
  BY <1>1, <1>2, <1>3, <1>4, <1>5 DEF Kept

\* Time moves: what _purge_expired leaves is again all that time permits.
LEMMA PurgeSane ==
    ASSUME NEW t \in Int, Sane(current, semantic, recent, accepted, t),
           NEW now \in Int, t <= now,
           NEW cur, cur = PurgedCurrent(now), NEW sem, sem = _purge_expired(now),
           NEW rec, rec = PurgedRecent(now)
    PROVE  Sane(cur, sem, rec, accepted, now)
<1>1. /\ \A k \in DOMAIN cur : /\ k \in DOMAIN current /\ cur[k] = current[k]
                               /\ obs[cur[k]].at >= now - Ttl
      /\ \A k \in DOMAIN current : k \notin DOMAIN cur => ~(obs[current[k]].at >= now - Ttl)
      /\ Range(cur) \subseteq Range(current) /\ DOMAIN cur \subseteq DOMAIN current
  BY PurgedCurrentFacts
<1>2. sem = _drop_orphaned_semantic_evidence(Kept(semantic, now), cur, rec)
  BY DEF _purge_expired
<1>3. /\ \A i \in sem : /\ i \in semantic /\ obs[i].at >= now - Ttl
                        /\ obs[i].frame \in Retained(cur, rec, "visual")
                        /\ obs[i].interp \in Retained(cur, rec, "interpretation")
      /\ sem \subseteq semantic
  BY <1>2 DEF _drop_orphaned_semantic_evidence, Kept
<1>4. Held(cur, sem, accepted)
  BY <1>1, <1>3 DEF Sane, Held
<1>5. Window(rec, accepted, now)
  <2>1. accepted \subseteq Ids /\ Window(recent, accepted, t)
    BY DEF Sane, Held
  <2> QED
    BY <2>1, WindowMoves DEF PurgedRecent
<1>6. InTime(cur, sem, accepted, now)
  <2>1. \A i \in accepted : obs[i].at \in Nat /\ obs[i].at <= t + Skew
    BY EvidenceType DEF Sane, Held, InTime
  <2>2. \A i \in accepted : obs[i].at <= now + Skew
    BY <2>1, BoundsAssumption
  <2>3. \A i \in Range(cur) : obs[i].at >= now - Ttl
    BY <1>1 DEF Range
  <2> QED
    BY <1>3, <2>2, <2>3 DEF InTime
<1>7. NewestOfBody(cur, accepted, now)
  <2> SUFFICES ASSUME NEW i \in accepted, obs[i].kind \in Body, NEW k \in obs[i].keys
               PROVE  \/ k \in DOMAIN cur /\ Stamp(i) <= Stamp(cur[k])
                      \/ obs[i].at < now - Ttl
    BY DEF NewestOfBody
  <2>1. i \in Ids /\ obs[i].at \in Nat /\ Stamp(i) = obs[i].at
    BY EvidenceType DEF Sane, Held, Body
  <2>2. CASE obs[i].at < t - Ttl
    BY <2>1, <2>2, BoundsAssumption
  <2>3. CASE k \in DOMAIN current /\ Stamp(i) <= Stamp(current[k])
    <3>1. current[k] \in Ids /\ k \in obs[current[k]].keys
      BY <2>3 DEF Sane, Held, Range
    <3>2. obs[current[k]].kind # "interpretation"
      BY <2>1, <3>1, EvidenceAssumption DEF Body, obs
    <3>3. obs[current[k]].at \in Nat /\ Stamp(current[k]) = obs[current[k]].at
      BY <3>1, <3>2, EvidenceType
    <3>4. CASE k \in DOMAIN cur
      BY <1>1, <2>3, <3>4
    <3>5. CASE k \notin DOMAIN cur
      BY <1>1, <2>1, <2>3, <3>3, <3>5, BoundsAssumption
    <3> QED
      BY <3>4, <3>5
  <2> QED
    BY <2>2, <2>3 DEF Sane, NewestOfBody
<1>8. Rooted(cur, sem, rec, accepted)
  BY <1>3 DEF Sane, Rooted
<1>9. Small(sem, SemanticCapacity)
  BY <1>3, SmallSubset, BoundsAssumption DEF Sane
<1>10. Small(EntityKeys(cur), EntityCapacity)
  <2>1. EntityKeys(cur) \subseteq EntityKeys(current)
    BY <1>1 DEF EntityKeys
  <2> QED
    BY <2>1, SmallSubset, BoundsAssumption DEF Sane
<1> QED
  BY <1>4, <1>5, <1>6, <1>7, <1>8, <1>9, <1>10 DEF Sane

--------------------------------------------------------------------------------
(* Acceptance. *)

\* What EvictEntities keeps: all of the body, and of the entities the newest.
LEMMA EvictionFacts ==
    ASSUME NEW cur, NEW kept, kept = EvictEntities(cur)
    PROVE  /\ \A k \in DOMAIN kept : k \in DOMAIN cur /\ kept[k] = cur[k]
           /\ Range(kept) \subseteq Range(cur)
           /\ \A k \in DOMAIN cur : obs[cur[k]].kind # "entity" => k \in DOMAIN kept
           /\ \A k \in EntityKeys(kept) :
                 kept[k] \in Newest({i \in Range(cur) : obs[i].kind = "entity"},
                                    EntityCapacity, Earlier)
<1> DEFINE E == Newest({i \in Range(cur) : obs[i].kind = "entity"}, EntityCapacity, Earlier)
<1>1. DOMAIN kept = {l \in DOMAIN cur : obs[cur[l]].kind = "entity" => cur[l] \in E}
  BY DEF EvictEntities
<1>2. \A k \in DOMAIN kept : kept[k] = cur[k]
  BY DEF EvictEntities
<1> HIDE DEF E
<1>3. \A k \in DOMAIN kept : k \in DOMAIN cur
  BY <1>1
<1>4. Range(kept) \subseteq Range(cur)
  BY <1>2, <1>3 DEF Range
<1>5. \A k \in EntityKeys(kept) : kept[k] \in E
  BY <1>1, <1>2 DEF EntityKeys
<1> QED
  BY <1>1, <1>2, <1>3, <1>4, <1>5 DEF E

\* Entities have one key each, so their keys are no more than they are.
LEMMA EntitiesBounded ==
    ASSUME NEW cur, NEW acc, IsFiniteSet(acc), acc \subseteq Ids, Range(cur) \subseteq acc,
           \A k \in DOMAIN cur : k \in obs[cur[k]].keys,
           NEW kept, kept = EvictEntities(cur)
    PROVE  Small(EntityKeys(kept), EntityCapacity)
<1> DEFINE S == {i \in Range(cur) : obs[i].kind = "entity"}
           E == Newest(S, EntityCapacity, Earlier)
           K == EntityKeys(kept)
           f == [k \in K |-> kept[k]]
<1>1. S \subseteq Ids /\ S \subseteq acc
  OBVIOUS
<1>2. IsFiniteSet(S)
  <2> HIDE DEF S
  <2> QED
    BY <1>1, FS_Subset
<1>3. E = Last(S, EntityCapacity, EarlierR) /\ Strict(S, EarlierR) /\ Linear(S, EarlierR)
  <2> HIDE DEF S
  <2> QED
    BY <1>1, NewestIsLast, EarlierOrders
<1>4. EntityCapacity \in Nat \ {0}
  BY BoundsAssumption
<1>5. IsFiniteSet(E) /\ Cardinality(E) <= EntityCapacity
  <2> HIDE DEF S, E
  <2> QED
    BY <1>2, <1>3, <1>4, LastAreFew
<1>6. \A k \in DOMAIN kept : k \in DOMAIN cur /\ kept[k] = cur[k]
  BY EvictionFacts
<1>7. \A k \in K : kept[k] \in E
  BY EvictionFacts
<1>8. \A k \in K : k \in obs[kept[k]].keys /\ kept[k] \in Ids /\ obs[kept[k]].kind = "entity"
  BY <1>6 DEF EntityKeys, Range
<1>9. ASSUME NEW k \in K, NEW l \in K, kept[k] = kept[l] PROVE k = l
  <2>1. kept[k] \in Ids /\ Evidence[kept[k]].kind = "entity"
    BY <1>8 DEF obs
  <2>2. PICK x \in Evidence[kept[k]].keys : Evidence[kept[k]].keys = {x}
    BY <2>1, EvidenceAssumption
  <2>3. k \in {x} /\ l \in {x}
    BY <1>8, <1>9, <2>2 DEF obs
  <2> QED
    BY <2>3
<1> HIDE DEF S, E, K
<1>10. f \in [K -> E] /\ \A k \in K : f[k] = kept[k]
  BY <1>7
<1> HIDE DEF f
<1>11. f \in Injection(K, E)
  BY <1>9, <1>10 DEF Injection, IsInjective
<1>12. IsFiniteSet(K) /\ Cardinality(K) <= Cardinality(E)
  BY <1>5, <1>11, FS_Injection
<1>13. Cardinality(K) \in Nat /\ Cardinality(E) \in Nat
  BY <1>5, <1>12, FS_CardinalityType
<1>14. Cardinality(K) <= EntityCapacity
  BY <1>4, <1>5, <1>12, <1>13
<1> QED
  BY <1>12, <1>14 DEF Small, K

\* The window takes the newest of what lives, i among it.
LEMMA WindowTakes ==
    ASSUME NEW acc, IsFiniteSet(acc), acc \subseteq Ids, NEW now, NEW rec,
           Window(rec, acc, now), NEW i \in Ids, obs[i].at >= now - Ttl
    PROVE  Window(TrimmedRecent(rec, i), acc \cup {i}, now)
<1> DEFINE S == Live(acc, now)
<1>1. S \subseteq acc /\ Live(acc \cup {i}, now) = S \cup {i}
  BY DEF Live
<1>2. rec = Last(S, RecentCapacity, EarlierR)
  BY DEF Window
<1> HIDE DEF S
<1>3. IsFiniteSet(S) /\ S \cup {i} \subseteq Ids
  BY <1>1, FS_Subset
<1>4. rec \subseteq S
  BY <1>2 DEF Last
<1>5. TrimmedRecent(rec, i) = Last(rec \cup {i}, RecentCapacity, EarlierR)
  <2>1. rec \cup {i} \subseteq Ids
    BY <1>3, <1>4
  <2> QED
    BY <2>1, NewestIsLast DEF TrimmedRecent
<1>6. Last(rec \cup {i}, RecentCapacity, EarlierR) = Last(S \cup {i}, RecentCapacity, EarlierR)
  <2>1. Strict(S \cup {i}, EarlierR)
    BY <1>3, EarlierOrders
  <2>2. RecentCapacity \in Nat \ {0}
    BY BoundsAssumption
  <2>3. IsFiniteSet(S)
    BY <1>3
  <2>4. /\ Last(Last(S, RecentCapacity, EarlierR) \cup {i}, RecentCapacity, EarlierR)
              \subseteq Last(S \cup {i}, RecentCapacity, EarlierR)
        /\ Last(S \cup {i}, RecentCapacity, EarlierR)
              \subseteq Last(Last(S, RecentCapacity, EarlierR) \cup {i}, RecentCapacity, EarlierR)
    BY <2>1, <2>2, <2>3, LastWithOneMore
  <2> QED
    BY <1>2, <2>4
<1> QED
  BY <1>1, <1>5, <1>6 DEF Window

\* _accept: with the evidence in its place, the capacities and the orphans.
LEMMA AcceptSane ==
    ASSUME NEW cur, NEW sem, NEW rec, NEW acc, NEW adm, NEW now \in Int, NEW i \in Ids,
           IsFiniteSet(acc), acc \subseteq Ids, adm = acc \cup {i},
           Window(rec, acc, now), obs[i].at >= now - Ttl,
           Held(cur, sem, adm), InTime(cur, sem, adm, now), NewestOfBody(cur, adm, now),
           IsFiniteSet(sem),
           \A j \in adm : obs[j].kind = "semantic" => obs[obs[j].interp].frame = obs[j].frame,
           NEW kept, kept = EvictEntities(cur), NEW win, win = TrimmedRecent(rec, i),
           NEW left, left = _drop_orphaned_semantic_evidence(
                                Newest(sem, SemanticCapacity, EarlierResult), kept, win)
    PROVE  Sane(kept, left, win, adm, now)
<1>1. /\ \A k \in DOMAIN kept : k \in DOMAIN cur /\ kept[k] = cur[k]
      /\ Range(kept) \subseteq Range(cur)
      /\ \A k \in DOMAIN cur : obs[cur[k]].kind # "entity" => k \in DOMAIN kept
  BY EvictionFacts
<1>2. adm \subseteq Ids /\ IsFiniteSet(adm) /\ sem \subseteq adm
  BY DEF Held
<1> DEFINE N == Newest(sem, SemanticCapacity, EarlierResult)
<1>3. N \subseteq sem /\ Small(N, SemanticCapacity)
  <2>1. sem \subseteq Ids /\ SemanticCapacity \in Nat \ {0}
    BY <1>2, BoundsAssumption
  <2>2. N = Last(sem, SemanticCapacity, EarlierResultR)
    BY <2>1, NewestIsLast
  <2> HIDE DEF N
  <2> QED
    BY <2>1, <2>2, LastAreFew, EarlierResultOrders DEF Small
<1> HIDE DEF N
<1>4. left = {j \in N : /\ obs[j].frame \in Retained(kept, win, "visual")
                       /\ obs[j].interp \in Retained(kept, win, "interpretation")}
  BY DEF _drop_orphaned_semantic_evidence, N
<1>5. left \subseteq N
  BY <1>4
<1>6. Held(kept, left, adm)
  BY <1>1, <1>3, <1>5 DEF Held
<1>7. Window(win, adm, now)
  BY WindowTakes
<1>8. InTime(kept, left, adm, now)
  BY <1>1, <1>3, <1>5 DEF InTime
<1>9. NewestOfBody(kept, adm, now)
  <2> SUFFICES ASSUME NEW j \in adm, obs[j].kind \in Body, NEW k \in obs[j].keys,
                      k \in DOMAIN cur, Stamp(j) <= Stamp(cur[k])
               PROVE  k \in DOMAIN kept /\ Stamp(j) <= Stamp(kept[k])
    BY DEF NewestOfBody
  <2>1. cur[k] \in Ids /\ j \in Ids /\ k \in obs[cur[k]].keys
    BY <1>2 DEF Held, Range
  <2>2. obs[cur[k]].kind # "entity"
    BY <2>1, EvidenceAssumption DEF obs, Body
  <2> QED
    BY <1>1, <2>2
<1>10. Rooted(kept, left, win, adm)
  BY <1>4 DEF Rooted
<1>11. Small(left, SemanticCapacity)
  BY <1>3, <1>5, SmallSubset, BoundsAssumption
<1>12. Small(EntityKeys(kept), EntityCapacity)
  BY <1>2, EntitiesBounded DEF Held
<1> QED
  BY <1>6, <1>7, <1>8, <1>9, <1>10, <1>11, <1>12 DEF Sane

\* The evidence in its place: what replaces it as current evidence is newer.
LEMMA PlacedSane ==
    ASSUME NEW cur, NEW sem, NEW acc, NEW now \in Int, NEW i \in Ids,
           Held(cur, sem, acc), InTime(cur, sem, acc, now), NewestOfBody(cur, acc, now),
           obs[i].at >= now - Ttl, obs[i].at <= now + Skew, KeyOrder(i, cur) = "ACCEPTED",
           NEW put, put = Placed(i, cur)
    PROVE  /\ Held(put, sem, acc \cup {i}) /\ InTime(put, sem, acc \cup {i}, now)
           /\ NewestOfBody(put, acc \cup {i}, now)
<1> DEFINE U == Updated(i, cur)
<1>1. put = [k \in DOMAIN cur \cup U |-> IF k \in U THEN i ELSE cur[k]]
  BY DEF Placed
<1>2. U = {k \in obs[i].keys : _compare_current(cur, k, i) \in {"new", "newer"}}
  BY DEF Updated
<1> HIDE DEF U
<1>3. /\ DOMAIN put = DOMAIN cur \cup U
      /\ \A k \in U : put[k] = i /\ k \in obs[i].keys
      /\ \A k \in DOMAIN cur : k \notin U => put[k] = cur[k]
  BY <1>1, <1>2
<1>4. Range(put) \subseteq Range(cur) \cup {i}
  BY <1>3 DEF Range
<1>5. Held(put, sem, acc \cup {i})
  <2>1. IsFiniteSet(acc \cup {i}) /\ acc \cup {i} \subseteq Ids
    BY FS_AddElement DEF Held
  <2>2. Range(put) \subseteq acc \cup {i} /\ sem \subseteq acc \cup {i}
    BY <1>4 DEF Held
  <2>3. \A k \in DOMAIN put : k \in obs[put[k]].keys
    BY <1>3 DEF Held
  <2> QED
    BY <2>1, <2>2, <2>3 DEF Held
<1>6. InTime(put, sem, acc \cup {i}, now)
  BY <1>4 DEF InTime
<1>7. \A k \in DOMAIN cur : cur[k] \in Ids /\ Stamp(cur[k]) \in Nat
  BY EvidenceType DEF Held, Range
<1>8. ASSUME NEW k \in DOMAIN cur, k \in U PROVE Stamp(cur[k]) < Stamp(i)
  <2>1. Stamp(cur[k]) \in Nat /\ Stamp(i) \in Nat
    BY <1>7, EvidenceType
  <2>2. _compare_current(cur, k, i) \in {"new", "newer"}
    BY <1>2, <1>8
  <2> QED
    BY <2>1, <2>2 DEF _compare_current
<1>9. ASSUME NEW k \in obs[i].keys, k \notin U PROVE k \in DOMAIN cur /\ Stamp(i) < Stamp(cur[k])
  <2>1. _compare_current(cur, k, i) \notin {"new", "newer"}
    BY <1>2, <1>9
  <2>2. _compare_current(cur, k, i) # "same_time_conflict"
    BY DEF KeyOrder
  <2> QED
    BY <2>1, <2>2 DEF _compare_current
<1>10. NewestOfBody(put, acc \cup {i}, now)
  <2> SUFFICES ASSUME NEW j \in acc \cup {i}, obs[j].kind \in Body, NEW k \in obs[j].keys
               PROVE  \/ k \in DOMAIN put /\ Stamp(j) <= Stamp(put[k])
                      \/ obs[j].at < now - Ttl
    BY DEF NewestOfBody
  <2>1. Stamp(i) \in Nat
    BY EvidenceType
  <2>2. CASE j = i
    <3>1. CASE k \in U
      BY <1>3, <2>1, <2>2, <3>1
    <3>2. CASE k \notin U
      BY <1>3, <1>7, <1>9, <2>1, <2>2, <3>2
    <3> QED
      BY <3>1, <3>2
  <2>3. CASE j \in acc
    <3>1. Stamp(j) \in Nat
      BY <2>3, EvidenceType DEF Held
    <3>2. CASE obs[j].at < now - Ttl
      BY <3>2
    <3>3. CASE k \in DOMAIN cur /\ Stamp(j) <= Stamp(cur[k])
      <4>1. CASE k \in U
        <5>1. Stamp(cur[k]) < Stamp(i) /\ Stamp(cur[k]) \in Nat /\ put[k] = i /\ k \in DOMAIN put
          BY <1>3, <1>7, <1>8, <3>3, <4>1
        <5> QED
          BY <2>1, <3>1, <3>3, <5>1
      <4>2. CASE k \notin U
        BY <1>3, <3>3, <4>2
      <4> QED
        BY <4>1, <4>2
    <3> QED
      BY <2>3, <3>2, <3>3 DEF NewestOfBody
  <2> QED
    BY <2>2, <2>3
<1> QED
  BY <1>5, <1>6, <1>10

--------------------------------------------------------------------------------
(* The inductive invariant. *)

\* Semantic batches of a source have different result times, up to its watermark.
Marked(marks, acc) ==
    /\ \A s \in DOMAIN marks : marks[s] \in Ids /\ obs[marks[s]].source = s
    /\ \A i \in acc : obs[i].kind = "semantic" =>
          /\ obs[i].source \in DOMAIN marks
          /\ obs[i].result <= obs[marks[obs[i].source]].result
    /\ \A i, j \in acc :
          ( /\ obs[i].kind = "semantic" /\ obs[j].kind = "semantic"
            /\ obs[i].source = obs[j].source
            /\ obs[i].result = obs[j].result ) => i = j

Clocks == /\ last_now \in 0..MaxTime \cup {None}
          /\ last_receipt \in 0..MaxReceipt \cup {None}

IInv == /\ Sane(current, semantic, recent, accepted, last_now)
        /\ Marked(watermarks, accepted) /\ Clocks

\* A batch that is accepted is newer than its source's watermark.
LEMMA MarkedAccept ==
    ASSUME NEW marks, NEW acc, acc \subseteq Ids, Marked(marks, acc), NEW i \in Ids,
           obs[i].kind = "semantic",
           \/ obs[i].source \notin DOMAIN marks
           \/ obs[i].result > obs[marks[obs[i].source]].result,
           NEW next, next = [s \in DOMAIN marks \cup {obs[i].source} |->
                               IF s = obs[i].source THEN i ELSE marks[s]]
    PROVE  Marked(next, acc \cup {i})
<1>1. /\ DOMAIN next = DOMAIN marks \cup {obs[i].source} /\ next[obs[i].source] = i
      /\ \A s \in DOMAIN marks : s # obs[i].source => next[s] = marks[s]
  OBVIOUS
<1>2. \A s \in DOMAIN next : next[s] \in Ids /\ obs[next[s]].source = s
  BY <1>1 DEF Marked
<1>3. obs[i].result \in Nat /\ \A j \in acc : obs[j].result \in Nat
  BY EvidenceType
<1>4. \A s \in DOMAIN marks : obs[marks[s]].result \in Nat
  BY EvidenceType DEF Marked
<1>5. ASSUME NEW j \in acc, obs[j].kind = "semantic", obs[j].source = obs[i].source
      PROVE  obs[j].result < obs[i].result
  <2>1. /\ obs[i].source \in DOMAIN marks
        /\ obs[j].result <= obs[marks[obs[i].source]].result
    BY <1>5 DEF Marked
  <2> QED
    BY <1>3, <1>4, <2>1
<1>6. ASSUME NEW j \in acc \cup {i}, obs[j].kind = "semantic"
      PROVE  obs[j].source \in DOMAIN next /\ obs[j].result <= obs[next[obs[j].source]].result
  <2>1. CASE j = i
    BY <1>1, <1>3, <2>1
  <2>2. CASE j \in acc /\ obs[j].source = obs[i].source
    BY <1>1, <1>3, <1>5, <1>6, <2>2
  <2>3. CASE j \in acc /\ obs[j].source # obs[i].source
    BY <1>1, <1>6, <2>3 DEF Marked
  <2> QED
    BY <2>1, <2>2, <2>3
<1>7. ASSUME NEW j \in acc \cup {i}, NEW l \in acc \cup {i}, obs[j].kind = "semantic",
             obs[l].kind = "semantic", obs[j].source = obs[l].source,
             obs[j].result = obs[l].result
      PROVE  j = l
  <2>1. CASE j \in acc /\ l \in acc
    BY <1>7, <2>1 DEF Marked
  <2>2. CASE j = i /\ l \in acc
    <3>1. obs[l].result < obs[i].result
      BY <1>5, <1>7, <2>2
    <3> QED
      BY <1>3, <1>7, <2>2, <3>1
  <2>3. CASE l = i /\ j \in acc
    <3>1. obs[j].result < obs[i].result
      BY <1>5, <1>7, <2>3
    <3> QED
      BY <1>3, <1>7, <2>3, <3>1
  <2> QED
    BY <2>1, <2>2, <2>3
<1> QED
  BY <1>2, <1>6, <1>7 DEF Marked

LEMMA EmptySane ==
    ASSUME NEW cur, cur = Empty, NEW now \in Int
    PROVE  Sane(cur, {}, {}, {}, now) /\ Marked(cur, {})
<1>1. DOMAIN cur = {} /\ Range(cur) = {} /\ EntityKeys(cur) = {}
  BY DEF Empty, Range, EntityKeys
<1>2. IsFiniteSet({}) /\ Cardinality({}) = 0
  BY FS_EmptySet
<1>3. Live({}, now) = {} /\ Last({}, RecentCapacity, EarlierR) = {}
  BY DEF Live, Last
<1>4. Held(cur, {}, {})
  BY <1>1, <1>2 DEF Held
<1>5. Window({}, {}, now)
  BY <1>3 DEF Window
<1>6. InTime(cur, {}, {}, now) /\ NewestOfBody(cur, {}, now) /\ Rooted(cur, {}, {}, {})
  BY <1>1 DEF InTime, NewestOfBody, Rooted
<1>7. Small({}, SemanticCapacity) /\ Small(EntityKeys(cur), EntityCapacity)
  BY <1>1, <1>2, BoundsAssumption DEF Small
<1>8. Marked(cur, {})
  BY <1>1 DEF Marked
<1> QED
  BY <1>4, <1>5, <1>6, <1>7, <1>8 DEF Sane

LEMMA InitIInv == Init => IInv
<1> SUFFICES ASSUME Init PROVE IInv
  OBVIOUS
<1>1. None \in Int
  BY DEF None
<1>2. Sane(current, {}, {}, {}, None) /\ Marked(watermarks, {})
  BY <1>1, EmptySane DEF Init
<1> QED
  BY <1>2 DEF Init, IInv, Clocks

\* Time moves and nothing is accepted: a query, and an ingest that refuses.
LEMMA PurgeStep ==
    ASSUME IInv, NEW now \in 0..MaxTime, now >= last_now, last_now' = now,
           current' = PurgedCurrent(now), semantic' = _purge_expired(now),
           recent' = PurgedRecent(now), UNCHANGED <<watermarks, accepted>>,
           last_receipt' \in 0..MaxReceipt \cup {None}
    PROVE  IInv'
<1>1. now \in Int /\ last_now \in Int /\ last_now <= now
  BY DEF IInv, Clocks, None
<1>2. Sane(PurgedCurrent(now), _purge_expired(now), PurgedRecent(now), accepted, now)
  BY <1>1, PurgeSane DEF IInv
<1>3. Sane(current', semantic', recent', accepted', last_now')
  BY <1>2
<1>4. Sane(current, semantic, recent, accepted, last_now)'
  BY <1>3 DEF Sane, Held, Window, InTime, NewestOfBody, Rooted, Small
<1>5. Marked(watermarks, accepted)'
  BY DEF IInv, Marked
<1> QED
  BY <1>4, <1>5 DEF IInv, Clocks

LEMMA AcceptStep ==
    ASSUME IInv, NEW i \in Ids, NEW now \in 0..MaxTime, NEW receipt \in 0..MaxReceipt,
           ingest(i, now, receipt), receipt >= last_receipt,
           Verdict(i, now, PurgedCurrent(now), _purge_expired(now), PurgedRecent(now))
               = "ACCEPTED"
    PROVE  IInv'
<1> DEFINE cur == PurgedCurrent(now)
           sem == _purge_expired(now)
           rec == PurgedRecent(now)
<1>1. now \in Int /\ last_now \in Int /\ last_now <= now
  BY DEF ingest, IInv, Clocks, None
<1>2. Sane(cur, sem, rec, accepted, now)
  BY <1>1, PurgeSane DEF IInv
<1>3. /\ Verdict(i, now, cur, sem, rec) = "ACCEPTED" /\ last_now' = now
      /\ IF obs[i].kind = "semantic"
         THEN /\ watermarks' = [s \in DOMAIN watermarks \cup {obs[i].source}
                                  |-> IF s = obs[i].source THEN i ELSE watermarks[s]]
              /\ _accept(i, cur, sem \cup {i}, rec)
         ELSE /\ _accept(i, Placed(i, cur), sem, rec)
              /\ UNCHANGED watermarks
      /\ last_receipt' = receipt
  BY DEF ingest
<1> HIDE DEF cur, sem, rec
<1>4. obs[i].at \in Nat /\ Ttl \in Nat /\ Skew \in Nat
  BY EvidenceType, BoundsAssumption
<1>5. /\ ~(obs[i].at > now + Skew) /\ ~(obs[i].at < now - Ttl)
      /\ SourcesRetained(i, cur, rec)
      /\ obs[i].kind = "semantic" => SemanticOrder(i) = "ACCEPTED"
      /\ obs[i].kind # "semantic" => KeyOrder(i, cur) = "ACCEPTED"
  BY <1>3 DEF Verdict
<1>6. obs[i].at >= now - Ttl /\ obs[i].at <= now + Skew
  BY <1>1, <1>4, <1>5
<1>7. /\ IsFiniteSet(accepted) /\ accepted \subseteq Ids /\ Window(rec, accepted, now)
      /\ Held(cur, sem, accepted) /\ InTime(cur, sem, accepted, now)
      /\ NewestOfBody(cur, accepted, now) /\ IsFiniteSet(sem)
      /\ \A j \in accepted : obs[j].kind = "semantic" => obs[obs[j].interp].frame = obs[j].frame
  BY <1>2 DEF Sane, Held, Rooted, Small
<1>8. \A j \in accepted \cup {i} :
          obs[j].kind = "semantic" => obs[obs[j].interp].frame = obs[j].frame
  BY <1>5, <1>7 DEF SourcesRetained
<1>9. PICK put, all :
          /\ _accept(i, put, all, rec) /\ IsFiniteSet(all)
          /\ Held(put, all, accepted \cup {i}) /\ InTime(put, all, accepted \cup {i}, now)
          /\ NewestOfBody(put, accepted \cup {i}, now)
  <2>1. CASE obs[i].kind = "semantic"
    <3>1. _accept(i, cur, sem \cup {i}, rec)
      BY <1>3, <2>1
    <3>2. IsFiniteSet(sem \cup {i}) /\ IsFiniteSet(accepted \cup {i})
      BY <1>7, FS_AddElement
    <3>3. Held(cur, sem \cup {i}, accepted \cup {i})
      BY <1>7, <2>1, <3>2 DEF Held
    <3>4. InTime(cur, sem \cup {i}, accepted \cup {i}, now)
      BY <1>6, <1>7 DEF InTime
    <3>5. NewestOfBody(cur, accepted \cup {i}, now)
      BY <1>7, <2>1 DEF NewestOfBody, Body
    <3> QED
      BY <3>1, <3>2, <3>3, <3>4, <3>5
  <2>2. CASE obs[i].kind # "semantic"
    <3>1. _accept(i, Placed(i, cur), sem, rec) /\ KeyOrder(i, cur) = "ACCEPTED"
      BY <1>3, <1>5, <2>2
    <3>2. /\ Held(Placed(i, cur), sem, accepted \cup {i})
          /\ InTime(Placed(i, cur), sem, accepted \cup {i}, now)
          /\ NewestOfBody(Placed(i, cur), accepted \cup {i}, now)
      BY <1>1, <1>6, <1>7, <3>1, PlacedSane
    <3> QED
      BY <1>7, <3>1, <3>2
  <2> QED
    BY <2>1, <2>2
<1>10. /\ current' = EvictEntities(put) /\ recent' = TrimmedRecent(rec, i)
       /\ semantic' = _drop_orphaned_semantic_evidence(
                          Newest(all, SemanticCapacity, EarlierResult),
                          EvictEntities(put), TrimmedRecent(rec, i))
       /\ accepted' = accepted \cup {i}
  BY <1>9 DEF _accept
<1>11. Sane(EvictEntities(put),
            _drop_orphaned_semantic_evidence(
                Newest(all, SemanticCapacity, EarlierResult),
                EvictEntities(put), TrimmedRecent(rec, i)),
            TrimmedRecent(rec, i), accepted \cup {i}, now)
  BY <1>1, <1>6, <1>7, <1>8, <1>9, AcceptSane
<1>12. Sane(current', semantic', recent', accepted', last_now')
  BY <1>3, <1>10, <1>11
<1>13. Sane(current, semantic, recent, accepted, last_now)'
  BY <1>12 DEF Sane, Held, Window, InTime, NewestOfBody, Rooted, Small
<1>14. Marked(watermarks', accepted')
  <2>1. CASE obs[i].kind = "semantic"
    <3>1. watermarks' = [s \in DOMAIN watermarks \cup {obs[i].source}
                           |-> IF s = obs[i].source THEN i ELSE watermarks[s]]
      BY <1>3, <2>1
    <3>2. \/ obs[i].source \notin DOMAIN watermarks
          \/ obs[i].result > obs[watermarks[obs[i].source]].result
      <4>1. SemanticOrder(i) = "ACCEPTED"
        BY <1>5, <2>1
      <4> QED
        BY <4>1 DEF SemanticOrder
    <3>3. Marked(watermarks, accepted)
      BY DEF IInv
    <3> QED
      BY <1>7, <1>10, <2>1, <3>1, <3>2, <3>3, MarkedAccept
  <2>2. CASE obs[i].kind # "semantic"
    <3>1. watermarks' = watermarks
      BY <1>3, <2>2
    <3> QED
      BY <1>10, <2>2, <3>1 DEF IInv, Marked
  <2> QED
    BY <2>1, <2>2
<1>15. Marked(watermarks, accepted)'
  BY <1>14 DEF Marked
<1> QED
  BY <1>3, <1>13, <1>15 DEF IInv, Clocks

LEMMA NextIInv == IInv /\ [Next]_vars => IInv'
<1> SUFFICES ASSUME IInv, [Next]_vars PROVE IInv'
  OBVIOUS
<1>1. ASSUME NEW i \in Ids, NEW now \in 0..MaxTime, NEW receipt \in 0..MaxReceipt,
             ingest(i, now, receipt)
      PROVE  IInv'
  <2>1. CASE /\ receipt >= last_receipt
             /\ Verdict(i, now, PurgedCurrent(now), _purge_expired(now), PurgedRecent(now))
                    = "ACCEPTED"
    BY <1>1, <2>1, AcceptStep
  <2>2. CASE ~( /\ receipt >= last_receipt
                /\ Verdict(i, now, PurgedCurrent(now), _purge_expired(now),
                           PurgedRecent(now)) = "ACCEPTED" )
    <3>1. /\ now >= last_now /\ last_now' = now /\ current' = PurgedCurrent(now)
          /\ semantic' = _purge_expired(now) /\ recent' = PurgedRecent(now)
          /\ UNCHANGED <<watermarks, accepted>>
          /\ last_receipt' \in {receipt, last_receipt}
      BY <1>1, <2>2 DEF ingest
    <3>2. last_receipt' \in 0..MaxReceipt \cup {None}
      BY <3>1 DEF IInv, Clocks
    <3> QED
      BY <3>1, <3>2, PurgeStep
  <2> QED
    BY <2>1, <2>2
<1>2. ASSUME NEW now \in 0..MaxTime, query(now) PROVE IInv'
  <2>1. last_receipt' \in 0..MaxReceipt \cup {None}
    BY <1>2 DEF query, IInv, Clocks
  <2> QED
    BY <1>2, <2>1, PurgeStep DEF query
<1>3. CASE reset
  <2>1. /\ current' = Empty /\ semantic' = {} /\ watermarks' = Empty /\ recent' = {}
        /\ last_now' = None /\ last_receipt' = None /\ accepted' = {} /\ None \in Int
    BY <1>3 DEF reset, None
  <2>2. Sane(current', semantic', recent', accepted', last_now') /\ Marked(watermarks', accepted')
    BY <2>1, EmptySane
  <2>3. Sane(current, semantic, recent, accepted, last_now)' /\ Marked(watermarks, accepted)'
    BY <2>2 DEF Sane, Held, Window, InTime, NewestOfBody, Rooted, Small, Marked
  <2> QED
    BY <2>1, <2>3 DEF IInv, Clocks
<1>4. CASE UNCHANGED vars
  BY <1>4 DEF vars, IInv, Clocks, Sane, Held, Window, InTime, NewestOfBody, Rooted, Small,
              Marked
<1> QED
  BY <1>1, <1>2, <1>3, <1>4 DEF Next

\* The inductive invariant of Working Memory.
LEMMA SpecIInv == Spec => []IInv
BY InitIInv, NextIInv, PTL DEF Spec

--------------------------------------------------------------------------------
(* The theorems. *)

\* Semantic batches stay rooted in a retained frame and interpretation, and no two
\* of a source's accepted batches have one result time, whatever expiry, _accept's
\* capacities and late arrivals took away.
THEOREM SemanticsStaySound == Spec => []SemanticsSound
<1>1. IInv => SemanticsGrounded
  <2> SUFFICES ASSUME IInv, NEW i \in semantic
               PROVE  /\ obs[i].frame \in Retained(current, recent, "visual")
                      /\ obs[i].interp \in Retained(current, recent, "interpretation")
                      /\ obs[obs[i].interp].frame = obs[i].frame
    BY DEF SemanticsGrounded
  <2> QED
    BY DEF IInv, Sane, Held, Rooted
<1>2. IInv => SemanticsOrdered
  BY DEF IInv, Marked, SemanticsOrdered
<1> QED
  BY <1>1, <1>2, SpecIInv, PTL DEF SemanticsSound

\* For the keys of the body the current evidence is the newest ever accepted:
\* _compare_current lets nothing older in again after expiry.
THEOREM CurrentStaysNewest == Spec => []CurrentIsNewest
<1>1. IInv => CurrentIsNewest
  <2> SUFFICES ASSUME IInv, NEW k \in DOMAIN current, obs[current[k]].kind \in Body,
                      NEW i \in accepted, k \in obs[i].keys
               PROVE  Stamp(i) <= Stamp(current[k])
    BY DEF CurrentIsNewest, Body
  <2>1. current[k] \in Range(current) /\ current[k] \in Ids /\ i \in Ids /\ k \in obs[current[k]].keys
    BY DEF IInv, Sane, Held, Range
  <2>2. obs[i].kind \in Body
    BY <2>1, EvidenceAssumption DEF obs, Body, Observation, Kind
  <2>3. /\ Stamp(i) = obs[i].at /\ Stamp(current[k]) = obs[current[k]].at
        /\ obs[i].at \in Nat /\ obs[current[k]].at \in Nat
    BY <2>1, <2>2, EvidenceType DEF Body
  <2>4. \/ Stamp(i) <= Stamp(current[k]) \/ obs[i].at < last_now - Ttl
    BY <2>2 DEF IInv, Sane, NewestOfBody
  <2>5. obs[current[k]].at >= last_now - Ttl /\ last_now \in Int /\ Ttl \in Int
    BY <2>1, BoundsAssumption DEF IInv, Sane, InTime, Clocks, None
  <2> QED
    BY <2>3, <2>4, <2>5
<1> QED
  BY <1>1, SpecIInv, PTL

\* After every call the recent window is exactly the newest unexpired evidence, and
\* nothing expired, from the future or over a capacity is held (_purge_expired, _accept).
THEOREM WindowsStayExact == Spec => []WindowsExact
<1> SUFFICES IInv => WindowsExact
  BY SpecIInv, PTL
<1> SUFFICES ASSUME IInv PROVE WindowsExact
  OBVIOUS
<1>1. /\ IsFiniteSet(accepted) /\ accepted \subseteq Ids /\ Held(current, semantic, accepted)
      /\ Window(recent, accepted, last_now) /\ InTime(current, semantic, accepted, last_now)
  BY DEF IInv, Sane, Held
<1>2. Live(accepted, last_now) \subseteq accepted /\ recent \subseteq Live(accepted, last_now)
  BY <1>1 DEF Live, Window, Last
<1>3. TypeOK
  BY <1>1, <1>2 DEF IInv, Held, Marked, Clocks, TypeOK, Range
<1>4. RecentIsNewest
  <2>1. Live(accepted, last_now) = {i \in accepted : obs[i].at >= last_now - Ttl}
    BY DEF Live
  <2>2. Live(accepted, last_now) \subseteq Ids
    BY <1>1, <1>2
  <2>3. recent = Newest(Live(accepted, last_now), RecentCapacity, Earlier)
    BY <1>1, <2>2, NewestIsLast DEF Window
  <2> QED
    BY <2>1, <2>3 DEF RecentIsNewest
<1>5. NothingExpired
  <2> SUFFICES ASSUME NEW i \in Range(current) \cup recent \cup semantic
               PROVE  last_now - Ttl <= obs[i].at /\ obs[i].at <= last_now + Skew
    BY DEF NothingExpired
  <2>1. i \in accepted /\ obs[i].at >= last_now - Ttl /\ obs[i].at <= last_now + Skew
    BY <1>1, <1>2 DEF Held, InTime, Live
  <2>2. obs[i].at \in Int /\ last_now \in Int /\ Ttl \in Int
    BY <1>1, <2>1, EvidenceType, BoundsAssumption DEF IInv, Clocks, None
  <2> QED
    BY <2>1, <2>2
<1>6. WithinBounds
  <2>1. Cardinality(recent) <= RecentCapacity
    <3>1. IsFiniteSet(Live(accepted, last_now)) /\ Live(accepted, last_now) \subseteq Ids
      BY <1>1, <1>2, FS_Subset
    <3>2. Strict(Live(accepted, last_now), EarlierR) /\ Linear(Live(accepted, last_now), EarlierR)
      BY <3>1, EarlierOrders
    <3>3. RecentCapacity \in Nat \ {0}
      BY BoundsAssumption
    <3> QED
      BY <1>1, <3>1, <3>2, <3>3, LastAreFew DEF Window
  <2> QED
    BY <2>1 DEF IInv, Sane, Small, EntityKeys, WithinBounds
<1> QED
  BY <1>3, <1>4, <1>5, <1>6 DEF WindowsExact

--------------------------------------------------------------------------------
(* Consolidation. *)

\* A finite set has one element at each place of a strict and linear order.
LEMMA PlacesAreTaken ==
    ASSUME NEW S, IsFiniteSet(S), NEW R, Strict(S, R), Linear(S, R)
    PROVE  /\ \A x \in S : 1 + Cardinality(After(S, R, x)) \in 1..Cardinality(S)
           /\ \A x, y \in S :
                 1 + Cardinality(After(S, R, x)) = 1 + Cardinality(After(S, R, y)) => x = y
           /\ \A n \in 1..Cardinality(S) : \E x \in S : 1 + Cardinality(After(S, R, x)) = n
<1> DEFINE place == [x \in S |-> 1 + Cardinality(After(S, R, x))]
           m == Cardinality(S)
<1>1. m \in Nat
  BY FS_CardinalityType
<1>2. ASSUME NEW x \in S PROVE Cardinality(After(S, R, x)) \in Nat /\ place[x] \in 1..m
  <2>1. After(S, R, x) \subseteq S \ {x}
    BY DEF After, Strict
  <2>2. IsFiniteSet(S \ {x}) /\ Cardinality(S \ {x}) = m - 1
    BY FS_RemoveElement
  <2>3. Cardinality(After(S, R, x)) <= m - 1
    BY <2>1, <2>2, FS_Subset
  <2>4. Cardinality(After(S, R, x)) \in Nat
    BY AfterIsFinite
  <2> QED
    BY <1>1, <2>3, <2>4
<1>3. ASSUME NEW x \in S, NEW y \in S, place[x] = place[y] PROVE x = y
  <2>1. Cardinality(After(S, R, x)) = Cardinality(After(S, R, y))
    BY <1>2, <1>3
  <2>2. Cardinality(After(S, R, x)) \in Nat /\ Cardinality(After(S, R, y)) \in Nat
    BY <1>2
  <2>3. <<x, y>> \notin R /\ <<y, x>> \notin R
    BY <2>1, <2>2, FewerAfter
  <2> QED
    BY <2>3 DEF Linear
<1>4. \A x \in S : place[x] = 1 + Cardinality(After(S, R, x))
  OBVIOUS
<1>5. place \in [S -> 1..m]
  BY <1>2
<1> HIDE DEF place, m
<1>6. IsFiniteSet(1..m) /\ Cardinality(1..m) = m
  BY <1>1, FS_Interval
<1>7. place \in Injection(S, 1..m)
  BY <1>3, <1>5 DEF Injection, IsInjective
<1>8. place \in Surjection(S, 1..m)
  BY <1>6, <1>7, FS_Injection DEF m
<1>9. \A n \in 1..m : \E x \in S : place[x] = n
  BY <1>8 DEF Surjection
<1> QED
  BY <1>2, <1>3, <1>4, <1>9 DEF m

\* A one-to-one image of a finite set is finite and as large.
LEMMA ImageHasSize ==
    ASSUME NEW S, IsFiniteSet(S), NEW T, NEW f, DOMAIN f = S, \A x \in S : f[x] \in T,
           \A y \in T : \E x \in S : f[x] = y, \A x, y \in S : f[x] = f[y] => x = y
    PROVE  IsFiniteSet(T) /\ Cardinality(T) = Cardinality(S)
<1> DEFINE g == [x \in S |-> f[x]]
<1>1. g \in [S -> T]
  OBVIOUS
<1>2. g \in Surjection(S, T) /\ g \in Injection(S, T)
  BY <1>1 DEF Surjection, Injection, IsInjective
<1> HIDE DEF g
<1> QED
  BY <1>2, FS_Surjection

--------------------------------------------------------------------------------
(* One staging. *)

\* What a staging of a request may return: nothing with a reason, or a candidate
\* that says what the request says, of the observation and item it names.
StagedAs(p, r) ==
    /\ r.call = "stage" /\ CandidateStagingResult(r)
    /\ r.status = "ELIGIBLE" => /\ r.candidate.claim = p.claim
                                /\ r.candidate.source = <<p.obs, p.item>>

LEMMA IneligibleIs ==
    ASSUME NEW p, NEW reason, reason # "ELIGIBLE"
    PROVE  StagedAs(p, _ineligible(reason)) /\ _ineligible(reason).status = "INELIGIBLE"
BY DEF StagedAs, _ineligible, CandidateStagingResult, NoCandidate

LEMMA EligibleIs ==
    ASSUME NEW p, NEW confidence, NEW kind, NEW size
    PROVE  StagedAs(p, Eligible(CandidateEvidence(p, p.obs, confidence, kind, size)))
<1> DEFINE c == CandidateEvidence(p, p.obs, confidence, kind, size)
<1>1. c.claim = p.claim /\ c.source = <<p.obs, p.item>> /\ "bridge" \in DOMAIN c
  BY DEF CandidateEvidence
<1>2. "bridge" \notin DOMAIN NoCandidate
  BY DEF NoCandidate
<1> HIDE DEF c
<1>3. StagedAs(p, Eligible(c))
  BY <1>1, <1>2 DEF StagedAs, Eligible, CandidateStagingResult
<1> QED
  BY <1>3 DEF c

\* What the memory holds of a candidate, and when it was observed.
Backed(p, now, retained) ==
    /\ p.obs \in retained /\ ~(obs[p.obs].at > now)
    /\ ~(now - obs[p.obs].at > Freshness)
    /\ Semantic(p.obs) => obs[p.obs].frame \in retained /\ obs[p.obs].interp \in retained

LEMMA SemanticStaged ==
    ASSUME NEW p, NEW retained
    PROVE  LET r == StageSemantic(p, p.obs, retained) IN
           /\ StagedAs(p, r)
           /\ r.status = "ELIGIBLE" =>
                 obs[p.obs].frame \in retained /\ obs[p.obs].interp \in retained
<1> DEFINE M == _semantic_item(p.obs, p)
           item == CHOOSE x \in M : TRUE
           chain == _semantic_source_chain_is_exact(p.obs, item, retained)
           r == StageSemantic(p, p.obs, retained)
<1>1. CASE chain
  <2>1. obs[p.obs].frame \in retained /\ obs[p.obs].interp \in retained
    BY <1>1 DEF _semantic_source_chain_is_exact
  <2>2. \/ \E reason \in {"SOURCE_MISMATCH", "MISSING_REQUIRED_CONFIDENCE",
                          "SEMANTIC_CLAIM_EXCEEDS_EVIDENCE"} : r = _ineligible(reason)
        \/ r = Eligible(CandidateEvidence(p, p.obs, item.confidence, item.kind, item.size))
    BY <1>1 DEF StageSemantic
  <2> HIDE DEF M, item, r
  <2>3. StagedAs(p, r)
    BY <2>2, IneligibleIs, EligibleIs
  <2> QED
    BY <2>1, <2>3 DEF r
<1>2. CASE ~chain
  <2>1. r = _ineligible("SOURCE_MISMATCH")
    BY <1>2 DEF StageSemantic
  <2> HIDE DEF r
  <2> QED
    BY <2>1, IneligibleIs DEF r
<1> QED
  BY <1>1, <1>2

LEMMA OtherStaged ==
    ASSUME NEW p
    PROVE  StagedAs(p, StageOther(p, p.obs))
BY IneligibleIs, EligibleIs DEF StageOther

LEMMA RetainedStaged ==
    ASSUME NEW p, NEW now, NEW retained
    PROVE  LET r == StageRetained(p, now, retained) IN
           StagedAs(p, r) /\ (r.status = "ELIGIBLE" => Backed(p, now, retained))
<1> DEFINE r == StageRetained(p, now, retained)
<1>1. \/ \E reason \in {"EVIDENCE_NOT_FOUND", "SOURCE_MISMATCH", "PROVENANCE_NOT_ALLOWED",
                        "UNSUPPORTED_CLOCK", "EVIDENCE_TIME_IN_FUTURE", "EVIDENCE_STALE",
                        "TIMESTAMP_NOT_UTC_CONVERTIBLE"} : r = _ineligible(reason)
      \/ /\ p.obs \in retained /\ ~(obs[p.obs].at > now)
         /\ ~(now - obs[p.obs].at > Freshness)
         /\ IF Semantic(p.obs) THEN r = StageSemantic(p, p.obs, retained)
            ELSE r = StageOther(p, p.obs)
  BY DEF StageRetained
<1> HIDE DEF r
<1>2. CASE \E reason \in {"EVIDENCE_NOT_FOUND", "SOURCE_MISMATCH", "PROVENANCE_NOT_ALLOWED",
                        "UNSUPPORTED_CLOCK", "EVIDENCE_TIME_IN_FUTURE", "EVIDENCE_STALE",
                        "TIMESTAMP_NOT_UTC_CONVERTIBLE"} : r = _ineligible(reason)
  BY <1>2, IneligibleIs DEF r
<1>3. CASE /\ p.obs \in retained /\ ~(obs[p.obs].at > now)
           /\ ~(now - obs[p.obs].at > Freshness)
           /\ IF Semantic(p.obs) THEN r = StageSemantic(p, p.obs, retained)
              ELSE r = StageOther(p, p.obs)
  BY <1>3, SemanticStaged, OtherStaged DEF r, Backed
<1> QED
  BY <1>1, <1>2, <1>3

LEMMA StageIs ==
    ASSUME NEW p, NEW now
    PROVE  /\ StagedAs(p, stage(p, now))
           /\ stage(p, now).status = "ELIGIBLE" => /\ RefusedUnread(p, now) = {}
                                                   /\ Backed(p, now, PurgedRecent(now))
<1> DEFINE r == stage(p, now)
<1>1. CASE RefusedUnread(p, now) # {}
  <2>1. \E reason \in {"INVALID_STAGING_TIME", "ROBOT_MISMATCH", "MEMORY_TYPE_NOT_ALLOWED",
                       "SOURCE_CLOCK_REGRESSION"} : RefusedUnread(p, now) = {reason}
    BY <1>1 DEF RefusedUnread
  <2>2. \E reason \in {"INVALID_STAGING_TIME", "ROBOT_MISMATCH", "MEMORY_TYPE_NOT_ALLOWED",
                       "SOURCE_CLOCK_REGRESSION"} : r = _ineligible(reason)
    BY <1>1, <2>1 DEF stage
  <2> HIDE DEF r
  <2> QED
    BY <2>2, IneligibleIs DEF r
<1>2. CASE RefusedUnread(p, now) = {}
  <2>1. r = StageRetained(p, now, PurgedRecent(now))
    BY <1>2 DEF stage
  <2> HIDE DEF r
  <2> QED
    BY <1>2, <2>1, RetainedStaged DEF r
<1> QED
  BY <1>1, <1>2

--------------------------------------------------------------------------------
(* The invariant of Consolidation. *)

\* A proposal is what discovery makes of an item of a semantic observation.
Made(p) == \E i \in Ids : \E item \in Items[i] :
              Semantic(i) /\ p = _anonymous_semantic_proposal(i, item)

PlanMade ==
    plan # NoPlan =>
        /\ DOMAIN plan = {"prepared", "at", "from", "proposals", "outcome"}
        /\ plan.prepared /\ plan.at \in 0..MaxTime
        /\ plan.from \subseteq Ids /\ IsFiniteSet(plan.from)
        /\ \A p \in plan.proposals : Made(p)

\* Each staging that a review keeps is of a proposal of the plan, one that is no
\* longer to do, and says what stage said of it.
StagingsKept(staged, todo) ==
    /\ IsFiniteSet(staged)
    /\ \A s \in staged : /\ s = [proposal |-> s.proposal, result |-> s.result]
                         /\ Made(s.proposal) /\ s.proposal \notin todo
                         /\ StagedAs(s.proposal, s.result)
    /\ \A s, t \in staged : s.proposal = t.proposal => s = t

ReviewMade ==
    review # NoReview =>
        /\ DOMAIN review = {"running", "now", "todo", "staged"}
        /\ review.running /\ plan # NoPlan /\ review.now \in Times
        /\ review.todo \subseteq plan.proposals
        /\ review.todo # {} \/ review.staged # {}
        /\ StagingsKept(review.staged, review.todo)

--------------------------------------------------------------------------------
(* What a review hands to select. *)

LEMMA MadeIs ==
    ASSUME NEW p, Made(p)
    PROVE  /\ p.obs \in Ids /\ p.obs \in Nat /\ p.item \in Nat /\ Semantic(p.obs)
           /\ \E type, subject, predicate, value : p.claim = Claim(type, subject, predicate, value)
<1>0. PICK i \in Ids :
         \E item \in Items[i] : Semantic(i) /\ p = _anonymous_semantic_proposal(i, item)
  BY DEF Made
<1>1. PICK item \in Items[i] : Semantic(i) /\ p = _anonymous_semantic_proposal(i, item)
  BY <1>0
<1>2. p.obs = i /\ p.item = item.id /\ p.claim = AnonymousClaim(item)
  BY <1>1 DEF _anonymous_semantic_proposal
<1>3. i \in Nat /\ item.id \in Nat
  BY EvidenceAssumption, ItemsAssumption
<1> QED
  BY <1>1, <1>2, <1>3 DEF AnonymousClaim

LEMMA SameItemSameProposal ==
    ASSUME NEW p, NEW q, Made(p), Made(q), p.obs = q.obs, p.item = q.item
    PROVE  p = q
<1>1. PICK i \in Ids : \E x \in Items[i] : p = _anonymous_semantic_proposal(i, x)
  BY DEF Made
<1>2. PICK j \in Ids : \E y \in Items[j] : q = _anonymous_semantic_proposal(j, y)
  BY DEF Made
<1>3. PICK x \in Items[i] : p = _anonymous_semantic_proposal(i, x)
  BY <1>1
<1>4. PICK y \in Items[j] : q = _anonymous_semantic_proposal(j, y)
  BY <1>2
<1>5. i = j /\ x.id = y.id
  BY <1>3, <1>4 DEF _anonymous_semantic_proposal
<1>6. x = y
  BY <1>5, ItemsAssumption
<1> QED
  BY <1>3, <1>4, <1>5, <1>6

StagedOk(staged) == {s \in staged : s.result.status = "ELIGIBLE"}

\* The order in which the candidates of a review become a batch, the last first.
AfterR(S) == {p \in S \X S : ProposalBefore(p[2].proposal, p[1].proposal)}

LEMMA ProposalsOrdered ==
    ASSUME NEW S, \A s \in S : Made(s.proposal), \A s, t \in S : s.proposal = t.proposal => s = t
    PROVE  Strict(S, AfterR(S)) /\ Linear(S, AfterR(S))
<1>1. \A s \in S : s.proposal.obs \in Nat /\ s.proposal.item \in Nat
  BY MadeIs
<1>2. \A s, t \in S : s.proposal.obs = t.proposal.obs /\ s.proposal.item = t.proposal.item => s = t
  BY SameItemSameProposal
<1>3. \A s, t \in S : <<s, t>> \in AfterR(S) <=> ProposalBefore(t.proposal, s.proposal)
  BY DEF AfterR
<1>4. Strict(S, AfterR(S))
  <2>1. ASSUME NEW s \in S PROVE <<s, s>> \notin AfterR(S)
    BY <1>1, <1>3 DEF ProposalBefore
  <2>2. ASSUME NEW s \in S, NEW t \in S, NEW u \in S,
               <<s, t>> \in AfterR(S), <<t, u>> \in AfterR(S)
        PROVE  <<s, u>> \in AfterR(S)
    BY <1>1, <1>3, <2>2 DEF ProposalBefore
  <2> QED
    BY <2>1, <2>2 DEF Strict
<1>5. Linear(S, AfterR(S))
  <2>1. ASSUME NEW s \in S, NEW t \in S
        PROVE  s = t \/ <<s, t>> \in AfterR(S) \/ <<t, s>> \in AfterR(S)
    BY <1>1, <1>2, <1>3 DEF ProposalBefore
  <2> QED
    BY <2>1 DEF Linear
<1> QED
  BY <1>4, <1>5

\* The batch holds the candidate of every eligible staging, and no other.
LEMMA ReviewItemsAre ==
    ASSUME NEW staged, NEW todo, StagingsKept(staged, todo)
    PROVE  LET ok == StagedOk(staged)
               batch == ReviewItems(staged)
           IN  /\ IsFiniteSet(ok) /\ Cardinality(ok) \in Nat
               /\ DOMAIN batch = 1..Cardinality(ok)
               /\ \A n \in DOMAIN batch :
                     \E s \in ok : batch[n].candidate = s.result.candidate
               /\ \A s \in ok :
                     \E n \in DOMAIN batch : batch[n].candidate = s.result.candidate
<1> DEFINE ok == StagedOk(staged)
           batch == ReviewItems(staged)
           R == AfterR(ok)
           Pos(s) == 1 + Cardinality({t \in ok : ProposalBefore(t.proposal, s.proposal)})
           m == Cardinality(ok)
<1>1. IsFiniteSet(ok) /\ m \in Nat
  BY FS_Subset, FS_CardinalityType DEF StagedOk, StagingsKept
<1>2. Strict(ok, R) /\ Linear(ok, R)
  <2>1. \A s \in ok : Made(s.proposal)
    BY DEF StagedOk, StagingsKept
  <2>2. \A s, t \in ok : s.proposal = t.proposal => s = t
    BY DEF StagedOk, StagingsKept
  <2> HIDE DEF ok
  <2> QED
    BY <2>1, <2>2, ProposalsOrdered
<1>3. \A s \in ok : Pos(s) = 1 + Cardinality(After(ok, R, s))
  <2> SUFFICES ASSUME NEW s \in ok
               PROVE  {t \in ok : ProposalBefore(t.proposal, s.proposal)} = After(ok, R, s)
    OBVIOUS
  <2> HIDE DEF ok
  <2> QED
    BY DEF After, AfterR
<1>4. DOMAIN batch = 1..m /\ \A n \in 1..m :
        batch[n].candidate = (CHOOSE s \in ok : Pos(s) = n).result.candidate
  BY DEF ReviewItems, StagedOk
<1> HIDE DEF batch, Pos, ok, R
<1>5. /\ \A s \in ok : Pos(s) \in 1..m
      /\ \A s, t \in ok : Pos(s) = Pos(t) => s = t
      /\ \A n \in 1..m : \E s \in ok : Pos(s) = n
  BY <1>1, <1>2, <1>3, PlacesAreTaken
<1>6. ASSUME NEW n \in 1..m
      PROVE  \E s \in ok : Pos(s) = n /\ batch[n].candidate = s.result.candidate
  <2> DEFINE s == CHOOSE t \in ok : Pos(t) = n
  <2>1. s \in ok /\ Pos(s) = n
    BY <1>5
  <2>2. batch[n].candidate = s.result.candidate
    BY <1>4
  <2> QED
    BY <2>1, <2>2
<1>7. ASSUME NEW s \in ok
      PROVE  \E n \in 1..m : batch[n].candidate = s.result.candidate
  <2>1. Pos(s) \in 1..m
    BY <1>5
  <2>2. PICK t \in ok : Pos(t) = Pos(s) /\ batch[Pos(s)].candidate = t.result.candidate
    BY <1>6, <2>1
  <2>3. t = s
    BY <1>5, <2>2
  <2> QED
    BY <2>1, <2>2, <2>3
<1> QED
  BY <1>1, <1>4, <1>6, <1>7 DEF ok, batch

--------------------------------------------------------------------------------
(* Selection. *)

LEMMA BaseOutcomes ==
    ASSUME NEW item
    PROVE  _base_outcome(item) \in {"ELIGIBLE_FOR_REVIEW"} \cup _DEFER_REASONS \cup _REJECT_REASONS
BY DEF _base_outcome, _DEFER_REASONS, _REJECT_REASONS

\* The decision on a candidate of a batch constructs, and a candidate that is
\* selected has nothing of the batch against it.
LEMMA ItemDecided ==
    ASSUME NEW batch, IsFiniteSet(DOMAIN batch), Cardinality(DOMAIN batch) <= MaxSelection,
           NEW k \in DOMAIN batch
    PROVE  LET c == batch[k].candidate
               d == ItemDecision(batch, c)
           IN  /\ CandidateSelectionItemDecision(d)
               /\ d.candidate = c /\ d.count = Cardinality(Positions(batch, c))
               /\ d.outcome = "SELECT_FOR_REVIEW" => GroupReasons(batch, c) = {}
<1> DEFINE c == batch[k].candidate
           P == Positions(batch, c)
           base == {_base_outcome(batch[n]) : n \in P}
           group == GroupReasons(batch, c)
           d == ItemDecision(batch, c)
           GroupWords == {"DUPLICATE_CANDIDATE", "DUPLICATE_PROPOSITION", "CONFLICTING_CANDIDATE"}
<1>1. k \in P /\ P \subseteq DOMAIN batch
  BY DEF Positions
<1>2. IsFiniteSet(P) /\ Cardinality(P) \in Nat /\ Cardinality(P) <= MaxSelection
  <2>1. Cardinality(P) <= Cardinality(DOMAIN batch) /\ IsFiniteSet(P)
    BY <1>1, FS_Subset
  <2>2. Cardinality(DOMAIN batch) \in Nat /\ Cardinality(P) \in Nat
    BY <2>1, FS_CardinalityType
  <2> QED
    BY <2>1, <2>2, LimitsAssumption
<1>3. Cardinality(P) # 0
  BY <1>1, <1>2, FS_EmptySet
<1>4. base # {} /\ base \subseteq {"ELIGIBLE_FOR_REVIEW"} \cup _DEFER_REASONS \cup _REJECT_REASONS
  BY <1>1, BaseOutcomes
<1>5. group \subseteq GroupWords /\ GroupWords \subseteq _DEFER_REASONS
  BY DEF GroupReasons, _DEFER_REASONS
<1>6. group = {} => base = {_base_outcome(batch[k])}
  <2> SUFFICES ASSUME group = {} PROVE P = {k}
    OBVIOUS
  <2>1. ~(Cardinality(P) > 1)
    BY DEF GroupReasons
  <2>2. Cardinality(P) = 1
    BY <1>2, <1>3, <2>1
  <2>3. \E x : P = {x}
    BY <1>2, <2>2, FS_Singleton
  <2> QED
    BY <1>1, <2>3
<1>7. /\ d.candidate = c /\ d.count = Cardinality(P)
      /\ d.outcome = OutcomeOf(d.reasons)
      /\ d.reasons = IF group = {} THEN base ELSE (base \cup group) \ {"ELIGIBLE_FOR_REVIEW"}
  BY DEF ItemDecision
<1>8. d.count \in 1..MaxSelection
  BY <1>2, <1>3, <1>7, LimitsAssumption
<1>9. "ELIGIBLE_FOR_REVIEW" \notin _DEFER_REASONS \cup _REJECT_REASONS
  BY DEF _DEFER_REASONS, _REJECT_REASONS
<1> HIDE DEF d, base, group, P, c, GroupWords
<1>10. CASE group = {}
  <2>1. PICK w \in {"ELIGIBLE_FOR_REVIEW"} \cup _DEFER_REASONS \cup _REJECT_REASONS :
           d.reasons = {w}
    BY <1>4, <1>6, <1>7, <1>10
  <2>2. CandidateSelectionItemDecision(d)
    BY <1>7, <1>8, <1>9, <2>1 DEF CandidateSelectionItemDecision, OutcomeOf
  <2> QED
    BY <1>7, <1>10, <2>2 DEF d, P, c, group
<1>11. CASE group # {}
  <2>1. d.reasons = (base \cup group) \ {"ELIGIBLE_FOR_REVIEW"}
    BY <1>7, <1>11
  <2>2. d.reasons \subseteq _DEFER_REASONS \cup _REJECT_REASONS
    BY <1>4, <1>5, <2>1
  <2>3. d.reasons \cap _DEFER_REASONS # {}
    BY <1>5, <1>9, <1>11, <2>1
  <2>4. CandidateSelectionItemDecision(d) /\ d.outcome # "SELECT_FOR_REVIEW"
    BY <1>7, <1>8, <1>9, <2>2, <2>3 DEF CandidateSelectionItemDecision, OutcomeOf
  <2> QED
    BY <1>7, <2>4 DEF d, P, c, group
<1> QED
  BY <1>10, <1>11

DecisionsOn(batch) == {ItemDecision(batch, batch[k].candidate) : k \in DOMAIN batch}

\* Either select says nothing of the candidates, or it decides on each of them.
LEMMA SelectIs ==
    ASSUME NEW batch, IsFiniteSet(DOMAIN batch)
    PROVE  LET n == Cardinality(DOMAIN batch) IN
           \/ n = 0 /\ select(batch) = _batch_rejection(0, "INSUFFICIENT_EVIDENCE")
           \/ n # 0 /\ select(batch) = _batch_rejection(n, "RESOURCE_LIMIT_EXCEEDED")
           \/ /\ n # 0 /\ n <= MaxSelection
              /\ select(batch) = _selection_decision(DecisionsOn(batch), n)
<1>1. Cardinality(DOMAIN batch) \in Nat /\ MaxSelection \in Nat
  BY FS_CardinalityType, LimitsAssumption
<1> QED
  BY <1>1 DEF select, DecisionsOn, Total

\* What is selected is of the batch, and nothing of the batch is against it.
LEMMA SelectedIs ==
    ASSUME NEW batch, IsFiniteSet(DOMAIN batch), NEW c \in Selected(select(batch))
    PROVE  /\ \E k \in DOMAIN batch : batch[k].candidate = c
           /\ GroupReasons(batch, c) = {}
<1>1. PICK d \in select(batch).items : d.outcome = "SELECT_FOR_REVIEW" /\ d.candidate = c
  BY DEF Selected
<1>2. select(batch).items = DecisionsOn(batch) /\ Cardinality(DOMAIN batch) <= MaxSelection
  <2>1. select(batch).items # {}
    BY <1>1
  <2> QED
    BY <2>1, SelectIs DEF _batch_rejection, _selection_decision
<1>3. PICK k \in DOMAIN batch : d = ItemDecision(batch, batch[k].candidate)
  BY <1>1, <1>2 DEF DecisionsOn
<1>4. d.candidate = batch[k].candidate
  BY <1>3 DEF ItemDecision
<1>5. GroupReasons(batch, batch[k].candidate) = {}
  BY <1>1, <1>2, <1>3, ItemDecided
<1> QED
  BY <1>1, <1>4, <1>5

\* Two candidates that are selected are not of one identity.
LEMMA SelectedDiffer ==
    ASSUME NEW batch, IsFiniteSet(DOMAIN batch), NEW c \in Selected(select(batch)),
           NEW e \in Selected(select(batch)), c # e,
           \E type, subject, predicate, value : c.claim = Claim(type, subject, predicate, value),
           \E type, subject, predicate, value : e.claim = Claim(type, subject, predicate, value)
    PROVE  ~SameIdentity(c, e)
<1>1. PICK k \in DOMAIN batch : batch[k].candidate = e
  BY SelectedIs
<1>2. GroupReasons(batch, c) = {}
  BY SelectedIs
<1>3. e \in {batch[n].candidate : n \in DOMAIN batch} \ {c}
  BY <1>1
<1>4. ~(e.claim = c.claim) /\ ~(SameIdentity(c, e) /\ e.claim.value # c.claim.value)
  <2> DEFINE others == {batch[n].candidate : n \in DOMAIN batch} \ {c}
  <2>1. ~(\E d \in others : d.claim = c.claim)
    BY <1>2 DEF GroupReasons
  <2>2. ~(\E d \in others : SameIdentity(c, d) /\ d.claim.value # c.claim.value)
    BY <1>2 DEF GroupReasons
  <2> QED
    BY <1>3, <2>1, <2>2
<1>5. SameIdentity(c, e) /\ e.claim.value = c.claim.value => e.claim = c.claim
  BY DEF SameIdentity, Claim
<1> QED
  BY <1>4, <1>5

\* The candidate of an eligible staging tells which staging it is.
LEMMA CandidateIs ==
    ASSUME NEW staged, NEW todo, StagingsKept(staged, todo), NEW t \in StagedOk(staged)
    PROVE  /\ \E type, subject, predicate, value :
                 t.result.candidate.claim = Claim(type, subject, predicate, value)
           /\ \A s \in staged : s.result.candidate = t.result.candidate => s = t
<1>1. t \in staged /\ t.result.status = "ELIGIBLE" /\ Made(t.proposal)
      /\ StagedAs(t.proposal, t.result)
  BY DEF StagedOk, StagingsKept
<1>2. /\ t.result.candidate.claim = t.proposal.claim /\ t.result.candidate # NoCandidate
      /\ t.result.candidate.source = <<t.proposal.obs, t.proposal.item>>
  BY <1>1 DEF StagedAs, CandidateStagingResult
<1>3. ASSUME NEW s \in staged, s.result.candidate = t.result.candidate PROVE s = t
  <2>1. Made(s.proposal) /\ StagedAs(s.proposal, s.result)
    BY DEF StagingsKept
  <2>2. s.result.status = "ELIGIBLE"
    BY <1>2, <1>3, <2>1 DEF StagedAs, CandidateStagingResult
  <2>3. s.result.candidate.source = <<s.proposal.obs, s.proposal.item>>
    BY <2>1, <2>2 DEF StagedAs
  <2>4. s.proposal.obs = t.proposal.obs /\ s.proposal.item = t.proposal.item
    BY <1>2, <1>3, <2>3
  <2>5. s.proposal = t.proposal
    BY <1>1, <2>1, <2>4, SameItemSameProposal
  <2> QED
    BY <1>1, <2>5 DEF StagingsKept
<1>4. \E type, subject, predicate, value : t.proposal.claim = Claim(type, subject, predicate, value)
  BY <1>1, MadeIs
<1> QED
  BY <1>2, <1>3, <1>4

\* What a review says of one staging.
EntryOf(s, selection, decisions) ==
    LET c == s.result.candidate
        mine == {d \in selection.items : d.candidate = c}
    IN  [proposal |-> s.proposal, result |-> s.result,
         selection |-> IF mine = {} THEN NoDecision ELSE CHOOSE d \in mine : TRUE,
         evaluated |-> c \in DOMAIN decisions,
         decision |-> IF c \in DOMAIN decisions THEN decisions[c] ELSE "none"]

LEMMA EvaluationsAgree ==
    ASSUME NEW staged, NEW todo, StagingsKept(staged, todo), NEW decisions,
           DOMAIN decisions = Selected(select(ReviewItems(staged))),
           NEW selection,
           NEW e \in Entries(staged, selection, decisions),
           NEW f \in Entries(staged, selection, decisions),
           e.evaluated, f.evaluated, e # f
    PROVE  ~SameIdentity(e.result.candidate, f.result.candidate)
<1> DEFINE batch == ReviewItems(staged)
           ok == StagedOk(staged)
<1>1. IsFiniteSet(DOMAIN batch)
  <2>1. DOMAIN batch = 1..Cardinality(ok) /\ Cardinality(ok) \in Nat
    BY ReviewItemsAre
  <2> HIDE DEF batch, ok
  <2> QED
    BY <2>1, FS_Interval
<1>2. PICK s \in staged : e = EntryOf(s, selection, decisions)
  BY DEF Entries, EntryOf
<1>3. PICK t \in staged : f = EntryOf(t, selection, decisions)
  BY DEF Entries, EntryOf
<1> DEFINE c == s.result.candidate
           d == t.result.candidate
<1>4. c \in Selected(select(batch)) /\ d \in Selected(select(batch))
  BY <1>2, <1>3 DEF EntryOf
<1>5. s # t
  BY <1>2, <1>3
<1>6. ASSUME NEW b \in Selected(select(batch)) PROVE \E u \in ok : b = u.result.candidate
  <2>1. PICK k \in DOMAIN batch : batch[k].candidate = b
    BY <1>1, SelectedIs
  <2> QED
    BY <2>1, ReviewItemsAre
<1>7. PICK u \in ok : c = u.result.candidate
  BY <1>4, <1>6
<1>8. PICK v \in ok : d = v.result.candidate
  BY <1>4, <1>6
<1>9. s = u /\ t = v
  BY <1>7, <1>8, CandidateIs
<1>10. c # d
  <2>1. \A w \in staged : w.result.candidate = v.result.candidate => w = v
    BY CandidateIs
  <2> QED
    BY <1>5, <1>8, <1>9, <2>1
<1>11. /\ \E type, subject, predicate, value : c.claim = Claim(type, subject, predicate, value)
       /\ \E type, subject, predicate, value : d.claim = Claim(type, subject, predicate, value)
  BY <1>7, <1>8, CandidateIs
<1> HIDE DEF c, d, batch, ok
<1>12. ~SameIdentity(c, d)
  BY <1>1, <1>4, <1>10, <1>11, SelectedDiffer
<1> QED
  BY <1>2, <1>3, <1>12 DEF c, d, EntryOf

--------------------------------------------------------------------------------
(* What a plan is made of. *)

LEMMA FirstAreSome ==
    ASSUME NEW S, NEW n
    PROVE  First(S, n, ProposalBefore) \subseteq S /\ First(S, n, _diagnostic_key) \subseteq S
BY DEF First

LEMMA FittingIsSome ==
    ASSUME NEW P, NEW D
    PROVE  /\ Fitting(P, D).proposals \subseteq P
           /\ Fitting(P, D).diagnostics \subseteq {RESOURCE} \cup (D \ {RESOURCE})
           /\ RESOURCE \in Fitting(P, D).diagnostics
<1>1. \E n, m : Fitting(P, D) = [proposals |-> First(P, m, ProposalBefore),
          diagnostics |-> {RESOURCE} \cup First(D \ {RESOURCE}, n, _diagnostic_key)]
  BY DEF Fitting
<1> QED
  BY <1>1, FirstAreSome

LEMMA ResultProposes ==
    ASSUME NEW P, NEW D, NEW retained, NEW inspected, NEW forced, NEW limited
    PROVE  LET r == _result(P, D, retained, inspected, forced, limited) IN
           r.call = "discover" /\ r.proposals \subseteq P
<1> DEFINE r == _result(P, D, retained, inspected, forced, limited)
           kept == First(P, MaxProposals, ProposalBefore)
<1>1. r.call = "discover"
  BY DEF _result
<1>2. r.proposals = kept \/ \E E : r.proposals = Fitting(kept, E).proposals
  BY DEF _result
<1> QED
  BY <1>1, <1>2, FirstAreSome, FittingIsSome

LEMMA DiscoverProposes ==
    ASSUME NEW now, NEW retained, retained \subseteq Ids
    PROVE  /\ discover(now, retained).call = "discover"
           /\ \A p \in discover(now, retained).proposals : Made(p)
<1> DEFINE found == discover(now, retained)
<1>0. \E P \in {{}, Proposals(retained, now)} :
        \E D, count, inspected, forced, limited :
         found = _result(P, D, count, inspected, forced, limited)
  BY DEF discover, Ineligible
<1> HIDE DEF found
<1>1. \E P \in {{}, Proposals(retained, now)} : found.call = "discover" /\ found.proposals \subseteq P
  BY <1>0, ResultProposes
<1>2. ASSUME NEW p \in Proposals(retained, now) PROVE Made(p)
  BY DEF Proposals, Discoverable, Made
<1> QED
  BY <1>1, <1>2 DEF found

--------------------------------------------------------------------------------
(* The steps. *)

LEMMA RecentIsKnown ==
    ASSUME IInv
    PROVE  recent \subseteq Ids /\ IsFiniteSet(recent) /\ last_now \in Int
<1>1. recent \subseteq accepted /\ accepted \subseteq Ids /\ IsFiniteSet(accepted)
  BY DEF IInv, Sane, Held, Window, Last, Live
<1> QED
  BY <1>1, FS_Subset DEF IInv, Clocks, None

LEMMA MemoryRead ==
    ASSUME IInv, NEW reads, NEW now \in Times, reads => now >= 0, ReadMemory(reads, now)
    PROVE  IInv' /\ recent' \subseteq Ids
<1>1. [Next]_vars
  <2>1. CASE reads
    <3>1. now \in 0..MaxTime /\ query(now)
      BY <2>1 DEF Times, None, ReadMemory
    <3> QED
      BY <3>1 DEF Next
  <2>2. CASE ~reads
    BY <2>2 DEF ReadMemory
  <2> QED
    BY <2>1, <2>2
<1>2. IInv'
  BY <1>1, NextIInv
<1>3. recent' \subseteq Ids
  <2>1. /\ recent' \subseteq accepted' /\ accepted' \subseteq Ids
    BY <1>2 DEF IInv, Sane, Held, Window, Last, Live
  <2> QED
    BY <2>1
<1> QED
  BY <1>2, <1>3

\* The parts of the invariant that do not look at the answer.
Kernel == IInv /\ held \subseteq Ids /\ PlanMade /\ ReviewMade /\ StagedWasHeld

LEMMA KernelInit == CInit => Kernel
<1> SUFFICES ASSUME CInit PROVE Kernel
  OBVIOUS
<1>1. IInv
  BY InitIInv DEF CInit
<1> QED
  BY <1>1 DEF CInit, Kernel, PlanMade, ReviewMade, StagedWasHeld

\* Steps that leave the plan and the review alone.
LEMMA OthersMove ==
    ASSUME Kernel, IInv', recent' \subseteq Ids, UNCHANGED <<plan, review>>,
           \/ held' = IF review = NoReview THEN {} ELSE held \cup recent'
           \/ held' = held
    PROVE  Kernel'
<1>1. held' \subseteq Ids
  BY DEF Kernel
<1>2. PlanMade' /\ ReviewMade'
  BY DEF Kernel, PlanMade, ReviewMade
<1>3. StagedWasHeld'
  BY DEF Kernel, StagedWasHeld
<1> QED
  BY <1>1, <1>2, <1>3 DEF Kernel

LEMMA PlanNeeded ==
    ASSUME Kernel, plan = NoPlan
    PROVE  review = NoReview
BY DEF Kernel, ReviewMade

LEMMA PrepareKeeps ==
    ASSUME Kernel, NEW now \in Times, prepare(now)
    PROVE  Kernel'
<1> DEFINE retained == PurgedRecent(now)
           found == discover(now, retained)
<1>1. /\ ReadMemory(now >= 0 /\ now >= last_now, now)
      /\ plan' = IF now < 0 THEN NoPlan
                 ELSE [prepared |-> TRUE, at |-> now, from |-> retained,
                       proposals |-> found.proposals, outcome |-> found.outcome]
      /\ plan = NoPlan /\ review' = review /\ held' = held
  BY DEF prepare
<1>2. IInv' /\ recent' \subseteq Ids
  BY <1>1, MemoryRead DEF Kernel
<1>3. retained \subseteq Ids /\ IsFiniteSet(retained)
  <2>1. retained \subseteq recent
    BY DEF PurgedRecent, Kept
  <2> QED
    BY <2>1, RecentIsKnown, FS_Subset DEF Kernel
<1>4. \A p \in found.proposals : Made(p)
  BY <1>3, DiscoverProposes
<1>5. review = NoReview
  BY <1>1, PlanNeeded
<1>6. now < 0 \/ now \in 0..MaxTime
  BY DEF Times, None
<1> HIDE DEF found, retained
<1>7. PlanMade'
  BY <1>1, <1>3, <1>4, <1>6 DEF PlanMade, NoPlan
<1>8. ReviewMade' /\ StagedWasHeld'
  BY <1>1, <1>5 DEF ReviewMade, StagedWasHeld
<1> QED
  BY <1>1, <1>2, <1>7, <1>8 DEF Kernel

LEMMA BeginKeeps ==
    ASSUME Kernel, NEW ids, NEW twice, NEW form, NEW now \in Times,
           ReviewBegins(ids, twice, form, now)
    PROVE  Kernel'
<1>1. plan # NoPlan /\ UNCHANGED <<vars, source_clock, plan>>
  BY DEF ReviewBegins
<1>2. IInv' /\ recent' \subseteq Ids
  <2>1. IInv'
    BY <1>1, NextIInv DEF Kernel
  <2>2. recent' = recent
    BY <1>1 DEF vars
  <2> QED
    BY <2>1, <2>2, RecentIsKnown DEF Kernel
<1>3. CASE StructuralFault(plan, ids, twice, form) # {}
  BY <1>1, <1>2, <1>3, OthersMove DEF ReviewBegins
<1>4. CASE StructuralFault(plan, ids, twice, form) = {}
  <2>1. /\ review' = [running |-> TRUE, now |-> now, todo |-> ids, staged |-> {}]
        /\ held' = recent
    BY <1>4 DEF ReviewBegins
  <2>2. ids \subseteq plan.proposals /\ ids # {}
    BY <1>4 DEF StructuralFault
  <2>3. ReviewMade'
    BY <1>1, <2>1, <2>2, FS_EmptySet DEF ReviewMade, StagingsKept
  <2>4. PlanMade' /\ StagedWasHeld'
    BY <1>1, <2>1 DEF Kernel, PlanMade, StagedWasHeld
  <2>5. held' \subseteq Ids
    BY <2>1, RecentIsKnown DEF Kernel
  <2> QED
    BY <1>2, <2>3, <2>4, <2>5 DEF Kernel
<1> QED
  BY <1>3, <1>4

\* Of the proposals still to do there is one that no other comes before.
LEMMA LeastProposal ==
    ASSUME NEW S, S # {}, \A p \in S : Made(p)
    PROVE  Least(S, ProposalBefore) \in S
<1> DEFINE O == {p.obs : p \in S}
<1>1. \A p \in S : p.obs \in Nat /\ p.item \in Nat
  BY MadeIs
<1>2. PICK o \in O : \A x \in O : o <= x
  <2>1. O \subseteq Nat /\ O # {}
    BY <1>1
  <2> HIDE DEF O
  <2> QED
    BY <2>1, LeastNumber
<1> DEFINE I == {p.item : p \in {q \in S : q.obs = o}}
<1>3. PICK i \in I : \A x \in I : i <= x
  <2>1. I \subseteq Nat /\ I # {}
    BY <1>1, <1>2
  <2> HIDE DEF I
  <2> QED
    BY <2>1, LeastNumber
<1>4. PICK p \in S : p.obs = o /\ p.item = i
  BY <1>3
<1>5. ASSUME NEW q \in S PROVE ~ProposalBefore(q, p)
  <2>1. o <= q.obs /\ (q.obs = o => i <= q.item)
    BY <1>2, <1>3
  <2>2. p.obs \in Nat /\ p.item \in Nat /\ q.obs \in Nat /\ q.item \in Nat
    BY <1>1
  <2> QED
    BY <1>4, <2>1, <2>2 DEF ProposalBefore
<1> QED
  BY <1>5 DEF Least

LEMMA StageKeeps ==
    ASSUME Kernel, ReviewStages
    PROVE  Kernel'
<1> DEFINE p == Least(review.todo, ProposalBefore)
           now == review.now
           r == stage(p, now)
           s == [proposal |-> p, result |-> r]
<1>1. /\ review # NoReview /\ review.todo # {}
      /\ ReadMemory(RefusedUnread(p, now) = {}, now)
      /\ review' = [review EXCEPT !.todo = @ \ {p}, !.staged = @ \cup {s}]
      /\ held' = held \cup recent' /\ plan' = plan
  BY DEF ReviewStages
<1>2. now \in Times
  BY <1>1 DEF Kernel, ReviewMade
<1>3. RefusedUnread(p, now) = {} => now >= 0
  BY <1>2 DEF RefusedUnread, Times, None
<1> HIDE DEF p
<1>4. IInv' /\ recent' \subseteq Ids
  BY <1>1, <1>2, <1>3, MemoryRead DEF Kernel
<1>5. /\ DOMAIN review = {"running", "now", "todo", "staged"} /\ review.running
      /\ plan # NoPlan /\ review.todo \subseteq plan.proposals
      /\ StagingsKept(review.staged, review.todo)
  BY <1>1 DEF Kernel, ReviewMade
<1>6. /\ DOMAIN review' = {"running", "now", "todo", "staged"} /\ review'.running
      /\ review'.now = now /\ review'.todo = review.todo \ {p}
      /\ review'.staged = review.staged \cup {s}
  BY <1>1, <1>5
<1>7. StagedAs(p, r) /\ (r.status = "ELIGIBLE" => /\ RefusedUnread(p, now) = {}
                                                  /\ Backed(p, now, PurgedRecent(now)))
  BY StageIs
<1>8. p \in review.todo /\ Made(p)
  <2>1. \A q \in review.todo : Made(q)
    BY <1>5 DEF Kernel, PlanMade
  <2> QED
    BY <1>1, <2>1, LeastProposal DEF p
<1> HIDE DEF r
<1>9. s = [proposal |-> s.proposal, result |-> s.result] /\ s.proposal = p /\ s.result = r
  OBVIOUS
<1> HIDE DEF s
<1>10. StagingsKept(review'.staged, review'.todo)
  <2>0. IsFiniteSet(review.staged)
    BY <1>5 DEF StagingsKept
  <2>1. IsFiniteSet(review'.staged)
    BY <1>6, <2>0, FS_AddElement
  <2>2. ASSUME NEW t \in review'.staged
        PROVE  /\ t = [proposal |-> t.proposal, result |-> t.result]
               /\ Made(t.proposal) /\ t.proposal \notin review'.todo
               /\ StagedAs(t.proposal, t.result)
    <3>1. CASE t = s
      BY <1>6, <1>7, <1>8, <1>9, <3>1
    <3>2. CASE t \in review.staged
      BY <1>5, <1>6, <3>2 DEF StagingsKept
    <3> QED
      BY <1>6, <3>1, <3>2
  <2>3. \A t \in review.staged : t.proposal # p
    BY <1>5, <1>8 DEF StagingsKept
  <2>4. ASSUME NEW t \in review'.staged, NEW u \in review'.staged, t.proposal = u.proposal
        PROVE  t = u
    BY <1>5, <1>6, <1>9, <2>3, <2>4 DEF StagingsKept
  <2> QED
    BY <2>1, <2>2, <2>4 DEF StagingsKept
<1>11. ReviewMade'
  BY <1>1, <1>2, <1>5, <1>6, <1>10 DEF ReviewMade
<1>12. StagedWasHeld'
  <2>1. r.status = "ELIGIBLE" =>
           /\ {p.obs, obs[p.obs].frame, obs[p.obs].interp} \subseteq held'
           /\ obs[p.obs].at \in (now - Freshness)..now
    <3> SUFFICES ASSUME r.status = "ELIGIBLE"
                 PROVE  /\ {p.obs, obs[p.obs].frame, obs[p.obs].interp} \subseteq held'
                        /\ obs[p.obs].at \in (now - Freshness)..now
      OBVIOUS
    <3>1. Backed(p, now, PurgedRecent(now)) /\ query(now)
      BY <1>1, <1>7 DEF ReadMemory
    <3>2. PurgedRecent(now) \subseteq held'
      BY <1>1, <3>1 DEF query
    <3>3. Semantic(p.obs) /\ p.obs \in Ids /\ obs[p.obs].at \in Nat
      BY <1>8, MadeIs, EvidenceType
    <3>4. now \in Int /\ Freshness \in Int
      BY <1>2, LimitsAssumption, BoundsAssumption DEF Times, None
    <3> QED
      BY <3>1, <3>2, <3>3, <3>4 DEF Backed
  <2>2. held \subseteq held'
    BY <1>1
  <2>3. ASSUME NEW t \in review'.staged, t.result.status = "ELIGIBLE"
        PROVE  LET i == t.proposal.obs IN
               /\ {i, obs[i].frame, obs[i].interp} \subseteq held'
               /\ obs[i].at \in (review'.now - Freshness)..review'.now
    <3>1. CASE t = s
      BY <1>6, <1>9, <2>1, <2>3, <3>1
    <3>2. CASE t \in review.staged
      BY <1>1, <1>6, <2>2, <2>3, <3>2 DEF Kernel, StagedWasHeld
    <3> QED
      BY <1>6, <3>1, <3>2
  <2> QED
    BY <2>3 DEF StagedWasHeld
<1>13. PlanMade' /\ held' \subseteq Ids
  BY <1>1, <1>4 DEF Kernel, PlanMade
<1> QED
  BY <1>4, <1>11, <1>12, <1>13 DEF Kernel

LEMMA ConcludeKeeps ==
    ASSUME Kernel, NEW evaluation, ReviewConcludes(evaluation)
    PROVE  Kernel'
<1>1. review' = NoReview /\ held' = {} /\ UNCHANGED <<vars, source_clock, plan>>
  BY DEF ReviewConcludes
<1>2. IInv'
  BY <1>1, NextIInv DEF Kernel
<1> QED
  BY <1>1, <1>2 DEF Kernel, PlanMade, ReviewMade, StagedWasHeld

LEMMA KernelNext == Kernel /\ [CNext]_allVars => Kernel'
<1> SUFFICES ASSUME Kernel, [CNext]_allVars PROVE Kernel'
  OBVIOUS
<1>1. CASE MemoryStep
  <2>1. IInv'
    BY <1>1, NextIInv DEF Kernel, MemoryStep
  <2>2. recent' \subseteq accepted' /\ accepted' \subseteq Ids
    BY <2>1 DEF IInv, Sane, Held, Window, Last, Live
  <2> QED
    BY <1>1, <2>1, <2>2, OthersMove DEF MemoryStep
<1>2. ASSUME NEW request \in Requests, NEW now \in Times, CallerStages(request, now)
      PROVE  Kernel'
  <2>1. /\ ReadMemory(RefusedUnread(request, now) = {}, now)
        /\ UNCHANGED <<source_clock, plan, review, held>>
    BY <1>2 DEF CallerStages
  <2>2. RefusedUnread(request, now) = {} => now >= 0
    BY DEF RefusedUnread, Times, None
  <2>3. IInv' /\ recent' \subseteq Ids
    BY <2>1, <2>2, MemoryRead DEF Kernel
  <2> QED
    BY <2>1, <2>3, OthersMove
<1>3. ASSUME NEW batch \in Offers, CallerSelects(batch) PROVE Kernel'
  BY <1>3, NextIInv, RecentIsKnown, OthersMove DEF CallerSelects, Kernel, vars
<1>4. ASSUME NEW now \in Times, prepare(now) PROVE Kernel'
  BY <1>4, PrepareKeeps
<1>5. ASSUME NEW ids, NEW twice, NEW form, NEW now \in Times,
             ReviewBegins(ids, twice, form, now)
      PROVE  Kernel'
  BY <1>5, BeginKeeps
<1>6. CASE ReviewStages
  BY <1>6, StageKeeps
<1>7. ASSUME NEW evaluation, ReviewConcludes(evaluation) PROVE Kernel'
  BY <1>7, ConcludeKeeps
<1>8. CASE UNCHANGED allVars
  BY <1>8, NextIInv, RecentIsKnown, OthersMove DEF allVars, cvars, Kernel, vars
<1>9. 0 \in Times
  BY BoundsAssumption DEF Times
<1> QED
  BY <1>1, <1>2, <1>3, <1>4, <1>5, <1>6, <1>7, <1>8, <1>9 DEF CNext

--------------------------------------------------------------------------------
(* The answers. *)

\* The batches that refuse an invocation as a whole evaluate nothing.
LEMMA FaultsAre ==
    ASSUME NEW p, NEW ids, NEW twice, NEW form, NEW b \in StructuralFault(p, ids, twice, form)
    PROVE  \E outcome, reason, found, asked :
              /\ b = _structural_batch(outcome, reason, found, asked)
              /\ \/ outcome = "PLAN_INVALID"
                    /\ reason \in {"PLAN_INTEGRITY_FAILED", "REQUEST_INTEGRITY_FAILED",
                                   "UNKNOWN_PROPOSAL_ID", "DUPLICATE_PROPOSAL_ID"}
                 \/ outcome = "RESOURCE_LIMIT_REACHED" /\ reason = "RESOURCE_LIMIT_REACHED"
                 \/ outcome = "NOTHING_REQUESTED" /\ reason = "NOTHING_REQUESTED" /\ asked = 0
BY DEF StructuralFault

LEMMA StructuralIs ==
    ASSUME NEW outcome, NEW reason, NEW found, NEW asked
    PROVE  LET b == _structural_batch(outcome, reason, found, asked) IN
           /\ b.call = "review" /\ b.outcome = outcome /\ b.reasons = {reason}
           /\ b.entries = {} /\ b.selection = NoDecision
           /\ b.discovered = found /\ b.requested = asked
BY DEF _structural_batch, _review_batch

\* What the end of a review says.
Concluded(r, p, ans) ==
    LET selection == select(ReviewItems(r.staged))
        asked == Cardinality(r.staged)
    IN  \/ \E found : ans = _structural_batch("RESOURCE_LIMIT_REACHED", "RESOURCE_LIMIT_REACHED",
                                              found, asked)
        \/ ans = Raised("review")
        \/ /\ DOMAIN ReviewItems(r.staged) # {} => selection.items # {}
           /\ \E decisions \in [Selected(selection) -> DecisionType] :
                 LET entries == Entries(r.staged, selection, decisions)
                     outcome == ReviewOutcome(entries)
                 IN  ans = _review_batch(outcome, ReviewReasons(outcome),
                               Cardinality(p.proposals), asked, entries, selection)

LEMMA ConcludeSays ==
    ASSUME NEW evaluation \in {"decided", "raises", "too_long"}, ReviewConcludes(evaluation)
    PROVE  Concluded(review, plan, answer')
<1>1. CASE DOMAIN ReviewItems(review.staged) # {} /\ select(ReviewItems(review.staged)).items = {}
  BY <1>1 DEF ReviewConcludes, Concluded
<1>2. CASE ~(DOMAIN ReviewItems(review.staged) # {} /\ select(ReviewItems(review.staged)).items = {})
  <2>1. CASE evaluation = "raises"
    BY <1>2, <2>1 DEF ReviewConcludes, Concluded
  <2>2. CASE evaluation = "too_long"
    BY <1>2, <2>2 DEF ReviewConcludes, Concluded
  <2>3. CASE evaluation = "decided"
    BY <1>2, <2>3 DEF ReviewConcludes, Concluded
  <2> QED
    BY <2>1, <2>2, <2>3
<1> QED
  BY <1>1, <1>2

\* What a step may answer.
LEMMA AnswersAre ==
    ASSUME Kernel, CNext
    PROVE  \/ answer' = NoAnswer
           \/ \E p, now : answer' = stage(p, now)
           \/ \E batch \in Offers : answer' = select(batch)
           \/ answer' = Raised("prepare")
           \/ \E now \in Times : now >= 0 /\ answer' = discover(now, PurgedRecent(now))
           \/ \E p, ids, twice, form : answer' \in StructuralFault(p, ids, twice, form)
           \/ review # NoReview /\ review.todo = {} /\ Concluded(review, plan, answer')
<1>1. ASSUME NEW ids, NEW twice, NEW form, NEW now, ReviewBegins(ids, twice, form, now)
      PROVE  \/ answer' = NoAnswer
             \/ answer' \in StructuralFault(plan, ids, twice, form)
  BY <1>1 DEF ReviewBegins
<1>2. ASSUME NEW now \in Times, prepare(now)
      PROVE  \/ answer' = Raised("prepare")
             \/ now >= 0 /\ answer' = discover(now, PurgedRecent(now))
  <2>1. now \in Int
    BY DEF Times, None
  <2> QED
    BY <1>2, <2>1 DEF prepare
<1>3. ASSUME NEW evaluation \in {"decided", "raises", "too_long"}, ReviewConcludes(evaluation)
      PROVE  review # NoReview /\ review.todo = {} /\ Concluded(review, plan, answer')
  BY <1>3, ConcludeSays DEF ReviewConcludes
<1> QED
  BY <1>1, <1>2, <1>3 DEF CNext, MemoryStep, CallerStages, CallerSelects, ReviewStages

LEMMA ConcludedAgrees ==
    ASSUME Kernel, review # NoReview, NEW ans, Concluded(review, plan, ans),
           ans.call = "review", "raised" \notin DOMAIN ans,
           NEW e \in ans.entries, NEW f \in ans.entries, e.evaluated, f.evaluated, e # f
    PROVE  ~SameIdentity(e.result.candidate, f.result.candidate)
<1> DEFINE staged == review.staged
           selection == select(ReviewItems(staged))
<1>1. StagingsKept(staged, review.todo)
  BY DEF Kernel, ReviewMade
<1>2. PICK decisions \in [Selected(selection) -> DecisionType] :
         ans.entries = Entries(staged, selection, decisions)
  <2>1. ans # Raised("review")
    BY DEF Raised
  <2>2. \A found, asked : ans # _structural_batch("RESOURCE_LIMIT_REACHED",
                                                "RESOURCE_LIMIT_REACHED", found, asked)
    BY StructuralIs
  <2>3. PICK decisions \in [Selected(selection) -> DecisionType] :
           \E outcome, reasons, found, asked :
               ans = _review_batch(outcome, reasons, found, asked,
                                   Entries(staged, selection, decisions), selection)
    BY <2>1, <2>2 DEF Concluded
  <2>4. ans.entries = Entries(staged, selection, decisions)
    BY <2>3 DEF _review_batch
  <2> QED
    BY <2>4
<1>3. DOMAIN decisions = Selected(selection)
  BY <1>2
<1> QED
  BY <1>1, <1>2, <1>3, EvaluationsAgree

LEMMA AgreeNext == Kernel /\ EvaluatedAgree /\ [CNext]_allVars => EvaluatedAgree'
<1> SUFFICES ASSUME Kernel, EvaluatedAgree, [CNext]_allVars PROVE EvaluatedAgree'
  OBVIOUS
<1>1. CASE UNCHANGED allVars
  BY <1>1 DEF allVars, cvars, EvaluatedAgree
<1>2. CASE CNext
  <2> SUFFICES ASSUME answer'.call = "review", "raised" \notin DOMAIN answer',
                      NEW e \in answer'.entries, NEW f \in answer'.entries,
                      e.evaluated, f.evaluated, e # f
               PROVE  ~SameIdentity(e.result.candidate, f.result.candidate)
    BY DEF EvaluatedAgree
  <2>1. answer' # NoAnswer /\ answer' # Raised("prepare")
    BY DEF NoAnswer, Raised
  <2>2. \A p, now : answer' # stage(p, now)
    BY StageIs DEF StagedAs
  <2>3. \A batch \in Offers : answer' # select(batch)
    <3> SUFFICES ASSUME NEW batch \in Offers PROVE select(batch).call = "select"
      OBVIOUS
    <3> QED
      BY CallersAssumption, SelectIs DEF _batch_rejection, _selection_decision
  <2>4. \A now \in Times : answer' # discover(now, PurgedRecent(now))
    <3> SUFFICES ASSUME NEW now \in Times
                 PROVE  discover(now, PurgedRecent(now)).call = "discover"
      OBVIOUS
    <3>1. PurgedRecent(now) \subseteq Ids
      BY RecentIsKnown DEF PurgedRecent, Kept, Kernel
    <3> QED
      BY <3>1, DiscoverProposes
  <2>5. \A p, ids, twice, form : answer' \notin StructuralFault(p, ids, twice, form)
    BY FaultsAre, StructuralIs
  <2>6. review # NoReview /\ Concluded(review, plan, answer')
    BY <1>2, <2>1, <2>2, <2>3, <2>4, <2>5, AnswersAre
  <2> QED
    BY <2>6, ConcludedAgrees
<1> QED
  BY <1>1, <1>2

\* Whatever the memory lost, expired or reset between discovery and a staging, a
\* review stages (stage) what the memory held with its frame and interpretation
\* while the review ran, and select lets no two candidates be evaluated that repeat
\* or contradict each other.
THEOREM ReviewsStaySound == CSpec => []ReviewsSound
<1>1. CInit => Kernel /\ EvaluatedAgree
  <2>1. CInit => EvaluatedAgree
    BY DEF CInit, EvaluatedAgree, NoAnswer
  <2> QED
    BY <2>1, KernelInit
<1>2. Kernel /\ EvaluatedAgree /\ [CNext]_allVars => (Kernel /\ EvaluatedAgree)'
  BY KernelNext, AgreeNext
<1>3. Kernel /\ EvaluatedAgree => ReviewsSound
  BY DEF Kernel, ReviewsSound
<1> QED
  BY <1>1, <1>2, <1>3, PTL DEF CSpec

--------------------------------------------------------------------------------
(* The documents construct: selection. *)

LEMMA CountsAddUp ==
    ASSUME NEW batch, NEW n \in Nat, DOMAIN batch = 1..n, NEW items, items = DecisionsOn(batch)
    PROVE  LET Count(d) == d.count IN n = Total(items, Count)
<1> DEFINE Before(c, k) == {j \in Positions(batch, c) : j < k}
           R == {p \in (1..n) \X (1..n) : p[2] < p[1]}
           who(k) == ItemDecision(batch, batch[k].candidate)
           rank(c, k) == 1 + Cardinality(After(Positions(batch, c), R, k))
           f == [k \in 1..n |-> <<who(k), rank(batch[k].candidate, k)>>]
           T == UNION {{d} \X (1..d.count) : d \in items}
<1>1. IsFiniteSet(1..n) /\ Cardinality(1..n) = n
  BY FS_Interval
<1>2. \A c : Positions(batch, c) \subseteq 1..n /\ IsFiniteSet(Positions(batch, c))
  <2>1. \A c : Positions(batch, c) \subseteq 1..n
    BY DEF Positions
  <2> QED
    BY <1>1, <2>1, FS_Subset
<1>3. \A c : Strict(Positions(batch, c), R) /\ Linear(Positions(batch, c), R)
  BY <1>2 DEF Strict, Linear
<1>4. ASSUME NEW c
      PROVE  LET P == Positions(batch, c) IN
             /\ \A k \in P : rank(c, k) \in 1..Cardinality(P)
             /\ \A j, k \in P : rank(c, j) = rank(c, k) => j = k
             /\ \A m \in 1..Cardinality(P) : \E k \in P : rank(c, k) = m
  <2> HIDE DEF R
  <2> QED
    BY <1>2, <1>3, PlacesAreTaken
<1>5. \A c, k : k \in Positions(batch, c) <=> k \in 1..n /\ batch[k].candidate = c
  BY DEF Positions
<1>6. \A k \in 1..n : /\ who(k).candidate = batch[k].candidate
                      /\ who(k).count = Cardinality(Positions(batch, batch[k].candidate))
  BY DEF ItemDecision
<1>7. \A d : d \in items <=> \E k \in 1..n : d = who(k)
  BY DEF DecisionsOn
<1>8. \A k \in 1..n : f[k] = <<who(k), rank(batch[k].candidate, k)>>
  OBVIOUS
<1>9. \A y : y \in T <=> \E d \in items : y \in {d} \X (1..d.count)
  OBVIOUS
<1>10. DOMAIN f = 1..n
  OBVIOUS
<1>11. \A j, k \in 1..n : who(j).candidate = who(k).candidate => who(j) = who(k)
  BY <1>6
<1> HIDE DEF who, rank, f, T, R
<1>12. ASSUME NEW k \in 1..n PROVE f[k] \in T
  <2>1. rank(batch[k].candidate, k) \in 1..who(k).count
    BY <1>4, <1>5, <1>6
  <2> QED
    BY <1>7, <1>8, <1>9, <2>1
<1>13. ASSUME NEW y \in T PROVE \E k \in 1..n : f[k] = y
  <2>1. PICK j \in 1..n : y \in {who(j)} \X (1..who(j).count)
    BY <1>7, <1>9
  <2>2. PICK m \in 1..who(j).count : y = <<who(j), m>>
    BY <2>1
  <2>3. PICK k \in Positions(batch, batch[j].candidate) : rank(batch[j].candidate, k) = m
    BY <1>4, <1>6, <2>2
  <2>4. k \in 1..n /\ batch[k].candidate = batch[j].candidate
    BY <1>5, <2>3
  <2>5. who(k) = who(j)
    BY <1>6, <1>11, <2>4
  <2> QED
    BY <1>8, <2>2, <2>3, <2>4, <2>5
<1>14. ASSUME NEW j \in 1..n, NEW k \in 1..n, f[j] = f[k] PROVE j = k
  <2>1. who(j) = who(k) /\ rank(batch[j].candidate, j) = rank(batch[k].candidate, k)
    BY <1>8, <1>14
  <2>2. batch[j].candidate = batch[k].candidate
    BY <1>6, <2>1
  <2>3. j \in Positions(batch, batch[j].candidate) /\ k \in Positions(batch, batch[j].candidate)
    BY <1>5, <2>2
  <2> QED
    BY <1>4, <2>1, <2>2, <2>3
<1>15. Cardinality(T) = n
  BY <1>1, <1>10, <1>12, <1>13, <1>14, ImageHasSize
<1> QED
  BY <1>15 DEF Total, T

LEMMA SelectConstructs ==
    ASSUME NEW batch, NEW n \in Nat, DOMAIN batch = 1..n
    PROVE  CandidateSelectionDecision(select(batch))
<1> DEFINE s == select(batch)
           items == DecisionsOn(batch)
<1>1. IsFiniteSet(DOMAIN batch) /\ Cardinality(DOMAIN batch) = n
  BY FS_Interval
<1>2. CASE \/ n = 0 /\ s = _batch_rejection(0, "INSUFFICIENT_EVIDENCE")
           \/ n # 0 /\ s = _batch_rejection(n, "RESOURCE_LIMIT_EXCEEDED")
  <2>1. /\ s.items = {} /\ s.outcome = "REJECT_SELECTION" /\ s.input = n
        /\ s.reasons = IF n = 0 THEN {"INSUFFICIENT_EVIDENCE"} ELSE {"RESOURCE_LIMIT_EXCEEDED"}
    <3> HIDE DEF s
    <3>1. CASE n = 0 /\ s = _batch_rejection(0, "INSUFFICIENT_EVIDENCE")
      BY <3>1 DEF _batch_rejection
    <3>2. CASE n # 0 /\ s = _batch_rejection(n, "RESOURCE_LIMIT_EXCEEDED")
      BY <3>2 DEF _batch_rejection
    <3> QED
      BY <1>2, <3>1, <3>2
  <2> HIDE DEF s
  <2>2. CandidateSelectionDecision(s)
    BY <2>1 DEF CandidateSelectionDecision, Total
  <2> QED
    BY <2>2 DEF s
<1>3. CASE n # 0 /\ n <= MaxSelection /\ s = _selection_decision(items, n)
  <2>1. \A d : d \in items <=>
               \E k \in DOMAIN batch : d = ItemDecision(batch, batch[k].candidate)
    BY DEF DecisionsOn
  <2>2. items # {}
    BY <1>3, <2>1
  <2>3. \A d \in items : CandidateSelectionItemDecision(d)
    BY <1>1, <1>3, <2>1, ItemDecided
  <2>4. \A d, e \in items : d.candidate = e.candidate => d = e
    <3>1. \A c : ItemDecision(batch, c).candidate = c
      BY DEF ItemDecision
    <3> QED
      BY <2>1, <3>1
  <2>5. /\ s.items = items /\ s.input = n /\ s.outcome = _batch_outcome(items)
        /\ s.reasons = IF s.outcome = "SELECT_FOR_REVIEW" THEN UNION {d.reasons : d \in items}
                       ELSE (UNION {d.reasons : d \in items}) \ {"ELIGIBLE_FOR_REVIEW"}
    BY <1>3 DEF _selection_decision
  <2>6. s.reasons # {}
    <3> HIDE DEF items, s
    <3>1. CASE s.outcome = "SELECT_FOR_REVIEW"
      <4>1. PICK d \in items : TRUE
        BY <2>2
      <4>2. d.reasons # {}
        BY <2>3 DEF CandidateSelectionItemDecision
      <4> QED
        BY <2>5, <3>1, <4>1, <4>2
    <3>2. CASE s.outcome # "SELECT_FOR_REVIEW"
      <4>1. PICK d \in items : d.outcome # "SELECT_FOR_REVIEW"
        BY <2>5, <3>2 DEF _batch_outcome
      <4>2. d.reasons # {} /\ "ELIGIBLE_FOR_REVIEW" \notin d.reasons
        BY <2>3, <4>1 DEF CandidateSelectionItemDecision
      <4> QED
        BY <2>5, <3>2, <4>1, <4>2
    <3> QED
      BY <3>1, <3>2
  <2>7. LET Count(d) == d.count IN s.input = Total(s.items, Count)
    <3>1. s.items = DecisionsOn(batch) /\ s.input = n
      BY <2>5
    <3> HIDE DEF s, items
    <3> QED
      BY <3>1, CountsAddUp
  <2> HIDE DEF items, s
  <2> QED
    BY <2>2, <2>3, <2>4, <2>5, <2>6, <2>7 DEF CandidateSelectionDecision, s
<1> QED
  BY <1>1, <1>2, <1>3, SelectIs

--------------------------------------------------------------------------------
(* The documents construct: discovery. *)

\* Proposals and diagnostics each have a place of their own in the order in which
\* the bounds cut them off.
ProposalR(S) == {p \in S \X S : ProposalBefore(p[2], p[1])}
DiagnosticR(S) == {p \in S \X S : _diagnostic_key(p[2], p[1])}

Keyed(D) ==
    /\ IsFiniteSet(D) /\ \A d \in D : d.evidence \in Int /\ d.item \in Int
    /\ \A d, e \in D \ {RESOURCE} : d.evidence = e.evidence /\ d.item = e.item => d = e

LEMMA MadeOrdered ==
    ASSUME NEW S, \A p \in S : Made(p)
    PROVE  Strict(S, ProposalR(S)) /\ Linear(S, ProposalR(S))
<1>1. \A p \in S : p.obs \in Nat /\ p.item \in Nat
  BY MadeIs
<1>2. \A p, q \in S : p.obs = q.obs /\ p.item = q.item => p = q
  BY SameItemSameProposal
<1>3. \A p, q \in S : <<p, q>> \in ProposalR(S) <=> ProposalBefore(q, p)
  BY DEF ProposalR
<1>4. Strict(S, ProposalR(S))
  <2>1. ASSUME NEW p \in S PROVE <<p, p>> \notin ProposalR(S)
    BY <1>1, <1>3 DEF ProposalBefore
  <2>2. ASSUME NEW p \in S, NEW q \in S, NEW u \in S,
               <<p, q>> \in ProposalR(S), <<q, u>> \in ProposalR(S)
        PROVE  <<p, u>> \in ProposalR(S)
    BY <1>1, <1>3, <2>2 DEF ProposalBefore
  <2> QED
    BY <2>1, <2>2 DEF Strict
<1>5. Linear(S, ProposalR(S))
  <2>1. ASSUME NEW p \in S, NEW q \in S
        PROVE  p = q \/ <<p, q>> \in ProposalR(S) \/ <<q, p>> \in ProposalR(S)
    BY <1>1, <1>2, <1>3 DEF ProposalBefore
  <2> QED
    BY <2>1 DEF Linear
<1> QED
  BY <1>4, <1>5

LEMMA KeyedOrdered ==
    ASSUME NEW D, Keyed(D), NEW S, S = D \ {RESOURCE}
    PROVE  IsFiniteSet(S) /\ Strict(S, DiagnosticR(S)) /\ Linear(S, DiagnosticR(S))
<1>1. \A d \in S : d.evidence \in Int /\ d.item \in Int
  BY DEF Keyed
<1>2. \A d, e \in S : d.evidence = e.evidence /\ d.item = e.item => d = e
  BY DEF Keyed
<1>3. \A d, e \in S : <<d, e>> \in DiagnosticR(S) <=> _diagnostic_key(e, d)
  BY DEF DiagnosticR
<1>4. Strict(S, DiagnosticR(S))
  <2>1. ASSUME NEW d \in S PROVE <<d, d>> \notin DiagnosticR(S)
    <3>1. d.evidence \in Int /\ d.item \in Int
      BY <1>1
    <3>2. ~_diagnostic_key(d, d)
      BY <3>1 DEF _diagnostic_key
    <3> QED
      BY <1>3, <3>2
  <2>2. ASSUME NEW d \in S, NEW e \in S, NEW u \in S,
               <<d, e>> \in DiagnosticR(S), <<e, u>> \in DiagnosticR(S)
        PROVE  <<d, u>> \in DiagnosticR(S)
    BY <1>1, <1>3, <2>2 DEF _diagnostic_key
  <2> QED
    BY <2>1, <2>2 DEF Strict
<1>5. Linear(S, DiagnosticR(S))
  <2>1. ASSUME NEW d \in S, NEW e \in S
        PROVE  d = e \/ <<d, e>> \in DiagnosticR(S) \/ <<e, d>> \in DiagnosticR(S)
    <3>1. d.evidence \in Int /\ d.item \in Int /\ e.evidence \in Int /\ e.item \in Int
      BY <1>1
    <3>2. d = e \/ _diagnostic_key(d, e) \/ _diagnostic_key(e, d)
      BY <1>2, <3>1 DEF _diagnostic_key
    <3> QED
      BY <1>3, <3>2
  <2> QED
    BY <2>1 DEF Linear
<1>6. IsFiniteSet(S)
  BY FS_Subset DEF Keyed
<1> QED
  BY <1>4, <1>5, <1>6

LEMMA FirstIsLast ==
    ASSUME NEW S, NEW n
    PROVE  /\ First(S, n, ProposalBefore) = Last(S, n, ProposalR(S))
           /\ First(S, n, _diagnostic_key) = Last(S, n, DiagnosticR(S))
<1>1. \A x \in S : {y \in S : ProposalBefore(y, x)} = After(S, ProposalR(S), x)
  BY DEF After, ProposalR
<1>2. \A x \in S : {y \in S : _diagnostic_key(y, x)} = After(S, DiagnosticR(S), x)
  BY DEF After, DiagnosticR
<1>3. ASSUME NEW x
      PROVE  x \in First(S, n, ProposalBefore) <=> x \in Last(S, n, ProposalR(S))
  BY <1>1 DEF First, Last
<1>4. ASSUME NEW x
      PROVE  x \in First(S, n, _diagnostic_key) <=> x \in Last(S, n, DiagnosticR(S))
  BY <1>2 DEF First, Last
<1> QED
  BY <1>3, <1>4

\* What a bound that is not reached cuts off: nothing.
LEMMA FirstOfFew ==
    ASSUME NEW S, IsFiniteSet(S), NEW n \in Nat, Cardinality(S) <= n,
           \A p \in S : Made(p)
    PROVE  First(S, n, ProposalBefore) = S
<1>1. ASSUME NEW x \in S PROVE x \in Last(S, n, ProposalR(S))
  <2>1. 1 + Cardinality(After(S, ProposalR(S), x)) \in 1..Cardinality(S)
    BY MadeOrdered, PlacesAreTaken
  <2>2. Cardinality(After(S, ProposalR(S), x)) \in Nat /\ Cardinality(S) \in Nat
    BY AfterIsFinite, FS_CardinalityType
  <2>3. Cardinality(After(S, ProposalR(S), x)) < n
    BY <2>1, <2>2
  <2> QED
    BY <2>3 DEF Last
<1>2. Last(S, n, ProposalR(S)) \subseteq S
  BY DEF Last
<1> QED
  BY <1>1, <1>2, FirstIsLast

LEMMA FirstProposalsFew ==
    ASSUME NEW S, IsFiniteSet(S), NEW n \in Nat \ {0}, \A p \in S : Made(p)
    PROVE  IsFiniteSet(First(S, n, ProposalBefore)) /\ Cardinality(First(S, n, ProposalBefore)) <= n
BY FirstIsLast, LastAreFew, MadeOrdered

\* With the diagnostic of the limit in their first place they are within the bound.
LEMMA LimitedDiagnosticsFew ==
    ASSUME NEW D, Keyed(D)
    PROVE  /\ IsFiniteSet(_with_resource_diagnostic(D))
           /\ Cardinality(_with_resource_diagnostic(D)) <= MaxDiagnostics
           /\ _with_resource_diagnostic(D) \subseteq {RESOURCE} \cup D
           /\ RESOURCE \in _with_resource_diagnostic(D)
<1> DEFINE S == D \ {RESOURCE}
           F == First(S, MaxDiagnostics - 1, _diagnostic_key)
<1>1. MaxDiagnostics \in Nat \ {0}
  BY LimitsAssumption
<1>2. IsFiniteSet(S) /\ Strict(S, DiagnosticR(S)) /\ Linear(S, DiagnosticR(S))
  BY KeyedOrdered
<1>3. F \subseteq S
  BY FirstAreSome
<1> HIDE DEF S
<1>4. IsFiniteSet(F) /\ Cardinality(F) \in Nat /\ Cardinality(F) <= MaxDiagnostics - 1
  <2>1. IsFiniteSet(F) /\ Cardinality(F) \in Nat
    BY <1>2, <1>3, FS_Subset, FS_CardinalityType
  <2>2. CASE MaxDiagnostics = 1
    <3>1. ASSUME NEW x \in S PROVE x \notin F
      <4>1. Cardinality(After(S, DiagnosticR(S), x)) \in Nat
        BY <1>2, AfterIsFinite
      <4>2. x \notin Last(S, 0, DiagnosticR(S))
        BY <4>1 DEF Last
      <4> QED
        BY <2>2, <4>2, FirstIsLast
    <3>2. F = {}
      BY <1>3, <3>1
    <3> QED
      BY <2>1, <2>2, <3>2, FS_EmptySet
  <2>3. CASE MaxDiagnostics # 1
    <3>1. MaxDiagnostics - 1 \in Nat \ {0}
      BY <1>1, <2>3
    <3>2. Cardinality(Last(S, MaxDiagnostics - 1, DiagnosticR(S))) <= MaxDiagnostics - 1
      BY <1>2, <3>1, LastAreFew
    <3> QED
      BY <2>1, <3>2, FirstIsLast
  <2> QED
    BY <2>2, <2>3
<1> HIDE DEF F
<1>5. IsFiniteSet(F \cup {RESOURCE}) /\ Cardinality(F \cup {RESOURCE}) <= Cardinality(F) + 1
  <2>1. IsFiniteSet(F)
    BY <1>4
  <2>2. /\ IsFiniteSet(F \cup {RESOURCE})
        /\ Cardinality(F \cup {RESOURCE}) = IF RESOURCE \in F THEN Cardinality(F)
                                            ELSE Cardinality(F) + 1
    BY <2>1, FS_AddElement
  <2> QED
    BY <1>4, <2>2
<1>6. _with_resource_diagnostic(D) = F \cup {RESOURCE}
  BY DEF _with_resource_diagnostic, F, S
<1>7. Cardinality(F \cup {RESOURCE}) \in Nat
  BY <1>5, FS_CardinalityType
<1> QED
  BY <1>1, <1>3, <1>4, <1>5, <1>6, <1>7 DEF S

LEMMA StillKeyed ==
    ASSUME NEW D, Keyed(D)
    PROVE  Keyed(_with_resource_diagnostic(D))
<1>1. /\ IsFiniteSet(_with_resource_diagnostic(D))
      /\ _with_resource_diagnostic(D) \subseteq {RESOURCE} \cup D
  BY LimitedDiagnosticsFew
<1>2. RESOURCE.evidence \in Int /\ RESOURCE.item \in Int
  BY DEF RESOURCE, Overall, Diagnostic, None
<1> QED
  BY <1>1, <1>2 DEF Keyed

\* The result of discovery constructs, and says so when it leaves a proposal out.
LEMMA ResultConstructs ==
    ASSUME NEW P, IsFiniteSet(P), \A p \in P : Made(p), NEW D, Keyed(D), P # {} \/ D # {},
           \A p \in P : _validate_anonymous_semantic_request(p),
           \A d \in D : d.reason # "DISCOVERABLE" /\ (d.item # None => d.evidence # None),
           NEW retained \in Nat, NEW inspected \in 0..retained, inspected <= MaxEvidence,
           NEW forced \in {"none", "DISCOVERY_INELIGIBLE"}, forced # "none" => P = {},
           NEW limited \in BOOLEAN,
           \A d \in D : d.reason = "RESOURCE_LIMIT_REACHED" => limited
    PROVE  LET r == _result(P, D, retained, inspected, forced, limited) IN
           /\ CandidateDiscoveryResult(r)
           /\ r.outcome # "RESOURCE_LIMIT_REACHED" => r.proposals = P
<1> DEFINE r == _result(P, D, retained, inspected, forced, limited)
           K == First(P, MaxProposals, ProposalBefore)
           short == \/ limited \/ Cardinality(P) > MaxProposals
                    \/ Cardinality(D) > MaxDiagnostics
           said == IF short THEN _with_resource_diagnostic(D) ELSE D
           over == _aggregate_characters(K, said) > MaxCharacters
           fit == Fitting(K, _with_resource_diagnostic(said))
<1>1. /\ r.proposals = IF over THEN fit.proposals ELSE K
      /\ r.diagnostics = IF over THEN fit.diagnostics ELSE said
      /\ r.reasons = DiscoveryReasons(r.proposals, r.diagnostics)
      /\ r.outcome = DiscoveryOutcome(r.proposals, forced, short \/ over)
      /\ r.retained = retained /\ r.inspected = inspected
  BY DEF _result
<1>2. IsFiniteSet(K) /\ K \subseteq P /\ Cardinality(K) <= MaxProposals
  BY LimitsAssumption, FirstProposalsFew, FirstAreSome
<1>3. Keyed(said)
  BY StillKeyed
<1> HIDE DEF said, fit, K, over
<1>4. r.proposals \subseteq K
  BY <1>1, FittingIsSome DEF fit
<1>5. r.proposals \subseteq P /\ Cardinality(r.proposals) <= MaxProposals
  <2>1. Cardinality(r.proposals) <= Cardinality(K) /\ IsFiniteSet(r.proposals)
    BY <1>2, <1>4, FS_Subset
  <2>2. Cardinality(r.proposals) \in Nat /\ Cardinality(K) \in Nat /\ MaxProposals \in Nat
    BY <1>2, <2>1, FS_CardinalityType, LimitsAssumption
  <2> QED
    BY <1>2, <1>4, <2>1, <2>2
<1>6. RESOURCE.reason = "RESOURCE_LIMIT_REACHED" /\ RESOURCE.item = None
  BY DEF RESOURCE, Overall, Diagnostic
<1>7. CASE short \/ over
  <2>1. /\ r.diagnostics \subseteq {RESOURCE} \cup D /\ RESOURCE \in r.diagnostics
        /\ Cardinality(r.diagnostics) <= MaxDiagnostics
    <3>1. CASE over
      <4> DEFINE W == _with_resource_diagnostic(said)
      <4>1. /\ IsFiniteSet(W) /\ Cardinality(W) <= MaxDiagnostics
            /\ W \subseteq {RESOURCE} \cup said /\ RESOURCE \in W
        BY <1>3, LimitedDiagnosticsFew
      <4>2. said \subseteq {RESOURCE} \cup D
        BY LimitedDiagnosticsFew DEF said
      <4>3. r.diagnostics = fit.diagnostics /\ fit = Fitting(K, W)
        BY <1>1, <3>1 DEF fit
      <4> HIDE DEF W, r
      <4>4. r.diagnostics \subseteq W /\ RESOURCE \in r.diagnostics
        BY <4>1, <4>3, FittingIsSome
      <4>5. Cardinality(r.diagnostics) <= Cardinality(W) /\ IsFiniteSet(r.diagnostics)
        BY <4>1, <4>4, FS_Subset
      <4>6. Cardinality(r.diagnostics) \in Nat /\ Cardinality(W) \in Nat /\ MaxDiagnostics \in Nat
        BY <4>1, <4>5, FS_CardinalityType, LimitsAssumption
      <4> QED
        BY <4>1, <4>2, <4>4, <4>5, <4>6
    <3>2. CASE ~over
      <4>1. r.diagnostics = _with_resource_diagnostic(D)
        BY <1>1, <1>7, <3>2 DEF said
      <4> QED
        BY <4>1, LimitedDiagnosticsFew
    <3> QED
      BY <3>1, <3>2
  <2>2. r.outcome = "RESOURCE_LIMIT_REACHED"
    BY <1>1, <1>7 DEF DiscoveryOutcome
  <2> HIDE DEF r
  <2>3. \A d \in r.diagnostics : d.reason # "DISCOVERABLE" /\ (d.item # None => d.evidence # None)
    BY <1>6, <2>1
  <2>4. "RESOURCE_LIMIT_REACHED" \in r.reasons
    BY <1>1, <1>6, <2>1 DEF DiscoveryReasons
  <2>5. r.proposals # {} <=> "DISCOVERABLE" \in r.reasons
    BY <1>1, <2>3 DEF DiscoveryReasons
  <2>6. CandidateDiscoveryResult(r)
    BY <1>1, <1>5, <2>1, <2>2, <2>3, <2>4, <2>5 DEF CandidateDiscoveryResult
  <2> QED
    BY <2>2, <2>6 DEF r
<1>8. CASE ~(short \/ over)
  <2>1. r.diagnostics = D /\ r.proposals = K /\ ~limited
    BY <1>1, <1>8 DEF said
  <2>2. K = P
    <3>1. Cardinality(P) \in Nat /\ MaxProposals \in Nat
      BY FS_CardinalityType, LimitsAssumption
    <3>2. Cardinality(P) <= MaxProposals
      BY <1>8, <3>1
    <3> QED
      BY <3>1, <3>2, FirstOfFew DEF K
  <2>3. Cardinality(D) <= MaxDiagnostics
    <3>1. Cardinality(D) \in Nat /\ MaxDiagnostics \in Nat
      BY FS_CardinalityType, LimitsAssumption DEF Keyed
    <3> QED
      BY <1>8, <3>1
  <2>4. r.outcome = DiscoveryOutcome(P, forced, FALSE)
    BY <1>1, <1>8, <2>1, <2>2
  <2> HIDE DEF r
  <2>5. r.reasons = {d.reason : d \in D} \cup (IF P # {} THEN {"DISCOVERABLE"} ELSE {})
    BY <1>1, <2>1, <2>2 DEF DiscoveryReasons
  <2>6. "RESOURCE_LIMIT_REACHED" \notin r.reasons /\ (P # {} <=> "DISCOVERABLE" \in r.reasons)
        /\ r.reasons # {}
    BY <2>1, <2>5
  <2>7. /\ r.outcome = "PROPOSALS_DISCOVERED" => P # {}
        /\ r.outcome \in {"NO_DISCOVERABLE_PROPOSALS", "DISCOVERY_INELIGIBLE"} => P = {}
        /\ r.outcome # "RESOURCE_LIMIT_REACHED"
    BY <2>4 DEF DiscoveryOutcome
  <2>8. CandidateDiscoveryResult(r)
    BY <1>1, <1>5, <2>1, <2>2, <2>3, <2>6, <2>7 DEF CandidateDiscoveryResult
  <2> QED
    BY <2>1, <2>2, <2>8 DEF r
<1> QED
  BY <1>7, <1>8

LEMMA SomeImageFinite ==
    ASSUME NEW S, IsFiniteSet(S), NEW f, NEW T, \A y \in T : \E x \in S : f[x] = y
    PROVE  IsFiniteSet(T)
<1> DEFINE U == {x \in S : f[x] \in T}
           g == [x \in U |-> f[x]]
<1>1. IsFiniteSet(U)
  BY FS_Subset
<1>2. g \in Surjection(U, T)
  BY DEF Surjection
<1> HIDE DEF U, g
<1> QED
  BY <1>1, <1>2, FS_Surjection

LEMMA SomeUnionFinite ==
    ASSUME NEW S, IsFiniteSet(S), NEW f, \A x \in S : IsFiniteSet(f[x]),
           NEW T, \A y \in T : \E x \in S : y \in f[x]
    PROVE  IsFiniteSet(T)
<1> DEFINE R == {f[x] : x \in S}
<1>1. \A y \in R : \E x \in S : f[x] = y
  OBVIOUS
<1>2. \A y \in R : IsFiniteSet(y)
  OBVIOUS
<1>3. T \subseteq UNION R
  OBVIOUS
<1> HIDE DEF R
<1>4. IsFiniteSet(R)
  BY <1>1, SomeImageFinite
<1>5. IsFiniteSet(UNION R)
  BY <1>2, <1>4, FS_UNION
<1> QED
  BY <1>3, <1>5, FS_Subset

EvidenceDiagnostic(i, now) ==
    Diagnostic(IF _common_ineligibility_reason(i, now) # "none"
               THEN _common_ineligibility_reason(i, now)
               ELSE "UNSUPPORTED_EVIDENCE_KIND", i, None)

ItemDiagnostic(i, x, retained) == Diagnostic(ItemReason(i, x, retained), i, x.id)

\* Every envelope is answered for: by a diagnostic of its own, or by a proposal or a
\* diagnostic for each of its items.
LEMMA FoundMembers ==
    ASSUME NEW retained, NEW now
    PROVE  /\ \A d : d \in EvidenceDiagnostics(retained, now) <=>
                  \E i \in retained : /\ \/ _common_ineligibility_reason(i, now) # "none"
                                         \/ ~Semantic(i)
                                      /\ d = EvidenceDiagnostic(i, now)
           /\ \A d : d \in ItemDiagnostics(retained, now) <=>
                  \E i \in Discoverable(retained, now) : \E x \in Items[i] :
                      /\ ItemReason(i, x, retained) # "none"
                      /\ d = ItemDiagnostic(i, x, retained)
           /\ \A p : p \in Proposals(retained, now) <=>
                  \E i \in Discoverable(retained, now) : \E x \in Items[i] :
                      /\ ItemReason(i, x, retained) = "none"
                      /\ p = _anonymous_semantic_proposal(i, x)
           /\ \A i : i \in Discoverable(retained, now) <=>
                  /\ i \in retained /\ Semantic(i)
                  /\ _common_ineligibility_reason(i, now) = "none"
<1>1. \A d : d \in EvidenceDiagnostics(retained, now) <=>
                  \E i \in retained : /\ \/ _common_ineligibility_reason(i, now) # "none"
                                         \/ ~Semantic(i)
                                      /\ d = EvidenceDiagnostic(i, now)
  BY DEF EvidenceDiagnostics, EvidenceDiagnostic
<1>2. \A d : d \in ItemDiagnostics(retained, now) <=>
                  \E i \in Discoverable(retained, now) : \E x \in Items[i] :
                      /\ ItemReason(i, x, retained) # "none"
                      /\ d = ItemDiagnostic(i, x, retained)
  BY DEF ItemDiagnostics, ItemDiagnostic
<1>3. \A p : p \in Proposals(retained, now) <=>
                  \E i \in Discoverable(retained, now) : \E x \in Items[i] :
                      /\ ItemReason(i, x, retained) = "none"
                      /\ p = _anonymous_semantic_proposal(i, x)
  BY DEF Proposals
<1>4. \A i : i \in Discoverable(retained, now) <=>
                  /\ i \in retained /\ Semantic(i)
                  /\ _common_ineligibility_reason(i, now) = "none"
  BY DEF Discoverable
<1> QED
  BY <1>1, <1>2, <1>3, <1>4

LEMMA FoundFinite ==
    ASSUME NEW retained, retained \subseteq Ids, IsFiniteSet(retained), NEW now
    PROVE  /\ IsFiniteSet(Proposals(retained, now))
           /\ IsFiniteSet(EvidenceDiagnostics(retained, now) \cup ItemDiagnostics(retained, now))
<1> DEFINE said(i) == {ItemDiagnostic(i, x, retained) : x \in Items[i]}
           proposed(i) == {_anonymous_semantic_proposal(i, x) : x \in Items[i]}
           ofEvidence == [i \in retained |-> EvidenceDiagnostic(i, now)]
           ofItems == [i \in retained |-> said(i)]
           asked == [i \in retained |-> proposed(i)]
<1>1. ASSUME NEW i \in retained PROVE IsFiniteSet(said(i)) /\ IsFiniteSet(proposed(i))
  <2> DEFINE f == [x \in Items[i] |-> ItemDiagnostic(i, x, retained)]
             g == [x \in Items[i] |-> _anonymous_semantic_proposal(i, x)]
             A == said(i)
             B == proposed(i)
  <2>1. IsFiniteSet(Items[i])
    BY ItemsAssumption
  <2>2. \A y \in A : \E x \in Items[i] : f[x] = y
    OBVIOUS
  <2>3. \A y \in B : \E x \in Items[i] : g[x] = y
    OBVIOUS
  <2> HIDE DEF f, g, A, B
  <2>4. IsFiniteSet(A) /\ IsFiniteSet(B)
    BY <2>1, <2>2, <2>3, SomeImageFinite
  <2> QED
    BY <2>4 DEF A, B
<1>2. \A i \in retained : ofEvidence[i] = EvidenceDiagnostic(i, now)
  OBVIOUS
<1>3. \A i \in retained : ofItems[i] = said(i) /\ asked[i] = proposed(i)
  OBVIOUS
<1>4. \A y \in EvidenceDiagnostics(retained, now) : \E i \in retained : ofEvidence[i] = y
  BY <1>2, FoundMembers
<1>5. \A y \in ItemDiagnostics(retained, now) : \E i \in retained : y \in ofItems[i]
  BY <1>3, FoundMembers
<1>6. \A y \in Proposals(retained, now) : \E i \in retained : y \in asked[i]
  BY <1>3, FoundMembers
<1>7. \A i \in retained : IsFiniteSet(ofItems[i]) /\ IsFiniteSet(asked[i])
  BY <1>1, <1>3
<1> HIDE DEF ofEvidence, ofItems, asked
<1>8. IsFiniteSet(EvidenceDiagnostics(retained, now))
  BY <1>4, SomeImageFinite
<1>9. IsFiniteSet(ItemDiagnostics(retained, now)) /\ IsFiniteSet(Proposals(retained, now))
  BY <1>5, <1>6, <1>7, SomeUnionFinite
<1> QED
  BY <1>8, <1>9, FS_Union

LEMMA FoundKeyed ==
    ASSUME NEW retained, retained \subseteq Ids, IsFiniteSet(retained), NEW now
    PROVE  LET D == EvidenceDiagnostics(retained, now) \cup ItemDiagnostics(retained, now) IN
           /\ Keyed(D)
           /\ \A d \in D : d.reason # "DISCOVERABLE" /\ d.reason # "RESOURCE_LIMIT_REACHED"
                           /\ d.evidence # None
<1> DEFINE D == EvidenceDiagnostics(retained, now) \cup ItemDiagnostics(retained, now)
<1>1. ASSUME NEW d \in D
      PROVE  \/ \E i \in retained :
                   /\ d = EvidenceDiagnostic(i, now) /\ d.evidence = i /\ d.item = None
                   /\ _common_ineligibility_reason(i, now) # "none" \/ ~Semantic(i)
             \/ \E i \in Discoverable(retained, now) : \E x \in Items[i] :
                   /\ d = ItemDiagnostic(i, x, retained) /\ d.evidence = i /\ d.item = x.id
                   /\ d.item \in Nat
  <2>1. CASE d \in EvidenceDiagnostics(retained, now)
    BY <2>1, FoundMembers DEF EvidenceDiagnostic, Diagnostic
  <2>2. CASE d \in ItemDiagnostics(retained, now)
    <3>1. PICK i \in Discoverable(retained, now) :
             \E x \in Items[i] : d = ItemDiagnostic(i, x, retained)
      BY <2>2, FoundMembers
    <3>2. PICK x \in Items[i] : d = ItemDiagnostic(i, x, retained)
      BY <3>1
    <3>3. i \in Ids
      BY FoundMembers
    <3>4. x.id \in Nat
      BY <3>3, ItemsAssumption
    <3>5. d.evidence = i /\ d.item = x.id
      BY <3>2 DEF ItemDiagnostic, Diagnostic
    <3> QED
      BY <3>2, <3>4, <3>5
  <2> QED
    BY <2>1, <2>2
<1>2. \A i \in retained : i \in Nat /\ i # None
  BY EvidenceAssumption DEF None
<1>3. \A i \in Discoverable(retained, now) : i \in retained
  BY FoundMembers
<1>4. None \in Int /\ \A n \in Nat : n # None
  BY DEF None
<1> HIDE DEF D
<1>5. ASSUME NEW d \in D, NEW e \in D, d.evidence = e.evidence, d.item = e.item PROVE d = e
  <2>1. CASE d.item = None
    BY <1>1, <1>4, <1>5, <2>1
  <2>2. CASE d.item # None
    <3>1. PICK i \in Discoverable(retained, now) : \E x \in Items[i] :
             d = ItemDiagnostic(i, x, retained) /\ d.evidence = i /\ d.item = x.id
      BY <1>1, <2>2
    <3>2. PICK j \in Discoverable(retained, now) : \E y \in Items[j] :
             e = ItemDiagnostic(j, y, retained) /\ e.evidence = j /\ e.item = y.id
      BY <1>1, <1>5, <2>2
    <3>3. PICK x \in Items[i] : d = ItemDiagnostic(i, x, retained) /\ d.item = x.id
      BY <3>1
    <3>4. PICK y \in Items[j] : e = ItemDiagnostic(j, y, retained) /\ e.item = y.id
      BY <3>2
    <3>5. i = j /\ x.id = y.id /\ i \in Ids
      BY <1>3, <1>5, <3>1, <3>2, <3>3, <3>4
    <3>6. x = y
      BY <3>5, ItemsAssumption
    <3> QED
      BY <3>3, <3>4, <3>5, <3>6
  <2> QED
    BY <2>1, <2>2
<1>6. \A d \in D : d.evidence \in Int /\ d.item \in Int /\ d.evidence # None
  BY <1>1, <1>2, <1>3, <1>4
<1>7. IsFiniteSet(D)
  BY FoundFinite DEF D
<1>8. Keyed(D)
  BY <1>5, <1>6, <1>7 DEF Keyed
<1>9. ASSUME NEW d \in D
      PROVE  d.reason # "DISCOVERABLE" /\ d.reason # "RESOURCE_LIMIT_REACHED"
  <2>1. \A i : EvidenceDiagnostic(i, now).reason # "DISCOVERABLE"
               /\ EvidenceDiagnostic(i, now).reason # "RESOURCE_LIMIT_REACHED"
    BY DEF EvidenceDiagnostic, Diagnostic, _common_ineligibility_reason
  <2>2. \A i, x : ItemDiagnostic(i, x, retained).reason # "DISCOVERABLE"
                  /\ ItemDiagnostic(i, x, retained).reason # "RESOURCE_LIMIT_REACHED"
    BY DEF ItemDiagnostic, Diagnostic, ItemReason
  <2> QED
    BY <1>1, <2>1, <2>2
<1> QED
  BY <1>6, <1>8, <1>9 DEF D

\* The result of a discovery that proposes nothing, for one reason.
Refusal(reason, retained, inspected, forced, limited) ==
    _result({}, {Overall(reason)}, retained, inspected, forced, limited)

LEMMA RefusalConstructs ==
    ASSUME NEW reason, reason # "DISCOVERABLE", NEW retained \in Nat,
           NEW inspected \in 0..retained, inspected <= MaxEvidence,
           NEW forced \in {"none", "DISCOVERY_INELIGIBLE"}, NEW limited \in BOOLEAN,
           reason = "RESOURCE_LIMIT_REACHED" => limited
    PROVE  LET r == Refusal(reason, retained, inspected, forced, limited) IN
           /\ CandidateDiscoveryResult(r) /\ r.proposals = {}
           /\ limited => r.outcome = "RESOURCE_LIMIT_REACHED"
           /\ forced # "none" => r.outcome \in {"RESOURCE_LIMIT_REACHED", forced}
<1> DEFINE D == {Overall(reason)}
           P == {}
           r == _result(P, D, retained, inspected, forced, limited)
<1>1. /\ Overall(reason).reason = reason /\ Overall(reason).item = None
      /\ Overall(reason).evidence = None /\ None \in Int
  BY DEF Overall, Diagnostic, None
<1>2. Keyed(D)
  BY <1>1, FS_Singleton DEF Keyed
<1>3. /\ D # {} /\ \A d \in D : d.reason # "DISCOVERABLE" /\ (d.item # None => d.evidence # None)
      /\ \A d \in D : d.reason = "RESOURCE_LIMIT_REACHED" => limited
  BY <1>1
<1>4. /\ P = {} /\ IsFiniteSet(P) /\ \A p \in P : Made(p)
      /\ \A p \in P : _validate_anonymous_semantic_request(p)
  BY FS_EmptySet
<1>5. /\ limited => r.outcome = "RESOURCE_LIMIT_REACHED"
      /\ forced # "none" => r.outcome \in {"RESOURCE_LIMIT_REACHED", forced}
  BY DEF _result, DiscoveryOutcome
<1> HIDE DEF D, P
<1>6. CandidateDiscoveryResult(r)
  BY <1>2, <1>3, <1>4, ResultConstructs
<1>7. r.proposals \subseteq P
  BY ResultProposes
<1>8. Refusal(reason, retained, inspected, forced, limited) = r
  BY DEF Refusal, D, P
<1> HIDE DEF r
<1> QED
  BY <1>4, <1>5, <1>6, <1>7, <1>8 DEF r

\* Discovery returns a document that constructs; and with neither limit nor refusal
\* the proposals are all there are.
LEMMA DiscoverConstructs ==
    ASSUME NEW retained, retained \subseteq Ids, IsFiniteSet(retained), NEW now
    PROVE  LET r == discover(now, retained) IN
           /\ CandidateDiscoveryResult(r)
           /\ r.proposals # {} => source_clock = "ROS_SYSTEM_TIME"
           /\ r.proposals \subseteq Proposals(retained, now)
           /\ \/ r.outcome \in {"RESOURCE_LIMIT_REACHED", "DISCOVERY_INELIGIBLE"}
              \/ retained = {}
              \/ r.proposals = Proposals(retained, now)
<1> DEFINE r == discover(now, retained)
           count == Cardinality(retained)
           P == Proposals(retained, now)
           D == EvidenceDiagnostics(retained, now) \cup ItemDiagnostics(retained, now)
<1>1. count \in Nat /\ MaxEvidence \in Nat
  BY FS_CardinalityType, LimitsAssumption
<1>2. \/ \E reason \in {"INVALID_DISCOVERY_TIME", "SOURCE_CLOCK_REGRESSION"} :
            r = Refusal(reason, 0, 0, "DISCOVERY_INELIGIBLE", FALSE)
      \/ r = Refusal("RESOURCE_LIMIT_REACHED", count, 0, "none", TRUE)
      \/ /\ count <= MaxEvidence
         /\ r = Refusal("UNSUPPORTED_CLOCK", count, count, "DISCOVERY_INELIGIBLE", FALSE)
      \/ retained = {} /\ r = Refusal("NO_RETAINED_EVIDENCE", 0, 0, "none", FALSE)
      \/ /\ count <= MaxEvidence /\ retained # {} /\ source_clock = "ROS_SYSTEM_TIME"
         /\ r = _result(P, D, count, count, "none", FALSE)
  <2>1. CASE now < 0
    <3>1. r = Refusal("INVALID_DISCOVERY_TIME", 0, 0, "DISCOVERY_INELIGIBLE", FALSE)
      BY <2>1 DEF discover, Refusal, Ineligible
    <3> QED
      BY <3>1
  <2>2. CASE ~(now < 0) /\ now < last_now
    <3>1. r = Refusal("SOURCE_CLOCK_REGRESSION", 0, 0, "DISCOVERY_INELIGIBLE", FALSE)
      BY <2>2 DEF discover, Refusal, Ineligible
    <3> QED
      BY <3>1
  <2>3. CASE ~(now < 0) /\ ~(now < last_now) /\ count > MaxEvidence
    <3>1. r = Refusal("RESOURCE_LIMIT_REACHED", count, 0, "none", TRUE)
      BY <2>3 DEF discover, Refusal, RESOURCE
    <3> QED
      BY <3>1
  <2>4. CASE ~(now < 0) /\ ~(now < last_now) /\ ~(count > MaxEvidence)
    <3>0. count <= MaxEvidence
      BY <1>1, <2>4
    <3>1. CASE source_clock # "ROS_SYSTEM_TIME"
      <4>1. r = Refusal("UNSUPPORTED_CLOCK", count, count, "DISCOVERY_INELIGIBLE", FALSE)
        BY <2>4, <3>1 DEF discover, Refusal, Ineligible
      <4> QED
        BY <3>0, <4>1
    <3>2. CASE source_clock = "ROS_SYSTEM_TIME" /\ retained = {}
      <4>1. r = Refusal("NO_RETAINED_EVIDENCE", 0, 0, "none", FALSE)
        BY <2>4, <3>2 DEF discover, Refusal
      <4> QED
        BY <3>2, <4>1
    <3>3. CASE source_clock = "ROS_SYSTEM_TIME" /\ retained # {}
      <4>1. r = _result(P, D, count, count, "none", FALSE)
        BY <2>4, <3>3 DEF discover
      <4> QED
        BY <3>0, <3>3, <4>1
    <3> QED
      BY <3>1, <3>2, <3>3
  <2> QED
    BY <2>1, <2>2, <2>3, <2>4
<1> HIDE DEF r, P, D, count
<1>0. /\ 0 \in Nat /\ 0 \in 0..0 /\ 0 <= MaxEvidence /\ 0 \in 0..count /\ count \in 0..count
      /\ FALSE \in BOOLEAN /\ TRUE \in BOOLEAN
  BY <1>1
<1>3. CASE \E reason \in {"INVALID_DISCOVERY_TIME", "SOURCE_CLOCK_REGRESSION"} :
              r = Refusal(reason, 0, 0, "DISCOVERY_INELIGIBLE", FALSE)
  <2>1. PICK reason \in {"INVALID_DISCOVERY_TIME", "SOURCE_CLOCK_REGRESSION"} :
           r = Refusal(reason, 0, 0, "DISCOVERY_INELIGIBLE", FALSE)
    BY <1>3
  <2>2. reason # "DISCOVERABLE" /\ reason # "RESOURCE_LIMIT_REACHED"
    OBVIOUS
  <2>3. /\ CandidateDiscoveryResult(r) /\ r.proposals = {}
        /\ r.outcome \in {"RESOURCE_LIMIT_REACHED", "DISCOVERY_INELIGIBLE"}
    BY <1>0, <2>1, <2>2, RefusalConstructs
  <2> QED
    BY <2>3 DEF r
<1>4. CASE r = Refusal("RESOURCE_LIMIT_REACHED", count, 0, "none", TRUE)
  <2>1. /\ CandidateDiscoveryResult(r) /\ r.proposals = {}
        /\ r.outcome = "RESOURCE_LIMIT_REACHED"
    BY <1>0, <1>1, <1>4, RefusalConstructs
  <2> QED
    BY <2>1 DEF r
<1>5. CASE /\ count <= MaxEvidence
           /\ r = Refusal("UNSUPPORTED_CLOCK", count, count, "DISCOVERY_INELIGIBLE", FALSE)
  <2>1. /\ CandidateDiscoveryResult(r) /\ r.proposals = {}
        /\ r.outcome \in {"RESOURCE_LIMIT_REACHED", "DISCOVERY_INELIGIBLE"}
    BY <1>0, <1>1, <1>5, RefusalConstructs
  <2> QED
    BY <2>1 DEF r
<1>6. CASE retained = {} /\ r = Refusal("NO_RETAINED_EVIDENCE", 0, 0, "none", FALSE)
  <2>1. CandidateDiscoveryResult(r) /\ r.proposals = {}
    BY <1>0, <1>6, RefusalConstructs
  <2> QED
    BY <1>6, <2>1 DEF r
<1>7. CASE /\ count <= MaxEvidence /\ retained # {} /\ source_clock = "ROS_SYSTEM_TIME"
           /\ r = _result(P, D, count, count, "none", FALSE)
  <2>1. IsFiniteSet(P)
    BY FoundFinite DEF P
  <2>2. \A p \in P : Made(p) /\ _validate_anonymous_semantic_request(p)
    <3> SUFFICES ASSUME NEW p \in P PROVE Made(p) /\ _validate_anonymous_semantic_request(p)
      OBVIOUS
    <3>1. PICK i \in Discoverable(retained, now) : \E x \in Items[i] :
             /\ ItemReason(i, x, retained) = "none"
             /\ p = _anonymous_semantic_proposal(i, x)
      BY FoundMembers DEF P
    <3>2. PICK x \in Items[i] : /\ ItemReason(i, x, retained) = "none"
                                /\ p = _anonymous_semantic_proposal(i, x)
      BY <3>1
    <3>3. i \in Ids /\ Semantic(i)
      BY FoundMembers
    <3>4. _validate_anonymous_semantic_request(_anonymous_semantic_proposal(i, x))
      BY <3>2 DEF ItemReason
    <3> QED
      BY <3>2, <3>3, <3>4 DEF Made
  <2>3. /\ Keyed(D)
        /\ \A d \in D : d.reason # "DISCOVERABLE" /\ d.reason # "RESOURCE_LIMIT_REACHED"
                        /\ d.evidence # None
    BY FoundKeyed DEF D
  <2>4. P # {} \/ D # {}
    <3>1. PICK i \in retained : TRUE
      BY <1>7
    <3>2. CASE _common_ineligibility_reason(i, now) # "none" \/ ~Semantic(i)
      <4>1. EvidenceDiagnostic(i, now) \in EvidenceDiagnostics(retained, now)
        BY <3>2, FoundMembers
      <4> QED
        BY <4>1 DEF D
    <3>3. CASE _common_ineligibility_reason(i, now) = "none" /\ Semantic(i)
      <4>1. PICK x \in Items[i] : TRUE
        BY <3>3, ItemsAssumption DEF obs, Semantic
      <4>2. i \in Discoverable(retained, now)
        BY <3>3, FoundMembers
      <4>3. CASE ItemReason(i, x, retained) = "none"
        <5>1. _anonymous_semantic_proposal(i, x) \in Proposals(retained, now)
          BY <4>2, <4>3, FoundMembers
        <5> QED
          BY <5>1 DEF P
      <4>4. CASE ItemReason(i, x, retained) # "none"
        <5>1. ItemDiagnostic(i, x, retained) \in ItemDiagnostics(retained, now)
          BY <4>2, <4>4, FoundMembers
        <5> QED
          BY <5>1 DEF D
      <4> QED
        BY <4>3, <4>4
    <3> QED
      BY <3>2, <3>3
  <2>5. /\ CandidateDiscoveryResult(r)
        /\ r.outcome # "RESOURCE_LIMIT_REACHED" => r.proposals = P
    <3>1. \A p \in P : Made(p)
      BY <2>2
    <3>2. \A p \in P : _validate_anonymous_semantic_request(p)
      BY <2>2
    <3>3. \A d \in D : d.reason # "DISCOVERABLE" /\ (d.item # None => d.evidence # None)
      BY <2>3
    <3>4. \A d \in D : d.reason = "RESOURCE_LIMIT_REACHED" => FALSE
      BY <2>3
    <3>5. r = _result(P, D, count, count, "none", FALSE) /\ count <= MaxEvidence
      BY <1>7
    <3> QED
      BY <1>0, <1>1, <2>1, <2>3, <2>4, <3>1, <3>2, <3>3, <3>4, <3>5, ResultConstructs
  <2>6. r.proposals \subseteq P
    BY <1>7, ResultProposes
  <2> QED
    BY <1>7, <2>5, <2>6 DEF r, P
<1> QED
  BY <1>2, <1>3, <1>4, <1>5, <1>6, <1>7

--------------------------------------------------------------------------------
(* Discovery against staging. *)

\* What discovery proposes stages, on the evidence it was found in.
LEMMA ProposalStages ==
    ASSUME NEW retained, retained \subseteq Ids, NEW now, source_clock = "ROS_SYSTEM_TIME",
           NEW p \in Proposals(retained, now)
    PROVE  StageRetained(p, now, retained).status = "ELIGIBLE"
<1>1. PICK i \in Discoverable(retained, now) : \E x \in Items[i] :
         ItemReason(i, x, retained) = "none" /\ p = _anonymous_semantic_proposal(i, x)
  BY FoundMembers
<1>2. PICK x \in Items[i] :
         ItemReason(i, x, retained) = "none" /\ p = _anonymous_semantic_proposal(i, x)
  BY <1>1
<1>3. /\ i \in retained /\ i \in Ids /\ Semantic(i)
      /\ _common_ineligibility_reason(i, now) = "none"
  BY FoundMembers
<1>4. /\ p.obs = i /\ p.item = x.id /\ p.exact = TRUE /\ p.claim = AnonymousClaim(x)
      /\ p.item \in Nat /\ p.item # None
  BY <1>2, <1>3, ItemsAssumption DEF _anonymous_semantic_proposal, None
<1>5. _semantic_item(i, p) = {x}
  BY <1>3, <1>4, ItemsAssumption DEF _semantic_item
<1>6. Cardinality(_semantic_item(i, p)) = 1 /\ (CHOOSE y \in _semantic_item(i, p) : TRUE) = x
  BY <1>5, FS_Singleton
<1>7. _semantic_source_chain_is_exact(i, x, retained) /\ x.confidence # None
  BY <1>2 DEF ItemReason
<1>8. StageSemantic(p, i, retained)
        = Eligible(CandidateEvidence(p, i, x.confidence, x.kind, x.size))
  BY <1>4, <1>6, <1>7 DEF StageSemantic, _anonymous_semantic_claim_matches
<1>9. StageRetained(p, now, retained) = StageSemantic(p, i, retained)
  BY <1>3, <1>4 DEF StageRetained, _common_ineligibility_reason
<1> QED
  BY <1>8, <1>9 DEF Eligible

\* What stages, of what an item says, is a proposal of discovery.
LEMMA StagedIsProposed ==
    ASSUME NEW retained, retained \subseteq Ids, NEW now, NEW i \in retained, Semantic(i),
           NEW item, item.id \in Nat, NEW p, p = _anonymous_semantic_proposal(i, item),
           StageRetained(p, now, retained).status = "ELIGIBLE"
    PROVE  p \in Proposals(retained, now)
<1>1. /\ p.obs = i /\ p.item = item.id /\ p.exact = TRUE /\ p.claim = AnonymousClaim(item)
      /\ p.robot = Robot
  BY DEF _anonymous_semantic_proposal
<1> DEFINE M == _semantic_item(i, p)
           x == CHOOSE y \in M : TRUE
<1>2. \A reason : _ineligible(reason).status # "ELIGIBLE"
  BY DEF _ineligible
<1>3. /\ _common_ineligibility_reason(i, now) = "none"
      /\ StageSemantic(p, i, retained).status = "ELIGIBLE"
  BY <1>1, <1>2 DEF StageRetained, _common_ineligibility_reason
<1>4. /\ Cardinality(M) = 1 /\ _semantic_source_chain_is_exact(i, x, retained)
      /\ x.confidence # None /\ p.claim = AnonymousClaim(x)
  BY <1>2, <1>3 DEF StageSemantic, _anonymous_semantic_claim_matches
<1>5. x \in M
  <2>1. M # {}
    BY <1>4, FS_EmptySet
  <2> QED
    BY <2>1
<1>6. x \in Items[i] /\ x.id = item.id
  BY <1>1, <1>5 DEF _semantic_item
<1> HIDE DEF x, M
<1>7. p = _anonymous_semantic_proposal(i, x)
  BY <1>1, <1>4, <1>6 DEF _anonymous_semantic_proposal
<1>8. x.kind \in {"person", "object"} /\ x.id \in Nat
  BY <1>6, ItemsAssumption
<1>9. ItemReason(i, x, retained) = "none"
  <2>1. _validate_anonymous_semantic_request(_anonymous_semantic_proposal(i, x))
    BY <1>8 DEF _validate_anonymous_semantic_request, _anonymous_semantic_proposal,
                AnonymousClaim, Claim, None
  <2> QED
    BY <1>4, <2>1 DEF ItemReason
<1>10. i \in Discoverable(retained, now)
  BY <1>3, FoundMembers
<1> QED
  BY <1>6, <1>7, <1>9, <1>10, FoundMembers

--------------------------------------------------------------------------------
(* The plan is exact. *)

PlanExact == ProposedIsStageable /\ NothingLeftOut

\* What both say of a plan.
PlanFits(at, from, proposals, outcome) ==
    /\ \A p \in proposals : StageRetained(p, at, from).status = "ELIGIBLE"
    /\ outcome # "RESOURCE_LIMIT_REACHED" /\ outcome # "DISCOVERY_INELIGIBLE" =>
          \A i \in {j \in from : Semantic(j)}, item \in UNION {Items[j] : j \in Ids} :
             StageRetained(_anonymous_semantic_proposal(i, item), at, from).status = "ELIGIBLE"
                => _anonymous_semantic_proposal(i, item) \in proposals

LEMMA FitsIsExact ==
    PlanExact <=> (plan # NoPlan => PlanFits(plan.at, plan.from, plan.proposals, plan.outcome))
BY DEF PlanExact, ProposedIsStageable, NothingLeftOut, PlanFits

LEMMA FoundFits ==
    ASSUME NEW retained, retained \subseteq Ids, IsFiniteSet(retained), NEW now
    PROVE  PlanFits(now, retained, discover(now, retained).proposals,
                    discover(now, retained).outcome)
<1> DEFINE r == discover(now, retained)
<1>1. /\ r.proposals # {} => source_clock = "ROS_SYSTEM_TIME"
      /\ r.proposals \subseteq Proposals(retained, now)
      /\ \/ r.outcome \in {"RESOURCE_LIMIT_REACHED", "DISCOVERY_INELIGIBLE"}
         \/ retained = {}
         \/ r.proposals = Proposals(retained, now)
  BY DiscoverConstructs
<1> HIDE DEF r
<1>2. ASSUME NEW p \in r.proposals
      PROVE  StageRetained(p, now, retained).status = "ELIGIBLE"
  BY <1>1, ProposalStages
<1>3. ASSUME r.outcome # "RESOURCE_LIMIT_REACHED", r.outcome # "DISCOVERY_INELIGIBLE",
             NEW i \in {j \in retained : Semantic(j)},
             NEW item \in UNION {Items[j] : j \in Ids},
             StageRetained(_anonymous_semantic_proposal(i, item), now, retained).status = "ELIGIBLE"
      PROVE  _anonymous_semantic_proposal(i, item) \in r.proposals
  <2>1. r.proposals = Proposals(retained, now)
    BY <1>1, <1>3
  <2>2. item.id \in Nat
    <3>1. PICK j \in Ids : item \in Items[j]
      OBVIOUS
    <3> QED
      BY <3>1, ItemsAssumption
  <2>3. _anonymous_semantic_proposal(i, item) \in Proposals(retained, now)
    BY <1>3, <2>2, StagedIsProposed
  <2> QED
    BY <2>1, <2>3
<1>4. PlanFits(now, retained, r.proposals, r.outcome)
  BY <1>2, <1>3 DEF PlanFits
<1> QED
  BY <1>4 DEF r

LEMMA ClockStays == CNext => source_clock' = source_clock
BY DEF CNext, MemoryStep, CallerStages, CallerSelects, prepare, ReviewBegins, ReviewStages,
       ReviewConcludes, cvars

LEMMA PlanStays ==
    ASSUME CNext
    PROVE  plan' = plan \/ \E now \in Times : prepare(now)
BY DEF CNext, MemoryStep, CallerStages, CallerSelects, ReviewBegins, ReviewStages,
       ReviewConcludes

LEMMA RecentRead ==
    ASSUME IInv, NEW now
    PROVE  PurgedRecent(now) \subseteq Ids /\ IsFiniteSet(PurgedRecent(now))
<1>1. PurgedRecent(now) \subseteq recent
  BY DEF PurgedRecent, Kept
<1> QED
  BY <1>1, RecentIsKnown, FS_Subset

LEMMA PlanExactNext == Kernel /\ PlanExact /\ [CNext]_allVars => PlanExact'
<1> SUFFICES ASSUME Kernel, PlanExact, [CNext]_allVars PROVE PlanExact'
  OBVIOUS
<1>1. source_clock' = source_clock
  BY ClockStays DEF allVars, cvars
<1>2. CASE plan' = plan
  <2>1. CASE plan = NoPlan
    BY <1>2, <2>1 DEF PlanExact, ProposedIsStageable, NothingLeftOut
  <2>2. CASE plan # NoPlan
    <3>1. PlanFits(plan.at, plan.from, plan.proposals, plan.outcome)
      BY <2>2, FitsIsExact
    <3>2. /\ \A p \in plan.proposals : StageRetained(p, plan.at, plan.from)'.status = "ELIGIBLE"
          /\ plan.outcome # "RESOURCE_LIMIT_REACHED" /\ plan.outcome # "DISCOVERY_INELIGIBLE" =>
               \A i \in {j \in plan.from : Semantic(j)}, item \in UNION {Items[j] : j \in Ids} :
                 StageRetained(_anonymous_semantic_proposal(i, item), plan.at, plan.from)'.status = "ELIGIBLE"
                    => _anonymous_semantic_proposal(i, item) \in plan.proposals
      BY <1>1, <1>2, <3>1 DEF PlanFits, StageRetained
    <3> QED
      BY <1>2, <3>2 DEF PlanExact, ProposedIsStageable, NothingLeftOut
  <2> QED
    BY <2>1, <2>2
<1>3. ASSUME NEW now \in Times, prepare(now), plan' # NoPlan
      PROVE  PlanExact'
  <2> DEFINE retained == PurgedRecent(now)
             found == discover(now, retained)
  <2>1. plan' = [prepared |-> TRUE, at |-> now, from |-> retained,
                 proposals |-> found.proposals, outcome |-> found.outcome]
    BY <1>3 DEF prepare
  <2>2. retained \subseteq Ids /\ IsFiniteSet(retained)
    BY RecentRead DEF Kernel
  <2> HIDE DEF retained
  <2>3. PlanFits(now, retained, found.proposals, found.outcome)
    BY <2>2, FoundFits
  <2> HIDE DEF found
  <2>4. /\ plan'.at = now /\ plan'.from = retained
        /\ plan'.proposals = found.proposals /\ plan'.outcome = found.outcome
    BY <2>1
  <2>5. PlanFits(plan'.at, plan'.from, plan'.proposals, plan'.outcome)
    BY <2>3, <2>4
  <2>6. PlanFits(plan.at, plan.from, plan.proposals, plan.outcome)'
    BY <1>1, <2>5 DEF PlanFits, StageRetained
  <2> QED
    BY <2>6 DEF PlanExact, ProposedIsStageable, NothingLeftOut, PlanFits
<1>4. CASE plan' = NoPlan
  BY <1>4 DEF PlanExact, ProposedIsStageable, NothingLeftOut
<1> QED
  BY <1>2, <1>3, <1>4, PlanStays DEF allVars, cvars

LEMMA KindsOfParts == Kernel => CTypeOK
<1> SUFFICES ASSUME Kernel PROVE CTypeOK
  OBVIOUS
<1>1. ASSUME plan # NoPlan
      PROVE  /\ plan.at \in 0..MaxTime /\ plan.from \subseteq Ids
             /\ \A p \in plan.proposals : p.obs \in Ids
  BY <1>1, MadeIs DEF Kernel, PlanMade
<1> QED
  BY <1>1 DEF Kernel, ReviewMade, CTypeOK

--------------------------------------------------------------------------------
(* The documents construct: the batch of a review. *)

\* What an entry of a batch is made of: a staging, and where it was eligible the
\* decision on its candidate.
LEMMA EntryConstructs ==
    ASSUME NEW staged, NEW todo, StagingsKept(staged, todo), NEW selection,
           selection = select(ReviewItems(staged)),
           DOMAIN ReviewItems(staged) # {} => selection.items # {},
           NEW decisions \in [Selected(selection) -> DecisionType], NEW s \in staged
    PROVE  LET e == EntryOf(s, selection, decisions) IN
           /\ MemoryCandidateReviewEntry(e)
           /\ e.proposal = s.proposal /\ e.result = s.result
           /\ e.selection # NoDecision => e.selection \in selection.items
<1> DEFINE e == EntryOf(s, selection, decisions)
           c == s.result.candidate
           batch == ReviewItems(staged)
           mine == {d \in selection.items : d.candidate = c}
           m == Cardinality(StagedOk(staged))
<1>1. /\ m \in Nat /\ DOMAIN batch = 1..m
      /\ \A n \in DOMAIN batch : \E t \in StagedOk(staged) : batch[n].candidate = t.result.candidate
      /\ \A t \in StagedOk(staged) : \E n \in DOMAIN batch : batch[n].candidate = t.result.candidate
  BY ReviewItemsAre
<1>2. IsFiniteSet(DOMAIN batch)
  <2> HIDE DEF batch, m
  <2> QED
    BY <1>1, FS_Interval
<1>3. /\ e.proposal = s.proposal /\ e.result = s.result
      /\ e.selection = IF mine = {} THEN NoDecision ELSE CHOOSE d \in mine : TRUE
      /\ e.evaluated <=> c \in DOMAIN decisions
      /\ e.decision = IF c \in DOMAIN decisions THEN decisions[c] ELSE "none"
  BY DEF EntryOf
<1>4. \A d \in selection.items : /\ d # NoDecision
                                 /\ \E n \in DOMAIN batch : d = ItemDecision(batch, batch[n].candidate)
  <2> SUFFICES ASSUME NEW d \in selection.items
               PROVE  /\ d # NoDecision
                      /\ \E n \in DOMAIN batch : d = ItemDecision(batch, batch[n].candidate)
    OBVIOUS
  <2> HIDE DEF batch
  <2>1. selection.items = DecisionsOn(batch)
    <3>1. selection = select(batch)
      BY DEF batch
    <3> QED
      BY <1>2, <3>1, SelectIs DEF _batch_rejection, _selection_decision
  <2>2. PICK n \in DOMAIN batch : d = ItemDecision(batch, batch[n].candidate)
    BY <2>1 DEF DecisionsOn
  <2>3. "candidate" \in DOMAIN d
    BY <2>2 DEF ItemDecision
  <2>4. "candidate" \notin DOMAIN NoDecision
    BY DEF NoDecision
  <2> QED
    BY <2>2, <2>3, <2>4
<1>5. \A d \in mine : d \in selection.items /\ d.candidate = c
  OBVIOUS
<1>6. \A x : x \in DOMAIN decisions <=>
             \E d \in selection.items : d.outcome = "SELECT_FOR_REVIEW" /\ d.candidate = x
  BY DEF Selected
<1>7. \A x \in DOMAIN decisions : decisions[x] # "none"
  BY CallersAssumption
<1>8. \A d, f \in selection.items : d.candidate = f.candidate => d = f
  <2> HIDE DEF batch
  <2>1. \A x : ItemDecision(batch, x).candidate = x
    BY DEF ItemDecision
  <2> QED
    BY <1>4, <2>1
<1>9. StagedAs(s.proposal, s.result)
  BY DEF StagingsKept
<1>10. CASE s.result.status = "ELIGIBLE"
  <2>1. s \in StagedOk(staged)
    BY <1>10 DEF StagedOk
  <2>2. PICK n \in DOMAIN batch : batch[n].candidate = c
    BY <1>1, <2>1
  <2>3. \E d \in selection.items : d.candidate = c
    <3>1. selection.items = DecisionsOn(batch)
      <4>1. selection.items # {}
        BY <2>2
      <4> QED
        BY <1>2, <4>1, SelectIs DEF _batch_rejection, _selection_decision
    <3>2. ItemDecision(batch, batch[n].candidate) \in selection.items
      BY <2>2, <3>1 DEF DecisionsOn
    <3>3. ItemDecision(batch, batch[n].candidate).candidate = batch[n].candidate
      BY DEF ItemDecision
    <3> QED
      BY <2>2, <3>2, <3>3
  <2>4. mine # {}
    BY <2>3
  <2>5. e.selection \in mine
    BY <1>3, <2>4
  <2>6. e.selection \in selection.items /\ e.selection.candidate = c
    BY <1>5, <2>5
  <2> HIDE DEF e, mine, batch, c
  <2>7. e.selection # NoDecision
    BY <1>4, <2>6
  <2>8. e.evaluated <=> e.selection.outcome = "SELECT_FOR_REVIEW"
    BY <1>3, <1>6, <1>8, <2>6
  <2>9. e.evaluated <=> e.decision # "none"
    BY <1>3, <1>7
  <2>10. e.result.status = "ELIGIBLE" /\ e.result.candidate = c
    BY <1>3, <1>10 DEF c
  <2>11. MemoryCandidateReviewEntry(e)
    BY <2>6, <2>7, <2>8, <2>9, <2>10 DEF MemoryCandidateReviewEntry
  <2> QED
    BY <1>3, <2>6, <2>11 DEF e
<1>11. CASE s.result.status # "ELIGIBLE"
  <2>1. c = NoCandidate
    BY <1>9, <1>11 DEF StagedAs, CandidateStagingResult
  <2>2. mine = {}
    <3> SUFFICES ASSUME NEW d \in mine PROVE FALSE
      OBVIOUS
    <3>1. d \in selection.items /\ d.candidate = c
      OBVIOUS
    <3>2. PICK n \in DOMAIN batch : d = ItemDecision(batch, batch[n].candidate)
      BY <1>4, <3>1
    <3>3. d.candidate = batch[n].candidate
      BY <3>2 DEF ItemDecision
    <3>4. PICK t \in StagedOk(staged) : batch[n].candidate = t.result.candidate
      BY <1>1
    <3>5. t \in staged /\ t.result.status = "ELIGIBLE" /\ t.result.candidate = NoCandidate
      BY <2>1, <3>1, <3>3, <3>4 DEF StagedOk
    <3>6. StagedAs(t.proposal, t.result)
      BY <3>5 DEF StagingsKept
    <3> QED
      BY <3>5, <3>6 DEF StagedAs, CandidateStagingResult
  <2>3. c \notin DOMAIN decisions
    BY <1>5, <1>6, <2>2
  <2>4. e.selection = NoDecision /\ e.decision = "none" /\ ~e.evaluated
    BY <1>3, <2>2, <2>3
  <2>5. e.result.status # "ELIGIBLE"
    BY <1>3, <1>11
  <2> HIDE DEF e
  <2>6. MemoryCandidateReviewEntry(e)
    BY <2>4, <2>5 DEF MemoryCandidateReviewEntry
  <2> QED
    BY <1>3, <2>4, <2>6 DEF e
<1> QED
  BY <1>10, <1>11

LEMMA ConcludedConstructs ==
    ASSUME NEW staged, NEW todo, StagingsKept(staged, todo), staged # {},
           NEW selection, selection = select(ReviewItems(staged)),
           DOMAIN ReviewItems(staged) # {} => selection.items # {},
           NEW decisions \in [Selected(selection) -> DecisionType],
           NEW entries, entries = Entries(staged, selection, decisions),
           NEW outcome, outcome = ReviewOutcome(entries), NEW found, NEW b,
           b = _review_batch(outcome, ReviewReasons(outcome), found, Cardinality(staged),
                             entries, selection)
    PROVE  MemoryCandidateReviewBatch(b) /\ CandidateSelectionDecision(b.selection)
<1> DEFINE f == [s \in staged |-> EntryOf(s, selection, decisions)]
           ok == StagedOk(staged)
           okE == {e \in entries : e.result.status = "ELIGIBLE"}
           m == Cardinality(ok)
           batch == ReviewItems(staged)
<1>1. /\ m \in Nat /\ IsFiniteSet(ok) /\ DOMAIN batch = 1..m
  BY ReviewItemsAre
<1>2. /\ b.outcome = outcome /\ b.reasons = ReviewReasons(outcome) /\ b.entries = entries
      /\ b.selection = selection /\ b.requested = Cardinality(staged)
      /\ b.staged = Cardinality(okE)
  BY DEF _review_batch
<1>3. \A e : e \in entries <=> \E s \in staged : e = EntryOf(s, selection, decisions)
  BY DEF Entries, EntryOf
<1>4. ASSUME NEW s \in staged
      PROVE  /\ f[s] = EntryOf(s, selection, decisions) /\ f[s] \in entries
             /\ MemoryCandidateReviewEntry(f[s])
             /\ f[s].proposal = s.proposal /\ f[s].result = s.result
             /\ f[s].selection # NoDecision => f[s].selection \in selection.items
  BY <1>3, EntryConstructs
<1>5. \A s, t \in staged : s.proposal = t.proposal => s = t
  BY DEF StagingsKept
<1>6. \A e \in entries : \E s \in staged : f[s] = e
  BY <1>3, <1>4
<1>7. IsFiniteSet(staged) /\ DOMAIN f = staged
  BY DEF StagingsKept
<1>8. \A s : s \in ok <=> s \in staged /\ s.result.status = "ELIGIBLE"
  BY DEF StagedOk
<1>9. \A e : e \in okE <=> e \in entries /\ e.result.status = "ELIGIBLE"
  OBVIOUS
<1>10. \A s, t \in staged : f[s] = f[t] => s = t
  BY <1>4, <1>5
<1> HIDE DEF f, ok, okE, m
<1>11. IsFiniteSet(entries) /\ Cardinality(entries) = Cardinality(staged)
  <2>1. \A s \in staged : f[s] \in entries
    BY <1>4
  <2> QED
    BY <1>6, <1>7, <1>10, <2>1, ImageHasSize
<1>12. IsFiniteSet(okE) /\ Cardinality(okE) = m
  <2> DEFINE g == [s \in ok |-> f[s]]
  <2>1. DOMAIN g = ok /\ \A s \in ok : g[s] = f[s]
    OBVIOUS
  <2> HIDE DEF g
  <2>2. \A s \in ok : g[s] \in okE
    BY <1>4, <1>8, <1>9, <2>1
  <2>3. \A e \in okE : \E s \in ok : g[s] = e
    BY <1>4, <1>6, <1>8, <1>9, <2>1
  <2>4. \A s, t \in ok : g[s] = g[t] => s = t
    BY <1>8, <1>10, <2>1
  <2> QED
    BY <1>1, <2>1, <2>2, <2>3, <2>4, ImageHasSize DEF m
<1>13. CandidateSelectionDecision(selection)
  BY <1>1, SelectConstructs
<1>14. selection.input = m /\ selection # NoDecision
  <2>1. IsFiniteSet(DOMAIN batch) /\ Cardinality(DOMAIN batch) = m
    <3> HIDE DEF batch
    <3> QED
      BY <1>1, FS_Interval
  <2>2. selection.input = m /\ "input" \in DOMAIN selection
    BY <2>1, SelectIs DEF _batch_rejection, _selection_decision
  <2>3. "input" \notin DOMAIN NoDecision
    BY DEF NoDecision
  <2> QED
    BY <2>2, <2>3
<1> HIDE DEF batch
<1>15. /\ Cardinality(staged) \in Nat /\ Cardinality(staged) # 0 /\ m <= Cardinality(staged)
       /\ (m = 0) <=> (okE = {})
       /\ (m = Cardinality(staged)) <=> (okE = entries)
  <2>1. okE \subseteq entries
    BY <1>9
  <2> QED
    BY <1>1, <1>7, <1>11, <1>12, <2>1, FS_CardinalityType, FS_EmptySet, FS_Subset
<1>16. outcome = IF okE = entries THEN "REVIEW_COMPLETED"
                 ELSE IF okE = {} THEN "PLAN_STALE"
                 ELSE "REVIEW_COMPLETED_WITH_INELIGIBLE_ENTRIES"
  BY DEF ReviewOutcome, okE
<1>17. /\ outcome = "REVIEW_COMPLETED" => ReviewReasons(outcome) = {"REVIEW_COMPLETED"}
       /\ outcome = "PLAN_STALE"
             => ReviewReasons(outcome) = {"STAGING_INELIGIBLE", "PLAN_STALE"}
       /\ outcome = "REVIEW_COMPLETED_WITH_INELIGIBLE_ENTRIES"
             => ReviewReasons(outcome) = {"REVIEW_COMPLETED", "STAGING_INELIGIBLE"}
  BY DEF ReviewReasons
<1>18. \A e \in b.entries : /\ MemoryCandidateReviewEntry(e)
                            /\ e.selection # NoDecision => e.selection \in b.selection.items
  BY <1>2, <1>4, <1>6
<1>19. \A e, x \in b.entries : e.proposal = x.proposal => e = x
  BY <1>2, <1>4, <1>5, <1>6
<1>20. b.reasons # {} /\ b.selection.input = b.staged /\ Cardinality(b.entries) = b.requested
  BY <1>2, <1>11, <1>12, <1>14, <1>16, <1>17
<1>21. CompletedShape(b)
  <2> DEFINE failed == Cardinality(b.entries) - b.staged
  <2>1. b.requested # 0 /\ Cardinality(b.entries) = b.requested /\ b.selection # NoDecision
    BY <1>2, <1>11, <1>14, <1>15
  <2>2. failed = Cardinality(staged) - m /\ b.staged = m
    BY <1>2, <1>11, <1>12
  <2>3. b.outcome = "REVIEW_COMPLETED" => failed = 0
    BY <1>1, <1>2, <1>15, <1>16, <2>2
  <2>4. b.outcome = "PLAN_STALE" => b.staged = 0
    BY <1>2, <1>15, <1>16, <2>2
  <2>5. b.outcome = "REVIEW_COMPLETED_WITH_INELIGIBLE_ENTRIES" => failed # 0 /\ b.staged # 0
    BY <1>1, <1>2, <1>15, <1>16, <2>2
  <2> HIDE DEF failed
  <2> QED
    BY <1>2, <1>17, <2>1, <2>3, <2>4, <2>5 DEF CompletedShape, failed
<1>22. _validate_outcome_shape(b)
  BY <1>2, <1>16, <1>21 DEF _validate_outcome_shape
<1> QED
  BY <1>2, <1>13, <1>18, <1>19, <1>20, <1>22 DEF MemoryCandidateReviewBatch

LEMMA StructuralConstructs ==
    ASSUME NEW outcome, NEW reason, NEW found, NEW asked, NEW b,
           b = _structural_batch(outcome, reason, found, asked),
           \/ outcome = "PLAN_INVALID"
              /\ reason \in {"PLAN_INTEGRITY_FAILED", "REQUEST_INTEGRITY_FAILED",
                             "UNKNOWN_PROPOSAL_ID", "DUPLICATE_PROPOSAL_ID"}
           \/ outcome = "RESOURCE_LIMIT_REACHED" /\ reason = "RESOURCE_LIMIT_REACHED"
           \/ outcome = "NOTHING_REQUESTED" /\ reason = "NOTHING_REQUESTED" /\ asked = 0
    PROVE  MemoryCandidateReviewBatch(b) /\ b.selection = NoDecision /\ b.call = "review"
<1>1. /\ b.call = "review" /\ b.outcome = outcome /\ b.reasons = {reason}
      /\ b.entries = {} /\ b.selection = NoDecision /\ b.requested = asked
  BY StructuralIs
<1>2. _validate_outcome_shape(b)
  BY <1>1 DEF _validate_outcome_shape
<1> QED
  BY <1>1, <1>2 DEF MemoryCandidateReviewBatch

--------------------------------------------------------------------------------
(* Whatever a call returns constructs. *)

LEMMA AnswersNext == Kernel /\ AnswersConstruct /\ [CNext]_allVars => AnswersConstruct'
<1> SUFFICES ASSUME Kernel, AnswersConstruct, [CNext]_allVars PROVE AnswersConstruct'
  OBVIOUS
<1> DEFINE a == answer'
           Good == /\ a.call = "stage" => CandidateStagingResult(a)
                   /\ "raised" \notin DOMAIN a /\ a.call = "discover"
                         => CandidateDiscoveryResult(a)
                   /\ a.call = "select" => CandidateSelectionDecision(a)
                   /\ "raised" \notin DOMAIN a /\ a.call = "review" =>
                         /\ MemoryCandidateReviewBatch(a)
                         /\ a.selection # NoDecision => CandidateSelectionDecision(a.selection)
<1>0. Good => AnswersConstruct'
  BY DEF AnswersConstruct
<1>1. CASE UNCHANGED allVars
  BY <1>1 DEF allVars, cvars, AnswersConstruct
<1>2. CASE CNext
  <2> HIDE DEF a
  <2>1. CASE a = NoAnswer \/ a = Raised("prepare")
    BY <1>0, <2>1 DEF NoAnswer, Raised
  <2>2. CASE \E p, now : a = stage(p, now)
    <3>1. a.call = "stage" /\ CandidateStagingResult(a)
      BY <2>2, StageIs DEF StagedAs
    <3> QED
      BY <1>0, <3>1
  <2>3. CASE \E batch \in Offers : a = select(batch)
    <3>1. PICK batch \in Offers : a = select(batch)
      BY <2>3
    <3>2. /\ IsFiniteSet(DOMAIN batch) /\ Cardinality(DOMAIN batch) \in Nat
          /\ DOMAIN batch = 1..Cardinality(DOMAIN batch)
      BY CallersAssumption, FS_CardinalityType
    <3>3. CandidateSelectionDecision(a)
      BY <3>1, <3>2, SelectConstructs
    <3>4. a.call = "select"
      BY <3>1, <3>2, SelectIs DEF _batch_rejection, _selection_decision
    <3> QED
      BY <1>0, <3>3, <3>4
  <2>4. CASE \E now \in Times : now >= 0 /\ a = discover(now, PurgedRecent(now))
    <3>1. PICK now \in Times : a = discover(now, PurgedRecent(now))
      BY <2>4
    <3>2. PurgedRecent(now) \subseteq Ids /\ IsFiniteSet(PurgedRecent(now))
      BY RecentRead DEF Kernel
    <3>3. a.call = "discover" /\ CandidateDiscoveryResult(a)
      BY <3>1, <3>2, DiscoverConstructs, DiscoverProposes
    <3> QED
      BY <1>0, <3>3
  <2>5. CASE \E p, ids, twice, form : a \in StructuralFault(p, ids, twice, form)
    <3>1. MemoryCandidateReviewBatch(a) /\ a.selection = NoDecision /\ a.call = "review"
      BY <2>5, FaultsAre, StructuralConstructs
    <3> QED
      BY <1>0, <3>1
  <2>6. CASE review # NoReview /\ review.todo = {} /\ Concluded(review, plan, a)
    <3> DEFINE staged == review.staged
               selection == select(ReviewItems(staged))
    <3>1. StagingsKept(staged, review.todo) /\ staged # {}
      BY <2>6 DEF Kernel, ReviewMade
    <3>2. CASE \E found, asked : a = _structural_batch("RESOURCE_LIMIT_REACHED",
                                         "RESOURCE_LIMIT_REACHED", found, asked)
      <4>1. MemoryCandidateReviewBatch(a) /\ a.selection = NoDecision /\ a.call = "review"
        BY <3>2, StructuralConstructs
      <4> QED
        BY <1>0, <4>1
    <3>3. CASE a = Raised("review")
      BY <1>0, <3>3 DEF Raised
    <3>4. ASSUME DOMAIN ReviewItems(staged) # {} => selection.items # {},
                 NEW decisions \in [Selected(selection) -> DecisionType],
                 NEW entries, entries = Entries(staged, selection, decisions),
                 NEW outcome, outcome = ReviewOutcome(entries), NEW found,
                 a = _review_batch(outcome, ReviewReasons(outcome), found,
                                   Cardinality(staged), entries, selection)
          PROVE  Good
      <4>1. MemoryCandidateReviewBatch(a) /\ CandidateSelectionDecision(a.selection)
        BY <3>1, <3>4, ConcludedConstructs
      <4>2. a.call = "review"
        BY <3>4 DEF _review_batch
      <4> QED
        BY <4>1, <4>2
    <3>5. \/ \E found, asked : a = _structural_batch("RESOURCE_LIMIT_REACHED",
                                         "RESOURCE_LIMIT_REACHED", found, asked)
          \/ a = Raised("review")
          \/ /\ DOMAIN ReviewItems(staged) # {} => selection.items # {}
             /\ \E decisions \in [Selected(selection) -> DecisionType] :
                   a = _review_batch(ReviewOutcome(Entries(staged, selection, decisions)),
                          ReviewReasons(ReviewOutcome(Entries(staged, selection, decisions))),
                          Cardinality(plan.proposals), Cardinality(staged),
                          Entries(staged, selection, decisions), selection)
      BY <2>6 DEF Concluded
    <3>6. CASE /\ DOMAIN ReviewItems(staged) # {} => selection.items # {}
               /\ \E decisions \in [Selected(selection) -> DecisionType] :
                   a = _review_batch(ReviewOutcome(Entries(staged, selection, decisions)),
                          ReviewReasons(ReviewOutcome(Entries(staged, selection, decisions))),
                          Cardinality(plan.proposals), Cardinality(staged),
                          Entries(staged, selection, decisions), selection)
      <4>1. PICK decisions \in [Selected(selection) -> DecisionType] :
              a = _review_batch(ReviewOutcome(Entries(staged, selection, decisions)),
                     ReviewReasons(ReviewOutcome(Entries(staged, selection, decisions))),
                     Cardinality(plan.proposals), Cardinality(staged),
                     Entries(staged, selection, decisions), selection)
        BY <3>6
      <4> DEFINE entries == Entries(staged, selection, decisions)
                 outcome == ReviewOutcome(entries)
                 found == Cardinality(plan.proposals)
      <4>2. a = _review_batch(outcome, ReviewReasons(outcome), found,
                              Cardinality(staged), entries, selection)
        BY <4>1
      <4> HIDE DEF found, entries, outcome
      <4>3. entries = Entries(staged, selection, decisions) /\ outcome = ReviewOutcome(entries)
        BY DEF entries, outcome
      <4> HIDE DEF staged, selection, Good
      <4>4. Good
        BY <3>4, <3>6, <4>2, <4>3
      <4> QED
        BY <1>0, <4>4
    <3> QED
      BY <3>2, <3>3, <3>5, <3>6
  <2> QED
    BY <1>2, <2>1, <2>2, <2>3, <2>4, <2>5, <2>6, AnswersAre DEF a
<1> QED
  BY <1>1, <1>2

\* Discovery is neither too narrow nor too wide, against any loss of the memory and
\* every batch of a caller: what _discover proposes stages on the evidence it was
\* found in, what would stage is proposed unless a limit is reported, and every
\* document of stage, discover, select and execute_review constructs.
THEOREM DiscoveryStaysExact == CSpec => []DiscoveryExact
<1> DEFINE CInv == Kernel /\ PlanExact /\ AnswersConstruct
<1>1. CInit => CInv
  <2>1. CInit => PlanExact
    BY DEF CInit, PlanExact, ProposedIsStageable, NothingLeftOut
  <2>2. CInit => AnswersConstruct
    BY DEF CInit, AnswersConstruct, NoAnswer
  <2> QED
    BY <2>1, <2>2, KernelInit
<1>2. CInv /\ [CNext]_allVars => CInv'
  BY KernelNext, PlanExactNext, AnswersNext
<1>3. CInv => DiscoveryExact
  BY KindsOfParts DEF PlanExact, DiscoveryExact
<1> QED
  BY <1>1, <1>2, <1>3, PTL DEF CSpec
================================================================================
