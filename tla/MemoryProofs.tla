----------------------------- MODULE MemoryProofs -----------------------------
(***************************************************************************)
(* Proofs about MemoryStore, for any clients, memories, keys and values    *)
(* and any clock; in the second part about PersonalContext, for any owner  *)
(* and identities; in the third about MemoryValidation, for any validators *)
(* and any other writers.  The parts above rest on the first: at every     *)
(* moment the open conflicts are exactly the contradictions among the      *)
(* active memories, and the revisions of a memory are one finite line.     *)
(***************************************************************************)
EXTENDS PersonalContext, MemoryValidation, FiniteSetTheorems, SequenceTheorems,
        WellFoundedInduction, TLAPS

\* A call that is in its transaction or has returned carries what its service
\* step put in: the new memory of an add or a correction, the target of a
\* correction or a retraction.
CallsWellFormed ==
    \A c \in Client : call[c].phase \in {"store", "ok"} =>
        LET o == call[c] IN
        /\ o.op # "none"
        /\ o.op \in {"add", "correct"} =>
              o.id \in MemoryId /\ o.key \in Key /\ o.value \in Value
        /\ o.op = "add" => o.target = Nil
        /\ o.op \in {"correct", "retract"} => o.target \in MemoryId

TypeInv == TypeOK /\ CallsWellFormed

--------------------------------------------------------------------------------
(* The types of the statements' results. *)

LEMMA ConflictingPairsType ==
    ASSUME NEW ms, NEW i \in MemoryId, DOMAIN ms \subseteq MemoryId
    PROVE  ConflictingPairs(ms, i) \subseteq Pair
BY DEF ConflictingPairs, Pair

LEMMA NewRowType ==
    ASSUME NEW o \in Call, o.key \in Key, o.value \in Value
    PROVE  NewRow(o) \in Row
BY DEF NewRow, Row, Call, Status

LEMMA InsertType ==
    ASSUME NEW ms, NEW S, ms \in [S -> Row], NEW i, NEW r \in Row
    PROVE  _insert_memory(ms, i, r) \in [S \cup {i} -> Row]
BY DEF _insert_memory

LEMMA InsertConflictsType ==
    ASSUME NEW cs, NEW S, cs \in [S -> Conflict], NEW P, NEW r \in Conflict
    PROVE  _insert_conflicts(cs, P, r) \in [S \cup P -> Conflict]
BY DEF _insert_conflicts

LEMMA ResolveType ==
    ASSUME NEW cs, NEW S, cs \in [S -> Conflict], NEW i, NEW at \in Time,
           NEW by \in MemoryId \cup {Nil}
    PROVE  _resolve_conflicts(cs, i, at, by) \in [S -> Conflict]
BY DEF _resolve_conflicts, Conflict

LEMMA SetStatusType ==
    ASSUME NEW ms, NEW S, ms \in [S -> Row], NEW i, NEW s \in Status,
           NEW at \in Time
    PROVE  SetStatus(ms, i, s, at) \in [S -> Row]
BY DEF SetStatus, Row

LEMMA FreshType ==
    ASSUME NEW at \in Time
    PROVE  Fresh(at) \in Conflict
BY DEF Fresh, Conflict, NoTime

--------------------------------------------------------------------------------
LEMMA CallTypes ==
    ASSUME NEW c \in Client, NEW o \in Call, call \in [Client -> Call], Enter(c, o)
    PROVE  call' \in [Client -> Call]
BY DEF Enter

LEMMA ExitType ==
    ASSUME TypeOK, NEW c \in Client, NEW r \in Failure \cup {"ok"}, Exit(c, r)
    PROVE  /\ call' \in [Client -> Call]
           /\ call'[c].phase = r
           /\ r = "ok" => call'[c] = [call[c] EXCEPT !.phase = "ok"]
           /\ \A d \in Client \ {c} : call'[d] = call[d]
<1>1. NoCall \in Call
  BY TimeAssumption DEF NoCall, Call, Time
<1>2. [NoCall EXCEPT !.phase = r] \in Call
  BY <1>1 DEF Call
<1>3. [call[c] EXCEPT !.phase = "ok"] \in Call
  BY DEF TypeOK, Call
<1>4. [NoCall EXCEPT !.phase = r].phase = r
  BY <1>1 DEF Call
<1> QED
  BY <1>2, <1>3, <1>4 DEF Exit, Enter, TypeOK, Call

LEMMA TargetErrorType ==
    ASSUME TypeOK, NEW t
    PROVE  /\ TargetError(t) \in Failure \cup {"ok"}
           /\ TargetError(t) = "ok" => t \in Stored /\ memories[t].status = "active"
BY DEF TargetError, Failure, TypeOK, Row, Status

LEMMA CheckTypes ==
    ASSUME TypeOK, NEW o \in Call
    PROVE  /\ CorrectCheck(o) \in Failure \cup {"ok"}
           /\ RetractCheck(o) \in Failure \cup {"ok"}
           /\ CorrectCheck(o) = "ok" =>
                 /\ o.target \in Stored /\ memories[o.target].status = "active"
                 /\ memories[o.target].created_at <= o.at
                 /\ o.key = memories[o.target].key /\ o.id \notin Stored
           /\ RetractCheck(o) = "ok" =>
                 /\ o.target \in Stored /\ memories[o.target].status = "active"
                 /\ memories[o.target].created_at <= o.at
<1>1. o.target \in Stored =>
        (~(o.at < memories[o.target].created_at)
            => memories[o.target].created_at <= o.at)
  BY TimeAssumption DEF TypeOK, Row, Call, Time
<1>2. {"InvalidMemoryData", "InvalidTarget", "PersistenceConflict"} \subseteq Failure
  BY DEF Failure
<1>3. CorrectCheck(o) \in Failure \cup {"ok"} /\ RetractCheck(o) \in Failure \cup {"ok"}
  BY <1>2, TargetErrorType DEF CorrectCheck, RetractCheck
<1>4. ASSUME CorrectCheck(o) = "ok"
      PROVE  /\ o.target \in Stored /\ memories[o.target].status = "active"
             /\ memories[o.target].created_at <= o.at
             /\ o.key = memories[o.target].key /\ o.id \notin Stored
  BY <1>1, <1>4, TargetErrorType DEF CorrectCheck
<1>5. ASSUME RetractCheck(o) = "ok"
      PROVE  /\ o.target \in Stored /\ memories[o.target].status = "active"
             /\ memories[o.target].created_at <= o.at
  BY <1>1, <1>5, TargetErrorType DEF RetractCheck
<1> QED
  BY <1>3, <1>4, <1>5

LEMMA RefusalType ==
    ASSUME TypeOK, NEW i, NEW t, NEW prov
    PROVE  /\ CorrectRefusal(i, t, prov) \in Failure \cup {"ok"}
           /\ CorrectRefusal(i, t, prov) = "ok" => t \in Stored
<1>1. {"InvalidProvenance", "InvalidMemoryData"} \subseteq Failure
  BY DEF Failure
<1> QED
  BY <1>1, TargetErrorType DEF CorrectRefusal

--------------------------------------------------------------------------------
(* What a transaction that commits does, row by row. *)

Returned(c) ==
    /\ call[c].phase = "store"
    /\ call'[c] = [call[c] EXCEPT !.phase = "ok"]
    /\ \A d \in Client \ {c} : call'[d] = call[d]

\* The memories table grew by o's row, the conflicts table by its conflicts.
AddEffect(o) ==
    /\ o.id \in MemoryId /\ o.id \notin Stored /\ o.target = Nil
    /\ DOMAIN memories' = Stored \cup {o.id}
    /\ memories'[o.id] = NewRow(o)
    /\ \A j \in Stored : memories'[j] = memories[j]
    /\ DOMAIN conflicts' = DOMAIN conflicts \cup ConflictingPairs(memories', o.id)
    /\ \A p \in DOMAIN conflicts' :
          conflicts'[p] = IF p \in ConflictingPairs(memories', o.id)
                          THEN Fresh(o.at) ELSE conflicts[p]

\* Row t left the active state for s at time at.
Ended(t, s, at) ==
    /\ t \in Stored /\ memories[t].status = "active"
    /\ memories[t].created_at <= at /\ at \in Time
    /\ memories'[t] = [memories[t] EXCEPT !.status = s, !.status_changed_at = at]

\* The closed conflict a correction that changes the value leaves behind.
RevisionPair(o) ==
    IF memories[o.target].value = o.value THEN {} ELSE {{o.target, o.id}}

CorrectRows(o) ==
    /\ o.id \in MemoryId /\ o.id \notin Stored
    /\ o.key = memories[o.target].key
    /\ DOMAIN memories' = Stored \cup {o.id}
    /\ memories'[o.id] = NewRow(o)
    /\ Ended(o.target, "superseded", o.at)
    /\ \A j \in Stored \ {o.target} : memories'[j] = memories[j]

CorrectConflicts(o) ==
    /\ DOMAIN conflicts' = DOMAIN conflicts \cup RevisionPair(o)
                            \cup ConflictingPairs(memories', o.id)
    /\ \A p \in DOMAIN conflicts' : conflicts'[p] =
          IF p \in ConflictingPairs(memories', o.id) THEN Fresh(o.at)
          ELSE IF p \in RevisionPair(o)
          THEN [created_at |-> o.at, resolved_at |-> o.at, resolution |-> o.id]
          ELSE IF o.target \in p /\ conflicts[p].resolved_at = NoTime
          THEN [conflicts[p] EXCEPT !.resolved_at = o.at, !.resolution = o.id]
          ELSE conflicts[p]

RetractRows(o) ==
    /\ DOMAIN memories' = Stored
    /\ Ended(o.target, "retracted", o.at)
    /\ \A j \in Stored \ {o.target} : memories'[j] = memories[j]

RetractConflicts(o) ==
    /\ DOMAIN conflicts' = DOMAIN conflicts
    /\ \A p \in DOMAIN conflicts : conflicts'[p] =
          IF o.target \in p /\ conflicts[p].resolved_at = NoTime
          THEN [conflicts[p] EXCEPT !.resolved_at = o.at, !.resolution = Nil]
          ELSE conflicts[p]

\* Every other step leaves the tables alone and lets no call return.
Quiet ==
    /\ UNCHANGED <<memories, conflicts>>
    /\ \A c \in Client : call'[c].phase = "ok" => call'[c] = call[c]

\* The tables are those the write o leaves.
Changed(o) ==
    \/ o.op = "add" /\ AddEffect(o)
    \/ o.op = "correct" /\ CorrectRows(o) /\ CorrectConflicts(o)
    \/ o.op = "retract" /\ RetractRows(o) /\ RetractConflicts(o)

\* The transaction of c's call commits.
Commits(c) == Returned(c) /\ Changed(call[c])

\* The types of both tables.
TablesTyped ==
    /\ Stored \subseteq MemoryId /\ memories \in [Stored -> Row]
    /\ DOMAIN conflicts \subseteq Pair
    /\ conflicts \in [DOMAIN conflicts -> Conflict]

\* The statements of an add, a correction and a retraction o.
LEMMA AddWrites ==
    ASSUME TypeInv, NEW o \in Call, o.op = "add", o.id \in MemoryId, o.key \in Key,
           o.value \in Value, o.target = Nil, o.id \notin Stored,
           memories' = _insert_memory(memories, o.id, NewRow(o)),
           conflicts' = WithConflictsOf(conflicts, memories', o.id, o.at)
    PROVE  Changed(o) /\ TablesTyped'
<1>1. o.at \in Time
  BY DEF Call
<1>2. memories' \in [Stored \cup {o.id} -> Row]
  BY NewRowType, InsertType DEF TypeInv, TypeOK
<1>3. ConflictingPairs(memories', o.id) \subseteq Pair
  BY <1>2, ConflictingPairsType DEF TypeInv, TypeOK
<1>4. conflicts' \in [DOMAIN conflicts \cup ConflictingPairs(memories', o.id) -> Conflict]
  BY <1>1, FreshType, InsertConflictsType DEF WithConflictsOf, TypeInv, TypeOK
<1>5. AddEffect(o)
  BY <1>2, <1>4
     DEF AddEffect, _insert_memory, WithConflictsOf, _insert_conflicts, Stored
<1> QED
  BY <1>2, <1>3, <1>4, <1>5 DEF Changed, TablesTyped, TypeInv, TypeOK, Stored

LEMMA CorrectWrites ==
    ASSUME TypeInv, NEW o \in Call, o.op = "correct", o.id \in MemoryId,
           o.value \in Value, CorrectCheck(o) = "ok",
           memories' = Corrected(o), conflicts' = CorrectedConflicts(o)
    PROVE  Changed(o) /\ TablesTyped'
<1> DEFINE ended == SetStatus(memories, o.target, "superseded", o.at)
           ms == _insert_memory(ended, o.id, NewRow(o))
           resolved == _resolve_conflicts(conflicts, o.target, o.at, o.id)
           closed == [created_at |-> o.at, resolved_at |-> o.at,
                      resolution |-> o.id]
           revised == _insert_conflicts(resolved, RevisionPair(o), closed)
<1>0. o.at \in Time
  BY DEF Call
<1>1. /\ memories' = ms
      /\ conflicts' = _insert_conflicts(revised, ConflictingPairs(ms, o.id),
                                        Fresh(o.at))
  BY DEF Corrected, CorrectedConflicts, WithConflictsOf, RevisionPair
<1>2. /\ o.target \in Stored /\ memories[o.target].status = "active"
      /\ memories[o.target].created_at <= o.at
      /\ o.key = memories[o.target].key /\ o.id \notin Stored
  BY CheckTypes DEF TypeInv
<1>3. ended \in [Stored -> Row] /\ o.target \in MemoryId /\ o.key \in Key
  BY <1>0, <1>2, SetStatusType DEF TypeInv, TypeOK, Status, Row
<1>4. ms \in [Stored \cup {o.id} -> Row]
  BY <1>3, NewRowType, InsertType
<1>5. ConflictingPairs(ms, o.id) \subseteq Pair /\ RevisionPair(o) \subseteq Pair
  <2>1. ConflictingPairs(ms, o.id) \subseteq Pair
    BY <1>4, ConflictingPairsType DEF TypeInv, TypeOK
  <2>2. RevisionPair(o) \subseteq Pair
    BY <1>2, <1>3 DEF RevisionPair, Pair
  <2> QED
    BY <2>1, <2>2
<1>6. resolved \in [DOMAIN conflicts -> Conflict]
  BY <1>0, ResolveType DEF TypeInv, TypeOK
<1>7. revised \in [DOMAIN conflicts \cup RevisionPair(o) -> Conflict]
  <2>1. closed \in Conflict
    BY <1>0 DEF Conflict
  <2> QED
    BY <1>6, <2>1, InsertConflictsType
<1>8. conflicts' \in [DOMAIN conflicts \cup RevisionPair(o)
                        \cup ConflictingPairs(ms, o.id) -> Conflict]
  <2>1. Fresh(o.at) \in Conflict
    BY <1>0, FreshType
  <2> DEFINE pairs == ConflictingPairs(ms, o.id)
             S == DOMAIN conflicts \cup RevisionPair(o)
  <2>2. revised \in [S -> Conflict]
    BY <1>7
  <2>3. conflicts' = _insert_conflicts(revised, pairs, Fresh(o.at))
    BY <1>1
  <2> HIDE DEF revised, pairs, S
  <2>4. _insert_conflicts(revised, pairs, Fresh(o.at)) \in [S \cup pairs -> Conflict]
    BY <2>1, <2>2, InsertConflictsType
  <2> QED
    BY <2>3, <2>4 DEF pairs, S
<1>9. CorrectRows(o) /\ CorrectConflicts(o)
  <2>1. /\ ended[o.target] = [memories[o.target] EXCEPT
              !.status = "superseded", !.status_changed_at = o.at]
        /\ \A j \in Stored \ {o.target} : ended[j] = memories[j]
        /\ DOMAIN ended = Stored
    BY <1>2 DEF SetStatus, TypeInv, TypeOK, Row
  <2>2. /\ DOMAIN memories' = Stored \cup {o.id}
        /\ memories'[o.id] = NewRow(o)
        /\ \A j \in Stored : memories'[j] = ended[j]
    BY <1>1, <1>2, <2>1 DEF _insert_memory
  <2>3. /\ Ended(o.target, "superseded", o.at)
        /\ \A j \in Stored \ {o.target} : memories'[j] = memories[j]
    BY <1>0, <1>2, <2>1, <2>2 DEF Ended
  <2>4. \A p \in DOMAIN conflicts : resolved[p] =
          IF o.target \in p /\ conflicts[p].resolved_at = NoTime
          THEN [conflicts[p] EXCEPT !.resolved_at = o.at, !.resolution = o.id]
          ELSE conflicts[p]
    BY DEF _resolve_conflicts
  <2>5. \A p \in DOMAIN conflicts \cup RevisionPair(o) :
          revised[p] = IF p \in RevisionPair(o) THEN closed ELSE resolved[p]
    BY <1>6 DEF _insert_conflicts
  <2>6. \A p \in DOMAIN conflicts' :
          conflicts'[p] = IF p \in ConflictingPairs(ms, o.id) THEN Fresh(o.at)
                          ELSE revised[p]
    BY <1>1, <1>7, <1>8 DEF _insert_conflicts
  <2> HIDE DEF ended, ms, resolved, revised
  <2>7. \A p \in DOMAIN conflicts' : conflicts'[p] =
          IF p \in ConflictingPairs(memories', o.id) THEN Fresh(o.at)
          ELSE IF p \in RevisionPair(o) THEN closed
          ELSE IF o.target \in p /\ conflicts[p].resolved_at = NoTime
          THEN [conflicts[p] EXCEPT !.resolved_at = o.at, !.resolution = o.id]
          ELSE conflicts[p]
    BY <1>1, <1>8, <2>4, <2>5, <2>6
  <2> QED
    BY <1>0, <1>1, <1>2, <1>8, <2>2, <2>3, <2>7
       DEF CorrectRows, CorrectConflicts
<1> QED
  BY <1>1, <1>3, <1>4, <1>5, <1>8, <1>9 DEF Changed, TablesTyped, TypeInv, TypeOK, Stored

LEMMA RetractWrites ==
    ASSUME TypeInv, NEW o \in Call, o.op = "retract", RetractCheck(o) = "ok",
           memories' = SetStatus(memories, o.target, "retracted", o.at),
           conflicts' = _resolve_conflicts(conflicts, o.target, o.at, Nil)
    PROVE  Changed(o) /\ TablesTyped'
<1>0. o.at \in Time
  BY DEF Call
<1>1. /\ o.target \in Stored /\ memories[o.target].status = "active"
      /\ memories[o.target].created_at <= o.at
  BY CheckTypes DEF TypeInv
<1>2. memories' \in [Stored -> Row]
  BY <1>0, SetStatusType DEF TypeInv, TypeOK, Status
<1>3. conflicts' \in [DOMAIN conflicts -> Conflict]
  BY <1>0, ResolveType DEF TypeInv, TypeOK
<1>4. RetractRows(o) /\ RetractConflicts(o)
  <2>1. /\ Ended(o.target, "retracted", o.at)
        /\ \A j \in Stored \ {o.target} : memories'[j] = memories[j]
    BY <1>0, <1>1 DEF SetStatus, Ended, TypeInv, TypeOK, Row
  <2>2. \A p \in DOMAIN conflicts : conflicts'[p] =
          IF o.target \in p /\ conflicts[p].resolved_at = NoTime
          THEN [conflicts[p] EXCEPT !.resolved_at = o.at, !.resolution = Nil]
          ELSE conflicts[p]
    BY DEF _resolve_conflicts
  <2> QED
    BY <1>2, <1>3, <2>1, <2>2 DEF RetractRows, RetractConflicts
<1> QED
  BY <1>2, <1>3, <1>4 DEF Changed, TablesTyped, TypeInv, TypeOK, Stored

\* The call whose transaction committed returns.
LEMMA CommitReturns ==
    ASSUME TypeInv, NEW c \in Client, call[c].phase = "store", Exit(c, "ok"),
           Changed(call[c]), TablesTyped', UNCHANGED clock
    PROVE  Commits(c) /\ TypeInv'
<1>1. /\ call' \in [Client -> Call]
      /\ call'[c] = [call[c] EXCEPT !.phase = "ok"]
      /\ \A d \in Client \ {c} : call'[d] = call[d]
  BY ExitType DEF TypeInv
<1>2. Commits(c)
  BY <1>1 DEF Commits, Returned
<1>3. TypeOK'
  BY <1>1 DEF TablesTyped, TypeInv, TypeOK, Stored
<1>4. CallsWellFormed'
  <2>1. call[c] \in Call
    BY DEF TypeInv, TypeOK
  <2> QED
    BY <1>1, <2>1 DEF TypeInv, TypeOK, CallsWellFormed, Call
<1> QED
  BY <1>2, <1>3, <1>4 DEF TypeInv

\* A transaction that raises changes nothing.
LEMMA FailureQuiet ==
    ASSUME TypeInv, NEW c \in Client, NEW r \in Failure,
           Exit(c, r), UNCHANGED <<memories, conflicts, clock>>
    PROVE  Quiet /\ TypeInv'
<1>1. "ok" \notin Failure /\ "store" \notin Failure
  BY DEF Failure
<1>2. /\ call' \in [Client -> Call] /\ call'[c].phase = r
      /\ \A d \in Client \ {c} : call'[d] = call[d]
  BY ExitType DEF TypeInv
<1> QED
  BY <1>1, <1>2 DEF Quiet, TypeInv, TypeOK, CallsWellFormed, Stored

LEMMA CommitChanges ==
    ASSUME TypeInv, NEW c \in Client, Commits(c)
    PROVE  call[c] \in Call /\ Changed(call[c])
BY DEF Commits, TypeInv, TypeOK

LEMMA AddCommits ==
    ASSUME TypeInv, NEW c \in Client, StoreAdd(c)
    PROVE  (Quiet \/ Commits(c)) /\ TypeInv'
<1> DEFINE o == call[c]
<1>0. /\ o \in Call /\ o.id \in MemoryId /\ o.key \in Key /\ o.value \in Value
      /\ o.target = Nil /\ o.phase = "store" /\ o.op = "add"
  BY DEF TypeInv, TypeOK, CallsWellFormed, StoreAdd, Call
<1>1. CASE o.id \in Stored
  <2>1. Exit(c, "PersistenceConflict") /\ UNCHANGED <<memories, conflicts, clock>>
    BY <1>1 DEF StoreAdd
  <2>2. "PersistenceConflict" \in Failure
    BY DEF Failure
  <2> QED
    BY <2>1, <2>2, FailureQuiet
<1>2. CASE o.id \notin Stored
  <2>1. /\ memories' = _insert_memory(memories, o.id, NewRow(o))
        /\ conflicts' = WithConflictsOf(conflicts, memories', o.id, o.at)
        /\ UNCHANGED clock /\ Exit(c, "ok")
    BY <1>2 DEF StoreAdd
  <2>2. Changed(o) /\ TablesTyped'
    BY <1>0, <1>2, <2>1, AddWrites
  <2> QED
    BY <1>0, <2>1, <2>2, CommitReturns
<1> QED
  BY <1>1, <1>2

LEMMA CorrectCommits ==
    ASSUME TypeInv, NEW c \in Client, StoreCorrect(c)
    PROVE  (Quiet \/ Commits(c)) /\ TypeInv'
<1> DEFINE o == call[c]
<1>0. /\ o \in Call /\ o.id \in MemoryId /\ o.value \in Value
      /\ o.phase = "store" /\ o.op = "correct"
  BY DEF TypeInv, TypeOK, CallsWellFormed, StoreCorrect, Call
<1>1. CASE CorrectCheck(o) # "ok"
  <2>1. /\ Exit(c, CorrectCheck(o)) /\ UNCHANGED <<memories, conflicts, clock>>
        /\ CorrectCheck(o) \in Failure
    BY <1>0, <1>1, CheckTypes DEF StoreCorrect, TypeInv
  <2> QED
    BY <2>1, FailureQuiet
<1>2. CASE CorrectCheck(o) = "ok"
  <2>1. /\ memories' = Corrected(o) /\ conflicts' = CorrectedConflicts(o)
        /\ UNCHANGED clock /\ Exit(c, "ok")
    BY <1>2 DEF StoreCorrect
  <2>2. Changed(o) /\ TablesTyped'
    BY <1>0, <1>2, <2>1, CorrectWrites
  <2> QED
    BY <1>0, <2>1, <2>2, CommitReturns
<1> QED
  BY <1>1, <1>2

LEMMA RetractCommits ==
    ASSUME TypeInv, NEW c \in Client, StoreRetract(c)
    PROVE  (Quiet \/ Commits(c)) /\ TypeInv'
<1> DEFINE o == call[c]
<1>0. o \in Call /\ o.phase = "store" /\ o.op = "retract"
  BY DEF TypeInv, TypeOK, StoreRetract
<1>1. CASE RetractCheck(o) # "ok"
  <2>1. /\ Exit(c, RetractCheck(o)) /\ UNCHANGED <<memories, conflicts, clock>>
        /\ RetractCheck(o) \in Failure
    BY <1>0, <1>1, CheckTypes DEF StoreRetract, TypeInv
  <2> QED
    BY <2>1, FailureQuiet
<1>2. CASE RetractCheck(o) = "ok"
  <2>1. /\ memories' = SetStatus(memories, o.target, "retracted", o.at)
        /\ conflicts' = _resolve_conflicts(conflicts, o.target, o.at, Nil)
        /\ UNCHANGED clock /\ Exit(c, "ok")
    BY <1>2 DEF StoreRetract
  <2>2. Changed(o) /\ TablesTyped'
    BY <1>0, <1>2, <2>1, RetractWrites
  <2> QED
    BY <1>0, <2>1, <2>2, CommitReturns
<1> QED
  BY <1>1, <1>2

\* A service step, or a crash, puts call o in place and touches no table.
LEMMA EnterQuiet ==
    ASSUME TypeInv, NEW c \in Client, NEW o \in Call, Enter(c, o),
           UNCHANGED <<memories, conflicts, clock>>,
           o.phase # "ok",
           o.phase = "store" =>
             /\ o.op # "none"
             /\ o.op \in {"add", "correct"} =>
                   o.id \in MemoryId /\ o.key \in Key /\ o.value \in Value
             /\ o.op = "add" => o.target = Nil
             /\ o.op \in {"correct", "retract"} => o.target \in MemoryId
    PROVE  Quiet /\ TypeInv'
<1>1. /\ call' \in [Client -> Call] /\ call'[c] = o
      /\ \A d \in Client \ {c} : call'[d] = call[d]
  BY DEF Enter, TypeInv, TypeOK
<1> QED
  BY <1>1 DEF Quiet, TypeInv, TypeOK, CallsWellFormed, Stored

LEMMA CallsQuiet ==
    ASSUME TypeInv, NEW c \in Client, Calls(c)
    PROVE  Quiet /\ TypeInv'
<1>0. clock \in Time /\ 0 \in Time
  BY TimeAssumption DEF TypeInv, TypeOK, Time
<1>1. ASSUME NEW i \in MemoryId, NEW k \in Key, NEW v \in Value,
             create_memory(c, i, k, v)
      PROVE  Quiet /\ TypeInv'
  <2> DEFINE o == [phase |-> "store", op |-> "add", id |-> i, key |-> k,
                   value |-> v, at |-> clock, target |-> Nil]
  <2>1. o \in Call
    BY <1>0 DEF Call
  <2>2. Enter(c, o) /\ UNCHANGED <<memories, conflicts, clock>>
    BY <1>1 DEF create_memory
  <2> QED
    BY <2>1, <2>2, EnterQuiet
<1>2. ASSUME NEW t \in MemoryId, NEW i \in MemoryId, NEW v \in Value,
             NEW prov \in Provenance, correct_memory(c, t, i, v, prov)
      PROVE  Quiet /\ TypeInv'
  <2> DEFINE r == CorrectRefusal(i, t, prov)
  <2>1. r \in Failure \cup {"ok"} /\ (r = "ok" => t \in Stored)
    BY RefusalType DEF TypeInv
  <2>2. CASE r = "ok"
    <3> DEFINE o == [phase |-> "store", op |-> "correct", id |-> i,
                     key |-> memories[t].key, value |-> v, at |-> clock,
                     target |-> t]
    <3>1. memories[t].key \in Key
      BY <2>1, <2>2 DEF TypeInv, TypeOK, Row
    <3>2. o \in Call
      BY <1>0, <3>1 DEF Call
    <3>3. Enter(c, o) /\ UNCHANGED <<memories, conflicts, clock>>
      BY <1>2, <2>2 DEF correct_memory
    <3> QED
      BY <3>1, <3>2, <3>3, EnterQuiet
  <2>3. CASE r # "ok"
    <3> DEFINE o == [NoCall EXCEPT !.phase = r]
    <3>1. r \in Failure /\ r # "store"
      BY <2>1, <2>3 DEF Failure
    <3>2. o \in Call /\ o.phase = r
      BY <1>0, <3>1 DEF Call, NoCall
    <3>3. Enter(c, o) /\ UNCHANGED <<memories, conflicts, clock>>
      BY <1>2, <2>3 DEF correct_memory
    <3> QED
      BY <2>3, <3>1, <3>2, <3>3, EnterQuiet
  <2> QED
    BY <2>2, <2>3
<1>3. ASSUME NEW t \in MemoryId, retract_memory(c, t)
      PROVE  Quiet /\ TypeInv'
  <2> DEFINE o == [phase |-> "store", op |-> "retract", id |-> Nil, key |-> Nil,
                   value |-> Nil, at |-> clock, target |-> t]
  <2>1. o \in Call
    BY <1>0 DEF Call
  <2>2. Enter(c, o) /\ UNCHANGED <<memories, conflicts, clock>>
    BY <1>3 DEF retract_memory
  <2> QED
    BY <2>1, <2>2, EnterQuiet
<1> QED
  BY <1>1, <1>2, <1>3 DEF Calls

\* Every step is a commit of one client or leaves the tables alone, and keeps
\* the types.
LEMMA StepShape ==
    ASSUME TypeInv, [Next]_vars
    PROVE  (Quiet \/ \E c \in Client : Commits(c)) /\ TypeInv'
<1>1. ASSUME NEW c \in Client, Calls(c)
      PROVE  Quiet /\ TypeInv'
  BY <1>1, CallsQuiet
<1>2. ASSUME NEW c \in Client, StoreAdd(c) \/ StoreCorrect(c) \/ StoreRetract(c)
      PROVE  (Quiet \/ Commits(c)) /\ TypeInv'
  BY <1>2, AddCommits, CorrectCommits, RetractCommits
<1>3. ASSUME NEW c \in Client, TransactionFails(c)
      PROVE  Quiet /\ TypeInv'
  <2>1. "MemoryPersistence" \in Failure
    BY DEF Failure
  <2> QED
    BY <1>3, <2>1, FailureQuiet DEF TransactionFails
<1>4. ASSUME NEW c \in Client, Crash(c)
      PROVE  Quiet /\ TypeInv'
  <2>1. NoCall \in Call /\ NoCall.phase = "idle"
    BY TimeAssumption DEF NoCall, Call, Time
  <2> QED
    BY <1>4, <2>1, EnterQuiet DEF Crash
<1>5. CASE ClockMoves
  BY <1>5 DEF ClockMoves, Quiet, TypeInv, TypeOK, CallsWellFormed, Stored
<1>6. CASE UNCHANGED vars
  BY <1>6 DEF vars, Quiet, TypeInv, TypeOK, CallsWellFormed, Stored
<1> QED
  BY <1>1, <1>2, <1>3, <1>4, <1>5, <1>6 DEF Next

LEMMA InitTypeInv == Init => TypeInv
<1> SUFFICES ASSUME Init PROVE TypeInv
  OBVIOUS
<1>1. NoCall \in Call /\ NoCall.phase = "idle"
  BY TimeAssumption DEF NoCall, Call, Time
<1>2. TypeOK
  BY <1>1, TimeAssumption DEF Init, TypeOK, Stored, Time
<1>3. CallsWellFormed
  BY <1>1 DEF Init, CallsWellFormed
<1> QED
  BY <1>2, <1>3 DEF TypeInv

\* The tables and the calls keep their types in every reachable state.
THEOREM TypeCorrect == Spec => []TypeOK
<1>1. TypeInv /\ [Next]_vars => TypeInv'
  BY StepShape
<1>2. TypeInv => TypeOK
  BY DEF TypeInv
<1> QED
  BY InitTypeInv, <1>1, <1>2, PTL DEF Spec

--------------------------------------------------------------------------------
(* The inductive invariant of the tables. *)

\* ConflictsExact needs ResolutionsJustified (a conflict relates stored memories
\* only), RevisionsAcyclic and ToldIsStored need RevisionChains.
TableInv ==
    /\ TypeInv /\ RevisionChains /\ RevisionsAcyclic /\ RowsReadable
    /\ ResolutionsJustified /\ ConflictsExact /\ ToldIsStored

LEMMA EndedRow ==
    ASSUME TypeInv, NEW t, NEW s \in Status, NEW at, Ended(t, s, at)
    PROVE  /\ memories'[t].status = s /\ memories'[t].status_changed_at = at
           /\ memories'[t].key = memories[t].key
           /\ memories'[t].value = memories[t].value
           /\ memories'[t].created_at = memories[t].created_at
           /\ memories'[t].supersedes = memories[t].supersedes
           /\ memories'[t].created_at <= memories'[t].status_changed_at
<1>1. memories[t] \in Row
  BY DEF Ended, TypeInv, TypeOK
<1>2. memories'[t] = [memories[t] EXCEPT !.status = s, !.status_changed_at = at]
  BY DEF Ended
<1>3. /\ memories'[t].status = s /\ memories'[t].status_changed_at = at
      /\ memories'[t].key = memories[t].key
      /\ memories'[t].value = memories[t].value
      /\ memories'[t].created_at = memories[t].created_at
      /\ memories'[t].supersedes = memories[t].supersedes
  BY <1>1, <1>2 DEF Row
<1> QED
  BY <1>3 DEF Ended

\* The effect of a commit on the rows, whichever transaction it is: at most one
\* active row changes its status, at most one row is new.
LEMMA RowsAfter ==
    ASSUME TypeInv, NEW o \in Call, Changed(o)
    PROVE  /\ \A j \in Stored :
                 /\ j \in DOMAIN memories'
                 /\ memories'[j].key = memories[j].key
                 /\ memories'[j].value = memories[j].value
                 /\ memories'[j].created_at = memories[j].created_at
                 /\ memories'[j].supersedes = memories[j].supersedes
                 /\ memories[j].status # "active" => memories'[j] = memories[j]
           /\ \A j \in DOMAIN memories' \ Stored :
                 /\ j = o.id /\ o.op \in {"add", "correct"}
                 /\ memories'[j] = NewRow(o)
<1>1. CASE o.op = "add" /\ AddEffect(o)
  BY <1>1 DEF AddEffect
<1>2. CASE o.op = "correct" /\ CorrectRows(o)
  BY <1>2, EndedRow DEF CorrectRows, Ended, Status
<1>3. CASE o.op = "retract" /\ RetractRows(o)
  BY <1>3, EndedRow DEF RetractRows, Ended, Status
<1> QED
  BY <1>1, <1>2, <1>3 DEF Changed

LEMMA NewRowFields ==
    ASSUME NEW o
    PROVE  /\ NewRow(o).key = o.key /\ NewRow(o).value = o.value
           /\ NewRow(o).status = "active" /\ NewRow(o).created_at = o.at
           /\ NewRow(o).status_changed_at = o.at
           /\ NewRow(o).supersedes = o.target
BY DEF NewRow

LEMMA RevisionChainsStep ==
    ASSUME TypeInv, RevisionChains, NEW o \in Call, Changed(o)
    PROVE  RevisionChains'
<1>1. CASE o.op = "add" /\ AddEffect(o)
  BY <1>1, NewRowFields, NilAssumption DEF AddEffect, RevisionChains, Stored
<1>2. CASE o.op = "correct" /\ CorrectRows(o)
  <2>1. /\ memories'[o.target].status = "superseded"
        /\ memories'[o.target].status_changed_at = o.at
        /\ memories[o.target].status = "active" /\ o.target \in Stored
        /\ o.target # o.id /\ o.target \in DOMAIN memories'
    BY <1>2, EndedRow DEF CorrectRows, Ended, Status
  <2>2. \A i \in Stored : memories[i].supersedes # o.target
    BY <2>1, NilAssumption DEF RevisionChains, TypeInv, TypeOK
  <2>3. /\ memories'[o.id].supersedes = o.target
        /\ memories'[o.id].key = memories[o.target].key
        /\ memories'[o.id].created_at = o.at
        /\ memories'[o.id].status = "active"
    BY <1>2, NewRowFields DEF CorrectRows
  <2>4. /\ DOMAIN memories' = Stored \cup {o.id} /\ o.id \notin Stored
        /\ \A j \in Stored \ {o.target} : memories'[j] = memories[j]
        /\ memories'[o.target].key = memories[o.target].key
        /\ memories'[o.target].supersedes = memories[o.target].supersedes
        /\ memories'[o.target].created_at = memories[o.target].created_at
    BY <1>2, RowsAfter DEF CorrectRows, Ended
  <2>5. \A i \in DOMAIN memories' : memories'[i].supersedes # Nil =>
          LET t == memories'[i].supersedes IN
          /\ t \in DOMAIN memories' /\ memories'[t].status = "superseded"
          /\ memories'[t].key = memories'[i].key
          /\ memories'[t].status_changed_at = memories'[i].created_at
    BY <2>1, <2>2, <2>3, <2>4 DEF RevisionChains
  <2>6. \A i, j \in DOMAIN memories' :
          memories'[i].supersedes = memories'[j].supersedes
            => i = j \/ memories'[i].supersedes = Nil
    BY <2>2, <2>3, <2>4 DEF RevisionChains
  <2>7. \A t \in DOMAIN memories' : memories'[t].status = "superseded" =>
          \E i \in DOMAIN memories' : memories'[i].supersedes = t
    BY <2>3, <2>4 DEF RevisionChains
  <2> QED
    BY <2>5, <2>6, <2>7 DEF RevisionChains, Stored
<1>3. CASE o.op = "retract" /\ RetractRows(o)
  <2>1. /\ memories'[o.target].status = "retracted"
        /\ memories[o.target].status = "active" /\ o.target \in Stored
        /\ DOMAIN memories' = Stored
        /\ \A j \in Stored \ {o.target} : memories'[j] = memories[j]
    BY <1>3, EndedRow DEF RetractRows, Ended, Status
  <2> QED
    BY <2>1, RowsAfter DEF RevisionChains, Stored
<1> QED
  BY <1>1, <1>2, <1>3 DEF Changed

LEMMA AcyclicStep ==
    ASSUME TypeInv, RevisionChains, RevisionsAcyclic, NEW o \in Call, Changed(o)
    PROVE  RevisionsAcyclic'
<1> SUFFICES ASSUME NEW S \in SUBSET DOMAIN memories', S # {}
             PROVE  \E i \in S : memories'[i].supersedes \notin S
  BY DEF RevisionsAcyclic, Stored
<1>1. CASE S \cap Stored = {}
  <2>1. PICK i \in S : TRUE
    OBVIOUS
  <2>2. S = {o.id} /\ memories'[o.id].supersedes = o.target /\ o.op \in {"add", "correct"}
    BY <1>1, <2>1, RowsAfter, NewRowFields
  <2>3. o.target # o.id
    BY <2>2, NilAssumption DEF Changed, AddEffect, CorrectRows, Ended
  <2> QED
    BY <2>2, <2>3
<1>2. CASE S \cap Stored # {}
  <2>1. PICK i \in S \cap Stored : memories[i].supersedes \notin S \cap Stored
    BY <1>2 DEF RevisionsAcyclic
  <2>2. memories[i].supersedes \in Stored \cup {Nil}
    BY <2>1 DEF RevisionChains
  <2>3. Nil \notin S
    <3>1. Nil \notin Stored
      BY NilAssumption DEF TypeInv, TypeOK
    <3>2. \A j \in DOMAIN memories' \ Stored : j \in MemoryId
      BY RowsAfter DEF Changed, AddEffect, CorrectRows, RetractRows
    <3> QED
      BY <3>1, <3>2, NilAssumption
  <2>4. memories'[i].supersedes \notin S
    BY <2>1, <2>2, <2>3, RowsAfter
  <2> QED
    BY <2>1, <2>4
<1> QED
  BY <1>1, <1>2

LEMMA ReadableStep ==
    ASSUME TypeInv, RowsReadable, NEW o \in Call, Changed(o)
    PROVE  RowsReadable'
<1>0. o.at \in Int /\ o.at <= o.at
  BY TimeAssumption DEF TypeInv, TypeOK, Call, Time
<1>1. CASE o.op = "add" /\ AddEffect(o)
  BY <1>0, <1>1, NewRowFields DEF AddEffect, RowsReadable, Stored
<1>2. CASE o.op = "correct" /\ CorrectRows(o)
  <2>1. memories'[o.target].created_at <= memories'[o.target].status_changed_at
    BY <1>2, EndedRow DEF CorrectRows, Ended, Status
  <2> QED
    BY <1>0, <1>2, <2>1, NewRowFields DEF CorrectRows, RowsReadable, Stored
<1>3. CASE o.op = "retract" /\ RetractRows(o)
  <2>1. memories'[o.target].created_at <= memories'[o.target].status_changed_at
    BY <1>3, EndedRow DEF RetractRows, Ended, Status
  <2> QED
    BY <1>3, <2>1 DEF RetractRows, RowsReadable, Stored
<1> QED
  BY <1>1, <1>2, <1>3 DEF Changed

--------------------------------------------------------------------------------
(* The conflicts table. *)

\* Both sides of p are stored, share a key and differ in value.
Disagree(p) ==
    /\ p \subseteq Stored
    /\ \A i, j \in p : i # j => /\ memories[i].key = memories[j].key
                                /\ memories[i].value # memories[j].value

LEMMA DisagreeKept ==
    ASSUME TypeInv, NEW o \in Call, Changed(o), NEW p, Disagree(p)
    PROVE  Disagree(p)'
BY RowsAfter DEF Disagree, Stored

LEMMA ConflictingDisagree ==
    ASSUME NEW i \in DOMAIN memories', NEW p \in ConflictingPairs(memories', i)
    PROVE  /\ Disagree(p)'
           /\ \E k \in DOMAIN memories' : /\ k # i /\ p = {i, k}
                                          /\ memories'[k].status = "active"
<1>1. PICK k \in DOMAIN memories' : /\ k # i /\ p = {i, k}
                                    /\ memories'[k].status = "active"
                                    /\ memories'[k].key = memories'[i].key
                                    /\ memories'[k].value # memories'[i].value
  BY DEF ConflictingPairs
<1> QED
  BY <1>1 DEF Disagree, Stored

\* What one conflict of the new table is, after a commit.
LEMMA ConflictsAfter ==
    ASSUME TypeInv, ResolutionsJustified, NEW o \in Call, Changed(o),
           NEW p \in DOMAIN conflicts'
    PROVE  \/ /\ o.op \in {"add", "correct"}
              /\ o.id \in DOMAIN memories' \ Stored
              /\ p \in ConflictingPairs(memories', o.id)
              /\ conflicts'[p] = Fresh(o.at)
           \/ /\ o.op = "correct" /\ o.id \in DOMAIN memories' \ Stored
              /\ p = {o.target, o.id} /\ memories[o.target].value # o.value
              /\ conflicts'[p].resolved_at = o.at /\ conflicts'[p].resolution = o.id
           \/ /\ o.op \in {"correct", "retract"} /\ p \in DOMAIN conflicts
              /\ o.target \in p /\ conflicts[p].resolved_at = NoTime
              /\ conflicts'[p].resolved_at = o.at
              /\ conflicts'[p].resolution = IF o.op = "correct" THEN o.id ELSE Nil
           \/ /\ p \in DOMAIN conflicts /\ conflicts'[p] = conflicts[p]
              /\ (o.op = "add" \/ o.target \notin p
                    \/ conflicts[p].resolved_at # NoTime)
<1>0. p \in DOMAIN conflicts => conflicts[p] \in Conflict
  BY DEF TypeInv, TypeOK
<1>1. CASE o.op = "add" /\ AddEffect(o)
  BY <1>1 DEF AddEffect
<1>2. CASE o.op = "correct" /\ CorrectRows(o) /\ CorrectConflicts(o)
  <2>0. o.id \in DOMAIN memories' \ Stored
    BY <1>2 DEF CorrectRows
  <2>1. CASE p \in ConflictingPairs(memories', o.id)
    BY <1>2, <2>0, <2>1 DEF CorrectConflicts
  <2>2. CASE p \in RevisionPair(o) /\ p \notin ConflictingPairs(memories', o.id)
    <3>1. conflicts'[p] = [created_at |-> o.at, resolved_at |-> o.at,
                           resolution |-> o.id]
      BY <1>2, <2>2 DEF CorrectConflicts
    <3>2. conflicts'[p].resolved_at = o.at /\ conflicts'[p].resolution = o.id
      BY <3>1
    <3> QED
      BY <1>2, <2>0, <2>2, <3>2 DEF RevisionPair
  <2>3. CASE /\ p \notin RevisionPair(o) /\ p \notin ConflictingPairs(memories', o.id)
             /\ o.target \in p /\ conflicts[p].resolved_at = NoTime
    <3>1. p \in DOMAIN conflicts /\ conflicts'[p] =
            [conflicts[p] EXCEPT !.resolved_at = o.at, !.resolution = o.id]
      BY <1>2, <2>3 DEF CorrectConflicts
    <3>2. conflicts'[p].resolved_at = o.at /\ conflicts'[p].resolution = o.id
      BY <1>0, <3>1 DEF Conflict
    <3> QED
      BY <1>2, <2>3, <3>1, <3>2
  <2>4. CASE /\ p \notin RevisionPair(o) /\ p \notin ConflictingPairs(memories', o.id)
             /\ ~(o.target \in p /\ conflicts[p].resolved_at = NoTime)
    BY <1>2, <2>4 DEF CorrectConflicts
  <2> QED
    BY <2>1, <2>2, <2>3, <2>4
<1>3. CASE o.op = "retract" /\ RetractRows(o) /\ RetractConflicts(o)
  <2>1. CASE o.target \in p /\ conflicts[p].resolved_at = NoTime
    <3>1. p \in DOMAIN conflicts /\ conflicts'[p] =
            [conflicts[p] EXCEPT !.resolved_at = o.at, !.resolution = Nil]
      BY <1>3, <2>1 DEF RetractConflicts
    <3>2. conflicts'[p].resolved_at = o.at /\ conflicts'[p].resolution = Nil
      BY <1>0, <3>1 DEF Conflict
    <3> QED
      BY <1>3, <2>1, <3>1, <3>2
  <2>2. CASE ~(o.target \in p /\ conflicts[p].resolved_at = NoTime)
    BY <1>3, <2>2 DEF RetractConflicts
  <2> QED
    BY <2>1, <2>2
<1> QED
  BY <1>1, <1>2, <1>3 DEF Changed

LEMMA ResolutionsStep ==
    ASSUME TypeInv, ResolutionsJustified, NEW o \in Call, Changed(o)
    PROVE  ResolutionsJustified'
<1> DEFINE Justified(p) == conflicts'[p].resolution # Nil =>
             /\ conflicts'[p].resolution \in DOMAIN memories'
             /\ memories'[conflicts'[p].resolution].supersedes \in p
<1> SUFFICES ASSUME NEW p \in DOMAIN conflicts'
             PROVE  Disagree(p)' /\ Justified(p)
  BY DEF ResolutionsJustified, Disagree, Stored
<1>0. p \in DOMAIN conflicts => Disagree(p)
  BY DEF ResolutionsJustified, Disagree
<1>1. CASE /\ o.id \in DOMAIN memories' \ Stored
           /\ p \in ConflictingPairs(memories', o.id)
           /\ conflicts'[p] = Fresh(o.at)
  BY <1>1, ConflictingDisagree DEF Fresh
<1>2. CASE /\ o.op = "correct" /\ o.id \in DOMAIN memories' \ Stored
           /\ p = {o.target, o.id} /\ memories[o.target].value # o.value
           /\ conflicts'[p].resolved_at = o.at /\ conflicts'[p].resolution = o.id
  <2>1. /\ memories'[o.id].key = memories[o.target].key
        /\ memories'[o.id].value = o.value
        /\ memories'[o.id].supersedes = o.target /\ o.target \in Stored
    BY <1>2, NewRowFields DEF Changed, CorrectRows, Ended
  <2> QED
    BY <1>2, <2>1, RowsAfter DEF Disagree, Stored
<1>3. CASE /\ o.op \in {"correct", "retract"} /\ p \in DOMAIN conflicts
           /\ o.target \in p
           /\ conflicts'[p].resolution = IF o.op = "correct" THEN o.id ELSE Nil
  <2>1. Disagree(p)'
    BY <1>0, <1>3, DisagreeKept
  <2>2. o.op = "correct" => /\ o.id \in DOMAIN memories'
                            /\ memories'[o.id].supersedes = o.target
    BY NewRowFields DEF Changed, CorrectRows
  <2> QED
    BY <1>3, <2>1, <2>2
<1>4. CASE p \in DOMAIN conflicts /\ conflicts'[p] = conflicts[p]
  <2>1. Disagree(p)'
    BY <1>0, <1>4, DisagreeKept
  <2> QED
    BY <1>4, <2>1, RowsAfter DEF ResolutionsJustified
<1> QED
  BY <1>1, <1>2, <1>3, <1>4, ConflictsAfter

\* i and j are active and state different values for one key.
Clash(i, j) ==
    /\ i \in Stored /\ j \in Stored /\ Active(i) /\ Active(j)
    /\ memories[i].key = memories[j].key /\ memories[i].value # memories[j].value

\* A commit of a correction or a retraction leaves its target inactive.
LEMMA TargetEnded ==
    ASSUME TypeInv, NEW o \in Call, Changed(o), o.op \in {"correct", "retract"}
    PROVE  /\ o.target \in Stored /\ memories[o.target].status = "active"
           /\ memories'[o.target].status # "active"
           /\ \A j \in Stored \ {o.target} : memories'[j] = memories[j]
<1>1. CASE o.op = "correct" /\ CorrectRows(o)
  BY <1>1, EndedRow DEF CorrectRows, Ended, Status
<1>2. CASE o.op = "retract" /\ RetractRows(o)
  BY <1>2, EndedRow DEF RetractRows, Ended, Status
<1> QED
  BY <1>1, <1>2 DEF Changed

LEMMA NewRowConflicts ==
    ASSUME TypeInv, NEW o \in Call, Changed(o), o.id \in DOMAIN memories' \ Stored,
           NEW p \in ConflictingPairs(memories', o.id)
    PROVE  p \in DOMAIN conflicts' /\ conflicts'[p] = Fresh(o.at)
<1>1. CASE o.op = "add" /\ AddEffect(o)
  BY <1>1 DEF AddEffect
<1>2. CASE o.op = "correct" /\ CorrectConflicts(o)
  BY <1>2 DEF CorrectConflicts
<1>3. CASE o.op = "retract" /\ RetractRows(o)
  BY <1>3 DEF RetractRows
<1> QED
  BY <1>1, <1>2, <1>3 DEF Changed

LEMMA ConflictsGrow ==
    ASSUME NEW o \in Call, Changed(o)
    PROVE  DOMAIN conflicts \subseteq DOMAIN conflicts'
BY DEF Changed, AddEffect, CorrectConflicts, RetractConflicts

LEMMA ConflictsExactStep ==
    ASSUME TypeInv, TypeInv', ResolutionsJustified, ConflictsExact,
           NEW o \in Call, Changed(o)
    PROVE  ConflictsExact'
<1>0. o.at # NoTime /\ \A t : Fresh(t).resolved_at = NoTime
  BY TimeAssumption DEF TypeInv, TypeOK, Call, Time, NoTime, Fresh
<1>1. ASSUME NEW p \in DOMAIN conflicts', conflicts'[p].resolved_at = NoTime
      PROVE  \E i, j \in DOMAIN memories' : p = {i, j} /\ Clash(i, j)'
  <2>1. CASE /\ o.id \in DOMAIN memories' \ Stored
             /\ p \in ConflictingPairs(memories', o.id)
    <3>1. memories'[o.id].status = "active"
      BY <2>1, RowsAfter, NewRowFields
    <3> QED
      BY <2>1, <3>1, ConflictingDisagree DEF Clash, Active, Disagree, Stored
  <2>2. CASE /\ p \in DOMAIN conflicts /\ conflicts'[p] = conflicts[p]
             /\ (o.op = "add" \/ o.target \notin p)
    <3>1. PICK i, j \in Stored : p = {i, j} /\ Clash(i, j)
      BY <1>1, <2>2 DEF ConflictsExact, Unresolved, Clash
    <3>2. memories'[i] = memories[i] /\ memories'[j] = memories[j]
      BY <2>2, <3>1, TargetEnded DEF Changed, AddEffect
    <3> QED
      BY <3>1, <3>2, RowsAfter DEF Clash, Active, Stored
  <2> QED
    BY <1>0, <1>1, <2>1, <2>2, ConflictsAfter
<1>2. ASSUME NEW i \in DOMAIN memories', NEW j \in DOMAIN memories', Clash(i, j)'
      PROVE  {i, j} \in DOMAIN conflicts' /\ conflicts'[{i, j}].resolved_at = NoTime
  <2>0. /\ i # j /\ memories'[i].status = "active" /\ memories'[j].status = "active"
        /\ memories'[i].key = memories'[j].key
        /\ memories'[i].value # memories'[j].value
    BY <1>2 DEF Clash, Active
  <2>1. CASE i \in Stored /\ j \in Stored
    <3>1. Clash(i, j)
      BY <2>0, <2>1, RowsAfter DEF Clash, Active
    <3>2. {i, j} \in Pair
      BY <2>0, <2>1 DEF Pair, TypeInv, TypeOK
    <3>3. {i, j} \in DOMAIN conflicts /\ conflicts[{i, j}].resolved_at = NoTime
      BY <2>1, <3>1, <3>2 DEF ConflictsExact, Unresolved, Clash
    <3>4. {i, j} \in DOMAIN conflicts'
      BY <3>3, ConflictsGrow
    <3>5. o.op \in {"correct", "retract"} => o.target \notin {i, j}
      BY <2>0, TargetEnded
    <3>6. o.id \in DOMAIN memories' \ Stored => o.id \notin {i, j}
      BY <2>1
    <3>7. \A p \in ConflictingPairs(memories', o.id) : o.id \in p
      BY DEF ConflictingPairs
    <3> QED
      BY <1>0, <3>3, <3>4, <3>5, <3>6, <3>7, ConflictsAfter
  <2>2. ASSUME NEW k \in {i, j}, k \notin Stored, NEW m \in {i, j}, m # k
        PROVE  {i, j} \in DOMAIN conflicts' /\ conflicts'[{i, j}].resolved_at = NoTime
    <3>1. k = o.id /\ {i, j} = {k, m}
      BY <2>2, RowsAfter
    <3>2. {i, j} \in ConflictingPairs(memories', o.id)
      BY <2>0, <2>2, <3>1 DEF ConflictingPairs
    <3> QED
      BY <1>0, <2>2, <3>1, <3>2, NewRowConflicts
  <2> QED
    BY <2>0, <2>1, <2>2
<1>3. DOMAIN conflicts' \subseteq Pair
  BY DEF TypeInv, TypeOK
<1> QED
  BY <1>1, <1>2, <1>3 DEF ConflictsExact, Unresolved, Clash, Stored

LEMMA ToldStep ==
    ASSUME TypeInv, RevisionChains, ToldIsStored, NEW c \in Client, Commits(c)
    PROVE  ToldIsStored'
<1> DEFINE o == call[c]
<1> o \in Call /\ Changed(o)
  BY CommitChanges
<1>0. /\ call'[c].phase = "ok" /\ call'[c].op = o.op /\ call'[c].id = o.id
      /\ call'[c].key = o.key /\ call'[c].value = o.value
      /\ call'[c].target = o.target /\ call'[c].at = o.at
      /\ \A d \in Client \ {c} : call'[d] = call[d]
  <2>1. o \in Call /\ call'[c] = [o EXCEPT !.phase = "ok"]
    BY DEF Commits, Returned, TypeInv, TypeOK
  <2> QED
    BY <2>1 DEF Call, Commits, Returned
<1>1. ASSUME NEW d \in Client \ {c}, call[d].phase = "ok", call[d].op # "add"
      PROVE  /\ call[d].target \in Stored
             /\ memories[call[d].target].status # "active"
  <2>1. /\ call[d].op \in {"correct", "retract"} /\ call[d].target \in MemoryId
    BY <1>1 DEF TypeInv, TypeOK, CallsWellFormed, Call
  <2>2. CASE call[d].op = "correct"
    <3>1. call[d].id \in Stored /\ memories[call[d].id].supersedes = call[d].target
      BY <1>1, <2>2 DEF ToldIsStored
    <3> QED
      BY <2>1, <3>1, NilAssumption DEF RevisionChains
  <2>3. CASE call[d].op = "retract"
    BY <1>1, <2>3 DEF ToldIsStored
  <2> QED
    BY <2>1, <2>2, <2>3
<1>2. o.op \in {"correct", "retract"} => \A d \in Client \ {c} :
        call[d].phase = "ok" /\ call[d].op # "add" => call[d].target # o.target
  BY <1>1, TargetEnded
<1>3. o.op \in {"add", "correct", "retract"}
  BY DEF Changed
<1>4. /\ o.op \in {"add", "correct"} =>
            /\ o.id \in DOMAIN memories'
            /\ memories'[o.id].key = o.key /\ memories'[o.id].value = o.value
            /\ memories'[o.id].supersedes = o.target
  BY NewRowFields DEF Changed, AddEffect, CorrectRows
<1>5. o.op = "retract" => /\ o.target \in DOMAIN memories'
                          /\ memories'[o.target].status = "retracted"
                          /\ memories'[o.target].status_changed_at = o.at
  BY EndedRow DEF Changed, RetractRows, Ended, Status
<1>6. ASSUME NEW d \in Client \ {c}, call[d].phase = "ok"
      PROVE  /\ call[d].op \in {"add", "correct"} =>
                  /\ call[d].id \in DOMAIN memories'
                  /\ memories'[call[d].id].key = call[d].key
                  /\ memories'[call[d].id].value = call[d].value
                  /\ memories'[call[d].id].supersedes = call[d].target
             /\ call[d].op = "retract" =>
                  /\ call[d].target \in DOMAIN memories'
                  /\ memories'[call[d].target].status = "retracted"
                  /\ memories'[call[d].target].status_changed_at = call[d].at
  BY <1>6, RowsAfter DEF ToldIsStored
<1>7. ASSUME NEW d \in Client \ {c}, NEW e \in Client \ {c, d},
             call[d].phase = "ok", call[d].op # "add",
             call[e].phase = "ok", call[e].op # "add"
      PROVE  call[d].target # call[e].target
  BY <1>7 DEF ToldIsStored
<1> SUFFICES ASSUME NEW d \in Client, call'[d].phase = "ok"
             PROVE  LET q == call'[d] IN
                    /\ q.op \in {"add", "correct"} =>
                         /\ q.id \in DOMAIN memories'
                         /\ memories'[q.id].key = q.key
                         /\ memories'[q.id].value = q.value
                         /\ memories'[q.id].supersedes = q.target
                    /\ q.op = "retract" =>
                         /\ q.target \in DOMAIN memories'
                         /\ memories'[q.target].status = "retracted"
                         /\ memories'[q.target].status_changed_at = q.at
                    /\ \A e \in Client \ {d} :
                         call'[e].phase = "ok" /\ call'[e].op # "add" /\ q.op # "add"
                           => call'[e].target # q.target
  BY DEF ToldIsStored, Stored
<1>8. CASE d = c
  BY <1>0, <1>2, <1>3, <1>4, <1>5, <1>8
<1>9. CASE d # c
  BY <1>0, <1>2, <1>3, <1>6, <1>7, <1>9
<1> QED
  BY <1>8, <1>9

LEMMA QuietTables ==
    ASSUME TableInv, TypeInv', Quiet
    PROVE  TableInv'
<1>1. /\ RevisionChains' /\ RevisionsAcyclic' /\ RowsReadable'
      /\ ResolutionsJustified' /\ ConflictsExact'
  BY DEF TableInv, Quiet, RevisionChains, RevisionsAcyclic, RowsReadable,
         ResolutionsJustified, ConflictsExact, Unresolved, Active, Stored
<1>2. ToldIsStored'
  BY DEF TableInv, Quiet, ToldIsStored, Stored
<1> QED
  BY <1>1, <1>2 DEF TableInv

LEMMA InitTables == Init => TableInv
<1> SUFFICES ASSUME Init PROVE TableInv
  OBVIOUS
<1>1. \A c \in Client : call[c].phase = "idle"
  BY DEF Init, NoCall
<1>2. ToldIsStored
  BY <1>1 DEF ToldIsStored
<1>3. Stored = {} /\ DOMAIN conflicts = {}
  BY DEF Init, Stored
<1> QED
  BY <1>2, <1>3, InitTypeInv DEF TableInv, RevisionChains, RevisionsAcyclic,
     RowsReadable, ResolutionsJustified, ConflictsExact, Unresolved

LEMMA StepTables == TableInv /\ [Next]_vars => TableInv'
<1> SUFFICES ASSUME TableInv, [Next]_vars PROVE TableInv'
  OBVIOUS
<1>1. (Quiet \/ \E c \in Client : Commits(c)) /\ TypeInv'
  BY StepShape DEF TableInv
<1>2. CASE Quiet
  BY <1>1, <1>2, QuietTables
<1>3. ASSUME NEW c \in Client, Commits(c)
      PROVE  TableInv'
  BY <1>1, <1>3, CommitChanges, RevisionChainsStep, AcyclicStep, ReadableStep, ResolutionsStep,
     ConflictsExactStep, ToldStep DEF TableInv
<1> QED
  BY <1>1, <1>2, <1>3

\* For any clients, clocks and interleavings the conflicts table is the exact
\* image of the disagreements among active memories.
THEOREM ConflictsAreExact == Spec => []ConflictsExact
<1>1. TableInv => ConflictsExact
  BY DEF TableInv
<1> QED
  BY InitTables, StepTables, <1>1, PTL DEF Spec

\* Revision histories are linear, acyclic and readable.
THEOREM RevisionsAreLinear == Spec => []RevisionsSound
<1>1. TableInv => RevisionsSound
  BY DEF TableInv, RevisionsSound
<1> QED
  BY InitTables, StepTables, <1>1, PTL DEF Spec

\* A call that returned has its effect in the database, and no two calls ended
\* the same memory.
THEOREM ReturnedCallsAreStored == Spec => []ToldIsStored
<1>1. TableInv => ToldIsStored
  BY DEF TableInv
<1> QED
  BY InitTables, StepTables, <1>1, PTL DEF Spec

\* Closed conflicts name the memory that replaced one of their sides.
THEOREM ResolutionsAreJustified == Spec => []ResolutionsJustified
<1>1. TableInv => ResolutionsJustified
  BY DEF TableInv
<1> QED
  BY InitTables, StepTables, <1>1, PTL DEF Spec

\* History is append-only: no row or closed conflict is deleted or rewritten.
THEOREM HistoryIsImmutable == Spec => HistoryImmutable
<1> DEFINE A == /\ \A i \in Stored :
                      /\ i \in DOMAIN memories'
                      /\ \A f \in {"key", "value", "created_at", "supersedes"} :
                            memories'[i][f] = memories[i][f]
                      /\ ~Active(i) => memories'[i] = memories[i]
                /\ \A p \in DOMAIN conflicts :
                      /\ p \in DOMAIN conflicts'
                      /\ p \notin Unresolved => conflicts'[p] = conflicts[p]
<1>1. ASSUME TableInv, [Next]_vars
      PROVE  A
  <2>1. CASE Quiet
    BY <2>1 DEF Quiet, Stored
  <2>2. ASSUME NEW c \in Client, Commits(c)
        PROVE  A
    <3> call[c] \in Call /\ Changed(call[c])
      BY <1>1, <2>2, CommitChanges DEF TableInv
    <3>1. \A i \in Stored :
            /\ i \in DOMAIN memories'
            /\ \A f \in {"key", "value", "created_at", "supersedes"} :
                  memories'[i][f] = memories[i][f]
            /\ ~Active(i) => memories'[i] = memories[i]
      BY <1>1, <2>2, RowsAfter DEF TableInv, Active
    <3>2. ASSUME NEW p \in DOMAIN conflicts
          PROVE  /\ p \in DOMAIN conflicts'
                 /\ p \notin Unresolved => conflicts'[p] = conflicts[p]
      <4>1. p \in DOMAIN conflicts'
        BY <2>2, ConflictsGrow
      <4>2. p \subseteq Stored
        BY <1>1 DEF TableInv, ResolutionsJustified
      <4>3. \A q \in ConflictingPairs(memories', call[c].id) : call[c].id \in q
        BY DEF ConflictingPairs
      <4> QED
        BY <1>1, <2>2, <4>1, <4>2, <4>3, ConflictsAfter DEF TableInv, Unresolved
    <3> QED
      BY <3>1, <3>2
  <2> QED
    BY <1>1, <2>1, <2>2, StepShape DEF TableInv
<1> QED
  BY InitTables, StepTables, <1>1, PTL DEF Spec, HistoryImmutable

--------------------------------------------------------------------------------
(* What the projector makes of what was read. *)

\* The memories of identity k, the values they state, and their contradictions.
Mine(active, k) == {i \in DOMAIN active : active[i].key = k}
Stated(active, k) == {active[i].value : i \in Mine(active, k)}
Stating(active, k, v) == {i \in Mine(active, k) : active[i].value = v}
ClashesOf(active, k) ==
    {p \in SUBSET Mine(active, k) :
        \E i, j \in Mine(active, k) : p = {i, j} /\ active[i].value # active[j].value}

\* The checks that precede the entries.
Checked(active, pairs) ==
    /\ _validated_memories(active)
    /\ _validated_conflicts(active, pairs)
    /\ _require_complete_conflicts(active, pairs)

LEMMA EntryKeys ==
    ASSUME NEW active, NEW pairs
    PROVE  /\ DOMAIN _build_entries(active, pairs) \subseteq ContextKeys
           /\ \A k \in ContextKeys : k \in DOMAIN _build_entries(active, pairs)
                                       <=> Mine(active, k) # {}
  BY DEF _build_entries, Relevant, Mine

\* An entry has the values of its identity, each with the memories that state it,
\* and the conflicts that passed the checks.
LEMMA EntryOf ==
    ASSUME NEW active, NEW pairs, NEW k \in DOMAIN _build_entries(active, pairs)
    PROVE  LET e == _build_entries(active, pairs)[k] IN
           /\ e.state = IF Cardinality(Stated(active, k)) = 1 THEN "RESOLVED"
                        ELSE "CONFLICTED"
           /\ DOMAIN e.values = Stated(active, k)
           /\ \A v \in Stated(active, k) :
                 {ref.memory_id : ref \in e.values[v]} = Stating(active, k, v)
           /\ e.conflicts = {IdsOf(p) : p \in {q \in Considered(pairs) :
                                                 \A m \in q : m[2].key = k}}
<1> DEFINE mine == {i \in Relevant(active) : active[i].key = k}
           values == {active[i].value : i \in mine}
           refs == [v \in values |-> {EvidenceReference(i, active[i]) :
                                         i \in {j \in mine : active[j].value = v}}]
           e == _build_entries(active, pairs)[k]
<1>1. mine = Mine(active, k)
  BY EntryKeys DEF Relevant, Mine
<1>2. values = Stated(active, k)
  BY <1>1 DEF Stated
<1>3. e = [state     |-> IF Cardinality(values) = 1 THEN "RESOLVED" ELSE "CONFLICTED",
           values    |-> refs,
           conflicts |-> {IdsOf(p) : p \in {q \in Considered(pairs) :
                                              \A m \in q : m[2].key = k}}]
  BY DEF _build_entries
<1>4. ASSUME NEW v \in values
      PROVE  {ref.memory_id : ref \in refs[v]} = Stating(active, k, v)
  <2>1. \A i : EvidenceReference(i, active[i]).memory_id = i
    BY DEF EvidenceReference
  <2>2. refs[v] = {EvidenceReference(i, active[i]) : i \in Stating(active, k, v)}
    BY <1>1, <1>4 DEF Stating
  <2>3. \A ref \in refs[v] : ref.memory_id \in Stating(active, k, v)
    BY <2>1, <2>2
  <2>4. \A i \in Stating(active, k, v) : \E ref \in refs[v] : ref.memory_id = i
    BY <2>1, <2>2
  <2> QED
    BY <2>3, <2>4
<1>5. DOMAIN refs = values
  OBVIOUS
<1> HIDE DEF mine, values, refs, e
<1>6. e.state = IF Cardinality(values) = 1 THEN "RESOLVED" ELSE "CONFLICTED"
  BY <1>3
<1>7. e.values = refs
  BY <1>3
<1>8. e.conflicts = {IdsOf(p) : p \in {q \in Considered(pairs) : \A m \in q : m[2].key = k}}
  BY <1>3
<1> QED
  BY <1>2, <1>4, <1>5, <1>6, <1>7, <1>8 DEF e

\* The conflicts that pass the checks are the contradictions of the memories.
LEMMA ConflictsChecked ==
    ASSUME NEW active, NEW pairs, Checked(active, pairs), NEW k \in ContextKeys
    PROVE  {IdsOf(p) : p \in {q \in Considered(pairs) : \A m \in q : m[2].key = k}}
               = ClashesOf(active, k)
<1> DEFINE Own == {q \in Considered(pairs) : \A m \in q : m[2].key = k}
           R == Relevant(active)
           C == {ij \in R \X R : /\ active[ij[1]].key = active[ij[2]].key
                                 /\ active[ij[1]].value # active[ij[2]].value}
<1>1. \A p \in Considered(pairs) : \A m \in p : m[1] \in R /\ active[m[1]] = m[2]
  BY DEF Checked, _validated_conflicts
<1>2. {IdsOf(p) : p \in Considered(pairs)} = {{ij[1], ij[2]} : ij \in C}
  BY DEF Checked, _require_complete_conflicts
<1>3. \A i \in R : active[i].key = k <=> i \in Mine(active, k)
  BY DEF Relevant, Mine
<1>4. \A i \in Mine(active, k) : i \in R
  BY DEF Relevant, Mine
<1>5. ASSUME NEW r \in Own PROVE IdsOf(r) \in ClashesOf(active, k)
  <2>1. r \in Considered(pairs) /\ \A m \in r : m[2].key = k
    BY <1>5
  <2>2. PICK ij \in C : IdsOf(r) = {ij[1], ij[2]}
    BY <1>2, <2>1
  <2>3. /\ ij[1] \in R /\ ij[2] \in R
        /\ active[ij[1]].value # active[ij[2]].value
    BY <2>2
  <2>4. \A i \in IdsOf(r) : i \in R /\ active[i].key = k
    BY <1>1, <2>1 DEF IdsOf
  <2>5. ij[1] \in Mine(active, k) /\ ij[2] \in Mine(active, k)
    BY <1>3, <2>2, <2>4
  <2> QED
    BY <2>2, <2>3, <2>5 DEF ClashesOf
<1>6. ASSUME NEW p \in ClashesOf(active, k) PROVE \E q \in Own : p = IdsOf(q)
  <2>1. PICK i, j \in Mine(active, k) : p = {i, j} /\ active[i].value # active[j].value
    BY <1>6 DEF ClashesOf
  <2>2. i \in R /\ j \in R /\ active[i].key = k /\ active[j].key = k
    BY <1>4 DEF Mine
  <2>3. \E ij \in C : {ij[1], ij[2]} = {i, j}
    <3>1. <<i, j>> \in C
      BY <2>1, <2>2
    <3> QED
      BY <3>1
  <2>4. PICK q \in Considered(pairs) : IdsOf(q) = {i, j}
    <3>1. {i, j} \in {{ij[1], ij[2]} : ij \in C}
      BY <2>3
    <3>2. {i, j} \in {IdsOf(q) : q \in Considered(pairs)}
      BY <1>2, <3>1
    <3> QED
      BY <3>2
  <2>5. \A m \in q : m[1] \in {i, j}
    BY <2>4 DEF IdsOf
  <2>6. \A m \in q : m[2].key = k
    BY <1>1, <2>2, <2>4, <2>5
  <2> QED
    BY <2>1, <2>4, <2>6
<1> QED
  BY <1>5, <1>6

\* The two sides of a contradiction state different values, so the constructor
\* counts as many contradictions across values as there are conflicts.
LEMMA EntryConstructs ==
    ASSUME NEW active, NEW pairs, Checked(active, pairs), IsFiniteSet(DOMAIN active),
           NEW k \in DOMAIN _build_entries(active, pairs)
    PROVE  ContextEntry(_build_entries(active, pairs)[k])
<1> DEFINE e == _build_entries(active, pairs)[k]
           V == Stated(active, k)
           evidence(v) == {ref.memory_id : ref \in e.values[v]}
           across == {{x[1], x[2]} : x \in
                         UNION {evidence(v) \X evidence(w) :
                                   v \in DOMAIN e.values, w \in DOMAIN e.values}}
           within == UNION {{{x[1], x[2]} : x \in evidence(v) \X evidence(v)} :
                               v \in DOMAIN e.values}
<1>1. k \in ContextKeys /\ Mine(active, k) # {}
  BY EntryKeys
<1>2. /\ e.state = IF Cardinality(V) = 1 THEN "RESOLVED" ELSE "CONFLICTED"
      /\ DOMAIN e.values = V
      /\ \A v \in V : evidence(v) = Stating(active, k, v)
      /\ e.conflicts = ClashesOf(active, k)
  <2>1. /\ e.state = IF Cardinality(V) = 1 THEN "RESOLVED" ELSE "CONFLICTED"
        /\ DOMAIN e.values = V
        /\ e.conflicts = {IdsOf(p) : p \in {q \in Considered(pairs) :
                                              \A m \in q : m[2].key = k}}
    BY EntryOf
  <2>2. \A v \in V : evidence(v) = Stating(active, k, v)
    BY EntryOf
  <2>3. e.conflicts = ClashesOf(active, k)
    BY <1>1, <2>1, ConflictsChecked
  <2> QED
    BY <2>1, <2>2, <2>3
<1>3. IsFiniteSet(V) /\ V # {}
  <2> DEFINE f == [i \in Mine(active, k) |-> active[i].value]
  <2>1. IsFiniteSet(Mine(active, k))
    BY FS_Subset DEF Mine
  <2>2. f \in Surjection(Mine(active, k), V)
    BY DEF Surjection, Stated
  <2>3. IsFiniteSet(V)
    BY <2>1, <2>2, FS_Surjection
  <2> QED
    BY <1>1, <2>3 DEF Stated
<1>4. Cardinality(V) \in Nat /\ Cardinality(V) # 0
  BY <1>3, FS_CardinalityType, FS_EmptySet
<1>5. \A v, w \in V : v # w => evidence(v) \cap evidence(w) = {}
  BY <1>2 DEF Stating
<1>6. across \ within = ClashesOf(active, k)
  <2>1. ASSUME NEW p \in across \ within PROVE p \in ClashesOf(active, k)
    <3>0. PICK v \in V, w \in V : \E x \in evidence(v) \X evidence(w) : p = {x[1], x[2]}
      BY <1>2, <2>1
    <3>1. PICK x \in evidence(v) \X evidence(w) : p = {x[1], x[2]}
      BY <3>0
    <3>2. v # w
      BY <1>2, <2>1, <3>1
    <3>3. /\ x[1] \in Mine(active, k) /\ active[x[1]].value = v
          /\ x[2] \in Mine(active, k) /\ active[x[2]].value = w
      BY <1>2, <3>1 DEF Stating
    <3> QED
      BY <3>1, <3>2, <3>3 DEF ClashesOf
  <2>2. ASSUME NEW p \in ClashesOf(active, k) PROVE p \in across \ within
    <3>1. PICK i, j \in Mine(active, k) : p = {i, j} /\ active[i].value # active[j].value
      BY <2>2 DEF ClashesOf
    <3>2. active[i].value \in V /\ active[j].value \in V
      BY <3>1 DEF Stated
    <3>3. i \in evidence(active[i].value) /\ j \in evidence(active[j].value)
      BY <1>2, <3>1, <3>2 DEF Stating
    <3>4. p \in across
      <4>1. <<i, j>> \in evidence(active[i].value) \X evidence(active[j].value)
        BY <3>3
      <4> DEFINE E == {evidence(v) \X evidence(w) :
                          v \in DOMAIN e.values, w \in DOMAIN e.values}
                 U == UNION E
      <4>2. <<i, j>> \in U
        <5>1. active[i].value \in DOMAIN e.values /\ active[j].value \in DOMAIN e.values
          BY <1>2, <3>2
        <5> HIDE DEF e, evidence
        <5>2. evidence(active[i].value) \X evidence(active[j].value) \in E
          BY <5>1
        <5> HIDE DEF E
        <5> QED
          BY <4>1, <5>2
      <4>3. across = {{x[1], x[2]} : x \in U}
        OBVIOUS
      <4> HIDE DEF E, U, across
      <4>4. p = {<<i, j>>[1], <<i, j>>[2]}
        BY <3>1
      <4> QED
        BY <4>2, <4>3, <4>4
    <3>5. ASSUME p \in within PROVE FALSE
      <4>0. PICK u \in V : \E x \in evidence(u) \X evidence(u) : p = {x[1], x[2]}
        BY <1>2, <3>5
      <4>1. PICK x \in evidence(u) \X evidence(u) : p = {x[1], x[2]}
        BY <4>0
      <4>2. i \in evidence(u) /\ j \in evidence(u)
        BY <3>1, <4>1
      <4>3. active[i].value = u /\ active[j].value = u
        BY <1>2, <4>2 DEF Stating
      <4> QED
        BY <3>1, <4>3
    <3> QED
      BY <3>4, <3>5
  <2> QED
    BY <2>1, <2>2
<1>7. CASE Cardinality(V) = 1
  <2>1. PICK v : V = {v}
    BY <1>3, <1>7, FS_Singleton
  <2>2. \A i \in Mine(active, k) : active[i].value = v
    BY <2>1 DEF Stated
  <2>3. ClashesOf(active, k) = {}
    BY <2>2 DEF ClashesOf
  <2> QED
    BY <1>2, <1>5, <1>7, <2>3 DEF ContextEntry
<1>8. CASE Cardinality(V) # 1
  <2>1. Cardinality(V) >= 2 /\ e.state = "CONFLICTED"
    BY <1>2, <1>4, <1>8
  <2>2. e.conflicts = across \ within
    BY <1>2, <1>6
  <2>3. Cardinality(e.conflicts) = Cardinality(across \ within)
    <3> HIDE DEF e, across, within
    <3> QED
      BY <2>2
  <2>4. ~ (e.state = "RESOLVED") /\ Cardinality(DOMAIN e.values) >= 2
    BY <1>2, <2>1
  <2> QED
    BY <1>2, <1>5, <2>3, <2>4 DEF ContextEntry
<1> QED
  BY <1>7, <1>8

\* project checks first; what passes becomes a snapshot, for no constructor
\* refuses an entry.
LEMMA Projected ==
    ASSUME NEW active, NEW pairs, IsFiniteSet(DOMAIN active)
    PROVE  project(active, pairs) =
              IF Checked(active, pairs)
              THEN [result |-> "snapshot", entries |-> _build_entries(active, pairs)]
              ELSE [result |-> "InconsistentSourceState", entries |-> Nothing]
<1>1. CASE Checked(active, pairs)
  <2>1. \A k \in DOMAIN _build_entries(active, pairs) :
            ContextEntry(_build_entries(active, pairs)[k])
    BY <1>1, EntryConstructs
  <2> QED
    BY <1>1, <2>1 DEF project, Checked
<1>2. CASE ~ Checked(active, pairs)
  BY <1>2 DEF project, Checked
<1> QED
  BY <1>1, <1>2

\* Every contradiction among the active memories that were read.
ActiveClashes(active) ==
    {p \in SUBSET DOMAIN active :
        \E i, j \in DOMAIN active : /\ p = {i, j} /\ active[i].key = active[j].key
                                    /\ active[i].value # active[j].value}

\* What the entries say of identity k is what the memories and the open conflicts
\* of the first read say of it.
ImageOf(active, open, entries, k) ==
    /\ get_context(entries, k) = (CASE Stated(active, k) = {} -> "UNKNOWN"
                                    [] Cardinality(Stated(active, k)) = 1 -> "RESOLVED"
                                    [] OTHER -> "CONFLICTED")
    /\ k \in DOMAIN entries =>
          /\ DOMAIN entries[k].values = Stated(active, k)
          /\ \A v \in Stated(active, k) :
                {ref.memory_id : ref \in entries[k].values[v]} = Stating(active, k, v)
          /\ entries[k].conflicts = {p \in open : p \subseteq Mine(active, k)}

LEMMA SnapshotIsImage ==
    ASSUME NEW active, NEW pairs, Checked(active, pairs), NEW open, NEW k \in ContextKeys,
           {p \in open : p \subseteq DOMAIN active} = ActiveClashes(active),
           NEW entries, entries = _build_entries(active, pairs)
    PROVE  ImageOf(active, open, entries, k)
<1>1. k \in DOMAIN entries <=> Mine(active, k) # {}
  BY EntryKeys
<1>2. Mine(active, k) # {} <=> Stated(active, k) # {}
  BY DEF Stated
<1>3. ASSUME k \in DOMAIN entries
      PROVE  /\ entries[k].state = IF Cardinality(Stated(active, k)) = 1 THEN "RESOLVED"
                                   ELSE "CONFLICTED"
             /\ DOMAIN entries[k].values = Stated(active, k)
             /\ \A v \in Stated(active, k) :
                   {ref.memory_id : ref \in entries[k].values[v]} = Stating(active, k, v)
  BY <1>3, EntryOf
<1>4. ASSUME k \in DOMAIN entries
      PROVE  entries[k].conflicts = ClashesOf(active, k)
  <2>1. entries[k].conflicts = {IdsOf(p) : p \in {q \in Considered(pairs) :
                                                    \A m \in q : m[2].key = k}}
    BY <1>4, EntryOf
  <2> QED
    BY <2>1, ConflictsChecked
<1>5. ClashesOf(active, k) = {p \in open : p \subseteq Mine(active, k)}
  <2>1. \A p : p \in ActiveClashes(active) <=> p \in open /\ p \subseteq DOMAIN active
    OBVIOUS
  <2>2. \A p : p \in ClashesOf(active, k)
                  <=> p \in ActiveClashes(active) /\ p \subseteq Mine(active, k)
    BY DEF ClashesOf, ActiveClashes, Mine
  <2>3. Mine(active, k) \subseteq DOMAIN active
    BY DEF Mine
  <2> QED
    BY <2>1, <2>2, <2>3
<1>6. CASE Mine(active, k) = {}
  BY <1>1, <1>2, <1>6, FS_EmptySet DEF get_context, ImageOf
<1>7. CASE Mine(active, k) # {}
  BY <1>1, <1>2, <1>3, <1>4, <1>5, <1>7 DEF get_context, ImageOf
<1> QED
  BY <1>6, <1>7

--------------------------------------------------------------------------------
(* The Memory OS at rest. *)

OwnerRows == [i \in {j \in Stored : Active(j) /\ memories[j].key \in OwnerKeys}
                 |-> memories[i]]
OwnerPairs == {p \in Unresolved : \E i \in p : memories[i].key \in OwnerKeys}
WithRows(P) == {{<<i, memories[i]>> : i \in p} : p \in P}

\* An open conflict is a contradiction of two active memories, and conversely.
LEMMA OpenConflicts ==
    ASSUME TableInv
    PROVE  \A p : p \in Unresolved <=>
              \E i, j \in Stored : /\ p = {i, j} /\ Active(i) /\ Active(j)
                                   /\ memories[i].key = memories[j].key
                                   /\ memories[i].value # memories[j].value
<1>1. Stored \subseteq MemoryId
  BY DEF TableInv, TypeInv, TypeOK
<1>2. \A i, j \in Stored : memories[i].value # memories[j].value => {i, j} \in Pair
  BY <1>1 DEF Pair
<1> QED
  BY <1>2 DEF TableInv, ConflictsExact

\* Both reads of one state pass every check of the projector.
LEMMA RestPasses ==
    ASSUME TableInv
    PROVE  Checked(OwnerRows, WithRows(OwnerPairs))
<1> DEFINE A == OwnerRows
           P == WithRows(OwnerPairs)
<1>1. /\ DOMAIN A = {j \in Stored : Active(j) /\ memories[j].key \in OwnerKeys}
      /\ \A i \in DOMAIN A : A[i] = memories[i]
  BY DEF OwnerRows
<1>2. _validated_memories(A)
  BY <1>1 DEF _validated_memories, Active
<1>3. ASSUME NEW p \in OwnerPairs
      PROVE  \E i, j \in DOMAIN A : /\ p = {i, j} /\ memories[i].key = memories[j].key
                                    /\ memories[i].value # memories[j].value
  <2>1. p \in Unresolved /\ \E i \in p : memories[i].key \in OwnerKeys
    BY <1>3 DEF OwnerPairs
  <2>2. PICK i, j \in Stored : /\ p = {i, j} /\ Active(i) /\ Active(j)
                               /\ memories[i].key = memories[j].key
                               /\ memories[i].value # memories[j].value
    BY <2>1, OpenConflicts
  <2> QED
    BY <1>1, <2>1, <2>2
<1>4. ASSUME NEW i \in DOMAIN A, NEW j \in DOMAIN A, memories[i].key = memories[j].key,
             memories[i].value # memories[j].value
      PROVE  {i, j} \in OwnerPairs
  <2>1. i \in Stored /\ j \in Stored /\ Active(i) /\ Active(j) /\ memories[i].key \in OwnerKeys
    BY <1>1
  <2>2. {i, j} \in Unresolved
    BY <1>4, <2>1, OpenConflicts
  <2> QED
    BY <2>1, <2>2 DEF OwnerPairs
<1>5. ASSUME NEW q \in P
      PROVE  \E i, j \in DOMAIN A : /\ q = {<<i, A[i]>>, <<j, A[j]>>}
                                    /\ A[i].key = A[j].key /\ A[i].value # A[j].value
  <2>1. PICK p \in OwnerPairs : q = {<<i, memories[i]>> : i \in p}
    BY DEF WithRows
  <2>2. PICK i, j \in DOMAIN A : /\ p = {i, j} /\ memories[i].key = memories[j].key
                                 /\ memories[i].value # memories[j].value
    BY <1>3
  <2>3. q = {<<i, memories[i]>>, <<j, memories[j]>>}
    BY <2>1, <2>2
  <2> QED
    BY <1>1, <2>2, <2>3
<1>6. ASSUME NEW i \in DOMAIN A, NEW j \in DOMAIN A, A[i].key = A[j].key,
             A[i].value # A[j].value
      PROVE  {<<i, A[i]>>, <<j, A[j]>>} \in P
  <2>1. {i, j} \in OwnerPairs
    BY <1>1, <1>4, <1>6
  <2>2. {<<l, memories[l]>> : l \in {i, j}} = {<<i, A[i]>>, <<j, A[j]>>}
    BY <1>1, <1>6
  <2> QED
    BY <2>1, <2>2 DEF WithRows
<1>7. \A i \in DOMAIN A : A[i].key \in OwnerKeys /\ A[i].status = "active"
  BY <1>1 DEF Active
<1> HIDE DEF A, P
<1>8. _validated_conflicts(A, P)
  <2>1. \A m \in UNION P : m[2].key \in OwnerKeys
    BY <1>5, <1>7
  <2>2. ASSUME NEW q \in Considered(P)
        PROVE  /\ \A m \in q : /\ m[2].key \in ContextKeys /\ m[2].status = "active"
                               /\ m[1] \in Relevant(A) /\ A[m[1]] = m[2]
               /\ \A m, n \in q : m # n => m[2].key = n[2].key /\ m[2].value # n[2].value
    <3>1. q \in P /\ \E m \in q : m[2].key \in ContextKeys
      BY <2>2 DEF Considered
    <3>2. PICK i, j \in DOMAIN A : /\ q = {<<i, A[i]>>, <<j, A[j]>>}
                                   /\ A[i].key = A[j].key /\ A[i].value # A[j].value
      BY <1>5, <3>1
    <3>3. A[i].key \in ContextKeys /\ i \in Relevant(A) /\ j \in Relevant(A)
      BY <3>1, <3>2 DEF Relevant
    <3> QED
      BY <1>7, <3>2, <3>3
  <2> QED
    BY <2>1, <2>2 DEF _validated_conflicts
<1>9. _require_complete_conflicts(A, P)
  <2> DEFINE R == Relevant(A)
             C == {ij \in R \X R : /\ A[ij[1]].key = A[ij[2]].key
                                   /\ A[ij[1]].value # A[ij[2]].value}
  <2>1. ASSUME NEW q \in Considered(P)
        PROVE  \E ij \in C : IdsOf(q) = {ij[1], ij[2]}
    <3>1. q \in P /\ \E m \in q : m[2].key \in ContextKeys
      BY <2>1 DEF Considered
    <3>2. PICK i, j \in DOMAIN A : /\ q = {<<i, A[i]>>, <<j, A[j]>>}
                                   /\ A[i].key = A[j].key /\ A[i].value # A[j].value
      BY <1>5, <3>1
    <3>3. i \in R /\ j \in R
      BY <3>1, <3>2 DEF Relevant
    <3>4. <<i, j>> \in C /\ IdsOf(q) = {i, j}
      BY <3>2, <3>3 DEF IdsOf
    <3> QED
      BY <3>4
  <2>2. ASSUME NEW ij \in C
        PROVE  \E q \in Considered(P) : IdsOf(q) = {ij[1], ij[2]}
    <3>1. /\ ij[1] \in DOMAIN A /\ ij[2] \in DOMAIN A /\ A[ij[1]].key \in ContextKeys
          /\ A[ij[1]].key = A[ij[2]].key /\ A[ij[1]].value # A[ij[2]].value
      BY <2>2 DEF Relevant
    <3> DEFINE q == {<<ij[1], A[ij[1]]>>, <<ij[2], A[ij[2]]>>}
    <3>2. q \in P
      BY <1>6, <3>1
    <3>3. q \in Considered(P)
      BY <3>1, <3>2 DEF Considered
    <3>4. IdsOf(q) = {ij[1], ij[2]}
      BY DEF IdsOf
    <3> QED
      BY <3>3, <3>4
  <2>3. {IdsOf(q) : q \in Considered(P)} = {{ij[1], ij[2]} : ij \in C}
    <3> HIDE DEF C
    <3>1. {IdsOf(q) : q \in Considered(P)} \subseteq {{ij[1], ij[2]} : ij \in C}
      BY <2>1
    <3>2. {{ij[1], ij[2]} : ij \in C} \subseteq {IdsOf(q) : q \in Considered(P)}
      BY <2>2
    <3> QED
      BY <3>1, <3>2
  <2> QED
    BY <2>3 DEF _require_complete_conflicts
<1> QED
  BY <1>2, <1>8, <1>9 DEF Checked, A, P

\* Only a commit changes memories, and one that leaves them leaves the conflicts.
LEMMA RestKeepsConflicts ==
    ASSUME TypeInv, [Next]_vars, memories' = memories
    PROVE  conflicts' = conflicts
<1>1. CASE Quiet
  BY <1>1 DEF Quiet
<1>2. ASSUME NEW c \in Client, Commits(c)
      PROVE  FALSE
  <2> call[c] \in Call /\ Changed(call[c])
    BY <1>2, CommitChanges
  <2>1. CASE call[c].op = "add"
    BY <1>2, <2>1 DEF Changed, AddEffect, Stored
  <2>2. CASE call[c].op = "correct"
    BY <1>2, <2>2 DEF Changed, CorrectRows, Stored
  <2>3. CASE call[c].op = "retract"
    BY <1>2, <2>3, TargetEnded
  <2> QED
    BY <1>2, <2>1, <2>2, <2>3 DEF Changed
<1> QED
  BY <1>1, <1>2, StepShape

LEMMA StoreStaysFinite ==
    ASSUME TypeInv, [Next]_vars, IsFiniteSet(Stored)
    PROVE  IsFiniteSet(Stored)'
<1>1. CASE Quiet
  BY <1>1 DEF Quiet, Stored
<1>2. ASSUME NEW c \in Client, Commits(c)
      PROVE  IsFiniteSet(DOMAIN memories')
  <2>1. DOMAIN memories' \subseteq Stored \cup {call[c].id}
    BY <1>2, CommitChanges, RowsAfter
  <2> QED
    BY <2>1, FS_AddElement, FS_Subset
<1> QED
  BY <1>1, <1>2, StepShape DEF Stored

--------------------------------------------------------------------------------
(* The inductive invariant. *)

\* What a build has read, is certain of, and has returned.
Fields == ctx = [pc |-> ctx.pc, active |-> ctx.active, pairs |-> ctx.pairs,
                 result |-> ctx.result, entries |-> ctx.entries,
                 open |-> ctx.open, quiet |-> ctx.quiet]

\* The first read is of active rows of the owner, and the conflicts that were open
\* at that moment are the contradictions among them.
FirstRead ==
    /\ IsFiniteSet(DOMAIN ctx.active)
    /\ \A i \in DOMAIN ctx.active :
          /\ ctx.active[i] \in Row /\ ctx.active[i].status = "active"
          /\ ctx.active[i].key \in OwnerKeys
    /\ {p \in ctx.open : p \subseteq DOMAIN ctx.active} = ActiveClashes(ctx.active)

\* While nobody writes, the reads are of the present state.
Undisturbed ==
    ctx.quiet => /\ ctx.pc \in {"conflicts", "rows"} => ctx.active = OwnerRows
                 /\ ctx.pc = "rows" => ctx.pairs = OwnerPairs

Outcome ==
    /\ ctx.pc # "done" => ctx.result = "none" /\ ctx.entries = Nothing
    /\ DOMAIN ctx.entries \subseteq ContextKeys
    /\ ctx.result = "snapshot" =>
          \A k \in ContextKeys : ImageOf(ctx.active, ctx.open, ctx.entries, k)
    /\ ProjectedConstructs /\ RefusedOnlyWhenDisturbed

CInv ==
    /\ TableInv /\ IsFiniteSet(Stored)
    /\ Fields /\ ctx.pc \in {"idle", "conflicts", "rows", "done"}
    /\ ctx.quiet \in BOOLEAN /\ ctx.pairs \subseteq Pair
    /\ FirstRead /\ Undisturbed /\ Outcome

LEMMA IdleInv ==
    ASSUME TableInv', IsFiniteSet(Stored)', ctx' = Idle
    PROVE  CInv'
<1>1. /\ ctx'.pc = "idle" /\ ctx'.active = Nothing /\ ctx'.pairs = {}
      /\ ctx'.result = "none" /\ ctx'.entries = Nothing /\ ctx'.open = {}
      /\ ctx'.quiet = TRUE
  BY DEF Idle
<1>2. DOMAIN Nothing = {}
  BY DEF Nothing
<1>3. Fields'
  BY <1>1 DEF Fields, Idle
<1>4. FirstRead'
  <2>1. IsFiniteSet({})
    BY FS_EmptySet
  <2>2. ActiveClashes(Nothing) = {}
    BY <1>2 DEF ActiveClashes
  <2> QED
    BY <1>1, <1>2, <2>1, <2>2 DEF FirstRead
<1>5. Undisturbed' /\ Outcome'
  BY <1>1, <1>2 DEF Undisturbed, Outcome, ProjectedConstructs, RefusedOnlyWhenDisturbed
<1> QED
  BY <1>1, <1>3, <1>4, <1>5 DEF CInv

\* A step of the Memory OS: the reads stay, and whoever commits disturbs.
LEMMA MemoryKeeps == ASSUME CInv, MemoryStep PROVE CInv'
<1>1. TypeInv /\ [Next]_vars
  BY DEF CInv, TableInv, MemoryStep
<1>2. TableInv' /\ IsFiniteSet(Stored)'
  BY <1>1, StepTables, StoreStaysFinite DEF CInv
<1>3. /\ ctx'.pc = ctx.pc /\ ctx'.active = ctx.active /\ ctx'.pairs = ctx.pairs
      /\ ctx'.result = ctx.result /\ ctx'.entries = ctx.entries /\ ctx'.open = ctx.open
      /\ ctx'.quiet = (ctx.quiet /\ (ctx.pc = "idle" \/ memories' = memories))
      /\ Fields'
  BY DEF CInv, Fields, MemoryStep
<1>4. FirstRead'
  BY <1>3 DEF CInv, FirstRead
<1>5. Undisturbed'
  <2> SUFFICES ASSUME ctx'.quiet, ctx'.pc \in {"conflicts", "rows"}
               PROVE  /\ ctx'.active = OwnerRows'
                      /\ ctx'.pc = "rows" => ctx'.pairs = OwnerPairs'
    BY DEF Undisturbed
  <2>1. ctx.quiet /\ memories' = memories
    BY <1>3
  <2>2. conflicts' = conflicts
    BY <1>1, <2>1, RestKeepsConflicts
  <2>3. OwnerRows' = OwnerRows /\ OwnerPairs' = OwnerPairs
    BY <2>1, <2>2 DEF OwnerRows, OwnerPairs, Stored, Active, Unresolved
  <2> QED
    BY <1>3, <2>1, <2>3 DEF CInv, Undisturbed
<1>6. Outcome'
  BY <1>3 DEF CInv, Outcome, ProjectedConstructs, RefusedOnlyWhenDisturbed
<1> QED
  BY <1>2, <1>3, <1>4, <1>5, <1>6 DEF CInv

LEMMA TablesStay ==
    ASSUME TableInv, IsFiniteSet(Stored), StoreUnchanged
    PROVE  TableInv' /\ IsFiniteSet(Stored)'
<1>1. [Next]_vars
  BY DEF StoreUnchanged, vars
<1> QED
  BY <1>1, StepTables, StoreStaysFinite DEF TableInv

LEMMA FirstReadStep == ASSUME CInv, query_memories PROVE CInv'
<1> DEFINE rows == [i \in {j \in Stored : Active(j) /\ memories[j].key \in OwnerKeys}
                       |-> memories[i]]
<1>1. TableInv' /\ IsFiniteSet(Stored)'
  BY TablesStay DEF CInv, query_memories
<1>2. rows = OwnerRows /\ OwnerRows' = OwnerRows
  BY DEF OwnerRows, query_memories, StoreUnchanged, Stored, Active
<1> HIDE DEF rows
<1>3. /\ ctx'.pc = "conflicts" /\ ctx'.active = rows /\ ctx'.pairs = {}
      /\ ctx'.result = "none" /\ ctx'.entries = Nothing /\ ctx'.open = Unresolved
      /\ ctx'.quiet = TRUE /\ Fields'
  BY DEF query_memories, Idle, Fields, rows
<1>4. FirstRead'
  <2>1. /\ DOMAIN OwnerRows = {j \in Stored : Active(j) /\ memories[j].key \in OwnerKeys}
        /\ \A i \in DOMAIN OwnerRows : OwnerRows[i] = memories[i]
    BY DEF OwnerRows
  <2>2. IsFiniteSet(DOMAIN OwnerRows)
    BY <2>1, FS_Subset DEF CInv
  <2>3. \A i \in DOMAIN OwnerRows :
           /\ OwnerRows[i] \in Row /\ OwnerRows[i].status = "active"
           /\ OwnerRows[i].key \in OwnerKeys
    BY <2>1 DEF CInv, TableInv, TypeInv, TypeOK, Active
  <2>4. \A p : p \in Unresolved /\ p \subseteq DOMAIN OwnerRows
                 <=> p \in ActiveClashes(OwnerRows)
    BY <2>1, OpenConflicts DEF CInv, ActiveClashes
  <2> QED
    BY <1>2, <1>3, <2>2, <2>3, <2>4 DEF FirstRead
<1>5. Undisturbed'
  BY <1>2, <1>3 DEF Undisturbed
<1>6. Outcome'
  BY <1>3 DEF Outcome, Nothing, ProjectedConstructs, RefusedOnlyWhenDisturbed
<1> QED
  BY <1>1, <1>3, <1>4, <1>5, <1>6 DEF CInv

LEMMA SecondReadStep == ASSUME CInv, list_conflicts PROVE CInv'
<1>1. TableInv' /\ IsFiniteSet(Stored)'
  BY TablesStay DEF CInv, list_conflicts
<1>2. OwnerRows' = OwnerRows /\ OwnerPairs' = OwnerPairs
  BY DEF OwnerRows, OwnerPairs, list_conflicts, StoreUnchanged, Stored, Active, Unresolved
<1>3. /\ ctx.pc = "conflicts" /\ ctx'.pc = "rows" /\ ctx'.active = ctx.active
      /\ ctx'.pairs = OwnerPairs /\ ctx'.result = ctx.result /\ ctx'.entries = ctx.entries
      /\ ctx'.open = ctx.open /\ ctx'.quiet = ctx.quiet /\ Fields'
  BY DEF list_conflicts, CInv, Fields, OwnerPairs
<1>4. OwnerPairs \subseteq Pair
  BY DEF CInv, TableInv, TypeInv, TypeOK, OwnerPairs, Unresolved
<1>5. FirstRead'
  BY <1>3 DEF CInv, FirstRead
<1>6. Undisturbed'
  BY <1>2, <1>3 DEF CInv, Undisturbed
<1>7. Outcome'
  BY <1>3 DEF CInv, Outcome, ProjectedConstructs, RefusedOnlyWhenDisturbed
<1> QED
  BY <1>1, <1>3, <1>4, <1>5, <1>6, <1>7 DEF CInv

LEMMA ProjectStep == ASSUME CInv, build_snapshot PROVE CInv'
<1> DEFINE active == ctx.active
           pairs == WithRows(ctx.pairs)
           done == project(active, pairs)
<1>1. TableInv' /\ IsFiniteSet(Stored)'
  BY TablesStay DEF CInv, build_snapshot
<1>2. /\ ctx.pc = "rows" /\ ctx'.pc = "done" /\ ctx'.active = active
      /\ ctx'.pairs = ctx.pairs /\ ctx'.result = done.result
      /\ ctx'.entries = done.entries /\ ctx'.open = ctx.open
      /\ ctx'.quiet = ctx.quiet /\ Fields'
  <2>1. ctx' = [ctx EXCEPT !.pc = "done", !.result = done.result, !.entries = done.entries]
    BY DEF build_snapshot, WithRows
  <2> HIDE DEF done, active, pairs
  <2>2. /\ ctx'.pc = "done" /\ ctx'.active = ctx.active
        /\ ctx'.pairs = ctx.pairs /\ ctx'.result = done.result
        /\ ctx'.entries = done.entries /\ ctx'.open = ctx.open
        /\ ctx'.quiet = ctx.quiet /\ Fields'
    BY <2>1 DEF CInv, Fields
  <2> QED
    BY <2>2 DEF build_snapshot, active
<1>3. IsFiniteSet(DOMAIN active)
  BY DEF CInv, FirstRead
<1>4. done = IF Checked(active, pairs)
             THEN [result |-> "snapshot", entries |-> _build_entries(active, pairs)]
             ELSE [result |-> "InconsistentSourceState", entries |-> Nothing]
  BY <1>3, Projected
<1>5. FirstRead'
  BY <1>2 DEF CInv, FirstRead
<1>6. Undisturbed'
  BY <1>2 DEF Undisturbed
<1>7. ctx.quiet => Checked(active, pairs)
  BY <1>2, RestPasses DEF CInv, Undisturbed
<1> HIDE DEF done, active, pairs
<1>8. ASSUME Checked(active, pairs) PROVE Outcome'
  <2>1. ctx'.result = "snapshot" /\ ctx'.entries = _build_entries(active, pairs)
    BY <1>2, <1>4, <1>8
  <2>2. DOMAIN ctx'.entries \subseteq ContextKeys
    BY <2>1, EntryKeys
  <2>3. {p \in ctx'.open : p \subseteq DOMAIN active} = ActiveClashes(active)
    BY <1>2 DEF CInv, FirstRead, active
  <2>4. \A k \in ContextKeys : ImageOf(active, ctx'.open, ctx'.entries, k)
    BY <1>8, <2>1, <2>3, SnapshotIsImage
  <2> QED
    BY <1>2, <2>1, <2>2, <2>4 DEF Outcome, ProjectedConstructs, RefusedOnlyWhenDisturbed
<1>9. ASSUME ~ Checked(active, pairs) PROVE Outcome'
  <2>1. ctx'.result = "InconsistentSourceState" /\ ctx'.entries = Nothing
    BY <1>2, <1>4, <1>9
  <2>2. ~ ctx'.quiet
    BY <1>2, <1>7, <1>9
  <2> QED
    BY <1>2, <2>1, <2>2 DEF Outcome, Nothing, ProjectedConstructs, RefusedOnlyWhenDisturbed
<1>10. Outcome'
  BY <1>8, <1>9
<1> QED
  BY <1>1, <1>2, <1>5, <1>6, <1>10 DEF CInv

LEMMA ReturnStep == ASSUME CInv, Return PROVE CInv'
  BY TablesStay, IdleInv DEF CInv, Return

LEMMA CInvInit == CInit => CInv
<1> SUFFICES ASSUME CInit PROVE CInv
  OBVIOUS
<1>1. TableInv
  BY InitTables DEF CInit
<1>2. IsFiniteSet(Stored)
  BY FS_EmptySet DEF CInit, Init, Stored
<1>3. /\ ctx.pc = "idle" /\ ctx.active = Nothing /\ ctx.pairs = {}
      /\ ctx.result = "none" /\ ctx.entries = Nothing /\ ctx.open = {}
      /\ ctx.quiet = TRUE /\ Fields
  BY DEF CInit, Idle, Fields
<1>4. DOMAIN Nothing = {} /\ IsFiniteSet({}) /\ ActiveClashes(Nothing) = {}
  BY FS_EmptySet DEF Nothing, ActiveClashes
<1>5. FirstRead /\ Undisturbed /\ Outcome
  BY <1>3, <1>4 DEF FirstRead, Undisturbed, Outcome, ProjectedConstructs, RefusedOnlyWhenDisturbed
<1> QED
  BY <1>1, <1>2, <1>3, <1>5 DEF CInv

LEMMA CInvStep == CInv /\ [CNext]_ctxVars => CInv'
<1> SUFFICES ASSUME CInv, [CNext]_ctxVars PROVE CInv'
  OBVIOUS
<1>1. CASE UNCHANGED ctxVars
  <2>1. StoreUnchanged /\ ctx' = ctx
    BY <1>1 DEF ctxVars, StoreUnchanged
  <2>2. TableInv' /\ IsFiniteSet(Stored)'
    BY <2>1, TablesStay DEF CInv
  <2>3. OwnerRows' = OwnerRows /\ OwnerPairs' = OwnerPairs
    BY <2>1 DEF OwnerRows, OwnerPairs, StoreUnchanged, Stored, Active, Unresolved
  <2> QED
    BY <2>1, <2>2, <2>3 DEF CInv, Fields, FirstRead, Undisturbed, Outcome,
       SnapshotOfOneState, ProjectedConstructs, RefusedOnlyWhenDisturbed
<1>2. CASE query_memories
  BY <1>2, FirstReadStep
<1>3. CASE list_conflicts
  BY <1>3, SecondReadStep
<1>4. CASE build_snapshot
  BY <1>4, ProjectStep
<1>5. CASE Return
  BY <1>5, ReturnStep
<1>6. CASE MemoryStep
  BY <1>6, MemoryKeeps
<1> QED
  BY <1>1, <1>2, <1>3, <1>4, <1>5, <1>6 DEF CNext

\* Whatever clients commit between the reads of build_snapshot, a snapshot that is
\* returned is the image of one state, that of the first read.
THEOREM SnapshotsAreOfOneState == CSpec => []SnapshotOfOneState
<1>1. CInv => SnapshotOfOneState
  <2> SUFFICES ASSUME CInv, ctx.result = "snapshot", NEW k \in ContextKeys
               PROVE  ImageOf(ctx.active, ctx.open, ctx.entries, k)
    BY DEF SnapshotOfOneState, ImageOf, Mine, Stated, Stating
  <2> QED
    BY DEF CInv, Outcome
<1> QED
  BY CInvInit, CInvStep, <1>1, PTL DEF CSpec

\* The checks of the projector and the constructors of the entries agree on
\* everything the Memory OS can hold, and a build is refused only when somebody
\* committed between its reads.
THEOREM BuildsAreRefusedByWriters == CSpec => []OnlyWritersRefuse
<1>1. CInv => OnlyWritersRefuse
  BY DEF CInv, Outcome, FirstRead, OnlyWritersRefuse, CTypeOK, TableInv, TypeInv
<1> QED
  BY CInvInit, CInvStep, <1>1, PTL DEF CSpec

--------------------------------------------------------------------------------
(* Revision histories. *)

\* s leads from a memory that supersedes nothing to i, each superseding the one
\* before it.
IsChain(s, i) ==
    /\ s \in Seq(Stored) /\ s # <<>>
    /\ memories[s[1]].supersedes = Nil
    /\ \A n \in 2..Len(s) : memories[s[n]].supersedes = s[n-1]
    /\ s[Len(s)] = i

\* The part of the tables' invariant that histories rest on.
Linear == Stored \subseteq MemoryId /\ RevisionChains /\ RevisionsAcyclic

LEMMA LinearTables == TableInv => Linear
BY DEF TableInv, TypeInv, TypeOK, Linear

LEMMA ChainOfRoot ==
    ASSUME Linear, NEW i \in Stored, memories[i].supersedes = Nil
    PROVE  /\ IsChain(<<i>>, i)
           /\ \A s : IsChain(s, i) => s = <<i>>
<1>1. IsChain(<<i>>, i)
  BY DEF IsChain
<1>2. ASSUME NEW s, IsChain(s, i) PROVE s = <<i>>
  <2>1. s \in Seq(Stored) /\ s # <<>> /\ Len(s) \in Nat \ {0}
    BY <1>2 DEF IsChain
  <2>2. CASE Len(s) = 1
    BY <1>2, <2>1, <2>2, SeqEqual DEF IsChain
  <2>3. CASE Len(s) # 1
    <3> DEFINE m == Len(s)
    <3>0. m \in Nat \ {0} /\ m # 1
      BY <2>1, <2>3
    <3> HIDE DEF m
    <3>1. m \in 2..m /\ m - 1 \in 1..m
      BY <3>0
    <3>2. s[m-1] = Nil /\ s[m-1] \in Stored
      BY <1>2, <2>1, <3>1 DEF IsChain, m
    <3> QED
      BY <3>2, NilAssumption DEF Linear
  <2> QED
    BY <2>2, <2>3
<1> QED
  BY <1>1, <1>2

\* A chain of i is a chain of the memory i supersedes, and i.
LEMMA ChainGrows ==
    ASSUME Linear, NEW i \in Stored, NEW p \in Stored, memories[i].supersedes = p,
           NEW s, IsChain(s, p)
    PROVE  IsChain(Append(s, i), i)
<1>1. s \in Seq(Stored) /\ s # <<>> /\ Len(s) \in Nat \ {0}
  BY DEF IsChain
<1> DEFINE a == Append(s, i)
<1>2. /\ a \in Seq(Stored) /\ a # <<>> /\ Len(a) = Len(s) + 1 /\ a[Len(s) + 1] = i
      /\ \A n \in 1..Len(s) : a[n] = s[n]
  BY <1>1, AppendProperties
<1> HIDE DEF a
<1>3. memories[a[1]].supersedes = Nil
  BY <1>1, <1>2 DEF IsChain
<1>4. ASSUME NEW n \in 2..Len(a) PROVE memories[a[n]].supersedes = a[n-1]
  <2>1. CASE n \in 2..Len(s)
    BY <1>1, <1>2, <2>1 DEF IsChain
  <2>2. CASE n = Len(s) + 1
    BY <1>1, <1>2, <2>2 DEF IsChain
  <2> QED
    BY <1>1, <1>2, <2>1, <2>2
<1>5. a[Len(a)] = i
  BY <1>2
<1> QED
  BY <1>2, <1>3, <1>4, <1>5 DEF IsChain, a

LEMMA ChainShrinks ==
    ASSUME Linear, NEW i \in Stored, memories[i].supersedes # Nil,
           NEW s, IsChain(s, i)
    PROVE  \E q : IsChain(q, memories[i].supersedes) /\ s = Append(q, i)
<1>1. s \in Seq(Stored) /\ s # <<>> /\ Len(s) \in Nat \ {0}
  BY DEF IsChain
<1>2. Len(s) > 1
  BY <1>1 DEF IsChain
<1> DEFINE n == Len(s) - 1
           q == [k \in 1..n |-> s[k]]
<1>3. n \in Nat \ {0} /\ n + 1 = Len(s)
  <2> DEFINE m == Len(s)
  <2>1. m \in Nat \ {0} /\ m > 1
    BY <1>1, <1>2
  <2> HIDE DEF m
  <2>2. m - 1 \in Nat \ {0} /\ (m - 1) + 1 = m
    BY <2>1
  <2> QED
    BY <2>2 DEF m
<1>4. \A k \in 1..Len(s) : s[k] \in Stored
  BY <1>1
<1>5. q \in Seq(Stored) /\ Len(q) = n /\ q # <<>> /\ \A k \in 1..n : q[k] = s[k]
  <2>1. q \in [1..n -> Stored]
    BY <1>3, <1>4
  <2>2. n \in Nat
    BY <1>3
  <2> HIDE DEF n, q
  <2>3. q \in Seq(Stored) /\ Len(q) = n
    BY <2>1, <2>2
  <2> QED
    BY <1>3, <2>3 DEF q
<1> HIDE DEF q, n
<1>6. IsChain(q, memories[i].supersedes)
  <2>1. memories[i].supersedes = s[n]
    BY <1>1, <1>2, <1>3 DEF IsChain
  <2>2. memories[q[1]].supersedes = Nil /\ q[Len(q)] = memories[i].supersedes
    BY <1>3, <1>5, <2>1 DEF IsChain
  <2>3. \A k \in 2..Len(q) : memories[q[k]].supersedes = q[k-1]
    BY <1>1, <1>3, <1>5 DEF IsChain
  <2> QED
    BY <1>5, <2>2, <2>3 DEF IsChain
<1>7. s = Append(q, i)
  <2>1. /\ Append(q, i) \in Seq(Stored) /\ Len(Append(q, i)) = n + 1
        /\ Append(q, i)[n + 1] = i /\ \A k \in 1..n : Append(q, i)[k] = q[k]
    BY <1>5, AppendProperties
  <2>2. \A k \in 1..Len(s) : s[k] = Append(q, i)[k]
    BY <1>1, <1>3, <1>5, <2>1 DEF IsChain
  <2> QED
    BY <1>1, <1>3, <2>1, <2>2, SeqEqual
<1> QED
  BY <1>6, <1>7

\* Every memory has one chain, because no set of memories supersedes only itself.
LEMMA ChainExists ==
    ASSUME Linear, NEW i \in Stored
    PROVE  \E s : IsChain(s, i)
<1> DEFINE S == {j \in Stored : ~ \E s : IsChain(s, j)}
<1>1. ASSUME S # {} PROVE FALSE
  <2>1. PICK j \in S : memories[j].supersedes \notin S
    BY <1>1 DEF Linear, RevisionsAcyclic
  <2>2. CASE memories[j].supersedes = Nil
    BY <2>1, <2>2, ChainOfRoot
  <2>3. CASE memories[j].supersedes # Nil
    <3>1. memories[j].supersedes \in Stored
      BY <2>1, <2>3 DEF Linear, RevisionChains
    <3>2. PICK s : IsChain(s, memories[j].supersedes)
      BY <2>1, <3>1
    <3> QED
      BY <2>1, <3>1, <3>2, ChainGrows
  <2> QED
    BY <2>2, <2>3
<1> QED
  BY <1>1

LEMMA ChainUnique ==
    ASSUME Linear, NEW i \in Stored, NEW s, NEW q, IsChain(s, i), IsChain(q, i)
    PROVE  s = q
<1> DEFINE S == {j \in Stored : \E a, b : IsChain(a, j) /\ IsChain(b, j) /\ a # b}
<1>1. ASSUME S # {} PROVE FALSE
  <2>1. PICK j \in S : memories[j].supersedes \notin S
    BY <1>1 DEF Linear, RevisionsAcyclic
  <2>2. PICK a, b : IsChain(a, j) /\ IsChain(b, j) /\ a # b
    BY <2>1
  <2>3. CASE memories[j].supersedes = Nil
    BY <2>1, <2>2, <2>3, ChainOfRoot
  <2>4. CASE memories[j].supersedes # Nil
    <3>1. memories[j].supersedes \in Stored
      BY <2>1, <2>4 DEF Linear, RevisionChains
    <3>2. PICK c : IsChain(c, memories[j].supersedes) /\ a = Append(c, j)
      BY <2>1, <2>2, <2>4, ChainShrinks
    <3>3. PICK d : IsChain(d, memories[j].supersedes) /\ b = Append(d, j)
      BY <2>1, <2>2, <2>4, ChainShrinks
    <3>4. c = d
      BY <2>1, <3>1, <3>2, <3>3
    <3> QED
      BY <2>2, <3>2, <3>3, <3>4
  <2> QED
    BY <2>3, <2>4
<1> QED
  BY <1>1

--------------------------------------------------------------------------------
(* The recursive definitions of the history compute its chains. *)

UpToEq(f) == f = [i \in Stored |-> IF memories[i].supersedes = Nil THEN <<i>>
                                   ELSE Append(f[memories[i].supersedes], i)]
UpTo == CHOOSE f : UpToEq(f)

RootEq(f) == f = [i \in Stored |-> IF memories[i].supersedes = Nil THEN i
                                   ELSE f[memories[i].supersedes]]
Root == CHOOSE f : RootEq(f)

LEMMA UpToDefined ==
    ASSUME Linear
    PROVE  UpToEq(UpTo)
<1> DEFINE g == [i \in Stored |-> CHOOSE s : IsChain(s, i)]
           e(i) == IF memories[i].supersedes = Nil THEN <<i>>
                   ELSE Append(g[memories[i].supersedes], i)
<1>1. \A i \in Stored : IsChain(g[i], i)
  BY ChainExists
<1>2. ASSUME NEW i \in Stored PROVE g[i] = e(i)
  <2>0. IsChain(g[i], i)
    BY <1>1
  <2> HIDE DEF g
  <2>1. CASE memories[i].supersedes = Nil
    BY <2>0, <2>1, ChainOfRoot
  <2>2. CASE memories[i].supersedes # Nil
    <3>1. memories[i].supersedes \in Stored
      BY <2>2 DEF Linear, RevisionChains
    <3>2. IsChain(Append(g[memories[i].supersedes], i), i)
      BY <1>1, <3>1, ChainGrows
    <3>3. g[i] = Append(g[memories[i].supersedes], i)
      BY <2>0, <3>2, ChainUnique
    <3> QED
      BY <2>2, <3>3
  <2> QED
    BY <2>1, <2>2
<1>3. g = [i \in Stored |-> g[i]]
  OBVIOUS
<1>4. g = [i \in Stored |-> e(i)]
  <2> HIDE DEF g, e
  <2> QED
    BY <1>2, <1>3
<1>5. UpToEq(g)
  <2> HIDE DEF g
  <2> QED
    BY <1>4 DEF UpToEq, e
<1> QED
  BY <1>5 DEF UpTo

LEMMA UpToIsChain ==
    ASSUME Linear, NEW i \in Stored
    PROVE  IsChain(UpTo[i], i)
<1> DEFINE S == {j \in Stored : ~IsChain(UpTo[j], j)}
<1>0. ASSUME NEW j \in Stored
      PROVE  UpTo[j] = IF memories[j].supersedes = Nil THEN <<j>>
                       ELSE Append(UpTo[memories[j].supersedes], j)
  <2> DEFINE u == UpTo
  <2>1. UpToEq(u)
    BY UpToDefined
  <2> HIDE DEF u
  <2>2. u[j] = IF memories[j].supersedes = Nil THEN <<j>>
               ELSE Append(u[memories[j].supersedes], j)
    BY <2>1 DEF UpToEq
  <2> QED
    BY <2>2 DEF u
<1>1. ASSUME S # {} PROVE FALSE
  <2>1. PICK j \in S : memories[j].supersedes \notin S
    BY <1>1 DEF Linear, RevisionsAcyclic
  <2>2. CASE memories[j].supersedes = Nil
    BY <1>0, <2>1, <2>2, ChainOfRoot
  <2>3. CASE memories[j].supersedes # Nil
    <3>1. memories[j].supersedes \in Stored
      BY <2>1, <2>3 DEF Linear, RevisionChains
    <3>2. IsChain(UpTo[memories[j].supersedes], memories[j].supersedes)
      BY <2>1, <3>1
    <3>3. IsChain(Append(UpTo[memories[j].supersedes], j), j)
      BY <2>1, <3>1, <3>2, ChainGrows
    <3>4. UpTo[j] = Append(UpTo[memories[j].supersedes], j)
      BY <1>0, <2>1, <2>3
    <3> QED
      BY <2>1, <3>3, <3>4
  <2> QED
    BY <2>2, <2>3
<1> QED
  BY <1>1

\* RootOf is the first memory of the chain.
LEMMA RootOfChain ==
    ASSUME Linear, NEW i \in Stored
    PROVE  RootOf(i) = UpTo[i][1]
<1> DEFINE g == [j \in Stored |-> UpTo[j][1]]
<1>1. ASSUME NEW j \in Stored, memories[j].supersedes = Nil
      PROVE  UpTo[j][1] = j
  <2>1. UpTo[j] = <<j>>
    BY <1>1, UpToIsChain, ChainOfRoot
  <2> QED
    BY <2>1
<1>2. ASSUME NEW j \in Stored, memories[j].supersedes # Nil
      PROVE  /\ memories[j].supersedes \in Stored
             /\ UpTo[j][1] = UpTo[memories[j].supersedes][1]
  <2> DEFINE p == memories[j].supersedes
  <2>1. p \in Stored
    BY <1>2 DEF Linear, RevisionChains
  <2>2. IsChain(UpTo[p], p)
    BY <2>1, UpToIsChain
  <2>3. UpTo[j] = Append(UpTo[p], j)
    <3>1. IsChain(Append(UpTo[p], j), j)
      BY <1>2, <2>1, <2>2, ChainGrows
    <3>2. IsChain(UpTo[j], j)
      BY UpToIsChain
    <3> HIDE DEF p
    <3> QED
      BY <3>1, <3>2, ChainUnique
  <2>4. UpTo[p] \in Seq(Stored) /\ Len(UpTo[p]) \in Nat \ {0}
    BY <2>2 DEF IsChain
  <2>5. 1 \in 1..Len(UpTo[p])
    BY <2>4
  <2> QED
    BY <2>1, <2>3, <2>4, <2>5, AppendProperties
<1>3. ASSUME NEW j \in Stored
      PROVE  g[j] = IF memories[j].supersedes = Nil THEN j ELSE g[memories[j].supersedes]
  BY <1>1, <1>2
<1>4. RootEq(g)
  <2>1. g = [j \in Stored |-> g[j]]
    OBVIOUS
  <2> HIDE DEF g
  <2> QED
    BY <1>3, <2>1 DEF RootEq
<1>5. RootEq(Root)
  BY <1>4 DEF Root
<1>6. ASSUME NEW j \in Stored
      PROVE  Root[j] = IF memories[j].supersedes = Nil THEN j
                       ELSE Root[memories[j].supersedes]
  <2> DEFINE u == Root
  <2>1. RootEq(u)
    BY <1>5
  <2> HIDE DEF u
  <2>2. u[j] = IF memories[j].supersedes = Nil THEN j ELSE u[memories[j].supersedes]
    BY <2>1 DEF RootEq
  <2> QED
    BY <2>2 DEF u
<1> DEFINE S == {j \in Stored : Root[j] # UpTo[j][1]}
<1>7. ASSUME S # {} PROVE FALSE
  <2>1. PICK j \in S : memories[j].supersedes \notin S
    BY <1>7 DEF Linear, RevisionsAcyclic
  <2> QED
    BY <1>1, <1>2, <1>6, <2>1
<1>8. RootOf(i) = Root[i]
  BY DEF RootOf, Root, RootEq
<1> QED
  BY <1>7, <1>8

--------------------------------------------------------------------------------
(* A complete history passes the policy's checks. *)

\* A set of naturals that is not empty has a least member.
LEMMA LeastNumber ==
    ASSUME NEW S, S \subseteq Nat, S # {}
    PROVE  \E x \in S : \A y \in S : x <= y
<1> DEFINE R == {p \in Nat \X Nat : p[1] < p[2]}
<1>1. IsWellFoundedOn(R, Nat)
  BY NatLessThanWellFounded DEF OpToRel
<1>2. PICK x \in S : \A y \in S : ~ (<<y, x>> \in R)
  <2> HIDE DEF R
  <2> QED
    BY <1>1, WFMin
<1>3. ASSUME NEW y \in S PROVE x <= y
  <2>1. x \in Nat /\ y \in Nat /\ <<y, x>> \in Nat \X Nat
    OBVIOUS
  <2>2. ~ (<<y, x>> \in R)
    BY <1>2
  <2>3. ~ (y < x)
    BY <2>1, <2>2
  <2> QED
    BY <2>1, <2>3
<1> QED
  BY <1>3

\* The rows of the memories of w, as the walk of a history reads them.
RowsOf(w) == [n \in 1..Len(w) |-> <<w[n], memories[w[n]]>>]

\* No memory supersedes i.
IsTip(i) == \A j \in Stored : memories[j].supersedes # i

\* All memories of a chain state the same key.
LEMMA ChainKeys ==
    ASSUME Linear, NEW i, NEW w, IsChain(w, i), NEW n \in 1..Len(w)
    PROVE  memories[w[n]].key = memories[w[1]].key
<1>1. w \in Seq(Stored) /\ Len(w) \in Nat \ {0} /\ \A k \in 1..Len(w) : w[k] \in Stored
  BY DEF IsChain
<1> DEFINE S == {k \in 1..Len(w) : memories[w[k]].key # memories[w[1]].key}
<1>2. ASSUME S # {} PROVE FALSE
  <2>1. S \subseteq Nat
    OBVIOUS
  <2>2. PICK k \in S : \A y \in S : k <= y
    <3> HIDE DEF S
    <3> QED
      BY <1>2, <2>1, LeastNumber
  <2>3. k \in 2..Len(w) /\ k - 1 \in 1..Len(w) /\ k - 1 \notin S
    BY <1>1, <2>2
  <2>4. memories[w[k]].supersedes = w[k-1] /\ w[k-1] # Nil
    BY <1>1, <2>3, NilAssumption DEF IsChain, Linear
  <2>5. memories[w[k-1]].key = memories[w[k]].key
    BY <1>1, <2>3, <2>4 DEF Linear, RevisionChains
  <2> QED
    BY <2>2, <2>3, <2>5
<1> QED
  BY <1>2

\* All but the last memory of a chain are superseded; the last is, when some
\* memory supersedes it.
LEMMA ChainStatus ==
    ASSUME Linear, NEW i, NEW w, IsChain(w, i)
    PROVE  /\ \A n \in 1..(Len(w) - 1) : memories[w[n]].status = "superseded"
           /\ IsTip(i) => memories[i].status # "superseded"
<1>1. w \in Seq(Stored) /\ Len(w) \in Nat \ {0} /\ \A k \in 1..Len(w) : w[k] \in Stored
  BY DEF IsChain
<1>2. ASSUME NEW n \in 1..(Len(w) - 1) PROVE memories[w[n]].status = "superseded"
  <2>1. n + 1 \in 2..Len(w) /\ n \in 1..Len(w) /\ (n + 1) - 1 = n /\ n + 1 \in 1..Len(w)
    BY <1>1
  <2>2. memories[w[n+1]].supersedes = w[n] /\ w[n] # Nil
    BY <1>1, <2>1, NilAssumption DEF IsChain, Linear
  <2> QED
    BY <1>1, <2>1, <2>2 DEF Linear, RevisionChains
<1>3. i \in Stored
  BY <1>1 DEF IsChain
<1>4. IsTip(i) => memories[i].status # "superseded"
  BY <1>3 DEF Linear, RevisionChains, IsTip
<1> QED
  BY <1>2, <1>4

LEMMA HistoryAccepted ==
    ASSUME Linear, NEW i, NEW w, IsChain(w, i), IsTip(i), NEW cand, NEW r,
           NEW k \in 1..Len(w), w[k] = cand.target,
           r.history = RowsOf(w), r.target = memories[cand.target]
    PROVE  _validate_correction_context(cand, r)
<1> DEFINE h == r.history
<1>1. w \in Seq(Stored) /\ Len(w) \in Nat \ {0} /\ \A n \in 1..Len(w) : w[n] \in Stored
  BY DEF IsChain
<1>2. /\ DOMAIN h = 1..Len(w)
      /\ \A n \in 1..Len(w) : h[n][1] = w[n] /\ h[n][2] = memories[w[n]]
                              /\ h[n] = <<w[n], memories[w[n]]>>
  BY DEF RowsOf
<1>3. Len(h) = Len(w)
  BY <1>1, <1>2
<1> HIDE DEF h
<1>4. 1 \in 1..Len(w) /\ Len(w) \in 1..Len(w)
  BY <1>1
<1>5. h[1][2].supersedes = Nil
  BY <1>2, <1>4 DEF IsChain
<1>6. ASSUME NEW n \in 2..Len(h) PROVE h[n][2].supersedes = h[n-1][1]
  <2>1. n \in 1..Len(w) /\ n - 1 \in 1..Len(w) /\ n \in 2..Len(w)
    BY <1>1, <1>3
  <2> QED
    BY <1>2, <2>1 DEF IsChain
<1>7. ASSUME NEW n \in DOMAIN h
      PROVE  identity_for_record(h[n][2]) = identity_for_record(r.target)
  BY <1>2, ChainKeys DEF identity_for_record
<1>8. <<cand.target, r.target>> \in ToSet(h)
  BY <1>2 DEF ToSet
<1>9. \A n \in 1..(Len(h) - 1) : h[n][2].status = "superseded"
  <2>1. \A n \in 1..(Len(w) - 1) : n \in 1..Len(w)
    BY <1>1
  <2> QED
    BY <1>2, <1>3, <2>1, ChainStatus
<1>10. Last(h)[2].status # "superseded"
  <2>1. Last(h)[2] = memories[i]
    BY <1>2, <1>3, <1>4 DEF Last, IsChain
  <2> QED
    BY <2>1, ChainStatus
<1> QED
  BY <1>5, <1>6, <1>7, <1>8, <1>9, <1>10 DEF _validate_correction_context, h

\* Two chains with one root agree as far as both go.
LEMMA ChainsAgree ==
    ASSUME Linear, NEW i, NEW w, IsChain(w, i), NEW t, NEW s, IsChain(s, t),
           w[1] = s[1], NEW n \in 1..Len(w), n \in 1..Len(s)
    PROVE  w[n] = s[n]
<1>1. /\ Len(w) \in Nat /\ \A k \in 1..Len(w) : w[k] \in Stored
      /\ Len(s) \in Nat /\ \A k \in 1..Len(s) : s[k] \in Stored
  BY DEF IsChain
<1> DEFINE S == {k \in 1..Len(w) : k \in 1..Len(s) /\ w[k] # s[k]}
<1>2. ASSUME S # {} PROVE FALSE
  <2>1. S \subseteq Nat
    OBVIOUS
  <2>2. PICK k \in S : \A y \in S : k <= y
    <3> HIDE DEF S
    <3> QED
      BY <1>2, <2>1, LeastNumber
  <2>3. /\ k \in 2..Len(w) /\ k - 1 \in 1..Len(w) /\ k - 1 \notin S
        /\ k \in 2..Len(s) /\ k - 1 \in 1..Len(s)
    BY <1>1, <2>2
  <2>4. memories[w[k]].supersedes = w[k-1] /\ memories[s[k]].supersedes = s[k-1]
    BY <2>3 DEF IsChain
  <2>5. w[k-1] = s[k-1] /\ w[k-1] # Nil
    BY <1>1, <2>3, NilAssumption DEF Linear
  <2>6. w[k] \in Stored /\ s[k] \in Stored
    BY <1>1, <2>2
  <2>7. w[k] = s[k]
    BY <2>4, <2>5, <2>6 DEF Linear, RevisionChains
  <2> QED
    BY <2>2, <2>7
<1> QED
  BY <1>2

\* A chain with t's root that ends in a tip goes through t.
LEMMA WalkMeets ==
    ASSUME Linear, NEW i, NEW w, IsChain(w, i), IsTip(i), NEW t, NEW s, IsChain(s, t),
           w[1] = s[1]
    PROVE  \E k \in 1..Len(w) : w[k] = t
<1>1. /\ Len(w) \in Nat \ {0} /\ \A k \in 1..Len(w) : w[k] \in Stored
      /\ Len(s) \in Nat \ {0} /\ \A k \in 1..Len(s) : s[k] \in Stored
  BY DEF IsChain
<1>2. CASE Len(s) <= Len(w)
  <2>1. Len(s) \in 1..Len(w) /\ Len(s) \in 1..Len(s)
    BY <1>1, <1>2
  <2>2. w[Len(s)] = s[Len(s)]
    BY <2>1, ChainsAgree
  <2> QED
    BY <2>1, <2>2 DEF IsChain
<1>3. CASE Len(w) < Len(s)
  <2>1. /\ Len(w) \in 1..Len(w) /\ Len(w) \in 1..Len(s)
        /\ Len(w) + 1 \in 2..Len(s) /\ (Len(w) + 1) - 1 = Len(w)
        /\ Len(w) + 1 \in 1..Len(s)
    BY <1>1, <1>3
  <2>2. w[Len(w)] = s[Len(w)]
    BY <2>1, ChainsAgree
  <2>3. memories[s[Len(w) + 1]].supersedes = s[Len(w)]
    BY <2>1 DEF IsChain
  <2>4. s[Len(w) + 1] \in Stored
    BY <1>1, <2>1
  <2> QED
    BY <2>2, <2>3, <2>4 DEF IsTip, IsChain
<1> QED
  BY <1>1, <1>2, <1>3

--------------------------------------------------------------------------------
(* The history a consistent read returns. *)

TipOf(t) == CHOOSE i \in Stored : t \in ToSet(UpTo[i]) /\ IsTip(i)

\* Following the successors of a stored memory ends: among finitely many memories
\* an endless line of successors would close to a cycle.
LEMMA TipExists ==
    ASSUME Linear, IsFiniteSet(Stored), NEW t \in Stored
    PROVE  \E i \in Stored : t \in ToSet(UpTo[i]) /\ IsTip(i)
<1> DEFINE S == {i \in Stored : t \in ToSet(UpTo[i])}
           next(i) == CHOOSE j \in Stored : memories[j].supersedes = i
           f == [i \in S |-> next(i)]
<1>1. t \in S
  <2>1. IsChain(UpTo[t], t)
    BY UpToIsChain
  <2>2. Len(UpTo[t]) \in DOMAIN UpTo[t] /\ UpTo[t][Len(UpTo[t])] = t
    BY <2>1 DEF IsChain
  <2> QED
    BY <2>2 DEF ToSet
<1>2. ASSUME \A i \in S : ~IsTip(i) PROVE FALSE
  <2>1. ASSUME NEW i \in S PROVE next(i) \in Stored /\ memories[next(i)].supersedes = i
    BY <1>2 DEF IsTip
  <2>2. ASSUME NEW i \in S PROVE next(i) \in S
    <3> DEFINE j == next(i)
    <3>1. j \in Stored /\ memories[j].supersedes = i /\ i \in Stored
      BY <2>1
    <3> HIDE DEF j
    <3>2. IsChain(UpTo[i], i) /\ IsChain(UpTo[j], j)
      BY <3>1, UpToIsChain
    <3>3. IsChain(Append(UpTo[i], j), j)
      BY <3>1, <3>2, ChainGrows
    <3>4. UpTo[j] = Append(UpTo[i], j)
      BY <3>1, <3>2, <3>3, ChainUnique
    <3>5. UpTo[i] \in Seq(Stored) /\ Len(UpTo[i]) \in Nat
      BY <3>2 DEF IsChain
    <3>6. PICK n \in DOMAIN UpTo[i] : UpTo[i][n] = t
      BY DEF ToSet
    <3>7. n \in 1..Len(UpTo[i]) /\ n \in 1..(Len(UpTo[i]) + 1)
      BY <3>5, <3>6
    <3>8. UpTo[j][n] = t /\ Len(UpTo[j]) = Len(UpTo[i]) + 1 /\ UpTo[j] \in Seq(Stored)
      BY <3>1, <3>4, <3>5, <3>6, <3>7, AppendProperties
    <3>9. n \in DOMAIN UpTo[j]
      BY <3>7, <3>8
    <3>10. t \in ToSet(UpTo[j])
      BY <3>8, <3>9 DEF ToSet
    <3> QED
      BY <3>1, <3>10 DEF j
  <2>3. \A i, j \in S : next(i) = next(j) => i = j
    BY <2>1
  <2>4. IsFiniteSet(S)
    BY FS_Subset
  <2> HIDE DEF S, next
  <2>5. f \in Injection(S, S)
    BY <2>2, <2>3 DEF Injection, IsInjective
  <2> HIDE DEF f
  <2>6. f \in Surjection(S, S)
    BY <2>4, <2>5, FS_Injection
  <2>7. ASSUME NEW i \in S PROVE memories[i].supersedes \in S
    <3>1. PICK j \in S : f[j] = i
      BY <2>6 DEF Surjection
    <3>2. next(j) = i
      BY <3>1 DEF f
    <3> QED
      BY <2>1, <3>1, <3>2
  <2>8. S \in SUBSET Stored /\ S # {}
    BY <1>1 DEF S
  <2> QED
    BY <2>7, <2>8 DEF Linear, RevisionsAcyclic
<1> QED
  BY <1>2

LEMMA HistoryNowRows ==
    ASSUME Linear, IsFiniteSet(Stored), NEW t \in Stored
    PROVE  \E i, w : /\ IsChain(w, i) /\ IsTip(i) /\ \E k \in 1..Len(w) : w[k] = t
                     /\ HistoryNow(t) = RowsOf(w)
<1> DEFINE i == TipOf(t)
           w == UpTo[i]
<1>1. i \in Stored /\ t \in ToSet(w) /\ IsTip(i)
  BY TipExists DEF TipOf
<1>2. IsChain(w, i)
  BY <1>1, UpToIsChain
<1>3. DOMAIN w = 1..Len(w)
  BY <1>2 DEF IsChain
<1>4. HistoryNow(t) = [n \in DOMAIN w |-> <<w[n], memories[w[n]]>>]
  BY DEF HistoryNow, UpTo, UpToEq, TipOf, IsTip
<1> HIDE DEF i, w
<1>5. \E k \in 1..Len(w) : w[k] = t
  BY <1>1, <1>3 DEF ToSet
<1>6. HistoryNow(t) = RowsOf(w)
  BY <1>3, <1>4 DEF RowsOf
<1> QED
  BY <1>1, <1>2, <1>5, <1>6

--------------------------------------------------------------------------------
(* What the reasons of a decision say of the reads it was made from. *)

LEMMA TypesOfReasons ==
    /\ Types["NO_ACTIVE_MEMORY"] = "ACCEPT_NEW"
    /\ Types["EXACT_VALUE_ALREADY_ACTIVE"] = "EXACT_DUPLICATE"
    /\ Types["EXACT_VALUE_ACTIVE_WITH_CONFLICTS"] = "EXACT_DUPLICATE"
    /\ Types["CORRECTION_ALREADY_APPLIED"] = "EXACT_DUPLICATE"
    /\ Types["DIFFERENT_ACTIVE_VALUE"] = "CONFLICT_REVIEW"
    /\ Types["CANONICAL_IDENTITY_VARIANT"] = "CONFLICT_REVIEW"
    /\ Types["EXPLICIT_CORRECTION_ALLOWED"] = "APPLY_CORRECTION"
    /\ Types["CORRECTION_TARGET_NOT_FOUND"] = "REJECT"
    /\ Types["CORRECTION_TARGET_NOT_ACTIVE"] = "REJECT"
    /\ Types["CORRECTION_IDENTITY_MISMATCH"] = "REJECT"
    /\ Types["CORRECTION_AUTHORITY_FORBIDDEN"] = "REJECT"
BY DEF Types

LEMMA NewReasons ==
    ASSUME NEW cand, NEW r
    PROVE  LET q == NewEvidenceReason(cand, r) IN
           /\ Types[q] = "EXACT_DUPLICATE" => Exact(cand, r) # {}
           /\ Types[q] = "CONFLICT_REVIEW" => DOMAIN r.active # {}
           /\ Types[q] # "APPLY_CORRECTION" /\ q # "CORRECTION_ALREADY_APPLIED"
BY TypesOfReasons DEF NewEvidenceReason, DuplicateReason

LEMMA CorrectionReasons ==
    ASSUME NEW cand, NEW r
    PROVE  LET q == _evaluate_correction(cand, r)
               t == r.target
           IN
           /\ q = "CORRECTION_ALREADY_APPLIED" =>
                 t # Nil /\ t.status # "active" /\ TipMatches(cand, r)
           /\ Types[q] = "EXACT_DUPLICATE" =>
                 \/ q = "CORRECTION_ALREADY_APPLIED"
                 \/ /\ t # Nil /\ t.status = "active" /\ t.value = cand.value
                    /\ identity_for_record(t) = Identity(cand)
           /\ Types[q] = "CONFLICT_REVIEW" => Variants(cand, r) # {}
           /\ q \in {"NO_ACTIVE_MEMORY", "DIFFERENT_ACTIVE_VALUE",
                     "EXPLICIT_CORRECTION_ALLOWED"} \/ Types[q] = "APPLY_CORRECTION" =>
                 /\ q = "EXPLICIT_CORRECTION_ALLOWED"
                 /\ t # Nil /\ t.status = "active" /\ t.value # cand.value
                 /\ identity_for_record(t) = Identity(cand)
                 /\ cand.prov \in CorrectionProvenance /\ Variants(cand, r) = {}
<1> DEFINE q == _evaluate_correction(cand, r)
           t == r.target
<1>1. CASE \/ t = Nil \/ cand.prov \notin CorrectionProvenance
           \/ identity_for_record(t) # Identity(cand)
  BY <1>1, TypesOfReasons DEF _evaluate_correction
<1>2. CASE /\ t # Nil /\ cand.prov \in CorrectionProvenance
           /\ identity_for_record(t) = Identity(cand) /\ t.status # "active"
  BY <1>2, TypesOfReasons DEF _evaluate_correction
<1>3. CASE /\ t # Nil /\ cand.prov \in CorrectionProvenance
           /\ identity_for_record(t) = Identity(cand) /\ t.status = "active"
  BY <1>3, TypesOfReasons DEF _evaluate_correction, DuplicateReason
<1> QED
  BY <1>1, <1>2, <1>3

LEMMA DecisionFields ==
    ASSUME NEW cand, NEW r
    PROVE  LET d == _decision(cand, r)  e == Cardinality(Exact(cand, r)) IN
           /\ d.reason = IF cand.target = Nil THEN NewEvidenceReason(cand, r)
                         ELSE _evaluate_correction(cand, r)
           /\ DOMAIN r.active \subseteq d.relevant
           /\ r.target # Nil => cand.target \in d.relevant
           /\ d.reason = "CORRECTION_ALREADY_APPLIED" => Last(r.history)[1] \in d.relevant
           /\ d.relevant \subseteq DOMAIN r.active \cup {cand.target, Last(r.history)[1]}
           /\ d.conflicts = {{m[1] : m \in p} : p \in r.pairs}
           /\ d.active = Cardinality(DOMAIN r.active)
           /\ d.exact = e \/ (e = 0 /\ d.exact = 1 /\ Types[d.reason] = "EXACT_DUPLICATE")
           /\ d.variants = Cardinality(Variants(cand, r))
<1> DEFINE d == _decision(cand, r)
           reason == IF cand.target = Nil THEN NewEvidenceReason(cand, r)
                     ELSE _evaluate_correction(cand, r)
           e == Cardinality(Exact(cand, r))
           relevant == DOMAIN r.active
                       \cup (IF r.target = Nil THEN {} ELSE {cand.target})
                       \cup (IF reason = "CORRECTION_ALREADY_APPLIED"
                             THEN {Last(r.history)[1]} ELSE {})
<1>1. /\ d.reason = reason /\ d.relevant = relevant
      /\ d.conflicts = {{m[1] : m \in p} : p \in r.pairs}
      /\ d.active = Cardinality(DOMAIN r.active)
      /\ d.exact = IF /\ cand.target # Nil /\ e = 0
                      /\ Types[reason] = "EXACT_DUPLICATE" THEN 1 ELSE e
      /\ d.variants = Cardinality(Variants(cand, r))
  BY DEF _decision
<1> HIDE DEF d, e
<1>2. d.exact = e \/ (e = 0 /\ d.exact = 1 /\ Types[d.reason] = "EXACT_DUPLICATE")
  <2> HIDE DEF reason, relevant
  <2> QED
    BY <1>1
<1>3. /\ DOMAIN r.active \subseteq d.relevant
      /\ r.target # Nil => cand.target \in d.relevant
      /\ d.reason = "CORRECTION_ALREADY_APPLIED" => Last(r.history)[1] \in d.relevant
      /\ d.relevant \subseteq DOMAIN r.active \cup {cand.target, Last(r.history)[1]}
  <2> HIDE DEF reason
  <2> QED
    BY <1>1
<1> QED
  BY <1>1, <1>2, <1>3 DEF d, e

--------------------------------------------------------------------------------
(* Consistent reads. *)

\* Memory i has the candidate's identity.
IsMine(cand, i) == identity_for_record(memories[i]) = Identity(cand)

MineActive(cand) == {i \in Stored : Active(i) /\ IsMine(cand, i)}
MineOpen(cand) == {q \in Unresolved : \A i \in q : IsMine(cand, i)}

ActiveNow(cand) == Restricted(MineActive(cand))
RowPair(q) == {<<i, memories[i]>> : i \in q}
PairsNow(cand) == {RowPair(q) : q \in MineOpen(cand)}
TargetNow(cand) == IF cand.target \in Stored THEN memories[cand.target] ELSE Nil

\* The reads r have the values the tables hold, and as history that of the target.
Consistent(cand, r) ==
    /\ r.active = ActiveNow(cand) /\ r.pairs = PairsNow(cand)
    /\ r.target = TargetNow(cand)
    /\ IF cand.target \in Stored /\ ~Active(cand.target)
       THEN \E i, w : /\ IsChain(w, i) /\ IsTip(i)
                      /\ \E k \in 1..Len(w) : w[k] = cand.target
                      /\ r.history = RowsOf(w)
       ELSE r.history = <<>>

\* The memory ids of a conflict that was read are the conflict.
LEMMA IdsOfRowPair ==
    ASSUME NEW q
    PROVE  {m[1] : m \in RowPair(q)} = q
<1>1. \A m \in RowPair(q) : m[1] \in q
  BY DEF RowPair
<1>2. \A i \in q : <<i, memories[i]>> \in RowPair(q)
  BY DEF RowPair
<1>3. ASSUME NEW i \in q PROVE i \in {m[1] : m \in RowPair(q)}
  <2>1. <<i, memories[i]>>[1] = i
    OBVIOUS
  <2> QED
    BY <1>2, <2>1
<1> QED
  BY <1>1, <1>3

LEMMA IdsOfPairs ==
    ASSUME NEW cand
    PROVE  {{m[1] : m \in p} : p \in PairsNow(cand)} = MineOpen(cand)
<1>1. ASSUME NEW p \in PairsNow(cand) PROVE {m[1] : m \in p} \in MineOpen(cand)
  <2>1. PICK q \in MineOpen(cand) : p = RowPair(q)
    BY DEF PairsNow
  <2> QED
    BY <2>1, IdsOfRowPair
<1>2. ASSUME NEW q \in MineOpen(cand)
      PROVE  \E p \in PairsNow(cand) : q = {m[1] : m \in p}
  <2>1. RowPair(q) \in PairsNow(cand)
    BY DEF PairsNow
  <2> QED
    BY <2>1, IdsOfRowPair
<1> QED
  BY <1>1, <1>2

\* The open conflicts of an identity are the pairs of active memories that the
\* policy expects.
LEMMA ExpectedNow ==
    ASSUME TableInv, NEW cand
    PROVE  /\ MineOpen(cand) = ExpectedPairs(ActiveNow(cand))
           /\ \A q \in MineOpen(cand) : \E i, j \in MineActive(cand) : i # j /\ q = {i, j}
<1> DEFINE A == ActiveNow(cand)
           M == MineActive(cand)
           C == {ij \in M \X M : /\ memories[ij[1]].key = memories[ij[2]].key
                                 /\ memories[ij[1]].value # memories[ij[2]].value}
<1>1. DOMAIN A = M /\ \A i \in M : A[i] = memories[i]
  BY DEF ActiveNow, Restricted
<1>2. ExpectedPairs(A) = {{ij[1], ij[2]} : ij \in C}
  <2> HIDE DEF A, M
  <2>1. \A ij \in M \X M : A[ij[1]] = memories[ij[1]] /\ A[ij[2]] = memories[ij[2]]
    BY <1>1
  <2> QED
    BY <1>1, <2>1 DEF ExpectedPairs
<1>3. ASSUME NEW q \in MineOpen(cand)
      PROVE  \E i, j \in M : /\ i # j /\ q = {i, j} /\ memories[i].key = memories[j].key
                             /\ memories[i].value # memories[j].value
  <2>1. q \in Unresolved /\ \A i \in q : IsMine(cand, i)
    BY DEF MineOpen
  <2>2. PICK i, j \in Stored : /\ q = {i, j} /\ Active(i) /\ Active(j)
                               /\ memories[i].key = memories[j].key
                               /\ memories[i].value # memories[j].value
    BY <2>1 DEF TableInv, ConflictsExact
  <2> QED
    BY <2>1, <2>2 DEF MineActive
<1>4. ASSUME NEW q \in MineOpen(cand) PROVE q \in {{ij[1], ij[2]} : ij \in C}
  <2>1. PICK i, j \in M : /\ q = {i, j} /\ memories[i].key = memories[j].key
                          /\ memories[i].value # memories[j].value
    BY <1>3
  <2>2. <<i, j>> \in C
    BY <2>1
  <2>3. q = {<<i, j>>[1], <<i, j>>[2]}
    BY <2>1
  <2> HIDE DEF C
  <2> QED
    BY <2>2, <2>3
<1>5. ASSUME NEW ij \in C PROVE {ij[1], ij[2]} \in MineOpen(cand)
  <2> DEFINE i == ij[1]
             j == ij[2]
  <2>1. /\ i \in M /\ j \in M /\ memories[i].key = memories[j].key
        /\ memories[i].value # memories[j].value
    OBVIOUS
  <2> HIDE DEF i, j
  <2>2. /\ i \in Stored /\ j \in Stored /\ Active(i) /\ Active(j) /\ i # j
        /\ IsMine(cand, i) /\ IsMine(cand, j)
    BY <2>1 DEF MineActive
  <2>3. {i, j} \in Pair
    BY <2>2 DEF Pair, TableInv, TypeInv, TypeOK
  <2>4. {i, j} \in Unresolved
    BY <2>1, <2>2, <2>3 DEF TableInv, ConflictsExact
  <2>5. {i, j} \in MineOpen(cand)
    BY <2>2, <2>4 DEF MineOpen
  <2> QED
    BY <2>5 DEF i, j
<1>6. MineOpen(cand) = {{ij[1], ij[2]} : ij \in C}
  <2> HIDE DEF C
  <2> QED
    BY <1>4, <1>5
<1> QED
  BY <1>2, <1>3, <1>6

LEMMA ContextAccepted ==
    ASSUME TableInv, NEW cand, NEW r, Consistent(cand, r)
    PROVE  _validate_context(r)
<1>1. r.active = ActiveNow(cand) /\ r.pairs = PairsNow(cand)
  BY DEF Consistent
<1>2. /\ DOMAIN r.active = MineActive(cand)
      /\ \A i \in MineActive(cand) : r.active[i] = memories[i]
  BY <1>1 DEF ActiveNow, Restricted
<1>3. ASSUME NEW p \in r.pairs, NEW m \in p
      PROVE  m[2].status = "active" /\ m[1] \in DOMAIN r.active /\ r.active[m[1]] = m[2]
  <2>1. PICK q \in MineOpen(cand) : p = RowPair(q)
    BY <1>1 DEF PairsNow
  <2>2. PICK i \in q : m = <<i, memories[i]>>
    BY <2>1 DEF RowPair
  <2>3. i \in MineActive(cand)
    BY <2>1, <2>2, ExpectedNow
  <2>4. memories[i].status = "active"
    BY <2>3 DEF MineActive, Active
  <2> QED
    BY <1>2, <2>2, <2>3, <2>4
<1>4. {{m[1] : m \in p} : p \in r.pairs} = ExpectedPairs(r.active)
  <2>1. {{m[1] : m \in p} : p \in r.pairs} = MineOpen(cand)
    BY <1>1, IdsOfPairs
  <2>2. MineOpen(cand) = ExpectedPairs(r.active)
    BY <1>1, ExpectedNow
  <2> QED
    BY <2>1, <2>2
<1> QED
  BY <1>3, <1>4 DEF _validate_context

\* A duplicate that was found in consistent reads is there.
LEMMA DuplicateFound ==
    ASSUME TableInv, NEW cand, NEW r, Consistent(cand, r),
           Types[_decision(cand, r).reason] = "EXACT_DUPLICATE"
    PROVE  \E i \in _decision(cand, r).relevant :
               i \in Exact(cand, r) /\ Active(i) /\ IsMine(cand, i)
               /\ memories[i].value = cand.value
<1> DEFINE d == _decision(cand, r)
<1>1. /\ DOMAIN r.active = MineActive(cand)
      /\ \A i \in MineActive(cand) : r.active[i] = memories[i]
  BY DEF Consistent, ActiveNow, Restricted
<1>2. ASSUME NEW i \in MineActive(cand), memories[i].value = cand.value
      PROVE  /\ i \in d.relevant /\ i \in Exact(cand, r) /\ Active(i)
             /\ IsMine(cand, i)
  <2>1. i \in d.relevant
    BY <1>1, DecisionFields
  <2>2. i \in Exact(cand, r)
    BY <1>1, <1>2 DEF Exact
  <2> QED
    BY <2>1, <2>2 DEF MineActive
<1>3. CASE cand.target = Nil
  <2>1. Exact(cand, r) # {}
    BY <1>3, DecisionFields, NewReasons
  <2>2. PICK i \in MineActive(cand) : memories[i].value = cand.value
    BY <1>1, <2>1 DEF Exact
  <2> QED
    BY <1>2, <2>2
<1>4. CASE cand.target # Nil
  <2> DEFINE t == cand.target
  <2>1. d.reason = _evaluate_correction(cand, r)
    BY <1>4, DecisionFields
  <2>2. CASE d.reason = "CORRECTION_ALREADY_APPLIED"
    <3>1. r.target # Nil /\ r.target.status # "active" /\ TipMatches(cand, r)
      BY <2>1, <2>2, CorrectionReasons
    <3>2. t \in Stored /\ ~Active(t)
      BY <3>1 DEF Consistent, TargetNow, Active
    <3>3. PICK i, w : IsChain(w, i) /\ r.history = RowsOf(w)
      BY <3>2 DEF Consistent
    <3>4. /\ w \in Seq(Stored) /\ Len(w) \in Nat \ {0} /\ w[Len(w)] = i
          /\ Len(w) \in 1..Len(w)
      BY <3>3 DEF IsChain
    <3>5. i \in Stored
      BY <3>4
    <3>6. Len(RowsOf(w)) = Len(w) /\ RowsOf(w)[Len(w)] = <<i, memories[i]>>
      BY <3>4 DEF RowsOf
    <3>7. Last(r.history) = <<i, memories[i]>>
      BY <3>3, <3>6 DEF Last
    <3>8. /\ memories[i].status = "active" /\ memories[i].value = cand.value
          /\ identity_for_record(memories[i]) = Identity(cand)
      BY <3>1, <3>7 DEF TipMatches
    <3>9. i \in MineActive(cand)
      BY <3>5, <3>8 DEF MineActive, Active, IsMine
    <3> QED
      BY <1>2, <3>8, <3>9
  <2>3. CASE d.reason # "CORRECTION_ALREADY_APPLIED"
    <3>1. /\ r.target # Nil /\ r.target.status = "active" /\ r.target.value = cand.value
          /\ identity_for_record(r.target) = Identity(cand)
      BY <2>1, <2>3, CorrectionReasons
    <3>2. t \in Stored /\ r.target = memories[t]
      BY <3>1 DEF Consistent, TargetNow
    <3>3. t \in MineActive(cand)
      BY <3>1, <3>2 DEF MineActive, Active, IsMine
    <3> QED
      BY <1>2, <3>1, <3>2, <3>3
  <2> QED
    BY <2>2, <2>3
<1> QED
  BY <1>3, <1>4

LEMMA ShapeAccepted ==
    ASSUME TableInv, IsFiniteSet(Stored), NEW cand, NEW r, Consistent(cand, r)
    PROVE  _validate_decision_shape(_decision(cand, r))
<1> DEFINE d == _decision(cand, r)
           A == DOMAIN r.active
           e == Cardinality(Exact(cand, r))
<1>1. A = MineActive(cand) /\ \A i \in MineActive(cand) : r.active[i] = memories[i]
  BY DEF Consistent, ActiveNow, Restricted
<1>2. IsFiniteSet(A) /\ Cardinality(A) \in Nat /\ d.active = Cardinality(A)
  <2>1. A \in SUBSET Stored
    BY <1>1 DEF MineActive
  <2>2. IsFiniteSet(A)
    BY <2>1, FS_Subset
  <2>3. d.active = Cardinality(A)
    BY DecisionFields
  <2> QED
    BY <2>2, <2>3, FS_CardinalityType
<1>3. /\ IsFiniteSet(Exact(cand, r)) /\ e \in Nat /\ e <= Cardinality(A)
      /\ Cardinality(Variants(cand, r)) <= Cardinality(A)
  <2>1. Exact(cand, r) \in SUBSET A /\ Variants(cand, r) \in SUBSET A
    BY DEF Exact, Variants
  <2> HIDE DEF A
  <2> QED
    BY <1>2, <2>1, FS_Subset, FS_CardinalityType
<1>4. Types[d.reason] = "EXACT_DUPLICATE" =>
        e > 0 /\ d.relevant # {} /\ Exact(cand, r) # {}
  <2> HAVE Types[d.reason] = "EXACT_DUPLICATE"
  <2>1. PICK i \in d.relevant : i \in Exact(cand, r)
    BY DuplicateFound
  <2>2. e # 0
    BY <1>3, <2>1, FS_EmptySet
  <2> QED
    BY <1>3, <2>1, <2>2
<1>5. d.exact = e
  <2>1. d.exact = e \/ (e = 0 /\ Types[d.reason] = "EXACT_DUPLICATE")
    BY DecisionFields
  <2>2. e > 0 => e # 0
    BY <1>3
  <2> QED
    BY <1>4, <2>1, <2>2
<1>6. d.variants = Cardinality(Variants(cand, r))
  BY DecisionFields
<1>7. Types[d.reason] \in {"CONFLICT_REVIEW", "APPLY_CORRECTION"} => A # {}
  <2>1. CASE cand.target = Nil
    BY <2>1, DecisionFields, NewReasons
  <2>2. CASE cand.target # Nil
    <3>1. d.reason = _evaluate_correction(cand, r)
      BY <2>2, DecisionFields
    <3>2. CASE Types[d.reason] = "CONFLICT_REVIEW"
      BY <3>1, <3>2, CorrectionReasons DEF Variants
    <3>3. CASE Types[d.reason] = "APPLY_CORRECTION"
      <4>1. /\ r.target # Nil /\ r.target.status = "active"
            /\ identity_for_record(r.target) = Identity(cand)
        BY <3>1, <3>3, CorrectionReasons
      <4>2. cand.target \in Stored /\ r.target = memories[cand.target]
        BY <4>1 DEF Consistent, TargetNow
      <4>3. cand.target \in MineActive(cand)
        BY <4>1, <4>2 DEF MineActive, Active, IsMine
      <4> QED
        BY <1>1, <4>3
    <3> QED
      BY <3>2, <3>3
  <2> QED
    BY <2>1, <2>2
<1>8. Types[d.reason] \in {"CONFLICT_REVIEW", "APPLY_CORRECTION"} => Cardinality(A) > 0
  <2> HIDE DEF A
  <2>1. A # {} => Cardinality(A) # 0
    BY <1>2, FS_EmptySet
  <2> QED
    BY <1>2, <1>7, <2>1
<1>9. d.conflicts # {} => Cardinality(A) >= 2 /\ Cardinality(d.relevant) >= 2
  <2> HAVE d.conflicts # {}
  <2>1. d.conflicts = MineOpen(cand)
    BY DecisionFields, IdsOfPairs DEF Consistent
  <2>2. PICK i, j \in MineActive(cand) : i # j
    BY <2>1, ExpectedNow
  <2>3. IsFiniteSet({i, j}) /\ Cardinality({i, j}) = 2
    <3>1. IsFiniteSet({i}) /\ Cardinality({i}) = 1
      BY FS_Singleton
    <3>2. IsFiniteSet({i} \cup {j}) /\ Cardinality({i} \cup {j}) = 1 + 1
      BY <2>2, <3>1, FS_AddElement
    <3>3. {i} \cup {j} = {i, j}
      OBVIOUS
    <3> QED
      BY <3>2, <3>3
  <2>4. IsFiniteSet(d.relevant) /\ A \subseteq d.relevant
    <3> DEFINE a == cand.target
               b == Last(r.history)[1]
    <3>1. d.relevant \subseteq A \cup {a, b} /\ A \subseteq d.relevant
      BY DecisionFields
    <3> HIDE DEF A, a, b, d
    <3>2. IsFiniteSet(A \cup {a})
      BY <1>2, FS_AddElement
    <3>3. IsFiniteSet((A \cup {a}) \cup {b})
      BY <3>2, FS_AddElement
    <3>4. d.relevant \in SUBSET ((A \cup {a}) \cup {b})
      BY <3>1
    <3> QED
      BY <3>1, <3>3, <3>4, FS_Subset
  <2>5. {i, j} \in SUBSET A /\ {i, j} \in SUBSET d.relevant
    BY <1>1, <2>2, <2>4
  <2> HIDE DEF A, d
  <2>6. 2 <= Cardinality(A) /\ 2 <= Cardinality(d.relevant)
    BY <1>2, <2>3, <2>4, <2>5, FS_Subset
  <2>7. Cardinality(d.relevant) \in Nat
    BY <2>4, FS_CardinalityType
  <2> QED
    BY <1>2, <2>6, <2>7
<1> HIDE DEF A, e, d
<1>10. d.exact <= d.active /\ d.variants <= d.active
  BY <1>2, <1>3, <1>5, <1>6
<1>11. Types[d.reason] = "EXACT_DUPLICATE" => d.exact > 0 /\ d.relevant # {}
  BY <1>4, <1>5
<1>12. Types[d.reason] \in {"CONFLICT_REVIEW", "APPLY_CORRECTION"} => d.active > 0
  BY <1>2, <1>8
<1>13. d.conflicts # {} => d.active >= 2 /\ Cardinality(d.relevant) >= 2
  BY <1>2, <1>9
<1> QED
  BY <1>10, <1>11, <1>12, <1>13 DEF _validate_decision_shape, d

LEMMA ConsistentAccepted ==
    ASSUME TableInv, IsFiniteSet(Stored), NEW cand, NEW r, Consistent(cand, r)
    PROVE  ~PolicyRaises(cand, r)
<1> DEFINE t == cand.target
<1>1. _validate_context(r)
  BY ContextAccepted
<1>2. _validate_correction_context(cand, r)
  <2>1. CASE t \in Stored /\ ~Active(t)
    <3>1. PICK i, w : /\ IsChain(w, i) /\ IsTip(i) /\ r.history = RowsOf(w)
                      /\ \E k \in 1..Len(w) : w[k] = t
      BY <2>1 DEF Consistent
    <3>2. r.target = memories[cand.target]
      BY <2>1 DEF Consistent, TargetNow
    <3> QED
      BY <3>1, <3>2, LinearTables, HistoryAccepted
  <2>2. CASE ~(t \in Stored /\ ~Active(t))
    <3>1. r.history = <<>>
      BY <2>2 DEF Consistent
    <3> QED
      BY <3>1 DEF _validate_correction_context
  <2> QED
    BY <2>1, <2>2
<1>3. ASSUME /\ r.target # Nil /\ r.target.status = "active"
             /\ identity_for_record(r.target) = Identity(cand)
      PROVE  t \in DOMAIN r.active
  <2>1. t \in Stored /\ r.target = memories[t]
    BY <1>3 DEF Consistent, TargetNow
  <2>2. t \in MineActive(cand)
    BY <1>3, <2>1 DEF MineActive, Active, IsMine
  <2> QED
    BY <2>2 DEF Consistent, ActiveNow, Restricted
<1>4. _validate_decision_shape(_decision(cand, r))
  BY ShapeAccepted
<1> QED
  BY <1>1, <1>2, <1>3, <1>4 DEF PolicyRaises

\* What a consistent evaluation reads is consistent.
LEMMA ReadsNowFields ==
    ASSUME NEW cand
    PROVE  ReadsNow(cand) =
             [active |-> ActiveNow(cand), pairs |-> PairsNow(cand),
              target |-> TargetNow(cand),
              history |-> IF cand.target \in Stored /\ ~Active(cand.target)
                          THEN HistoryNow(cand.target) ELSE <<>>,
              relevant |-> {}]
<1> DEFINE a == Restricted({i \in Stored : Active(i)
                       /\ identity_for_record(memories[i]) = Identity(cand)})
           p == {{<<i, memories[i]>> : i \in q} : q \in
                   {q \in Unresolved : \A i \in q :
                       identity_for_record(memories[i]) = Identity(cand)}}
<1>1. a = ActiveNow(cand)
  BY DEF ActiveNow, MineActive, IsMine
<1>2. p = PairsNow(cand)
  BY DEF PairsNow, MineOpen, RowPair, IsMine
<1>3. ReadsNow(cand) =
        [active |-> a, pairs |-> p, target |-> TargetNow(cand),
         history |-> IF cand.target \in Stored /\ ~Active(cand.target)
                     THEN HistoryNow(cand.target) ELSE <<>>,
         relevant |-> {}]
  BY DEF ReadsNow, TargetNow
<1> HIDE DEF a, p
<1> QED
  BY <1>1, <1>2, <1>3

LEMMA ReadsNowConsistent ==
    ASSUME TableInv, IsFiniteSet(Stored), NEW cand
    PROVE  Consistent(cand, ReadsNow(cand))
<1> DEFINE r == ReadsNow(cand)
           t == cand.target
<1>1. /\ r.active = ActiveNow(cand) /\ r.pairs = PairsNow(cand)
      /\ r.target = TargetNow(cand)
      /\ r.history = IF t \in Stored /\ ~Active(t) THEN HistoryNow(t) ELSE <<>>
  BY ReadsNowFields
<1> HIDE DEF r
<1>2. CASE t \in Stored /\ ~Active(t)
  <2>1. PICK i, w : /\ IsChain(w, i) /\ IsTip(i) /\ \E k \in 1..Len(w) : w[k] = t
                    /\ HistoryNow(t) = RowsOf(w)
    BY <1>2, LinearTables, HistoryNowRows
  <2>2. r.history = RowsOf(w)
    BY <1>1, <1>2, <2>1
  <2> QED
    BY <1>1, <1>2, <2>1, <2>2 DEF Consistent, r
<1>3. CASE ~(t \in Stored /\ ~Active(t))
  BY <1>1, <1>3 DEF Consistent, r
<1> QED
  BY <1>2, <1>3

LEMMA AcceptedNow == TableInv /\ IsFiniteSet(Stored) => PolicyAccepts
BY ReadsNowConsistent, ConsistentAccepted DEF PolicyAccepts

--------------------------------------------------------------------------------
(* The inductive invariant of the validators. *)

ReadShape(r) == r = [active |-> r.active, pairs |-> r.pairs, target |-> r.target,
                     history |-> r.history, relevant |-> r.relevant]

Shape(x) == x = [phase |-> x.phase, mode |-> x.mode, cand |-> x.cand,
                 decision |-> x.decision, reads |-> x.reads, result |-> x.result,
                 applied |-> x.applied, alone |-> x.alone]

Phases == {"idle", "active", "conflicts", "rows", "target", "history", "duplicate",
           "write", "writing"}

\* What the phases say of a validator's own state.
Kept(v) ==
    LET x == val[v] IN
    /\ Shape(x) /\ ReadShape(x.reads)
    /\ x.phase \in Phases /\ x.applied \in {0, 1, 2}
    /\ x.phase # "idle" => x.cand \in Candidate /\ x.mode \in {"evaluate", "apply"}
    /\ x.decision # Nil => x.cand \in Candidate
    /\ x.phase \in {"duplicate", "write", "writing"} => x.mode = "apply"
    /\ x.phase \in {"idle", "active", "write", "writing"} => x.reads = NoReads
    /\ x.phase \in {"write", "writing"} => persistence_permitted(x.decision)
    /\ x.mode # "apply" => x.applied = 0

\* row states what memory i states.
SameMemory(i, row) ==
    i \in Stored /\ row.key = memories[i].key /\ row.value = memories[i].value

\* However old, what was read of a memory is what it states: rows are immutable.
RealReads(cand, r) ==
    /\ \A i \in DOMAIN r.active : SameMemory(i, r.active[i])
    /\ r.target # Nil => SameMemory(cand.target, r.target)

\* The candidate corrects its target: the same identity, another value.
Corrects(cand) ==
    /\ cand.target \in Stored /\ memories[cand.target].key = Identity(cand)
    /\ memories[cand.target].value # cand.value

\* The Memory OS call of a validator is the write of its candidate.
Carries(v) ==
    LET x == val[v] IN
    call[v].phase \in {"store", "ok"} =>
        /\ x.phase = "writing"
        /\ x.cand.target = Nil => call[v].op = "add"
        /\ x.cand.target # Nil => call[v].op = "correct" /\ call[v].target = x.cand.target

\* A correction that was applied ended its target.
Once(v) ==
    LET x == val[v]  t == x.cand.target IN
    x.decision # Nil /\ Types[x.decision.reason] = "APPLY_CORRECTION" =>
        /\ t # Nil /\ x.applied # 2
        /\ x.applied = 1 => /\ t \in Stored /\ memories[t].status # "active"
                            /\ call[v].phase # "ok"

\* Reads of a candidate whose target is active, or that has none.
Brief(cand) == [active |-> ActiveNow(cand), pairs |-> PairsNow(cand),
                target |-> TargetNow(cand), history |-> <<>>, relevant |-> {}]

\* The walk of t's history has come to memory i.
Walked(t, h) == \E i, w, s : /\ IsChain(w, i) /\ IsChain(s, t) /\ w[1] = s[1]
                             /\ h = RowsOf(w)

\* While a validator applies alone, what it has read is what the tables hold.
UpToDate(v) ==
    LET x == val[v]  r == x.reads  cand == x.cand IN
    Applying(v) /\ x.alone =>
        /\ x.phase \in {"conflicts", "rows", "target", "history"} =>
              r.active = ActiveNow(cand) /\ r.relevant = {}
        /\ x.phase \in {"conflicts", "rows", "target"} => r.target = Nil /\ r.history = <<>>
        /\ x.phase = "rows" => r.pairs = Unresolved
        /\ x.phase \in {"target", "history"} => r.pairs = PairsNow(cand)
        /\ x.phase = "history" =>
              /\ cand.target \in Stored /\ ~Active(cand.target)
              /\ r.target = memories[cand.target] /\ Walked(cand.target, r.history)
        /\ x.phase = "write" \/ (x.phase = "writing" /\ call[v].phase = "store") =>
              x.decision = _decision(cand, Brief(cand))
        /\ x.phase = "duplicate" =>
              \E i \in r.relevant : /\ Active(i) /\ IsMine(cand, i)
                                    /\ memories[i].value = cand.value

Untorn(v) == val[v].mode = "apply" /\ val[v].alone => val[v].result # "PolicyInvariant"

One(v) ==
    /\ Kept(v) /\ RealReads(val[v].cand, val[v].reads) /\ Carries(v) /\ Once(v)
    /\ val[v].phase \in {"write", "writing"} /\ val[v].cand.target # Nil
          => Corrects(val[v].cand)
    /\ UpToDate(v) /\ Untorn(v)

\* Whoever applies alone is alone.
Exclusive ==
    \A v \in Client : Applying(v) /\ val[v].alone
        => \A d \in Client \ {v} : ~Applying(d)

VInv ==
    /\ TableInv /\ IsFiniteSet(Stored) /\ val = [v \in Client |-> val[v]]
    /\ \A v \in Client : One(v)
    /\ Exclusive

LEMMA StepOf ==
    ASSUME val = [v \in Client |-> val[v]], NEW v \in Client, NEW x, Step(v, x)
    PROVE  /\ val'[v] = x /\ \A d \in Client \ {v} : val'[d] = val[d]
           /\ val' = [d \in Client |-> val'[d]]
BY DEF Step

\* The tables as a validator may read them stay.
LEMMA NowStays ==
    ASSUME memories' = memories, conflicts' = conflicts, NEW cand
    PROVE  /\ ActiveNow(cand)' = ActiveNow(cand) /\ PairsNow(cand)' = PairsNow(cand)
           /\ TargetNow(cand)' = TargetNow(cand) /\ Brief(cand)' = Brief(cand)
           /\ \A t, h : Walked(t, h)' <=> Walked(t, h)
<1>1. ActiveNow(cand)' = ActiveNow(cand)
  BY DEF ActiveNow, Restricted, MineActive, Active, IsMine, Stored
<1>2. PairsNow(cand)' = PairsNow(cand)
  BY DEF PairsNow, RowPair, MineOpen, IsMine, Unresolved
<1>3. TargetNow(cand)' = TargetNow(cand)
  BY DEF TargetNow, Stored
<1>4. Brief(cand)' = Brief(cand)
  BY <1>1, <1>2, <1>3 DEF Brief
<1>5. \A t, h : Walked(t, h)' <=> Walked(t, h)
  BY DEF Walked, IsChain, RowsOf, Stored
<1> QED
  BY <1>1, <1>2, <1>3, <1>4, <1>5

\* A validator that does not move, beside tables that do not.
LEMMA OneStays ==
    ASSUME NEW d \in Client, One(d), val'[d] = val[d], call'[d] = call[d],
           memories' = memories, conflicts' = conflicts
    PROVE  One(d)'
<1>1. Kept(d)' /\ Carries(d)' /\ Untorn(d)'
  BY DEF One, Kept, Carries, Untorn
<1>2. RealReads(val[d].cand, val[d].reads)' /\ Once(d)'
  BY DEF One, RealReads, SameMemory, Once, Stored
<1>3. Corrects(val[d].cand)' <=> Corrects(val[d].cand)
  BY DEF Corrects, Stored
<1>4. UpToDate(d)'
  BY NowStays DEF One, UpToDate, Applying, Active, IsMine, Unresolved, Stored
<1> QED
  BY <1>1, <1>2, <1>3, <1>4 DEF One

--------------------------------------------------------------------------------
(* The steps of an evaluation. *)

LEMMA NoReadsFields ==
    /\ ReadShape(NoReads) /\ DOMAIN NoReads.active = {} /\ NoReads.target = Nil
    /\ NoReads.history = <<>> /\ NoReads.relevant = {}
    /\ \A cand : RealReads(cand, NoReads)
    /\ \A s : LET q == [NoReads EXCEPT !.relevant = s] IN
          /\ ReadShape(q) /\ DOMAIN q.active = {} /\ q.target = Nil /\ q.relevant = s
          /\ q.history = <<>>
<1> DEFINE none == [i \in {} |-> Nil]
<1>1. NoReads = [active |-> none, pairs |-> {}, target |-> Nil, history |-> <<>>,
                 relevant |-> {}] /\ DOMAIN none = {}
  BY DEF NoReads
<1> HIDE DEF none
<1>2. /\ ReadShape(NoReads) /\ DOMAIN NoReads.active = {} /\ NoReads.target = Nil
      /\ NoReads.history = <<>> /\ NoReads.relevant = {}
  BY <1>1 DEF ReadShape
<1>3. \A cand : RealReads(cand, NoReads)
  BY <1>2 DEF RealReads
<1>4. ASSUME NEW s
      PROVE  LET q == [NoReads EXCEPT !.relevant = s] IN
             /\ ReadShape(q) /\ DOMAIN q.active = {} /\ q.target = Nil /\ q.relevant = s
             /\ q.history = <<>>
  BY <1>2 DEF ReadShape
<1> QED
  BY <1>2, <1>3, <1>4

\* The validator is done with what it was at, and changes none of its choices.
LEMMA RestOne ==
    ASSUME NEW v \in Client, One(v), val[v].phase # "writing", UNCHANGED vars,
           Shape(val'[v]), val'[v].phase = "idle", val'[v].reads = NoReads,
           val'[v].mode = val[v].mode, val'[v].cand = val[v].cand,
           val'[v].decision = val[v].decision, val'[v].applied = val[v].applied,
           val'[v].mode = "apply" /\ val'[v].alone => val'[v].result # "PolicyInvariant"
    PROVE  One(v)'
<1>1. UNCHANGED <<memories, conflicts, call>>
  BY DEF vars
<1>2. Kept(v)'
  BY NoReadsFields DEF One, Kept, Phases, Shape, ReadShape, NoReads
<1>3. RealReads(val[v].cand, val[v].reads)'
  BY NoReadsFields DEF RealReads, SameMemory, Stored
<1>4. Carries(v)' /\ Once(v)' /\ UpToDate(v)' /\ Untorn(v)'
  BY <1>1 DEF One, Carries, Once, UpToDate, Applying, Untorn, Stored
<1> QED
  BY <1>2, <1>3, <1>4 DEF One

\* What an assignment to one field of a validator leaves.
LEMMA SetPhase ==
    ASSUME NEW x, Shape(x), NEW a
    PROVE  LET z == [x EXCEPT !.phase = a] IN
           /\ Shape(z) /\ z.phase = a
           /\ z.mode = x.mode /\ z.cand = x.cand /\ z.decision = x.decision
           /\ z.reads = x.reads /\ z.result = x.result /\ z.applied = x.applied
           /\ z.alone = x.alone
BY DEF Shape

LEMMA SetDecision ==
    ASSUME NEW x, Shape(x), NEW a
    PROVE  LET z == [x EXCEPT !.decision = a] IN
           /\ Shape(z) /\ z.decision = a
           /\ z.phase = x.phase /\ z.mode = x.mode /\ z.cand = x.cand
           /\ z.reads = x.reads /\ z.result = x.result /\ z.applied = x.applied
           /\ z.alone = x.alone
BY DEF Shape

LEMMA SetReads ==
    ASSUME NEW x, Shape(x), NEW a
    PROVE  LET z == [x EXCEPT !.reads = a] IN
           /\ Shape(z) /\ z.reads = a
           /\ z.phase = x.phase /\ z.mode = x.mode /\ z.cand = x.cand
           /\ z.decision = x.decision /\ z.result = x.result /\ z.applied = x.applied
           /\ z.alone = x.alone
BY DEF Shape

LEMMA SetResult ==
    ASSUME NEW x, Shape(x), NEW a
    PROVE  LET z == [x EXCEPT !.result = a] IN
           /\ Shape(z) /\ z.result = a
           /\ z.phase = x.phase /\ z.mode = x.mode /\ z.cand = x.cand
           /\ z.decision = x.decision /\ z.reads = x.reads /\ z.applied = x.applied
           /\ z.alone = x.alone
BY DEF Shape

LEMMA SetMode ==
    ASSUME NEW x, Shape(x), NEW a
    PROVE  LET z == [x EXCEPT !.mode = a] IN
           /\ Shape(z) /\ z.mode = a
           /\ z.phase = x.phase /\ z.cand = x.cand /\ z.decision = x.decision
           /\ z.reads = x.reads /\ z.result = x.result /\ z.applied = x.applied
           /\ z.alone = x.alone
BY DEF Shape

LEMMA SetApplied ==
    ASSUME NEW x, Shape(x), NEW a
    PROVE  LET z == [x EXCEPT !.applied = a] IN
           /\ Shape(z) /\ z.applied = a
           /\ z.phase = x.phase /\ z.mode = x.mode /\ z.cand = x.cand
           /\ z.decision = x.decision /\ z.reads = x.reads /\ z.result = x.result
           /\ z.alone = x.alone
BY DEF Shape

LEMMA SetAlone ==
    ASSUME NEW x, Shape(x), NEW a
    PROVE  LET z == [x EXCEPT !.alone = a] IN
           /\ Shape(z) /\ z.alone = a
           /\ z.phase = x.phase /\ z.mode = x.mode /\ z.cand = x.cand
           /\ z.decision = x.decision /\ z.reads = x.reads /\ z.result = x.result
           /\ z.applied = x.applied
BY DEF Shape

\* What a validator at rest but for its last evaluation is, and the ends an
\* evaluation can have.
Done(v) == [val[v] EXCEPT !.phase = "idle", !.reads = NoReads]
DoneWith(v, y) == [Done(v) EXCEPT !.result = y]
DoneDeciding(v, d) == [Done(v) EXCEPT !.decision = d, !.result = "decided"]
ToWrite(v) == [Done(v) EXCEPT !.phase = "write"]
ToDuplicate(v, s) == [Done(v) EXCEPT !.phase = "duplicate", !.reads.relevant = s]

LEMMA DoneFields ==
    ASSUME NEW v, Shape(val[v])
    PROVE  /\ \A y : LET x == DoneWith(v, y) IN
              /\ Shape(x) /\ x.phase = "idle" /\ x.reads = NoReads /\ x.mode = val[v].mode
              /\ x.cand = val[v].cand /\ x.decision = val[v].decision
              /\ x.applied = val[v].applied /\ x.alone = val[v].alone /\ x.result = y
           /\ \A d : LET z == DoneDeciding(v, d) IN
              /\ Shape(z) /\ z.phase = "idle" /\ z.reads = NoReads /\ z.mode = val[v].mode
              /\ z.cand = val[v].cand /\ z.decision = d /\ z.applied = val[v].applied
              /\ z.alone = val[v].alone /\ z.result = "decided"
           /\ LET w == ToWrite(v) IN
              /\ Shape(w) /\ w.phase = "write" /\ w.reads = NoReads /\ w.mode = val[v].mode
              /\ w.cand = val[v].cand /\ w.decision = val[v].decision
              /\ w.applied = val[v].applied /\ w.alone = val[v].alone
              /\ w.result = val[v].result
           /\ \A s : LET u == ToDuplicate(v, s) IN
              /\ Shape(u) /\ u.phase = "duplicate" /\ u.mode = val[v].mode
              /\ u.reads = [NoReads EXCEPT !.relevant = s]
              /\ u.cand = val[v].cand /\ u.decision = val[v].decision
              /\ u.applied = val[v].applied /\ u.alone = val[v].alone
              /\ u.result = val[v].result
<1> DEFINE x0 == val[v]
           dn == Done(v)
<1>1. /\ Shape(dn) /\ dn.phase = "idle" /\ dn.reads = NoReads /\ dn.mode = x0.mode
      /\ dn.cand = x0.cand /\ dn.decision = x0.decision /\ dn.applied = x0.applied
      /\ dn.alone = x0.alone /\ dn.result = x0.result
  <2> DEFINE e == [x0 EXCEPT !.phase = "idle"]
  <2>1. /\ Shape(e) /\ e.phase = "idle" /\ e.mode = x0.mode /\ e.cand = x0.cand
        /\ e.decision = x0.decision /\ e.applied = x0.applied /\ e.alone = x0.alone
        /\ e.result = x0.result
    BY SetPhase
  <2>2. dn = [e EXCEPT !.reads = NoReads]
    BY DEF Done
  <2> HIDE DEF e, dn
  <2> QED
    BY <2>1, <2>2, SetReads
<1> HIDE DEF dn
<1>2. ASSUME NEW y
      PROVE  LET x == DoneWith(v, y) IN
             /\ Shape(x) /\ x.phase = "idle" /\ x.reads = NoReads /\ x.mode = x0.mode
             /\ x.cand = x0.cand /\ x.decision = x0.decision
             /\ x.applied = x0.applied /\ x.alone = x0.alone /\ x.result = y
  <2> DEFINE x == DoneWith(v, y)
  <2>1. x = [dn EXCEPT !.result = y]
    BY DEF DoneWith, dn
  <2> HIDE DEF x
  <2>2. /\ Shape(x) /\ x.phase = "idle" /\ x.reads = NoReads /\ x.mode = x0.mode
        /\ x.cand = x0.cand /\ x.decision = x0.decision
        /\ x.applied = x0.applied /\ x.alone = x0.alone /\ x.result = y
    BY <1>1, <2>1, SetResult
  <2> QED
    BY <2>2 DEF x
<1>3. ASSUME NEW d
      PROVE  LET z == DoneDeciding(v, d) IN
             /\ Shape(z) /\ z.phase = "idle" /\ z.reads = NoReads /\ z.mode = x0.mode
             /\ z.cand = x0.cand /\ z.decision = d /\ z.applied = x0.applied
             /\ z.alone = x0.alone /\ z.result = "decided"
  <2> DEFINE z == DoneDeciding(v, d)
             e == [dn EXCEPT !.decision = d]
  <2>1. /\ Shape(e) /\ e.decision = d /\ e.phase = "idle" /\ e.reads = NoReads
        /\ e.mode = x0.mode /\ e.cand = x0.cand /\ e.applied = x0.applied
        /\ e.alone = x0.alone
    BY <1>1, SetDecision
  <2>2. z = [e EXCEPT !.result = "decided"]
    BY DEF DoneDeciding, dn
  <2> HIDE DEF e, z
  <2>3. /\ Shape(z) /\ z.phase = "idle" /\ z.reads = NoReads /\ z.mode = x0.mode
        /\ z.cand = x0.cand /\ z.decision = d /\ z.applied = x0.applied
        /\ z.alone = x0.alone /\ z.result = "decided"
    BY <2>1, <2>2, SetResult
  <2> QED
    BY <2>3 DEF z
<1>4. LET w == ToWrite(v) IN
      /\ Shape(w) /\ w.phase = "write" /\ w.reads = NoReads /\ w.mode = x0.mode
      /\ w.cand = x0.cand /\ w.decision = x0.decision
      /\ w.applied = x0.applied /\ w.alone = x0.alone /\ w.result = x0.result
  <2> DEFINE w == ToWrite(v)
  <2>1. w = [dn EXCEPT !.phase = "write"]
    BY DEF ToWrite, dn
  <2> HIDE DEF w
  <2>2. /\ Shape(w) /\ w.phase = "write" /\ w.reads = NoReads /\ w.mode = x0.mode
        /\ w.cand = x0.cand /\ w.decision = x0.decision
        /\ w.applied = x0.applied /\ w.alone = x0.alone /\ w.result = x0.result
    BY <1>1, <2>1, SetPhase
  <2> QED
    BY <2>2 DEF w
<1>5. ASSUME NEW s
      PROVE  LET u == ToDuplicate(v, s) IN
             /\ Shape(u) /\ u.phase = "duplicate" /\ u.mode = x0.mode
             /\ u.reads = [NoReads EXCEPT !.relevant = s]
             /\ u.cand = x0.cand /\ u.decision = x0.decision
             /\ u.applied = x0.applied /\ u.alone = x0.alone /\ u.result = x0.result
  <2> DEFINE u == ToDuplicate(v, s)
             e == [dn EXCEPT !.phase = "duplicate"]
  <2>1. /\ Shape(e) /\ e.phase = "duplicate" /\ e.reads = NoReads /\ e.mode = x0.mode
        /\ e.cand = x0.cand /\ e.decision = x0.decision
        /\ e.applied = x0.applied /\ e.alone = x0.alone /\ e.result = x0.result
    BY <1>1, SetPhase
  <2>2. u = [e EXCEPT !.reads = [e.reads EXCEPT !.relevant = s]]
    BY <1>1 DEF Shape, ToDuplicate, dn
  <2> HIDE DEF e, u
  <2>3. /\ Shape(u) /\ u.phase = "duplicate" /\ u.mode = x0.mode
        /\ u.reads = [NoReads EXCEPT !.relevant = s]
        /\ u.cand = x0.cand /\ u.decision = x0.decision
        /\ u.applied = x0.applied /\ u.alone = x0.alone /\ u.result = x0.result
    BY <2>1, <2>2, SetReads
  <2> QED
    BY <2>3 DEF u
<1> QED
  BY <1>2, <1>3, <1>4, <1>5

\* The outcomes of Conclude, one by one.
LEMMA ConcludeCases ==
    ASSUME NEW v, NEW r, Conclude(v, r)
    PROVE  LET cand == val[v].cand
               current == _decision(cand, r)
           IN
           \/ PolicyRaises(cand, r) /\ Step(v, DoneWith(v, "PolicyInvariant"))
           \/ ~PolicyRaises(cand, r) /\ val[v].mode = "evaluate"
              /\ Step(v, DoneDeciding(v, current))
           \/ ~PolicyRaises(cand, r) /\ val[v].mode # "evaluate"
              /\ Types[current.reason] = "EXACT_DUPLICATE"
              /\ Step(v, ToDuplicate(v, current.relevant))
           \/ \E y \in {"StaleDecision", "DecisionNotApplicable"} :
                 Step(v, DoneWith(v, y))
           \/ ~PolicyRaises(cand, r) /\ val[v].mode # "evaluate"
              /\ current = val[v].decision /\ persistence_permitted(current)
              /\ Step(v, ToWrite(v))
<1> DEFINE cand == val[v].cand
           current == _decision(cand, r)
           P == PolicyRaises(cand, r)
           stale == DoneWith(v, "StaleDecision")
           refused == DoneWith(v, "DecisionNotApplicable")
           raised == DoneWith(v, "PolicyInvariant")
           decided == DoneDeciding(v, current)
           dup == ToDuplicate(v, current.relevant)
           write == ToWrite(v)
           isDup == Types[current.reason] = "EXACT_DUPLICATE"
<1>1. Step(v, IF P THEN raised
              ELSE IF val[v].mode = "evaluate" THEN decided
              ELSE IF current # val[v].decision
              THEN IF persistence_permitted(val[v].decision) /\ isDup THEN dup ELSE stale
              ELSE IF isDup THEN dup
              ELSE IF ~persistence_permitted(current) THEN refused ELSE write)
  BY DEF Conclude, Done, DoneWith, DoneDeciding, ToWrite, ToDuplicate
<1> HIDE DEF P, stale, refused, raised, decided, dup, write, isDup, current
<1>2. \/ P /\ Step(v, raised)
      \/ ~P /\ val[v].mode = "evaluate" /\ Step(v, decided)
      \/ ~P /\ val[v].mode # "evaluate" /\ isDup /\ Step(v, dup)
      \/ Step(v, stale) \/ Step(v, refused)
      \/ /\ ~P /\ val[v].mode # "evaluate" /\ current = val[v].decision
         /\ persistence_permitted(current) /\ Step(v, write)
  <2>1. CASE P
    BY <1>1, <2>1
  <2>2. CASE ~P /\ val[v].mode = "evaluate"
    BY <1>1, <2>2
  <2>3. CASE ~P /\ val[v].mode # "evaluate" /\ current # val[v].decision
    BY <1>1, <2>3
  <2>4. CASE ~P /\ val[v].mode # "evaluate" /\ current = val[v].decision
    BY <1>1, <2>4
  <2> QED
    BY <2>1, <2>2, <2>3, <2>4
<1>3. \/ Step(v, stale) => \E y \in {"StaleDecision", "DecisionNotApplicable"} :
                             Step(v, DoneWith(v, y))
  BY DEF stale
<1>4. \/ Step(v, refused) => \E y \in {"StaleDecision", "DecisionNotApplicable"} :
                               Step(v, DoneWith(v, y))
  BY DEF refused
<1> QED
  BY <1>2, <1>3, <1>4 DEF P, raised, decided, dup, write, isDup, current

\* v goes on applying as it was, or stops: nobody starts to apply.
Steady(v) == Applying(v)' => Applying(v) /\ val'[v].alone = val[v].alone

\* Consistent reads that permit a write found the target, if any, active.
LEMMA BriefReads ==
    ASSUME TableInv, NEW cand, NEW r, ReadShape(r), Consistent(cand, r), r.relevant = {},
           persistence_permitted(_decision(cand, r))
    PROVE  r = Brief(cand)
<1>1. r.history = <<>>
  <2>1. CASE cand.target \in Stored /\ ~Active(cand.target)
    <3>1. cand.target # Nil
      BY <2>1, NilAssumption DEF TableInv, TypeInv, TypeOK
    <3>2. /\ _decision(cand, r).reason = _evaluate_correction(cand, r)
          /\ _decision(cand, r).reason \in {"NO_ACTIVE_MEMORY", "DIFFERENT_ACTIVE_VALUE",
                                            "EXPLICIT_CORRECTION_ALLOWED"}
      BY <3>1, DecisionFields DEF persistence_permitted
    <3>3. r.target.status = "active"
      BY <3>2, CorrectionReasons
    <3>4. r.target = memories[cand.target]
      BY <2>1 DEF Consistent, TargetNow
    <3> QED
      BY <2>1, <3>3, <3>4 DEF Active
  <2>2. CASE ~(cand.target \in Stored /\ ~Active(cand.target))
    BY <2>2 DEF Consistent
  <2> QED
    BY <2>1, <2>2
<1> QED
  BY <1>1 DEF Consistent, ReadShape, Brief

\* The reads that allow a correction allow it of the memory they were read from.
LEMMA CorrectionFound ==
    ASSUME NEW cand, NEW r, RealReads(cand, r), cand.target # Nil,
           persistence_permitted(_decision(cand, r)), ~PolicyRaises(cand, r)
    PROVE  Corrects(cand)
<1> DEFINE t == cand.target
<1>1. /\ _decision(cand, r).reason = _evaluate_correction(cand, r)
      /\ _decision(cand, r).reason \in {"NO_ACTIVE_MEMORY", "DIFFERENT_ACTIVE_VALUE",
                                        "EXPLICIT_CORRECTION_ALLOWED"}
  BY DecisionFields DEF persistence_permitted
<1>2. /\ r.target # Nil /\ r.target.status = "active" /\ r.target.value # cand.value
      /\ identity_for_record(r.target) = Identity(cand)
      /\ cand.prov \in CorrectionProvenance /\ Variants(cand, r) = {}
  BY <1>1, CorrectionReasons
<1>3. t \in DOMAIN r.active
  BY <1>2 DEF PolicyRaises
<1>4. r.active[t].key = Identity(cand)
  BY <1>2, <1>3 DEF Variants
<1> QED
  BY <1>2, <1>3, <1>4 DEF RealReads, SameMemory, Corrects



LEMMA ConcludeKeeps ==
    ASSUME TableInv, IsFiniteSet(Stored), val = [d \in Client |-> val[d]],
           NEW v \in Client, One(v), val[v].phase \in {"rows", "target", "history"},
           NEW r, ReadShape(r), RealReads(val[v].cand, r),
           Applying(v) /\ val[v].alone => Consistent(val[v].cand, r) /\ r.relevant = {},
           Conclude(v, r), UNCHANGED vars
    PROVE  One(v)' /\ Steady(v)
<1> DEFINE x == val[v]
           cand == x.cand
           current == _decision(cand, r)
<1>1. /\ Shape(x) /\ x.cand \in Candidate /\ x.mode \in {"evaluate", "apply"}
      /\ x.applied \in {0, 1, 2} /\ (x.mode # "apply" => x.applied = 0)
  BY DEF One, Kept
<1>2. UNCHANGED <<memories, conflicts, call>>
  BY DEF vars
<1>3. val[v].phase \notin {"idle", "writing"}
  OBVIOUS
<1>4. ASSUME NEW y, Step(v, DoneWith(v, y)),
             y = "PolicyInvariant" => ~(x.mode = "apply" /\ x.alone)
      PROVE  One(v)' /\ Steady(v)
  <2>1. val'[v] = DoneWith(v, y)
    BY <1>4, StepOf
  <2>2. /\ Shape(val'[v]) /\ val'[v].phase = "idle" /\ val'[v].reads = NoReads
        /\ val'[v].mode = x.mode /\ val'[v].cand = x.cand
        /\ val'[v].decision = x.decision /\ val'[v].applied = x.applied
        /\ val'[v].alone = x.alone /\ val'[v].result = y
    BY <1>1, <2>1, DoneFields
  <2>3. Steady(v)
    BY <2>2 DEF Steady, Applying
  <2> QED
    BY <1>3, <1>4, <2>2, <2>3, RestOne
<1>5. ASSUME PolicyRaises(cand, r), Step(v, DoneWith(v, "PolicyInvariant"))
      PROVE  One(v)' /\ Steady(v)
  <2>1. ~(x.mode = "apply" /\ x.alone)
    BY <1>3, <1>5, ConsistentAccepted DEF Applying
  <2> QED
    BY <1>4, <1>5, <2>1
<1>6. ASSUME x.mode = "evaluate",
             Step(v, DoneDeciding(v, current))
      PROVE  One(v)' /\ Steady(v)
  <2>1. val'[v] = DoneDeciding(v, current)
    BY <1>6, StepOf
  <2>2. /\ Shape(val'[v]) /\ val'[v].phase = "idle" /\ val'[v].reads = NoReads
        /\ val'[v].mode = "evaluate" /\ val'[v].cand = cand
        /\ val'[v].decision = current /\ val'[v].applied = 0
        /\ val'[v].result = "decided"
    BY <1>1, <1>6, <2>1, DoneFields
  <2>3. Types[current.reason] = "APPLY_CORRECTION" => cand.target # Nil
    BY DecisionFields, NewReasons
  <2> HIDE DEF x, cand, current
  <2>4. Kept(v)'
    BY <1>1, <2>2, NoReadsFields DEF Kept, Phases, cand, x
  <2>5. Once(v)'
    BY <2>2, <2>3 DEF Once
  <2>6. RealReads(val[v].cand, val[v].reads)'
    BY <2>2, NoReadsFields DEF RealReads, SameMemory
  <2>7. Carries(v)'
    BY <1>2, <1>3 DEF One, Carries
  <2>8. UpToDate(v)' /\ Untorn(v)' /\ Steady(v)
    BY <2>2 DEF UpToDate, Untorn, Steady, Applying
  <2> QED
    BY <2>2, <2>4, <2>5, <2>6, <2>7, <2>8 DEF One
<1>7. ASSUME ~PolicyRaises(cand, r), x.mode # "evaluate",
             Types[current.reason] = "EXACT_DUPLICATE",
             Step(v, ToDuplicate(v, current.relevant))
      PROVE  One(v)' /\ Steady(v)
  <2> DEFINE q == [NoReads EXCEPT !.relevant = current.relevant]
  <2>1. val'[v] = ToDuplicate(v, current.relevant)
    BY <1>7, StepOf
  <2>2. /\ Shape(val'[v]) /\ val'[v].phase = "duplicate" /\ val'[v].mode = "apply"
        /\ val'[v].reads = q /\ val'[v].cand = cand
        /\ val'[v].decision = x.decision /\ val'[v].applied = x.applied
        /\ val'[v].alone = x.alone /\ val'[v].result = x.result
    BY <1>1, <1>7, <2>1, DoneFields
  <2>3. /\ ReadShape(q) /\ DOMAIN q.active = {} /\ q.target = Nil
        /\ q.relevant = current.relevant
    BY NoReadsFields
  <2>4. Applying(v) /\ x.alone =>
          \E i \in q.relevant : Active(i) /\ IsMine(cand, i) /\ memories[i].value = cand.value
    BY <1>7, <2>3, DuplicateFound
  <2> HIDE DEF x, cand, current, q
  <2>5. Kept(v)'
    BY <1>1, <2>2, <2>3 DEF One, Kept, Phases, cand, x
  <2>6. RealReads(val[v].cand, val[v].reads)'
    BY <2>2, <2>3 DEF RealReads, SameMemory
  <2>7. Carries(v)' /\ Once(v)' /\ Untorn(v)'
    BY <1>2, <1>3, <1>7, <1>1, <2>2 DEF One, Carries, Once, Untorn, cand, x, Stored
  <2>8. Applying(v)' /\ val'[v].alone => Applying(v) /\ x.alone
    BY <1>1, <1>3, <1>7, <2>2 DEF Applying, x
  <2>9. Applying(v)' /\ val'[v].alone =>
          (\E i \in val[v].reads.relevant :
              Active(i) /\ IsMine(val[v].cand, i) /\ memories[i].value = val[v].cand.value)'
    BY <1>2, <2>2, <2>4, <2>8 DEF Active, IsMine, Stored, x
  <2>10. UpToDate(v)'
    BY <2>2, <2>9 DEF UpToDate
  <2>11. Steady(v)
    BY <1>1, <1>3, <1>7, <2>2 DEF Steady, Applying, x
  <2> QED
    BY <2>2, <2>5, <2>6, <2>7, <2>10, <2>11 DEF One
<1>8. ASSUME ~PolicyRaises(cand, r), x.mode # "evaluate",
             current = x.decision, persistence_permitted(current),
             Step(v, ToWrite(v))
      PROVE  One(v)' /\ Steady(v)
  <2>1. val'[v] = ToWrite(v)
    BY <1>8, StepOf
  <2>2. /\ Shape(val'[v]) /\ val'[v].phase = "write" /\ val'[v].mode = "apply"
        /\ val'[v].reads = NoReads /\ val'[v].cand = cand
        /\ val'[v].decision = x.decision /\ val'[v].applied = x.applied
        /\ val'[v].alone = x.alone /\ val'[v].result = x.result
    BY <1>1, <1>8, <2>1, DoneFields
  <2>3. cand.target # Nil => Corrects(cand)
    BY <1>8, CorrectionFound
  <2>4. Applying(v) /\ x.alone => x.decision = _decision(cand, Brief(cand))
    BY <1>8, BriefReads
  <2>5. persistence_permitted(x.decision)
    BY <1>8
  <2> HIDE DEF x, cand, current
  <2>6. Kept(v)'
    BY <1>1, <2>2, <2>5, NoReadsFields DEF One, Kept, Phases, cand, x
  <2>7. RealReads(val[v].cand, val[v].reads)'
    BY <2>2, NoReadsFields DEF RealReads, SameMemory
  <2>8. Carries(v)' /\ Once(v)' /\ Untorn(v)'
    BY <1>2, <1>3, <1>8, <1>1, <2>2 DEF One, Carries, Once, Untorn, cand, x, Stored
  <2>9. Applying(v)' /\ val'[v].alone => Applying(v) /\ x.alone
    BY <1>1, <1>3, <1>8, <2>2 DEF Applying, x
  <2>10. Brief(val[v].cand)' = Brief(cand)
    BY <1>2, <2>2, NowStays
  <2>11. Applying(v)' /\ val'[v].alone =>
            (val[v].decision = _decision(val[v].cand, Brief(val[v].cand)))'
    BY <2>2, <2>4, <2>9, <2>10 DEF x
  <2>13. UpToDate(v)'
    BY <2>2, <2>11 DEF UpToDate
  <2>14. Steady(v)
    BY <1>1, <1>3, <1>8, <2>2 DEF Steady, Applying, x
  <2>15. Corrects(cand) => Corrects(val[v].cand)'
    BY <1>2, <2>2 DEF Corrects, Stored
  <2> QED
    BY <2>2, <2>3, <2>6, <2>7, <2>8, <2>13, <2>14, <2>15 DEF One
<1> QED
  BY <1>4, <1>5, <1>6, <1>7, <1>8, ConcludeCases

\* A validator that goes on reading.
Moved(x, p, q) == [x EXCEPT !.phase = p, !.reads = q]

LEMMA MovedFields ==
    ASSUME NEW x, Shape(x), NEW p, NEW q
    PROVE  LET z == Moved(x, p, q) IN
           /\ Shape(z) /\ z.phase = p /\ z.reads = q
           /\ z.mode = x.mode /\ z.cand = x.cand /\ z.decision = x.decision
           /\ z.result = x.result /\ z.applied = x.applied /\ z.alone = x.alone
<1> DEFINE e == [x EXCEPT !.phase = p]
           z == Moved(x, p, q)
<1>1. /\ Shape(e) /\ e.phase = p /\ e.mode = x.mode /\ e.cand = x.cand
      /\ e.decision = x.decision /\ e.result = x.result
      /\ e.applied = x.applied /\ e.alone = x.alone
  BY SetPhase
<1>2. z = [e EXCEPT !.reads = q]
  BY DEF Moved
<1> HIDE DEF e, z
<1>3. /\ Shape(z) /\ z.phase = p /\ z.reads = q
      /\ z.mode = x.mode /\ z.cand = x.cand /\ z.decision = x.decision
      /\ z.result = x.result /\ z.applied = x.applied /\ z.alone = x.alone
  BY <1>1, <1>2, SetReads
<1> QED
  BY <1>3 DEF z

\* What an assignment to one of the reads leaves.
WithActive(r, a) == [r EXCEPT !.active = a]
WithPairs(r, a) == [r EXCEPT !.pairs = a]
WithTarget(r, a) == [r EXCEPT !.target = a]
WithHistory(r, a) == [r EXCEPT !.history = a]

LEMMA WithActiveFields ==
    ASSUME NEW r, ReadShape(r), NEW a
    PROVE  LET q == WithActive(r, a) IN
           /\ ReadShape(q) /\ q.active = a /\ q.pairs = r.pairs
           /\ q.target = r.target /\ q.history = r.history /\ q.relevant = r.relevant
BY DEF ReadShape, WithActive

LEMMA WithPairsFields ==
    ASSUME NEW r, ReadShape(r), NEW a
    PROVE  LET q == WithPairs(r, a) IN
           /\ ReadShape(q) /\ q.pairs = a /\ q.active = r.active
           /\ q.target = r.target /\ q.history = r.history /\ q.relevant = r.relevant
BY DEF ReadShape, WithPairs

LEMMA WithTargetFields ==
    ASSUME NEW r, ReadShape(r), NEW a
    PROVE  LET q == WithTarget(r, a) IN
           /\ ReadShape(q) /\ q.target = a /\ q.active = r.active
           /\ q.pairs = r.pairs /\ q.history = r.history /\ q.relevant = r.relevant
BY DEF ReadShape, WithTarget

LEMMA WithHistoryFields ==
    ASSUME NEW r, ReadShape(r), NEW a
    PROVE  LET q == WithHistory(r, a) IN
           /\ ReadShape(q) /\ q.history = a /\ q.active = r.active
           /\ q.pairs = r.pairs /\ q.target = r.target /\ q.relevant = r.relevant
BY DEF ReadShape, WithHistory

\* The reads r are what the tables hold, as far as phase p has come.
Fits(p, cand, r) ==
    /\ r.active = ActiveNow(cand) /\ r.relevant = {}
    /\ p \in {"conflicts", "rows", "target"} => r.target = Nil /\ r.history = <<>>
    /\ p = "rows" => r.pairs = Unresolved
    /\ p \in {"target", "history"} => r.pairs = PairsNow(cand)
    /\ p = "history" =>
          /\ cand.target \in Stored /\ ~Active(cand.target)
          /\ r.target = memories[cand.target] /\ Walked(cand.target, r.history)

LEMMA ReadOn ==
    ASSUME NEW v \in Client, One(v), val[v].phase \notin {"idle", "write", "writing"},
           NEW p \in {"conflicts", "rows", "target", "history"},
           NEW q, ReadShape(q), RealReads(val[v].cand, q),
           Applying(v) /\ val[v].alone => Fits(p, val[v].cand, q),
           val'[v] = Moved(val[v], p, q), UNCHANGED vars
    PROVE  One(v)' /\ Steady(v)
<1> DEFINE x == val[v]
<1>1. /\ Shape(val'[v]) /\ val'[v].phase = p /\ val'[v].reads = q
      /\ val'[v].mode = x.mode /\ val'[v].cand = x.cand /\ val'[v].decision = x.decision
      /\ val'[v].result = x.result /\ val'[v].applied = x.applied
      /\ val'[v].alone = x.alone
  BY MovedFields DEF One, Kept
<1>2. UNCHANGED <<memories, conflicts, call>>
  BY DEF vars
<1>3. Kept(v)'
  BY <1>1 DEF One, Kept, Phases
<1>4. RealReads(val[v].cand, val[v].reads)'
  BY <1>1, <1>2 DEF RealReads, SameMemory, Stored
<1>5. Carries(v)' /\ Once(v)' /\ Untorn(v)'
  BY <1>1, <1>2 DEF One, Carries, Once, Untorn, Stored
<1>6. Applying(v)' /\ val'[v].alone => Applying(v) /\ val[v].alone
  BY <1>1 DEF Applying
<1>7. Applying(v)' /\ val'[v].alone => Fits(p, val[v].cand, val[v].reads)'
  BY <1>1, <1>2, <1>6, NowStays DEF Fits, Active, Stored, Unresolved
<1>8. UpToDate(v)'
  BY <1>1, <1>7 DEF UpToDate, Fits
<1>9. Steady(v)
  BY <1>1 DEF Steady, Applying
<1> QED
  BY <1>1, <1>3, <1>4, <1>5, <1>8, <1>9 DEF One

LEMMA ActiveRead ==
    ASSUME TableInv, val = [d \in Client |-> val[d]], NEW v \in Client, One(v),
           _active_memories(v)
    PROVE  One(v)' /\ Steady(v)
<1> DEFINE x == val[v]
           q == WithActive(x.reads, ActiveNow(x.cand))
<1>1. /\ Shape(x) /\ x.reads = NoReads /\ ReadShape(x.reads) /\ x.phase = "active"
      /\ UNCHANGED vars
  BY DEF One, Kept, _active_memories
<1>2. val'[v] = [x EXCEPT !.phase = "conflicts", !.reads.active = ActiveNow(x.cand)]
  BY StepOf DEF _active_memories, ActiveNow, MineActive, IsMine
<1>3. val'[v] = Moved(x, "conflicts", q)
  BY <1>1, <1>2 DEF Moved, Shape, WithActive
<1>4. /\ ReadShape(q) /\ q.active = ActiveNow(x.cand) /\ q.target = Nil /\ q.history = <<>>
      /\ q.relevant = {}
  BY <1>1, WithActiveFields, NoReadsFields
<1> HIDE DEF q
<1>5. RealReads(x.cand, q)
  BY <1>4 DEF RealReads, SameMemory, ActiveNow, MineActive, Restricted
<1>6. Fits("conflicts", x.cand, q)
  BY <1>4 DEF Fits
<1> QED
  BY <1>1, <1>3, <1>4, <1>5, <1>6, ReadOn

LEMMA ConflictsRead ==
    ASSUME TableInv, val = [d \in Client |-> val[d]], NEW v \in Client, One(v),
           SelectConflicts(v)
    PROVE  One(v)' /\ Steady(v)
<1> DEFINE x == val[v]
           q == WithPairs(x.reads, Unresolved)
<1>1. /\ Shape(x) /\ ReadShape(x.reads) /\ x.phase = "conflicts" /\ UNCHANGED vars
      /\ RealReads(x.cand, x.reads)
  BY DEF One, Kept, SelectConflicts
<1>2. val'[v] = [x EXCEPT !.phase = "rows", !.reads.pairs = Unresolved]
  BY StepOf DEF SelectConflicts
<1>3. val'[v] = Moved(x, "rows", q)
  BY <1>1, <1>2 DEF Moved, Shape, WithPairs
<1>4. /\ ReadShape(q) /\ q.pairs = Unresolved /\ q.active = x.reads.active
      /\ q.target = x.reads.target /\ q.history = x.reads.history
      /\ q.relevant = x.reads.relevant
  BY <1>1, WithPairsFields
<1> HIDE DEF q
<1>5. RealReads(x.cand, q)
  BY <1>1, <1>4 DEF RealReads
<1>6. Applying(v) /\ x.alone => Fits("rows", x.cand, q)
  BY <1>1, <1>4 DEF Fits, One, UpToDate
<1> QED
  BY <1>1, <1>3, <1>4, <1>5, <1>6, ReadOn

\* The two memories of each open conflict, read one after the other or at once,
\* are the ones the tables hold if no writer came between.
LEMMA PairsRead ==
    ASSUME TableInv, IsFiniteSet(Stored), val = [d \in Client |-> val[d]],
           NEW v \in Client, One(v), _active_conflicts(v)
    PROVE  One(v)' /\ Steady(v)
<1> DEFINE x == val[v]
           cand == x.cand
           rows == {{<<i, memories[i]>> : i \in p} : p \in x.reads.pairs}
           mine == {p \in rows : \A m \in p : identity_for_record(m[2]) = Identity(cand)}
           q == WithPairs(x.reads, mine)
<1>1. /\ Shape(x) /\ ReadShape(x.reads) /\ x.phase = "rows" /\ UNCHANGED vars
      /\ RealReads(cand, x.reads) /\ cand \in Candidate
  BY DEF One, Kept, _active_conflicts
<1>2. IF cand.target = Nil THEN Conclude(v, q)
      ELSE Step(v, [x EXCEPT !.phase = "target", !.reads = q])
  BY DEF _active_conflicts, WithPairs
<1>3. x.reads.pairs = Unresolved => mine = PairsNow(cand)
  <2> SUFFICES ASSUME x.reads.pairs = Unresolved PROVE mine = PairsNow(cand)
    OBVIOUS
  <2>1. rows = {RowPair(p) : p \in Unresolved}
    BY DEF RowPair
  <2>2. ASSUME NEW p \in Unresolved
        PROVE  (\A m \in RowPair(p) : identity_for_record(m[2]) = Identity(cand))
               <=> \A i \in p : IsMine(cand, i)
    <3>1. \A i \in p : <<i, memories[i]>> \in RowPair(p)
      BY DEF RowPair
    <3>2. ASSUME NEW m \in RowPair(p) PROVE \E i \in p : m = <<i, memories[i]>>
      BY DEF RowPair
    <3>3. ASSUME \A m \in RowPair(p) : identity_for_record(m[2]) = Identity(cand),
                 NEW i \in p
          PROVE  IsMine(cand, i)
      <4>1. identity_for_record(<<i, memories[i]>>[2]) = Identity(cand)
        BY <3>1, <3>3
      <4> QED
        BY <4>1 DEF IsMine
    <3>4. ASSUME \A i \in p : IsMine(cand, i), NEW m \in RowPair(p)
          PROVE  identity_for_record(m[2]) = Identity(cand)
      <4>1. PICK i \in p : m = <<i, memories[i]>>
        BY <3>2
      <4> QED
        BY <3>4, <4>1 DEF IsMine
    <3> QED
      BY <3>3, <3>4
  <2> HIDE DEF rows
  <2>3. ASSUME NEW p \in mine PROVE p \in PairsNow(cand)
    <3>1. PICK u \in Unresolved : p = RowPair(u)
      BY <2>1
    <3>2. \A i \in u : IsMine(cand, i)
      BY <2>2, <3>1
    <3>3. u \in MineOpen(cand)
      BY <3>2 DEF MineOpen
    <3> QED
      BY <3>1, <3>3 DEF PairsNow
  <2>4. ASSUME NEW p \in PairsNow(cand) PROVE p \in mine
    <3>1. PICK u \in MineOpen(cand) : p = RowPair(u)
      BY DEF PairsNow
    <3>2. u \in Unresolved /\ \A i \in u : IsMine(cand, i)
      BY DEF MineOpen
    <3>3. RowPair(u) \in rows
      BY <2>1, <3>2
    <3> QED
      BY <2>2, <3>1, <3>2, <3>3
  <2> HIDE DEF mine
  <2> QED
    BY <2>3, <2>4
<1> HIDE DEF rows, mine
<1>4. /\ ReadShape(q) /\ q.pairs = mine /\ q.active = x.reads.active
      /\ q.target = x.reads.target /\ q.history = x.reads.history
      /\ q.relevant = x.reads.relevant
  BY <1>1, WithPairsFields
<1> HIDE DEF q
<1>5. RealReads(cand, q)
  BY <1>1, <1>4 DEF RealReads
<1>6. Applying(v) /\ x.alone => Fits("target", cand, q)
  BY <1>1, <1>3, <1>4 DEF Fits, One, UpToDate
<1>7. CASE cand.target = Nil
  <2>1. Applying(v) /\ x.alone => Consistent(cand, q) /\ q.relevant = {}
    BY <1>6, <1>7, NilAssumption DEF Fits, Consistent, TargetNow, TableInv, TypeInv, TypeOK
  <2> QED
    BY <1>1, <1>2, <1>4, <1>5, <1>7, <2>1, ConcludeKeeps
<1>8. CASE cand.target # Nil
  <2>1. val'[v] = Moved(x, "target", q)
    BY <1>2, <1>8, StepOf DEF Moved
  <2> QED
    BY <1>1, <1>4, <1>5, <1>6, <2>1, ReadOn
<1> QED
  BY <1>7, <1>8

LEMMA TargetRead ==
    ASSUME TableInv, IsFiniteSet(Stored), val = [d \in Client |-> val[d]],
           NEW v \in Client, One(v), ReadTarget(v)
    PROVE  One(v)' /\ Steady(v)
<1> DEFINE x == val[v]
           cand == x.cand
           t == cand.target
           r == x.reads
           root == RootOf(t)
           h == <<<<root, memories[root]>>>>
<1>1. /\ Shape(x) /\ ReadShape(r) /\ x.phase = "target" /\ UNCHANGED vars
      /\ RealReads(cand, r) /\ cand \in Candidate
  BY DEF One, Kept, ReadTarget
<1>2. IF t \notin Stored THEN Conclude(v, r)
      ELSE IF Active(t) THEN Conclude(v, [r EXCEPT !.target = memories[t]])
      ELSE Step(v, [x EXCEPT !.phase = "history", !.reads.target = memories[t],
                             !.reads.history = h])
  BY DEF ReadTarget
<1>3. Applying(v) /\ x.alone => Fits("target", cand, r)
  BY <1>1 DEF Fits, One, UpToDate
<1> HIDE DEF r, h
<1>4. CASE t \notin Stored
  <2>1. Applying(v) /\ x.alone => Consistent(cand, r) /\ r.relevant = {}
    BY <1>3, <1>4 DEF Fits, Consistent, TargetNow
  <2> QED
    BY <1>1, <1>2, <1>4, <2>1, ConcludeKeeps DEF r
<1>5. CASE t \in Stored /\ Active(t)
  <2> DEFINE q == WithTarget(r, memories[t])
  <2>1. /\ ReadShape(q) /\ q.target = memories[t] /\ q.active = r.active
        /\ q.pairs = r.pairs /\ q.history = r.history /\ q.relevant = r.relevant
    BY <1>1, WithTargetFields
  <2>2. Conclude(v, q)
    BY <1>2, <1>5 DEF WithTarget
  <2> HIDE DEF q
  <2>3. RealReads(cand, q)
    BY <1>1, <1>5, <2>1 DEF RealReads, SameMemory
  <2>4. Applying(v) /\ x.alone => Consistent(cand, q) /\ q.relevant = {}
    BY <1>3, <1>5, <2>1 DEF Fits, Consistent, TargetNow
  <2> QED
    BY <1>1, <2>1, <2>2, <2>3, <2>4, ConcludeKeeps
<1>6. CASE t \in Stored /\ ~Active(t)
  <2> DEFINE q == WithHistory(WithTarget(r, memories[t]), h)
  <2>1. /\ ReadShape(q) /\ q.target = memories[t] /\ q.active = r.active
        /\ q.pairs = r.pairs /\ q.history = h /\ q.relevant = r.relevant
    <3> DEFINE p == WithTarget(r, memories[t])
    <3>1. /\ ReadShape(p) /\ p.target = memories[t] /\ p.active = r.active
          /\ p.pairs = r.pairs /\ p.relevant = r.relevant
      BY <1>1, WithTargetFields
    <3> HIDE DEF p
    <3>2. LET w == WithHistory(p, h) IN
          /\ ReadShape(w) /\ w.target = memories[t] /\ w.active = r.active
          /\ w.pairs = r.pairs /\ w.history = h /\ w.relevant = r.relevant
      BY <3>1, WithHistoryFields
    <3> QED
      BY <3>2 DEF p
  <2>2. val'[v] = Moved(x, "history", q)
    <3>1. val'[v] = [x EXCEPT !.phase = "history", !.reads.target = memories[t],
                              !.reads.history = h]
      BY <1>2, <1>6, StepOf
    <3>2. val'[v] = [[[x EXCEPT !.phase = "history"] EXCEPT !.reads.target = memories[t]]
                        EXCEPT !.reads.history = h]
      BY <3>1
    <3> DEFINE e == [x EXCEPT !.phase = "history"]
               f == [e EXCEPT !.reads.target = memories[t]]
    <3>3. Shape(e) /\ e.reads = r
      BY <1>1, SetPhase DEF r
    <3> HIDE DEF e
    <3>4. f = [e EXCEPT !.reads = WithTarget(r, memories[t])]
      BY <3>3 DEF Shape, WithTarget
    <3>5. Shape(f) /\ f.reads = WithTarget(r, memories[t])
      <4> HIDE DEF f
      <4> QED
        BY <3>3, <3>4, SetReads
    <3>6. [f EXCEPT !.reads.history = h] = [f EXCEPT !.reads = q]
      <4> HIDE DEF f
      <4> QED
        BY <3>5 DEF Shape, WithHistory
    <3>7. [f EXCEPT !.reads = q] = [e EXCEPT !.reads = q]
      <4> HIDE DEF f, q
      <4> QED
        BY <3>3, <3>4 DEF Shape
    <3> QED
      BY <3>2, <3>6, <3>7 DEF Moved, e
  <2> HIDE DEF q
  <2>3. RealReads(cand, q)
    BY <1>1, <1>6, <2>1 DEF RealReads, SameMemory
  <2>4. Walked(t, h)
    <3>1. root = UpTo[t][1] /\ IsChain(UpTo[t], t)
      BY <1>6, LinearTables, RootOfChain, UpToIsChain
    <3> HIDE DEF root
    <3>2. root \in Stored /\ memories[root].supersedes = Nil
      <4>1. UpTo[t] \in Seq(Stored) /\ Len(UpTo[t]) \in Nat \ {0} /\ 1 \in 1..Len(UpTo[t])
        BY <3>1 DEF IsChain
      <4> QED
        BY <3>1, <4>1 DEF IsChain
    <3>3. IsChain(<<root>>, root) /\ <<root>>[1] = root
      BY <3>2, LinearTables, ChainOfRoot
    <3>4. h = RowsOf(<<root>>)
      BY DEF h, RowsOf
    <3> QED
      BY <3>1, <3>3, <3>4 DEF Walked
  <2>5. Applying(v) /\ x.alone => Fits("history", cand, q)
    BY <1>3, <1>6, <2>1, <2>4 DEF Fits
  <2> QED
    BY <1>1, <2>1, <2>2, <2>3, <2>5, ReadOn
<1> QED
  BY <1>4, <1>5, <1>6

LEMMA HistoryRead ==
    ASSUME TableInv, IsFiniteSet(Stored), val = [d \in Client |-> val[d]],
           NEW v \in Client, One(v), get_revision_history(v)
    PROVE  One(v)' /\ Steady(v)
<1> DEFINE x == val[v]
           cand == x.cand
           t == cand.target
           r == x.reads
           h == r.history
           next == {i \in Stored : memories[i].supersedes = Last(h)[1]}
<1>1. /\ Shape(x) /\ ReadShape(r) /\ x.phase = "history" /\ UNCHANGED vars
      /\ RealReads(cand, r) /\ cand \in Candidate
  BY DEF One, Kept, get_revision_history
<1>2. IF next = {} THEN Conclude(v, r)
      ELSE \E i \in next : Step(v, [x EXCEPT !.reads.history = Append(h, <<i, memories[i]>>)])
  BY DEF get_revision_history
<1>3. Applying(v) /\ x.alone => Fits("history", cand, r)
  BY <1>1 DEF Fits, One, UpToDate
<1>4. ASSUME NEW k, NEW w, IsChain(w, k), h = RowsOf(w)
      PROVE  /\ Last(h)[1] = k /\ k \in Stored
             /\ \A i \in next : /\ IsChain(Append(w, i), i)
                                /\ Append(w, i)[1] = w[1]
                                /\ RowsOf(Append(w, i)) = Append(h, <<i, memories[i]>>)
  <2>1. /\ w \in Seq(Stored) /\ Len(w) \in Nat \ {0} /\ w[Len(w)] = k
        /\ Len(w) \in 1..Len(w) /\ 1 \in 1..Len(w)
    BY <1>4 DEF IsChain
  <2>2. k \in Stored
    BY <2>1
  <2>3. /\ Len(RowsOf(w)) = Len(w) /\ RowsOf(w)[Len(w)] = <<k, memories[k]>>
        /\ RowsOf(w) \in Seq({<<i, memories[i]>> : i \in Stored})
    BY <2>1 DEF RowsOf
  <2>4. Last(h)[1] = k
    BY <1>4, <2>3 DEF Last
  <2>5. ASSUME NEW i \in next
        PROVE  /\ IsChain(Append(w, i), i) /\ Append(w, i)[1] = w[1]
               /\ RowsOf(Append(w, i)) = Append(h, <<i, memories[i]>>)
    <3>1. i \in Stored /\ memories[i].supersedes = k
      BY <2>4
    <3>2. IsChain(Append(w, i), i)
      BY <1>4, <2>2, <3>1, LinearTables, ChainGrows
    <3>3. /\ Len(Append(w, i)) = Len(w) + 1 /\ Append(w, i)[Len(w) + 1] = i
          /\ \A n \in 1..Len(w) : Append(w, i)[n] = w[n]
      BY <2>1, <3>1, AppendProperties
    <3>4. RowsOf(Append(w, i)) = Append(RowsOf(w), <<i, memories[i]>>)
      BY <2>1, <2>3, <3>1, <3>3 DEF RowsOf
    <3> QED
      BY <1>4, <2>1, <3>2, <3>3, <3>4
  <2> QED
    BY <2>2, <2>4, <2>5
<1> HIDE DEF r
<1>5. CASE next = {}
  <2>1. Applying(v) /\ x.alone => Consistent(cand, r) /\ r.relevant = {}
    <3> SUFFICES ASSUME Applying(v) /\ x.alone PROVE Consistent(cand, r) /\ r.relevant = {}
      OBVIOUS
    <3>1. PICK k, w, s : IsChain(w, k) /\ IsChain(s, t) /\ w[1] = s[1] /\ h = RowsOf(w)
      BY <1>3 DEF Fits, Walked
    <3>2. Last(h)[1] = k
      BY <1>4, <3>1
    <3>3. IsTip(k)
      BY <1>5, <3>2 DEF IsTip
    <3>4. \E n \in 1..Len(w) : w[n] = t
      BY <3>1, <3>3, LinearTables, WalkMeets
    <3>5. \E i, u : /\ IsChain(u, i) /\ IsTip(i) /\ \E n \in 1..Len(u) : u[n] = t
                    /\ h = RowsOf(u)
      BY <3>1, <3>3, <3>4
    <3> QED
      BY <1>3, <3>5 DEF Fits, Consistent, TargetNow
  <2> QED
    BY <1>1, <1>2, <1>5, <2>1, ConcludeKeeps DEF r
<1>6. CASE next # {}
  <2>1. PICK i \in next : Step(v, [x EXCEPT !.reads.history = Append(h, <<i, memories[i]>>)])
    BY <1>2, <1>6
  <2> DEFINE q == WithHistory(r, Append(h, <<i, memories[i]>>))
  <2>2. /\ ReadShape(q) /\ q.history = Append(h, <<i, memories[i]>>) /\ q.active = r.active
        /\ q.pairs = r.pairs /\ q.target = r.target /\ q.relevant = r.relevant
    BY <1>1, WithHistoryFields
  <2>3. val'[v] = [x EXCEPT !.reads.history = Append(h, <<i, memories[i]>>)]
    BY <2>1, StepOf
  <2>4. val'[v] = Moved(x, "history", q)
    BY <1>1, <2>3 DEF Moved, Shape, WithHistory, r
  <2> HIDE DEF q
  <2>5. RealReads(cand, q)
    BY <1>1, <2>2 DEF RealReads
  <2>6. Applying(v) /\ x.alone => Fits("history", cand, q)
    <3> SUFFICES ASSUME Applying(v) /\ x.alone PROVE Fits("history", cand, q)
      OBVIOUS
    <3>1. PICK k, w, s : IsChain(w, k) /\ IsChain(s, t) /\ w[1] = s[1] /\ h = RowsOf(w)
      BY <1>3 DEF Fits, Walked
    <3>2. /\ IsChain(Append(w, i), i) /\ Append(w, i)[1] = s[1]
          /\ q.history = RowsOf(Append(w, i))
      BY <1>4, <2>2, <3>1
    <3>3. Walked(t, q.history)
      BY <3>1, <3>2 DEF Walked
    <3> QED
      BY <1>3, <2>2, <3>3 DEF Fits
  <2> QED
    BY <1>1, <2>2, <2>4, <2>5, <2>6, ReadOn
<1> QED
  BY <1>5, <1>6

LEMMA DuplicateRequired ==
    ASSUME val = [d \in Client |-> val[d]], NEW v \in Client, One(v),
           _require_active_duplicate(v)
    PROVE  One(v)' /\ Steady(v)
<1> DEFINE x == val[v]
           cand == x.cand
           equal == {i \in x.reads.relevant : /\ Active(i)
                        /\ identity_for_record(memories[i]) = Identity(cand)
                        /\ memories[i].value = cand.value}
<1>1. /\ Shape(x) /\ x.phase = "duplicate" /\ x.mode = "apply" /\ UNCHANGED vars
  BY DEF One, Kept, _require_active_duplicate
<1>2. \/ equal = {} /\ Step(v, DoneWith(v, "PolicyInvariant"))
      \/ equal # {} /\ Step(v, DoneWith(v, "no_op"))
  BY DEF _require_active_duplicate, DoneWith, Done
<1>3. Applying(v) /\ x.alone => equal # {}
  BY <1>1 DEF One, UpToDate, IsMine
<1>4. Applying(v)
  BY <1>1 DEF Applying
<1> HIDE DEF equal
<1>5. PICK y : /\ val'[v] = DoneWith(v, y)
               /\ y = "PolicyInvariant" => ~x.alone
  BY <1>2, <1>3, <1>4, StepOf
<1>6. /\ Shape(val'[v]) /\ val'[v].phase = "idle" /\ val'[v].reads = NoReads
      /\ val'[v].mode = x.mode /\ val'[v].cand = x.cand
      /\ val'[v].decision = x.decision /\ val'[v].applied = x.applied
      /\ val'[v].alone = x.alone /\ val'[v].result = y
  BY <1>1, <1>5, DoneFields
<1>7. Steady(v)
  BY <1>6 DEF Steady, Applying
<1> QED
  BY <1>1, <1>5, <1>6, <1>7, RestOne

\* A candidate is proposed.
LEMMA EvaluateKeeps ==
    ASSUME val = [d \in Client |-> val[d]], NEW v \in Client, One(v),
           NEW cand \in Candidate, evaluate(v, cand)
    PROVE  One(v)' /\ Steady(v)
<1>1. val[v].phase = "idle" /\ UNCHANGED <<memories, conflicts, call>>
  BY DEF evaluate, vars
<1>2. val'[v] = [IdleValidator EXCEPT !.phase = "active", !.mode = "evaluate", !.cand = cand]
  BY StepOf DEF evaluate
<1>3. /\ Shape(val'[v]) /\ val'[v].phase = "active" /\ val'[v].mode = "evaluate"
      /\ val'[v].cand = cand /\ val'[v].decision = Nil /\ val'[v].reads = NoReads
      /\ val'[v].applied = 0
  BY <1>2 DEF IdleValidator, Shape
<1>4. Kept(v)'
  BY <1>3, NoReadsFields DEF Kept, Phases
<1>5. RealReads(val[v].cand, val[v].reads)'
  BY <1>3, NoReadsFields DEF RealReads
<1>6. Carries(v)'
  BY <1>1 DEF One, Carries
<1>7. Once(v)' /\ UpToDate(v)' /\ Untorn(v)' /\ Steady(v)
  BY <1>3 DEF Once, UpToDate, Untorn, Steady, Applying
<1> QED
  BY <1>3, <1>4, <1>5, <1>6, <1>7 DEF One

\* A decision is handed back to be applied.
LEMMA ApplyKeeps ==
    ASSUME val = [d \in Client |-> val[d]], NEW v \in Client, One(v),
           NEW alone \in BOOLEAN, apply(v, alone)
    PROVE  One(v)' /\ val'[v].alone = alone
<1> DEFINE x == val[v]
           p == [x EXCEPT !.phase = "active"]
           q == [p EXCEPT !.mode = "apply"]
           s == [q EXCEPT !.result = "none"]
<1>1. /\ x.phase = "idle" /\ x.decision # Nil /\ UNCHANGED <<memories, conflicts, call>>
      /\ Shape(x) /\ x.cand \in Candidate /\ x.reads = NoReads /\ x.applied \in {0, 1, 2}
  BY DEF apply, vars, One, Kept
<1>2. val'[v] = [s EXCEPT !.alone = alone]
  <2>1. val'[v] = [x EXCEPT !.phase = "active", !.mode = "apply", !.result = "none",
                            !.alone = alone]
    BY StepOf DEF apply
  <2> QED
    BY <2>1
<1>3. /\ Shape(p) /\ p.phase = "active" /\ p.cand = x.cand /\ p.decision = x.decision
      /\ p.reads = NoReads /\ p.applied = x.applied
  BY <1>1, SetPhase
<1> HIDE DEF p
<1>4. /\ Shape(q) /\ q.phase = "active" /\ q.cand = x.cand /\ q.decision = x.decision
      /\ q.reads = NoReads /\ q.applied = x.applied /\ q.mode = "apply"
  BY <1>3, SetMode
<1> HIDE DEF q
<1>5. /\ Shape(s) /\ s.phase = "active" /\ s.cand = x.cand /\ s.decision = x.decision
      /\ s.reads = NoReads /\ s.applied = x.applied /\ s.mode = "apply"
      /\ s.result = "none"
  BY <1>4, SetResult
<1> HIDE DEF s
<1>6. /\ Shape(val'[v]) /\ val'[v].phase = "active" /\ val'[v].cand = x.cand
      /\ val'[v].decision = x.decision /\ val'[v].reads = NoReads
      /\ val'[v].applied = x.applied /\ val'[v].mode = "apply"
      /\ val'[v].result = "none" /\ val'[v].alone = alone
  BY <1>2, <1>5, SetAlone
<1>7. Kept(v)'
  BY <1>1, <1>6, NoReadsFields DEF Kept, Phases
<1>8. RealReads(val[v].cand, val[v].reads)'
  BY <1>6, NoReadsFields DEF RealReads
<1>9. Carries(v)' /\ Once(v)'
  BY <1>1, <1>6 DEF One, Carries, Once, Stored
<1>10. UpToDate(v)'
  BY <1>6 DEF UpToDate
<1>11. Untorn(v)'
  BY <1>6 DEF Untorn
<1> QED
  BY <1>6, <1>7, <1>8, <1>9, <1>10, <1>11 DEF One

--------------------------------------------------------------------------------
(* The writes of a validator, and those of the environment. *)

\* The Memory OS was called with the candidate's write, or refused it.
LEMMA WriteKeeps ==
    ASSUME val = [d \in Client |-> val[d]], NEW v \in Client, One(v),
           val[v].phase = "write", Step(v, [val[v] EXCEPT !.phase = "writing"]),
           UNCHANGED <<memories, conflicts>>, call'[v].phase # "ok",
           call'[v].phase = "store" =>
              /\ val[v].cand.target = Nil => call'[v].op = "add"
              /\ val[v].cand.target # Nil =>
                    call'[v].op = "correct" /\ call'[v].target = val[v].cand.target
    PROVE  One(v)' /\ Steady(v)
<1> DEFINE x == val[v]
<1>1. val'[v] = [x EXCEPT !.phase = "writing"]
  BY StepOf
<1>2. /\ Shape(val'[v]) /\ val'[v].phase = "writing" /\ val'[v].mode = x.mode
      /\ val'[v].cand = x.cand /\ val'[v].decision = x.decision
      /\ val'[v].reads = x.reads /\ val'[v].result = x.result
      /\ val'[v].applied = x.applied /\ val'[v].alone = x.alone
  BY <1>1, SetPhase DEF One, Kept
<1>3. Kept(v)'
  BY <1>2 DEF One, Kept, Phases
<1>4. RealReads(val[v].cand, val[v].reads)'
  BY <1>2 DEF One, RealReads, SameMemory, Stored
<1>5. Carries(v)'
  BY <1>2 DEF Carries
<1>6. Once(v)' /\ Untorn(v)' /\ Steady(v)
  BY <1>2 DEF One, Once, Untorn, Steady, Applying, Stored
<1>7. val[v].cand.target # Nil => Corrects(val[v].cand)'
  BY <1>2 DEF One, Corrects, Stored
<1>8. Brief(val[v].cand)' = Brief(x.cand)
  BY <1>2, NowStays
<1>9. Applying(v)' /\ val'[v].alone =>
        (val[v].decision = _decision(val[v].cand, Brief(val[v].cand)))'
  <2>1. Applying(v)' /\ val'[v].alone => Applying(v) /\ x.alone
    BY <1>2 DEF Applying
  <2>2. Applying(v) /\ x.alone => x.decision = _decision(x.cand, Brief(x.cand))
    BY DEF One, UpToDate
  <2> QED
    BY <1>2, <1>8, <2>1, <2>2
<1>10. UpToDate(v)'
  BY <1>2, <1>9 DEF UpToDate
<1> QED
  BY <1>2, <1>3, <1>4, <1>5, <1>6, <1>7, <1>10 DEF One

LEMMA CreateKeeps ==
    ASSUME TypeOK, val = [d \in Client |-> val[d]], NEW v \in Client, One(v),
           CreateApplied(v)
    PROVE  One(v)' /\ Steady(v) /\ [Next]_vars
           /\ \A d \in Client \ {v} : call'[d] = call[d]
<1>1. PICK i \in MemoryId : create_memory(v, i, Identity(val[v].cand), val[v].cand.value)
  BY DEF CreateApplied
<1>2. /\ val[v].phase = "write" /\ val[v].cand.target = Nil
      /\ Step(v, [val[v] EXCEPT !.phase = "writing"]) /\ val[v].cand \in Candidate
  BY DEF CreateApplied, One, Kept
<1> DEFINE o == [phase |-> "store", op |-> "add", id |-> i, key |-> Identity(val[v].cand),
                 value |-> val[v].cand.value, at |-> clock, target |-> Nil]
<1>3. /\ call' = [call EXCEPT ![v] = o] /\ UNCHANGED <<memories, conflicts, clock>>
  BY <1>1 DEF create_memory, Enter
<1>4. /\ call'[v] = o /\ \A d \in Client \ {v} : call'[d] = call[d]
  <2> HIDE DEF o
  <2> QED
    BY <1>3 DEF TypeOK
<1>5. Identity(val[v].cand) \in Key /\ val[v].cand.value \in Value
  BY <1>2, NormAssumption DEF Candidate, Identity
<1>6. [Next]_vars
  BY <1>1, <1>5 DEF Next, Calls
<1>7. One(v)' /\ Steady(v)
  BY <1>2, <1>3, <1>4, WriteKeeps
<1> QED
  BY <1>4, <1>6, <1>7

LEMMA CorrectKeeps ==
    ASSUME TypeOK, val = [d \in Client |-> val[d]], NEW v \in Client, One(v),
           CorrectApplied(v)
    PROVE  One(v)' /\ Steady(v) /\ [Next]_vars
           /\ \A d \in Client \ {v} : call'[d] = call[d]
<1> DEFINE cand == val[v].cand
           t == cand.target
<1>1. PICK i \in MemoryId : correct_memory(v, t, i, cand.value, cand.prov)
  BY DEF CorrectApplied
<1>2. /\ val[v].phase = "write" /\ t # Nil
      /\ Step(v, [val[v] EXCEPT !.phase = "writing"]) /\ cand \in Candidate
  BY DEF CorrectApplied, One, Kept
<1> DEFINE refusal == CorrectRefusal(i, t, cand.prov)
           o == IF refusal = "ok"
                THEN [phase |-> "store", op |-> "correct", id |-> i,
                      key |-> memories[t].key, value |-> cand.value, at |-> clock,
                      target |-> t]
                ELSE [NoCall EXCEPT !.phase = refusal]
<1>3. /\ call' = [call EXCEPT ![v] = o] /\ UNCHANGED <<memories, conflicts, clock>>
  BY <1>1 DEF correct_memory, Enter
<1>4. /\ call'[v] = o /\ \A d \in Client \ {v} : call'[d] = call[d]
  <2> HIDE DEF o
  <2> QED
    BY <1>3 DEF TypeOK
<1>5. refusal \in Failure \cup {"ok"}
  BY RefusalType
<1>6. call'[v].phase # "ok" /\
      (call'[v].phase = "store" => call'[v].op = "correct" /\ call'[v].target = t)
  <2>1. CASE refusal = "ok"
    BY <1>4, <2>1
  <2>2. CASE refusal # "ok"
    <3>1. call'[v].phase = refusal
      BY <1>4, <2>2 DEF NoCall
    <3> QED
      BY <1>5, <2>2, <3>1 DEF Failure
  <2> QED
    BY <2>1, <2>2
<1>7. t \in MemoryId /\ cand.value \in Value /\ cand.prov \in Provenance
  BY <1>2 DEF Candidate
<1>8. [Next]_vars
  BY <1>1, <1>7 DEF Next, Calls
<1>9. One(v)' /\ Steady(v)
  BY <1>2, <1>3, <1>6, WriteKeeps
<1> QED
  BY <1>4, <1>8, <1>9

\* The call is over.  A correction that returned has ended its target.
LEMMA AppliedKeeps ==
    ASSUME TableInv, val = [d \in Client |-> val[d]], NEW v \in Client, One(v), Applied(v)
    PROVE  One(v)' /\ Steady(v) /\ Quiet /\ TypeInv'
           /\ \A d \in Client \ {v} : call'[d] = call[d]
<1> DEFINE x == val[v]
           t == x.cand.target
           n == IF x.applied < 2 THEN x.applied + 1 ELSE x.applied
<1>1. /\ x.phase = "writing" /\ call[v].phase # "store" /\ Enter(v, NoCall)
      /\ UNCHANGED <<memories, conflicts, clock>> /\ Shape(x) /\ x.reads = NoReads
      /\ x.applied \in {0, 1, 2} /\ x.mode = "apply" /\ x.cand \in Candidate
  BY DEF Applied, One, Kept
<1>2. Quiet /\ TypeInv'
  <2>1. NoCall \in Call /\ NoCall.phase = "idle"
    BY TimeAssumption DEF NoCall, Call, Time
  <2> QED
    BY <1>1, <2>1, EnterQuiet DEF TableInv
<1>3. call'[v].phase = "idle" /\ \A d \in Client \ {v} : call'[d] = call[d]
  BY <1>1 DEF Enter, NoCall, TableInv, TypeInv, TypeOK
<1>4. ASSUME Shape(val'[v]), val'[v].phase = "idle", val'[v].mode = "apply",
             val'[v].cand = x.cand, val'[v].decision = x.decision, val'[v].reads = NoReads,
             val'[v].result # "PolicyInvariant",
             val'[v].applied \in {0, 1, 2}, val'[v].alone = x.alone,
             Once(v)'
      PROVE  One(v)' /\ Steady(v)
  <2>1. Kept(v)'
    BY <1>1, <1>4, NoReadsFields DEF Kept, Phases
  <2>2. RealReads(val[v].cand, val[v].reads)'
    BY <1>4, NoReadsFields DEF RealReads
  <2>3. Carries(v)'
    BY <1>3 DEF Carries
  <2>4. UpToDate(v)' /\ Untorn(v)' /\ Steady(v)
    BY <1>4 DEF UpToDate, Untorn, Steady, Applying
  <2> QED
    BY <1>4, <2>1, <2>2, <2>3, <2>4 DEF One
<1>5. ASSUME call[v].phase = "ok" PROVE One(v)' /\ Steady(v)
  <2> DEFINE p == [x EXCEPT !.phase = "idle"]
             q == [p EXCEPT !.result = "applied"]
  <2>1. val'[v] = [q EXCEPT !.applied = n]
    <3>1. val'[v] = [x EXCEPT !.phase = "idle", !.result = "applied", !.applied = n]
      BY <1>5, StepOf DEF Applied
    <3> HIDE DEF n
    <3> QED
      BY <3>1
  <2>2. /\ Shape(p) /\ p.phase = "idle" /\ p.mode = x.mode /\ p.cand = x.cand
        /\ p.decision = x.decision /\ p.reads = x.reads /\ p.applied = x.applied
        /\ p.alone = x.alone
    BY <1>1, SetPhase
  <2> HIDE DEF p
  <2>3. /\ Shape(q) /\ q.phase = "idle" /\ q.mode = x.mode /\ q.cand = x.cand
        /\ q.decision = x.decision /\ q.reads = x.reads /\ q.alone = x.alone
        /\ q.result = "applied"
    BY <2>2, SetResult
  <2> HIDE DEF q, n
  <2>4. /\ Shape(val'[v]) /\ val'[v].phase = "idle" /\ val'[v].mode = x.mode
        /\ val'[v].cand = x.cand /\ val'[v].decision = x.decision
        /\ val'[v].reads = x.reads /\ val'[v].alone = x.alone
        /\ val'[v].result = "applied" /\ val'[v].applied = n
    BY <2>1, <2>3, SetApplied
  <2>5. n \in {0, 1, 2} /\ (n = 2 => x.applied # 0)
    BY <1>1 DEF n
  <2>6. Once(v)'
    <3> SUFFICES ASSUME x.decision # Nil, Types[x.decision.reason] = "APPLY_CORRECTION"
                 PROVE  t # Nil /\ n # 2 /\ t \in DOMAIN memories'
                        /\ memories'[t].status # "active"
      BY <1>3, <2>4 DEF Once, Stored
    <3>1. t # Nil /\ x.applied # 2 /\ x.applied # 1
      BY <1>5 DEF One, Once
    <3>2. call[v].op = "correct" /\ call[v].target = t
      BY <1>5, <3>1 DEF One, Carries
    <3>3. call[v].id \in Stored /\ memories[call[v].id].supersedes = t
      BY <1>5, <3>2 DEF TableInv, ToldIsStored
    <3>4. t \in Stored /\ memories[t].status = "superseded"
      BY <3>1, <3>3 DEF TableInv, RevisionChains
    <3> QED
      BY <1>1, <2>5, <3>1, <3>4 DEF Stored
  <2> QED
    BY <1>1, <1>4, <2>4, <2>5, <2>6
<1>6. ASSUME call[v].phase # "ok" PROVE One(v)' /\ Steady(v)
  <2> DEFINE p == [x EXCEPT !.phase = "idle"]
  <2>1. val'[v] = [p EXCEPT !.result = "StoreError"]
    <3>1. val'[v] = [x EXCEPT !.phase = "idle", !.result = "StoreError"]
      BY <1>6, StepOf DEF Applied
    <3> QED
      BY <3>1
  <2>2. /\ Shape(p) /\ p.phase = "idle" /\ p.mode = x.mode /\ p.cand = x.cand
        /\ p.decision = x.decision /\ p.reads = x.reads /\ p.applied = x.applied
        /\ p.alone = x.alone
    BY <1>1, SetPhase
  <2> HIDE DEF p
  <2>3. /\ Shape(val'[v]) /\ val'[v].phase = "idle" /\ val'[v].mode = x.mode
        /\ val'[v].cand = x.cand /\ val'[v].decision = x.decision
        /\ val'[v].reads = x.reads /\ val'[v].alone = x.alone
        /\ val'[v].result = "StoreError" /\ val'[v].applied = x.applied
    BY <2>1, <2>2, SetResult
  <2>4. Once(v)'
    BY <1>1, <1>3, <2>3 DEF One, Once, Stored
  <2> QED
    BY <1>1, <1>4, <2>3, <2>4
<1> QED
  BY <1>2, <1>3, <1>5, <1>6

\* A call that failed, beside tables that stay.
LEMMA OneFailed ==
    ASSUME NEW d \in Client, One(d), val'[d] = val[d],
           call'[d].phase \notin {"store", "ok"}, UNCHANGED <<memories, conflicts>>
    PROVE  One(d)'
<1>1. Kept(d)' /\ Carries(d)' /\ Untorn(d)'
  BY DEF One, Kept, Carries, Untorn
<1>2. RealReads(val[d].cand, val[d].reads)' /\ Once(d)'
  BY DEF One, RealReads, SameMemory, Once, Stored
<1>3. Corrects(val[d].cand)' <=> Corrects(val[d].cand)
  BY DEF Corrects, Stored
<1>4. UpToDate(d)'
  BY NowStays DEF One, UpToDate, Applying, Active, IsMine, Unresolved, Stored
<1> QED
  BY <1>1, <1>2, <1>3, <1>4 DEF One

\* A write to the tables, beside a validator that applies nothing alone.
LEMMA OneMoves ==
    ASSUME TypeInv, NEW o \in Call, Changed(o), NEW d \in Client, One(d),
           val'[d] = val[d], UpToDate(d)', Carries(d)',
           call'[d].phase = "ok" /\ call[d].phase # "ok" =>
              (val[d].cand.target # Nil =>
                  o.op = "correct" /\ o.target = val[d].cand.target)
    PROVE  One(d)'
<1> DEFINE x == val[d]
           t == x.cand.target
<1>1. \A i \in Stored : /\ i \in DOMAIN memories'
                        /\ memories'[i].key = memories[i].key
                        /\ memories'[i].value = memories[i].value
                        /\ memories[i].status # "active" => memories'[i] = memories[i]
  BY RowsAfter
<1>2. Kept(d)' /\ Untorn(d)'
  BY DEF One, Kept, Untorn
<1>3. RealReads(val[d].cand, val[d].reads)'
  BY <1>1 DEF One, RealReads, SameMemory, Stored
<1>4. Corrects(val[d].cand) => Corrects(val[d].cand)'
  BY <1>1 DEF Corrects, Stored
<1>5. Once(d)'
  <2> SUFFICES ASSUME x.decision # Nil, Types[x.decision.reason] = "APPLY_CORRECTION"
               PROVE  /\ t # Nil /\ x.applied # 2
                      /\ x.applied = 1 => /\ t \in DOMAIN memories'
                                          /\ memories'[t].status # "active"
                                          /\ call'[d].phase # "ok"
    BY DEF Once, Stored
  <2>1. /\ t # Nil /\ x.applied # 2
        /\ x.applied = 1 => /\ t \in Stored /\ memories[t].status # "active"
                            /\ call[d].phase # "ok"
    BY DEF One, Once
  <2>2. ASSUME x.applied = 1 PROVE call'[d].phase # "ok"
    <3> SUFFICES ASSUME call'[d].phase = "ok" PROVE FALSE
      OBVIOUS
    <3>1. o.op = "correct" /\ o.target = t
      BY <2>1, <2>2
    <3> QED
      BY <2>1, <2>2, <3>1, TargetEnded
  <2> QED
    BY <1>1, <2>1, <2>2
<1> QED
  BY <1>2, <1>3, <1>4, <1>5 DEF One

\* A transaction that leaves the tables and returns nothing raises.
LEMMA StoreOutcome ==
    ASSUME TypeInv, NEW v \in Client, StoreAdd(v) \/ StoreCorrect(v), Quiet
    PROVE  \E r \in Failure : Exit(v, r)
<1> DEFINE o == call[v]
<1>1. call[v].phase = "store" /\ o \in Call
  BY DEF StoreAdd, StoreCorrect, TypeInv, TypeOK
<1>2. ~Exit(v, "ok")
  <2> SUFFICES ASSUME Exit(v, "ok") PROVE FALSE
    OBVIOUS
  <2>1. call'[v].phase = "ok"
    BY ExitType DEF TypeInv
  <2>2. call'[v] = call[v]
    BY <2>1 DEF Quiet
  <2> QED
    BY <1>1, <2>1, <2>2
<1>3. CASE StoreAdd(v)
  <2>1. Exit(v, "PersistenceConflict")
    BY <1>2, <1>3 DEF StoreAdd
  <2> QED
    BY <2>1 DEF Failure
<1>4. CASE StoreCorrect(v)
  <2>1. Exit(v, CorrectCheck(o)) /\ CorrectCheck(o) \in Failure \cup {"ok"}
    BY <1>1, <1>4, CheckTypes DEF StoreCorrect, TypeInv
  <2> QED
    BY <1>2, <2>1
<1> QED
  BY <1>3, <1>4

\* A transaction of v's call.
LEMMA TransactionKeeps ==
    ASSUME VInv, NEW v \in Client, StoreSteps(v) \/ TransactionFails(v), UNCHANGED val
    PROVE  VInv'
<1>1. [Next]_vars
  BY DEF StoreSteps, Next
<1>2. TableInv' /\ IsFiniteSet(Stored)'
  BY <1>1, StepTables, StoreStaysFinite DEF VInv, TableInv
<1>3. TypeInv /\ call[v].phase = "store" /\ \A d \in Client : One(d)
  BY DEF VInv, TableInv, StoreSteps, StoreAdd, StoreCorrect, TransactionFails
<1>4. \/ Quiet /\ \E r \in Failure : Exit(v, r)
      \/ Commits(v)
  <2>1. CASE StoreAdd(v)
    <3>1. Quiet \/ Commits(v)
      BY <1>3, <2>1, AddCommits
    <3> QED
      BY <1>3, <2>1, <3>1, StoreOutcome
  <2>2. CASE StoreCorrect(v)
    <3>1. Quiet \/ Commits(v)
      BY <1>3, <2>2, CorrectCommits
    <3> QED
      BY <1>3, <2>2, <3>1, StoreOutcome
  <2>3. CASE TransactionFails(v)
    <3>1. "MemoryPersistence" \in Failure
      BY DEF Failure
    <3> QED
      BY <1>3, <2>3, <3>1, FailureQuiet DEF TransactionFails
  <2> QED
    BY <2>1, <2>2, <2>3 DEF StoreSteps
<1>5. ASSUME NEW r \in Failure, Exit(v, r), Quiet, NEW d \in Client PROVE One(d)'
  <2>1. /\ call'[v].phase = r /\ \A e \in Client \ {v} : call'[e] = call[e]
    BY <1>3, <1>5, ExitType DEF TypeInv
  <2>2. r \notin {"store", "ok"}
    BY DEF Failure
  <2>3. UNCHANGED <<memories, conflicts>>
    BY <1>5 DEF Quiet
  <2>4. CASE d = v
    BY <1>3, <2>1, <2>2, <2>3, <2>4, OneFailed
  <2>5. CASE d # v
    BY <1>3, <2>1, <2>3, <2>5, OneStays
  <2> QED
    BY <2>4, <2>5
<1>6. ASSUME Commits(v), NEW d \in Client PROVE One(d)'
  <2> DEFINE o == call[v]
  <2>1. o \in Call /\ Changed(o)
    BY <1>3, <1>6, CommitChanges
  <2>2. /\ call'[v] = [o EXCEPT !.phase = "ok"]
        /\ \A e \in Client \ {v} : call'[e] = call[e]
    BY <1>6 DEF Commits, Returned
  <2>3. call'[v].phase = "ok" /\ call'[v].op = o.op /\ call'[v].target = o.target
    BY <2>1, <2>2 DEF Call
  <2>4. /\ val[v].phase = "writing" /\ val[v].mode = "apply"
        /\ val[v].cand.target = Nil => o.op = "add"
        /\ val[v].cand.target # Nil => o.op = "correct" /\ o.target = val[v].cand.target
    BY <1>3 DEF One, Kept, Carries
  <2> HIDE DEF o
  <2>5. Carries(d)'
    <3>1. CASE d = v
      BY <2>3, <2>4, <3>1 DEF Carries
    <3>2. CASE d # v
      <4>1. call'[d] = call[d] /\ Carries(d)
        BY <1>3, <2>2, <3>2 DEF One
      <4> QED
        BY <4>1 DEF Carries
    <3> QED
      BY <3>1, <3>2
  <2>6. UpToDate(d)'
    <3>1. CASE d = v
      BY <2>3, <2>4, <3>1 DEF UpToDate
    <3>2. CASE d # v
      <4>1. Applying(v)
        BY <2>4 DEF Applying
      <4>2. ~(Applying(d) /\ val[d].alone)
        BY <3>2, <4>1 DEF VInv, Exclusive
      <4> QED
        BY <4>2 DEF UpToDate, Applying
    <3> QED
      BY <3>1, <3>2
  <2> QED
    BY <1>3, <2>1, <2>2, <2>4, <2>5, <2>6, OneMoves
<1>7. \A d \in Client : One(d)'
  BY <1>4, <1>5, <1>6
<1>8. Exclusive' /\ (val = [d \in Client |-> val[d]])'
  BY DEF VInv, Exclusive, Applying
<1> QED
  BY <1>2, <1>7, <1>8 DEF VInv

\* What the environment writes is an add, a correction or a retraction like the
\* clients'.
LEMMA OthersChange ==
    ASSUME TypeInv, OthersWrite
    PROVE  \E o \in Call : Changed(o) /\ TablesTyped'
<1>0. NoCall \in Call /\ NoCall.target = Nil
  BY TimeAssumption DEF NoCall, Call, Time
<1>1. CASE OthersAdd
  <2>1. PICK i \in MemoryId \ Stored : \E k \in Key, w \in Value :
            LET o  == [NoCall EXCEPT !.id = i, !.key = k, !.value = w, !.at = clock]
                ms == _insert_memory(memories, i, NewRow(o))
            IN  /\ memories' = ms
                /\ conflicts' = WithConflictsOf(conflicts, ms, i, clock)
    BY <1>1 DEF OthersAdd
  <2>2. PICK k \in Key, w \in Value :
            LET o  == [NoCall EXCEPT !.id = i, !.key = k, !.value = w, !.at = clock]
                ms == _insert_memory(memories, i, NewRow(o))
            IN  /\ memories' = ms
                /\ conflicts' = WithConflictsOf(conflicts, ms, i, clock)
    BY <2>1
  <2> DEFINE o == [NoCall EXCEPT !.id = i, !.key = k, !.value = w, !.at = clock]
             z == [o EXCEPT !.op = "add"]
  <2>3. /\ z \in Call /\ z.op = "add" /\ z.id = i /\ z.key = k /\ z.value = w
        /\ z.at = clock /\ z.target = Nil
    BY <1>0 DEF Call, TypeInv, TypeOK
  <2>4. NewRow(o) = NewRow(z)
    BY <1>0 DEF NewRow, Call
  <2> HIDE DEF z, o
  <2>5. memories' = _insert_memory(memories, z.id, NewRow(z))
    BY <2>2, <2>3, <2>4 DEF o
  <2>6. conflicts' = WithConflictsOf(conflicts, memories', z.id, z.at)
    BY <2>2, <2>3 DEF o
  <2> QED
    BY <2>3, <2>5, <2>6, AddWrites
<1>2. CASE OthersCorrect
  <2>1. PICK t \in MemoryId, i \in MemoryId, w \in Value :
            /\ Active(t)
            /\ LET o == [NoCall EXCEPT !.id = i, !.key = memories[t].key, !.value = w,
                                       !.at = clock, !.target = t]
               IN  /\ CorrectCheck(o) = "ok"
                   /\ memories' = Corrected(o) /\ conflicts' = CorrectedConflicts(o)
    BY <1>2 DEF OthersCorrect
  <2> DEFINE k == memories[t].key
             o == [NoCall EXCEPT !.id = i, !.key = k, !.value = w, !.at = clock,
                                 !.target = t]
             z == [o EXCEPT !.op = "correct"]
  <2>2. k \in Key
    BY <2>1 DEF Active, TypeInv, TypeOK, Row
  <2>3. /\ CorrectCheck(o) = "ok"
        /\ memories' = Corrected(o) /\ conflicts' = CorrectedConflicts(o)
    BY <2>1
  <2> HIDE DEF k
  <2>4. /\ z \in Call /\ z.op = "correct" /\ z.id = i /\ z.key = k /\ z.value = w
        /\ z.at = clock /\ z.target = t
        /\ o.id = i /\ o.key = k /\ o.value = w /\ o.at = clock /\ o.target = t
    BY <1>0, <2>2 DEF Call, TypeInv, TypeOK
  <2> HIDE DEF z, o
  <2>5. NewRow(o) = NewRow(z)
    BY <2>4 DEF NewRow
  <2>6. CorrectCheck(z) = "ok"
    BY <2>3, <2>4 DEF CorrectCheck
  <2>7. Corrected(o) = Corrected(z)
    BY <2>4, <2>5 DEF Corrected
  <2>8. CorrectedConflicts(o) = CorrectedConflicts(z)
    BY <2>4, <2>7 DEF CorrectedConflicts
  <2> QED
    BY <2>3, <2>4, <2>6, <2>7, <2>8, CorrectWrites
<1>3. CASE OthersRetract
  <2>1. PICK t \in MemoryId :
            /\ RetractCheck([NoCall EXCEPT !.target = t, !.at = clock]) = "ok"
            /\ memories' = SetStatus(memories, t, "retracted", clock)
            /\ conflicts' = _resolve_conflicts(conflicts, t, clock, Nil)
    BY <1>3 DEF OthersRetract
  <2> DEFINE o == [NoCall EXCEPT !.target = t, !.at = clock]
             z == [o EXCEPT !.op = "retract"]
  <2>2. /\ z \in Call /\ z.op = "retract" /\ z.target = t /\ z.at = clock
        /\ o.target = t /\ o.at = clock
    BY <1>0 DEF Call, TypeInv, TypeOK
  <2>3. RetractCheck(o) = "ok"
    BY <2>1
  <2> HIDE DEF z, o
  <2>4. RetractCheck(z) = "ok"
    BY <2>2, <2>3 DEF RetractCheck
  <2> QED
    BY <2>1, <2>2, <2>4, RetractWrites
<1> QED
  BY <1>1, <1>2, <1>3 DEF OthersWrite

LEMMA OthersKeep ==
    ASSUME VInv, OthersWrite
    PROVE  VInv'
<1>1. /\ UNCHANGED <<clock, call, val>> /\ MayWrite(Client)
      /\ TypeInv /\ TableInv /\ \A d \in Client : One(d)
  BY DEF OthersWrite, VInv, TableInv
<1>2. PICK o \in Call : Changed(o) /\ TablesTyped'
  BY <1>1, OthersChange
<1>3. TypeInv'
  BY <1>1, <1>2 DEF TypeInv, TypeOK, CallsWellFormed, TablesTyped, Stored
<1>4. ToldIsStored'
  <2>1. \A j \in Stored :
           /\ j \in DOMAIN memories'
           /\ memories'[j].key = memories[j].key
           /\ memories'[j].value = memories[j].value
           /\ memories'[j].supersedes = memories[j].supersedes
           /\ memories[j].status # "active" => memories'[j] = memories[j]
    BY <1>1, <1>2, RowsAfter
  <2>2. ToldIsStored
    BY <1>1 DEF TableInv
  <2> SUFFICES ASSUME NEW c \in Client, call[c].phase = "ok"
               PROVE  LET q == call[c] IN
                      /\ q.op \in {"add", "correct"} =>
                           /\ q.id \in DOMAIN memories'
                           /\ memories'[q.id].key = q.key
                           /\ memories'[q.id].value = q.value
                           /\ memories'[q.id].supersedes = q.target
                      /\ q.op = "retract" =>
                           /\ q.target \in DOMAIN memories'
                           /\ memories'[q.target].status = "retracted"
                           /\ memories'[q.target].status_changed_at = q.at
                      /\ \A d \in Client \ {c} :
                           call[d].phase = "ok" /\ call[d].op # "add" /\ q.op # "add"
                             => call[d].target # q.target
    BY <1>1 DEF ToldIsStored, Stored
  <2> QED
    BY <2>1, <2>2 DEF ToldIsStored
<1>5. TableInv'
  BY <1>1, <1>2, <1>3, <1>4, RevisionChainsStep, AcyclicStep, ReadableStep,
     ResolutionsStep, ConflictsExactStep DEF TableInv
<1>6. IsFiniteSet(DOMAIN memories')
  <2>1. DOMAIN memories' \subseteq Stored \cup {o.id}
    BY <1>1, <1>2, RowsAfter
  <2> QED
    BY <2>1, FS_AddElement, FS_Subset DEF VInv
<1>7. ASSUME NEW d \in Client PROVE One(d)'
  <2>1. val'[d] = val[d] /\ call'[d] = call[d] /\ ~(Applying(d) /\ val[d].alone)
    BY <1>1 DEF MayWrite
  <2>2. Carries(d)'
    BY <1>1, <2>1 DEF One, Carries
  <2>3. UpToDate(d)'
    BY <2>1 DEF UpToDate, Applying
  <2> QED
    BY <1>1, <1>2, <2>1, <2>2, <2>3, OneMoves
<1>8. Exclusive' /\ (val = [d \in Client |-> val[d]])'
  BY <1>1 DEF VInv, Exclusive, Applying
<1> QED
  BY <1>5, <1>6, <1>7, <1>8 DEF VInv, Stored

--------------------------------------------------------------------------------
(* The steps of the composed system. *)

LEMMA InitValidators == VInit => VInv
<1> SUFFICES ASSUME VInit PROVE VInv
  OBVIOUS
<1>1. /\ TableInv /\ Stored = {} /\ call = [c \in Client |-> NoCall]
      /\ val = [v \in Client |-> IdleValidator]
  BY InitTables DEF VInit, Init, Stored
<1>2. IsFiniteSet(Stored)
  BY <1>1, FS_EmptySet
<1>3. ASSUME NEW v \in Client PROVE One(v)
  <2>1. val[v] = IdleValidator /\ call[v].phase = "idle"
    BY <1>1 DEF NoCall
  <2>2. /\ Shape(val[v]) /\ val[v].phase = "idle" /\ val[v].mode = "none"
        /\ val[v].decision = Nil /\ val[v].reads = NoReads /\ val[v].applied = 0
    BY <2>1 DEF IdleValidator, Shape
  <2>3. Kept(v)
    BY <2>2, NoReadsFields DEF Kept, Phases
  <2>4. RealReads(val[v].cand, val[v].reads)
    BY <2>2, NoReadsFields
  <2>5. Carries(v) /\ Once(v) /\ UpToDate(v) /\ Untorn(v)
    BY <2>1, <2>2 DEF Carries, Once, UpToDate, Untorn, Applying
  <2> QED
    BY <2>2, <2>3, <2>4, <2>5 DEF One
<1>4. Exclusive
  <2>1. \A v \in Client : val[v].phase = "idle"
    BY <1>1 DEF IdleValidator
  <2> QED
    BY <2>1 DEF Exclusive, Applying
<1> QED
  BY <1>1, <1>2, <1>3, <1>4 DEF VInv

\* A step of one validator, beside tables and validators that stay.
LEMMA OneStep ==
    ASSUME VInv, NEW v \in Client, One(v)', Steady(v), NEW x, Step(v, x),
           TableInv', UNCHANGED <<memories, conflicts>>,
           \A d \in Client \ {v} : call'[d] = call[d]
    PROVE  VInv'
<1>1. /\ \A d \in Client \ {v} : val'[d] = val[d]
      /\ val' = [d \in Client |-> val'[d]]
  BY StepOf DEF VInv
<1>2. ASSUME NEW d \in Client PROVE One(d)'
  <2>1. CASE d # v
    <3>1. One(d) /\ val'[d] = val[d] /\ call'[d] = call[d]
      BY <1>1, <2>1 DEF VInv
    <3> QED
      BY <3>1, OneStays
  <2> QED
    BY <2>1
<1>3. IsFiniteSet(Stored)'
  BY DEF VInv, Stored
<1>4. Exclusive'
  <2>1. ASSUME NEW d \in Client, Applying(d)' PROVE Applying(d) /\ val'[d].alone = val[d].alone
    <3>1. CASE d = v
      BY <2>1, <3>1 DEF Steady
    <3>2. CASE d # v
      BY <1>1, <2>1, <3>2 DEF Applying
    <3> QED
      BY <3>1, <3>2
  <2> SUFFICES ASSUME NEW d \in Client, Applying(d)', val'[d].alone,
                      NEW e \in Client \ {d}, Applying(e)'
               PROVE  FALSE
    BY DEF Exclusive
  <2>2. Applying(d) /\ Applying(e) /\ val[d].alone
    BY <2>1
  <2> QED
    BY <2>2 DEF VInv, Exclusive
<1> QED
  BY <1>1, <1>2, <1>3, <1>4 DEF VInv

\* The steps that only read.
Reads(v) ==
    \/ \E cand \in Candidate : evaluate(v, cand)
    \/ _active_memories(v) \/ SelectConflicts(v) \/ _active_conflicts(v)
    \/ ReadTarget(v) \/ get_revision_history(v) \/ _require_active_duplicate(v)

LEMMA ReadsStep ==
    ASSUME NEW v, Reads(v)
    PROVE  (\E x : Step(v, x)) /\ UNCHANGED vars
<1>1. ASSUME NEW r, Conclude(v, r) PROVE \E x : Step(v, x)
  BY <1>1 DEF Conclude
<1>2. ASSUME NEW cand \in Candidate, evaluate(v, cand)
      PROVE  (\E x : Step(v, x)) /\ UNCHANGED vars
  BY <1>2 DEF evaluate
<1>3. CASE _active_memories(v)
  BY <1>3 DEF _active_memories
<1>4. CASE SelectConflicts(v)
  BY <1>4 DEF SelectConflicts
<1>5. CASE _active_conflicts(v)
  <2> DEFINE rows  == {{<<i, memories[i]>> : i \in p} : p \in val[v].reads.pairs}
             mine  == {p \in rows : \A m \in p :
                          identity_for_record(m[2]) = Identity(val[v].cand)}
             r     == [val[v].reads EXCEPT !.pairs = mine]
  <2>1. /\ IF val[v].cand.target = Nil THEN Conclude(v, r)
           ELSE Step(v, [val[v] EXCEPT !.phase = "target", !.reads = r])
        /\ UNCHANGED vars
    BY <1>5 DEF _active_conflicts
  <2> HIDE DEF r
  <2> QED
    BY <1>1, <2>1
<1>6. CASE ReadTarget(v)
  <2> DEFINE t == val[v].cand.target
             r == val[v].reads
             root == RootOf(t)
  <2>1. /\ IF t \notin Stored THEN Conclude(v, r)
           ELSE IF Active(t) THEN Conclude(v, [r EXCEPT !.target = memories[t]])
           ELSE Step(v, [val[v] EXCEPT !.phase = "history", !.reads.target = memories[t],
                                       !.reads.history = <<<<root, memories[root]>>>>])
        /\ UNCHANGED vars
    BY <1>6 DEF ReadTarget
  <2> HIDE DEF r, root
  <2> QED
    BY <1>1, <2>1
<1>7. CASE get_revision_history(v)
  <2> DEFINE h    == val[v].reads.history
             next == {i \in Stored : memories[i].supersedes = Last(h)[1]}
  <2>1. /\ IF next = {} THEN Conclude(v, val[v].reads)
           ELSE \E i \in next :
                  Step(v, [val[v] EXCEPT !.reads.history = Append(h, <<i, memories[i]>>)])
        /\ UNCHANGED vars
    BY <1>7 DEF get_revision_history
  <2> HIDE DEF h, next
  <2> QED
    BY <1>1, <2>1
<1>8. CASE _require_active_duplicate(v)
  BY <1>8 DEF _require_active_duplicate
<1> QED
  BY <1>2, <1>3, <1>4, <1>5, <1>6, <1>7, <1>8 DEF Reads

LEMMA ReadsKeep ==
    ASSUME VInv, NEW v \in Client, Reads(v)
    PROVE  VInv'
<1>1. PICK x : Step(v, x) /\ UNCHANGED vars
  BY ReadsStep
<1>2. /\ TableInv /\ IsFiniteSet(Stored) /\ One(v) /\ val = [d \in Client |-> val[d]]
  BY DEF VInv
<1>3. One(v)' /\ Steady(v)
  <2>1. ASSUME NEW cand \in Candidate, evaluate(v, cand) PROVE One(v)' /\ Steady(v)
    BY <1>2, <2>1, EvaluateKeeps
  <2>2. CASE _active_memories(v)
    BY <1>2, <2>2, ActiveRead
  <2>3. CASE SelectConflicts(v)
    BY <1>2, <2>3, ConflictsRead
  <2>4. CASE _active_conflicts(v)
    BY <1>2, <2>4, PairsRead
  <2>5. CASE ReadTarget(v)
    BY <1>2, <2>5, TargetRead
  <2>6. CASE get_revision_history(v)
    BY <1>2, <2>6, HistoryRead
  <2>7. CASE _require_active_duplicate(v)
    BY <1>2, <2>7, DuplicateRequired
  <2> QED
    BY <2>1, <2>2, <2>3, <2>4, <2>5, <2>6, <2>7 DEF Reads
<1>4. TableInv'
  BY <1>1, <1>2, StepTables
<1> QED
  BY <1>1, <1>3, <1>4, OneStep DEF vars

LEMMA ApplyKeepsAll ==
    ASSUME VInv, NEW v \in Client, NEW alone \in BOOLEAN, apply(v, alone)
    PROVE  VInv'
<1>1. /\ UNCHANGED vars /\ One(v) /\ val = [d \in Client |-> val[d]] /\ TableInv
  BY DEF apply, VInv
<1>2. /\ \A d \in Client \ {v} : val'[d] = val[d]
      /\ val' = [d \in Client |-> val'[d]]
  BY <1>1, StepOf DEF apply
<1>3. One(v)' /\ val'[v].alone = alone
  BY <1>1, ApplyKeeps
<1>4. ASSUME NEW d \in Client PROVE One(d)'
  <2>1. CASE d # v
    BY <1>1, <1>2, <2>1, OneStays DEF VInv, vars
  <2> QED
    BY <1>3, <2>1
<1>5. TableInv' /\ IsFiniteSet(Stored)'
  BY <1>1, StepTables DEF VInv, vars, Stored
<1>6. Exclusive'
  <2>1. MayWrite(Client \ {v}) /\ (alone => \A d \in Client \ {v} : ~Applying(d))
    BY DEF apply
  <2>2. \A d \in Client \ {v} : (Applying(d)' <=> Applying(d)) /\ val'[d].alone = val[d].alone
    BY <1>2 DEF Applying
  <2> SUFFICES ASSUME NEW d \in Client, Applying(d)', val'[d].alone,
                      NEW e \in Client \ {d}, Applying(e)'
               PROVE  FALSE
    BY DEF Exclusive
  <2>3. CASE d = v
    BY <1>3, <2>1, <2>2, <2>3
  <2>4. CASE d # v
    BY <2>1, <2>2, <2>4 DEF MayWrite
  <2> QED
    BY <2>3, <2>4
<1> QED
  BY <1>2, <1>4, <1>5, <1>6 DEF VInv

LEMMA WritesKeep ==
    ASSUME VInv, NEW v \in Client, CreateApplied(v) \/ CorrectApplied(v) \/ Applied(v)
    PROVE  /\ VInv' /\ \A d \in Client \ {v} : call'[d] = call[d]
           /\ ~Committing(v)
<1>1. /\ TableInv /\ TypeOK /\ IsFiniteSet(Stored) /\ One(v)
      /\ val = [d \in Client |-> val[d]]
  BY DEF VInv, TableInv, TypeInv
<1>2. CASE CreateApplied(v)
  <2>1. One(v)' /\ Steady(v) /\ [Next]_vars /\ \A d \in Client \ {v} : call'[d] = call[d]
    BY <1>1, <1>2, CreateKeeps
  <2>2. /\ Step(v, [val[v] EXCEPT !.phase = "writing"])
        /\ UNCHANGED <<memories, conflicts>> /\ call[v].phase # "store"
    BY <1>2 DEF CreateApplied, create_memory, MayCall
  <2>3. TableInv'
    BY <1>1, <2>1, StepTables
  <2> QED
    BY <2>1, <2>2, <2>3, OneStep DEF Committing
<1>3. CASE CorrectApplied(v)
  <2>1. One(v)' /\ Steady(v) /\ [Next]_vars /\ \A d \in Client \ {v} : call'[d] = call[d]
    BY <1>1, <1>3, CorrectKeeps
  <2>2. /\ Step(v, [val[v] EXCEPT !.phase = "writing"])
        /\ UNCHANGED <<memories, conflicts>> /\ call[v].phase # "store"
    BY <1>3 DEF CorrectApplied, correct_memory, MayCall
  <2>3. TableInv'
    BY <1>1, <2>1, StepTables
  <2> QED
    BY <2>1, <2>2, <2>3, OneStep DEF Committing
<1>4. CASE Applied(v)
  <2>1. /\ One(v)' /\ Steady(v) /\ Quiet /\ TypeInv'
        /\ \A d \in Client \ {v} : call'[d] = call[d]
    BY <1>1, <1>4, AppliedKeeps
  <2>2. /\ \E x : Step(v, x)
        /\ UNCHANGED <<memories, conflicts>> /\ call[v].phase # "store"
    BY <1>4 DEF Applied
  <2>3. TableInv'
    BY <1>1, <2>1, QuietTables
  <2> QED
    BY <2>1, <2>2, <2>3, OneStep DEF Committing
<1> QED
  BY <1>2, <1>3, <1>4

LEMMA StepValidators == VInv /\ [VNext]_allVars => VInv'
<1> SUFFICES ASSUME VInv, [VNext]_allVars PROVE VInv'
  OBVIOUS
<1>1. ASSUME NEW v \in Client, ValidatorSteps(v) PROVE VInv'
  <2>1. CASE Reads(v)
    BY <2>1, ReadsKeep
  <2>2. ASSUME NEW alone \in BOOLEAN, apply(v, alone) PROVE VInv'
    BY <2>2, ApplyKeepsAll
  <2>3. CASE CreateApplied(v) \/ CorrectApplied(v) \/ Applied(v)
    BY <2>3, WritesKeep
  <2> QED
    BY <1>1, <2>1, <2>2, <2>3 DEF ValidatorSteps, Reads
<1>2. ASSUME NEW v \in Client, StoreSteps(v) \/ TransactionFails(v), UNCHANGED val
      PROVE  VInv'
  BY <1>2, TransactionKeeps
<1>3. CASE OthersWrite
  BY <1>3, OthersKeep
<1>4. CASE UNCHANGED allVars
  <2>1. UNCHANGED <<memories, conflicts, call, val>> /\ UNCHANGED vars
    BY <1>4 DEF allVars, vars
  <2>2. TableInv' /\ IsFiniteSet(Stored)'
    BY <2>1, StepTables DEF VInv, Stored
  <2>3. \A d \in Client : One(d)'
    BY <2>1, OneStays DEF VInv
  <2>4. Exclusive' /\ (val = [d \in Client |-> val[d]])'
    BY <2>1 DEF VInv, Exclusive, Applying
  <2> QED
    BY <2>2, <2>3, <2>4 DEF VInv
<1> QED
  BY <1>1, <1>2, <1>3, <1>4 DEF VNext

\* A validator's call commits only in its own transaction.
LEMMA CommitOf ==
    ASSUME VInv, [VNext]_allVars, NEW v \in Client, Committing(v)
    PROVE  Commits(v)
<1>1. call[v].phase = "store" /\ call'[v].phase = "ok" /\ TypeInv
  BY DEF Committing, VInv, TableInv
<1>2. ASSUME UNCHANGED call PROVE FALSE
  BY <1>1, <1>2
<1>3. ASSUME NEW u \in Client, ValidatorSteps(u) PROVE FALSE
  <2>1. CASE Reads(u)
    BY <1>2, <2>1, ReadsStep DEF vars
  <2>2. ASSUME NEW alone \in BOOLEAN, apply(u, alone) PROVE FALSE
    BY <1>2, <2>2 DEF apply, vars
  <2>3. CASE CreateApplied(u) \/ CorrectApplied(u) \/ Applied(u)
    <3>1. (\A d \in Client \ {u} : call'[d] = call[d]) /\ ~Committing(u)
      BY <2>3, WritesKeep
    <3> QED
      BY <1>1, <3>1
  <2> QED
    BY <1>3, <2>1, <2>2, <2>3 DEF ValidatorSteps, Reads
<1>4. ASSUME Quiet PROVE FALSE
  BY <1>1, <1>4 DEF Quiet
<1>5. ASSUME NEW u \in Client, StoreSteps(u) \/ TransactionFails(u) PROVE Commits(v)
  <2>1. Commits(u)
    <3>1. CASE StoreAdd(u)
      BY <1>1, <1>4, <3>1, AddCommits
    <3>2. CASE StoreCorrect(u)
      BY <1>1, <1>4, <3>2, CorrectCommits
    <3>3. CASE TransactionFails(u)
      <4>1. "MemoryPersistence" \in Failure
        BY DEF Failure
      <4>2. Quiet
        BY <1>1, <3>3, <4>1, FailureQuiet DEF TransactionFails
      <4> QED
        BY <1>4, <4>2
    <3> QED
      BY <1>5, <3>1, <3>2, <3>3 DEF StoreSteps
  <2>2. u = v
    BY <1>1, <2>1 DEF Commits, Returned
  <2> QED
    BY <2>1, <2>2
<1>6. CASE OthersWrite
  BY <1>2, <1>6 DEF OthersWrite
<1>7. CASE UNCHANGED allVars
  BY <1>2, <1>7 DEF allVars
<1> QED
  BY <1>3, <1>5, <1>6, <1>7 DEF VNext

LEMMA Validators == VSpec => []VInv
<1>1. VInit => VInv
  BY InitValidators
<1>2. VInv /\ [VNext]_allVars => VInv'
  BY StepValidators
<1> QED
  BY <1>1, <1>2, PTL DEF VSpec

\* For any number of validators, other writers and memories: whatever the store
\* holds, reads of it that fit together pass every check of the policy.
THEOREM PolicyAlwaysAccepts == VSpec => []PolicyAccepts
<1>1. VInv => PolicyAccepts
  BY AcceptedNow DEF VInv
<1> QED
  BY <1>1, Validators, PTL

\* A validator's state has its type, a correction decision that is applied again
\* and again changes the store once, and an application that runs alone never
\* meets reads that do not fit together.
THEOREM ApplyIsSound == VSpec => []ApplySound
<1>1. VInv => ApplySound
  <2> SUFFICES ASSUME VInv PROVE ApplySound
    OBVIOUS
  <2>1. TypeOK
    BY DEF VInv, TableInv, TypeInv
  <2>2. ASSUME NEW v \in Client
        PROVE  /\ val[v].phase \in {"idle", "active", "conflicts", "rows", "target",
                                    "history", "duplicate", "write", "writing"}
               /\ val[v].phase # "idle" => val[v].cand \in Candidate
               /\ val[v].phase \in {"write", "writing"} =>
                     persistence_permitted(val[v].decision)
               /\ val[v].phase = "idle" => val[v].reads = NoReads
    BY DEF VInv, One, Kept, Phases
  <2>3. VTypeOK
    BY <2>1, <2>2 DEF VTypeOK
  <2>4. CorrectionAppliedOnce
    <3> SUFFICES ASSUME NEW v \in Client, val[v].decision # Nil,
                        Types[val[v].decision.reason] = "APPLY_CORRECTION"
                 PROVE  val[v].applied <= 1
      BY DEF CorrectionAppliedOnce
    <3>1. val[v].applied \in {0, 1, 2} /\ val[v].applied # 2
      BY DEF VInv, One, Kept, Once
    <3> QED
      BY <3>1
  <2>5. ApplyNeverTorn
    BY DEF VInv, One, Untorn, ApplyNeverTorn
  <2> QED
    BY <2>3, <2>4, <2>5 DEF ApplySound
<1> QED
  BY <1>1, Validators, PTL

\* However stale the reads a correction was decided on, the correction that apply
\* commits is one of an active memory of the candidate's identity to another value.
THEOREM CorrectionsAreJustified == VSpec => CorrectionsJustified
<1> DEFINE A == \A v \in Client : Committing(v) /\ call[v].op = "correct" =>
                  LET cand == val[v].cand  t == cand.target IN
                  /\ Active(t) /\ memories[t].key = Identity(cand)
                  /\ memories[t].value # cand.value
<1>1. VInv /\ [VNext]_allVars => A
  <2> SUFFICES ASSUME VInv, [VNext]_allVars, NEW v \in Client, Committing(v),
                      call[v].op = "correct"
               PROVE  LET cand == val[v].cand  t == cand.target IN
                      /\ Active(t) /\ memories[t].key = Identity(cand)
                      /\ memories[t].value # cand.value
    OBVIOUS
  <2>1. TypeInv /\ One(v) /\ call[v].phase = "store"
    BY DEF VInv, TableInv, Committing
  <2>2. call[v] \in Call /\ Changed(call[v])
    BY <2>1, CommitOf, CommitChanges
  <2>3. /\ val[v].phase = "writing" /\ val[v].cand.target # Nil
        /\ call[v].target = val[v].cand.target
    BY <2>1 DEF One, Carries
  <2>4. Corrects(val[v].cand)
    BY <2>1, <2>3 DEF One
  <2>5. Active(val[v].cand.target)
    BY <2>1, <2>2, <2>3, TargetEnded DEF Active
  <2> QED
    BY <2>4, <2>5 DEF Corrects
<1>2. VInv /\ [VNext]_allVars => [A]_allVars
  BY <1>1
<1> QED
  BY <1>2, Validators, PTL DEF VSpec, CorrectionsJustified

\* An application that runs alone commits what the store still decides: evaluating
\* the candidate in the state of the commit yields the very decision applied.
THEOREM AppliedIsAsDecided == VSpec => AppliedAsDecided
<1> DEFINE A == \A v \in Client : Committing(v) /\ val[v].alone =>
                  _decision(val[v].cand, ReadsNow(val[v].cand)) = val[v].decision
<1>1. VInv /\ [VNext]_allVars => A
  <2> SUFFICES ASSUME VInv, [VNext]_allVars, NEW v \in Client, Committing(v),
                      val[v].alone
               PROVE  _decision(val[v].cand, ReadsNow(val[v].cand)) = val[v].decision
    OBVIOUS
  <2> DEFINE cand == val[v].cand
             t == cand.target
  <2>1. TypeInv /\ One(v) /\ call[v].phase = "store"
    BY DEF VInv, TableInv, Committing
  <2>2. call[v] \in Call /\ Changed(call[v])
    BY <2>1, CommitOf, CommitChanges
  <2>3. /\ val[v].phase = "writing" /\ val[v].mode = "apply"
        /\ t # Nil => call[v].op = "correct" /\ call[v].target = t
    BY <2>1 DEF One, Carries, Kept
  <2>4. val[v].decision = _decision(cand, Brief(cand))
    BY <2>1, <2>3 DEF One, UpToDate, Applying
  <2>5. ~(t \in Stored /\ ~Active(t))
    <3>1. CASE t = Nil
      BY <2>1, <3>1, NilAssumption DEF TypeInv, TypeOK
    <3>2. CASE t # Nil
      BY <2>1, <2>2, <2>3, <3>2, TargetEnded DEF Active
    <3> QED
      BY <3>1, <3>2
  <2>6. ReadsNow(cand) = Brief(cand)
    BY <2>5, ReadsNowFields DEF Brief
  <2> QED
    BY <2>4, <2>6
<1>2. VInv /\ [VNext]_allVars => [A]_allVars
  BY <1>1
<1> QED
  BY <1>2, Validators, PTL DEF VSpec, AppliedAsDecided
================================================================================
