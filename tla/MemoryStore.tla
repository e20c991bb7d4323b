------------------------------ MODULE MemoryStore ------------------------------
(***************************************************************************)
(* The Memory OS: MemoryService over SQLiteMemoryStore, used by several    *)
(* clients (processes or connections) of one database file.                *)
(*                                                                         *)
(* A call has two steps, as in the code.  The service step validates the   *)
(* arguments, reads the wall clock and draws a UUID (memory/service.py);   *)
(* the store step is one BEGIN IMMEDIATE transaction, which re-checks its  *)
(* target and either commits everything or rolls everything back           *)
(* (memory/sqlite_store.py).  Any number of steps of other clients may lie *)
(* between the two, so the time and the target a call carries may be stale *)
(* when its transaction runs.                                              *)
(*                                                                         *)
(* Abstractions.  A key is the triple (memory_type, subject, predicate); a *)
(* value is the canonical JSON text of a record's value.  Reasons,         *)
(* confidence, metadata and observed_at are carried by the code and decide *)
(* nothing.  Times are ticks.  A conflict is identified by the unordered   *)
(* pair of memories it relates, as UNIQUE(left, right) makes it.           *)
(***************************************************************************)
EXTENDS Integers, FiniteSets

CONSTANTS
    Client,           \* users of the database, each with its own connection
    MemoryId,         \* the UUIDs the id factories may return
    Key,              \* (memory_type, subject, predicate)
    Value,            \* canonical JSON values
    Provenance,       \* the provenance types callers state
    CorrectionProvenance, \* the ones that may correct a memory
    Nil,              \* SQL NULL, Python's None
    MaxTime,          \* bound: the last tick of the clock
    ClockMayRegress   \* TRUE when the wall clock may be set back

ASSUME NilAssumption ==
    Nil \notin MemoryId /\ Nil \notin Key /\ Nil \notin Value
ASSUME TimeAssumption == MaxTime \in Nat /\ ClockMayRegress \in BOOLEAN
ASSUME ProvenanceAssumption == CorrectionProvenance \subseteq Provenance

VARIABLES
    memories,         \* table memories: a partial function of MemoryId
    conflicts,        \* table memory_conflicts: a partial function of pairs
    clock,            \* the wall clock the services read
    call              \* per client, its current or last call

vars == <<memories, conflicts, clock, call>>
--------------------------------------------------------------------------------
Time == 0..MaxTime
NoTime == -1

Status == {"active", "superseded", "retracted"}

Row == [key: Key, value: Value, status: Status, created_at: Time,
        status_changed_at: Time, supersedes: MemoryId \cup {Nil}]

Pair == {p \in SUBSET MemoryId : \E i, j \in MemoryId : i # j /\ p = {i, j}}

Conflict == [created_at: Time, resolved_at: Time \cup {NoTime},
             resolution: MemoryId \cup {Nil}]

\* What a call ended in: "ok", or the exception it raised.
Failure == {"MemoryNotFound", "AlreadyRetracted", "InvalidTarget",
            "InvalidMemoryData", "InvalidProvenance", "PersistenceConflict",
            "MemoryPersistence"}

\* A call: its phase ("store" between its two steps, then its outcome) and what
\* it carries into its transaction.
Call == [phase: {"idle", "store", "ok"} \cup Failure,
         op: {"none", "add", "correct", "retract"},
         id: MemoryId \cup {Nil}, key: Key \cup {Nil}, value: Value \cup {Nil},
         at: Time, target: MemoryId \cup {Nil}]

NoCall == [phase |-> "idle", op |-> "none", id |-> Nil, key |-> Nil,
           value |-> Nil, at |-> 0, target |-> Nil]

Init ==
    /\ memories = [i \in {} |-> Nil]
    /\ conflicts = [p \in {} |-> Nil]
    /\ clock = 0
    /\ call = [c \in Client |-> NoCall]
--------------------------------------------------------------------------------
(* The SQL statements a transaction is made of, on given tables. *)

Stored == DOMAIN memories

Active(i) == i \in Stored /\ memories[i].status = "active"

Unresolved == {p \in DOMAIN conflicts : conflicts[p].resolved_at = NoTime}

\* INSERT INTO memories
_insert_memory(ms, i, row) ==
    [j \in DOMAIN ms \cup {i} |-> IF j = i THEN row ELSE ms[j]]

\* Mutant: the query without "memory_id != ?" and without comparing values.
ConflictingPairs_mutant(ms, i) ==
    {{i, j} : j \in {k \in DOMAIN ms : /\ ms[k].status = "active"
                                       /\ ms[k].key = ms[i].key}}

\* The pairs for which _create_unresolved_conflicts inserts a conflict: the new
\* memory and each active one with its key and another value.
ConflictingPairs(ms, i) ==
    {{i, j} : j \in {k \in DOMAIN ms : /\ k # i
                                       /\ ms[k].status = "active"
                                       /\ ms[k].key = ms[i].key
                                       /\ ms[k].value # ms[i].value}}

\* INSERT INTO memory_conflicts, once for each of the pairs
_insert_conflicts(cs, pairs, row) ==
    [p \in DOMAIN cs \cup pairs |-> IF p \in pairs THEN row ELSE cs[p]]

\* Mutant: the UPDATE without "resolved_at IS NULL".
_resolve_conflicts_mutant(cs, i, at, by) ==
    [p \in DOMAIN cs |->
        IF i \in p THEN [cs[p] EXCEPT !.resolved_at = at, !.resolution = by]
        ELSE cs[p]]

\* UPDATE memory_conflicts ... WHERE resolved_at IS NULL AND i is a side of it
_resolve_conflicts(cs, i, at, by) ==
    [p \in DOMAIN cs |->
        IF i \in p /\ cs[p].resolved_at = NoTime
        THEN [cs[p] EXCEPT !.resolved_at = at, !.resolution = by]
        ELSE cs[p]]

\* UPDATE memories SET status, status_changed_at WHERE memory_id = i
SetStatus(ms, i, status, at) ==
    [ms EXCEPT ![i].status = status, ![i].status_changed_at = at]
--------------------------------------------------------------------------------
(* The service steps. *)

\* A client calls again only after its previous call returned or raised.
MayCall(c) == call[c].phase # "store"

Enter(c, o) == call' = [call EXCEPT ![c] = o]

create_memory(c, i, k, v) ==
    /\ MayCall(c)
    /\ Enter(c, [phase |-> "store", op |-> "add", id |-> i, key |-> k,
                 value |-> v, at |-> clock, target |-> Nil])
    /\ UNCHANGED <<memories, conflicts, clock>>

\* The exception for a target that is missing or no longer active.
TargetError(t) ==
    IF t \notin Stored THEN "MemoryNotFound"
    ELSE IF memories[t].status = "retracted" THEN "AlreadyRetracted"
    ELSE IF memories[t].status = "superseded" THEN "InvalidTarget"
    ELSE "ok"

\* What correct_memory raises before it reaches the store, in its order.
CorrectRefusal(i, t, prov) ==
    IF TargetError(t) # "ok" THEN TargetError(t)
    ELSE IF prov \notin CorrectionProvenance THEN "InvalidProvenance"
    ELSE IF i = t THEN "InvalidMemoryData"
    ELSE "ok"

correct_memory(c, t, i, v, prov) ==
    LET refusal == CorrectRefusal(i, t, prov) IN
    /\ MayCall(c)
    /\ Enter(c, IF refusal = "ok"
                THEN [phase |-> "store", op |-> "correct", id |-> i,
                      key |-> memories[t].key, value |-> v, at |-> clock,
                      target |-> t]
                ELSE [NoCall EXCEPT !.phase = refusal])
    /\ UNCHANGED <<memories, conflicts, clock>>

retract_memory(c, t) ==
    /\ MayCall(c)
    /\ Enter(c, [phase |-> "store", op |-> "retract", id |-> Nil, key |-> Nil,
                 value |-> Nil, at |-> clock, target |-> t])
    /\ UNCHANGED <<memories, conflicts, clock>>
--------------------------------------------------------------------------------
(* The store steps.  Each is one transaction: the tables after it are those *)
(* its statements leave, or, when a statement raises, those before it.      *)

\* The row a call inserts.
NewRow(o) ==
    [key |-> o.key, value |-> o.value, status |-> "active",
     created_at |-> o.at, status_changed_at |-> o.at, supersedes |-> o.target]

Fresh(at) == [created_at |-> at, resolved_at |-> NoTime, resolution |-> Nil]

\* The call returns or raises; what a failed one carried is forgotten.
Exit(c, result) ==
    Enter(c, IF result = "ok" THEN [call[c] EXCEPT !.phase = "ok"]
             ELSE [NoCall EXCEPT !.phase = result])

\* The conflicts table with the unresolved conflicts of row i of ms.
WithConflictsOf(cs, ms, i, at) ==
    _insert_conflicts(cs, ConflictingPairs(ms, i), Fresh(at))

\* Mutant: INSERT OR REPLACE instead of INSERT.
StoreAdd_mutant(c) ==
    LET o  == call[c]
        ms == _insert_memory(memories, o.id, NewRow(o))
    IN  /\ o.phase = "store" /\ o.op = "add"
        /\ memories' = ms
        /\ conflicts' = WithConflictsOf(conflicts, ms, o.id, o.at)
        /\ Exit(c, "ok")
        /\ UNCHANGED clock

StoreAdd(c) ==
    LET o  == call[c]
        ms == _insert_memory(memories, o.id, NewRow(o))
    IN  /\ o.phase = "store" /\ o.op = "add"
        /\ IF o.id \in Stored
           THEN /\ Exit(c, "PersistenceConflict")
                /\ UNCHANGED <<memories, conflicts>>
           ELSE /\ memories' = ms
                /\ conflicts' = WithConflictsOf(conflicts, ms, o.id, o.at)
                /\ Exit(c, "ok")
        /\ UNCHANGED clock

\* The checks correct_memory repeats inside its transaction; the insertion of a
\* memory_id that is taken raises IntegrityError.
CorrectCheck(o) ==
    IF TargetError(o.target) # "ok" THEN TargetError(o.target)
    ELSE IF o.at < memories[o.target].created_at THEN "InvalidMemoryData"
    ELSE IF o.key # memories[o.target].key THEN "InvalidTarget"
    ELSE IF o.id \in Stored THEN "PersistenceConflict"
    ELSE "ok"

\* The memories table after the correction o: the target is superseded at the
\* replacement's time and the replacement links to it.
Corrected(o) ==
    _insert_memory(SetStatus(memories, o.target, "superseded", o.at),
                   o.id, NewRow(o))

\* Mutant: the resolution names the target instead of the replacement.
CorrectedConflicts_mutant(o) ==
    WithConflictsOf(_resolve_conflicts(conflicts, o.target, o.at, o.target),
                    Corrected(o), o.id, o.at)

\* The conflicts table after it: the target's open conflicts are closed by the
\* replacement, a changed value leaves a closed conflict of the two, and the
\* replacement opens its own.
CorrectedConflicts(o) ==
    LET resolved == _resolve_conflicts(conflicts, o.target, o.at, o.id)
        revised  == IF memories[o.target].value = o.value THEN {}
                    ELSE {{o.target, o.id}}
        closed   == [created_at |-> o.at, resolved_at |-> o.at,
                     resolution |-> o.id]
    IN  WithConflictsOf(_insert_conflicts(resolved, revised, closed),
                        Corrected(o), o.id, o.at)

StoreCorrect(c) ==
    LET o == call[c]  result == CorrectCheck(o) IN
    /\ o.phase = "store" /\ o.op = "correct"
    /\ IF result = "ok"
       THEN memories' = Corrected(o) /\ conflicts' = CorrectedConflicts(o)
       ELSE UNCHANGED <<memories, conflicts>>
    /\ Exit(c, result)
    /\ UNCHANGED clock

\* Mutant: the retraction's time is not compared with the target's.
RetractCheck_mutant(o) == TargetError(o.target)

RetractCheck(o) ==
    IF TargetError(o.target) # "ok" THEN TargetError(o.target)
    ELSE IF o.at < memories[o.target].created_at THEN "InvalidMemoryData"
    ELSE "ok"

\* Mutant: the retraction leaves the target's conflicts open.
StoreRetract_mutant(c) ==
    LET o == call[c]  result == RetractCheck(o) IN
    /\ o.phase = "store" /\ o.op = "retract"
    /\ IF result = "ok"
       THEN memories' = SetStatus(memories, o.target, "retracted", o.at)
       ELSE UNCHANGED memories
    /\ Exit(c, result)
    /\ UNCHANGED <<conflicts, clock>>

StoreRetract(c) ==
    LET o == call[c]  result == RetractCheck(o) IN
    /\ o.phase = "store" /\ o.op = "retract"
    /\ IF result = "ok"
       THEN /\ memories' = SetStatus(memories, o.target, "retracted", o.at)
            /\ conflicts' = _resolve_conflicts(conflicts, o.target, o.at, Nil)
       ELSE UNCHANGED <<memories, conflicts>>
    /\ Exit(c, result)
    /\ UNCHANGED clock

\* BEGIN IMMEDIATE times out on a busy database, or COMMIT fails: the call
\* raises MemoryPersistenceError and the tables are as before.
TransactionFails(c) ==
    /\ call[c].phase = "store"
    /\ Exit(c, "MemoryPersistence")
    /\ UNCHANGED <<memories, conflicts, clock>>

\* The process dies before its commit; SQLite discards what it wrote.
Crash(c) ==
    /\ call[c].phase = "store"
    /\ Enter(c, NoCall)
    /\ UNCHANGED <<memories, conflicts, clock>>

\* datetime.now(timezone.utc), which may be adjusted backwards.
ClockMoves ==
    /\ \E t \in Time : (t = clock + 1 \/ (ClockMayRegress /\ t < clock))
                       /\ clock' = t
    /\ UNCHANGED <<memories, conflicts, call>>
--------------------------------------------------------------------------------
Calls(c) ==
    \/ \E i \in MemoryId, k \in Key, v \in Value : create_memory(c, i, k, v)
    \/ \E t, i \in MemoryId, v \in Value, prov \in Provenance :
            correct_memory(c, t, i, v, prov)
    \/ \E t \in MemoryId : retract_memory(c, t)

Next ==
    \/ \E c \in Client : \/ Calls(c)
                         \/ StoreAdd(c) \/ StoreCorrect(c) \/ StoreRetract(c)
                         \/ TransactionFails(c) \/ Crash(c)
    \/ ClockMoves

Spec == Init /\ [][Next]_vars
--------------------------------------------------------------------------------
(* Properties. *)

\* The tables and the calls have their types: what the schema's CHECK, NOT NULL
\* and REFERENCES clauses and the MemoryRecord dataclass say of a row.
TypeOK ==
    /\ Stored \subseteq MemoryId
    /\ memories \in [Stored -> Row]
    /\ DOMAIN conflicts \subseteq Pair
    /\ conflicts \in [DOMAIN conflicts -> Conflict]
    /\ clock \in Time
    /\ call \in [Client -> Call]

\* The open conflicts are exactly the pairs of active memories that state
\* different values for one key: add, correct and retract keep the derived table
\* memory_conflicts in step with memories.  The validation policy refuses every
\* proposal on a key where this fails.
ConflictsExact ==
    Unresolved = {p \in Pair : \E i, j \in Stored :
                    /\ p = {i, j} /\ Active(i) /\ Active(j)
                    /\ memories[i].key = memories[j].key
                    /\ memories[i].value # memories[j].value}

\* Corrections form linear chains: a replacement has the key of the memory it
\* supersedes, takes over at the moment that one ended, and is its only
\* successor; a memory is superseded exactly when it has one.
RevisionChains ==
    /\ \A i \in Stored : memories[i].supersedes # Nil =>
          LET t == memories[i].supersedes IN
          /\ t \in Stored /\ memories[t].status = "superseded"
          /\ memories[t].key = memories[i].key
          /\ memories[t].status_changed_at = memories[i].created_at
    /\ \A i, j \in Stored :
          memories[i].supersedes = memories[j].supersedes
            => i = j \/ memories[i].supersedes = Nil
    /\ \A t \in Stored : memories[t].status = "superseded" =>
          \E i \in Stored : memories[i].supersedes = t

\* No set of memories supersedes only itself, so get_revision_history's walks
\* end and neither of its cycle errors is ever raised.
RevisionsAcyclic ==
    \A S \in SUBSET Stored :
        S # {} => \E i \in S : memories[i].supersedes \notin S

\* Every stored row can be read back: MemoryRecord refuses a row whose status
\* changed before it was created, which a wall clock set back between two calls
\* would write were it not for the checks inside the transactions.
RowsReadable ==
    \A i \in Stored : memories[i].created_at <= memories[i].status_changed_at

\* What a client was told is what the database holds: a call that returned has
\* its effect in the tables (for ever, the rows being immutable), whatever the
\* other clients did meanwhile, and no other client was told it had the same one.
ToldIsStored ==
    \A c \in Client : call[c].phase = "ok" =>
        LET o == call[c] IN
        /\ o.op \in {"add", "correct"} =>
              /\ o.id \in Stored
              /\ memories[o.id].key = o.key /\ memories[o.id].value = o.value
              /\ memories[o.id].supersedes = o.target
        /\ o.op = "retract" =>
              /\ o.target \in Stored
              /\ memories[o.target].status = "retracted"
              /\ memories[o.target].status_changed_at = o.at
        /\ \A d \in Client \ {c} :
              call[d].phase = "ok" /\ call[d].op # "add" /\ o.op # "add"
                => call[d].target # o.target

\* A closed conflict names as its resolution only the memory that replaced one of
\* its sides, and a conflict relates different values of one key.
ResolutionsJustified ==
    \A p \in DOMAIN conflicts :
        /\ p \subseteq Stored
        /\ \A i, j \in p : i # j => /\ memories[i].key = memories[j].key
                                    /\ memories[i].value # memories[j].value
        /\ conflicts[p].resolution # Nil =>
              /\ conflicts[p].resolution \in Stored
              /\ memories[conflicts[p].resolution].supersedes \in p

\* History is append-only: no step deletes a row, changes what a memory states,
\* touches a memory that is no longer active, or reopens or rewrites a conflict
\* that is closed.
HistoryImmutable ==
    [][ /\ \A i \in Stored :
              /\ i \in DOMAIN memories'
              /\ \A f \in {"key", "value", "created_at", "supersedes"} :
                    memories'[i][f] = memories[i][f]
              /\ ~Active(i) => memories'[i] = memories[i]
        /\ \A p \in DOMAIN conflicts :
              /\ p \in DOMAIN conflicts'
              /\ p \notin Unresolved => conflicts'[p] = conflicts[p]
      ]_vars

\* The revisions of a memory, which _set_memory_status and the inserted
\* replacement write in one transaction, always read back as one finite line of
\* valid rows, whatever two clients and the wall clock do.
RevisionsSound == RevisionChains /\ RevisionsAcyclic /\ RowsReadable
================================================================================
