---------------------------- MODULE PersonalContext ----------------------------
(***************************************************************************)
(* The Personal Context Twin: build_snapshot projects the owner's active   *)
(* memories and open conflicts into a snapshot that says of every identity *)
(* whether it is resolved or conflicted, and on which evidence             *)
(* (personal_context/service.py, projector.py, models.py).                 *)
(*                                                                         *)
(* The Memory OS has no read that spans both tables.  The active memories  *)
(* are one query, the open conflicts a second, and the memories of each    *)
(* conflict are fetched one by one after it; the clients of MemoryStore go *)
(* on between any two of these steps.  The projector refuses what does not *)
(* fit together.                                                           *)
(*                                                                         *)
(* A key is an identity: memory type, subject and predicate.  Evidence is  *)
(* the id of a memory, its time and what it supersedes.  A conflict's id   *)
(* is its pair of memories.  The version, a digest of the entries, is left *)
(* out, and so is the order of entries, values and evidence.               *)
(***************************************************************************)
EXTENDS MemoryStore

CONSTANTS
    OwnerKeys,     \* the identities whose subject is the owner
    ContextKeys    \* those of them whose memory type has a context domain

ASSUME KeysAssumption == ContextKeys \subseteq OwnerKeys /\ OwnerKeys \subseteq Key

VARIABLE ctx       \* the build under way, or the last one

ctxVars == <<memories, conflicts, clock, call, ctx>>

Nothing == [i \in {} |-> Nil]

\* open and quiet are history: the conflicts that were open at the first read,
\* and whether nobody has written since.
Idle == [pc |-> "idle", active |-> Nothing, pairs |-> {}, result |-> "none",
         entries |-> Nothing, open |-> {}, quiet |-> TRUE]
--------------------------------------------------------------------------------
(* The projector, a function of what was read: active maps the ids of the    *)
(* first query to their rows, pairs holds conflicts as pairs of <<id, row>>. *)

IdsOf(pair) == {m[1] : m \in pair}

\* The memories of a supported type.
Relevant(active) == {i \in DOMAIN active : active[i].key \in ContextKeys}

\* What _validated_memories demands of all of them.
_validated_memories(active) ==
    \A i \in DOMAIN active : active[i].key \in OwnerKeys /\ active[i].status = "active"

\* Conflicts of which no side has a supported type are passed over.
Considered(pairs) == {p \in pairs : \E m \in p : m[2].key \in ContextKeys}

\* Mutant: no conflict is passed over.
_validated_conflicts_mutant(active, pairs) ==
    \A p \in pairs :
        /\ \A m \in p : /\ m[2].key \in OwnerKeys /\ m[2].status = "active"
                        /\ m[1] \in Relevant(active) /\ active[m[1]] = m[2]
        /\ \A m, n \in p : m # n => m[2].key = n[2].key /\ m[2].value # n[2].value

_validated_conflicts(active, pairs) ==
    /\ \A m \in UNION pairs : m[2].key \in OwnerKeys
    /\ \A p \in Considered(pairs) :
          /\ \A m \in p : /\ m[2].key \in ContextKeys /\ m[2].status = "active"
                          /\ m[1] \in Relevant(active) /\ active[m[1]] = m[2]
          /\ \A m, n \in p : m # n => m[2].key = n[2].key /\ m[2].value # n[2].value

\* Every contradiction among the memories has its conflict, and no other does.
_require_complete_conflicts(active, pairs) ==
    {IdsOf(p) : p \in Considered(pairs)} =
        {{ij[1], ij[2]} : ij \in {ij \in Relevant(active) \X Relevant(active) :
                              /\ active[ij[1]].key = active[ij[2]].key
                              /\ active[ij[1]].value # active[ij[2]].value}}

EvidenceReference(i, row) ==
    [memory_id |-> i, recorded_at |-> row.created_at, supersedes |-> row.supersedes]

\* Mutant: of the memories with one value, one is kept.
_build_entries_mutant(active, pairs) ==
    [k \in {active[i].key : i \in Relevant(active)} |->
        LET mine   == {i \in Relevant(active) : active[i].key = k}
            values == {active[i].value : i \in mine}
            one(v) == CHOOSE i \in mine : active[i].value = v
        IN  [state     |-> IF Cardinality(values) = 1 THEN "RESOLVED" ELSE "CONFLICTED",
             values    |-> [v \in values |-> {EvidenceReference(one(v), active[one(v)])}],
             conflicts |-> {IdsOf(p) : p \in {q \in Considered(pairs) :
                                                \A m \in q : m[2].key = k}}]]

\* One entry for each identity, its values with their evidence, and its conflicts.
_build_entries(active, pairs) ==
    [k \in {active[i].key : i \in Relevant(active)} |->
        LET mine   == {i \in Relevant(active) : active[i].key = k}
            values == {active[i].value : i \in mine}
        IN  [state     |-> IF Cardinality(values) = 1 THEN "RESOLVED" ELSE "CONFLICTED",
             values    |-> [v \in values |-> {EvidenceReference(i, active[i]) :
                                    i \in {j \in mine : active[j].value = v}}],
             conflicts |-> {IdsOf(p) : p \in {q \in Considered(pairs) :
                                                \A m \in q : m[2].key = k}}]]

\* What the constructor of a ContextEntry accepts: one value without conflicts, or
\* several with a conflict for each two memories that contradict each other.
ContextEntry(e) ==
    LET evidence(v) == {ref.memory_id : ref \in e.values[v]}
        across == {{x[1], x[2]} : x \in
                      UNION {evidence(v) \X evidence(w) :
                                v \in DOMAIN e.values, w \in DOMAIN e.values}}
        within == UNION {{{x[1], x[2]} : x \in evidence(v) \X evidence(v)} :
                            v \in DOMAIN e.values}
    IN  /\ \A v, w \in DOMAIN e.values : v # w => evidence(v) \cap evidence(w) = {}
        /\ IF e.state = "RESOLVED"
           THEN Cardinality(DOMAIN e.values) = 1 /\ e.conflicts = {}
           ELSE /\ Cardinality(DOMAIN e.values) >= 2
                /\ Cardinality(e.conflicts) = Cardinality(across \ within)

\* project: the entries of the snapshot, or the exception.
project(active, pairs) ==
    LET entries == _build_entries(active, pairs) IN
    IF ~(/\ _validated_memories(active)
         /\ _validated_conflicts(active, pairs)
         /\ _require_complete_conflicts(active, pairs))
    THEN [result |-> "InconsistentSourceState", entries |-> Nothing]
    ELSE IF \E k \in DOMAIN entries : ~ContextEntry(entries[k])
    THEN [result |-> "ContextInvariant", entries |-> Nothing]
    ELSE [result |-> "snapshot", entries |-> entries]

\* get_context on a snapshot.
get_context(entries, k) == IF k \in DOMAIN entries THEN entries[k].state ELSE "UNKNOWN"
--------------------------------------------------------------------------------
(* The service. *)

StoreUnchanged == UNCHANGED <<memories, conflicts, clock, call>>

\* build_snapshot begins: the owner's active memories.
query_memories ==
    /\ ctx.pc = "idle"
    /\ ctx' = [Idle EXCEPT !.pc = "conflicts", !.open = Unresolved,
                  !.active = [i \in {j \in Stored : Active(j) /\ memories[j].key \in OwnerKeys}
                                  |-> memories[i]]]
    /\ StoreUnchanged

\* list_conflicts selects the owner's open conflicts ...
list_conflicts ==
    /\ ctx.pc = "conflicts"
    /\ ctx' = [ctx EXCEPT !.pc = "rows",
                  !.pairs = {p \in Unresolved : \E i \in p : memories[i].key \in OwnerKeys}]
    /\ StoreUnchanged

\* ... and fetches the memories of each; build_snapshot then projects.  A memory
\* that has ended stays ended, so one step for all these reads has every outcome
\* that separate reads can have.
build_snapshot ==
    /\ ctx.pc = "rows"
    /\ LET pairs == {{<<i, memories[i]>> : i \in p} : p \in ctx.pairs}
           done  == project(ctx.active, pairs)
       IN  ctx' = [ctx EXCEPT !.pc = "done", !.result = done.result,
                              !.entries = done.entries]
    /\ StoreUnchanged

\* The caller has its snapshot or its exception; the service keeps nothing.
Return ==
    /\ ctx.pc = "done"
    /\ ctx' = Idle
    /\ StoreUnchanged

\* A step of the Memory OS.
MemoryStep ==
    /\ Next
    /\ ctx' = [ctx EXCEPT !.quiet = @ /\ (ctx.pc = "idle" \/ memories' = memories)]

CInit == Init /\ ctx = Idle

CNext == query_memories \/ list_conflicts \/ build_snapshot \/ Return \/ MemoryStep

CSpec == CInit /\ [][CNext]_ctxVars
--------------------------------------------------------------------------------
(* Properties. *)

\* The tables, and what the build has read of them, have their types: what the
\* first query returns are active rows of the owner.
CTypeOK ==
    /\ TypeOK
    /\ ctx.pc \in {"idle", "conflicts", "rows", "done"}
    /\ \A i \in DOMAIN ctx.active :
          /\ ctx.active[i] \in Row /\ ctx.active[i].status = "active"
          /\ ctx.active[i].key \in OwnerKeys
    /\ ctx.pairs \subseteq Pair
    /\ DOMAIN ctx.entries \subseteq ContextKeys

\* A snapshot that is returned is the exact image of the database at the first of
\* its two reads, whatever was committed after it: all the active evidence of every
\* identity under its value, and the conflicts that were open at that moment.
SnapshotOfOneState ==
    ctx.result = "snapshot" => \A k \in ContextKeys :
        LET mine   == {i \in DOMAIN ctx.active : ctx.active[i].key = k}
            values == {ctx.active[i].value : i \in mine}
        IN  /\ get_context(ctx.entries, k) =
                 (CASE values = {} -> "UNKNOWN"
                    [] Cardinality(values) = 1 -> "RESOLVED"
                    [] OTHER -> "CONFLICTED")
            /\ k \in DOMAIN ctx.entries =>
                 LET e == ctx.entries[k] IN
                 /\ DOMAIN e.values = values
                 /\ \A v \in values : {ref.memory_id : ref \in e.values[v]} =
                        {i \in mine : ctx.active[i].value = v}
                 /\ e.conflicts = {p \in ctx.open : p \subseteq mine}

\* What passes the projector's own checks is accepted by the constructors of the
\* entries: a build ends in a snapshot or in InconsistentSourceStateError.
ProjectedConstructs == ctx.result # "ContextInvariant"

\* The sources are called inconsistent only when a client has committed a change
\* between the reads: the Memory OS at rest always yields a snapshot.
RefusedOnlyWhenDisturbed ==
    ctx.result = "InconsistentSourceState" => ~ctx.quiet

\* A build fails for one reason only, a commit between its reads: whatever rows
\* and conflicts the Memory OS holds, the checks of the projector and those of the
\* entries' constructors agree on them.
OnlyWritersRefuse == CTypeOK /\ ProjectedConstructs /\ RefusedOnlyWhenDisturbed
================================================================================
