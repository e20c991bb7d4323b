---------------------------- MODULE MemoryValidation ----------------------------
(***************************************************************************)
(* The Memory Validation policy above the Memory OS: evaluate reads the    *)
(* store and decides what may happen to a piece of candidate evidence,     *)
(* apply evaluates again, compares, and calls create_memory or             *)
(* correct_memory (memory_validation/service.py, policy.py, models.py).    *)
(*                                                                         *)
(* evaluate is not one transaction.  It reads the active memories, then    *)
(* the conflict rows, then the memories those rows name, then the          *)
(* correction target, then its revision history row by row; each read is a *)
(* step of its own here, and other clients may write between any two of    *)
(* them, and between the last read of apply and its write.                 *)
(*                                                                         *)
(* The clients of MemoryStore are validators here: they write only through *)
(* apply.  Everybody else who writes to the database is the environment:   *)
(* one of its transactions is one step, whose service part reads nothing   *)
(* that a validator changes.                                               *)
(***************************************************************************)
EXTENDS MemoryStore, Sequences, SequencesExt

CONSTANTS
    Norm,         \* normalize_identity_text on the parts of a key
    OtherWrites   \* what the environment does: "create", "correct", "retract"

ASSUME OthersAssumption ==
    OtherWrites \subseteq {"create", "correct", "retract"}
ASSUME NormAssumption ==
    Norm \in [Key -> Key] /\ \A k \in Key : Norm[Norm[k]] = Norm[k]

VARIABLE val      \* per validator: what it is doing, and its last decision

allVars == <<memories, conflicts, clock, call, val>>
--------------------------------------------------------------------------------
\* A piece of evidence.  The spelling of its key matters only through its normal
\* form, so candidates have normal ones; the stored rows have any.
Candidate == [key: {Norm[k] : k \in Key}, value: Value, prov: Provenance,
              target: MemoryId \cup {Nil}]

\* What the reads of one evaluation have returned so far.
NoReads == [active |-> [i \in {} |-> Nil], pairs |-> {}, target |-> Nil,
            history |-> <<>>, relevant |-> {}]

IdleValidator ==
    [phase |-> "idle", mode |-> "none", cand |-> Nil, decision |-> Nil,
     reads |-> NoReads, result |-> "none", applied |-> 0, alone |-> FALSE]

Restricted(ids) == [i \in ids |-> memories[i]]

identity_for_record(row) == Norm[row.key]

Identity(cand) == Norm[cand.key]
--------------------------------------------------------------------------------
(* The policy, a function of the candidate and of what was read. *)

Types == [NO_ACTIVE_MEMORY |-> "ACCEPT_NEW",
          EXACT_VALUE_ALREADY_ACTIVE |-> "EXACT_DUPLICATE",
          EXACT_VALUE_ACTIVE_WITH_CONFLICTS |-> "EXACT_DUPLICATE",
          CORRECTION_ALREADY_APPLIED |-> "EXACT_DUPLICATE",
          DIFFERENT_ACTIVE_VALUE |-> "CONFLICT_REVIEW",
          CANONICAL_IDENTITY_VARIANT |-> "CONFLICT_REVIEW",
          EXPLICIT_CORRECTION_ALLOWED |-> "APPLY_CORRECTION",
          CORRECTION_TARGET_NOT_FOUND |-> "REJECT",
          CORRECTION_TARGET_NOT_ACTIVE |-> "REJECT",
          CORRECTION_IDENTITY_MISMATCH |-> "REJECT",
          CORRECTION_AUTHORITY_FORBIDDEN |-> "REJECT"]

persistence_permitted(d) ==
    d.reason \in {"NO_ACTIVE_MEMORY", "DIFFERENT_ACTIVE_VALUE",
                  "EXPLICIT_CORRECTION_ALLOWED"}

\* Mutant: the pairs under one normalized identity.
ExpectedPairs_mutant(active) ==
    {{ij[1], ij[2]} : ij \in {ij \in (DOMAIN active) \X (DOMAIN active) :
                         /\ identity_for_record(active[ij[1]])
                              = identity_for_record(active[ij[2]])
                         /\ active[ij[1]].value # active[ij[2]].value}}

\* The pairs of active memories that contradict each other under one stored key.
ExpectedPairs(active) ==
    {{ij[1], ij[2]} : ij \in {ij \in (DOMAIN active) \X (DOMAIN active) :
                         /\ active[ij[1]].key = active[ij[2]].key
                         /\ active[ij[1]].value # active[ij[2]].value}}

\* r.pairs is a set of pairs of <<id, row>>, as list_conflicts returns them.
_validate_context(r) ==
    /\ \A p \in r.pairs : \A m \in p :
          /\ m[2].status = "active"
          /\ m[1] \in DOMAIN r.active /\ r.active[m[1]] = m[2]
    /\ {{m[1] : m \in p} : p \in r.pairs} = ExpectedPairs(r.active)

\* Of an inactive target, the history must hold the very row that was read, end
\* in a row that is not superseded, and have only superseded rows before it.
_validate_correction_context(cand, r) ==
    LET h == r.history IN
    h # <<>> =>
        /\ h[1][2].supersedes = Nil
        /\ \A n \in 2..Len(h) : h[n][2].supersedes = h[n-1][1]
        /\ \A n \in DOMAIN h :
              identity_for_record(h[n][2]) = identity_for_record(r.target)
        /\ <<cand.target, r.target>> \in ToSet(h)
        /\ \A n \in 1..(Len(h) - 1) : h[n][2].status = "superseded"
        /\ Last(h)[2].status # "superseded"

Exact(cand, r) == {i \in DOMAIN r.active : r.active[i].value = cand.value}

Variants(cand, r) == {i \in DOMAIN r.active : r.active[i].key # Identity(cand)}

DuplicateReason(r) ==
    IF r.pairs # {} THEN "EXACT_VALUE_ACTIVE_WITH_CONFLICTS"
    ELSE "EXACT_VALUE_ALREADY_ACTIVE"

NewEvidenceReason(cand, r) ==
    IF Exact(cand, r) # {} THEN DuplicateReason(r)
    ELSE IF DOMAIN r.active = {} THEN "NO_ACTIVE_MEMORY"
    ELSE IF Variants(cand, r) # {} THEN "CANONICAL_IDENTITY_VARIANT"
    ELSE "DIFFERENT_ACTIVE_VALUE"

TipMatches(cand, r) ==
    LET tip == Last(r.history)[2] IN
    /\ tip.status = "active" /\ identity_for_record(tip) = Identity(cand)
    /\ tip.value = cand.value

\* Mutant: a correction to the value the target already has is allowed.
_evaluate_correction_mutant(cand, r) ==
    IF r.target = Nil THEN "CORRECTION_TARGET_NOT_FOUND"
    ELSE IF cand.prov \notin CorrectionProvenance
         THEN "CORRECTION_AUTHORITY_FORBIDDEN"
    ELSE IF identity_for_record(r.target) # Identity(cand)
         THEN "CORRECTION_IDENTITY_MISMATCH"
    ELSE IF r.target.status # "active" THEN "CORRECTION_TARGET_NOT_ACTIVE"
    ELSE IF Variants(cand, r) # {} THEN "CANONICAL_IDENTITY_VARIANT"
    ELSE "EXPLICIT_CORRECTION_ALLOWED"

_evaluate_correction(cand, r) ==
    IF r.target = Nil THEN "CORRECTION_TARGET_NOT_FOUND"
    ELSE IF cand.prov \notin CorrectionProvenance
         THEN "CORRECTION_AUTHORITY_FORBIDDEN"
    ELSE IF identity_for_record(r.target) # Identity(cand)
         THEN "CORRECTION_IDENTITY_MISMATCH"
    ELSE IF r.target.status # "active"
         THEN IF TipMatches(cand, r) THEN "CORRECTION_ALREADY_APPLIED"
              ELSE "CORRECTION_TARGET_NOT_ACTIVE"
    ELSE IF Variants(cand, r) # {} THEN "CANONICAL_IDENTITY_VARIANT"
    ELSE IF r.target.value = cand.value THEN DuplicateReason(r)
    ELSE "EXPLICIT_CORRECTION_ALLOWED"

\* The decision, with the fields that decide its equality with an earlier one.
_decision(cand, r) ==
    LET reason == IF cand.target = Nil THEN NewEvidenceReason(cand, r)
                  ELSE _evaluate_correction(cand, r)
        exact  == Cardinality(Exact(cand, r))
    IN  [reason    |-> reason,
         relevant  |-> DOMAIN r.active
                       \cup (IF r.target = Nil THEN {} ELSE {cand.target})
                       \cup (IF reason = "CORRECTION_ALREADY_APPLIED"
                             THEN {Last(r.history)[1]} ELSE {}),
         conflicts |-> {{m[1] : m \in p} : p \in r.pairs},
         active    |-> Cardinality(DOMAIN r.active),
         exact     |-> IF /\ cand.target # Nil /\ exact = 0
                          /\ Types[reason] = "EXACT_DUPLICATE" THEN 1 ELSE exact,
         variants  |-> Cardinality(Variants(cand, r))]

\* What ValidationDecision's constructor demands of the counts and references.
_validate_decision_shape(d) ==
    /\ d.exact <= d.active /\ d.variants <= d.active
    /\ Types[d.reason] = "EXACT_DUPLICATE" => d.exact > 0 /\ d.relevant # {}
    /\ Types[d.reason] \in {"CONFLICT_REVIEW", "APPLY_CORRECTION"} => d.active > 0
    /\ d.conflicts # {} => d.active >= 2 /\ Cardinality(d.relevant) >= 2

\* The evaluation raises PolicyInvariantError: its reads do not fit together.
PolicyRaises(cand, r) ==
    \/ ~_validate_context(r)
    \/ ~_validate_correction_context(cand, r)
    \/ /\ r.target # Nil /\ r.target.status = "active"
       /\ identity_for_record(r.target) = Identity(cand)
       /\ cand.prov \in CorrectionProvenance
       /\ cand.target \notin DOMAIN r.active
    \/ ~_validate_decision_shape(_decision(cand, r))
--------------------------------------------------------------------------------
(* The service: evaluate and apply, one read or write at a time. *)

Step(v, rec) == val' = [val EXCEPT ![v] = rec]

Applying(v) == val[v].mode = "apply" /\ val[v].phase # "idle"

\* A writer stays out while somebody applies a decision alone.
MayWrite(others) == \A d \in others : ~(Applying(d) /\ val[d].alone)

\* evaluate(candidate): the caller proposes a candidate.
evaluate(v, cand) ==
    /\ val[v].phase = "idle"
    /\ Step(v, [IdleValidator EXCEPT !.phase = "active", !.mode = "evaluate", !.cand = cand])
    /\ UNCHANGED vars

\* apply(decision): the caller hands back the decision it was given.  The code
\* takes no lock for it; a deployment may let it run alone among the writers.
apply(v, alone) ==
    /\ val[v].phase = "idle" /\ val[v].decision # Nil
    /\ MayWrite(Client \ {v})
    /\ alone => \A d \in Client \ {v} : ~Applying(d)
    /\ Step(v, [val[v] EXCEPT !.phase = "active", !.mode = "apply",
                              !.result = "none", !.alone = alone])
    /\ UNCHANGED vars

_active_memories(v) ==
    /\ val[v].phase = "active"
    /\ LET ids == {i \in Stored : /\ Active(i)
                                  /\ identity_for_record(memories[i])
                                       = Identity(val[v].cand)}
       IN  Step(v, [val[v] EXCEPT !.phase = "conflicts",
                                  !.reads.active = Restricted(ids)])
    /\ UNCHANGED vars

\* list_conflicts selects the open conflicts ...
SelectConflicts(v) ==
    /\ val[v].phase = "conflicts"
    /\ Step(v, [val[v] EXCEPT !.phase = "rows", !.reads.pairs = Unresolved])
    /\ UNCHANGED vars

\* Mutant: apply compares the reasons, not the decisions.
Conclude_reason(v, r) ==
    LET current == _decision(val[v].cand, r)
        done    == [val[v] EXCEPT !.phase = "idle", !.reads = NoReads]
    IN  Step(v,
          IF PolicyRaises(val[v].cand, r)
          THEN [done EXCEPT !.result = "PolicyInvariant"]
          ELSE IF val[v].mode = "evaluate"
          THEN [done EXCEPT !.decision = current, !.result = "decided"]
          ELSE IF /\ current.reason = val[v].decision.reason
                  /\ persistence_permitted(current) THEN [done EXCEPT !.phase = "write"]
          ELSE [done EXCEPT !.result = "StaleDecision"])

\* The evaluation ended with these reads.  evaluate returns the decision; apply
\* compares it with the one it was given.
Conclude(v, r) ==
    LET cand    == val[v].cand
        current == _decision(cand, r)
        done    == [val[v] EXCEPT !.phase = "idle", !.reads = NoReads]
    IN  Step(v,
          IF PolicyRaises(cand, r) THEN [done EXCEPT !.result = "PolicyInvariant"]
          ELSE IF val[v].mode = "evaluate"
          THEN [done EXCEPT !.decision = current, !.result = "decided"]
          ELSE IF current # val[v].decision
          THEN IF /\ persistence_permitted(val[v].decision)
                  /\ Types[current.reason] = "EXACT_DUPLICATE"
               THEN [done EXCEPT !.phase = "duplicate", !.reads.relevant = current.relevant]
               ELSE [done EXCEPT !.result = "StaleDecision"]
          ELSE IF Types[current.reason] = "EXACT_DUPLICATE"
          THEN [done EXCEPT !.phase = "duplicate", !.reads.relevant = current.relevant]
          ELSE IF ~persistence_permitted(current)
          THEN [done EXCEPT !.result = "DecisionNotApplicable"]
          ELSE [done EXCEPT !.phase = "write"])

\* ... and then reads the two memories of each, of which _active_conflicts keeps
\* those of the candidate's identity.  Memories only ever become inactive, so one
\* step for all these reads shows every outcome that separate reads can have.
_active_conflicts(v) ==
    /\ val[v].phase = "rows"
    /\ LET rows  == {{<<i, memories[i]>> : i \in p} : p \in val[v].reads.pairs}
           mine  == {p \in rows : \A m \in p :
                        identity_for_record(m[2]) = Identity(val[v].cand)}
           r     == [val[v].reads EXCEPT !.pairs = mine]
       IN  IF val[v].cand.target = Nil THEN Conclude(v, r)
           ELSE Step(v, [val[v] EXCEPT !.phase = "target", !.reads = r])
    /\ UNCHANGED vars

\* The first memory of t's chain of revisions.
RootOf(t) ==
    LET root[i \in Stored] == IF memories[i].supersedes = Nil THEN i
                              ELSE root[memories[i].supersedes]
    IN  root[t]

\* get_memory(correction_target_id); of an inactive target the walk of
\* get_revision_history then starts at the root of its chain.
ReadTarget(v) ==
    LET t == val[v].cand.target
        r == val[v].reads
    IN  /\ val[v].phase = "target"
        /\ IF t \notin Stored THEN Conclude(v, r)
           ELSE IF Active(t)
           THEN Conclude(v, [r EXCEPT !.target = memories[t]])
           ELSE Step(v, [val[v] EXCEPT
                    !.phase = "history", !.reads.target = memories[t],
                    !.reads.history = <<<<RootOf(t), memories[RootOf(t)]>>>>])
        /\ UNCHANGED vars

\* One turn of get_revision_history's second loop: the row that supersedes the
\* last one read, or the end of the history.
get_revision_history(v) ==
    LET h    == val[v].reads.history
        next == {i \in Stored : memories[i].supersedes = Last(h)[1]}
    IN  /\ val[v].phase = "history"
        /\ IF next = {} THEN Conclude(v, val[v].reads)
           ELSE \E i \in next :
                  Step(v, [val[v] EXCEPT !.reads.history = Append(h, <<i, memories[i]>>)])
        /\ UNCHANGED vars

\* A no-op application returns a relevant memory that is still active and equal.
_require_active_duplicate(v) ==
    LET cand  == val[v].cand
        equal == {i \in val[v].reads.relevant : /\ Active(i)
                     /\ identity_for_record(memories[i]) = Identity(cand)
                     /\ memories[i].value = cand.value}
        done  == [val[v] EXCEPT !.phase = "idle", !.reads = NoReads]
    IN  /\ val[v].phase = "duplicate"
        /\ \/ /\ equal = {}
              /\ Step(v, [done EXCEPT !.result = "PolicyInvariant"])
           \/ /\ equal # {}
              /\ Step(v, [done EXCEPT !.result = "no_op"])
        /\ UNCHANGED vars

\* The write apply ends with: a new memory, or the correction of the target.
CreateApplied(v) ==
    /\ val[v].phase = "write" /\ val[v].cand.target = Nil
    /\ \E i \in MemoryId : create_memory(v, i, Identity(val[v].cand), val[v].cand.value)
    /\ Step(v, [val[v] EXCEPT !.phase = "writing"])

\* Mutant: the correction is stored as a memory of its own.
CorrectApplied_mutant(v) ==
    LET cand == val[v].cand IN
    /\ val[v].phase = "write" /\ cand.target # Nil
    /\ \E i \in MemoryId : create_memory(v, i, Identity(cand), cand.value)
    /\ Step(v, [val[v] EXCEPT !.phase = "writing"])

CorrectApplied(v) ==
    LET cand == val[v].cand IN
    /\ val[v].phase = "write" /\ cand.target # Nil
    /\ \E i \in MemoryId : correct_memory(v, cand.target, i, cand.value, cand.prov)
    /\ Step(v, [val[v] EXCEPT !.phase = "writing"])

\* The Memory OS call returned or raised, and is over.
Applied(v) ==
    /\ val[v].phase = "writing" /\ call[v].phase # "store"
    /\ Step(v, IF call[v].phase = "ok"
               THEN [val[v] EXCEPT !.phase = "idle", !.result = "applied",
                                      !.applied = IF @ < 2 THEN @ + 1 ELSE @]
               ELSE [val[v] EXCEPT !.phase = "idle", !.result = "StoreError"])
    /\ Enter(v, NoCall)
    /\ UNCHANGED <<memories, conflicts, clock>>
--------------------------------------------------------------------------------
(* The composed system. *)

StoreSteps(v) == StoreAdd(v) \/ StoreCorrect(v)

\* A transaction of the environment that commits; one that fails is a stutter.
OthersAdd ==
    \E i \in MemoryId \ Stored, k \in Key, w \in Value :
        LET o  == [NoCall EXCEPT !.id = i, !.key = k, !.value = w, !.at = clock]
            ms == _insert_memory(memories, i, NewRow(o))
        IN  /\ memories' = ms
            /\ conflicts' = WithConflictsOf(conflicts, ms, i, clock)

OthersCorrect ==
    \E t, i \in MemoryId, w \in Value :
        /\ Active(t)
        /\ LET o == [NoCall EXCEPT !.id = i, !.key = memories[t].key, !.value = w,
                                   !.at = clock, !.target = t]
           IN  /\ CorrectCheck(o) = "ok"
               /\ memories' = Corrected(o) /\ conflicts' = CorrectedConflicts(o)

OthersRetract ==
    \E t \in MemoryId :
        /\ RetractCheck([NoCall EXCEPT !.target = t, !.at = clock]) = "ok"
        /\ memories' = SetStatus(memories, t, "retracted", clock)
        /\ conflicts' = _resolve_conflicts(conflicts, t, clock, Nil)

OthersWrite ==
    /\ MayWrite(Client)
    /\ \/ "create" \in OtherWrites /\ OthersAdd
       \/ "correct" \in OtherWrites /\ OthersCorrect
       \/ "retract" \in OtherWrites /\ OthersRetract
    /\ UNCHANGED <<clock, call, val>>

ValidatorSteps(v) ==
    \/ \E cand \in Candidate : evaluate(v, cand)
    \/ \E alone \in BOOLEAN : apply(v, alone)
    \/ _active_memories(v) \/ SelectConflicts(v) \/ _active_conflicts(v)
    \/ ReadTarget(v) \/ get_revision_history(v) \/ _require_active_duplicate(v)
    \/ CreateApplied(v) \/ CorrectApplied(v) \/ Applied(v)

VInit == Init /\ val = [v \in Client |-> IdleValidator]

VNext ==
    \/ \E v \in Client : \/ ValidatorSteps(v)
                         \/ (StoreSteps(v) \/ TransactionFails(v)) /\ UNCHANGED val
    \/ OthersWrite

VSpec == VInit /\ [][VNext]_allVars
--------------------------------------------------------------------------------
(* Properties. *)

\* The history of t as one consistent read returns it.
HistoryNow(t) ==
    LET upTo[i \in Stored] == IF memories[i].supersedes = Nil THEN <<i>>
                              ELSE Append(upTo[memories[i].supersedes], i)
        tip == CHOOSE i \in Stored : /\ t \in ToSet(upTo[i])
                                     /\ \A j \in Stored : memories[j].supersedes # i
    IN  [n \in DOMAIN upTo[tip] |-> <<upTo[tip][n], memories[upTo[tip][n]]>>]

\* What evaluate would read if nothing else ran meanwhile.
ReadsNow(cand) ==
    LET mine(i) == identity_for_record(memories[i]) = Identity(cand) IN
    [active   |-> Restricted({i \in Stored : Active(i) /\ mine(i)}),
     pairs    |-> {{<<i, memories[i]>> : i \in p} :
                     p \in {q \in Unresolved : \A i \in q : mine(i)}},
     target   |-> IF cand.target \in Stored THEN memories[cand.target] ELSE Nil,
     history  |-> IF cand.target \in Stored /\ ~Active(cand.target)
                  THEN HistoryNow(cand.target) ELSE <<>>,
     relevant |-> {}]

\* The validator's state has its type.
VTypeOK ==
    /\ TypeOK
    /\ \A v \in Client :
          /\ val[v].phase \in {"idle", "active", "conflicts", "rows", "target",
                               "history", "duplicate", "write", "writing"}
          /\ val[v].phase # "idle" => val[v].cand \in Candidate
          /\ val[v].phase \in {"write", "writing"} =>
                persistence_permitted(val[v].decision)
          /\ val[v].phase = "idle" => val[v].reads = NoReads

\* Whatever the clients have stored, a consistent read of it passes every check
\* of _validate_context, _validate_correction_context and ValidationDecision: the
\* policy's demands on the Memory OS are met by the Memory OS, and a
\* PolicyInvariantError can only come from reads torn apart by a writer.
PolicyAccepts ==
    \A cand \in Candidate : ~PolicyRaises(cand, ReadsNow(cand))

\* v's Memory OS call commits in this step.
Committing(v) == call[v].phase = "store" /\ call'[v].phase = "ok"

\* However stale the reads a correction was decided on, what apply commits is the
\* correction of an active memory of the candidate's own identity to another
\* value.
CorrectionsJustified ==
    [][ \A v \in Client : Committing(v) /\ call[v].op = "correct" =>
          LET cand == val[v].cand  t == cand.target IN
          /\ Active(t) /\ memories[t].key = Identity(cand)
          /\ memories[t].value # cand.value ]_allVars

\* A correction decision that is applied again and again changes the store once,
\* whatever the other clients do in between.
CorrectionAppliedOnce ==
    \A v \in Client : val[v].decision # Nil =>
        (Types[val[v].decision.reason] = "APPLY_CORRECTION" => val[v].applied <= 1)

\* An application that runs alone, as the policy asks of deployments that need it,
\* is a compare-and-write: at the moment of the commit the store still yields
\* exactly the decision being applied.
AppliedAsDecided ==
    [][ \A v \in Client : Committing(v) /\ val[v].alone =>
          _decision(val[v].cand, ReadsNow(val[v].cand)) = val[v].decision ]_allVars

\* ... and apply never raises PolicyInvariantError.
ApplyNeverTorn ==
    \A v \in Client :
        val[v].mode = "apply" /\ val[v].alone => val[v].result # "PolicyInvariant"

\* apply may be interrupted, repeated and raced: a correction is still stored at
\* most once, and an application that runs alone never meets reads that do not
\* fit together.
ApplySound == VTypeOK /\ CorrectionAppliedOnce /\ ApplyNeverTorn
================================================================================
