------------------------- MODULE MCPolicyLifecycle -------------------------
(***************************************************************************)
(* Seven starting points, from a caller that holds nothing to one that     *)
(* holds promotion decisions, so that every stage meets documents made     *)
(* from different demonstrations, candidates and reports, and registration *)
(* meets every limit.                                                      *)
(***************************************************************************)
EXTENDS PolicyLifecycle

Definition(kind, authority, assertions, required) ==
    [kind |-> kind, authority |-> authority, assertions |-> assertions,
     required |-> required, steps |-> {{a} : a \in assertions}]

MCScenarioOf ==
    [neck    |-> Definition("motion", "development", {"command_completed", "logged"}, {"command_completed"}),
     prod    |-> Definition("defer", "none", {"stationary"}, {"stationary"}),
     invalid |-> Definition("invalid", "development", {"rejected"}, {"rejected"}),
     idle    |-> Definition("generic", "none", {"observed"}, {"observed"})]

Answer(results, cleanup) ==
    [results |-> results, cleanup |-> cleanup, remaining |-> IF cleanup = "clean" THEN 0 ELSE 1,
     development |-> FALSE, deferred |-> TRUE, dispatched |-> 0]

AnswersOf(assertions) ==
    {Answer(f, c) : f \in [assertions -> {"pass", "fail", "not_applicable"}],
                    c \in {"clean", "incomplete"}}

MCAnswers ==
    [neck    |-> AnswersOf({"command_completed", "logged"}),
     prod    |-> AnswersOf({"stationary"}) \cup
                    {[Answer([a \in {"stationary"} |-> "pass"], "clean") EXCEPT !.dispatched = 1]},
     invalid |-> AnswersOf({"rejected"}),
     idle    |-> AnswersOf({"observed"})]

Event(id, index, time) == [id |-> id, index |-> index, time |-> time, action |-> None]

MCEvents == {Event(1, 0, 2), Event(2, 1, 1), Event(2, 1, 3), Event(3, 1, 4),
             Event(1, 1, 3), Event(3, 2, 3), Event(4, 0, None)}
            \cup {Event(i + 3, i, 3) : i \in 3..7}

MCSourceRange == [start |-> 1, end |-> 3]

\* Lessons of one, two and three events.
Lesson(n, outcome) ==
    Episode(Teacher, MCSourceRange,
            SubSeq(<<Event(1, 0, 2), Event(2, 1, 3), Event(3, 2, 3)>>, 1, n), outcome)

t1 == Lesson(1, "success")
t2 == Lesson(2, "failure")
t3 == Lesson(3, "success")
e1 == Reference(t1, t1.outcome)
e2 == Reference(t2, t2.outcome)
e3 == Reference(t3, t3.outcome)

root  == [family |-> "f", version |-> 1, contract |-> "k", derived |-> FALSE]
child == [family |-> "f", version |-> 2, contract |-> "k", derived |-> TRUE]
other == [family |-> "f", version |-> 3, contract |-> "m", derived |-> TRUE]
MCBlueprints == {root, child, other}

strict == [dispositions |-> {"meets"}, minimum |-> 1, maximumFailed |-> 0,
           complete |-> TRUE, stages |-> {"reviewed"}]
loose  == [dispositions |-> Dispositions, minimum |-> 1, maximumFailed |-> 1,
           complete |-> FALSE, stages |-> {"reviewed"}]
MCRules == {strict, loose}

MCRollbackRules == {[reasons |-> {"evaluation_regression"}, minimum |-> 1]}
MCRollbackClaims == {[reason |-> "evaluation_regression", kinds |-> {"evaluation_report"}],
                     [reason |-> "evaluation_regression", kinds |-> {"safety_review"}],
                     [reason |-> "safety_regression", kinds |-> {"safety_review"}]}

MCAuthorities == {[name |-> "o", status |-> "verified", proof |-> "x"],
                  [name |-> "o", status |-> "revoked", proof |-> "y"],
                  [name |-> "p", status |-> "unverified", proof |-> None]}

Limit(e, c, k, r, d, s, x, a, v) ==
    [episodes |-> e, corpora |-> c, candidates |-> k, reports |-> r, promotions |-> d,
     snapshots |-> s, rollbacks |-> x, approvals |-> a, activations |-> v]

Library(es, cs, ks, rs, ds, l) ==
    [episodes |-> es, corpora |-> cs, candidates |-> ks, reports |-> rs,
     promotions |-> ds, limit |-> l]

split1 == [candidate |-> {e1}, holdout |-> {e2}]
split2 == [candidate |-> {e2}, holdout |-> {e1}]
split3 == [candidate |-> {e1}, holdout |-> {e2, e3}]

k1 == Candidate(root, {e1}, None)
k2 == Candidate(child, {e1}, k1)
k3 == Candidate(root, {e2}, None)
k4 == Candidate(other, {e1}, k1)
k5 == Candidate([root EXCEPT !.family = "g"], {e1}, None)
k6 == Candidate([root EXCEPT !.version = 4], {e1}, None)

Good(c, k)  == Report(c, k, {Trial(k, e, e.outcome) : e \in c.holdout})
Poor(c, k)  == Report(c, k, {Trial(k, e, "deferred") : e \in c.holdout})

Promoted(rule, k, r) ==
    LET criteria == Criteria(rule, k, r.corpus.holdout)
    IN  Decision(criteria, PromotionRequest(k, r, criteria, "reviewed"), k, r)

\* The records of k6 differ in length: a snapshot of two is too big with the one
\* its loose criteria give.
MCOversized(documents) ==
    \E i \in DOMAIN documents :
        /\ Cardinality(documents[i]) > 1
        /\ \E r \in documents[i] : r.candidate = k6 /\ r.decision.criteria.rule = loose

MCLibraries ==
    {Library({}, {}, {}, {}, {}, Limit(2, 0, 0, 0, 0, 1, 0, 0, 0)),
     Library({t1, t2}, {}, {}, {}, {}, Limit(2, 1, 1, 1, 1, 2, 0, 1, 1)),
     Library({t1, t2, t3}, {split1, split2, split3}, {k3}, {}, {}, Limit(3, 3, 2, 2, 0, 1, 0, 0, 0)),
     Library({t1, t2}, {split1, split2}, {k1, k3}, {Good(split1, k1), Poor(split2, k3)},
             {}, Limit(2, 2, 2, 2, 1, 2, 0, 0, 0)),
     Library({t1, t2}, {split1, split2}, {k1, k2, k3}, {Good(split1, k1), Poor(split1, k2), Good(split2, k3)},
             {Promoted(strict, k1, Good(split1, k1)), Promoted(strict, k2, Poor(split1, k2)),
              Promoted(strict, k3, Good(split2, k3))},
             Limit(2, 2, 3, 3, 3, 2, 1, 0, 0)),
     Library({t1, t2}, {split1, split2}, {k1, k2, k3, k4},
             {Good(split1, k1), Poor(split1, k2), Good(split2, k3), Good(split1, k4)},
             {Promoted(strict, k1, Good(split1, k1)), Promoted(loose, k2, Poor(split1, k2)),
              Promoted(strict, k2, Poor(split1, k2)), Promoted(strict, k3, Good(split2, k3)),
              Promoted(strict, k4, Good(split1, k4))},
             Limit(2, 2, 4, 4, 5, 5, 0, 1, 1)),
     Library({t1, t2}, {split1}, {k1, k2, k5, k6},
             {Good(split1, k1), Poor(split1, k2), Good(split1, k5), Good(split1, k6)},
             {Promoted(strict, k1, Good(split1, k1)), Promoted(loose, k2, Poor(split1, k2)),
              Promoted(strict, k5, Good(split1, k5)), Promoted(strict, k6, Good(split1, k6)),
              Promoted(loose, k6, Good(split1, k6))},
             Limit(2, 1, 4, 4, 5, 5, 0, 0, 0))}
=============================================================================
