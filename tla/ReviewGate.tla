----------------------------- MODULE ReviewGate -----------------------------
(***************************************************************************)
(* What the decision chain promises, without its stages: documents are     *)
(* proposed, one step of a proposed document is cleared only under the     *)
(* policy in force at that moment, and only a cleared step is accepted.    *)
(* A later policy withdraws nothing that was cleared before it.            *)
(***************************************************************************)
CONSTANTS
    Policies,       \* the policies that may be in force
    Allowed(_, _)   \* whether a policy allows every step of a document

VARIABLES policy, proposed, cleared, accepted

vars == <<policy, proposed, cleared, accepted>>

Init ==
    /\ policy \in Policies
    /\ proposed = {} /\ cleared = {} /\ accepted = {}

Deploy == policy' \in Policies /\ UNCHANGED <<proposed, cleared, accepted>>

Propose == \E p \in proposed' : proposed' = proposed \cup {p} /\ UNCHANGED <<policy, cleared, accepted>>

Clear ==
    \E p \in proposed : \E s \in DOMAIN p.body.plan :
        /\ Allowed(policy, p)
        /\ cleared' = cleared \cup {<<p, s>>}
        /\ UNCHANGED <<policy, proposed, accepted>>

Accept ==
    \E c \in cleared :
        /\ accepted' = accepted \cup {c}
        /\ UNCHANGED <<policy, proposed, cleared>>

Next == Deploy \/ Propose \/ Clear \/ Accept

Spec == Init /\ [][Next]_vars
=============================================================================
