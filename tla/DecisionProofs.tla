---------------------------- MODULE DecisionProofs ----------------------------
(***************************************************************************)
(* Proofs about the two chains of documents at the end of which something  *)
(* is permitted: DecisionChain, a command that may leave, and              *)
(* PolicyLifecycle, a policy version that may be registered and released.  *)
(* They have no state in common; each part is about one of them.           *)
(***************************************************************************)
EXTENDS DecisionChain, PolicyLifecycle, FiniteSetTheorems, WellFoundedInduction, TLAPS

--------------------------------------------------------------------------------
(* DecisionChain, for any requests, capabilities and configurations.        *)

Disposition == {"eligible", "approval", "deferred", "blocked"}

--------------------------------------------------------------------------------
(* Choices: a least number and a highest disposition exist. *)

LEMMA LeastNumber ==
    ASSUME NEW S, S \subseteq Nat, S # {}
    PROVE  Min(S) \in S
<1> DEFINE R == {p \in Nat \X Nat : p[1] < p[2]}
<1>1. IsWellFoundedOn(R, Nat)
  BY NatLessThanWellFounded DEF OpToRel
<1>2. PICK x \in S : \A y \in S : ~ (<<y, x>> \in R)
  <2> HIDE DEF R
  <2> QED
    BY <1>1, WFMin
<1>3. ASSUME NEW y \in S PROVE x <= y
  <2>1. x \in Nat /\ y \in Nat /\ <<y, x>> \in Nat \X Nat
    OBVIOUS
  <2>2. ~ (<<y, x>> \in R)
    BY <1>2
  <2>3. ~ (y < x)
    BY <2>1, <2>2
  <2> QED
    BY <2>1, <2>3
<1> QED
  BY <1>3 DEF Min

LEMMA RankType ==
    ASSUME NEW x \in Disposition
    PROVE  Rank(x) \in 0..3
BY DEF Rank, Disposition

\* Dispositions of different ranks differ, so the highest one is unique.
LEMMA RankInjective ==
    ASSUME NEW x \in Disposition, NEW y \in Disposition, Rank(x) = Rank(y)
    PROVE  x = y
BY DEF Rank, Disposition

LEMMA HighestDisposition ==
    ASSUME NEW S, S \subseteq Disposition, S # {}
    PROVE  \E x \in S : \A y \in S : Rank(y) <= Rank(x)
<1>1. CASE "blocked" \in S
  BY <1>1 DEF Rank, Disposition
<1>2. CASE "blocked" \notin S /\ "deferred" \in S
  BY <1>2 DEF Rank, Disposition
<1>3. CASE "blocked" \notin S /\ "deferred" \notin S /\ "approval" \in S
  BY <1>3 DEF Rank, Disposition
<1>4. CASE S = {"eligible"}
  BY <1>4 DEF Rank, Disposition
<1> QED
  BY <1>1, <1>2, <1>3, <1>4 DEF Disposition

--------------------------------------------------------------------------------
(* The Safety Kernel. *)

\* The rule of every hazard class, and the least disposition it allows.
LEMMA HazardRuleFacts ==
    ASSUME NEW h
    PROVE  /\ HazardRule(h).disposition \in Disposition
           /\ HazardRule(h).disposition = MinimumDisposition(h)
           /\ HazardRule(h).disposition = "approval" => HazardRule(h).approvals # {}
           /\ HazardRule(h).disposition = "deferred" => HazardRule(h).prerequisites # {}
           /\ h = "unclassified" => HazardRule(h).disposition = "blocked"
           /\ HazardRule(h).disposition = "eligible" =>
                 h \in {"informational_read_only", "internal_non_actuating"}
BY DEF HazardRule, MinimumDisposition, Disposition

LEMMA HigherOfTwo ==
    ASSUME NEW a \in Disposition, NEW b \in Disposition, NEW m,
           m = CHOOSE x \in {a, b} : \A y \in {a, b} : Rank(y) <= Rank(x)
    PROVE  m \in {a, b} /\ Rank(a) <= Rank(m) /\ Rank(b) <= Rank(m)
<1> DEFINE S == {a, b}
<1>1. S \subseteq Disposition /\ S # {} /\ a \in S /\ b \in S
  OBVIOUS
<1>2. m = CHOOSE x \in S : \A y \in S : Rank(y) <= Rank(x)
  OBVIOUS
<1> HIDE DEF S
<1>3. \E x \in S : \A y \in S : Rank(y) <= Rank(x)
  BY <1>1, HighestDisposition
<1>4. m \in S /\ \A y \in S : Rank(y) <= Rank(m)
  BY <1>2, <1>3, Zenon
<1> QED
  BY <1>1, <1>4 DEF S

\* What a step's decision says of the step, of its rule and of itself.
LEMMA StepFacts ==
    ASSUME NEW rules, NEW step, NEW assumptions, NEW x,
           x = EvaluateStep(rules, step, assumptions)
    PROVE  /\ x.disposition \in Disposition
           /\ StepDecisionShape(x)
           /\ x.hazard = IF rules[step.capability] = Absent THEN "unclassified"
                         ELSE rules[step.capability].hazard
           /\ x.disposition = "eligible" =>
                 /\ x.approvals = {} /\ step.approvals = {} /\ assumptions = {}
                 /\ rules[step.capability] # Absent
                 /\ x.hazard \in {"informational_read_only", "internal_non_actuating"}
           /\ x.disposition = "approval" => x.approvals # {}
<1> DEFINE rule   == rules[step.capability]
           hazard == IF rule = Absent THEN "unclassified" ELSE rule.hazard
           base   == HazardRule(hazard)
           lacking == IF rule = Absent THEN {}
                      ELSE (rule.preconditions \ step.preconditions)
                           \cup {c \in rule.constraints : \A y \in step.constraints : y.id # c}
           Approvals == base.approvals \cup {a.id : a \in step.approvals}
           prerequisites == lacking \cup base.prerequisites \cup {a.id : a \in assumptions}
           blocked == lacking # {} \/ step.result \notin ExpectedResults(hazard)
           needed  == IF prerequisites # {} THEN "deferred"
                      ELSE IF Approvals # {} THEN "approval" ELSE "eligible"
           higher  == CHOOSE d \in {base.disposition, needed} :
                         \A y \in {base.disposition, needed} : Rank(y) <= Rank(d)
<1>1. /\ x.hazard = hazard /\ x.approvals = Approvals /\ x.prerequisites = prerequisites
      /\ x.disposition = IF blocked THEN "blocked" ELSE higher
  BY DEF EvaluateStep
<1>2. /\ base.disposition \in Disposition
      /\ base.disposition = MinimumDisposition(hazard)
      /\ base.disposition = "approval" => base.approvals # {}
      /\ base.disposition = "deferred" => base.prerequisites # {}
      /\ hazard = "unclassified" => base.disposition = "blocked"
      /\ base.disposition = "eligible" =>
            hazard \in {"informational_read_only", "internal_non_actuating"}
  BY HazardRuleFacts
<1>3. /\ step.approvals # {} => Approvals # {}
      /\ base.approvals # {} => Approvals # {}
      /\ base.prerequisites # {} => prerequisites # {}
      /\ assumptions # {} => prerequisites # {}
  OBVIOUS
<1>4. needed \in Disposition
  BY DEF Disposition
<1>5. rule = Absent => hazard = "unclassified"
  OBVIOUS
<1>6. needed = IF prerequisites # {} THEN "deferred"
               ELSE IF Approvals # {} THEN "approval" ELSE "eligible"
  OBVIOUS
<1> HIDE DEF base, Approvals, prerequisites, hazard, blocked, needed
<1>7. /\ higher \in {base.disposition, needed}
      /\ Rank(base.disposition) <= Rank(higher) /\ Rank(needed) <= Rank(higher)
  BY <1>2, <1>4, HigherOfTwo
<1>8. /\ Rank("eligible") = 0 /\ Rank("approval") = 1
      /\ Rank("deferred") = 2 /\ Rank("blocked") = 3
  BY DEF Rank
<1> HIDE DEF higher
<1>9. x.disposition \in Disposition
  BY <1>1, <1>2, <1>4, <1>7 DEF Disposition
<1>10. x.disposition = "eligible" => base.disposition = "eligible" /\ needed = "eligible"
  BY <1>1, <1>2, <1>4, <1>7, <1>8 DEF Disposition
<1>11. x.disposition = "approval" =>
          needed # "deferred" /\ (needed = "approval" \/ base.disposition = "approval")
  BY <1>1, <1>2, <1>4, <1>7, <1>8 DEF Disposition
<1>12. x.disposition = "deferred" => needed = "deferred" \/ base.disposition = "deferred"
  BY <1>1, <1>7
<1>13. Rank(base.disposition) <= Rank(x.disposition)
  BY <1>1, <1>2, <1>7, <1>8 DEF Disposition
<1>14. base.disposition = "blocked" => x.disposition = "blocked"
  BY <1>8, <1>9, <1>13 DEF Disposition
<1>15. x.disposition = "eligible" => x.approvals = {} /\ x.prerequisites = {}
  BY <1>1, <1>6, <1>10
<1>16. x.disposition = "approval" => x.approvals # {} /\ x.prerequisites = {}
  BY <1>1, <1>2, <1>3, <1>6, <1>11
<1>17. x.disposition = "deferred" => x.prerequisites # {}
  BY <1>1, <1>2, <1>3, <1>6, <1>12
<1>18. StepDecisionShape(x)
  BY <1>1, <1>2, <1>13, <1>14, <1>15, <1>16, <1>17 DEF StepDecisionShape
<1>19. x.disposition = "eligible" =>
          /\ x.approvals = {} /\ step.approvals = {} /\ assumptions = {}
          /\ rule # Absent
          /\ hazard \in {"informational_read_only", "internal_non_actuating"}
  BY <1>1, <1>2, <1>3, <1>5, <1>10, <1>15
<1> QED
  BY <1>1, <1>9, <1>16, <1>18, <1>19 DEF hazard

\* What the decision on a whole plan says of its steps.
LEMMA ReviewFacts ==
    ASSUME NEW p, NEW pol, DOMAIN p.body.plan # {}, NEW review, review = Review(p, pol)
    PROVE  /\ review.proposal = p /\ review.policy = pol
           /\ DOMAIN review.steps = DOMAIN p.body.plan
           /\ \A s \in DOMAIN p.body.plan :
                 /\ review.steps[s] =
                       EvaluateStep(PolicyOf[pol], p.body.plan[s],
                                    IF s = FirstStep(p.body.plan) THEN p.body.assumptions ELSE {})
                 /\ review.steps[s].disposition \in Disposition
                 /\ Rank(review.steps[s].disposition) <= Rank(review.disposition)
           /\ review.disposition \in Disposition
           /\ \E s \in DOMAIN p.body.plan : review.steps[s].disposition = review.disposition
<1> DEFINE steps == [s \in DOMAIN p.body.plan |->
                        EvaluateStep(PolicyOf[pol], p.body.plan[s],
                                     IF s = FirstStep(p.body.plan) THEN p.body.assumptions ELSE {})]
           S == {steps[s].disposition : s \in DOMAIN steps}
<1>1. /\ review.proposal = p /\ review.policy = pol /\ review.steps = steps
      /\ review.disposition = CHOOSE x \in S : \A s \in DOMAIN steps :
                                 Rank(steps[s].disposition) <= Rank(x)
  BY DEF Review
<1>2. ASSUME NEW s \in DOMAIN p.body.plan
      PROVE  steps[s].disposition \in Disposition
  BY StepFacts
<1>3. PICK x \in S : \A y \in S : Rank(y) <= Rank(x)
  <2>1. S \subseteq Disposition /\ S # {}
    BY <1>2
  <2> HIDE DEF S
  <2> QED
    BY <2>1, HighestDisposition
<1>4. \A s \in DOMAIN steps : Rank(steps[s].disposition) <= Rank(x)
  BY <1>3
<1>5. /\ review.disposition \in S
      /\ \A s \in DOMAIN steps : Rank(steps[s].disposition) <= Rank(review.disposition)
  <2> HIDE DEF S, steps
  <2>1. \E y \in S : \A s \in DOMAIN steps : Rank(steps[s].disposition) <= Rank(y)
    BY <1>3, <1>4
  <2> QED
    BY <1>1, <2>1, Zenon
<1>6. PICK t \in DOMAIN p.body.plan : review.disposition = steps[t].disposition
  BY <1>5
<1>7. review.disposition \in Disposition
  BY <1>2, <1>6
<1>8. DOMAIN review.steps = DOMAIN p.body.plan
  BY <1>1
<1>9. ASSUME NEW s \in DOMAIN p.body.plan
      PROVE  /\ review.steps[s] =
                   EvaluateStep(PolicyOf[pol], p.body.plan[s],
                                IF s = FirstStep(p.body.plan) THEN p.body.assumptions ELSE {})
             /\ review.steps[s] = steps[s]
             /\ Rank(steps[s].disposition) <= Rank(review.disposition)
  BY <1>1, <1>5
<1> HIDE DEF steps
<1> QED
  BY <1>1, <1>2, <1>6, <1>7, <1>8, <1>9

\* A decision that leaves a plan eligible leaves every step of it eligible.
LEMMA EligibleEverywhere ==
    ASSUME NEW p, NEW pol, DOMAIN p.body.plan # {}, NEW review, review = Review(p, pol),
           review.disposition = "eligible", NEW s \in DOMAIN p.body.plan
    PROVE  review.steps[s].disposition = "eligible"
<1>1. /\ review.steps[s].disposition \in Disposition
      /\ Rank(review.steps[s].disposition) <= Rank("eligible")
  BY ReviewFacts
<1> QED
  BY <1>1 DEF Disposition, Rank

--------------------------------------------------------------------------------
(* The Skill Manager and the Runtime Bridge. *)

\* A binding is made of a review; one that is not refused fits its skill, and
\* its status is the disposition of the whole plan.
Bound(b) ==
    /\ b.status \in {"eligible", "approval", "ineligible"}
    /\ (b.status = "ineligible") <=> (b.reason # "none")
    /\ b.status # "ineligible" =>
          /\ Compatible(b.selection, b.review.proposal, b.review)
          /\ b.review.disposition = b.status

LEMMA BindFacts ==
    ASSUME NEW p, NEW review, NEW sel, NEW pol, NEW reg,
           Bindable(p, review, pol), NEW b, b = Bind(p, review, sel, pol, reg)
    PROVE  /\ Bound(b) /\ b.review = review /\ b.selection = sel
           /\ b.status = "eligible" =>
                 /\ review.proposal = p /\ review = Review(p, pol)
                 /\ review.disposition = "eligible"
                 /\ Inspectable(p) /\ Intact(p) /\ sel.step \in DOMAIN p.body.plan
<1>1. CASE b.status = "ineligible"
  <2>1. b.reason # "none" /\ b.review = review /\ b.selection = sel
    BY <1>1 DEF Bind, Ineligible
  <2> QED
    BY <1>1, <2>1 DEF Bound
<1>2. CASE b.status # "ineligible"
  <2>1. /\ ~ReviewStale(review, p, pol)
        /\ review.disposition # "blocked" /\ review.disposition # "deferred"
        /\ Compatible(sel, p, review)
        /\ b = [status |-> IF review.disposition = "approval" THEN "approval" ELSE "eligible",
                reason |-> "none", selection |-> sel, review |-> review]
    BY <1>2 DEF Bind, Ineligible
  <2>2. review.proposal = p /\ review.policy = pol
    BY <2>1 DEF ReviewStale
  <2>3. Inspectable(p) /\ Intact(p) /\ review = Review(p, pol)
    BY <2>1 DEF Bindable
  <2>4. DOMAIN p.body.plan # {}
    BY <2>3 DEF Inspectable, InspectPlan
  <2>5. review.disposition \in Disposition
    BY <2>3, <2>4, ReviewFacts
  <2>6. b.status = review.disposition
    BY <2>1, <2>5 DEF Disposition
  <2>7. sel.step \in DOMAIN p.body.plan
    BY <2>1 DEF Compatible
  <2> QED
    BY <2>1, <2>2, <2>3, <2>6, <2>7 DEF Bound
<1> QED
  BY <1>1, <1>2

\* The bridge's answer for a binding.
LEMMA EligibilityFacts ==
    ASSUME NEW b, Bound(b), NEW reg, NEW d, d = Eligibility(b, reg)
    PROVE  /\ d.binding = b /\ d.registry = reg
           /\ d.status = "eligible" =>
                 /\ b.status = "eligible"
                 /\ d.endpoint \in Resolve(EndpointsOf[reg], b)
                 /\ d.endpoint.definition = b.selection.definition
           /\ d.status # "eligible" => d.endpoint = Absent
           /\ d.status = "approval_required" => b.status = "approval"
           /\ d.status = "blocked" => b.reason = "safety_blocked"
           /\ d.status = "deferred" => b.reason = "safety_deferred"
<1> DEFINE found == Resolve(EndpointsOf[reg], b)
           e == CHOOSE x \in found : TRUE
<1>1. found # {} => e \in found
  OBVIOUS
<1>2. CASE b.status = "ineligible"
  BY <1>2 DEF Eligibility
<1>3. CASE b.status = "approval"
  BY <1>3 DEF Eligibility
<1>4. CASE b.status = "eligible"
  <2>1. d = IF found = {}
            THEN [status |-> "rejected", binding |-> b, registry |-> reg, endpoint |-> Absent]
            ELSE IF e.definition # b.selection.definition
            THEN [status |-> "stale", binding |-> b, registry |-> reg, endpoint |-> Absent]
            ELSE IF ~e.available
            THEN [status |-> "unavailable", binding |-> b, registry |-> reg, endpoint |-> Absent]
            ELSE [status |-> "eligible", binding |-> b, registry |-> reg, endpoint |-> e]
    BY <1>4 DEF Eligibility
  <2> HIDE DEF found, e
  <2>2. d.status = "eligible" => found # {} /\ d.endpoint = e
                                 /\ e.definition = b.selection.definition
    BY <2>1
  <2>3. /\ d.binding = b /\ d.registry = reg
        /\ d.status \in {"rejected", "stale", "unavailable", "eligible"}
        /\ d.status # "eligible" => d.endpoint = Absent
    BY <2>1
  <2> QED
    BY <1>1, <1>4, <2>2, <2>3 DEF found
<1> QED
  BY <1>2, <1>3, <1>4 DEF Bound

--------------------------------------------------------------------------------
(* The inductive invariant: every document still says where it came from. *)

\* What a caller holds as a plan was made by the Executive, or is a copy of
\* what it made with another plan.
Traced(p) ==
    \E r \in Requests, c \in Contexts, g \in Contracts :
        /\ WellFormed(Evaluate(r, c, g))
        /\ p.identity = DecisionIdentity(Evaluate(r, c, g))
        /\ p.body = [Evaluate(r, c, g) EXCEPT !.plan = p.body.plan]

ConfigurationTypes ==
    /\ context \in Contexts /\ contract \in Contracts /\ policy \in Policies
    /\ skills \in SkillRegistries /\ endpoints \in EndpointRegistries
    /\ changes \in 0..MaxChanges /\ uses \in 0..MaxUses

PlansTraced == \A p \in plans : Traced(p)

\* A review is what the kernel says of a plan that nobody altered.
ReviewMade(review) ==
    /\ review.proposal \in plans /\ review.policy \in Policies
    /\ Inspectable(review.proposal) /\ Intact(review.proposal)
    /\ review = Review(review.proposal, review.policy)

ReviewsMade == \A review \in reviews : ReviewMade(review)

BindingsMade == \A b \in bindings : b.review \in reviews /\ Bound(b)

DecisionsMade ==
    \A d \in decisions :
        /\ d.binding \in bindings /\ d.registry \in EndpointRegistries
        /\ d = Eligibility(d.binding, d.registry)

SentEligible == \A d \in sent : d \in decisions /\ d.status = "eligible"

NothingReleased == commands = {}

IInv ==
    /\ ConfigurationTypes /\ PlansTraced /\ ReviewsMade /\ BindingsMade /\ DecisionsMade
    /\ SentEligible /\ NothingReleased

LEMMA InitIInv ==
    ASSUME Init
    PROVE  IInv
<1>1. ConfigurationTypes
  BY ReferencesResolve, BoundsAssumption DEF Init, ConfigurationTypes
<1> QED
  BY <1>1 DEF Init, IInv, PlansTraced, ReviewsMade, BindingsMade, DecisionsMade,
              SentEligible, NothingReleased

\* A decision as a record: replacing its plan by its plan changes nothing.
LEMMA EvaluateRecord ==
    ASSUME NEW r, NEW c, NEW g, NEW d, d = Evaluate(r, c, g)
    PROVE  /\ d.request = r /\ d.snapshot = c
           /\ [d EXCEPT !.plan = d.plan] = d
<1>1. d = [request |-> r, type |-> d.type, refs |-> d.refs, snapshot |-> c,
           contract |-> d.contract, approvals |-> d.approvals,
           assumptions |-> d.assumptions, constraints |-> d.constraints, plan |-> d.plan]
  BY DEF Evaluate
<1> QED
  BY <1>1

\* What is traced and intact is what the Executive made.
LEMMA IntactIsMade ==
    ASSUME NEW p, Traced(p), Intact(p)
    PROVE  \E r \in Requests, c \in Contexts, g \in Contracts :
              WellFormed(Evaluate(r, c, g)) /\ p.body = Evaluate(r, c, g)
<1>1. PICK r \in Requests, c \in Contexts, g \in Contracts :
         /\ WellFormed(Evaluate(r, c, g))
         /\ p.identity = DecisionIdentity(Evaluate(r, c, g))
         /\ p.body = [Evaluate(r, c, g) EXCEPT !.plan = p.body.plan]
  BY DEF Traced
<1> DEFINE d == Evaluate(r, c, g)
<1>2. d = Evaluate(r, c, g)
  OBVIOUS
<1>3. p.identity = DecisionIdentity(d) /\ p.body = [d EXCEPT !.plan = p.body.plan]
  BY <1>1
<1> HIDE DEF d
<1>4. p.body.plan = d.plan
  BY <1>3 DEF Intact, DecisionIdentity
<1>5. [d EXCEPT !.plan = d.plan] = d
  BY <1>2, EvaluateRecord
<1>6. p.body = d
  BY <1>3, <1>4, <1>5
<1> QED
  BY <1>1, <1>2, <1>6

--------------------------------------------------------------------------------
(* Every step keeps it. *)

\* A copy with another parameter of a step still says where it came from.
LEMMA AlteredTraced ==
    ASSUME NEW p, Traced(p), NEW s \in DOMAIN p.body.plan, NEW v, NEW q,
           q = [p EXCEPT !.body.plan[s].parameters = v]
    PROVE  Traced(q)
<1>1. PICK r \in Requests, c \in Contexts, g \in Contracts :
         /\ WellFormed(Evaluate(r, c, g))
         /\ p.identity = DecisionIdentity(Evaluate(r, c, g))
         /\ p.body = [Evaluate(r, c, g) EXCEPT !.plan = p.body.plan]
  BY DEF Traced
<1>2. q.identity = p.identity
  OBVIOUS
<1>3. q.body = [p.body EXCEPT !.plan = q.body.plan]
  OBVIOUS
<1>4. q.body = [Evaluate(r, c, g) EXCEPT !.plan = q.body.plan]
  BY <1>1, <1>3
<1> QED
  BY <1>1, <1>2, <1>4 DEF Traced

\* A caller's papers are never lost, so what was said of them stays true.
LEMMA PapersKept ==
    ASSUME ReviewsMade, BindingsMade, DecisionsMade,
           plans \subseteq plans', reviews' = reviews, bindings' = bindings,
           decisions' = decisions
    PROVE  ReviewsMade' /\ BindingsMade' /\ DecisionsMade'
<1>1. \A review \in reviews : ReviewMade(review) => ReviewMade(review)'
  BY DEF ReviewMade
<1> QED
  BY <1>1 DEF ReviewsMade, BindingsMade, DecisionsMade

LEMMA ReconfigureIInv ==
    ASSUME IInv, Reconfigure
    PROVE  IInv' /\ policy' \in Policies /\ UNCHANGED <<papers, sent, commands>>
<1>1. ConfigurationTypes'
  BY BoundsAssumption DEF IInv, ConfigurationTypes, Reconfigure
<1>2. UNCHANGED <<plans, reviews, bindings, decisions, sent, commands>>
  BY DEF Reconfigure, papers
<1>3. PlansTraced' /\ SentEligible' /\ NothingReleased'
  BY <1>2 DEF IInv, PlansTraced, SentEligible, NothingReleased
<1>4. ReviewsMade' /\ BindingsMade' /\ DecisionsMade'
  BY <1>2, PapersKept DEF IInv
<1> QED
  BY <1>1, <1>2, <1>3, <1>4 DEF IInv, papers, ConfigurationTypes

LEMMA ProposeIInv ==
    ASSUME IInv, NEW r \in Requests, Propose(r)
    PROVE  /\ IInv' /\ UNCHANGED <<policy, bindings, sent>>
           /\ \E q : plans' = plans \cup {q}
<1> DEFINE d == Evaluate(r, context, contract)
<1>1. /\ WellFormed(d) /\ plans' = plans \cup {Seal(d)}
      /\ UNCHANGED <<world, changes, reviews, bindings, decisions, sent, commands, uses>>
  BY DEF Propose
<1>2. Traced(Seal(d))
  <2>1. d = Evaluate(r, context, contract) /\ context \in Contexts /\ contract \in Contracts
    BY DEF IInv, ConfigurationTypes
  <2> HIDE DEF d
  <2>2. [d EXCEPT !.plan = d.plan] = d
    BY <2>1, EvaluateRecord
  <2>3. Seal(d).body = d /\ Seal(d).identity = DecisionIdentity(d)
    BY DEF Seal
  <2> QED
    BY <1>1, <2>1, <2>2, <2>3 DEF Traced
<1> HIDE DEF d
<1>3. PlansTraced'
  BY <1>1, <1>2 DEF IInv, PlansTraced
<1>4. ReviewsMade' /\ BindingsMade' /\ DecisionsMade'
  BY <1>1, PapersKept DEF IInv
<1> QED
  BY <1>1, <1>3, <1>4 DEF IInv, ConfigurationTypes, SentEligible, NothingReleased, world

LEMMA AlterIInv ==
    ASSUME IInv, NEW p \in plans, Alter(p)
    PROVE  /\ IInv' /\ UNCHANGED <<policy, bindings, sent>>
           /\ \E q : plans' = plans \cup {q}
<1>1. PICK s \in DOMAIN p.body.plan, v \in Values :
         plans' = plans \cup {[p EXCEPT !.body.plan[s].parameters = v]}
  BY DEF Alter
<1> DEFINE q == [p EXCEPT !.body.plan[s].parameters = v]
<1>2. UNCHANGED <<world, changes, reviews, bindings, decisions, sent, commands, uses>>
  BY DEF Alter
<1>3. Traced(q)
  BY AlteredTraced DEF IInv, PlansTraced
<1>4. plans' = plans \cup {q}
  BY <1>1
<1> HIDE DEF q
<1>5. PlansTraced'
  BY <1>3, <1>4 DEF IInv, PlansTraced
<1>6. ReviewsMade' /\ BindingsMade' /\ DecisionsMade'
  BY <1>2, <1>4, PapersKept DEF IInv
<1> QED
  BY <1>2, <1>4, <1>5, <1>6
  DEF IInv, ConfigurationTypes, SentEligible, NothingReleased, world

LEMMA AssessIInv ==
    ASSUME IInv, NEW p \in plans, Assess(p)
    PROVE  IInv' /\ UNCHANGED <<policy, plans, bindings, sent>>
<1>1. /\ Inspectable(p) /\ Intact(p) /\ reviews' = reviews \cup {Review(p, policy)}
      /\ UNCHANGED <<world, changes, plans, bindings, decisions, sent, commands, uses>>
  BY DEF Assess
<1>2. Review(p, policy).proposal = p /\ Review(p, policy).policy = policy
  BY DEF Review
<1>3. ReviewsMade'
  BY <1>1, <1>2 DEF IInv, ReviewsMade, ReviewMade, ConfigurationTypes
<1> QED
  BY <1>1, <1>3
  DEF IInv, ConfigurationTypes, PlansTraced, BindingsMade, DecisionsMade, SentEligible,
      NothingReleased, world

LEMMA BindStepIInv ==
    ASSUME IInv, NEW p \in plans, NEW review \in reviews, NEW sel \in Selections,
           BindStep(p, review, sel)
    PROVE  /\ IInv' /\ UNCHANGED <<policy, plans, sent>>
           /\ \E b : /\ bindings' = bindings \cup {b} /\ b.review = review /\ b.selection = sel
                     /\ b.status = "eligible" =>
                           /\ review.proposal = p /\ review = Review(p, policy)
                           /\ review.disposition = "eligible"
                           /\ Inspectable(p) /\ Intact(p) /\ sel.step \in DOMAIN p.body.plan
<1> DEFINE b == Bind(p, review, sel, policy, skills)
<1>1. /\ Bindable(p, review, policy) /\ bindings' = bindings \cup {b}
      /\ UNCHANGED <<world, changes, plans, reviews, decisions, sent, commands, uses>>
  BY DEF BindStep
<1>2. /\ Bound(b) /\ b.review = review /\ b.selection = sel
      /\ b.status = "eligible" =>
            /\ review.proposal = p /\ review = Review(p, policy)
            /\ review.disposition = "eligible"
            /\ Inspectable(p) /\ Intact(p) /\ sel.step \in DOMAIN p.body.plan
  BY <1>1, BindFacts
<1> HIDE DEF b
<1>3. BindingsMade'
  BY <1>1, <1>2 DEF IInv, BindingsMade
<1>4. \A r \in reviews : ReviewMade(r) => ReviewMade(r)'
  BY <1>1 DEF ReviewMade
<1>5. IInv'
  BY <1>1, <1>3, <1>4
  DEF IInv, ConfigurationTypes, PlansTraced, ReviewsMade, DecisionsMade, SentEligible,
      NothingReleased, world
<1> QED
  BY <1>1, <1>2, <1>5 DEF world

LEMMA MatchIInv ==
    ASSUME IInv, NEW b \in bindings, Match(b)
    PROVE  IInv' /\ UNCHANGED <<policy, plans, bindings, sent>>
<1>1. /\ decisions' = decisions \cup {Eligibility(b, endpoints)}
      /\ UNCHANGED <<world, changes, plans, reviews, bindings, sent, commands, uses>>
  BY DEF Match
<1>2. Bound(b)
  BY DEF IInv, BindingsMade
<1>3. Eligibility(b, endpoints).binding = b /\ Eligibility(b, endpoints).registry = endpoints
  BY <1>2, EligibilityFacts
<1>4. DecisionsMade'
  BY <1>1, <1>3 DEF IInv, DecisionsMade, ConfigurationTypes
<1>5. \A r \in reviews : ReviewMade(r) => ReviewMade(r)'
  BY <1>1 DEF ReviewMade
<1> QED
  BY <1>1, <1>4, <1>5
  DEF IInv, ConfigurationTypes, PlansTraced, ReviewsMade, BindingsMade, SentEligible,
      NothingReleased, world

LEMMA DispatchIInv ==
    ASSUME IInv, NEW d \in decisions, NEW b \in bindings, Dispatch(d, b)
    PROVE  /\ IInv' /\ UNCHANGED <<policy, plans, bindings>>
           /\ sent' = sent \/ (sent' = sent \cup {d} /\ d.status = "eligible")
<1>1. /\ uses < MaxUses /\ uses' = uses + 1
      /\ UNCHANGED <<world, changes, papers, commands>>
  BY DEF Dispatch
<1>2. sent' = sent \/ (sent' = sent \cup {d} /\ d.status = "eligible")
  BY DEF Dispatch, DispatchStatus
<1>3. ConfigurationTypes'
  BY <1>1, BoundsAssumption DEF IInv, ConfigurationTypes, world
<1>4. ReviewsMade' /\ BindingsMade' /\ DecisionsMade'
  BY <1>1, PapersKept DEF IInv, papers
<1>5. SentEligible' /\ PlansTraced' /\ NothingReleased'
  BY <1>1, <1>2 DEF IInv, SentEligible, PlansTraced, NothingReleased, papers
<1> QED
  BY <1>1, <1>2, <1>3, <1>4, <1>5 DEF IInv, world, papers

\* What an eligible decision rests on: a plan of the Executive that nobody
\* altered, a review that leaves every step of it eligible, and a skill that
\* fits the one step.
LEMMA EligibleDecision ==
    ASSUME IInv, NEW d \in decisions, d.status = "eligible",
           NEW review, review = d.binding.review, NEW p, p = review.proposal,
           NEW sel, sel = d.binding.selection
    PROVE  /\ p \in plans /\ Inspectable(p) /\ Intact(p)
           /\ review = Review(p, review.policy) /\ review.disposition = "eligible"
           /\ Compatible(sel, p, review)
           /\ d.binding \in bindings /\ d.binding.status = "eligible"
           /\ d.endpoint \in Resolve(EndpointsOf[d.registry], d.binding)
           /\ d.endpoint.definition = sel.definition
<1>1. /\ d.binding \in bindings /\ Bound(d.binding) /\ d.binding.review \in reviews
      /\ d = Eligibility(d.binding, d.registry)
  BY DEF IInv, DecisionsMade, BindingsMade
<1>2. /\ d.binding.status = "eligible"
      /\ d.endpoint \in Resolve(EndpointsOf[d.registry], d.binding)
      /\ d.endpoint.definition = d.binding.selection.definition
  BY <1>1, EligibilityFacts
<1>3. Compatible(sel, p, review) /\ review.disposition = "eligible"
  BY <1>1, <1>2 DEF Bound
<1>4. ReviewMade(review)
  BY <1>1 DEF IInv, ReviewsMade
<1> QED
  BY <1>1, <1>2, <1>3, <1>4 DEF ReviewMade

\* The hazard of a step of an eligible review.
LEMMA EligibleStep ==
    ASSUME NEW p, NEW pol, InspectPlan(p.body), NEW review, review = Review(p, pol),
           review.disposition = "eligible", NEW s \in DOMAIN p.body.plan
    PROVE  /\ review.steps[s].hazard \in {"informational_read_only", "internal_non_actuating"}
           /\ PolicyOf[pol][p.body.plan[s].capability] # Absent
           /\ review.steps[s].hazard = PolicyOf[pol][p.body.plan[s].capability].hazard
           /\ p.body.plan[s].approvals = {}
           /\ s = FirstStep(p.body.plan) => p.body.assumptions = {}
<1>1. DOMAIN p.body.plan # {}
  BY DEF InspectPlan
<1> DEFINE x == review.steps[s]
<1>2. /\ x = EvaluateStep(PolicyOf[pol], p.body.plan[s],
                   IF s = FirstStep(p.body.plan) THEN p.body.assumptions ELSE {})
  BY <1>1, ReviewFacts
<1>3. x.disposition = "eligible"
  BY <1>1, EligibleEverywhere
<1> HIDE DEF x
<1>4. /\ x.hazard = IF PolicyOf[pol][p.body.plan[s].capability] = Absent THEN "unclassified"
                    ELSE PolicyOf[pol][p.body.plan[s].capability].hazard
      /\ p.body.plan[s].approvals = {}
      /\ (IF s = FirstStep(p.body.plan) THEN p.body.assumptions ELSE {}) = {}
      /\ PolicyOf[pol][p.body.plan[s].capability] # Absent
      /\ x.hazard \in {"informational_read_only", "internal_non_actuating"}
  BY <1>2, <1>3, StepFacts
<1> QED
  BY <1>4 DEF x

\* The control boundary has nothing it may release.
LEMMA NothingAuthorizable ==
    ASSUME IInv, NEW d \in decisions, NEW b \in bindings
    PROVE  ~ Authorizable(d, b, endpoints)
<1> SUFFICES ASSUME d.status = "eligible",
                    d.binding.selection.definition.hazard = "physical_movement"
             PROVE  FALSE
  BY DEF Authorizable
<1> DEFINE review == d.binding.review
           p == review.proposal
           sel == d.binding.selection
<1>1. /\ Inspectable(p) /\ review = Review(p, review.policy)
      /\ review.disposition = "eligible" /\ Compatible(sel, p, review)
  BY EligibleDecision
<1>2. /\ sel.step \in DOMAIN p.body.plan
      /\ review.steps[sel.step].hazard = "physical_movement"
  BY <1>1 DEF Compatible
<1>3. InspectPlan(p.body)
  BY <1>1 DEF Inspectable
<1> HIDE DEF review, p, sel
<1>4. review.steps[sel.step].hazard \in {"informational_read_only", "internal_non_actuating"}
  BY <1>1, <1>2, <1>3, EligibleStep
<1> QED
  BY <1>2, <1>4

LEMMA AuthorizeIInv ==
    ASSUME IInv, NEW d \in decisions, NEW b \in bindings, Authorize(d, b)
    PROVE  IInv' /\ UNCHANGED <<policy, plans, bindings, sent>>
<1>1. /\ uses < MaxUses /\ uses' = uses + 1 /\ commands' = commands
      /\ UNCHANGED <<world, changes, papers, sent>>
  BY NothingAuthorizable DEF Authorize
<1>2. ConfigurationTypes'
  BY <1>1, BoundsAssumption DEF IInv, ConfigurationTypes, world
<1>3. ReviewsMade' /\ BindingsMade' /\ DecisionsMade'
  BY <1>1, PapersKept DEF IInv, papers
<1> QED
  BY <1>1, <1>2, <1>3
  DEF IInv, SentEligible, PlansTraced, NothingReleased, papers, world

LEMMA StutterIInv ==
    ASSUME IInv, UNCHANGED vars
    PROVE  IInv'
<1>1. ReviewsMade' /\ BindingsMade' /\ DecisionsMade'
  BY PapersKept DEF IInv, vars, papers
<1> QED
  BY <1>1 DEF vars, IInv, ConfigurationTypes, SentEligible, PlansTraced, NothingReleased,
              papers, world

LEMMA NextIInv ==
    ASSUME IInv, [Next]_vars
    PROVE  IInv'
BY ReconfigureIInv, ProposeIInv, AlterIInv, AssessIInv, BindStepIInv, MatchIInv,
   DispatchIInv, AuthorizeIInv, StutterIInv DEF Next

\* The inductive invariant of the chain.
LEMMA SpecIInv == Spec => []IInv
BY InitIInv, NextIInv, PTL DEF Spec

--------------------------------------------------------------------------------
(* The chain implements the gate. *)

proposed == {p \in plans : Made(p)}
cleared  == {<<b.review.proposal, b.selection.step>> :
                b \in {x \in bindings : x.status = "eligible"}}
accepted == {<<d.binding.review.proposal, d.binding.selection.step>> : d \in sent}

\* One step of the gate, over the chain's variables.
GateDeploy == policy' \in Policies /\ UNCHANGED <<proposed, cleared, accepted>>

GatePropose ==
    \E p \in proposed' : proposed' = proposed \cup {p} /\ UNCHANGED <<policy, cleared, accepted>>

GateClear ==
    \E p \in proposed : \E s \in DOMAIN p.body.plan :
        /\ EligibleUnder(policy, p)
        /\ cleared' = cleared \cup {<<p, s>>}
        /\ UNCHANGED <<policy, proposed, accepted>>

GateAccept ==
    \E c \in cleared : accepted' = accepted \cup {c} /\ UNCHANGED <<policy, proposed, cleared>>

GateStutter == UNCHANGED <<policy, proposed, cleared, accepted>>

LEMMA StepIsGateStep ==
    ASSUME IInv, [Next]_vars
    PROVE  GateDeploy \/ GatePropose \/ GateClear \/ GateAccept \/ GateStutter
<1>1. CASE UNCHANGED vars
  BY <1>1 DEF vars, world, papers, GateStutter, proposed, cleared, accepted
<1>2. CASE Reconfigure
  BY <1>2, ReconfigureIInv DEF GateDeploy, proposed, cleared, accepted, papers
<1>3. ASSUME NEW q, plans' = plans \cup {q}, UNCHANGED <<policy, bindings, sent>>
      PROVE  GatePropose \/ GateStutter
  <2>1. UNCHANGED <<cleared, accepted>>
    BY <1>3 DEF cleared, accepted
  <2>2. CASE Made(q)
    <3>1. q \in proposed' /\ proposed' = proposed \cup {q}
      BY <1>3, <2>2 DEF proposed
    <3> QED
      BY <1>3, <2>1, <3>1 DEF GatePropose
  <2>3. CASE ~Made(q)
    <3>1. proposed' = proposed
      BY <1>3, <2>3 DEF proposed
    <3> QED
      BY <1>3, <2>1, <3>1 DEF GateStutter
  <2> QED
    BY <2>2, <2>3
<1>4. ASSUME NEW r \in Requests, Propose(r)
      PROVE  GatePropose \/ GateStutter
  BY <1>3, <1>4, ProposeIInv
<1>5. ASSUME NEW p \in plans, Alter(p)
      PROVE  GatePropose \/ GateStutter
  BY <1>3, <1>5, AlterIInv
<1>6. ASSUME NEW p \in plans, Assess(p)
      PROVE  GateStutter
  BY <1>6, AssessIInv DEF GateStutter, proposed, cleared, accepted
<1>7. ASSUME NEW p \in plans, NEW review \in reviews, NEW sel \in Selections,
             BindStep(p, review, sel)
      PROVE  GateClear \/ GateStutter
  <2>1. PICK b : /\ bindings' = bindings \cup {b} /\ b.review = review /\ b.selection = sel
                 /\ b.status = "eligible" =>
                       /\ review.proposal = p /\ review = Review(p, policy)
                       /\ review.disposition = "eligible"
                       /\ Inspectable(p) /\ Intact(p) /\ sel.step \in DOMAIN p.body.plan
    BY <1>7, BindStepIInv
  <2>2. UNCHANGED <<policy, plans, sent>>
    BY <1>7, BindStepIInv
  <2>3. UNCHANGED <<policy, proposed, accepted>>
    BY <2>2 DEF proposed, accepted
  <2>4. CASE b.status = "eligible"
    <3>1. cleared' = cleared \cup {<<p, sel.step>>}
      BY <2>1, <2>4 DEF cleared
    <3>2. p \in proposed
      BY <2>1, <2>4 DEF proposed, Made, Inspectable, InspectPlan
    <3>3. EligibleUnder(policy, p)
      BY <2>1, <2>4 DEF EligibleUnder
    <3> QED
      BY <2>1, <2>3, <2>4, <3>1, <3>2, <3>3 DEF GateClear
  <2>5. CASE b.status # "eligible"
    <3>1. cleared' = cleared
      BY <2>1, <2>5 DEF cleared
    <3> QED
      BY <2>3, <3>1 DEF GateStutter
  <2> QED
    BY <2>4, <2>5
<1>8. ASSUME NEW b \in bindings, Match(b)
      PROVE  GateStutter
  BY <1>8, MatchIInv DEF GateStutter, proposed, cleared, accepted
<1>9. ASSUME NEW d \in decisions, NEW b \in bindings, Dispatch(d, b)
      PROVE  GateAccept \/ GateStutter
  <2>1. UNCHANGED <<policy, proposed, cleared>>
    BY <1>9, DispatchIInv DEF proposed, cleared
  <2>2. CASE sent' = sent
    BY <2>1, <2>2 DEF GateStutter, accepted
  <2>3. CASE sent' = sent \cup {d} /\ d.status = "eligible"
    <3> DEFINE c == <<d.binding.review.proposal, d.binding.selection.step>>
    <3>1. d.binding \in bindings /\ d.binding.status = "eligible"
      BY <2>3, EligibleDecision
    <3>2. c \in cleared
      BY <3>1 DEF cleared
    <3>3. accepted' = accepted \cup {c}
      BY <2>3 DEF accepted
    <3> QED
      BY <2>1, <3>2, <3>3 DEF GateAccept
  <2> QED
    BY <1>9, <2>2, <2>3, DispatchIInv
<1>10. ASSUME NEW d \in decisions, NEW b \in bindings, Authorize(d, b)
       PROVE  GateStutter
  BY <1>10, AuthorizeIInv DEF GateStutter, proposed, cleared, accepted
<1> QED
  BY <1>1, <1>2, <1>4, <1>5, <1>6, <1>7, <1>8, <1>9, <1>10 DEF Next

\* The whole chain implements the two-step gate (ExecutiveService.evaluate,
\* SafetyKernel.evaluate, SkillManagerService.bind, RuntimeDispatcher.dispatch):
\* a step is cleared only while the policy in force allows its whole plan, and
\* a transport accepts only what was cleared.
THEOREM ChainImplementsGate == Spec => ImplementsGate
<1>1. Init => Gate!Init
  BY ReferencesResolve DEF Init, Gate!Init
<1>2. ASSUME IInv, [Next]_vars
      PROVE  [Gate!Next]_(Gate!vars)
  BY <1>2, StepIsGateStep
  DEF GateDeploy, GatePropose, GateClear, GateAccept, GateStutter, proposed, cleared, accepted,
      Gate!Next, Gate!Deploy, Gate!Propose, Gate!Clear, Gate!Accept, Gate!vars
<1> QED
  BY <1>1, <1>2, SpecIInv, PTL DEF Spec, ImplementsGate, Gate!Spec

--------------------------------------------------------------------------------
(* What leaves the chain. *)

\* A plan the Executive made has the steps of its request.
LEMMA MadePlan ==
    ASSUME NEW r, NEW c, NEW g, NEW d, d = Evaluate(r, c, g), d.plan # Absent
    PROVE  /\ d.plan = BuildPlan(r, g)
           /\ DOMAIN d.plan = DOMAIN RequestOf[r].steps
           /\ \A s \in DOMAIN d.plan :
                 /\ d.plan[s].parameters = RequestOf[r].steps[s].parameters
                 /\ d.plan[s].capability = RequestOf[r].steps[s].capability
                 /\ d.plan[s].after = RequestOf[r].steps[s].after
<1>1. d.plan = BuildPlan(r, g)
  BY DEF Evaluate
<1>2. DOMAIN d.plan = DOMAIN RequestOf[r].steps
  BY <1>1 DEF BuildPlan
<1>3. ASSUME NEW s \in DOMAIN d.plan
      PROVE  /\ d.plan[s].parameters = RequestOf[r].steps[s].parameters
             /\ d.plan[s].capability = RequestOf[r].steps[s].capability
             /\ d.plan[s].after = RequestOf[r].steps[s].after
  <2>1. s \in DOMAIN RequestOf[r].steps
    BY <1>2
  <2> DEFINE call == RequestOf[r].steps[s]
             def == ContractOf[g][call.capability]
             req == RequestOf[r]
  <2>2. BuildPlan(r, g)[s] =
           [capability |-> call.capability, parameters |-> call.parameters,
            after |-> call.after, preconditions |-> def.preconditions,
            context |-> req.context \cup def.context,
            approvals |-> req.approvals \cup def.approvals,
            constraints |-> req.constraints \cup def.constraints,
            result |-> def.result]
    BY <2>1 DEF BuildPlan
  <2> HIDE DEF call, def, req
  <2>3. /\ BuildPlan(r, g)[s].parameters = call.parameters
        /\ BuildPlan(r, g)[s].capability = call.capability
        /\ BuildPlan(r, g)[s].after = call.after
    BY <2>2
  <2> QED
    BY <1>1, <2>3 DEF call
<1> QED
  BY <1>1, <1>2, <1>3

\* The kernel's first step is a step: some step depends on none.
LEMMA FirstStepExists ==
    ASSUME NEW plan, Ordered(plan), DOMAIN plan # {}, DOMAIN plan \subseteq Nat
    PROVE  FirstStep(plan) \in DOMAIN plan
<1>1. PICK s \in DOMAIN plan : plan[s].after \cap DOMAIN plan = {}
  BY DEF Ordered
<1>2. plan[s].after = {}
  BY <1>1 DEF Ordered
<1>3. /\ {x \in DOMAIN plan : plan[x].after = {}} \subseteq Nat
      /\ {x \in DOMAIN plan : plan[x].after = {}} # {}
  BY <1>2
<1> DEFINE S == {x \in DOMAIN plan : plan[x].after = {}}
<1> HIDE DEF S
<1>4. S \subseteq Nat /\ S # {} => Min(S) \in S
  BY LeastNumber
<1> QED
  BY <1>3, <1>4 DEF S, FirstStep

\* What a transport accepted rests on.
LEMMA SentIsGrounded ==
    ASSUME IInv, NEW d \in sent
    PROVE  LET p == d.binding.review.proposal
               s == d.binding.selection.step
           IN  /\ Made(p)
               /\ RequestFields(d) = RequestOf[p.body.request].steps[s].parameters
               /\ d.endpoint.capability = RequestOf[p.body.request].steps[s].capability
               /\ p.body.approvals = {} /\ p.body.assumptions = {}
               /\ InState(p.body.refs, "unknown") \cup InState(p.body.refs, "conflicted") = {}
               /\ \A t \in DOMAIN p.body.plan :
                     LET rule == PolicyOf[d.binding.review.policy][p.body.plan[t].capability]
                     IN  /\ rule # Absent
                         /\ rule.hazard \in {"informational_read_only", "internal_non_actuating"}
<1> DEFINE review == d.binding.review
           p == review.proposal
           sel == d.binding.selection
<1>1. d \in decisions /\ d.status = "eligible"
  BY DEF IInv, SentEligible
<1>2. /\ p \in plans /\ Inspectable(p) /\ Intact(p)
      /\ review = Review(p, review.policy) /\ review.disposition = "eligible"
      /\ Compatible(sel, p, review)
      /\ d.endpoint \in Resolve(EndpointsOf[d.registry], d.binding)
  BY <1>1, EligibleDecision
<1>3. Traced(p)
  BY <1>2 DEF IInv, PlansTraced
<1>4. PICK r \in Requests, c \in Contexts, g \in Contracts : p.body = Evaluate(r, c, g)
  BY <1>2, <1>3, IntactIsMade
<1>5. /\ InspectPlan(p.body) /\ InspectContext(p.body) /\ InspectTotals(p.body)
      /\ p.body.plan # Absent /\ DOMAIN p.body.plan # {} /\ Ordered(p.body.plan)
  BY <1>2 DEF Inspectable, InspectPlan
<1> HIDE DEF p, review, sel
<1>6. Made(p)
  BY <1>2, <1>5 DEF Made
<1>7. /\ p.body.request = r
      /\ DOMAIN p.body.plan = DOMAIN RequestOf[r].steps
      /\ \A s \in DOMAIN p.body.plan :
            /\ p.body.plan[s].parameters = RequestOf[r].steps[s].parameters
            /\ p.body.plan[s].capability = RequestOf[r].steps[s].capability
  BY <1>4, <1>5, MadePlan, EvaluateRecord
<1>8. sel.step \in DOMAIN p.body.plan /\ p.body.plan[sel.step].capability = sel.capability
  BY <1>2 DEF Compatible
<1>9. d.endpoint.capability = sel.capability
  BY <1>2 DEF Resolve, sel
<1>10. ASSUME NEW t \in DOMAIN p.body.plan
       PROVE  /\ p.body.plan[t].approvals = {}
              /\ t = FirstStep(p.body.plan) => p.body.assumptions = {}
              /\ PolicyOf[review.policy][p.body.plan[t].capability] # Absent
              /\ PolicyOf[review.policy][p.body.plan[t].capability].hazard
                    \in {"informational_read_only", "internal_non_actuating"}
  <2>1. /\ review.steps[t].hazard \in {"informational_read_only", "internal_non_actuating"}
        /\ PolicyOf[review.policy][p.body.plan[t].capability] # Absent
        /\ review.steps[t].hazard = PolicyOf[review.policy][p.body.plan[t].capability].hazard
        /\ p.body.plan[t].approvals = {}
        /\ t = FirstStep(p.body.plan) => p.body.assumptions = {}
    BY <1>2, <1>5, EligibleStep
  <2> QED
    BY <2>1
<1>11. p.body.approvals = {}
  BY <1>5, <1>10 DEF InspectTotals, AllOf
<1>12. p.body.assumptions = {}
  <2>1. DOMAIN p.body.plan \subseteq Nat
    BY <1>7, ReferencesResolve DEF StepIds
  <2>2. FirstStep(p.body.plan) \in DOMAIN p.body.plan
    BY <1>5, <2>1, FirstStepExists
  <2> QED
    BY <1>10, <2>2
<1>13. InState(p.body.refs, "unknown") \cup InState(p.body.refs, "conflicted") = {}
  BY <1>5 DEF InspectContext, InState
<1> QED
  BY <1>6, <1>7, <1>8, <1>9, <1>10, <1>11, <1>12, <1>13 DEF RequestFields, p, review, sel

\* Nothing physical leaves the chain (RuntimeSimulationControlBoundary.authorize
\* never finds what it wants), and what a transport accepted is a step of an
\* unaltered plan under a policy that leaves all of it free of hazard.
THEOREM GroundedLeaves == Spec => []OnlyGroundedLeaves
<1>1. IInv => PhysicalNeverAuthorized
  BY DEF IInv, NothingReleased, PhysicalNeverAuthorized
<1>2. ASSUME IInv PROVE AcceptedIsGrounded
  <2> SUFFICES \A d \in sent :
        LET p == d.binding.review.proposal
            s == d.binding.selection.step
        IN  /\ Made(p)
            /\ RequestFields(d) = RequestOf[p.body.request].steps[s].parameters
            /\ d.endpoint.capability = RequestOf[p.body.request].steps[s].capability
            /\ p.body.approvals = {} /\ p.body.assumptions = {}
            /\ InState(p.body.refs, "unknown") \cup InState(p.body.refs, "conflicted") = {}
            /\ \A t \in DOMAIN p.body.plan :
                  LET rule == PolicyOf[d.binding.review.policy][p.body.plan[t].capability]
                  IN  /\ rule # Absent
                      /\ rule.hazard \in {"informational_read_only", "internal_non_actuating"}
    BY DEF AcceptedIsGrounded
  <2> QED
    BY <1>2, SentIsGrounded
<1>3. IInv => OnlyGroundedLeaves
  BY <1>1, <1>2 DEF OnlyGroundedLeaves
<1> QED
  BY <1>3, SpecIInv, PTL

--------------------------------------------------------------------------------
(* The stages agree. *)

\* What a proposal of the Executive holds, field by field.
LEMMA MadeTotals ==
    ASSUME NEW r \in Requests, NEW c, NEW g, NEW d, d = Evaluate(r, c, g),
           d.type \in {"propose", "request_approval"}
    PROVE  /\ DOMAIN d.plan # {}
           /\ AllOf(d.plan, "constraints") = d.constraints
           /\ AllOf(d.plan, "context") = {k \in DOMAIN d.refs : d.refs[k].required}
<1> DEFINE caps    == RequestedCapabilities(r)
           known   == {x \in caps : ContractOf[g][x] # Absent}
           refs    == ReferencesFor(c, RequiredContext(r, g), RequestOf[r].optional)
           steps   == RequestOf[r].steps
<1>1. known = caps
  BY DEF Evaluate
<1>2. /\ d.plan = BuildPlan(r, g) /\ d.refs = refs
      /\ d.constraints = RequestOf[r].constraints
                           \cup UNION {ContractOf[g][x].constraints : x \in known}
  BY DEF Evaluate
<1>3. DOMAIN steps # {}
  BY ConfigurationsAreValid DEF ValidRequest
<1>4. DOMAIN d.plan = DOMAIN steps
  BY <1>2 DEF BuildPlan
<1>5. ASSUME NEW s \in DOMAIN steps
      PROVE  /\ d.plan[s].constraints =
                   RequestOf[r].constraints \cup ContractOf[g][steps[s].capability].constraints
             /\ d.plan[s].context =
                   RequestOf[r].context \cup ContractOf[g][steps[s].capability].context
  <2> DEFINE call == RequestOf[r].steps[s]
             def == ContractOf[g][call.capability]
             req == RequestOf[r]
  <2>1. BuildPlan(r, g)[s] =
           [capability |-> call.capability, parameters |-> call.parameters,
            after |-> call.after, preconditions |-> def.preconditions,
            context |-> req.context \cup def.context,
            approvals |-> req.approvals \cup def.approvals,
            constraints |-> req.constraints \cup def.constraints,
            result |-> def.result]
    BY DEF BuildPlan
  <2> HIDE DEF call, def, req
  <2>2. /\ BuildPlan(r, g)[s].constraints = req.constraints \cup def.constraints
        /\ BuildPlan(r, g)[s].context = req.context \cup def.context
    BY <2>1
  <2> QED
    BY <1>2, <2>2 DEF call, def, req
<1>6. caps = {steps[s].capability : s \in DOMAIN steps}
  BY DEF RequestedCapabilities
<1>7. RequiredContext(r, g) =
         RequestOf[r].context \cup UNION {ContractOf[g][x].context : x \in caps}
  BY <1>1 DEF RequiredContext
<1>8. {k \in DOMAIN refs : refs[k].required} = RequiredContext(r, g)
  BY DEF ReferencesFor
<1> HIDE DEF caps, known, refs, steps
<1>9. AllOf(d.plan, "constraints") =
         UNION {RequestOf[r].constraints \cup ContractOf[g][steps[s].capability].constraints :
                   s \in DOMAIN steps}
  BY <1>4, <1>5 DEF AllOf
<1>10. AllOf(d.plan, "context") =
         UNION {RequestOf[r].context \cup ContractOf[g][steps[s].capability].context :
                   s \in DOMAIN steps}
  BY <1>4, <1>5 DEF AllOf
<1>11. AllOf(d.plan, "constraints") = d.constraints
  BY <1>1, <1>2, <1>3, <1>6, <1>9
<1>12. AllOf(d.plan, "context") = {k \in DOMAIN d.refs : d.refs[k].required}
  BY <1>2, <1>3, <1>6, <1>7, <1>8, <1>10
<1> QED
  BY <1>3, <1>4, <1>11, <1>12

LEMMA MadeIsInspectable ==
    ASSUME NEW p, Traced(p), Made(p)
    PROVE  Inspectable(p)
<1>1. PICK r \in Requests, c \in Contexts, g \in Contracts :
         WellFormed(Evaluate(r, c, g)) /\ p.body = Evaluate(r, c, g)
  BY IntactIsMade DEF Made
<1>2. WellFormed(p.body) /\ p.body.plan # Absent
  BY <1>1 DEF Made
<1>3. p.body.type \in {"propose", "request_approval"}
  BY <1>2 DEF WellFormed
<1>4. /\ DOMAIN p.body.plan # {}
      /\ AllOf(p.body.plan, "constraints") = p.body.constraints
      /\ AllOf(p.body.plan, "context") = {k \in DOMAIN p.body.refs : p.body.refs[k].required}
  BY <1>1, <1>3, MadeTotals
<1>5. InspectPlan(p.body)
  BY <1>2, <1>3, <1>4 DEF WellFormed, InspectPlan
<1>6. InspectContext(p.body)
  BY <1>2, <1>3 DEF WellFormed, InspectContext, InState
<1>7. InspectTotals(p.body)
  BY <1>2, <1>3, <1>4 DEF WellFormed, InspectTotals
<1> QED
  BY <1>2, <1>5, <1>6, <1>7 DEF Inspectable

LEMMA ReviewConstructs ==
    ASSUME NEW review, ReviewMade(review)
    PROVE  SafetyDecisionShape(review)
<1> DEFINE p == review.proposal
<1>1. DOMAIN p.body.plan # {} /\ review = Review(p, review.policy)
  BY DEF ReviewMade, Inspectable, InspectPlan
<1> HIDE DEF p
<1>2. /\ DOMAIN review.steps = DOMAIN p.body.plan
      /\ \A s \in DOMAIN p.body.plan :
            /\ review.steps[s] =
                  EvaluateStep(PolicyOf[review.policy], p.body.plan[s],
                               IF s = FirstStep(p.body.plan) THEN p.body.assumptions ELSE {})
            /\ Rank(review.steps[s].disposition) <= Rank(review.disposition)
  BY <1>1, ReviewFacts
<1>3. ASSUME NEW s \in DOMAIN p.body.plan PROVE StepDecisionShape(review.steps[s])
  BY <1>2, StepFacts
<1> QED
  BY <1>1, <1>2, <1>3 DEF SafetyDecisionShape

LEMMA BindingConstructs ==
    ASSUME NEW b, Bound(b), ReviewMade(b.review)
    PROVE  BindingShape(b)
<1> SUFFICES ASSUME b.status # "ineligible" PROVE InvocationShape(b)
  BY DEF Bound, BindingShape
<1> DEFINE review == b.review
           p == review.proposal
           sel == b.selection
           all == UNION {review.steps[s].approvals : s \in DOMAIN review.steps}
           step == p.body.plan[sel.step]
<1>1. /\ Inspectable(p) /\ review = Review(p, review.policy)
      /\ Compatible(sel, p, review) /\ review.disposition = b.status
      /\ b.status \in {"eligible", "approval"}
  BY DEF ReviewMade, Bound
<1>2. /\ InspectPlan(p.body) /\ DOMAIN p.body.plan # {}
      /\ AllOf(p.body.plan, "context") = {k \in DOMAIN p.body.refs : p.body.refs[k].required}
  BY <1>1 DEF Inspectable, InspectPlan, InspectTotals
<1>3. /\ sel.step \in DOMAIN p.body.plan /\ sel.capability \in sel.definition.capabilities
      /\ step.parameters \in sel.definition.parameters
      /\ step.context = sel.definition.context
      /\ sel.definition.approvals \subseteq review.steps[sel.step].approvals
  BY <1>1 DEF Compatible
<1>4. step.context \subseteq AllOf(p.body.plan, "context")
  BY <1>3 DEF AllOf
<1>5. sel.definition.context =
         {k \in DOMAIN p.body.refs : p.body.refs[k].required /\ k \in sel.definition.context}
  <2> HIDE DEF p, sel, step
  <2> QED
    BY <1>2, <1>3, <1>4
<1>6. (b.status = "eligible") <=> (all = {})
  <2> HIDE DEF p, review, sel, step
  <2>1. /\ DOMAIN review.steps = DOMAIN p.body.plan
        /\ \A s \in DOMAIN p.body.plan :
              review.steps[s] =
                 EvaluateStep(PolicyOf[review.policy], p.body.plan[s],
                              IF s = FirstStep(p.body.plan) THEN p.body.assumptions ELSE {})
        /\ \E s \in DOMAIN p.body.plan : review.steps[s].disposition = review.disposition
    BY <1>1, <1>2, ReviewFacts
  <2>2. CASE b.status = "eligible"
    <3>1. ASSUME NEW s \in DOMAIN p.body.plan PROVE review.steps[s].approvals = {}
      <4>1. review.steps[s].disposition = "eligible"
        BY <1>1, <1>2, <2>2, EligibleEverywhere
      <4> QED
        BY <2>1, <4>1, StepFacts
    <3> QED
      BY <2>1, <2>2, <3>1
  <2>3. CASE b.status = "approval"
    <3>1. PICK s \in DOMAIN p.body.plan : review.steps[s].disposition = "approval"
      BY <1>1, <2>1, <2>3
    <3>2. review.steps[s].approvals # {}
      BY <2>1, <3>1, StepFacts
    <3> QED
      BY <2>1, <2>3, <3>2
  <2> QED
    BY <1>1, <2>2, <2>3
<1> QED
  BY <1>3, <1>5, <1>6 DEF InvocationShape

LEMMA DecisionConstructs ==
    ASSUME NEW d, Bound(d.binding), d.registry \in EndpointRegistries,
           d = Eligibility(d.binding, d.registry)
    PROVE  RuntimeDecisionShape(d)
<1> DEFINE b == d.binding
<1>1. /\ d.status = "eligible" =>
            /\ b.status = "eligible" /\ d.endpoint \in Resolve(EndpointsOf[d.registry], b)
            /\ d.endpoint.definition = b.selection.definition
      /\ d.status # "eligible" => d.endpoint = Absent
      /\ d.status = "approval_required" => b.status = "approval"
      /\ d.status = "blocked" => b.reason = "safety_blocked"
      /\ d.status = "deferred" => b.reason = "safety_deferred"
  BY EligibilityFacts
<1>2. ASSUME d.status = "eligible"
      PROVE  d.endpoint # Absent /\ RuntimeRequestShape(d)
  <2>1. /\ d.endpoint \in EndpointsOf[d.registry]
        /\ d.endpoint.skill = b.selection.skill
        /\ d.endpoint.capability = b.selection.capability
    BY <1>1, <1>2 DEF Resolve
  <2>2. d.endpoint # Absent
    BY <2>1, ReferencesResolve
  <2>3. Compatible(b.selection, b.review.proposal, b.review)
    BY <1>1, <1>2 DEF Bound
  <2>4. RequestFields(d) \in d.endpoint.definition.parameters
    BY <1>1, <1>2, <2>3 DEF Compatible, RequestFields
  <2> QED
    BY <1>1, <1>2, <2>1, <2>2, <2>4 DEF RuntimeRequestShape
<1> QED
  BY <1>1, <1>2 DEF RuntimeDecisionShape

LEMMA TypesHold ==
    ASSUME IInv
    PROVE  TypeOK
<1>1. ASSUME NEW p \in plans
      PROVE  p.body.request \in Requests /\ p.body.snapshot \in Contexts
  <2>1. PICK r \in Requests, c \in Contexts, g \in Contracts :
           p.body = [Evaluate(r, c, g) EXCEPT !.plan = p.body.plan]
    BY DEF IInv, PlansTraced, Traced
  <2> DEFINE d == Evaluate(r, c, g)
  <2>2. d.request = r /\ d.snapshot = c
    BY EvaluateRecord
  <2>3. p.body = [d EXCEPT !.plan = p.body.plan]
    BY <2>1
  <2>4. "request" \in DOMAIN d /\ "snapshot" \in DOMAIN d
    BY DEF Evaluate
  <2> HIDE DEF d
  <2> QED
    BY <2>2, <2>3, <2>4
<1> QED
  BY <1>1
  DEF IInv, ConfigurationTypes, ReviewsMade, ReviewMade, BindingsMade, Bound, DecisionsMade,
      SentEligible, NothingReleased, TypeOK

\* Whatever is reconfigured in between, no stage raises on what the stages
\* before it accepted: the kernel can read every plan (snapshot_proposal), and
\* every document satisfies the constructor of its type.
THEOREM StagesAlwaysAgree == Spec => []StagesAgree
<1>1. ASSUME IInv PROVE StagesAgree
  <2>1. TypeOK
    BY <1>1, TypesHold
  <2>2. SafetyAcceptsEveryPlan
    BY <1>1, MadeIsInspectable DEF IInv, PlansTraced, SafetyAcceptsEveryPlan
  <2>3. \A review \in reviews : SafetyDecisionShape(review)
    BY <1>1, ReviewConstructs DEF IInv, ReviewsMade
  <2>4. \A b \in bindings : BindingShape(b)
    BY <1>1, BindingConstructs DEF IInv, ReviewsMade, BindingsMade
  <2>5. \A d \in decisions : RuntimeDecisionShape(d)
    BY <1>1, DecisionConstructs DEF IInv, BindingsMade, DecisionsMade
  <2> QED
    BY <2>1, <2>2, <2>3, <2>4, <2>5 DEF StagesAgree, EveryDocumentConstructs
<1> QED
  BY <1>1, SpecIInv, PTL

--------------------------------------------------------------------------------
(* Revalidation. *)

Known(r, g) == {x \in RequestedCapabilities(r) : ContractOf[g][x] # Absent}
Unavailable(r, g) == {x \in Known(r, g) : ~ContractOf[g][x].available}
Merged(r, g, field) == RequestOf[r][field] \cup UNION {ContractOf[g][x][field] : x \in Known(r, g)}
References(r, c, g) == ReferencesFor(c, RequiredContext(r, g), RequestOf[r].optional)

\* The type of a decision, from the request, its references and the registry.
TypeOf(r, refs, g) ==
    IF Known(r, g) # RequestedCapabilities(r) THEN "reject"
    ELSE IF Unavailable(r, g) # {} \/ InState(refs, "conflicted") # {} THEN "defer"
    ELSE IF InState(refs, "unknown") # {} THEN RequestOf[r].missing
    ELSE IF Merged(r, g, "approvals") # {} THEN "request_approval"
    ELSE "propose"

LEMMA EvaluateFields ==
    ASSUME NEW r, NEW c, NEW g, NEW d, d = Evaluate(r, c, g)
    PROVE  /\ d.request = r /\ d.refs = References(r, c, g)
           /\ d.type = TypeOf(r, References(r, c, g), g)
           /\ d.contract = ContractFor(g, RequestedCapabilities(r))
           /\ d.approvals = Merged(r, g, "approvals")
           /\ d.assumptions = Merged(r, g, "assumptions")
           /\ d.constraints = Merged(r, g, "constraints")
           /\ d.plan = IF d.type \in {"propose", "request_approval"} THEN BuildPlan(r, g)
                       ELSE Absent
BY DEF Evaluate, Known, Unavailable, Merged, References, TypeOf

\* Registries that define the requested capabilities alike give the same
\* contracts, requirements and plan.
LEMMA SameContract ==
    ASSUME NEW r, NEW g, NEW h,
           \A x \in RequestedCapabilities(r) : ContractOf[g][x] = ContractOf[h][x]
    PROVE  /\ Known(r, g) = Known(r, h) /\ Unavailable(r, g) = Unavailable(r, h)
           /\ \A field : Merged(r, g, field) = Merged(r, h, field)
           /\ RequiredContext(r, g) = RequiredContext(r, h)
           /\ ContractFor(g, RequestedCapabilities(r)) = ContractFor(h, RequestedCapabilities(r))
           /\ BuildPlan(r, g) = BuildPlan(r, h)
<1>1. Known(r, g) = Known(r, h) /\ Known(r, g) \subseteq RequestedCapabilities(r)
  BY DEF Known
<1>2. Unavailable(r, g) = Unavailable(r, h)
  BY <1>1 DEF Unavailable
<1>3. ASSUME NEW field PROVE Merged(r, g, field) = Merged(r, h, field)
  BY <1>1 DEF Merged
<1>4. RequiredContext(r, g) = RequiredContext(r, h)
  BY DEF RequiredContext
<1>5. ContractFor(g, RequestedCapabilities(r)) = ContractFor(h, RequestedCapabilities(r))
  BY DEF ContractFor
<1>6. \A s \in DOMAIN RequestOf[r].steps :
         ContractOf[g][RequestOf[r].steps[s].capability] =
            ContractOf[h][RequestOf[r].steps[s].capability]
  BY DEF RequestedCapabilities
<1>7. BuildPlan(r, g) = BuildPlan(r, h)
  BY <1>6 DEF BuildPlan
<1> QED
  BY <1>1, <1>2, <1>3, <1>4, <1>5, <1>7

LEMMA RequiredKeys ==
    ASSUME NEW c, NEW K, NEW O, NEW refs, refs = ReferencesFor(c, K, O)
    PROVE  {k \in DOMAIN refs : refs[k].required} = K
BY DEF ReferencesFor

\* Contexts in which the required keys are known alike give references that
\* agree on them.
LEMMA SameContext ==
    ASSUME NEW c, NEW d, NEW K, NEW O, NEW P,
           RelevantContext(ReferencesFor(c, K, P)) = RelevantContext(ReferencesFor(d, K, O))
    PROVE  /\ RelevantContext(ReferencesFor(c, K, O)) = RelevantContext(ReferencesFor(d, K, O))
           /\ \A state : InState(ReferencesFor(c, K, O), state) = InState(ReferencesFor(d, K, O), state)
<1>1. ASSUME NEW x, NEW Q
      PROVE  /\ {k \in DOMAIN ReferencesFor(x, K, Q) : ReferencesFor(x, K, Q)[k].required} = K
             /\ \A k \in K : ReferencesFor(x, K, Q)[k].state = ContextOf[x][k]
  BY DEF ReferencesFor
<1>2. ASSUME NEW x, NEW Q
      PROVE  RelevantContext(ReferencesFor(x, K, Q)) = {<<k, ContextOf[x][k]>> : k \in K}
  BY <1>1 DEF RelevantContext
<1>3. ASSUME NEW k \in K PROVE ContextOf[c][k] = ContextOf[d][k]
  <2>1. <<k, ContextOf[c][k]>> \in {<<j, ContextOf[d][j]>> : j \in K}
    BY <1>2
  <2> QED
    BY <2>1
<1>4. ASSUME NEW x, NEW state
      PROVE  InState(ReferencesFor(x, K, O), state) = {k \in K : ContextOf[x][k] = state}
  BY DEF InState, ReferencesFor
<1>5. RelevantContext(ReferencesFor(c, K, O)) = RelevantContext(ReferencesFor(d, K, O))
  BY <1>2, <1>3
<1>6. ASSUME NEW state
      PROVE  InState(ReferencesFor(c, K, O), state) = InState(ReferencesFor(d, K, O), state)
  <2>1. {k \in K : ContextOf[c][k] = state} = {k \in K : ContextOf[d][k] = state}
    BY <1>3
  <2>2. /\ InState(ReferencesFor(c, K, O), state) = {k \in K : ContextOf[c][k] = state}
        /\ InState(ReferencesFor(d, K, O), state) = {k \in K : ContextOf[d][k] = state}
    BY <1>4
  <2> QED
    BY <2>1, <2>2
<1> QED
  BY <1>5, <1>6

\* A decision with nothing stale is the one evaluate would make now.
LEMMA FreshIsCurrent ==
    ASSUME NEW r, NEW c, NEW g, NEW c1, NEW g1, NEW d, d = Evaluate(r, c, g),
           StaleSources(d, r, c1, g1) = {}
    PROVE  DecisionIdentity(Evaluate(r, c1, g1)) = DecisionIdentity(d)
<1> DEFINE e    == Evaluate(r, c1, g1)
           caps == RequestedCapabilities(r)
           K    == RequiredContext(r, g)
           O    == RequestOf[r].optional
           refs == References(r, c, g)
           required == {k \in DOMAIN d.refs : d.refs[k].required}
           P    == DOMAIN d.refs \ required
<1>1. /\ d.request = r /\ d.refs = refs /\ d.type = TypeOf(r, refs, g)
      /\ d.contract = ContractFor(g, caps)
      /\ d.approvals = Merged(r, g, "approvals") /\ d.assumptions = Merged(r, g, "assumptions")
      /\ d.constraints = Merged(r, g, "constraints")
      /\ d.plan = IF d.type \in {"propose", "request_approval"} THEN BuildPlan(r, g) ELSE Absent
  BY EvaluateFields
<1>2. /\ e.request = r /\ e.refs = References(r, c1, g1)
      /\ e.type = TypeOf(r, References(r, c1, g1), g1)
      /\ e.contract = ContractFor(g1, caps)
      /\ e.approvals = Merged(r, g1, "approvals") /\ e.assumptions = Merged(r, g1, "assumptions")
      /\ e.constraints = Merged(r, g1, "constraints")
      /\ e.plan = IF e.type \in {"propose", "request_approval"} THEN BuildPlan(r, g1) ELSE Absent
  <2>1. e = Evaluate(r, c1, g1)
    OBVIOUS
  <2> HIDE DEF e
  <2> QED
    BY <2>1, EvaluateFields
<1>3. /\ ContractFor(g1, DOMAIN d.contract) = d.contract
      /\ RelevantContext(ReferencesFor(c1, required, P)) = RelevantContext(d.refs)
  BY DEF StaleSources
<1>4. DOMAIN d.contract = caps
  BY <1>1 DEF ContractFor
<1>5. \A x \in caps : ContractOf[g1][x] = ContractOf[g][x]
  BY <1>1, <1>3, <1>4 DEF ContractFor
<1>6. required = K
  <2>1. d.refs = ReferencesFor(c, K, O)
    BY <1>1 DEF References
  <2> HIDE DEF K, O
  <2> QED
    BY <2>1, RequiredKeys
<1> HIDE DEF e, caps, K, O, refs, required, P
<1>7. /\ Known(r, g1) = Known(r, g) /\ Unavailable(r, g1) = Unavailable(r, g)
      /\ \A field : Merged(r, g1, field) = Merged(r, g, field)
      /\ RequiredContext(r, g1) = K
      /\ ContractFor(g1, caps) = ContractFor(g, caps)
      /\ BuildPlan(r, g1) = BuildPlan(r, g)
  BY <1>5, SameContract DEF caps, K
<1>8. refs = ReferencesFor(c, K, O) /\ References(r, c1, g1) = ReferencesFor(c1, K, O)
  BY <1>7 DEF refs, References, K, O
<1>9. RelevantContext(ReferencesFor(c1, K, P)) = RelevantContext(ReferencesFor(c, K, O))
  BY <1>1, <1>3, <1>6, <1>8
<1>10. /\ RelevantContext(ReferencesFor(c1, K, O)) = RelevantContext(ReferencesFor(c, K, O))
       /\ \A state : InState(ReferencesFor(c1, K, O), state) = InState(ReferencesFor(c, K, O), state)
  BY <1>9, SameContext
<1>11. e.type = d.type
  BY <1>1, <1>2, <1>7, <1>8, <1>10 DEF TypeOf
<1>12. DecisionIdentity(e) = DecisionIdentity(d)
  BY <1>1, <1>2, <1>7, <1>8, <1>10, <1>11 DEF DecisionIdentity
<1> QED
  BY <1>12 DEF e

\* ExecutiveService.revalidate compares three fingerprints and never plans
\* again; a decision it calls current is the one evaluate would make now.
THEOREM RevalidationIsSound == Spec => []RevalidationSound
<1>1. ASSUME IInv PROVE RevalidationSound
  <2> SUFFICES ASSUME NEW p \in plans, Intact(p),
                      StaleSources(p.body, p.body.request, context, contract) = {}
               PROVE  DecisionIdentity(Evaluate(p.body.request, context, contract)) = p.identity
    BY DEF RevalidationSound
  <2>1. PICK r \in Requests, c \in Contexts, g \in Contracts : p.body = Evaluate(r, c, g)
    BY <1>1, IntactIsMade DEF IInv, PlansTraced
  <2>2. p.body.request = r
    BY <2>1, EvaluateRecord
  <2>3. DecisionIdentity(Evaluate(r, context, contract)) = DecisionIdentity(p.body)
    BY <2>1, <2>2, FreshIsCurrent
  <2> QED
    BY <2>2, <2>3 DEF Intact
<1> QED
  BY <1>1, SpecIInv, PTL

--------------------------------------------------------------------------------
(* PolicyLifecycle, for any catalog, rules and authorities, and any documents *)
(* a caller starts with.                                                      *)

\* Sets of documents are finite, so that they can be counted.
Countable ==
    /\ IsFiniteSet(episodes)
    /\ \A c \in corpora : IsFiniteSet(c.candidate) /\ IsFiniteSet(c.holdout)
    /\ \A r \in reports : IsFiniteSet(r.trials)
    /\ \A s \in snapshots : IsFiniteSet(s)

\* Every episode was captured or recorded, and what a session holds can become one.
EpisodesMade ==
    /\ \A e \in episodes : Captured(e) \/ Taught(e)
    /\ DOMAIN session = {"state", "events"}
    /\ session.events \in Seq(Events) /\ Len(session.events) <= MaxEvents

\* Every snapshot a caller can hold satisfies its constructor, and every record in
\* it was promoted by a decision that would be made again of its evidence.
RecordsJustified ==
    /\ \A s \in snapshots : SnapshotShape(s)
    /\ \A s \in snapshots : \A r \in s : r = Record(r.decision) /\ Authoritative(r.decision)
    /\ \A d \in promotions : d.criteria.rule \in Rules

PInv ==
    /\ PTypeOK /\ Countable /\ EpisodesMade /\ RecordsJustified
    /\ RollbackSound /\ ActivationIsApproved

\* The image of a finite set is finite and no larger, and as large when no two
\* elements meet in it.
LEMMA ImageIsFinite ==
    ASSUME NEW S, IsFiniteSet(S), NEW T, NEW f, DOMAIN f = S,
           \A x \in S : f[x] \in T, \A y \in T : \E x \in S : f[x] = y
    PROVE  /\ IsFiniteSet(T) /\ Cardinality(T) <= Cardinality(S)
           /\ (\A x, y \in S : f[x] = f[y] => x = y) => Cardinality(T) = Cardinality(S)
<1> DEFINE g == [x \in S |-> f[x]]
<1>1. g \in Surjection(S, T)
  BY DEF Surjection
<1>2. (\A x, y \in S : f[x] = f[y] => x = y) => g \in Injection(S, T)
  BY DEF Injection, IsInjective
<1> HIDE DEF g
<1> QED
  BY <1>1, <1>2, FS_Surjection

LEMMA TrialSetsAreFinite ==
    ASSUME NEW corpus, IsFiniteSet(corpus.candidate), IsFiniteSet(corpus.holdout),
           NEW trials \in TrialSets(corpus)
    PROVE  IsFiniteSet(trials)
<1>1. PICK S \in SUBSET (corpus.candidate \cup corpus.holdout) :
         \E x \in candidates \X [S -> {None, "success", "failure"}] :
             trials = {Trial(x[1], c, x[2][c]) : c \in S}
  BY DEF TrialSets
<1>2. PICK x : trials = {Trial(x[1], c, x[2][c]) : c \in S}
  BY <1>1
<1>3. IsFiniteSet(S)
  BY FS_Union, FS_Subset
<1> DEFINE f == [c \in S |-> Trial(x[1], c, x[2][c])]
<1>4. IsFiniteSet(trials)
  <2>1. /\ DOMAIN f = S
        /\ \A c \in S : f[c] \in trials
        /\ \A t \in trials : \E c \in S : f[c] = t
    BY <1>2
  <2> HIDE DEF f
  <2> QED
    BY <1>3, <2>1, ImageIsFinite
<1> QED
  BY <1>4

--------------------------------------------------------------------------------
(* Episodes. *)

\* What the constructor of an episode accepts passes verify_episode, which looks for
\* faults in its own way.
LEMMA ShapeVerifies ==
    ASSUME NEW source, NEW range, NEW events, NEW outcome,
           EpisodeShape(source, range, events),
           Len(events) \in Nat, DOMAIN events = 1..Len(events),
           range # None => \A i \in DOMAIN events : events[i].time \in Int \cup {None}
    PROVE  EpisodeFaults(Episode(source, range, events, outcome)) = {}
<1> DEFINE n == Len(events)
           ids == [i \in 1..n |-> events[i].id]
           e == Episode(source, range, events, outcome)
<1>1. e.source = source /\ e.range = range /\ e.events = events
  BY DEF Episode
<1>2. n \in 1..MaxEvents
  <2>1. n # 0
    <3> SUFFICES ASSUME n = 0 PROVE FALSE
      OBVIOUS
    <3>1. DOMAIN events = {}
      OBVIOUS
    <3> QED
      BY <3>1 DEF EpisodeShape
  <2>2. events[n].index \in 0..(MaxEvents - 1) /\ events[n].index = n - 1
    BY <2>1 DEF EpisodeShape, EventShape
  <2> QED
    BY <2>1, <2>2, BoundsAreNumbers
<1>3. Cardinality({events[i].id : i \in DOMAIN events}) = n
  <2> DEFINE T == {events[i].id : i \in DOMAIN events}
  <2>1. /\ DOMAIN ids = 1..n /\ \A i, j \in 1..n : ids[i] = ids[j] => i = j
        /\ \A i \in 1..n : ids[i] \in T
        /\ \A x \in T : \E i \in 1..n : ids[i] = x
    BY DEF EpisodeShape
  <2>2. n \in Nat
    OBVIOUS
  <2> HIDE DEF n, ids, T
  <2>3. IsFiniteSet(1..n) /\ Cardinality(1..n) = IF 1 > n THEN 0 ELSE n - 1 + 1
    BY <2>2, FS_Interval
  <2>4. Cardinality(T) = Cardinality(1..n)
    BY <2>1, <2>3, ImageIsFinite
  <2> QED
    BY <2>2, <2>3, <2>4 DEF T
<1>4. \A i \in DOMAIN events :
         /\ range = None => events[i].time = None
         /\ range # None => events[i].time # None /\ events[i].time \in Int
         /\ range # None /\ i > 1 => events[i - 1].time <= events[i].time
                                     /\ events[i - 1].time \in Int
  BY DEF EpisodeShape
<1> HIDE DEF e
<1>5. \A i \in DOMAIN e.events :
         /\ e.events[i].index = i - 1
         /\ ~(e.range = None /\ e.events[i].time # None)
         /\ ~(e.range # None /\ e.events[i].time = None)
         /\ ~(/\ e.range # None /\ i > 1
              /\ e.events[i].time < e.events[i - 1].time)
  BY <1>1, <1>4 DEF EpisodeShape
<1>6. /\ Cardinality({e.events[i].id : i \in DOMAIN e.events}) = Len(e.events)
      /\ Len(e.events) \in 1..MaxEvents /\ EpisodeShape(e.source, e.range, e.events)
  BY <1>1, <1>2, <1>3
<1> QED
  BY <1>5, <1>6 DEF EpisodeFaults, e

LEMMA CapturedVerifies ==
    ASSUME NEW e, Captured(e)
    PROVE  /\ EpisodeFaults(e) = {} /\ e.outcome \in Outcomes
           /\ e.outcome \in {"success", "deferred", "rejected"} =>
                 /\ e.source.answer.cleanup # "incomplete"
                 /\ \A a \in ScenarioOf[e.source.scenario].required :
                       e.source.answer.results[a] = "pass"
<1>0. PICK s \in Scenarios : \E answer \in Answers[s] :
         /\ ReportShape(s, answer)
         /\ EpisodeShape(ScenarioReport(s, answer), None, EventsFor(ScenarioReport(s, answer)))
         /\ e = Episode(ScenarioReport(s, answer), None, EventsFor(ScenarioReport(s, answer)),
                        OutcomeFor(ScenarioReport(s, answer)))
  BY DEF Captured
<1>1. PICK answer \in Answers[s] :
         /\ ReportShape(s, answer)
         /\ EpisodeShape(ScenarioReport(s, answer), None, EventsFor(ScenarioReport(s, answer)))
         /\ e = Episode(ScenarioReport(s, answer), None, EventsFor(ScenarioReport(s, answer)),
                        OutcomeFor(ScenarioReport(s, answer)))
  BY <1>0
<1> DEFINE r == ScenarioReport(s, answer)
<1>2. r.scenario = s /\ r.answer = answer /\ r.outcome = RunOutcome(answer)
  BY DEF ScenarioReport
<1>3. e.source = r /\ e.outcome = OutcomeFor(r)
  BY <1>1 DEF Episode
<1>4. r.outcome \in {"fail", "pass"}
  BY <1>2 DEF RunOutcome
<1> HIDE DEF r
<1>5. EpisodeFaults(e) = {}
  <2>1. PICK n \in Nat : DOMAIN ActionsFor(ScenarioOf[s].kind) = 1..n
    <3>1. /\ DOMAIN MotionActions = 1..5 /\ DOMAIN DeferActions = 1..7
          /\ DOMAIN InvalidActions = 1..4 /\ DOMAIN GenericActions = 1..2
      BY DEF MotionActions, DeferActions, InvalidActions, GenericActions
    <3> QED
      BY <3>1, CatalogIsValid DEF ActionsFor, ValidCatalog, ValidScenario
  <2>2. DOMAIN EventsFor(r) = 1..n /\ Len(EventsFor(r)) = n
    BY <1>2, <2>1 DEF EventsFor
  <2> QED
    BY <1>1, <2>2, ShapeVerifies DEF r
<1>6. /\ OutcomeFor(r) \in {"failure", "deferred", "rejected", "success"}
      /\ r.outcome = "fail" => OutcomeFor(r) = "failure"
  BY <1>4 DEF OutcomeFor
<1>7. r.outcome = "pass" => /\ answer.cleanup # "incomplete"
                            /\ \A a \in ScenarioOf[s].required : answer.results[a] = "pass"
  BY <1>1, <1>2 DEF ReportShape, RunOutcome
<1> QED
  BY <1>2, <1>3, <1>4, <1>5, <1>6, <1>7 DEF Outcomes

LEMMA TaughtVerifies ==
    ASSUME NEW e, Taught(e)
    PROVE  EpisodeFaults(e) = {} /\ e.outcome \in Outcomes /\ e.source = Teacher
<1>1. /\ e.events \in Seq(Events) /\ EpisodeShape(Teacher, SourceRange, e.events)
      /\ e = Episode(Teacher, SourceRange, e.events, e.outcome) /\ e.outcome \in Outcomes
  BY DEF Taught
<1>2. /\ Len(e.events) \in Nat /\ DOMAIN e.events = 1..Len(e.events)
      /\ \A i \in DOMAIN e.events : e.events[i].time \in Int \cup {None}
  BY <1>1, EventsHaveTimes
<1>3. EpisodeFaults(Episode(Teacher, SourceRange, e.events, e.outcome)) = {}
  BY <1>1, <1>2, ShapeVerifies
<1> QED
  BY <1>1, <1>3 DEF Episode

--------------------------------------------------------------------------------
(* Promotion and registration. *)

\* A decision that promotion would make again was reached on holdout evidence.
LEMMA AuthoritativeMeansEvaluated ==
    ASSUME NEW d, Authoritative(d), d.criteria.rule \in Rules, IsFiniteSet(d.report.trials)
    PROVE  LET done == {t \in d.report.trials : t.observed # None} IN
           /\ Cardinality(done) >= d.criteria.rule.minimum /\ done # {}
           /\ \A t \in done : t.candidate = d.candidate
                              /\ t.episode \notin EpisodesOf(d.candidate.evidence)
           /\ Cardinality({t \in done : t.observed # t.expected})
                 <= d.criteria.rule.maximumFailed
<1> DEFINE rule == d.criteria.rule
           rep == d.report
           trials == rep.trials
           done == {t \in trials : t.observed # None}
           bad == {t \in done : t.observed # t.expected}
           of(status) == {t.episode : t \in {x \in trials : x.status = status}}
           doneOf == of("match") \cup of("mismatch")
           badOf == of("mismatch")
<1>1. /\ CorpusShape(rep.corpus) /\ VerifiedTrials(rep.corpus, rep.candidate, trials)
      /\ rep = Report(rep.corpus, rep.candidate, trials)
  BY DEF Authoritative, ReportVerifies
<1>2. PromotionReasons(d.criteria, d.request, d.candidate, rep) = {}
  BY DEF Authoritative, Decision
<1>3. /\ rep.candidate = d.candidate /\ rep.corpus.candidate = d.candidate.evidence
      /\ ~(rep.evaluated < rule.minimum) /\ ~(rep.failed > rule.maximumFailed)
  BY <1>2 DEF PromotionReasons
<1>4. /\ rep.evaluated = Cardinality(doneOf)
      /\ rep.failed = Cardinality(badOf)
  <2> DEFINE again == Report(rep.corpus, rep.candidate, trials)
  <2>1. again.evaluated = Cardinality(doneOf) /\ again.failed = Cardinality(badOf)
    BY DEF Report
  <2>2. rep = again
    BY <1>1
  <2> HIDE DEF again, doneOf, badOf
  <2> QED
    BY <2>1, <2>2
<1>5. rule.minimum \in Nat \ {0} /\ rule.maximumFailed \in Nat
  BY ConfigurationIsValid DEF ValidPromotionRule
<1>6. /\ \A x, y \in trials : x.episode = y.episode => x = y
      /\ \A t \in trials : TrialVerifies(t) /\ t.candidate = rep.candidate
                            /\ t.episode \notin EpisodesOf(rep.corpus.candidate)
  BY <1>1 DEF VerifiedTrials
<1>7. \A t \in trials :
         t.status = IF t.observed = None THEN "incomplete"
                    ELSE IF t.observed = t.expected THEN "match" ELSE "mismatch"
  BY <1>6 DEF TrialVerifies, Trial, Reference
<1>8. Cardinality(doneOf) = Cardinality(done) /\ IsFiniteSet(done)
  <2> DEFINE f == [t \in done |-> t.episode]
  <2>1. IsFiniteSet(done)
    BY FS_Subset
  <2>2. /\ DOMAIN f = done /\ \A x, y \in done : f[x] = f[y] => x = y
        /\ \A t \in done : f[t] \in doneOf
        /\ \A e \in doneOf : \E t \in done : f[t] = e
    BY <1>6, <1>7
  <2> HIDE DEF f, done, doneOf
  <2> QED
    BY <2>1, <2>2, ImageIsFinite
<1>9. Cardinality(badOf) = Cardinality(bad) /\ IsFiniteSet(bad)
  <2> DEFINE f == [t \in bad |-> t.episode]
  <2>1. IsFiniteSet(bad)
    BY <1>8, FS_Subset
  <2>2. /\ DOMAIN f = bad /\ \A x, y \in bad : f[x] = f[y] => x = y
        /\ \A t \in bad : f[t] \in badOf
        /\ \A e \in badOf : \E t \in bad : f[t] = e
    BY <1>6, <1>7
  <2> HIDE DEF f, bad, badOf
  <2> QED
    BY <2>1, <2>2, ImageIsFinite
<1>10. Cardinality(done) \in Nat /\ Cardinality(bad) \in Nat
  <2> HIDE DEF done, bad
  <2> QED
    BY <1>8, <1>9, FS_CardinalityType
<1>11. \A t \in done : t.candidate = d.candidate
                        /\ t.episode \notin EpisodesOf(d.candidate.evidence)
  BY <1>3, <1>6
<1>12. Cardinality(done) >= rule.minimum /\ Cardinality(bad) <= rule.maximumFailed
  <2> HIDE DEF done, bad, doneOf, badOf, rule, rep
  <2> QED
    BY <1>3, <1>4, <1>5, <1>8, <1>9, <1>10
<1>13. done # {}
  <2>1. Cardinality(done) # 0
    <3> HIDE DEF done, rule
    <3> QED
      BY <1>5, <1>10, <1>12
  <2> HIDE DEF done
  <2> QED
    BY <2>1, FS_EmptySet
<1> QED
  BY <1>11, <1>12, <1>13

\* A snapshot and what register_candidate decides to add to it: identities, versions
\* and parents pass the constructors, whatever the size.
LEMMA DecidedIsConstructible ==
    ASSUME NEW s, NEW r, SnapshotShape(s), RegistrationOutcome(s, r) = "registered",
           SnapshotFits(s \cup {r}), ~Oversized(<<s, s \cup {r}>>)
    PROVE  ResultShape(s, s \cup {r}, r)
<1> DEFINE same == {x \in s : VersionKey(x) = VersionKey(r)}
<1>1. /\ r \notin s /\ same = {} /\ \A x \in s : x.candidate # r.candidate
      /\ ParentResolves(s, r)
  BY DEF RegistrationOutcome
<1>2. \A x, y \in s \cup {r} : /\ x.candidate = y.candidate => x = y
                               /\ VersionKey(x) = VersionKey(y) => x = y
  BY <1>1 DEF SnapshotShape
<1>3. \A x \in s \cup {r} : ParentResolves(s \cup {r}, x)
  BY <1>1 DEF SnapshotShape, ParentResolves
<1> QED
  BY <1>1, <1>2, <1>3 DEF ResultShape, SnapshotShape

--------------------------------------------------------------------------------
(* The steps. *)

LEMMA InitPInv ==
    ASSUME PInit
    PROVE  PInv
<1>1. PICK l \in Libraries :
         /\ episodes = l.episodes /\ corpora = l.corpora
         /\ candidates = l.candidates /\ reports = l.reports /\ promotions = l.promotions
  BY DEF PInit
<1>2. /\ session.state = "none" /\ session.events = <<>> /\ DOMAIN session = {"state", "events"}
      /\ snapshots = {{}} /\ rollbacks = {} /\ approvals = {} /\ activations = {}
  BY DEF PInit
<1>3. /\ IsFiniteSet(l.episodes) /\ \A e \in l.episodes : Captured(e) \/ Taught(e)
      /\ \A c \in l.corpora : EpisodesOf(c.candidate \cup c.holdout) \subseteq l.episodes
      /\ \A c \in l.corpora : IsFiniteSet(c.candidate) /\ IsFiniteSet(c.holdout)
      /\ \A c \in l.candidates : c.parent \in l.candidates \cup {None}
      /\ \A r \in l.reports : r.corpus \in l.corpora /\ r.candidate \in l.candidates
      /\ \A r \in l.reports : IsFiniteSet(r.trials)
      /\ \A d \in l.promotions :
            d.candidate \in l.candidates /\ d.report \in l.reports /\ d.criteria.rule \in Rules
  BY LibrariesAreMade
<1>4. \A e \in episodes : e.outcome \in Outcomes
  BY <1>1, <1>3, CapturedVerifies, TaughtVerifies
<1>5. Records = {}
  BY <1>2 DEF Records
<1>6. PTypeOK
  BY <1>1, <1>2, <1>3, <1>4, <1>5, BoundsAreNumbers DEF PTypeOK
<1>7. Countable
  BY <1>1, <1>2, <1>3, FS_EmptySet DEF Countable
<1>8. EpisodesMade
  BY <1>1, <1>2, <1>3, BoundsAreNumbers DEF EpisodesMade
<1>9. RecordsJustified
  <2>1. {x.candidate.family : x \in {}} = {}
    OBVIOUS
  <2>2. SnapshotFits({})
    BY <2>1, FS_EmptySet, BoundsAreNumbers, EmptySnapshotFits DEF SnapshotFits
  <2> QED
    BY <1>1, <1>2, <1>3, <2>2 DEF RecordsJustified, SnapshotShape
<1> QED
  BY <1>2, <1>6, <1>7, <1>8, <1>9 DEF PInv, RollbackSound, ActivationIsApproved

\* Teach mode adds episodes it made, and changes nothing else but its session.
LEMMA EpisodesAdded ==
    ASSUME PInv, NEW E, IsFiniteSet(E), \A e \in E : Captured(e) \/ Taught(e),
           episodes' = episodes \cup E, DOMAIN session' = {"state", "events"},
           session'.state \in {"none", "open", "sealed"},
           session'.events \in Seq(Events), Len(session'.events) <= MaxEvents,
           UNCHANGED <<corpora, learning, snapshots, control>>
    PROVE  PInv'
<1>1. \A e \in E : e.outcome \in Outcomes
  BY CapturedVerifies, TaughtVerifies
<1>2. Records' = Records
  BY DEF Records
<1>3. PTypeOK'
  BY <1>1, <1>2 DEF PInv, PTypeOK, learning, control
<1>4. Countable'
  BY FS_Union DEF PInv, Countable, learning
<1>5. EpisodesMade'
  BY DEF PInv, EpisodesMade
<1>6. RecordsJustified'
  BY DEF PInv, RecordsJustified, learning
<1> QED
  BY <1>2, <1>3, <1>4, <1>5, <1>6 DEF PInv, RollbackSound, ActivationIsApproved, control

\* A corpus is built or read, of episodes that exist.
LEMMA CorpusAdded ==
    ASSUME PInv, NEW c, IsFiniteSet(c.candidate), IsFiniteSet(c.holdout),
           EpisodesOf(c.candidate \cup c.holdout) \subseteq episodes,
           corpora' = corpora \cup {c},
           UNCHANGED <<session, episodes, learning, snapshots, control>>
    PROVE  PInv'
<1>2. Records' = Records
  BY DEF Records
<1>3. PTypeOK'
  BY <1>2 DEF PInv, PTypeOK, learning, control
<1>4. Countable'
  BY DEF PInv, Countable, learning
<1>5. EpisodesMade' /\ RecordsJustified'
  BY DEF PInv, EpisodesMade, RecordsJustified, learning
<1> QED
  BY <1>2, <1>3, <1>4, <1>5 DEF PInv, RollbackSound, ActivationIsApproved, control

\* A candidate is added, of a parent that exists.
LEMMA CandidateAdded ==
    ASSUME PInv, NEW c, c.parent \in candidates \cup {None}, candidates' = candidates \cup {c},
           UNCHANGED <<evidence, reports, promotions, snapshots, control>>
    PROVE  PInv'
<1>2. Records' = Records
  BY DEF Records
<1>3. PTypeOK'
  BY <1>2 DEF PInv, PTypeOK, evidence, control
<1>4. Countable'
  BY DEF PInv, Countable, evidence
<1>5. EpisodesMade' /\ RecordsJustified'
  BY DEF PInv, EpisodesMade, RecordsJustified, evidence
<1> QED
  BY <1>2, <1>3, <1>4, <1>5 DEF PInv, RollbackSound, ActivationIsApproved, control

\* A report is added, of documents that exist.
LEMMA ReportAdded ==
    ASSUME PInv, NEW r, r.corpus \in corpora, r.candidate \in candidates,
           IsFiniteSet(r.trials), reports' = reports \cup {r},
           UNCHANGED <<evidence, candidates, promotions, snapshots, control>>
    PROVE  PInv'
<1>2. Records' = Records
  BY DEF Records
<1>3. PTypeOK'
  BY <1>2 DEF PInv, PTypeOK, evidence, control
<1>4. Countable'
  BY DEF PInv, Countable, evidence
<1>5. EpisodesMade' /\ RecordsJustified'
  BY DEF PInv, EpisodesMade, RecordsJustified, evidence
<1> QED
  BY <1>2, <1>3, <1>4, <1>5 DEF PInv, RollbackSound, ActivationIsApproved, control

\* A decision is added, about documents that exist and by one of the rules.
LEMMA DecisionAdded ==
    ASSUME PInv, NEW d, d.candidate \in candidates, d.report \in reports,
           d.criteria.rule \in Rules, promotions' = promotions \cup {d},
           UNCHANGED <<evidence, candidates, reports, snapshots, control>>
    PROVE  PInv'
<1>2. Records' = Records
  BY DEF Records
<1>3. PTypeOK'
  BY <1>2 DEF PInv, PTypeOK, evidence, control
<1>4. Countable'
  BY DEF PInv, Countable, evidence
<1>5. EpisodesMade' /\ RecordsJustified'
  BY DEF PInv, EpisodesMade, RecordsJustified, evidence
<1> QED
  BY <1>2, <1>3, <1>4, <1>5 DEF PInv, RollbackSound, ActivationIsApproved, control

\* A version is registered from some snapshot.
LEMMA SnapshotAdded ==
    ASSUME PInv, NEW s \in snapshots, NEW d \in promotions, RegisterCandidate(s, d)
    PROVE  PInv'
<1>1. /\ Authoritative(d) /\ ResultShape(s, s \cup {Record(d)}, Record(d))
      /\ snapshots' = snapshots \cup {s \cup {Record(d)}}
      /\ UNCHANGED <<evidence, learning, control>>
  BY DEF RegisterCandidate
<1>2. SnapshotShape(s \cup {Record(d)}) /\ IsFiniteSet(s \cup {Record(d)})
  BY <1>1, FS_AddElement DEF PInv, Countable, ResultShape
<1>3. Record(d).decision = d
  BY DEF Record
<1>4. Records \subseteq Records' /\ \A r \in Records' : r \in Records \/ r = Record(d)
  BY <1>1 DEF Records
<1>5. PTypeOK'
  BY <1>1, <1>3, <1>4 DEF PInv, PTypeOK, evidence, learning, control
<1>6. Countable' /\ EpisodesMade'
  BY <1>1, <1>2 DEF PInv, Countable, EpisodesMade, evidence, learning
<1>7. RecordsJustified'
  BY <1>1, <1>2, <1>3 DEF PInv, RecordsJustified, learning
<1> QED
  BY <1>1, <1>4, <1>5, <1>6, <1>7 DEF PInv, RollbackSound, ActivationIsApproved, control

LEMMA CaptureKeeps ==
    ASSUME PInv, NEW s \in Scenarios, CaptureScenario(s)
    PROVE  PInv'
<1>1. PICK answer \in Answers[s] :
         LET r == ScenarioReport(s, answer)
             e == Episode(r, None, EventsFor(r), OutcomeFor(r))
         IN  /\ ReportShape(s, answer) /\ EpisodeShape(r, None, EventsFor(r))
             /\ episodes' = episodes \cup {e}
  BY DEF CaptureScenario
<1> DEFINE r == ScenarioReport(s, answer)
           e == Episode(r, None, EventsFor(r), OutcomeFor(r))
<1>2. Captured(e)
  BY <1>1 DEF Captured
<1>3. IsFiniteSet({e})
  BY FS_Singleton
<1>4. UNCHANGED <<session, corpora, learning, snapshots, control>>
  BY DEF CaptureScenario
<1>5. episodes' = episodes \cup {e}
  BY <1>1
<1>6. /\ DOMAIN session = {"state", "events"} /\ session.state \in {"none", "open", "sealed"}
      /\ session.events \in Seq(Events) /\ Len(session.events) <= MaxEvents
  BY DEF PInv, EpisodesMade, PTypeOK
<1> HIDE DEF e
<1> QED
  BY <1>2, <1>3, <1>4, <1>5, <1>6, EpisodesAdded

LEMMA SessionKeeps ==
    ASSUME PInv,
           \/ BeginSession
           \/ \E event \in Events : AppendEvent(event)
    PROVE  PInv'
<1>1. /\ DOMAIN session = {"state", "events"} /\ session.state \in {"none", "open", "sealed"}
      /\ session.events \in Seq(Events) /\ Len(session.events) <= MaxEvents
  BY DEF PInv, EpisodesMade, PTypeOK
<1>2. /\ DOMAIN session' = {"state", "events"} /\ session'.state \in {"none", "open", "sealed"}
      /\ session'.events \in Seq(Events) /\ Len(session'.events) <= MaxEvents
      /\ UNCHANGED <<episodes, corpora, learning, snapshots, control>>
  <2>1. CASE BeginSession
    BY <2>1, BoundsAreNumbers DEF BeginSession
  <2>2. ASSUME NEW event \in Events, AppendEvent(event)
        PROVE  /\ DOMAIN session' = {"state", "events"}
               /\ session'.state \in {"none", "open", "sealed"}
               /\ session'.events \in Seq(Events) /\ Len(session'.events) <= MaxEvents
               /\ UNCHANGED <<episodes, corpora, learning, snapshots, control>>
    <3>1. /\ session' = [session EXCEPT !.events = Append(@, event)]
          /\ Len(session.events) < MaxEvents
          /\ UNCHANGED <<episodes, corpora, learning, snapshots, control>>
      BY <2>2 DEF AppendEvent, CanAppend
    <3>2. /\ Append(session.events, event) \in Seq(Events)
          /\ Len(Append(session.events, event)) = Len(session.events) + 1
          /\ Len(session.events) \in Nat
      BY <1>1
    <3>3. Len(Append(session.events, event)) <= MaxEvents
      BY <3>1, <3>2, BoundsAreNumbers
    <3> QED
      BY <1>1, <3>1, <3>2, <3>3
  <2> QED
    BY <2>1, <2>2
<1>3. IsFiniteSet({}) /\ episodes' = episodes \cup {}
  BY <1>2, FS_EmptySet
<1> QED
  BY <1>2, <1>3, EpisodesAdded

LEMMA FinishKeeps ==
    ASSUME PInv, NEW outcome \in {"success", "incomplete"}, FinishSession(outcome)
    PROVE  PInv'
<1> DEFINE e == Episode(Teacher, SourceRange, session.events, outcome)
<1>1. /\ DOMAIN session = {"state", "events"} /\ session.events \in Seq(Events)
      /\ Len(session.events) <= MaxEvents
  BY DEF PInv, EpisodesMade
<1>2. /\ EpisodeShape(Teacher, SourceRange, session.events)
      /\ session' = [session EXCEPT !.state = "sealed"]
      /\ episodes' = episodes \cup {e}
      /\ UNCHANGED <<corpora, learning, snapshots, control>>
  BY DEF FinishSession
<1>3. Taught(e)
  BY <1>1, <1>2 DEF Taught, Episode, Outcomes
<1>4. IsFiniteSet({e})
  BY FS_Singleton
<1>5. /\ DOMAIN session' = {"state", "events"} /\ session'.state = "sealed"
      /\ session'.events \in Seq(Events) /\ Len(session'.events) <= MaxEvents
  BY <1>1, <1>2
<1> HIDE DEF e
<1> QED
  BY <1>2, <1>3, <1>4, <1>5, EpisodesAdded

\* What a corpus refers to are finitely many of the episodes.
LEMMA OwnReferences ==
    ASSUME NEW S, IsFiniteSet(S), NEW P, P = {Reference(e, e.outcome) : e \in S}
    PROVE  IsFiniteSet(P) /\ EpisodesOf(P) \subseteq S
<1> DEFINE f == [e \in S |-> Reference(e, e.outcome)]
<1>1. /\ DOMAIN f = S /\ \A e \in S : f[e] \in P
      /\ \A x \in P : \E e \in S : f[e] = x
  OBVIOUS
<1>2. EpisodesOf(P) \subseteq S
  BY DEF EpisodesOf, Reference
<1> HIDE DEF f
<1>3. IsFiniteSet(P)
  BY <1>1, ImageIsFinite
<1> QED
  BY <1>2, <1>3

LEMMA ClaimsAreFinite ==
    ASSUME IsFiniteSet(episodes)
    PROVE  IsFiniteSet(Claims) /\ EpisodesOf(Claims) \subseteq episodes
<1> DEFINE Of(o) == {c \in Claims : c.outcome = o}
<1>1. \A o \in {"success", "failure"} : IsFiniteSet(Of(o))
  <2> SUFFICES ASSUME NEW o \in {"success", "failure"} PROVE IsFiniteSet(Of(o))
    OBVIOUS
  <2> DEFINE f == [e \in episodes |-> Reference(e, o)]
             T == Of(o)
  <2>1. /\ DOMAIN f = episodes /\ \A e \in episodes : f[e] \in T
        /\ \A x \in T : \E e \in episodes : f[e] = x
    BY DEF Claims, Reference
  <2>2. IsFiniteSet(T)
    <3> HIDE DEF f, T
    <3> QED
      BY <2>1, ImageIsFinite
  <2> QED
    BY <2>2
<1>2. Claims = Of("success") \cup Of("failure")
  BY DEF Claims, Reference
<1>3. IsFiniteSet(Of("success") \cup Of("failure"))
  <2> HIDE DEF Of
  <2> QED
    BY <1>1, FS_Union
<1>4. EpisodesOf(Claims) \subseteq episodes
  BY DEF Claims, EpisodesOf, Reference
<1> QED
  BY <1>2, <1>3, <1>4

LEMMA CorpusKeeps ==
    ASSUME PInv,
           \/ \E P, Q \in SUBSET episodes : BuildCorpus(P, Q)
           \/ \E P, Q \in SUBSET Claims : ReadCorpus([candidate |-> P, holdout |-> Q])
    PROVE  PInv'
<1>0. IsFiniteSet(episodes)
  BY DEF PInv, Countable
<1>1. ASSUME NEW P \in SUBSET episodes, NEW Q \in SUBSET episodes, BuildCorpus(P, Q)
      PROVE  PInv'
  <2> DEFINE own(S) == {Reference(e, e.outcome) : e \in S}
             c == [candidate |-> own(P), holdout |-> own(Q)]
  <2>1. corpora' = corpora \cup {c} /\ UNCHANGED <<session, episodes, learning, snapshots, control>>
    BY <1>1 DEF BuildCorpus
  <2>2. IsFiniteSet(P) /\ IsFiniteSet(Q)
    BY <1>0, FS_Subset
  <2>3. /\ IsFiniteSet(own(P)) /\ EpisodesOf(own(P)) \subseteq P
        /\ IsFiniteSet(own(Q)) /\ EpisodesOf(own(Q)) \subseteq Q
    BY <2>2, OwnReferences
  <2>4. c.candidate = own(P) /\ c.holdout = own(Q)
    OBVIOUS
  <2> HIDE DEF own, c
  <2>5. EpisodesOf(c.candidate \cup c.holdout) \subseteq episodes
    BY <2>3, <2>4 DEF EpisodesOf
  <2> QED
    BY <2>1, <2>3, <2>4, <2>5, CorpusAdded
<1>2. ASSUME NEW P \in SUBSET Claims, NEW Q \in SUBSET Claims,
             ReadCorpus([candidate |-> P, holdout |-> Q])
      PROVE  PInv'
  <2> DEFINE c == [candidate |-> P, holdout |-> Q]
  <2>1. corpora' = corpora \cup {c} /\ UNCHANGED <<session, episodes, learning, snapshots, control>>
    BY <1>2 DEF ReadCorpus
  <2>2. IsFiniteSet(P) /\ IsFiniteSet(Q)
    BY <1>0, ClaimsAreFinite, FS_Subset
  <2>3. c.candidate = P /\ c.holdout = Q
    OBVIOUS
  <2> HIDE DEF c
  <2>4. EpisodesOf(c.candidate \cup c.holdout) \subseteq episodes
    BY <1>0, <2>3, ClaimsAreFinite DEF EpisodesOf
  <2> QED
    BY <2>1, <2>2, <2>3, <2>4, CorpusAdded
<1> QED
  BY <1>1, <1>2

LEMMA CandidateKeeps ==
    ASSUME PInv, NEW b \in Blueprints, NEW corpus \in corpora,
           NEW parent \in candidates \cup {None}, BuildCandidate(b, corpus, parent)
    PROVE  PInv'
<1>1. /\ candidates' = candidates \cup {Candidate(b, corpus.candidate, parent)}
      /\ UNCHANGED <<evidence, reports, promotions, snapshots, control>>
  BY DEF BuildCandidate
<1>2. Candidate(b, corpus.candidate, parent).parent = parent
  BY DEF Candidate
<1> QED
  BY <1>1, <1>2, CandidateAdded

LEMMA ReportKeeps ==
    ASSUME PInv, NEW corpus \in corpora, NEW c \in candidates, NEW trials \in TrialSets(corpus),
           EvaluateOffline(corpus, c, trials)
    PROVE  PInv'
<1> DEFINE rep == Report(corpus, c, trials)
<1>1. /\ reports' = reports \cup {rep}
      /\ UNCHANGED <<evidence, candidates, promotions, snapshots, control>>
  BY DEF EvaluateOffline
<1>2. rep.corpus = corpus /\ rep.candidate = c /\ rep.trials = trials
  BY DEF Report
<1>3. IsFiniteSet(trials)
  BY TrialSetsAreFinite DEF PInv, Countable
<1> HIDE DEF rep
<1> QED
  BY <1>1, <1>2, <1>3, ReportAdded

LEMMA DecisionKeeps ==
    ASSUME PInv, NEW rule \in Rules, NEW c \in candidates, NEW named, NEW h,
           NEW r \in reports, NEW stage, NEW given \in candidates,
           LET criteria == Criteria(rule, named, h)
               request  == PromotionRequest(c, r, criteria, stage)
           IN  EvaluatePromotion(criteria, request, given, r) \/ ImportDecision(criteria, request, c, r)
    PROVE  PInv'
<1> DEFINE criteria == Criteria(rule, named, h)
           request == PromotionRequest(c, r, criteria, stage)
<1>1. PICK d :
         /\ promotions' = promotions \cup {d}
         /\ d.candidate \in candidates /\ d.report = r /\ d.criteria = criteria
         /\ UNCHANGED <<evidence, candidates, reports, snapshots, control>>
  <2>1. CASE EvaluatePromotion(criteria, request, given, r)
    <3> DEFINE d == Decision(criteria, request, given, r)
    <3>1. /\ promotions' = promotions \cup {d}
          /\ UNCHANGED <<evidence, candidates, reports, snapshots, control>>
      BY <2>1 DEF EvaluatePromotion
    <3>2. d.candidate = given /\ d.report = r /\ d.criteria = criteria
      BY DEF Decision
    <3> HIDE DEF d, criteria
    <3> QED
      BY <3>1, <3>2
  <2>2. CASE ImportDecision(criteria, request, c, r)
    <3> DEFINE d == [Decision(criteria, request, c, r) EXCEPT !.status = "eligible"]
    <3>1. /\ promotions' = promotions \cup {d}
          /\ UNCHANGED <<evidence, candidates, reports, snapshots, control>>
      BY <2>2 DEF ImportDecision
    <3>2. d.candidate = c /\ d.report = r /\ d.criteria = criteria
      BY DEF Decision
    <3> HIDE DEF d, criteria
    <3> QED
      BY <3>1, <3>2
  <2> QED
    BY <2>1, <2>2
<1>2. criteria.rule = rule
  BY DEF Criteria
<1> HIDE DEF criteria
<1> QED
  BY <1>1, <1>2, DecisionAdded

LEMMA RollbackKeeps ==
    ASSUME PInv, NEW current, NEW target, NEW goodDecision, NEW d, NEW rule, NEW claim, NEW asked,
           EvaluateRollback(current, target, goodDecision, d, rule, claim, asked)
    PROVE  PInv'
<1> DEFINE good == KnownGood(goodDecision.candidate, goodDecision)
           criteria == [current |-> asked, good |-> good, rule |-> rule]
           request == [current |-> current, good |-> good, criteria |-> criteria, claim |-> claim]
           reasons == RollbackReasons(criteria, request, current, target, good, d)
           x == [current |-> current, target |-> target, decision |-> d, claim |-> claim,
                 status |-> IF reasons = {} THEN "eligible" ELSE "rejected"]
<1>1. /\ rollbacks' = rollbacks \cup {x}
      /\ UNCHANGED <<evidence, learning, snapshots, approvals, activations, limit>>
  BY DEF EvaluateRollback
<1>2. /\ x.current = current /\ x.target = target /\ x.decision = d /\ x.claim = claim
      /\ x.status \in {"eligible", "rejected"} /\ (x.status = "eligible" => reasons = {})
  OBVIOUS
<1>3. request.claim = claim
  OBVIOUS
<1>4. ASSUME reasons = {}
      PROVE  /\ target # current
             /\ target.family = current.family /\ target.contract = current.contract
             /\ d.status = "eligible" /\ d.candidate = target
             /\ RequiredKind(claim.reason) \in claim.kinds
  <2> HIDE DEF good, criteria, request
  <2> QED
    BY <1>3, <1>4 DEF RollbackReasons
<1> HIDE DEF x, reasons
<1>5. RollbackSound'
  BY <1>1, <1>2, <1>4 DEF PInv, RollbackSound
<1>6. ActivationIsApproved'
  BY <1>1 DEF PInv, ActivationIsApproved, Records
<1>7. Records' = Records
  BY <1>1 DEF Records
<1>8. PTypeOK'
  BY <1>1, <1>2, <1>7 DEF PInv, PTypeOK, evidence, learning
<1>9. Countable' /\ EpisodesMade' /\ RecordsJustified'
  BY <1>1 DEF PInv, Countable, EpisodesMade, RecordsJustified, evidence, learning
<1> QED
  BY <1>5, <1>6, <1>8, <1>9 DEF PInv

LEMMA ApprovalKeeps ==
    ASSUME PInv, NEW record \in Records, NEW asked, NEW a \in Authorities, NEW disposition \in ApprovalDispositions,
           GiveApproval(record, asked, a, disposition)
    PROVE  PInv'
<1> DEFINE x == [request |-> ApprovalRequest(record, asked), authority |-> a,
                 disposition |-> disposition]
<1>1. /\ approvals' = approvals \cup {x}
      /\ UNCHANGED <<evidence, learning, snapshots, rollbacks, activations, limit>>
  BY DEF GiveApproval
<1>2. x.authority = a /\ x.disposition = disposition
  OBVIOUS
<1> HIDE DEF x
<1>3. RollbackSound' /\ ActivationIsApproved'
  BY <1>1 DEF PInv, RollbackSound, ActivationIsApproved, Records
<1>4. Records' = Records
  BY <1>1 DEF Records
<1>5. PTypeOK'
  BY <1>1, <1>2, <1>4 DEF PInv, PTypeOK, evidence, learning
<1>6. Countable' /\ EpisodesMade' /\ RecordsJustified'
  BY <1>1 DEF PInv, Countable, EpisodesMade, RecordsJustified, evidence, learning
<1> QED
  BY <1>3, <1>5, <1>6 DEF PInv

LEMMA ActivationKeeps ==
    ASSUME PInv, NEW record \in Records, NEW request, NEW approval \in approvals,
           EvaluateActivation(record, request, approval)
    PROVE  PInv'
<1> DEFINE x == [record |-> record, approval |-> approval,
                 status |-> IF ActivationReasons(approval) = {} THEN "eligible" ELSE "ineligible"]
<1>1. /\ activations' = activations \cup {x} /\ ExactChain(record, request, approval)
      /\ UNCHANGED <<evidence, learning, snapshots, rollbacks, approvals, limit>>
  BY DEF EvaluateActivation
<1>2. /\ x.record = record /\ x.approval = approval
      /\ x.status = "eligible" => ActivationReasons(approval) = {}
  OBVIOUS
<1>3. /\ approval.request.record = record /\ approval.request.authority = approval.authority
  BY <1>1 DEF ExactChain
<1> HIDE DEF x
<1>4. RollbackSound' /\ Records' = Records
  BY <1>1 DEF PInv, RollbackSound, Records
<1>5. ActivationReasons(approval) = {} =>
         approval.authority.status = "verified" /\ approval.disposition = "approved"
  BY ConfigurationIsValid
     DEF PInv, PTypeOK, ValidAuthority, ApprovalDispositions, ActivationReasons
<1>6. ActivationIsApproved'
  BY <1>1, <1>2, <1>3, <1>4, <1>5 DEF PInv, ActivationIsApproved
<1>7. Records' = Records
  BY <1>1 DEF Records
<1>8. PTypeOK'
  BY <1>1, <1>2, <1>7 DEF PInv, PTypeOK, evidence, learning
<1>9. Countable' /\ EpisodesMade' /\ RecordsJustified'
  BY <1>1 DEF PInv, Countable, EpisodesMade, RecordsJustified, evidence, learning
<1> QED
  BY <1>4, <1>6, <1>8, <1>9 DEF PInv

LEMMA NextPInv ==
    ASSUME PInv, [PNext]_pvars
    PROVE  PInv'
<1>1. CASE UNCHANGED pvars
  <2>1. PInv' <=> PInv
    BY <1>1 DEF pvars, evidence, learning, control, PInv, PTypeOK, Countable, EpisodesMade,
                RecordsJustified, RollbackSound, ActivationIsApproved, Records
  <2> QED
    BY <2>1
<1>2. ASSUME NEW s \in Scenarios, CaptureScenario(s) PROVE PInv'
  BY <1>2, CaptureKeeps
<1>3. CASE BeginSession \/ \E event \in Events : AppendEvent(event)
  BY <1>3, SessionKeeps
<1>4. ASSUME NEW outcome \in {"success", "incomplete"}, FinishSession(outcome) PROVE PInv'
  BY <1>4, FinishKeeps
<1>5. CASE \/ \E P, Q \in SUBSET episodes : BuildCorpus(P, Q)
           \/ \E P, Q \in SUBSET Claims : ReadCorpus([candidate |-> P, holdout |-> Q])
  BY <1>5, CorpusKeeps
<1>6. ASSUME NEW b \in Blueprints, NEW corpus \in corpora, NEW parent \in candidates \cup {None},
             BuildCandidate(b, corpus, parent)
      PROVE  PInv'
  BY <1>6, CandidateKeeps
<1>7. ASSUME NEW corpus \in corpora, NEW c \in candidates, NEW trials \in TrialSets(corpus),
             EvaluateOffline(corpus, c, trials)
      PROVE  PInv'
  BY <1>7, ReportKeeps
<1>8. ASSUME NEW rule \in Rules, NEW c \in candidates, NEW named \in candidates,
             NEW h \in Holdouts, NEW r \in reports, NEW stage \in rule.stages,
             LET criteria == Criteria(rule, named, h)
                 request  == PromotionRequest(c, r, criteria, stage)
             IN  \/ \E given \in candidates : EvaluatePromotion(criteria, request, given, r)
                 \/ ImportDecision(criteria, request, c, r)
      PROVE  PInv'
  BY <1>8, DecisionKeeps
<1>9. ASSUME NEW s \in snapshots, NEW d \in promotions, RegisterCandidate(s, d) PROVE PInv'
  BY <1>9, SnapshotAdded
<1>10. ASSUME NEW current \in candidates, NEW target \in candidates, NEW asked \in candidates,
              NEW good \in promotions, NEW d \in promotions, NEW rule \in RollbackRules,
              NEW claim \in RollbackClaims,
              EvaluateRollback(current, target, good, d, rule, claim, asked)
       PROVE  PInv'
  BY <1>10, RollbackKeeps
<1>11. ASSUME NEW record \in Records, NEW asked \in Authorities, NEW a \in Authorities,
              NEW disposition \in ApprovalDispositions,
              GiveApproval(record, asked, a, disposition)
       PROVE  PInv'
  BY <1>11, ApprovalKeeps
<1>12. ASSUME NEW record \in Records, NEW x \in approvals, NEW approval \in approvals,
              EvaluateActivation(record, x.request, approval)
       PROVE  PInv'
  BY <1>12, ActivationKeeps
<1> QED
  BY <1>1, <1>2, <1>3, <1>4, <1>5, <1>6, <1>7, <1>8, <1>9, <1>10, <1>11, <1>12 DEF PNext

LEMMA SpecPInv == PSpec => []PInv
<1>1. PInit => PInv
  BY InitPInv
<1>2. PInv /\ [PNext]_pvars => PInv'
  BY NextPInv
<1> QED
  BY <1>1, <1>2, PTL DEF PSpec

\* What teach mode records passes the verification that is written apart from the
\* constructor, and an episode is called a success only of a run whose required
\* assertions passed and whose cleanup ended, whatever is captured, recorded or left
\* open (teach_mode capture.py, verification.py, scenario_adapter.py).
THEOREM EpisodesStaySound == PSpec => []EpisodesSound
<1>1. PInv => EpisodesSound
  <2> SUFFICES ASSUME PInv PROVE EpisodesSound
    OBVIOUS
  <2>1. \A e \in episodes : Captured(e) \/ Taught(e)
    BY DEF PInv, EpisodesMade
  <2>2. EpisodesVerify
    BY <2>1, CapturedVerifies, TaughtVerifies DEF EpisodesVerify
  <2>3. OutcomeIsEarned
    BY <2>1, CapturedVerifies, TaughtVerifies DEF OutcomeIsEarned
  <2> QED
    BY <2>2, <2>3 DEF EpisodesSound, PInv
<1> QED
  BY <1>1, SpecPInv, PTL

\* Every version in every registry snapshot was evaluated on holdout evidence that is
\* none of its own, as its rule asks for, however documents were mixed up or read back
\* on the way; and a registration that register_candidate has decided, from any
\* snapshot a caller still holds, raises in a constructor only for the number of
\* versions or families or the length of a document (registration.py, models.py).
THEOREM RegistryStaysSound == PSpec => []RegistrySound
<1>1. PInv => RegistrySound
  <2> SUFFICES ASSUME PInv PROVE RegistrySound
    OBVIOUS
  <2>1. RegisteredOnHoldout
    <3> SUFFICES ASSUME NEW s \in snapshots, NEW r \in s
                 PROVE  LET rule == r.decision.criteria.rule
                            done == {t \in r.decision.report.trials : t.observed # None}
                        IN  /\ r.decision.candidate = r.candidate
                            /\ Cardinality(done) >= rule.minimum /\ done # {}
                            /\ \A t \in done : t.candidate = r.candidate
                                  /\ t.episode \notin EpisodesOf(r.candidate.evidence)
                            /\ Cardinality({t \in done : t.observed # t.expected})
                                  <= rule.maximumFailed
      BY DEF RegisteredOnHoldout, Records
    <3>1. r = Record(r.decision) /\ Authoritative(r.decision)
      BY DEF PInv, RecordsJustified
    <3>2. r \in Records
      BY DEF Records
    <3>3. r.decision \in promotions
      BY <3>2 DEF PInv, PTypeOK
    <3>4. r.decision.criteria.rule \in Rules /\ IsFiniteSet(r.decision.report.trials)
      BY <3>3 DEF PInv, RecordsJustified, PTypeOK, Countable
    <3>5. r.decision.candidate = r.candidate
      BY <3>1 DEF Record
    <3> QED
      BY <3>1, <3>4, <3>5, AuthoritativeMeansEvaluated
  <2>2. OnlySizeStopsRegistration
    BY DecidedIsConstructible DEF PInv, RecordsJustified, OnlySizeStopsRegistration
  <2> QED
    BY <2>1, <2>2 DEF RegistrySound
<1> QED
  BY <1>1, SpecPInv, PTL

\* An eligible rollback leads to another candidate of the same family and contract on
\* an eligible decision about it, and an eligible activation is of a registered record
\* that a verified authority was asked about and approved (rollback.py,
\* approval_eligibility evaluation.py).
THEOREM ReleasesStaySound == PSpec => []ReleasesSound
<1>1. PInv => ReleasesSound
  BY DEF PInv, ReleasesSound
<1> QED
  BY <1>1, SpecPInv, PTL
================================================================================
