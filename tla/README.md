# TLA+ models of Ayyo

TLA+ specifications of the stateful core of the Ayyo humanoid software and of the
documents its parts hand to each other, the TLC configurations that check them on
small instances, and TLAPS proofs. Every module is translated from the Python and
C++ source; `PROJECT.json` maps each definition to the lines it stands for, each
property to a mutant that breaks it, and each hazard of the code to the properties
that would catch it.

- [Inventory](#inventory): the parts of the system and what makes them hard
- [Modules](#modules): what models what, and how state and actions correspond
- [Runs](#runs): what each run shows, with which bounds
- [Fairness and deadlock](#fairness-and-deadlock)
- [Proofs](#proofs)
- [What the models say about the code](#what-the-models-say-about-the-code)
- [Not modelled](#not-modelled)
- [Plan](#plan)

## Inventory

Ayyo is a set of Python packages with explicit boundaries between them. Most of
the code builds and verifies immutable documents (fingerprinted dataclasses);
state that lives from call to call is kept in few places.

| Component | State it keeps | Operations | Hard because |
|---|---|---|---|
| **Memory OS** (`memory`) | tables `memories` and `memory_conflicts` of one SQLite file | `create_memory`, `correct_memory`, `retract_memory`, queries | several processes share the file; a call reads the clock and its target before its transaction; transactions fail, processes die |
| **Memory Validation** (`memory_validation`) | none of its own; a decision the caller carries | `evaluate`, `apply` | `evaluate` is five or more separate reads; `apply` compares, then writes in another transaction |
| **Personal context** (`personal_context`) | none | `build_snapshot`, `get_context` | separate reads, no transaction |
| **Working Memory** (`working_memory`) | current evidence per key, a recent window, semantic batches with watermarks | `ingest`, queries, `reset` | arrivals late, twice, out of order; expiry and three capacities remove what others refer to |
| **Memory consolidation** (`memory_consolidation`) | a plan the caller carries | `discover`, `stage`, `select`, `prepare`, `execute_review` | evidence expires, is evicted or reset between discovery, plan and each staging; discovery and staging check in two places |
| **Perception trust boundary** (`perception`) | source references, authorizations, last observation per key | five `authorize_*`, `admit`, `report_failure`, `reset` | an authorization is consumed by the attempt; the reference chain frame, interpretation, semantic observation is cut at any link |
| **Sensor adapters** (`physical_camera`, `depth_camera`, `head_audio`, `rgbd_fusion`) | lifecycle, session, pending half-pairs, last accepted | `configure`, `activate`, `deactivate`, `cleanup`, `shutdown`, `submit*` | messages of earlier sessions, pairing with bounded queues, failed reconfiguration |
| **World Model node** (`world_model_node.py`) and its data (`world_model`) | adapters, boundary and memory of one lifecycle | lifecycle transitions, sensor callbacks, query services | composes the four above; boundary and memory have clocks of their own, and a regression resets an epoch in the middle of a callback |
| **Decision chain** (`executive`, `safety_kernel`, `skill_manager`, `runtime_bridge`, `runtime_boundary.py`) | immutable decisions and registries | `evaluate` and `revalidate` of each stage, dispatch, authorize | decisions outlive what they were made from; each stage recomputes what the one before claims |
| **Simulation control** (`simulation_control` and its ROS node) | lifecycle evidence, the newest joint state, query futures, `closing` | service callback, joint-state and lifecycle callbacks, `close` | reentrant callbacks on few threads; handlers block the threads that would run the callbacks they wait for |
| **Manipulation review** (`manipulation_planning`, `manipulation_trajectory`, `manipulation_simulation_execution`, stages 9A to 9C) | documents | plan, schedule, review, hand off, sample densely | every document arrives as a separate argument; rounding of samples |
| **Stage 9C client** | latest observed states, one goal | waits, preflight, goal, result, classification | deadlines racing late answers, stale samples, unconfirmed cancellation |
| **Stage 9D client and grasp fixture** | in the plugin: attachment, requests, contact | attach, hold, release | unacknowledged commands, states published before a command took effect |
| **Learning** (`developmental_scenarios`, `teach_mode`, `learning_evaluation`, `promotion_control`, `policy_registry`, `approval_eligibility`) | recorder session; registry snapshots | run, capture, evaluate, promote, register, approve, roll back | lineage over immutable snapshots; documents read back from JSON |
| Visual evaluation (`visual_evaluation`) | producer registry, child processes | register, invoke with timeout and clean-up | a timeout racing a result, orphaned processes |
| Showcase, launch files, scripts, ROS tools | none | configuration, printing | not hard in a way a model checker sees |

How they interact. Sensor callbacks of the World Model node hand messages to a
sensor adapter; what it admits is sealed, authorized at the perception boundary,
admitted there, and ingested by Working Memory. Evidence retained there may be
staged by Memory consolidation as a candidate for Memory Validation, which writes
through the Memory OS. Personal context projects the Memory OS for the Executive,
whose proposals pass Safety, Skills and the Runtime Bridge before a transport is
used; Simulation control moves the one joint it is allowed to move, and stage 9
moves a simulated arm through reviews of its own. Demonstrations of scenarios are
captured, become corpora on which policies are evaluated, and policies are
promoted, registered and approved; nothing activates one.

What correctness means for each part is the list of properties its module ends
with, each stated in words there. A run checks a few of them, each the conjunction
of the named parts that make up one idea (`RevisionsSound`, `OneEpoch`,
`ReportsTrue`, ...), the module's type invariant among them. `PROJECT.json` lists the hazards one by one, at
their lines, with the properties that are about them.

## Modules

| Module | Models | Extends |
|---|---|---|
| `MemoryStore` | `memory/service.py`, `memory/sqlite_store.py` | |
| `MemoryValidation` | `memory_validation/service.py`, `policy.py`, `models.py` | `MemoryStore` (a validator's write is `MemoryStore`'s call) |
| `PersonalContext` | `personal_context/service.py`, `projector.py`, `models.py` | `MemoryStore` (its clients run between the reads) |
| `WorkingMemory` | `working_memory/service.py` | |
| `Consolidation` | `memory_consolidation/*` | `WorkingMemory` (other threads run between two stagings) |
| `PerceptionBoundary` | `perception/boundary.py` | |
| `SensorAdapters` | the four `adapter.py` | |
| `WorldModel` | `world_model/models.py`, `projector.py` | |
| `WorldModelNode` | `world_model_node.py` | `WorldModel` |
| `SimulationControl` | `simulation_control/adapter.py`, `simulation_control_node.py` | |
| `DecisionChain` | `executive`, `safety_kernel`, `skill_manager`, `runtime_bridge`, `runtime_boundary.py` | |
| `ReviewGate` | what the decision chain promises, abstractly | |
| `PolicyLifecycle` | the learning packages | |
| `ManipulationReview` | stage 9A, 9B and 9C documents | |
| `SimulatedExecution` | `stage9c_execution.py`, the action server and the simulator as it sees them | `ManipulationReview` |
| `GraspInteraction` | `stage9d_interaction.py`, `stage9d_grasp_fixture.cpp` | `SimulatedExecution` |
| `...Proofs` | theorems about the module of that name and their proofs (`MemoryProofs`: about `MemoryStore` and `PersonalContext`; `EvidenceProofs`: about `WorkingMemory` and `Consolidation`; `DecisionProofs`: about `DecisionChain` and `PolicyLifecycle`, which share no state) | that module |
| `MC...` | instances for TLC | the module of that name |

**MemoryStore.** `memories` and `conflicts` are the two tables, a conflict being
identified by the unordered pair `UNIQUE(left, right)` makes of it; `call[c]` is
what client `c` is doing. A call has two steps as in the code: the service step
(`create_memory`, `correct_memory`, `retract_memory`) checks its arguments, reads
the clock and draws a UUID; the store step (`StoreAdd`, `StoreCorrect`,
`StoreRetract`) is the whole `BEGIN IMMEDIATE` transaction. `TransactionFails` is
any SQLite error (all is rolled back), `Crash` the death of the process,
`ClockMoves` the wall clock, which may be set back. A transaction is one step
because SQLite admits one writer at a time and reads of it see all or nothing.

**MemoryValidation.** Each read of `evaluate` (`_active_memories`,
`SelectConflicts`, `_active_conflicts`, `ReadTarget`, `get_revision_history` row by
row) is a step, and `OthersWrite` may come between any two; the policy is the
function `_decision` of what was read, with the invariant checks that raise
`PolicyInvariantError` in `PolicyRaises`. The code takes no lock for `apply`; the
documentation asks deployments that need one to coordinate their writers, and an
`apply` with `alone` is one that such a deployment runs. `AppliedAsDecided` and
`ApplyNeverTorn` are about those; every other property holds of both. Unicode
normalization of identities is an arbitrary idempotent map `Norm`.

**PersonalContext.** `query_memories`, `list_conflicts` and `build_snapshot` are
the three moments at which a build looks at the database. The memories of a
conflict are fetched one by one in the code; memories only ever end, so one step
for all of them has every outcome. `open` and `quiet` are history: what was open at
the first read and whether nobody has written since.

**WorkingMemory** and **PerceptionBoundary.** Each method holds the object's lock
from its first change to its last, so it is one action. An observation is a number
with a fixed description (its identity is a digest of its content), and the numbers
stand for the order of `observation_id`, which breaks ties. `accepted` and
`admitted` are history variables.

**Consolidation.** A review is one step per staging, because each staging takes the
memory's lock on its own; `MemoryStep` is any step of other threads in between.
Identities are contents, the order of digests is the order of numbers, texts are
sizes. One plan per behaviour; the stateless calls `stage` and `select` are made
before it. The evaluator is external: any decision, an exception, or documents that
are too long.

**SensorAdapters.** One state machine for the four adapters; `kind` says which of
them a behaviour is about. They share `activate`, `deactivate`, `cleanup`,
`shutdown`, eviction and pairing and differ in `configure_*` and in what they
accept. A source is a name; a calibration is named by the source it belongs to.

**WorldModel** and **WorldModelNode.** Every callback, service and transition runs
alone on the single-threaded executor and is one action. Boundary, memory and
adapters are reduced to what the node can tell of them: what is admitted, what is
authorized, what is retained, the last time of each. `now` is the first clock read
of a callback and `later` every other one; they are equal under simulation time and
may differ under system time. `answer` is what a query has just returned. The
constructors' conditions that relate fields are modelled; numeric bounds of single
fields are one form, "malformed".

**SimulationControl.** The handler of a command is a sequence of steps
(`_handle_command`, `_refresh_lifecycle`, `snapshot`, `Check`, `dispatch_position`,
`wait_for_feedback`, `Judge`), each of which is what happens under the gateway's
lock or on one reading of the clock. The executor's threads are a number that
handlers and callbacks use up. The joint, the controller manager and `/clock` are
external, modelled by what the code sees of them. `Tolerance` and `LeastChange`
decide a completion as `position_tolerance` and `MINIMUM_OBSERVABLE_CHANGE` do: a
joint that is within the tolerance of the target already, or on it, completes the
command as soon as it moves observably and stays within the tolerance.

**DecisionChain** and **ReviewGate.** Each stage (`Propose`, `Assess`, `BindStep`,
`Match`, `Dispatch`, `Authorize`) is a pure function of documents and of one of
five configurations; `Reconfigure` replaces a configuration between any two calls,
and `Alter` is a caller that passes on a changed copy of a document. A fingerprint
is modelled by the content it covers. `ReviewGate` is the promise without the
stages: a step of a proposed document is cleared only under the policy in force at
that moment, and only a cleared step is accepted. `ImplementsGate` is
`ReviewGate!Spec` with the documents mapped to `proposed`, the bindings to
`cleared` and what was dispatched or authorized to `accepted`.

**PolicyLifecycle.** The variables are the documents callers hold. `CaptureScenario`
and the session actions make episodes, `BuildCorpus`, `BuildCandidate`,
`EvaluateOffline`, `EvaluatePromotion`, registration, approval and rollback combine
any of them; corpora and decisions may also be read back from JSON (`ReadCorpus`,
`ImportDecision`), with a content nobody evaluated. A behaviour starts with a
library of documents so that late stages are reached with few steps.
`register_candidate` decides by identities, versions and parents
(`RegistrationOutcome`) and only then constructs the snapshot and the result, whose
constructors also limit versions, families and the length of the document
(`SnapshotFits`, `ResultShape`). What they refuse raises, and nothing is registered:
a 65th version or a 17th family is met there. `Oversized` is an arbitrary predicate
on the snapshots in a document, standing for the byte limits of `canonical.py`; the
byte limits of the other documents of this part are not modelled.

**ManipulationReview**, **SimulatedExecution**, **GraspInteraction.** The review is
a set of documents to which any stage may add one made of any others; a constructor
that raises is a step that is not enabled. Positions and times are integers of a
unit in which every division of the checked requests is exact
(`InterpolationExact`). The clients are sequences of steps with a program counter;
`now` is simulation time in ticks of 250 ms. The client's deadlines run on the
monotonic clock and may expire whenever a wait's condition does not hold. A tick
that overtakes a step the client or a message in flight could have taken counts as
a delay against `MaxFaults`, with faults, late samples, losses and foreign
commands. The plugin's `PreUpdate` comes before physics in each tick.

## Runs

All bounds are named constants; `tlc -workers 2 -config X.cfg M` reproduces a run.

| Run | Shows | Bounds, and why they are enough |
|---|---|---|
| `memory` | conflict table exact, chains linear and acyclic, returned calls durable, memory rows readable, history append-only | two clients, three ids, two keys, two values: a correction against a third memory's conflict, chains of three, collisions of ids. The clock moves both ways with at most two rows stored (`Bounded`): two rows and one earlier tick are what it takes to end a row before it began; the proofs have no such bound |
| `validation` | a consistent read is always decided, corrections justified at their commit and applied once, `apply` alone is a compare-and-write | one validator, three ids, two spellings of one identity, others creating, correcting and retracting anywhere. All evidence has correcting authority; the refusal of other evidence is in the `memory` run |
| `personal_context` | a snapshot is the state at the first read, refused only when disturbed | three ids, two values, an identity with a context domain, one of an excluded type, one of another subject |
| `working_memory` | the windows hold exactly what time and capacity permit, current evidence is the newest ever accepted, semantic batches stay grounded and ordered | 21 observations with every kind, time-out of two ticks in a range of seven, windows of four, one and one, so every capacity overflows |
| `consolidation` | nothing left out silently, what is proposed stages, what is staged was held, what is evaluated does not contradict itself | a frame interpreted twice, two batches with seven items, one entity; a window of five evicts the frame, four pieces of evidence are the most that is inspected; future, fresh, stale and expired all occur in three ticks; two proposals, four diagnostics and nine units of text are exceeded |
| `perception` | references only to admitted sources, admissions ordered per key, nothing admitted twice | 16 observations, each authorization, capacities of two, expiry of each frame in turn |
| `sensor_sessions` | sessions isolated, partners always meet, admissions in order and sessions never reused | two sources, two activations, queues of two, four acquisition times |
| `world_node` | boundary and memory of one epoch, answers current, failures not masked, fused evidence of one epoch | seven compositions and two that are refused, five callbacks or queries, three ticks, one regression of the clock; which topics carry messages depends on the composition |
| `decision_chain` | what is accepted was planned, reviewed and bound; revalidation finds what changed; no joint command is released; implements `ReviewGate` | three requests, three capabilities, two of each configuration, one replaced at any moment, two plans, one binding, one use |
| `control` | COMPLETED is observed, undispatched is never taken, shutdown is quiet and final, every command is answered | two commands on two threads, one for where the joint is and one farther away than the tolerance, so that a joint on, near and away from its target completes; either two joint states that overtake each other under a lagging clock, or lifecycles that change, queries that fail and a shutdown at any step (`Scenarios`) |
| `policy_lifecycle` | what is registered was evaluated on other demonstrations than its own, a decided registration fails for size only, rollbacks and activations are justified | seven libraries of documents, seven events, partitions of two; two versions of one family and one record too long to stand beside another, so that each of the three limits is met without the others |
| `stage9` | the arm moves only near what was checked, success is true, the object is carried, the clients end | a two-joint arm, movements of two ticks with a box hidden between the waypoints, one fault at any moment; nine ticks are a whole 9D run and one more |

Symmetry is used in the three memory runs only, over ids, values and clients (and
over keys where none is named), which no definition distinguishes; no liveness
property is checked with it.

## Fairness and deadlock

Two runs check liveness, and each assumes only that code which can take a step
takes it. `control`: weak fairness of each handler's steps; a handler has a thread
of its own once it has begun, and both of its waits end by a wall-clock deadline.
`stage9`: weak fairness of the two clients' steps, whose loops are all bounded by
monotonic deadlines. Nothing is assumed of callbacks, servers, topics, the
simulator or time: `CommandsAnswered` and `ClientEnds` hold although none of them
ever acts.

`CHECK_DEADLOCK FALSE` is said where a behaviour really ends: commands answered
(`control`), a client that has exited (`stage9`), a node finalized (`world_node`),
and callers whose bounded stock of documents is used up (`decision_chain`,
`policy_lifecycle`).

## Proofs

TLC checks a property on one small instance; the theorems below state it for every
value of the constants that satisfies the named assumptions: any number of clients,
callbacks, observations, reconfigurations and regressions, any capacities and
limits. Every inductive invariant was checked by TLC on the module's run before it
was proved.

| Module | Theorem | Statement |
|---|---|---|
| `MemoryProofs` | `TypeCorrect` | `Spec => []TypeOK` |
| | `ConflictsAreExact` | `Spec => []ConflictsExact` |
| | `RevisionsAreLinear` | `Spec => []RevisionsSound` |
| | `ReturnedCallsAreStored` | `Spec => []ToldIsStored` |
| | `ResolutionsAreJustified` | `Spec => []ResolutionsJustified` |
| | `HistoryIsImmutable` | `Spec => HistoryImmutable` |
| | `SnapshotsAreOfOneState` | `CSpec => []SnapshotOfOneState` |
| | `BuildsAreRefusedByWriters` | `CSpec => []OnlyWritersRefuse` |
| | `PolicyAlwaysAccepts` | `VSpec => []PolicyAccepts` |
| | `ApplyIsSound` | `VSpec => []ApplySound` |
| | `CorrectionsAreJustified` | `VSpec => CorrectionsJustified` |
| | `AppliedIsAsDecided` | `VSpec => AppliedAsDecided` |
| `EvidenceProofs` | `SemanticsStaySound` | `Spec => []SemanticsSound` |
| | `CurrentStaysNewest` | `Spec => []CurrentIsNewest` |
| | `WindowsStayExact` | `Spec => []WindowsExact` |
| | `ReviewsStaySound` | `CSpec => []ReviewsSound` |
| | `DiscoveryStaysExact` | `CSpec => []DiscoveryExact` |
| `PerceptionBoundaryProofs` | `ReferencesStayGrounded` | `Spec => []ReferencesGrounded` |
| | `AdmissionsStayOrdered` | `Spec => []AdmissionsOrdered` |
| | `NothingTwice` | `Spec => AdmittedOnce` |
| `SensorAdaptersProofs` | `SessionsStayIsolated` | `Spec => []SessionsIsolated` |
| | `NoPartnersEverWait` | `Spec => []NoPartnersWait` |
| | `AdmittedStaysInOrder` | `Spec => AdmittedInOrder` |
| `WorldModelNodeProofs` | `NodeStaysInOneEpoch` | `Spec => []OneEpoch` |
| | `AnswersStaySound` | `Spec => []AnswersSound` |
| `DecisionProofs` | `ChainImplementsGate` | `Spec => ImplementsGate` (the refinement of `ReviewGate`) |
| | `GroundedLeaves` | `Spec => []OnlyGroundedLeaves` |
| | `StagesAlwaysAgree` | `Spec => []StagesAgree` |
| | `RevalidationIsSound` | `Spec => []RevalidationSound` |
| | `EpisodesStaySound` | `PSpec => []EpisodesSound` |
| | `RegistryStaysSound` | `PSpec => []RegistrySound` |
| | `ReleasesStaySound` | `PSpec => []ReleasesSound` |
| `SimulationControlProofs` | `CompletionObserved` | `Spec => []CompletedIsObserved` |
| | `DenialIsTrue` | `Spec => []UndispatchedNeverTaken` |
| | `ClosedStaysFinal` | `Spec => ClosedIsFinal` |
| `GraspInteractionProofs` | `ReportsStayTrue` | `Spec => []ReportsTrue` |
| | `ReviewStaysSound` | `Spec => []ReviewSound` |
| | `ArmStaysNearChecked` | `Spec => []ArmNearChecked` |

**MemoryStore** (assumes `NilAssumption`: NULL is no id, key or value;
`TimeAssumption`; `ProvenanceAssumption`). The inductive invariant `TableInv` is the
conjunction of the type invariant with `RevisionChains`, `RevisionsAcyclic`,
`RowsReadable`, `ResolutionsJustified`, `ConflictsExact` and `ToldIsStored`. None of
these is inductive alone: that a conflict closes exactly when a side ends needs that
a correction's replacement is new to the table and links to its target; that no
chain has a cycle needs creation times and the linearity of chains. The argument
goes through one lemma, `StepShape`: every step is either *quiet* (the tables do not
change) or *commits*, ending at most one active row and inserting at most one new
one with the conflicts that go with it. Each conjunct of `TableInv` is then shown
once for a committing step, instead of once per action.

**PersonalContext** (`KeysAssumption` besides those of `MemoryStore`). `CInv` adds
to `TableInv` that the table stays finite, `FirstRead` (what the build holds is the
active table at its first read, and a row that has ended since stays ended),
`Undisturbed` (if nobody wrote, the table still is that one) and `Outcome`. The
work is in two lemmas about the projector: `ConflictsChecked`, that what passes its
checks are exactly the open conflicts between the rows of the first read, by
`ConflictsExact`; and `EntryConstructs`, that every row the Memory OS can hold and
the projector selects is accepted by the entry's constructor. So a refusal has a
writer as its cause.

**MemoryValidation** (`NormAssumption`: normalization is idempotent; and those of
`MemoryStore`), proved in `MemoryProofs`. A revision history is computed by recursion
over the rows, and nothing here can use induction. In its place stands
`RevisionsAcyclic`: of the rows for which a claim about chains fails one supersedes
none of them, and so the claim fails nowhere (`UpToIsChain`, `RootOfChain`,
`ChainUnique`). `TipExists` is the one fact that needs finiteness: in a finite table
the line of successors of a row ends. Of reads that have the values the tables hold
(`Consistent`), `ConsistentAccepted` shows that the policy raises nothing: the pairs
it expects are the open conflicts by `ConflictsExact`, the history it demands is the
line of `RevisionChains`, and the counts of the decision fit its constructor.

`VInv` adds to `TableInv`, of every validator: whatever it has read of a memory is
what that memory still states, rows being immutable, however old the read
(`RealReads`); what it is about to write corrects its target (`Corrects`), so that the
store's own check of the target makes a stale correction justified; its call is its
candidate's write (`Carries`), and a correction that was applied has ended its target,
so that it fails the next time (`Once`). A validator that applies alone has read what
the tables hold (`UpToDate`), because nobody else applies then (`Exclusive`) and other
writers stay out. The walk of a history is followed by `Walked` and meets its target
by `WalkMeets`: two chains from one root agree as far as both go.

**WorkingMemory** (`BoundsAssumption`, `EvidenceAssumption`). The invariant says of
each store separately what it holds of all that was ever accepted: `Held`, `Window`
(the recent window is the newest `RecentCapacity` of what has not expired),
`InTime`, `NewestOfBody`, `Rooted` (a batch's frame and interpretation are retained
with it) and the capacities (`Small`); `Marked` ties the watermarks to the batches.
Eviction is reasoned about with lemmas on the last *n* of a finite set of numbers
(`LastAreFew`, `LastWithOneMore`, `LastOfLater`): the last *n* of the last *n* with
one more is the last *n* of everything with one more, which is why a bounded window
forgets nothing it would still need.

**Consolidation** (`LimitsAssumption`; `ItemsAssumption`: the items of an observation
are finitely many, of the two kinds and numbered each by its own identity;
`CallersAssumption`: a batch is a sequence). `Kernel` is the invariant of
`WorkingMemory` with `PlanMade` (every proposal of a plan was made of an item),
`ReviewMade` (a review keeps, of each proposal it has staged, what `stage` said) and
`StagedWasHeld`. That a batch of candidates holds every eligible staging exactly once
(`ReviewItemsAre`) follows from `PlacesAreTaken`: in a linear order of a finite set
every place is taken once. `CandidateIs` says that a candidate tells the staging it is
of, `ItemDecided` and `SelectedIs` that nothing in a batch is against what was
selected of it; so no two that were evaluated repeat or contradict each other. The
other half goes over every document: `ResultConstructs` (discovery's two bounds cut
off nothing without saying so), `CountsAddUp` (the decisions of a selection count every
position once), `ConcludedConstructs` (a review batch). `ProposalStages` and
`StagedIsProposed` compare the checks of discovery with those of staging.

**PerceptionBoundary** (`BoundsAssumption`, `EvidenceAssumption`). `IInv` is
`Sound(Refs, admitted)`, `KeysOrdered`, `FusionGrounded` and `Clocks`. `Sound` is
stated of a value, not of the variables, since an admission prunes, adds and evicts
in turn and each of the three steps must preserve it: references are few, of their
kind, in whole chains, and what was cut off is cut off for good.

**SensorAdapters** (`AdaptersAssumption`, `NoneAssumption`), for each of the four
adapters. `IInv` is `Fields`, `SessionOpen`, `QueuesSound` (waiting messages are of
the session, newer than the last pair, and no time waits in two queues),
`IssuedBefore` and `AdmissionsOfSession`.

**WorldModelNode** (`TimesAssumption`, `NodeAssumption`). `Node` says of the
evidence, as a value, that it is `Sane`: what was admitted was made of what was
admitted (`Grounded`), the mark of the evaluator is held (`Evaluated`), and what is
retained was admitted, projects, is not from the future of the memory's own clock
and has one time for each key (`Retained`). A callback is a chain of up to six
attempts, in any of which the clock may have gone back. `TryAdmitSane` and
`RetainSane` show for one attempt that it keeps `Sane` and either continues the
epoch or begins one without authorizations (`Continues`); the lemmas about
callbacks compose them. That is what makes `SealedTogether` hold: a health fact
whose frame was lost in a regression has lost its authorization as well. That
queries never raise (`EveryQueryAnswers`) follows from `Retained`.

**DecisionChain** (`ConfigurationsAreValid`, `ReferencesResolve`,
`BoundsAssumption`). `IInv` says that every plan, review, binding and decision a
caller can hold was made by its stage from documents that exist, or is a copy that
was altered in a place the next stage compares. `StepIsGateStep` maps each step to
a step of the gate or to a stutter; only `BindStep` can clear, and only
`Dispatch` and `Authorize` can accept. `RevalidationIsSound` compares what a stage
recomputes: the same configuration gives the same document.

**PolicyLifecycle** (`CatalogIsValid`, `ConfigurationIsValid`, `BoundsAreNumbers`,
`EventsHaveTimes`, `EmptySnapshotFits`: an empty registry can be constructed, and
`LibrariesAreMade`: the documents a behaviour starts with were made by the steps that
make such documents). The invariant is `PInv`: the type
invariant with `EpisodesMade` (an episode verifies, is of a session of the recorder,
and its lineage is that of its source), `Countable` (the sets a trial is counted over
are finite), `RecordsJustified` (a registered policy has the decision that promoted
it, a decision has the evaluation it names), `RollbackSound` and
`ActivationIsApproved`. `Countable` is there because an offline evaluation compares
the number of its trials with that of its episodes, and nothing follows from equal
numbers unless both sets are finite. The lemmas about operators: `ShapeVerifies` (a
document of the right shape passes the check that is made when it is read back),
`DecidedIsConstructible` (what `register_candidate` decides to add has the identities,
versions and parents a snapshot must have, whatever its size),
`AuthoritativeMeansEvaluated` and `ImageIsFinite`.

**SimulationControl** (`ConstantsAssumption`). `IInv` is the type invariant with
`CallsOrdered` (the times and samples a handler has noted are in the order it noted
them in), `DispatchedBefore` (what the controller has taken was dispatched by a
handler that says so) and `ClosedIsQuiet`.

**GraspInteraction** (for `ReportsTrue` only `TicksAssumption`: bounds are numbers;
nothing of the arm, the scenes or the requests). `ReportsTrue` speaks of what is reported at the end;
`Grasped` says what has to be so at each place of the client's program for that:
`GoalFollowed` (the goal is where the client takes it to be, an arm moves only with a
goal open, the arm rests where the client has its answer), `BaseObserved` (what was
sampled of the base was so when it was sampled, and no sample is older than the
client's own notes about it) and `ObjectFollowed` (an attached object is in place,
samples of its pose were true when made, and from the verdict on the program knows
that the goal completed). The fields of the records updated in part are a conjunct of
their own (`Shapes`).

**ManipulationReview and SimulatedExecution**, proved about the whole of stage 9 in
`GraspInteractionProofs` (`CatalogAssumption`, `SamplingAssumption`, `ArmAssumption`:
some joints, finitely many, numbers in integer units, a kernel answers with one of
the four dispositions; `InterpolationExact`; `TicksAssumption`). `ReviewSound` and
`ArmNearChecked` are not inductive: they speak of documents, not of how these came
about. `Documented` adds that: every document is what its stage makes of the ones
before it (`Planned`, `Scheduled`, `Judged`, `Bound`, `Proved`), so a review stage
that is offered a report, proposal or binding of something else either refuses it or
was offered the right one. `Tracked` adds the arm: it is at its start before a
program runs and on its trajectory after, and a goal is sent only under a free proof.
The rest is arithmetic, in lemmas about the operators: `MaxIs`, `TravelIs`,
`PiecesAre` (pieces of at most a step cover the travel), `SegmentTimeIs` and
`PointTimesAre` (the recursion over the points has a solution, and times rise by the
time of each segment), `Nearest` and `NearInOne` (of equal pieces one ends within
half a piece of any place, in every joint), `SampleIsDense` (also the start of a
segment is sampled, as the end of the one before) and `SampleNear`, which puts them
together. `LeastNumber`, which takes the place of induction, is derived from the
library's `WFMin`.

Only model-checked: liveness, `CommandsAnswered` and `ClientEnds`, since fairness and
ENABLED are outside the prover's reach. Every invariant and every action property of
the runs is a theorem.

## What the models say about the code

Things a reader of the code may not expect. The models contain each of them; no
property is stated that they would break.

*Disagreements with a comment, a document or a check of the code.*

- A retraction or correction reads its time before its transaction. A memory
  created in between makes a conflict that is then stored with
  `resolved_at < created_at`, which `MemoryConflict` refuses
  (`memory/models.py:238`): `list_conflicts(include_resolved=True)` raises from then
  on. No clock anomaly is needed.
- The answers about controllers and about hardware renew one shared observation
  time (`simulation_control_node.py:226`, `:254`), so a command may be dispatched on
  hardware evidence older than the limit when only the controllers answered
  (`docs/SIMULATION_CONTROL.md:195` asks for fresh evidence of both).
- `DepthCameraAdapter.configure` replaces the source before it checks the
  calibration (`depth_camera/adapter.py:228`); after the refusal the adapter can be
  activated on the new source with the calibration of the old one. What it then
  admits is still refused by the seal (`AdmissionsOfSession`).
- `_report_pose_failure` (`world_model_node.py:2179`) is called outside every
  handler of a clock regression: a localization message that cannot be used and is
  the first input after a regression ends the node
  (`docs/WORLD_MODEL_WORKING_MEMORY.md:290` says a new epoch is started).
- Two samples that differ by 0.001 and the second within 0.01 of the target complete
  a command (`simulation_control/adapter.py:411`), whatever moved the joint. TLC
  finds a command reported COMPLETED that waits on the topic still, while another
  command moved the joint, and one for where the joint already was
  (`docs/SIMULATION_CONTROL.md:250` calls the observed change the proof that the
  controller and the simulated hardware acted on the request).
  `CompletedIsObserved` claims no more than the two samples show.
- When the settling wait of the 9C client runs out it returns the latest state seen
  (`stage9c_execution.py:392`), which may be older than the action's result
  (`docs/MANIPULATION_SIMULATION_EXECUTION.md:149` asks for post-result state).

*Facts behind the wording of a property.*

- `RestWhenReported` has two exceptions: an acceptance that arrives after the goal
  was reported NOT_SENT, and a cancellation that was not confirmed, leave the arm
  moving. An object stays attached when a 9D run fails.
- A new epoch of the node does not touch adapters, waiting images or the transform
  buffer; a query moves only the memory's clock.
- A later safety policy withdraws nothing that was bound before it: the binding
  names its review, and the last stages compare what they are given.
- A review evaluates at most one candidate of each kind, since candidates of the
  same identity are deferred; conflicts are seen only among what still stages; the
  resource limit may strike after evaluations were made.
- Discovery yields nothing when the memory holds more envelopes than its bound (64,
  while the memory's default window is 256).
- A snapshot of the personal context may be older than its second read, never mixed.

## Not modelled

- Visual evaluation: its producer registry, the child process with its timeout and
  the metrics. The node's use of an evaluated interpretation is in `WorldModelNode`.
- Floating-point geometry, collision checking by MoveIt, decoding of pixels and
  audio, canonical JSON text and digests: numeric or textual code without discrete
  behaviour to explore; models use exact integers and contents instead.
- Launch files, acceptance scripts, robot description, showcase, command lines, and
  the ROS tools that inspect the node: configuration and printing.

## Plan

The parts that carry behaviour are modelled, and what can be proved of the properties
the runs check is proved. What could follow is a model of visual evaluation's child
process and its timeout, and, for the models whose property speaks of one program of
a client, runs with two clients at once.
