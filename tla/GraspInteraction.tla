-------------------------- MODULE GraspInteraction --------------------------
(***************************************************************************)
(* Stage 9D: the client that grasps, carries and releases one object       *)
(* (stage9d_interaction.py) and the Gazebo plugin that attaches the object *)
(* to the hand (stage9d_grasp_fixture.cpp).  The carrying movement is the  *)
(* execution of SimulatedExecution.                                        *)
(*                                                                         *)
(* The object's pose relative to the hand is 0 when it is where the grasp  *)
(* expects it and 1 when it is not.  Fixture states and contacts carry no  *)
(* stamp of their own: the client stamps them when it receives them, and   *)
(* the plugin takes the time of the update that notices a contact.         *)
(***************************************************************************)
EXTENDS SimulatedExecution

CONSTANTS
    ContactFresh    \* age in ticks of the contact that allows an attachment

VARIABLES
    object, \* where the object is, and whether the hand ever left it behind
    plugin, \* the fixture plugin
    mail,   \* attach and detach messages on their way to the plugin
    heard,  \* the latest pose, fixture state and contact the client received
    grasp   \* the evidence of the grasp so far

graspVars == <<object, plugin, mail, heard, grasp>>
vars == <<mode, doc, execVars, graspVars>>

Topics == IF mode = "grasp" THEN {"joint", "base", "pose", "state", "contact", "touch"}
          ELSE {"joint", "base"}

---------------------------------------------------------------------------
(* What the client waits for *)

\* How far the relative pose of two snapshots differs.
RelativeChange(p, q) == Distance(p.value, q.value)

HoldTolerance == 0

\* No change at all counts as a release.
MinimumRelease_zero == 0

\* DEFAULT_MINIMUM_RELEASE_RELATIVE_CHANGE, used by the client's loop and by
\* the document.
MinimumRelease == 1

\* wait_for_stage9d_snapshot: the state that is waited for, newer than the
\* given sequences, with fresh poses.
SnapshotReady(value, after) ==
    /\ heard.pose # Absent /\ heard.state # Absent
    /\ heard.state.value = value
    /\ heard.state.at > after[1] /\ heard.pose.at > after[2]
    /\ Fresh(heard.pose.at, now, DocFresh) /\ Fresh(heard.state.at, now, DocFresh)

\* wait_for_contact: a contact newer than the given one.
ContactReady(after) ==
    heard.contact # Absent /\ heard.contact.at > after /\ Fresh(heard.contact.at, now, DocFresh)

\* The condition of the release loop: detached, and no longer with the hand.
ReleaseReady ==
    /\ SnapshotReady("detached", <<grasp.hold.state.at, grasp.hold.pose.at>>)
    /\ RelativeChange(grasp.hold.pose, heard.pose) >= MinimumRelease

\* The grasp program waits for something that has not happened yet.
GraspWaiting ==
    \/ node.pc = "pregrasp" /\ ~SnapshotReady("detached", <<0, 0>>)
    \/ node.pc = "contact" /\ ~ContactReady(grasp.mark)
    \/ node.pc = "attach" /\ ~SnapshotReady("attached", <<grasp.pregrasp.state.at, grasp.pregrasp.pose.at>>)
    \/ node.pc = "held" /\ ~SnapshotReady("attached", grasp.marks)
    \/ node.pc = "release" /\ ~ReleaseReady
    \/ node.pc = "whole3" /\ ~WholeMatches(Whole, <<node.final.joint.at, node.final.base.at>>, Absent)

---------------------------------------------------------------------------
(* The fixture plugin *)

\* PreUpdate: a contact noticed a short time ago, and the object in place.
MayAttach(t, contactAt) ==
    /\ contactAt # Absent /\ Fresh(contactAt, t, ContactFresh)
    /\ object.place = 0

\* OnContacts and the reading of its sequence in PreUpdate: the update that
\* notices a contact message takes its own time for it.
NoticedContact(t, kind) ==
    IF \/ kind = "current" /\ object.place = 0
       \/ kind = "previous" /\ object.before = 0
    THEN t ELSE plugin.contactAt

\* PreUpdate at time t: both requests are taken and cleared; a detachment
\* comes before an attachment, whatever order they were asked in.
PreUpdate(t, kind) ==
    LET contactAt == NoticedContact(t, kind)
        kept      == plugin.attached /\ "detach" \notin plugin.asked
        attached  == kept \/ ("attach" \in plugin.asked /\ MayAttach(t, contactAt))
    IN  [attached |-> attached, was |-> plugin.attached,
         preload |-> plugin.preload /\ ~(attached /\ ~kept),
         contactAt |-> contactAt, asked |-> {},
         said |-> (IF plugin.attached /\ ~kept THEN {"detached"} ELSE {}) \cup
                     {IF attached THEN "attached" ELSE "detached"}]

\* The callbacks OnAttach and OnDetach: an unacknowledged message arrives, or
\* is lost.
DeliverMail ==
    /\ \E m \in mail :
          /\ mail' = mail \ {m}
          /\ \/ plugin' = [plugin EXCEPT !.asked = @ \cup {m}] /\ UNCHANGED faults
             \/ UNCHANGED plugin /\ faults < MaxFaults /\ faults' = faults + 1
    /\ UNCHANGED <<mode, doc, now, sim, goal, seen, node, object, heard, grasp>>

\* Somebody else publishes a command on the fixture's topics.
StrayMail ==
    /\ mode = "grasp" /\ faults < MaxFaults /\ now < MaxTime
    /\ \E m \in {"attach", "detach"} \ mail : mail' = mail \cup {m}
    /\ faults' = faults + 1
    /\ UNCHANGED <<mode, doc, now, sim, goal, seen, node, object, plugin, heard, grasp>>

\* The physics step after an update: the object moves when the preload that
\* holds it is gone and nothing carries it, or when the arm moves without it.
ObjectAfter(updated, advanced) ==
    LET free == ~updated.attached /\ (~updated.preload \/ advanced)
    IN  [object EXCEPT !.place = IF free THEN 1 ELSE @, !.before = object.place,
            !.carried = @ /\ ~(advanced /\ ~updated.attached)]

\* A fixture state or contact message: stamped when it is received.
HeardNow(last, kind, t, values, before) ==
    CASE kind = "current" -> {[at |-> t, sent |-> t, value |-> v] : v \in values}
      [] kind = "previous" /\ (last = Absent \/ last.sent < t - 1) ->
            {[at |-> t, sent |-> t - 1, value |-> v] : v \in before}
      [] OTHER -> {last}

StateName(attached) == IF attached THEN "attached" ELSE "detached"

\* One tick of the simulator: the plugin's update, the object, and the topics.
Tick ==
    \E late \in Lateness(Topics) :
        /\ TickArm(late, ~(Waiting \/ GraspWaiting) \/ mail # {})
        /\ IF mode # "grasp" THEN UNCHANGED <<object, plugin, heard>>
           ELSE LET t     == now + 1
                    after == PreUpdate(t, KindOf(late, "touch"))
                IN  /\ object' = ObjectAfter(after, sim'.arm # sim.arm)
                    /\ plugin' = after
                    /\ \E state \in HeardNow(heard.state, KindOf(late, "state"), t,
                                             after.said, {StateName(after.was)}),
                          contact \in HeardNow(heard.contact,
                                         IF (KindOf(late, "contact") = "current" /\ object.place # 0)
                                            \/ (KindOf(late, "contact") = "previous" /\ object.before # 0)
                                         THEN "none" ELSE KindOf(late, "contact"), t, {0}, {0}) :
                          heard' = [state |-> state, contact |-> contact,
                                    pose |-> Received(heard.pose, KindOf(late, "pose"), t,
                                                      object'.place, object.place)]
        /\ UNCHANGED <<mail, grasp>>

---------------------------------------------------------------------------
(* Evidence documents of stage 9D *)

\* PregraspValidationEvidence: a detached fixture and an aligned object.
PregraspShape(pose, state, t) ==
    /\ state.value = "detached"
    /\ Fresh(pose.at, t, DocFresh) /\ Fresh(state.at, t, DocFresh)
    /\ pose.value = 0

\* GraspEstablishedEvidence: contact after the pregrasp, the attachment
\* after the contact, and the contact still fresh.
GraspShape(pre, contact, state, t) ==
    /\ contact.at >= pre.at
    /\ state.value = "attached"
    /\ state.at > pre.state.at /\ state.at >= contact.at
    /\ t >= state.at /\ t - contact.at <= DocFresh

\* interaction_preflight_input_document: the dense samples and the scene of
\* the reviewed request, with the object in the hand.
InteractionInput(contact) ==
    [scene |-> doc.proof.input.scene, samples |-> doc.proof.input.samples, grasped |-> contact]

\* The checker's answers: the carried object touches nothing, or touches
\* something in one of the samples.
InteractionReports(input) ==
    {[input |-> input, free |-> input.samples \ touching] :
        touching \in {{}} \cup {{sample} : sample \in input.samples}}

\* InteractionCollisionProof: bound to this request and this grasp.
InteractionShape(report, contact) ==
    /\ report.input = InteractionInput(contact)
    /\ Cardinality(report.input.samples) >= 2
    /\ report.free \subseteq report.input.samples

\* HoldValidationEvidence: the movement completed, and everything observed
\* since: still attached and where it was in the hand.
HoldShape(pose, state, t) ==
    /\ node.outcome = "completed"
    /\ state.value = "attached" /\ state.at > grasp.attached.at
    /\ \A at \in {pose.at, state.at} : at >= node.completed /\ Fresh(at, t, DocFresh)
    /\ RelativeChange(grasp.pregrasp.pose, pose) <= HoldTolerance

\* ReleaseObservationEvidence: detached after the hold, a stable body, and
\* everything observed since the request.
ReleaseShape(pose, state, whole, ctl, t) ==
    /\ state.value = "detached" /\ state.at > grasp.hold.state.at
    /\ Stable(node.first, whole, ctl, t)
    /\ grasp.released >= grasp.hold.at
    /\ \A at \in {pose.at, state.at, whole.joint.at, whole.base.at, ctl.at} :
          at >= grasp.released /\ Fresh(at, t, DocFresh)
    /\ RelativeChange(grasp.hold.pose, pose) >= MinimumRelease

---------------------------------------------------------------------------
(* The client *)

NoGrasp ==
    [pregrasp |-> Absent, mark |-> 0, contact |-> Absent, attached |-> Absent, marks |-> <<0, 0>>,
     hold |-> Absent, released |-> 0, apart |-> Absent, complete |-> FALSE]

InitialPlugin ==
    [attached |-> FALSE, was |-> FALSE, preload |-> TRUE, contactAt |-> Absent, asked |-> {}, said |-> {}]

Init ==
    /\ ExecutionInit
    /\ object = [place |-> 0, before |-> 0, carried |-> TRUE]
    /\ plugin = InitialPlugin
    /\ mail = {}
    /\ heard = [pose |-> Absent, state |-> Absent, contact |-> Absent]
    /\ grasp = NoGrasp

Unmoved == UNCHANGED <<mode, doc, now, sim, goal, seen, faults, object, plugin, heard>>

\* _pose_evidence and _fixture_evidence of one moment.
Snapshot == [pose |-> heard.pose, state |-> heard.state, at |-> now]

\* The wait for a contact has no deadline.
GiveUp_patient(pc) ==
    /\ node.pc = pc /\ GraspWaiting /\ pc # "contact"
    /\ node' = Exit(2, node.outcome)
    /\ UNCHANGED <<grasp, mail>> /\ Unmoved

\* A wait of the grasp program runs out.
GiveUp(pc) ==
    /\ node.pc = pc /\ GraspWaiting
    /\ node' = Exit(2, node.outcome)
    /\ UNCHANGED <<grasp, mail>> /\ Unmoved

\* The exact detached snapshot and the pregrasp evidence made of it; the
\* contact that counts must come later.
Pregrasp ==
    /\ node.pc = "pregrasp" /\ SnapshotReady("detached", <<0, 0>>)
    /\ IF PregraspShape(heard.pose, heard.state, now)
          THEN /\ grasp' = [grasp EXCEPT
                     !.pregrasp = Snapshot,
                     !.mark = IF heard.contact = Absent THEN 0 ELSE heard.contact.at]
               /\ node' = [node EXCEPT !.pc = "contact"]
          ELSE node' = Exit(2, "none") /\ UNCHANGED grasp
    /\ UNCHANGED mail /\ Unmoved

\* wait_for_contact, then the attach message is published once.
TakeContact ==
    /\ node.pc = "contact"
    /\ ContactReady(grasp.mark)
    /\ grasp' = [grasp EXCEPT !.contact = heard.contact]
    /\ mail' = mail \cup {"attach"}
    /\ node' = [node EXCEPT !.pc = "attach"]
    /\ Unmoved

\* The attached snapshot, the grasp evidence, and the interaction check of
\* the trajectory with the object, which may report a collision.
Attach ==
    /\ node.pc = "attach"
    /\ SnapshotReady("attached", <<grasp.pregrasp.state.at, grasp.pregrasp.pose.at>>)
    /\ \E report \in InteractionReports(InteractionInput(grasp.contact)) :
          LET held == /\ GraspShape(grasp.pregrasp, grasp.contact, heard.state, now)
                      /\ InteractionShape(report, grasp.contact)
          IN  /\ grasp' = IF held THEN [grasp EXCEPT !.attached = heard.state] ELSE grasp
              /\ node' = IF held /\ ProofIsFree(report) THEN [node EXCEPT !.pc = "whole1"]
                         ELSE Exit(2, "none")
    /\ UNCHANGED mail /\ Unmoved

\* After the completed execution the sequences of that moment are the marks.
MarkHold ==
    /\ node.pc = "hold"
    /\ grasp' = [grasp EXCEPT !.marks = <<heard.state.at, heard.pose.at>>]
    /\ node' = [node EXCEPT !.pc = "held"]
    /\ UNCHANGED mail /\ Unmoved

\* The hold evidence; then the release is requested: one detach message.
Hold ==
    /\ node.pc = "held" /\ SnapshotReady("attached", grasp.marks)
    /\ IF HoldShape(heard.pose, heard.state, now)
          THEN /\ grasp' = [grasp EXCEPT !.hold = Snapshot,
                               !.released = now]
               /\ mail' = mail \cup {"detach"}
               /\ node' = [node EXCEPT !.pc = "release"]
          ELSE node' = Exit(2, node.outcome) /\ UNCHANGED <<grasp, mail>>
    /\ Unmoved

\* The loop that waits for a detached object that no longer follows the hand.
SeeRelease ==
    /\ node.pc = "release" /\ ReleaseReady
    /\ grasp' = [grasp EXCEPT !.apart = Snapshot]
    /\ node' = [node EXCEPT !.pc = "whole3"]
    /\ UNCHANGED mail /\ Unmoved

WaitRelease ==
    /\ node.pc = "whole3"
    /\ \E w \in WholeReturned(<<node.final.joint.at, node.final.base.at>>, Absent, FALSE) :
          node' = IF w = Absent THEN Exit(2, node.outcome)
                  ELSE [node EXCEPT !.pc = "flags_release", !.final = w]
    /\ UNCHANGED <<grasp, mail>> /\ Unmoved

ReleaseFlags ==
    /\ node.pc = "flags_release"
    /\ \E active \in {sim.ready, FALSE} : node' = [ReadFlags(active) EXCEPT !.pc = "stamp_release"]
    /\ UNCHANGED <<grasp, mail>> /\ Unmoved

\* The release evidence and the final result, or an exception.
Finish ==
    /\ node.pc = "stamp_release"
    /\ LET built == ReleaseShape(grasp.apart.pose, grasp.apart.state, node.final, StampController, now)
       IN  /\ node' = Exit(IF built THEN 0 ELSE 2, node.outcome)
           /\ grasp' = [grasp EXCEPT !.complete = built]
    /\ UNCHANGED mail /\ Unmoved

GraspClient ==
    \/ Pregrasp \/ TakeContact \/ Attach \/ MarkHold \/ Hold \/ SeeRelease
    \/ WaitRelease \/ ReleaseFlags \/ Finish
    \/ \E pc \in {"pregrasp", "contact", "attach", "held", "release"} : GiveUp(pc)

Programs ==
    /\ \/ Start("execution", "whole1")
       \/ Start("grasp", "pregrasp")
    /\ UNCHANGED graspVars

Review == ReviewNext /\ mode = "review" /\ UNCHANGED <<mode, execVars, graspVars>>

Next ==
    \/ Review
    \/ Programs
    \/ Tick
    \/ DeliverMail \/ StrayMail
    \/ (Client \/ Server \/ Fault) /\ UNCHANGED graspVars
    \/ GraspClient

\* The client's own loops make progress, and a review that can be finished
\* leads to a program; nothing is assumed of time, topics or the server.
Fairness == WF_vars(Client /\ UNCHANGED graspVars) /\ WF_vars(GraspClient)

Spec == Init /\ [][Next]_vars /\ Fairness

---------------------------------------------------------------------------
(* Properties *)

\* Every variable has its type.
TypeOK ==
    /\ mode \in {"review", "execution", "grasp"}
    /\ now \in 0 .. MaxTime /\ faults \in 0 .. MaxFaults
    /\ goal \in {"none", "sent", "running", "rejected", "succeeded", "aborted", "path_violated",
                 "canceled", "lost"}
    /\ sim.tipped \in 1 .. Never /\ sim.moving \in BOOLEAN /\ sim.ready \in BOOLEAN
    /\ node.exit \in {0, 2}
    /\ mail \subseteq {"attach", "detach"} /\ plugin.asked \subseteq {"attach", "detach"}
    /\ object.place \in {0, 1}

\* The plugin only ever holds an object that is where the grasp expects it,
\* however late a contact was noticed or whoever asked (PreUpdate, Aligned).
AttachedInPlace == plugin.attached => object.place = 0

\* A grasp run that reports success carried the object through the whole
\* movement and has really let go of it: not attached any more, and apart,
\* whatever messages were lost, late or published by others.
ResultMeansCarried ==
    grasp.complete => object.carried /\ ~plugin.attached /\ object.place = 1

\* What the programs report is true of the robot: completion, rest, and a grasp
\* that held and let go, whatever was lost, late or published by others.
ReportsTrue ==
    /\ TypeOK /\ CompletedIsTrue /\ RestWhenReported
    /\ AttachedInPlace /\ ResultMeansCarried
=============================================================================
