------------------------- MODULE ResultReviewProofs -------------------------
(***************************************************************************)
(* Theorems about ResultReview, about Deliveries, which adds to it, and    *)
(* about ReviewedClosure, the task under the workflow editor, for any      *)
(* people, criteria, workflow and bounds.                                  *)
(***************************************************************************)
EXTENDS Deliveries, ReviewedClosure, TLAPS

USE ConstantsAssumption

LEMMA ResultOfType ==
  ASSUME NEW S
  PROVE  ResultOf(S) \in ResultStateSet
BY DEF ResultOf, ResultStateSet

LEMMA AcceptedDominates ==
  ASSUME NEW S
  PROVE  ResultOf(S) = "accepted" <=> "accepted" \in S
BY DEF ResultOf

\* Marking one version changes that version's status and nothing else.
LEMMA Marked ==
  ASSUME proposals \in Seq(Proposal), NEW i \in DOMAIN proposals,
         NEW s \in ProposalStatus, NEW marked,
         marked = [proposals EXCEPT ![i].status = s]
  PROVE  /\ marked \in Seq(Proposal)
         /\ Len(marked) = Len(proposals)
         /\ marked[i] = [proposals[i] EXCEPT !.status = s]
         /\ \A j \in DOMAIN proposals : j # i => marked[j] = proposals[j]
<1>1. proposals[i] \in Proposal
  OBVIOUS
<1> DEFINE p == [proposals[i] EXCEPT !.status = s]
<1>2. p \in Proposal
  BY <1>1 DEF Proposal
<1>3. marked = [proposals EXCEPT ![i] = p]
  OBVIOUS
<1> HIDE DEF p
<1>4. QED
  BY <1>2, <1>3 DEF p

\* What the handlers of Deliveries do to what ResultReview knows of a task:
\* they count a version of it at most.
Counted ==
  /\ version' \in {version, version + 1}
  /\ UNCHANGED <<members, taskVars, result_state, packages, proposals, reviews>>

\* Tasks by themselves and with deliveries are both proved about as this.
TrackedNext == Next \/ Counted
Tracked == Init /\ [][TrackedNext]_vars

\* With the workflow editor, which moves a task to any status, as this.
Aside == Counted \/ EditorStep
AnyNext == Next \/ Aside
Around == Init /\ [][AnyNext]_vars

LEMMA EditorEffect ==
  ASSUME EditorStep
  PROVE  /\ current_status' \in Categories
         /\ UNCHANGED <<members, assignee_id, reviewer_id, deleted, result_state, version,
                        packages, proposals, reviews>>
BY DEF EditorStep, MigrateStatus, ReclassifyStatus

LEMMA SpecsTracked == Spec \/ DeliverySpec => Tracked
<1>1. DeliveryInit => Init
  BY DEF DeliveryInit
<1>2. [Next]_vars => [TrackedNext]_vars
  BY DEF TrackedNext
<1>3. [DeliveryNext]_allVars => [TrackedNext]_vars
  <2>1. ASSUME NEW u \in Users, DeliveryStep(u)
        PROVE  Counted
    BY <2>1 DEF DeliveryStep, ProposeDelivery, RecordAcceptance, WithdrawAcceptance, Counted, Touch
  <2>2. QED
    BY <2>1 DEF DeliveryNext, allVars, TrackedNext
<1>4. QED
  BY <1>1, <1>2, <1>3, PTL DEF Spec, DeliverySpec, Tracked

LEMMA SpecsAround == Spec \/ DeliverySpec \/ ClosureSpec => Around
<1>1. [TrackedNext]_vars => [AnyNext]_vars
  BY DEF TrackedNext, AnyNext, Aside
<1>2. [Next \/ EditorStep]_vars => [AnyNext]_vars
  BY DEF AnyNext, Aside
<1>3. QED
  BY <1>1, <1>2, SpecsTracked, PTL DEF Tracked, ClosureSpec, Around

\* The actions that leave proposals, reviews and the summary alone.
OtherStep ==
  \/ \E u \in Users : TaskStep(u)
  \/ MemberStep
  \/ Aside

-----------------------------------------------------------------------------
(* Type correctness.                                                       *)

LEMMA SubmitType ==
  ASSUME TypeOK, NEW u \in Users, NEW package \in 0 .. MaxPackages,
         NEW claimed \in SUBSET Criteria, NEW previous \in {0} \cup DOMAIN proposals,
         SubmitProposal(u, package, claimed, previous)
  PROVE  TypeOK'
<1> USE DEF TypeOK, SubmitProposal
<1> DEFINE new == [author |-> u, package |-> package,
                   required |-> IF package = 0 THEN claimed ELSE packages[package],
                   supersedes |-> previous, status |-> "submitted"]
           kept == IF previous = 0 THEN proposals
                   ELSE [proposals EXCEPT ![previous].status = "superseded"]
<1>1. new \in Proposal
  <2>1. package # 0 => packages[package] \in SUBSET Criteria
    BY DEF PackageChoice
  <2>2. previous \in Nat
    OBVIOUS
  <2>3. QED
    BY <2>1, <2>2 DEF Proposal, ProposalStatus
<1>2. kept \in Seq(Proposal)
  <2>1. CASE previous = 0
    BY <2>1
  <2>2. CASE previous # 0
    <3>1. previous \in DOMAIN proposals /\ "superseded" \in ProposalStatus
      BY <2>2 DEF ProposalStatus
    <3>2. QED
      BY <2>2, <3>1, Marked
  <2>3. QED
    BY <2>1, <2>2
<1>3. proposals' = Append(kept, new)
  OBVIOUS
<1>4. proposals' \in Seq(Proposal)
  BY <1>1, <1>2, <1>3
<1>5. QED
  BY <1>4, ResultOfType DEF RecomputeState, taskVars

LEMMA WithdrawType ==
  ASSUME TypeOK, NEW u \in Users, NEW i \in DOMAIN proposals, WithdrawProposal(u, i)
  PROVE  TypeOK'
<1>1. proposals' \in Seq(Proposal)
  <2>1. proposals \in Seq(Proposal) /\ "withdrawn" \in ProposalStatus
    BY DEF TypeOK, ProposalStatus
  <2>2. QED
    BY <2>1, Marked DEF WithdrawProposal
<1>2. QED
  BY <1>1, ResultOfType DEF TypeOK, WithdrawProposal, RecomputeState, taskVars

LEMMA ReviewType ==
  ASSUME TypeOK, NEW u \in Users, NEW i \in DOMAIN proposals, NEW verdict \in Verdicts,
         NEW met \in SUBSET Criteria, ReviewProposal(u, i, verdict, met)
  PROVE  TypeOK'
<1>1. proposals' \in Seq(Proposal)
  <2>1. proposals \in Seq(Proposal) /\ verdict \in ProposalStatus
    BY DEF TypeOK, ProposalStatus
  <2>2. QED
    BY <2>1, Marked DEF ReviewProposal
<1>2. reviews' \subseteq Review
  BY DEF TypeOK, ReviewProposal, Review
<1>3. QED
  BY <1>1, <1>2, ResultOfType DEF TypeOK, ReviewProposal, RecomputeState, taskVars

LEMMA TaskStepType ==
  ASSUME TypeOK, NEW u \in Users, TaskStep(u)
  PROVE  TypeOK'
<1> USE DEF TypeOK, Touch
<1>1. ASSUME NEW expected \in Edited, NEW a \in Person, NEW r \in Person,
             UpdateTask(u, expected, a, r)
      PROVE  TypeOK'
  BY <1>1 DEF UpdateTask
<1>2. ASSUME NEW to \in Categories, TransitionStatus(u, to)
      PROVE  TypeOK'
  BY <1>2 DEF TransitionStatus
<1>3. CASE DeleteTask(u)
  BY <1>3 DEF DeleteTask
<1>4. ASSUME NEW required \in SUBSET Criteria, IssuePackage(u, required)
      PROVE  TypeOK'
  BY <1>4 DEF IssuePackage, taskVars
<1>5. QED
  BY <1>1, <1>2, <1>3, <1>4 DEF TaskStep

LEMMA MemberStepType ==
  ASSUME TypeOK, MemberStep
  PROVE  TypeOK'
<1>1. members' \in [Users -> Member]
  <2>1. PICK u \in Users, m \in Member : members' = [members EXCEPT ![u] = m]
    <3>1. PICK manager \in Users, u \in Shifting :
            \/ \E membership \in Memberships :
                 \/ UpdateMember(manager, u, membership)
                 \/ AddMember(manager, u, membership.role)
            \/ RemoveMember(manager, u)
      BY DEF MemberStep
    <3> u \in Users
      OBVIOUS
    <3>2. CASE \E m \in Memberships : UpdateMember(manager, u, m)
      BY <3>2 DEF UpdateMember
    <3>3. CASE \E m \in Memberships : AddMember(manager, u, m.role)
      BY <3>3 DEF AddMember, Member
    <3>4. CASE RemoveMember(manager, u)
      BY <3>4 DEF RemoveMember, Member, Roles
    <3>5. QED
      BY <3>1, <3>2, <3>3, <3>4
  <2>2. QED
    BY <2>1 DEF TypeOK
<1>2. QED
  BY <1>1 DEF TypeOK, MemberStep, UpdateMember, AddMember, RemoveMember, taskVars

LEMMA InitType ==
  ASSUME Init
  PROVE  TypeOK
<1>1. Historical(Owner) \in Proposal
  BY DEF Historical, Proposal, ProposalStatus
<1>2. proposals \in Seq(Proposal)
  <2> DEFINE h == Historical(Owner)
  <2>1. <<h>> \in Seq(Proposal) /\ <<>> \in Seq(Proposal)
    BY <1>1
  <2>2. QED
    BY <2>1 DEF Init
<1>3. packages \in Seq(SUBSET Criteria) /\ reviews \subseteq Review
  BY DEF Init
<1>4. members \in [Users -> Member] /\ assignee_id \in Person /\ reviewer_id \in Person
  BY DEF Init, Person
<1>5. QED
  BY <1>2, <1>3, <1>4 DEF Init, TypeOK, Categories, ResultStateSet

LEMMA StepType ==
  ASSUME TypeOK, [AnyNext]_vars
  PROVE  TypeOK'
<1>1. CASE \E u \in Users : ProposalStep(u)
  BY <1>1, SubmitType, WithdrawType, ReviewType DEF ProposalStep
<1>2. CASE OtherStep
  <2>1. CASE Aside
    BY <2>1, EditorEffect DEF Aside, Counted, TypeOK, taskVars
  <2>2. QED
    BY <1>2, <2>1, TaskStepType, MemberStepType DEF OtherStep
<1>3. CASE UNCHANGED vars
  BY <1>3 DEF vars, taskVars, TypeOK
<1>4. QED
  BY <1>1, <1>2, <1>3 DEF AnyNext, Next, OtherStep

LEMMA TypeAlways == Around => []TypeOK
BY InitType, StepType, PTL DEF Around

(* Every handler leaves the task, its proposals and its reviews well       *)
(* formed, whatever the request, with deliveries or without.               *)
THEOREM TypeCorrect == Spec \/ DeliverySpec \/ ClosureSpec => []TypeOK
BY TypeAlways, SpecsAround, PTL

-----------------------------------------------------------------------------
(* What the handlers do to the proposals, without the people.              *)

\* A submission: `new` is appended, and the version it replaces is marked.
Presents(new, previous) ==
  LET last == Len(proposals) + 1
  IN  /\ new.supersedes = previous /\ new.status = "submitted"
      /\ new.package # 0 => /\ new.package \in DOMAIN packages
                            /\ new.required = packages[new.package]
      /\ last \in Nat /\ \A j \in DOMAIN proposals : j < last
      /\ DOMAIN proposals' = DOMAIN proposals \cup {last}
      /\ proposals'[last] = new
      /\ \A j \in DOMAIN proposals \ {previous} : proposals'[j] = proposals[j]
      /\ previous # 0 =>
           /\ previous \in DOMAIN proposals
           /\ proposals[previous].status \in Supersedable
           /\ proposals'[previous] =
                [proposals[previous] EXCEPT !.status = "superseded"]

LEMMA SubmitEffect ==
  ASSUME TypeOK, NEW u \in Users, NEW package \in 0 .. MaxPackages,
         NEW claimed \in SUBSET Criteria, NEW previous \in {0} \cup DOMAIN proposals,
         SubmitProposal(u, package, claimed, previous)
  PROVE  \E new \in Proposal : Presents(new, previous)
<1> DEFINE new == [author |-> u, package |-> package,
                   required |-> IF package = 0 THEN claimed ELSE packages[package],
                   supersedes |-> previous, status |-> "submitted"]
           kept == IF previous = 0 THEN proposals
                   ELSE [proposals EXCEPT ![previous].status = "superseded"]
<1>1. proposals \in Seq(Proposal) /\ "superseded" \in ProposalStatus
  BY DEF TypeOK, ProposalStatus
<1>2. proposals' = Append(kept, new)
  BY DEF SubmitProposal
<1>3. /\ kept \in Seq(Proposal) /\ Len(kept) = Len(proposals)
      /\ \A j \in DOMAIN proposals \ {previous} : kept[j] = proposals[j]
      /\ previous # 0 =>
           kept[previous] = [proposals[previous] EXCEPT !.status = "superseded"]
  <2>1. CASE previous = 0
    BY <1>1, <2>1
  <2>2. CASE previous # 0
    <3>1. previous \in DOMAIN proposals
      BY <2>2
    <3>2. QED
      BY <1>1, <2>2, <3>1, Marked
  <2>3. QED
    BY <2>1, <2>2
<1>4. previous # 0 => proposals[previous].status \in Supersedable
  BY DEF SubmitProposal, Replaceable
<1> HIDE DEF kept, new
<1>5. /\ Len(proposals') = Len(proposals) + 1
      /\ proposals'[Len(proposals) + 1] = new
      /\ \A j \in DOMAIN proposals : proposals'[j] = kept[j]
  BY <1>1, <1>2, <1>3
<1>6. proposals' \in Seq(Proposal)
  BY SubmitType DEF TypeOK
<1>7. /\ DOMAIN proposals' = DOMAIN proposals \cup {Len(proposals) + 1}
      /\ Len(proposals) + 1 \in Nat
      /\ \A j \in DOMAIN proposals : j < Len(proposals) + 1
  BY <1>1, <1>5, <1>6
<1>8. previous # 0 => previous \in DOMAIN proposals
  OBVIOUS
<1>9. new \in Proposal
  BY <1>5, <1>6, <1>7
<1>10. /\ new.supersedes = previous /\ new.status = "submitted"
       /\ new.package # 0 => /\ new.package \in DOMAIN packages
                             /\ new.required = packages[new.package]
  <2>1. package # 0 => package \in DOMAIN packages
    BY DEF SubmitProposal, PackageChoice
  <2>2. QED
    BY <2>1 DEF new
<1>11. Presents(new, previous)
  BY <1>3, <1>4, <1>5, <1>7, <1>8, <1>10 DEF Presents
<1>12. QED
  BY <1>9, <1>11

\* A withdrawal or a verdict: the version was open and takes the status s.
Closes(i, s) ==
  /\ proposals[i].status = "submitted"
  /\ DOMAIN proposals' = DOMAIN proposals
  /\ proposals'[i] = [proposals[i] EXCEPT !.status = s]
  /\ \A j \in DOMAIN proposals : j # i => proposals'[j] = proposals[j]

LEMMA WithdrawEffect ==
  ASSUME TypeOK, NEW u \in Users, NEW i \in DOMAIN proposals, WithdrawProposal(u, i)
  PROVE  Closes(i, "withdrawn")
<1>1. proposals \in Seq(Proposal) /\ "withdrawn" \in ProposalStatus
  BY DEF TypeOK, ProposalStatus
<1>2. proposals' = [proposals EXCEPT ![i].status = "withdrawn"]
  BY DEF WithdrawProposal
<1>3. QED
  BY <1>1, <1>2, Marked DEF WithdrawProposal, AwaitsReview, Closes

LEMMA ReviewEffect ==
  ASSUME TypeOK, NEW u \in Users, NEW i \in DOMAIN proposals, NEW verdict \in Verdicts,
         NEW met \in SUBSET Criteria, ReviewProposal(u, i, verdict, met)
  PROVE  Closes(i, verdict)
<1>1. proposals \in Seq(Proposal) /\ verdict \in ProposalStatus
  BY DEF TypeOK, ProposalStatus
<1>2. proposals' = [proposals EXCEPT ![i].status = verdict]
  BY DEF ReviewProposal
<1>3. QED
  BY <1>1, <1>2, Marked DEF ReviewProposal, AwaitsReview, Closes

\* The other handlers leave the results alone; packages are only added.
LEMMA OtherEffect ==
  ASSUME TypeOK, OtherStep \/ UNCHANGED vars
  PROVE  /\ UNCHANGED <<proposals, reviews, result_state>>
         /\ \A k \in DOMAIN packages : k \in DOMAIN packages' /\ packages'[k] = packages[k]
<1>1. CASE \E u \in Users : TaskStep(u)
  <2>1. PICK u \in Users : TaskStep(u)
    BY <1>1
  <2>2. ASSUME NEW required \in SUBSET Criteria, IssuePackage(u, required)
        PROVE  /\ UNCHANGED <<proposals, reviews, result_state>>
               /\ \A k \in DOMAIN packages :
                    k \in DOMAIN packages' /\ packages'[k] = packages[k]
    BY <2>2 DEF IssuePackage, TypeOK
  <2>3. QED
    BY <2>1, <2>2 DEF TaskStep, UpdateTask, TransitionStatus, DeleteTask
<1>2. CASE MemberStep
  BY <1>2 DEF MemberStep, UpdateMember, AddMember, RemoveMember
<1>3. CASE Aside \/ UNCHANGED vars
  BY <1>3, EditorEffect DEF Aside, Counted, vars
<1>4. QED
  BY <1>1, <1>2, <1>3 DEF OtherStep

-----------------------------------------------------------------------------
(* The summary of the results.                                             *)

LEMMA StateAlways == Around => []ResultStateCurrent
<1>1. Init => ResultStateCurrent
  <2> SUFFICES ASSUME Init PROVE ResultStateCurrent
    OBVIOUS
  <2>1. CASE proposals = <<>>
    <3>1. {proposals[i].status : i \in DOMAIN proposals} = {}
      BY <2>1
    <3>2. QED
      BY <2>1, <3>1 DEF Init, ResultStateCurrent, ResultOf
  <2>2. CASE proposals = <<Historical(Owner)>>
    <3>1. {proposals[i].status : i \in DOMAIN proposals} = {"historical"}
      BY <2>2 DEF Historical
    <3>2. result_state = "historical"
      BY <2>2 DEF Init
    <3>3. QED
      BY <3>1, <3>2 DEF ResultStateCurrent, ResultOf
  <2>3. QED
    BY <2>1, <2>2 DEF Init
<1>2. TypeOK /\ ResultStateCurrent /\ [AnyNext]_vars => ResultStateCurrent'
  <2> SUFFICES ASSUME TypeOK, ResultStateCurrent, [AnyNext]_vars
               PROVE  ResultStateCurrent'
    OBVIOUS
  <2>1. CASE \E u \in Users : ProposalStep(u)
    BY <2>1 DEF ProposalStep, SubmitProposal, WithdrawProposal, ReviewProposal,
                RecomputeState, ResultStateCurrent
  <2>2. CASE OtherStep \/ UNCHANGED vars
    BY <2>2, OtherEffect DEF ResultStateCurrent
  <2>3. QED
    BY <2>1, <2>2 DEF AnyNext, Next, OtherStep
<1>3. QED
  BY <1>1, <1>2, TypeAlways, PTL DEF Around

(* Task.result_state never disagrees with the proposals.                   *)
THEOREM ResultStateIsCurrent == Spec \/ DeliverySpec \/ ClosureSpec => []ResultStateCurrent
BY StateAlways, SpecsAround, PTL

\* The step of a version that has been accepted.
LEMMA AcceptedVersionStays ==
  ASSUME TypeOK, [AnyNext]_vars,
         NEW i \in DOMAIN proposals, proposals[i].status = "accepted"
  PROVE  i \in DOMAIN proposals' /\ proposals'[i].status = "accepted"
<1>1. ASSUME NEW u \in Users, NEW package \in 0 .. MaxPackages,
             NEW claimed \in SUBSET Criteria, NEW previous \in {0} \cup DOMAIN proposals,
             SubmitProposal(u, package, claimed, previous)
      PROVE  i \in DOMAIN proposals' /\ proposals'[i].status = "accepted"
  <2>1. PICK new \in Proposal : Presents(new, previous)
    BY <1>1, SubmitEffect
  <2>2. i # previous
    <3>1. i # 0
      BY DEF TypeOK
    <3>2. QED
      BY <2>1, <3>1 DEF Presents, Supersedable
  <2>3. QED
    BY <2>1, <2>2 DEF Presents
<1>2. ASSUME NEW j \in DOMAIN proposals, NEW s, Closes(j, s)
      PROVE  i \in DOMAIN proposals' /\ proposals'[i].status = "accepted"
  BY <1>2 DEF Closes
<1>3. CASE OtherStep \/ UNCHANGED vars
  BY <1>3, OtherEffect
<1>4. QED
  BY <1>1, <1>2, <1>3, WithdrawEffect, ReviewEffect DEF AnyNext, Next, ProposalStep, OtherStep

(* Whatever is submitted, withdrawn, judged, reassigned or deleted later,  *)
(* an accepted task stays accepted.                                        *)
THEOREM AcceptanceIsForGood == Spec \/ DeliverySpec \/ ClosureSpec => AcceptedForGood
<1>1. TypeOK /\ ResultStateCurrent /\ ResultStateCurrent' /\ [AnyNext]_vars
        => [result_state = "accepted" => result_state' = "accepted"]_(Ledger!vars)
  <2> SUFFICES ASSUME TypeOK, ResultStateCurrent, ResultStateCurrent', [AnyNext]_vars,
                      result_state = "accepted"
               PROVE  result_state' = "accepted"
    OBVIOUS
  <2>1. "accepted" \in {proposals[i].status : i \in DOMAIN proposals}
    BY AcceptedDominates DEF ResultStateCurrent
  <2>2. PICK i \in DOMAIN proposals : proposals[i].status = "accepted"
    BY <2>1
  <2>3. i \in DOMAIN proposals' /\ proposals'[i].status = "accepted"
    BY <2>2, AcceptedVersionStays
  <2>4. "accepted" \in {proposals'[j].status : j \in DOMAIN proposals'}
    BY <2>3
  <2>5. QED
    BY <2>4, AcceptedDominates DEF ResultStateCurrent
<1>2. QED
  BY <1>1, TypeAlways, StateAlways, SpecsAround, PTL
     DEF Around, AcceptedForGood, Ledger!AcceptedForGood

-----------------------------------------------------------------------------
(* Verdicts.                                                               *)

LEMMA VerdictAlways == Around => []VerdictIsReviewed
<1>1. Init => VerdictIsReviewed
  BY DEF Init, VerdictIsReviewed, CarriesVerdict, ReviewsOf, Historical, Verdicts
<1>2. TypeOK /\ VerdictIsReviewed /\ [AnyNext]_vars => VerdictIsReviewed'
  <2> SUFFICES ASSUME TypeOK, VerdictIsReviewed, [AnyNext]_vars
               PROVE  VerdictIsReviewed'
    OBVIOUS
  <2>1. ASSUME NEW new \in Proposal, NEW previous, Presents(new, previous),
               reviews' = reviews
        PROVE  VerdictIsReviewed'
    <3>1. \A r \in reviews' : r.proposal \in DOMAIN proposals'
      BY <2>1 DEF Presents, VerdictIsReviewed
    <3>2. ASSUME NEW j \in DOMAIN proposals PROVE CarriesVerdict(j)'
      <4>1. CarriesVerdict(j)
        BY DEF VerdictIsReviewed
      <4>2. CASE j = previous
        <5>1. j # 0
          BY DEF TypeOK
        <5>2. proposals[j] \in Proposal
          BY DEF TypeOK
        <5>3. proposals[j].status \in Supersedable /\ proposals'[j].status = "superseded"
          BY <2>1, <4>2, <5>1, <5>2 DEF Presents, Proposal
        <5>4. QED
          BY <2>1, <4>1, <5>3, TypeOK
             DEF CarriesVerdict, ReviewsOf, Supersedable, Verdicts, TypeOK, Review
      <4>3. CASE j # previous
        BY <2>1, <4>1, <4>3 DEF Presents, CarriesVerdict, ReviewsOf
      <4>4. QED
        BY <4>2, <4>3
    <3>3. ASSUME NEW j \in DOMAIN proposals', j \notin DOMAIN proposals
          PROVE  CarriesVerdict(j)'
      <4>1. proposals'[j].status = "submitted" /\ ReviewsOf(j)' = {}
        BY <2>1, <3>3 DEF Presents, VerdictIsReviewed, ReviewsOf
      <4>2. QED
        BY <4>1 DEF CarriesVerdict, Verdicts
    <3>4. QED
      BY <3>1, <3>2, <3>3 DEF VerdictIsReviewed
  <2>2. ASSUME NEW i \in DOMAIN proposals, Closes(i, "withdrawn"), reviews' = reviews
        PROVE  VerdictIsReviewed'
    <3>1. ReviewsOf(i) = {}
      BY <2>2 DEF Closes, VerdictIsReviewed, CarriesVerdict, ReviewsOf, TypeOK,
                  Review, Verdicts
    <3>2. proposals'[i].status = "withdrawn"
      <4>1. proposals[i] \in Proposal
        BY DEF TypeOK
      <4>2. QED
        BY <2>2, <4>1 DEF Closes, Proposal
    <3>3. ASSUME NEW j \in DOMAIN proposals PROVE CarriesVerdict(j)'
      <4>1. CASE j = i
        BY <2>2, <3>1, <3>2, <4>1 DEF CarriesVerdict, ReviewsOf, Verdicts
      <4>2. CASE j # i
        BY <2>2, <4>2 DEF Closes, VerdictIsReviewed, CarriesVerdict, ReviewsOf
      <4>3. QED
        BY <4>1, <4>2
    <3>4. QED
      BY <2>2, <3>3 DEF Closes, VerdictIsReviewed
  <2>3. ASSUME NEW i \in DOMAIN proposals, NEW verdict \in Verdicts, Closes(i, verdict),
               NEW new, new.proposal = i, new.verdict = verdict,
               reviews' = reviews \cup {new}
        PROVE  VerdictIsReviewed'
    <3>1. ReviewsOf(i) = {}
      BY <2>3 DEF Closes, VerdictIsReviewed, CarriesVerdict, ReviewsOf, TypeOK,
                  Review, Verdicts
    <3>2. proposals'[i].status = verdict
      <4>1. proposals[i] \in Proposal
        BY DEF TypeOK
      <4>2. QED
        BY <2>3, <4>1 DEF Closes, Proposal
    <3>3. ReviewsOf(i)' = {new}
      BY <2>3, <3>1 DEF ReviewsOf
    <3>4. ASSUME NEW j \in DOMAIN proposals PROVE CarriesVerdict(j)'
      <4>1. CASE j = i
        BY <2>3, <3>2, <3>3, <4>1 DEF CarriesVerdict
      <4>2. CASE j # i
        <5>1. ReviewsOf(j)' = ReviewsOf(j)
          BY <2>3, <4>2 DEF ReviewsOf
        <5>2. QED
          BY <2>3, <4>2, <5>1 DEF Closes, VerdictIsReviewed, CarriesVerdict
      <4>3. QED
        BY <4>1, <4>2
    <3>5. QED
      BY <2>3, <3>4 DEF Closes, VerdictIsReviewed
  <2>4. CASE OtherStep \/ UNCHANGED vars
    BY <2>4, OtherEffect DEF VerdictIsReviewed, CarriesVerdict, ReviewsOf
  <2>5. ASSUME NEW u \in Users, ProposalStep(u)
        PROVE  VerdictIsReviewed'
    <3>1. ASSUME NEW package \in 0 .. MaxPackages, NEW claimed \in SUBSET Criteria,
                 NEW previous \in {0} \cup DOMAIN proposals,
                 SubmitProposal(u, package, claimed, previous)
          PROVE  VerdictIsReviewed'
      BY <2>1, <3>1, SubmitEffect DEF SubmitProposal
    <3>2. ASSUME NEW i \in DOMAIN proposals, WithdrawProposal(u, i)
          PROVE  VerdictIsReviewed'
      BY <2>2, <3>2, WithdrawEffect DEF WithdrawProposal
    <3>3. ASSUME NEW i \in DOMAIN proposals, NEW verdict \in Verdicts,
                 NEW met \in SUBSET Criteria, ReviewProposal(u, i, verdict, met)
          PROVE  VerdictIsReviewed'
      <4> DEFINE new == [proposal |-> i, reviewer |-> u, verdict |-> verdict, met |-> met,
                         assignee |-> assignee_id, designated |-> reviewer_id]
      <4>1. reviews' = reviews \cup {new} /\ new.proposal = i /\ new.verdict = verdict
        BY <3>3 DEF ReviewProposal
      <4>2. Closes(i, verdict)
        BY <3>3, ReviewEffect
      <4> HIDE DEF new
      <4>3. QED
        BY <2>3, <4>1, <4>2
    <3>4. QED
      BY <2>5, <3>1, <3>2, <3>3 DEF ProposalStep
  <2>6. QED
    BY <2>4, <2>5 DEF AnyNext, Next, OtherStep
<1>3. QED
  BY <1>1, <1>2, TypeAlways, PTL DEF Around

(* A version is judged at most once, and its status says what its review   *)
(* said: review_proposal refuses a version that is not open.               *)
THEOREM EveryVerdictIsReviewed == Spec \/ DeliverySpec \/ ClosureSpec => []VerdictIsReviewed
BY VerdictAlways, SpecsAround, PTL

\* The gate reads the summary, the summary stands for the proposals, and each
\* verdict among them was given in a review.
LEMMA GateHolds ==
  ASSUME ResultStateCurrent, VerdictIsReviewed, TrackedNext,
         RequiresReview, current_status # "final", current_status' = "final"
  PROVE  \E r \in reviews : r.verdict \in ReviewedStates
<1>1. PICK u \in Users : TransitionStatus(u, "final")
  <2>1. ASSUME NEW u \in Users, ProposalStep(u) PROVE FALSE
    BY <2>1 DEF ProposalStep, SubmitProposal, WithdrawProposal, ReviewProposal, taskVars
  <2>2. ~ MemberStep /\ ~ Counted
    BY DEF MemberStep, UpdateMember, AddMember, RemoveMember, Counted, taskVars
  <2>3. PICK u \in Users : TaskStep(u)
    BY <2>1, <2>2 DEF TrackedNext, Next
  <2>4. QED
    BY <2>3 DEF TaskStep, UpdateTask, TransitionStatus, DeleteTask, IssuePackage, taskVars
<1>2. result_state \in ReviewedStates
  BY <1>1 DEF TransitionStatus, MayEnter
<1>3. result_state \in {proposals[i].status : i \in DOMAIN proposals}
  BY <1>2 DEF ResultStateCurrent, ResultOf, ReviewedStates
<1>4. PICK i \in DOMAIN proposals : proposals[i].status = result_state
  BY <1>3
<1>5. QED
  BY <1>2, <1>4 DEF VerdictIsReviewed, CarriesVerdict, ReviewsOf, ReviewedStates, Verdicts

(* A reviewed task becomes final only with a finishing verdict on record.  *)
THEOREM FinalNeedsReview == Spec \/ DeliverySpec => FinalNeedsVerdict
<1>1. ResultStateCurrent /\ VerdictIsReviewed /\ [TrackedNext]_vars
        => [RequiresReview /\ current_status # "final" /\ current_status' = "final" =>
              \E r \in reviews : r.verdict \in ReviewedStates]_vars
  BY GateHolds
<1>2. QED
  BY <1>1, StateAlways, VerdictAlways, SpecsTracked, SpecsAround, PTL
     DEF Tracked, FinalNeedsVerdict

(* The editor is the only way around that: where it is at work, too, no    *)
(* other step makes a reviewed task final without a finishing verdict.     *)
THEOREM OnlyEditorEvadesReview ==
  ClosureSpec =>
    [][RequiresReview /\ current_status # "final" /\ current_status' = "final" =>
         EditorStep \/ \E r \in reviews : r.verdict \in ReviewedStates]_vars
<1>1. ResultStateCurrent /\ VerdictIsReviewed /\ [Next \/ EditorStep]_vars
        => [RequiresReview /\ current_status # "final" /\ current_status' = "final" =>
              EditorStep \/ \E r \in reviews : r.verdict \in ReviewedStates]_vars
  BY GateHolds DEF TrackedNext
<1>2. QED
  BY <1>1, StateAlways, VerdictAlways, SpecsAround, PTL DEF ClosureSpec

-----------------------------------------------------------------------------
(* Corrections.                                                            *)

HeirsOf(i) == {j \in DOMAIN proposals : proposals[j].supersedes = i}

SupersededAt(i) ==
  /\ (proposals[i].status = "superseded") <=> HeirsOf(i) # {}
  /\ \A j, k \in HeirsOf(i) : j = k
  /\ \A j \in HeirsOf(i) : i < j

\* Inductive: a version names an earlier one, so a new version has no heirs.
Chained(i) == proposals[i].supersedes < i /\ SupersededAt(i)

LEMMA SupersededParts ==
  (\A i \in DOMAIN proposals : Chained(i)) => SupersededOnce
BY DEF SupersededOnce, Chained, SupersededAt, HeirsOf

(* Corrections form chains: a version has one successor if it is marked as *)
(* superseded, and none otherwise.                                         *)
THEOREM EverySuccessorIsUnique == Spec \/ DeliverySpec \/ ClosureSpec => []SupersededOnce
<1>1. Init => \A i \in DOMAIN proposals : Chained(i)
  <2> SUFFICES ASSUME Init, NEW i \in DOMAIN proposals PROVE Chained(i)
    OBVIOUS
  <2>1. proposals = <<Historical(Owner)>> /\ i = 1
    BY DEF Init
  <2>2. proposals[1].status = "historical" /\ proposals[1].supersedes = 0
    BY <2>1 DEF Historical
  <2>3. HeirsOf(i) = {}
    BY <2>1, <2>2 DEF HeirsOf
  <2>4. QED
    BY <2>1, <2>2, <2>3 DEF SupersededAt, Chained
<1>2. TypeOK /\ (\A i \in DOMAIN proposals : Chained(i)) /\ [AnyNext]_vars
        => (\A i \in DOMAIN proposals : Chained(i))'
  <2> SUFFICES ASSUME TypeOK, \A i \in DOMAIN proposals : Chained(i), [AnyNext]_vars
               PROVE  \A i \in DOMAIN proposals' : Chained(i)'
    OBVIOUS
  <2>1. ASSUME NEW new \in Proposal, NEW previous, Presents(new, previous),
               NEW i \in DOMAIN proposals'
        PROVE  Chained(i)'
    <3> DEFINE last == Len(proposals) + 1
    <3>1. /\ DOMAIN proposals' = DOMAIN proposals \cup {last}
          /\ last \in Nat \ {0} /\ last \notin DOMAIN proposals
          /\ \A j \in DOMAIN proposals : j \in Nat /\ j # 0 /\ j < last
      BY <2>1 DEF Presents, TypeOK
    <3>2. proposals'[last].supersedes = previous /\ proposals'[last].status = "submitted"
      BY <2>1 DEF Presents
    <3>3. ASSUME NEW j \in DOMAIN proposals
          PROVE  /\ proposals'[j].supersedes = proposals[j].supersedes
                 /\ proposals'[j].status =
                      IF j = previous THEN "superseded" ELSE proposals[j].status
      <4>1. proposals[j] \in Proposal
        BY DEF TypeOK
      <4>2. CASE j = previous
        BY <2>1, <3>1, <4>1, <4>2 DEF Presents, Proposal
      <4>3. CASE j # previous
        BY <2>1, <4>3 DEF Presents
      <4>4. QED
        BY <4>2, <4>3
    <3>4. previous = 0 \/ (/\ previous \in DOMAIN proposals
                           /\ proposals[previous].status # "superseded")
      BY <2>1 DEF Presents, Supersedable
    <3> HIDE DEF last
    <3>5. HeirsOf(i)' = IF i = previous THEN HeirsOf(i) \cup {last} ELSE HeirsOf(i)
      BY <3>1, <3>2, <3>3 DEF HeirsOf
    <3>6. CASE i = last
      <4>1. HeirsOf(i) = {}
        <5>1. SUFFICES ASSUME NEW j \in DOMAIN proposals, proposals[j].supersedes = last
                       PROVE  FALSE
          BY <3>6 DEF HeirsOf
        <5>2. last < j /\ j \in Nat
          BY <5>1, <3>1 DEF Chained
        <5>3. QED
          BY <3>1, <5>2
      <4>2. i # previous
        BY <3>1, <3>4, <3>6
      <4>3. QED
        BY <3>2, <3>5, <3>6, <4>1, <4>2, <3>1, <3>4
           DEF SupersededAt, Chained
    <3>7. CASE i \in DOMAIN proposals /\ i = previous
      <4>1. HeirsOf(i) = {}
        BY <3>1, <3>4, <3>7 DEF SupersededAt, Chained
      <4>2. QED
        BY <3>1, <3>3, <3>5, <3>7, <4>1 DEF SupersededAt, Chained
    <3>8. CASE i \in DOMAIN proposals /\ i # previous
      BY <3>3, <3>5, <3>8 DEF SupersededAt, Chained
    <3>9. QED
      BY <3>1, <3>6, <3>7, <3>8
  <2>2. ASSUME NEW i \in DOMAIN proposals, NEW s, Closes(i, s), s # "superseded"
        PROVE  \A j \in DOMAIN proposals' : Chained(j)'
    <3>1. proposals[i] \in Proposal
      BY DEF TypeOK
    <3>2. \A j \in DOMAIN proposals :
            /\ proposals'[j].supersedes = proposals[j].supersedes
            /\ proposals'[j].status = "superseded" <=> proposals[j].status = "superseded"
      BY <2>2, <3>1 DEF Closes, Proposal
    <3>3. \A j \in DOMAIN proposals : HeirsOf(j)' = HeirsOf(j)
      BY <2>2, <3>2 DEF Closes, HeirsOf
    <3>4. QED
      BY <2>2, <3>2, <3>3 DEF Closes, SupersededAt, Chained
  <2>3. CASE OtherStep \/ UNCHANGED vars
    BY <2>3, OtherEffect DEF Chained, SupersededAt, HeirsOf
  <2>4. ASSUME NEW u \in Users, ProposalStep(u)
        PROVE  \A i \in DOMAIN proposals' : Chained(i)'
    BY <2>1, <2>2, <2>4, SubmitEffect, WithdrawEffect, ReviewEffect
       DEF ProposalStep, Verdicts
  <2>5. QED
    BY <2>3, <2>4 DEF AnyNext, Next, OtherStep
<1>3. QED
  BY <1>1, <1>2, TypeAlways, SupersededParts, SpecsAround, PTL DEF Around

-----------------------------------------------------------------------------
(* The version of the task.                                                *)

(* No field a client reads changes under an unchanged version.             *)
THEOREM VersionCounts == Spec \/ DeliverySpec => VersionTracksContent
<1>1. [TrackedNext]_vars =>
        [<<assignee_id, reviewer_id, current_status, result_state, packages>>' #
         <<assignee_id, reviewer_id, current_status, result_state, packages>>
           => version' = version + 1]_vars
  <2> SUFFICES ASSUME TrackedNext,
                      <<assignee_id, reviewer_id, current_status, result_state, packages>>' #
                      <<assignee_id, reviewer_id, current_status, result_state, packages>>
               PROVE  version' = version + 1
    OBVIOUS
  <2>1. ASSUME NEW u \in Users, ProposalStep(u) PROVE version' = version + 1
    BY <2>1 DEF ProposalStep, SubmitProposal, WithdrawProposal, ReviewProposal,
                RecomputeState, taskVars
  <2>2. ASSUME NEW u \in Users, TaskStep(u) PROVE version' = version + 1
    BY <2>2 DEF TaskStep, UpdateTask, TransitionStatus, DeleteTask, IssuePackage,
                Touch, taskVars
  <2>3. CASE MemberStep \/ Counted
    BY <2>3 DEF MemberStep, UpdateMember, AddMember, RemoveMember, Counted, taskVars
  <2>4. QED
    BY <2>1, <2>2, <2>3 DEF TrackedNext, Next
<1>2. QED
  BY <1>1, SpecsTracked, PTL DEF Tracked, VersionTracksContent

-----------------------------------------------------------------------------
(* Earned acceptance.                                                      *)

\* A proposal keeps the criteria of the package it was submitted for.
Pinned(i) ==
  LET p == proposals[i]
  IN  p.package # 0 => /\ p.package \in DOMAIN packages
                       /\ p.required = packages[p.package]

\* What _require_reviewer and the criteria check established for review r.
Earned(r) ==
  LET p == proposals[r.proposal]
  IN  r.verdict = "accepted" => /\ r.reviewer \notin {p.author, r.assignee}
                                /\ r.designated \in {NoUser, r.reviewer}
                                /\ p.required \subseteq r.met

\* The inductive invariant behind AcceptedIsEarned: each review refers to a
\* proposal whose author, package and criteria never change again.
EarnedInv ==
  /\ \A i \in DOMAIN proposals : Pinned(i)
  /\ \A r \in reviews : r.proposal \in DOMAIN proposals /\ Earned(r)

\* Everything but the status of a proposal is immutable.
Immutable(i) ==
  /\ i \in DOMAIN proposals'
  /\ proposals'[i].author = proposals[i].author
  /\ proposals'[i].package = proposals[i].package
  /\ proposals'[i].required = proposals[i].required

LEMMA ProposalImmutable ==
  ASSUME TypeOK, NEW i \in DOMAIN proposals
  PROVE  /\ \A new \in Proposal, previous \in {0} \cup DOMAIN proposals :
              Presents(new, previous) => Immutable(i)
         /\ \A j \in DOMAIN proposals, s \in ProposalStatus : Closes(j, s) => Immutable(i)
<1>1. proposals[i] \in Proposal /\ i # 0
  BY DEF TypeOK
<1>2. ASSUME NEW new \in Proposal, NEW previous \in {0} \cup DOMAIN proposals,
             Presents(new, previous)
      PROVE  Immutable(i)
  <2>1. CASE i = previous
    BY <1>1, <1>2, <2>1 DEF Presents, Immutable, Proposal
  <2>2. CASE i # previous
    BY <1>2, <2>2 DEF Presents, Immutable
  <2>3. QED
    BY <2>1, <2>2
<1>3. ASSUME NEW j \in DOMAIN proposals, NEW s \in ProposalStatus, Closes(j, s)
      PROVE  Immutable(i)
  <2>1. CASE i = j
    BY <1>1, <1>3, <2>1 DEF Closes, Immutable, Proposal
  <2>2. CASE i # j
    BY <1>3, <2>2 DEF Closes, Immutable
  <2>3. QED
    BY <2>1, <2>2
<1>4. QED
  BY <1>2, <1>3

LEMMA EarnedAlways == Around => []EarnedInv
<1>1. Init => EarnedInv
  BY DEF Init, EarnedInv, Pinned, Historical
<1>2. TypeOK /\ EarnedInv /\ [AnyNext]_vars => EarnedInv'
  <2> SUFFICES ASSUME TypeOK, EarnedInv, [AnyNext]_vars PROVE EarnedInv'
    OBVIOUS
  <2>1. ASSUME NEW u \in Users, NEW package \in 0 .. MaxPackages,
               NEW claimed \in SUBSET Criteria, NEW previous \in {0} \cup DOMAIN proposals,
               SubmitProposal(u, package, claimed, previous)
        PROVE  EarnedInv'
    <3>1. PICK new \in Proposal : Presents(new, previous)
      BY <2>1, SubmitEffect
    <3>2. reviews' = reviews /\ packages' = packages
      BY <2>1 DEF SubmitProposal
    <3>3. \A i \in DOMAIN proposals : Immutable(i)
      BY <3>1, ProposalImmutable
    <3>4. \A i \in DOMAIN proposals' : Pinned(i)'
      BY <3>1, <3>2, <3>3 DEF Presents, Immutable, EarnedInv, Pinned
    <3>5. \A r \in reviews' : r.proposal \in DOMAIN proposals' /\ Earned(r)'
      BY <3>2, <3>3 DEF Immutable, EarnedInv, Earned
    <3>6. QED
      BY <3>4, <3>5 DEF EarnedInv
  <2>2. ASSUME NEW u \in Users, NEW i \in DOMAIN proposals, WithdrawProposal(u, i)
        PROVE  EarnedInv'
    <3>1. Closes(i, "withdrawn") /\ "withdrawn" \in ProposalStatus
      BY <2>2, WithdrawEffect DEF ProposalStatus
    <3>2. reviews' = reviews /\ packages' = packages
      BY <2>2 DEF WithdrawProposal
    <3>3. \A j \in DOMAIN proposals : Immutable(j)
      BY <3>1, ProposalImmutable
    <3>4. DOMAIN proposals' = DOMAIN proposals
      BY <3>1 DEF Closes
    <3>5. QED
      BY <3>2, <3>3, <3>4 DEF Immutable, EarnedInv, Earned, Pinned
  <2>3. ASSUME NEW u \in Users, NEW i \in DOMAIN proposals, NEW verdict \in Verdicts,
               NEW met \in SUBSET Criteria, ReviewProposal(u, i, verdict, met)
        PROVE  EarnedInv'
    <3> DEFINE new == [proposal |-> i, reviewer |-> u, verdict |-> verdict, met |-> met,
                       assignee |-> assignee_id, designated |-> reviewer_id]
    <3>1. Closes(i, verdict) /\ verdict \in ProposalStatus
      BY <2>3, ReviewEffect DEF ProposalStatus
    <3>2. reviews' = reviews \cup {new} /\ packages' = packages
      BY <2>3 DEF ReviewProposal
    <3>3. \A j \in DOMAIN proposals : Immutable(j)
      BY <3>1, ProposalImmutable
    <3>4. DOMAIN proposals' = DOMAIN proposals
      BY <3>1 DEF Closes
    <3>5. Earned(new)
      BY <2>3 DEF ReviewProposal, MayReview, Earned
    <3>6. new.proposal = i
      OBVIOUS
    <3> HIDE DEF new
    <3>7. \A r \in reviews' : r.proposal \in DOMAIN proposals' /\ Earned(r)'
      BY <3>2, <3>3, <3>4, <3>5, <3>6 DEF Immutable, EarnedInv, Earned
    <3>8. \A j \in DOMAIN proposals' : Pinned(j)'
      BY <3>2, <3>3, <3>4 DEF Immutable, EarnedInv, Pinned
    <3>9. QED
      BY <3>7, <3>8 DEF EarnedInv
  <2>4. CASE OtherStep \/ UNCHANGED vars
    BY <2>4, OtherEffect DEF EarnedInv, Earned, Pinned
  <2>5. QED
    BY <2>1, <2>2, <2>3, <2>4 DEF AnyNext, Next, ProposalStep, OtherStep
<1>3. QED
  BY <1>1, <1>2, TypeAlways, PTL DEF Around

(* An accepted result was found complete by somebody entitled to judge it: *)
(* neither its author nor the assignee of the moment, the designated       *)
(* reviewer if there was one, against the package it was submitted for.    *)
THEOREM AcceptanceIsEarned == Spec \/ DeliverySpec \/ ClosureSpec => []AcceptedIsEarned
<1>1. ResultStateCurrent /\ VerdictIsReviewed /\ EarnedInv => AcceptedIsEarned
  <2> SUFFICES ASSUME ResultStateCurrent, VerdictIsReviewed, EarnedInv,
                      result_state = "accepted"
               PROVE  \E r \in reviews :
                        LET p == proposals[r.proposal]
                        IN  /\ r.proposal \in DOMAIN proposals
                            /\ r.verdict = "accepted" /\ p.status = "accepted"
                            /\ r.reviewer \notin {p.author, r.assignee}
                            /\ r.designated \in {NoUser, r.reviewer}
                            /\ p.package # 0 => packages[p.package] \subseteq r.met
    BY DEF AcceptedIsEarned
  <2>1. "accepted" \in {proposals[i].status : i \in DOMAIN proposals}
    BY AcceptedDominates DEF ResultStateCurrent
  <2>2. PICK i \in DOMAIN proposals : proposals[i].status = "accepted"
    BY <2>1
  <2>3. PICK r \in reviews : r.proposal = i /\ r.verdict = "accepted"
    BY <2>2 DEF VerdictIsReviewed, CarriesVerdict, ReviewsOf, Verdicts
  <2>4. Earned(r) /\ Pinned(i)
    BY <2>2, <2>3 DEF EarnedInv
  <2>5. QED
    BY <2>2, <2>3, <2>4 DEF Earned, Pinned
<1>2. QED
  BY <1>1, StateAlways, VerdictAlways, EarnedAlways, SpecsAround, PTL

-----------------------------------------------------------------------------
(* Refinement.                                                             *)

\* The ledger a task's proposals stand for.
Statuses == [i \in DOMAIN proposals |-> proposals[i].status]

LEMMA StatusesType ==
  ASSUME NEW seq \in Seq(Proposal), NEW st, st = [i \in DOMAIN seq |-> seq[i].status]
  PROVE  /\ st \in Seq(ProposalStatus)
         /\ DOMAIN st = DOMAIN seq /\ Len(st) = Len(seq)
         /\ \A i \in DOMAIN seq : st[i] = seq[i].status
<1>1. DOMAIN seq = 1 .. Len(seq) /\ Len(seq) \in Nat
  OBVIOUS
<1>2. ASSUME NEW i \in 1 .. Len(seq)
      PROVE  seq[i].status \in ProposalStatus
  <2>1. seq[i] \in Proposal
    OBVIOUS
  <2>2. QED
    BY <2>1 DEF Proposal
<1>3. st \in [1 .. Len(seq) -> ProposalStatus]
  BY <1>1, <1>2
<1>4. QED
  BY <1>1, <1>3

LEMMA LedgerInit ==
  ASSUME Init
  PROVE  Ledger!Init
<1>1. CASE proposals = <<>>
  <2>1. Statuses = <<>>
    BY <1>1 DEF Statuses
  <2>2. {Statuses[i] : i \in DOMAIN Statuses} = {}
    BY <2>1
  <2>3. result_state = "none"
    BY <1>1 DEF Init
  <2>4. QED
    BY <2>1, <2>2, <2>3 DEF Ledger!Init, Ledger!ResultOf, Ledger!StatusesOf, Statuses
<1>2. CASE proposals = <<Historical(Owner)>>
  <2>1. Statuses = <<"historical">>
    BY <1>2 DEF Statuses, Historical
  <2>2. {Statuses[i] : i \in DOMAIN Statuses} = {"historical"}
    BY <2>1
  <2>3. result_state = "historical"
    BY <1>2 DEF Init
  <2>4. Statuses \in Seq({"historical"})
    BY <2>1
  <2>5. QED
    BY <2>2, <2>3, <2>4 DEF Ledger!Init, Ledger!ResultOf, Ledger!StatusesOf, Statuses
<1>3. QED
  BY <1>1, <1>2 DEF Init

LEMMA OutcomeFollows ==
  ASSUME NEW seq, NEW st, st = [i \in DOMAIN seq |-> seq[i].status]
  PROVE  ResultOf({seq[i].status : i \in DOMAIN seq}) =
           Ledger!ResultOf(Ledger!StatusesOf(st))
<1>1. {seq[i].status : i \in DOMAIN seq} = Ledger!StatusesOf(st)
  BY DEF Ledger!StatusesOf
<1>2. QED
  BY <1>1 DEF ResultOf, Ledger!ResultOf

LEMMA LedgerPresent ==
  ASSUME TypeOK, TypeOK', ResultStateCurrent',
         NEW new \in Proposal, NEW previous \in {0} \cup DOMAIN proposals,
         Presents(new, previous)
  PROVE  Ledger!Present
<1> DEFINE kept == IF previous = 0 THEN Statuses
                   ELSE [Statuses EXCEPT ![previous] = "superseded"]
<1>1. kept \in Seq(ProposalStatus) /\ Len(kept) = Len(proposals)
      /\ DOMAIN kept = DOMAIN proposals
  <2>1. /\ Statuses \in Seq(ProposalStatus) /\ Len(Statuses) = Len(proposals)
        /\ DOMAIN Statuses = DOMAIN proposals
    BY StatusesType DEF TypeOK, Statuses
  <2>2. "superseded" \in ProposalStatus
    BY DEF ProposalStatus
  <2>3. QED
    BY <2>1, <2>2
<1>2. \A i \in DOMAIN proposals : proposals'[i].status = kept[i]
  <2> SUFFICES ASSUME NEW i \in DOMAIN proposals PROVE proposals'[i].status = kept[i]
    OBVIOUS
  <2>1. proposals[i] \in Proposal /\ i # 0
    BY DEF TypeOK
  <2>2. CASE i = previous
    BY <2>1, <2>2 DEF Presents, Proposal, Statuses
  <2>3. CASE i # previous
    BY <2>1, <2>3 DEF Presents, Statuses
  <2>4. QED
    BY <2>2, <2>3
<1>3. Statuses' = Append(kept, "submitted")
  <2> HIDE DEF kept
  <2>1. Statuses' \in Seq(ProposalStatus) /\ DOMAIN Statuses' = DOMAIN proposals'
    BY StatusesType DEF TypeOK, Statuses
  <2>2. \A i \in DOMAIN proposals' : Statuses'[i] = proposals'[i].status
    BY DEF Statuses
  <2>3. DOMAIN proposals' = 1 .. Len(proposals) + 1
    BY DEF Presents, TypeOK
  <2>4. proposals'[Len(proposals) + 1].status = "submitted"
    BY DEF Presents
  <2>5. DOMAIN proposals = 1 .. Len(proposals) /\ Len(proposals) \in Nat
    BY DEF TypeOK
  <2>6. Append(kept, "submitted") \in Seq(ProposalStatus)
    BY <1>1 DEF ProposalStatus
  <2>7. DOMAIN Append(kept, "submitted") = 1 .. Len(proposals) + 1
    BY <1>1, <2>5
  <2>8. \A i \in 1 .. Len(proposals) + 1 : Statuses'[i] = Append(kept, "submitted")[i]
    <3> SUFFICES ASSUME NEW i \in 1 .. Len(proposals) + 1
                 PROVE  Statuses'[i] = Append(kept, "submitted")[i]
      OBVIOUS
    <3>1. Statuses'[i] = proposals'[i].status
      BY <2>2, <2>3
    <3>2. CASE i \in 1 .. Len(proposals)
      BY <1>1, <1>2, <2>5, <3>1, <3>2
    <3>3. CASE i = Len(proposals) + 1
      BY <1>1, <2>4, <2>5, <3>1, <3>3
    <3>4. i \in 1 .. Len(proposals) \/ i = Len(proposals) + 1
      BY <2>5
    <3>5. QED
      BY <3>2, <3>3, <3>4, Zenon
  <2>9. QED
    BY <2>1, <2>3, <2>6, <2>7, <2>8
<1>4. result_state' = Ledger!ResultOf(Ledger!StatusesOf(Statuses'))
  BY OutcomeFollows DEF Statuses, ResultStateCurrent
<1>5. previous # 0 => previous \in DOMAIN Statuses /\ Statuses[previous] \in Supersedable
  BY DEF Presents, Statuses
<1>6. CASE previous = 0
  BY <1>3, <1>4, <1>6 DEF Ledger!Present, Statuses
<1>7. CASE previous # 0
  BY <1>3, <1>4, <1>5, <1>7 DEF Ledger!Present, Ledger!Supersedable, Supersedable, Statuses
<1>8. QED
  BY <1>6, <1>7

LEMMA LedgerSettle ==
  ASSUME TypeOK, TypeOK', ResultStateCurrent',
         NEW i \in DOMAIN proposals, NEW s \in Verdicts \cup {"withdrawn"}, Closes(i, s)
  PROVE  Ledger!Settle
<1>1. DOMAIN Statuses = DOMAIN proposals
  BY DEF Statuses
<1>2. Statuses' = [Statuses EXCEPT ![i] = s]
  <2>1. Statuses' = [j \in DOMAIN proposals |-> proposals'[j].status]
    BY DEF Statuses, Closes
  <2>2. proposals[i] \in Proposal
    BY DEF TypeOK
  <2>3. proposals'[i].status = s
    BY <2>2 DEF Closes, Proposal
  <2>4. \A j \in DOMAIN proposals : j # i => proposals'[j].status = Statuses[j]
    BY DEF Closes, Statuses
  <2>5. QED
    BY <1>1, <2>1, <2>3, <2>4
<1>3. result_state' = Ledger!ResultOf(Ledger!StatusesOf(Statuses'))
  BY OutcomeFollows DEF Statuses, ResultStateCurrent
<1>4. i \in DOMAIN Statuses /\ Statuses[i] = "submitted"
  BY DEF Closes, Statuses
<1>5. s \in Ledger!Verdicts \cup {"withdrawn"}
  BY DEF Verdicts, Ledger!Verdicts
<1>6. QED
  BY <1>2, <1>3, <1>4, <1>5 DEF Ledger!Settle, Statuses

(* The handlers implement the ledger of results: what they do to a task is *)
(* to present a version, to settle one, or nothing the ledger can see.     *)
THEOREM HandlersImplementLedger == Spec \/ DeliverySpec \/ ClosureSpec => ImplementsLedger
<1>1. TypeOK /\ TypeOK' /\ ResultStateCurrent' /\ [AnyNext]_vars => [Ledger!Next]_(Ledger!vars)
  <2> SUFFICES ASSUME TypeOK, TypeOK', ResultStateCurrent', [AnyNext]_vars
               PROVE  [Ledger!Next]_(Ledger!vars)
    OBVIOUS
  <2>1. ASSUME NEW u \in Users, NEW package \in 0 .. MaxPackages,
               NEW claimed \in SUBSET Criteria, NEW previous \in {0} \cup DOMAIN proposals,
               SubmitProposal(u, package, claimed, previous)
        PROVE  Ledger!Next
    BY <2>1, SubmitEffect, LedgerPresent DEF Ledger!Next
  <2>2. ASSUME NEW u \in Users, NEW i \in DOMAIN proposals, WithdrawProposal(u, i)
        PROVE  Ledger!Next
    BY <2>2, WithdrawEffect, LedgerSettle DEF Ledger!Next
  <2>3. ASSUME NEW u \in Users, NEW i \in DOMAIN proposals, NEW verdict \in Verdicts,
               NEW met \in SUBSET Criteria, ReviewProposal(u, i, verdict, met)
        PROVE  Ledger!Next
    BY <2>3, ReviewEffect, LedgerSettle DEF Ledger!Next
  <2>4. CASE OtherStep \/ UNCHANGED vars
    BY <2>4, OtherEffect DEF Ledger!vars
  <2>5. QED
    BY <2>1, <2>2, <2>3, <2>4 DEF AnyNext, Next, ProposalStep, OtherStep
<1>2. QED
  BY <1>1, LedgerInit, TypeAlways, StateAlways, SpecsAround, PTL
     DEF Around, ImplementsLedger, Ledger!Spec

-----------------------------------------------------------------------------
(* The review queue.                                                       *)

(* The query of the review queue and the rule of a review never disagree.  *)
THEOREM QueueAlwaysMatchesRule == Spec \/ DeliverySpec \/ ClosureSpec => []QueueMatchesRule
<1>1. TypeOK => QueueMatchesRule
  BY DEF TypeOK, QueueMatchesRule, InQueue, MayReview, CanWrite, IsWriter, Member, Roles
<1>2. QED
  BY <1>1, TypeCorrect, PTL

-----------------------------------------------------------------------------
(* Deliveries.                                                             *)

\* What is appended to a list, and what stays in it.
LEMMA Appended ==
  ASSUME NEW S, NEW seq \in Seq(S), NEW x \in S, NEW longer, longer = Append(seq, x)
  PROVE  /\ longer \in Seq(S)
         /\ Len(seq) + 1 \in DOMAIN longer
         /\ DOMAIN longer = DOMAIN seq \cup {Len(seq) + 1}
         /\ \A k \in DOMAIN seq : k # Len(seq) + 1 /\ k <= Len(seq) /\ longer[k] = seq[k]
         /\ longer[Len(seq) + 1] = x
OBVIOUS

\* `a` is the acceptance recorded last for the delivery d, 0 if none is.
IsLast(d, a) ==
  \/ a = 0 /\ \A b \in DOMAIN acceptances : acceptances[b].delivery # d
  \/ /\ a \in DOMAIN acceptances /\ acceptances[a].delivery = d
     /\ \A b \in DOMAIN acceptances : acceptances[b].delivery = d => b <= a

Summarised ==
  /\ delivery = CurrentDelivery
  /\ \E a \in Nat :
       /\ IsLast(CurrentDelivery, a)
       /\ recipient_acceptance =
            IF a # 0 /\ acceptances[a].status = "accepted" THEN a ELSE 0

DeliveryInv == TypeOK /\ DeliveryTypeOK /\ DeliveredIsAccepted /\ Summarised

LEMMA SummarisedIsCurrent ==
  ASSUME DeliveryTypeOK, Summarised
  PROVE  SummaryIsCurrent
<1> DEFINE d == CurrentDelivery
           of == {a \in DOMAIN acceptances : acceptances[a].delivery = d}
<1>1. PICK a \in Nat :
        /\ IsLast(d, a)
        /\ recipient_acceptance =
             IF a # 0 /\ acceptances[a].status = "accepted" THEN a ELSE 0
  BY DEF Summarised
<1>2. \A k \in DOMAIN acceptances : k \in Nat /\ k # 0
  BY DEF DeliveryTypeOK
<1>3. LastAcceptance(d) = a
  <2>1. CASE a = 0
    BY <1>1, <1>2, <2>1 DEF IsLast, LastAcceptance
  <2>2. CASE a # 0
    <3>1. a \in of /\ \A b \in of : b <= a
      BY <1>1, <2>2 DEF IsLast
    <3>2. \A c \in of : (\A b \in of : b <= c) => c = a
      BY <1>2, <3>1
    <3> HIDE DEF of
    <3>3. (CHOOSE c \in of : \A b \in of : b <= c) = a
      BY <3>1, <3>2
    <3>4. QED
      BY <3>1, <3>3 DEF LastAcceptance, of
  <2>3. QED
    BY <2>1, <2>2
<1>4. QED
  BY <1>1, <1>3 DEF SummaryIsCurrent, Summarised

\* Nothing the handlers of ResultReview do touches a delivered version.
LEMMA DeliveredStays ==
  ASSUME TypeOK, [AnyNext]_vars, NEW i \in DOMAIN proposals, proposals[i].status = "accepted"
  PROVE  /\ i \in DOMAIN proposals' /\ proposals'[i].status = "accepted"
         /\ proposals'[i].package = proposals[i].package
<1>1. ASSUME NEW u \in Users, ProposalStep(u)
      PROVE  Immutable(i)
  <2>1. ASSUME NEW package \in 0 .. MaxPackages, NEW claimed \in SUBSET Criteria,
               NEW previous \in {0} \cup DOMAIN proposals,
               SubmitProposal(u, package, claimed, previous)
        PROVE  Immutable(i)
    BY <2>1, SubmitEffect, ProposalImmutable
  <2>2. ASSUME NEW j \in DOMAIN proposals, WithdrawProposal(u, j)
        PROVE  Immutable(i)
    BY <2>2, WithdrawEffect, ProposalImmutable DEF ProposalStatus
  <2>3. ASSUME NEW j \in DOMAIN proposals, NEW verdict \in Verdicts,
               NEW met \in SUBSET Criteria, ReviewProposal(u, j, verdict, met)
        PROVE  Immutable(i)
    BY <2>3, ReviewEffect, ProposalImmutable DEF ProposalStatus
  <2>4. QED
    BY <1>1, <2>1, <2>2, <2>3 DEF ProposalStep
<1>2. CASE OtherStep \/ UNCHANGED vars
  BY <1>2, OtherEffect
<1>3. QED
  BY <1>1, <1>2, AcceptedVersionStays DEF AnyNext, Next, OtherStep, Immutable

LEMMA ReviewKeepsDeliveries ==
  ASSUME DeliveryInv, [Next]_vars, UNCHANGED deliveryVars
  PROVE  DeliveryInv'
<1>0. [AnyNext]_vars
  BY DEF AnyNext
<1>1. TypeOK' /\ DeliveryTypeOK'
  BY <1>0, StepType DEF DeliveryInv, DeliveryTypeOK, deliveryVars
<1>2. DeliveredIsAccepted'
  BY <1>0, DeliveredStays DEF DeliveryInv, DeliveredIsAccepted, deliveryVars
<1>3. Summarised'
  BY DEF DeliveryInv, Summarised, CurrentDelivery, IsLast, deliveryVars
<1>4. QED
  BY <1>1, <1>2, <1>3 DEF DeliveryInv

LEMMA ProposeKeeps ==
  ASSUME DeliveryInv, NEW u \in Users, ProposeDelivery(u)
  PROVE  DeliveryInv'
<1> USE DEF DeliveryInv
<1>1. PICK i \in AcceptedVersions :
        deliveries' = Append(deliveries, [proposal |-> i, package |-> proposals[i].package])
  BY DEF ProposeDelivery
<1> DEFINE new == [proposal |-> i, package |-> proposals[i].package]
           last == Len(deliveries) + 1
<1>2. i \in DOMAIN proposals /\ i \in Nat /\ proposals[i] \in Proposal
      /\ proposals[i].status = "accepted"
  BY DEF AcceptedVersions, TypeOK
<1>3. new \in Delivery
  BY <1>2 DEF Delivery, Proposal
<1>4. deliveries \in Seq(Delivery) /\ Len(deliveries) \in Nat
  BY DEF DeliveryTypeOK
<1>5. /\ deliveries' \in Seq(Delivery)
      /\ DOMAIN deliveries' = DOMAIN deliveries \cup {last}
      /\ \A d \in DOMAIN deliveries : d # last /\ deliveries'[d] = deliveries[d]
      /\ deliveries'[last] = new
      /\ Len(deliveries') = last
  <2> HIDE DEF new
  <2>1. deliveries' = Append(deliveries, new)
    BY <1>1 DEF new
  <2>2. QED
    BY <1>3, <1>4, <2>1, Appended
<1>6. UNCHANGED <<proposals, acceptances>> /\ delivery' = last /\ recipient_acceptance' = 0
  BY DEF ProposeDelivery, AcceptanceOfNew
<1>7. TypeOK'
  BY DEF TypeOK, ProposeDelivery, Touch, taskVars
<1>8. DeliveryTypeOK'
  BY <1>4, <1>5, <1>6 DEF DeliveryTypeOK
<1>9. DeliveredIsAccepted'
  BY <1>2, <1>5, <1>6 DEF DeliveredIsAccepted
<1>10. Summarised'
  <2>1. IsLast(CurrentDelivery, 0)'
    BY <1>5, <1>6 DEF IsLast, CurrentDelivery, DeliveredIsAccepted
  <2>2. QED
    BY <1>5, <1>6, <2>1 DEF Summarised, CurrentDelivery
<1>11. QED
  BY <1>7, <1>8, <1>9, <1>10

LEMMA RecordKeeps ==
  ASSUME DeliveryInv, NEW u \in Users, NEW d \in DOMAIN deliveries, RecordAcceptance(u, d)
  PROVE  DeliveryInv'
<1> USE DEF DeliveryInv
<1>0. PICK last \in Nat : last = Len(acceptances) + 1
  BY DEF DeliveryTypeOK
<1> DEFINE new == [delivery |-> d, proposal |-> deliveries[d].proposal, status |-> "accepted"]
<1>1. new \in Acceptance /\ new.delivery = d /\ new.proposal = deliveries[d].proposal
      /\ new.status = "accepted"
  <2>1. d \in Nat /\ deliveries[d] \in Delivery
    BY DEF DeliveryTypeOK
  <2>2. deliveries[d].proposal \in Nat
    BY <2>1 DEF Delivery
  <2>3. QED
    BY <2>1, <2>2 DEF Acceptance
<1>2. acceptances \in Seq(Acceptance) /\ Len(acceptances) \in Nat
  BY DEF DeliveryTypeOK
<1>3. acceptances' = Append(acceptances, new)
  BY DEF RecordAcceptance
<1> HIDE DEF new
<1>4. /\ acceptances' \in Seq(Acceptance)
      /\ DOMAIN acceptances' = DOMAIN acceptances \cup {last}
      /\ \A a \in DOMAIN acceptances :
           a # last /\ a <= Len(acceptances) /\ acceptances'[a] = acceptances[a]
      /\ acceptances'[last] = new
  BY <1>0, <1>1, <1>2, <1>3, Appended
<1>5. UNCHANGED <<proposals, deliveries, delivery>>
  BY DEF RecordAcceptance
<1>6. TypeOK'
  BY DEF TypeOK, RecordAcceptance, taskVars
<1>7. DeliveryTypeOK'
  BY <1>2, <1>4, <1>5 DEF DeliveryTypeOK, RecordAcceptance
<1>8. DeliveredIsAccepted'
  BY <1>1, <1>4, <1>5 DEF DeliveredIsAccepted
<1>9. Summarised'
  <2>1. CASE d = CurrentDelivery
    <3>1. IsLast(CurrentDelivery, last)'
      BY <1>0, <1>1, <1>2, <1>4, <1>5, <2>1 DEF IsLast, CurrentDelivery, DeliveryTypeOK
    <3>2. recipient_acceptance' = last
      BY <1>0, <2>1 DEF RecordAcceptance, SpeaksForTask
    <3>3. last # 0 /\ acceptances'[last].status = "accepted"
      BY <1>0, <1>1, <1>2, <1>4
    <3>4. QED
      BY <1>5, <3>1, <3>2, <3>3 DEF Summarised, CurrentDelivery
  <2>2. CASE d # CurrentDelivery
    <3>1. recipient_acceptance' = recipient_acceptance
      BY <2>2 DEF RecordAcceptance, SpeaksForTask
    <3>2. PICK a \in Nat :
            /\ IsLast(CurrentDelivery, a)
            /\ recipient_acceptance =
                 IF a # 0 /\ acceptances[a].status = "accepted" THEN a ELSE 0
      BY DEF Summarised
    <3>3. IsLast(CurrentDelivery, a)'
      BY <1>1, <1>4, <1>5, <2>2, <3>2 DEF IsLast, CurrentDelivery
    <3>4. a # 0 => acceptances'[a] = acceptances[a]
      BY <1>4, <3>2 DEF IsLast
    <3>5. QED
      BY <1>5, <3>1, <3>2, <3>3, <3>4 DEF Summarised, CurrentDelivery
  <2>3. QED
    BY <2>1, <2>2
<1>10. QED
  BY <1>6, <1>7, <1>8, <1>9

LEMMA WithdrawKeeps ==
  ASSUME DeliveryInv, NEW u \in Users, NEW a \in DOMAIN acceptances, WithdrawAcceptance(u, a)
  PROVE  DeliveryInv'
<1> USE DEF DeliveryInv
<1> DEFINE new == [acceptances[a] EXCEPT !.status = "withdrawn"]
<1>1. new \in Acceptance /\ new.status = "withdrawn"
      /\ new.delivery = acceptances[a].delivery /\ new.proposal = acceptances[a].proposal
  <2>1. acceptances[a] \in Acceptance
    BY DEF DeliveryTypeOK
  <2>2. QED
    BY <2>1 DEF Acceptance
<1>2. acceptances' = [acceptances EXCEPT ![a] = new]
  BY DEF WithdrawAcceptance
<1> HIDE DEF new
<1>3. /\ acceptances' \in Seq(Acceptance)
      /\ DOMAIN acceptances' = DOMAIN acceptances
      /\ acceptances'[a] = new
      /\ \A b \in DOMAIN acceptances : b # a => acceptances'[b] = acceptances[b]
  BY <1>1, <1>2 DEF DeliveryTypeOK
<1>4. UNCHANGED <<proposals, deliveries, delivery>>
  BY DEF WithdrawAcceptance
<1>5. TypeOK'
  BY DEF TypeOK, WithdrawAcceptance, taskVars
<1>6. DeliveryTypeOK'
  BY <1>3, <1>4 DEF DeliveryTypeOK, WithdrawAcceptance
<1>7. DeliveredIsAccepted'
  BY <1>1, <1>3, <1>4 DEF DeliveredIsAccepted
<1>8. Summarised'
  <2>1. PICK c \in Nat :
          /\ IsLast(CurrentDelivery, c)
          /\ recipient_acceptance =
               IF c # 0 /\ acceptances[c].status = "accepted" THEN c ELSE 0
    BY DEF Summarised
  <2>2. IsLast(CurrentDelivery, c)'
    BY <1>1, <1>3, <1>4, <2>1 DEF IsLast, CurrentDelivery
  <2>3. recipient_acceptance' = IF recipient_acceptance = a THEN 0 ELSE recipient_acceptance
    BY DEF WithdrawAcceptance
  <2>4. a # 0
    BY DEF DeliveryTypeOK
  <2>5. recipient_acceptance' =
          IF c # 0 /\ acceptances'[c].status = "accepted" THEN c ELSE 0
    BY <1>1, <1>3, <2>1, <2>3, <2>4 DEF IsLast
  <2>6. QED
    BY <1>4, <2>1, <2>2, <2>5 DEF Summarised, CurrentDelivery
<1>9. QED
  BY <1>5, <1>6, <1>7, <1>8

LEMMA DeliveryInvariant == DeliverySpec => []DeliveryInv
<1>1. DeliveryInit => DeliveryInv
  BY InitType DEF DeliveryInit, DeliveryInv, DeliveryTypeOK, DeliveredIsAccepted, Summarised,
                  CurrentDelivery, IsLast
<1>2. DeliveryInv /\ [DeliveryNext]_allVars => DeliveryInv'
  BY ReviewKeepsDeliveries, ProposeKeeps, RecordKeeps, WithdrawKeeps
     DEF DeliveryNext, DeliveryStep, allVars
<1>3. QED
  BY <1>1, <1>2, PTL DEF DeliverySpec

(* What was handed over stays an accepted version with its assignment.     *)
THEOREM DeliveredStaysAccepted == DeliverySpec => []DeliveredIsAccepted
<1>1. DeliveryInv => DeliveredIsAccepted
  BY DEF DeliveryInv
<1>2. QED
  BY <1>1, DeliveryInvariant, PTL

(* The task always names its newest delivery and the last acceptance of    *)
(* it, though a withdrawal acts on what it read before the lock.           *)
THEOREM SummaryStaysCurrent == DeliverySpec => []SummaryIsCurrent
<1>1. DeliveryInv => SummaryIsCurrent
  BY SummarisedIsCurrent DEF DeliveryInv
<1>2. QED
  BY <1>1, DeliveryInvariant, PTL
=============================================================================
