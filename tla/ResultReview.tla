---------------------------- MODULE ResultReview ----------------------------
(***************************************************************************)
(* One task of TaskTrack and the people around it: the assignee presents   *)
(* result proposals, reviewers judge them, managers reassign, designate,   *)
(* move and delete the task and change the membership of its project.      *)
(*                                                                         *)
(* Every handler that writes the task first takes its row FOR UPDATE and   *)
(* re-reads it under the lock, so the handlers of one task follow one      *)
(* another.  The caller's membership is read once, under the lock, and no  *)
(* membership change reads or writes a task: a handler takes effect at     *)
(* that read, and is one action here.                                      *)
(***************************************************************************)
EXTENDS ResultStates, FiniteSets

CONSTANTS
  Users,           \* accounts
  NoUser,          \* the NULL of assignee_id and reviewer_id
  Owner,           \* reporter of the task
  InitialAssignee, \* assignee given when the task was created
  InitialMembers,  \* role and reviewer profile of each user at the start
  Shifting,        \* users whose membership changes, and the memberships they
  Memberships,     \* may be given: bounds of the model
  Criteria,        \* keys of acceptance criteria
  Transitions,     \* <<from, to, required_role>> of the task's workflow
  RequiresReview,  \* TaskType.requires_review
  MaxProposals, MaxPackages, MaxVersion,  \* bounds of the model, and the
  Edited           \* versions a client that edits the task may have read

Categories == {"initial", "intermediate", "final"}
Roles == {"none", "viewer", "member", "manager"}   \* "none": no membership row
Member == [role : Roles, is_reviewer : BOOLEAN]

ASSUME ConstantsAssumption ==
  /\ Owner \in Users /\ Shifting \subseteq Users
  /\ InitialMembers \in [Users -> Member] /\ Memberships \subseteq Member
  /\ NoUser \notin Users /\ InitialAssignee \in Users \cup {NoUser}
  /\ Transitions \subseteq Categories \X Categories \X {"member", "manager"}
  /\ RequiresReview \in BOOLEAN
  /\ {MaxProposals, MaxPackages, MaxVersion} \subseteq Nat \ {0}
  /\ Edited \subseteq Nat

VARIABLES
  members,         \* project_members: role and reviewer profile of each user
  assignee_id, reviewer_id,
  current_status,  \* category of Task.current_status_id
  result_state,    \* stored summary of the proposals
  version,         \* optimistic-lock counter of the task
  deleted,         \* Task.deleted_at is set
  packages,        \* required criteria of each issued WorkPackage version
  proposals,       \* ResultProposal rows by version
  reviews          \* Review rows, with the assignee and designation they met

taskVars == <<assignee_id, reviewer_id, current_status, deleted>>
vars == <<members, taskVars, result_state, version, packages, proposals,
          reviews>>

Person == Users \cup {NoUser}

\* `package` and `supersedes` are versions, 0 for none.
Proposal == [author : Users, package : Nat, required : SUBSET Criteria,
             supersedes : Nat, status : ProposalStatus]

Review == [proposal : Nat, reviewer : Users, verdict : Verdicts,
           met : SUBSET Criteria, assignee : Person, designated : Person]

TypeOK ==
  /\ members \in [Users -> Member]
  /\ assignee_id \in Person
  /\ reviewer_id \in Person
  /\ current_status \in Categories
  /\ result_state \in ResultStateSet
  /\ version \in Nat
  /\ deleted \in BOOLEAN
  /\ packages \in Seq(SUBSET Criteria)
  /\ proposals \in Seq(Proposal)
  /\ reviews \subseteq Review

-----------------------------------------------------------------------------
IsWriter(m)  == m.role \in {"member", "manager"}
IsManager(m) == m.role = "manager"

\* Slip: the migration keeps the comment's label as the status.
HistoricalAsLabelled(u) ==
  [author |-> u, package |-> 0, required |-> {}, supersedes |-> 0,
   status |-> "solution"]

\* A `solution` comment carried over by the data migration.
Historical(u) == [author |-> u, package |-> 0, required |-> {},
                  supersedes |-> 0, status |-> "historical"]

Init ==
  /\ members = InitialMembers
  /\ assignee_id = InitialAssignee
  /\ reviewer_id = NoUser
  /\ current_status = "initial"
  /\ proposals \in {<<>>, <<Historical(Owner)>>}
  /\ result_state = IF proposals = <<>> THEN "none" ELSE "historical"
  /\ version = 1
  /\ deleted = FALSE
  /\ packages = <<>>
  /\ reviews = {}

-----------------------------------------------------------------------------
(* Handlers of the task: get_task(for_update=True), then the membership.   *)

\* get_task: a deleted task, or a project u does not see, is not found.
CanRead(u)   == ~deleted /\ members[u].role # "none"
CanWrite(u)  == ~deleted /\ IsWriter(members[u])
CanManage(u) == ~deleted /\ IsManager(members[u])

\* Slip: the statuses are read before the handler's own change is flushed.
RecomputeUnflushed ==
  /\ result_state' = ResultOf({proposals[i].status : i \in DOMAIN proposals})
  /\ version' = IF result_state' = result_state THEN version ELSE version + 1

\* Slip: a new summary does not count as a change of the task.
RecomputeSilently ==
  /\ result_state' = ResultOf({proposals'[i].status : i \in DOMAIN proposals'})
  /\ version' = version

\* _recompute_state: the summary follows the proposals, and a change of it
\* is a change of the task.
RecomputeState ==
  /\ result_state' = ResultOf({proposals'[i].status : i \in DOMAIN proposals'})
  /\ version' = IF result_state' = result_state THEN version ELSE version + 1

Touch == version < MaxVersion /\ version' = version + 1

-----------------------------------------------------------------------------
(* Proposals and reviews (result_service).                                 *)

\* Slip: any version that speaks for the task may be replaced.
ReplaceableAnything(i) == proposals[i].status # "withdrawn"

\* What supersedes_id may name (PROPOSAL_NOT_SUPERSEDABLE otherwise).
Replaceable(i) == proposals[i].status \in Supersedable

\* Slip: a version sent back may be judged or withdrawn again.
AwaitsAnotherReview(i) == proposals[i].status \in Supersedable

\* Slip: a version that has been replaced still may.
AwaitsReviewStill(i) == proposals[i].status \in {"submitted", "superseded"}

\* Only an open version may be judged or withdrawn.
AwaitsReview(i) == proposals[i].status = "submitted"

\* The package a proposal is pinned to: the current one or an explicit one.
PackageChoice == IF packages = <<>> THEN {0} ELSE DOMAIN packages

SubmitProposal(u, package, claimed, previous) ==
  /\ CanWrite(u)
  /\ u = assignee_id
  /\ Len(proposals) < MaxProposals /\ version < MaxVersion
  /\ package \in PackageChoice
  /\ previous # 0 => Replaceable(previous)
  /\ LET new == [author |-> u, package |-> package,
                 required |-> IF package = 0 THEN claimed ELSE packages[package],
                 supersedes |-> previous, status |-> "submitted"]
         kept == IF previous = 0 THEN proposals
                 ELSE [proposals EXCEPT ![previous].status = "superseded"]
     IN  proposals' = Append(kept, new)
  /\ RecomputeState
  /\ UNCHANGED <<members, taskVars, packages, reviews>>

WithdrawProposal(u, i) ==
  /\ CanRead(u)
  /\ version < MaxVersion
  /\ proposals[i].author = u
  /\ AwaitsReview(i)
  /\ proposals' = [proposals EXCEPT ![i].status = "withdrawn"]
  /\ RecomputeState
  /\ UNCHANGED <<members, taskVars, packages, reviews>>

\* Slip: only the assignee of the moment is kept from reviewing.
MayReviewOwn(u, i) ==
  /\ CanWrite(u)
  /\ u # assignee_id
  /\ members[u].is_reviewer
  /\ reviewer_id \in {NoUser, u}

\* _require_reviewer
MayReview(u, i) ==
  /\ CanWrite(u)
  /\ u \notin {proposals[i].author, assignee_id}
  /\ members[u].is_reviewer
  /\ reviewer_id \in {NoUser, u}

ReviewProposal(u, i, verdict, met) ==
  /\ version < MaxVersion
  /\ MayReview(u, i)
  /\ AwaitsReview(i)
  /\ proposals[i].package = 0 => met \subseteq proposals[i].required
  /\ verdict = "accepted" => proposals[i].required \subseteq met
  /\ reviews' = reviews \cup
       {[proposal |-> i, reviewer |-> u, verdict |-> verdict, met |-> met,
         assignee |-> assignee_id, designated |-> reviewer_id]}
  /\ proposals' = [proposals EXCEPT ![i].status = verdict]
  /\ RecomputeState
  /\ UNCHANGED <<members, taskVars, packages>>

\* Slip: the query forgets deleted tasks.
InQueueDeleted(u, i) ==
  /\ members[u].is_reviewer /\ members[u].role \notin {"viewer", "none"}
  /\ AwaitsReview(i)
  /\ proposals[i].author # u
  /\ assignee_id = NoUser \/ assignee_id # u
  /\ reviewer_id = NoUser \/ reviewer_id = u

\* review_queue: what GET /review-queue shows to u.
InQueue(u, i) ==
  /\ members[u].is_reviewer /\ members[u].role \notin {"viewer", "none"}
  /\ AwaitsReview(i)
  /\ proposals[i].author # u
  /\ ~deleted
  /\ assignee_id = NoUser \/ assignee_id # u
  /\ reviewer_id = NoUser \/ reviewer_id = u

-----------------------------------------------------------------------------
(* The task itself (task_service, work_package_service).                   *)

\* validate_designated_reviewer, against the assignee of the same request.
MayDesignate(u, r, assignee) ==
  /\ CanManage(u)
  /\ r # NoUser => /\ members[r].role # "none"
                   /\ members[r].is_reviewer
                   /\ r # assignee

\* PATCH /tasks: the client names the version it read.
UpdateTask(u, expected, assignee, reviewer) ==
  /\ CanWrite(u)
  /\ expected = version
  /\ reviewer # reviewer_id => MayDesignate(u, reviewer, assignee)
  /\ assignee_id' = assignee
  /\ reviewer_id' = reviewer
  /\ Touch
  /\ UNCHANGED <<members, current_status, deleted, result_state, packages,
                 proposals, reviews>>

\* Slip: any presented result opens the gate.
MayEnterPresented(to) == RequiresReview /\ to = "final" => result_state # "none"

\* POST /tasks/{id}/transition: the gate of a reviewed task type.
MayEnter(to) ==
  RequiresReview /\ to = "final" => result_state \in ReviewedStates

TransitionStatus(u, to) ==
  /\ CanWrite(u)
  /\ u = assignee_id \/ CanManage(u)
  /\ \E role \in {"member", "manager"} :
       /\ <<current_status, to, role>> \in Transitions
       /\ role = "manager" => CanManage(u)
  /\ MayEnter(to)
  /\ current_status' = to
  /\ Touch
  /\ UNCHANGED <<members, assignee_id, reviewer_id, deleted, result_state,
                 packages, proposals, reviews>>

DeleteTask(u) ==
  /\ CanWrite(u)
  /\ deleted' = TRUE
  /\ UNCHANGED <<members, assignee_id, reviewer_id, current_status, result_state,
                 version, packages, proposals, reviews>>

\* issue: the reporter or a manager fixes a new version of the assignment.
IssuePackage(u, required) ==
  /\ CanWrite(u)
  /\ u = Owner \/ CanManage(u)
  /\ Len(packages) < MaxPackages
  /\ packages' = Append(packages, required)
  /\ Touch
  /\ UNCHANGED <<members, taskVars, result_state, proposals, reviews>>

-----------------------------------------------------------------------------
(* Membership (result_service.update_member, project_service).  None of    *)
(* these takes the task's lock.                                            *)

UpdateMember(manager, u, membership) ==
  /\ IsManager(members[manager])
  /\ members[u].role # "none" /\ membership.role # "none"
  /\ members' = [members EXCEPT ![u] = membership]
  /\ UNCHANGED <<taskVars, result_state, version, packages, proposals, reviews>>

AddMember(manager, u, role) ==
  /\ IsManager(members[manager])
  /\ members[u].role = "none" /\ role # "none"
  /\ members' = [members EXCEPT ![u] = [role |-> role, is_reviewer |-> FALSE]]
  /\ UNCHANGED <<taskVars, result_state, version, packages, proposals, reviews>>

RemoveMember(manager, u) ==
  /\ IsManager(members[manager])
  /\ members[u].role # "none"
  /\ members' = [members EXCEPT ![u] = [role |-> "none", is_reviewer |-> FALSE]]
  /\ UNCHANGED <<taskVars, result_state, version, packages, proposals, reviews>>

-----------------------------------------------------------------------------
ProposalStep(u) ==
  \/ \E package \in 0 .. MaxPackages, claimed \in SUBSET Criteria,
        previous \in {0} \cup DOMAIN proposals :
       SubmitProposal(u, package, claimed, previous)
  \/ \E i \in DOMAIN proposals : WithdrawProposal(u, i)
  \/ \E i \in DOMAIN proposals, verdict \in Verdicts, met \in SUBSET Criteria :
       ReviewProposal(u, i, verdict, met)

TaskStep(u) ==
  \/ \E expected \in Edited, assignee, reviewer \in Person :
       UpdateTask(u, expected, assignee, reviewer)
  \/ \E to \in Categories : TransitionStatus(u, to)
  \/ DeleteTask(u)
  \/ \E required \in SUBSET Criteria : IssuePackage(u, required)

MemberStep ==
  \E manager \in Users, u \in Shifting :
    \/ \E membership \in Memberships :
         \/ UpdateMember(manager, u, membership)
         \/ AddMember(manager, u, membership.role)
    \/ RemoveMember(manager, u)

Next ==
  \/ \E u \in Users : ProposalStep(u) \/ TaskStep(u)
  \/ MemberStep

Spec == Init /\ [][Next]_vars

-----------------------------------------------------------------------------
(* Properties.                                                             *)

(* Task.result_state, which filters, gates and the control page read, is   *)
(* the one its proposals stand for: no handler leaves it behind.           *)
ResultStateCurrent ==
  result_state = ResultOf({proposals[i].status : i \in DOMAIN proposals})

ReviewsOf(i) == {r \in reviews : r.proposal = i}

\* The status of version i is the verdict of its only review, or a later
\* correction of what that review sent back.
CarriesVerdict(i) ==
  /\ \A r, q \in ReviewsOf(i) : r = q
  /\ proposals[i].status \in Verdicts =>
       \E r \in ReviewsOf(i) : r.verdict = proposals[i].status
  /\ \A r \in ReviewsOf(i) :
       \/ proposals[i].status = r.verdict
       \/ proposals[i].status = "superseded" /\ r.verdict = "changes_requested"

(* A verdict is the status of exactly one reviewed version, and a version  *)
(* is reviewed at most once: a retried or competing review_proposal never  *)
(* adds a second verdict, and no status is a verdict nobody gave.          *)
VerdictIsReviewed ==
  /\ \A r \in reviews : r.proposal \in DOMAIN proposals
  /\ \A i \in DOMAIN proposals : CarriesVerdict(i)

(* An accepted result has been earned: somebody who was neither its author *)
(* nor the assignee at that moment, and who was the designated reviewer if *)
(* there was one, found every required criterion of the very package the   *)
(* version was submitted for met, whatever was issued or reassigned since. *)
AcceptedIsEarned ==
  result_state = "accepted" =>
    \E r \in reviews :
      LET p == proposals[r.proposal]
      IN  /\ r.proposal \in DOMAIN proposals
          /\ r.verdict = "accepted" /\ p.status = "accepted"
          /\ r.reviewer \notin {p.author, r.assignee}
          /\ r.designated \in {NoUser, r.reviewer}
          /\ p.package # 0 => packages[p.package] \subseteq r.met

(* Corrections form chains: a version is superseded exactly when one later *)
(* version names it, so no two corrections replace the same version.       *)
SupersededOnce ==
  \A i \in DOMAIN proposals :
    LET heirs == {j \in DOMAIN proposals : proposals[j].supersedes = i}
    IN  /\ (proposals[i].status = "superseded") <=> heirs # {}
        /\ \A j, k \in heirs : j = k
        /\ \A j \in heirs : i < j

(* The review queue shows a user exactly the versions the user may review  *)
(* now: the query and _require_reviewer are two copies of one rule.        *)
QueueMatchesRule ==
  \A u \in Users, i \in DOMAIN proposals :
    InQueue(u, i) <=> AwaitsReview(i) /\ MayReview(u, i)

(* A task of a reviewed type enters a final status only with a verdict on  *)
(* record that finishes the work: an acceptance or a reasoned rejection.   *)
FinalNeedsVerdict ==
  [][RequiresReview /\ current_status # "final" /\ current_status' = "final" =>
       \E r \in reviews : r.verdict \in ReviewedStates]_vars

(* Whoever holds a version of the task holds what it says about people,    *)
(* status, result and issued assignment: none of these changes under an    *)
(* unchanged version, so an update that passes the version check           *)
(* overwrites no decision its author has not seen.                         *)
VersionTracksContent ==
  [][<<assignee_id, reviewer_id, current_status, result_state, packages>>' #
     <<assignee_id, reviewer_id, current_status, result_state, packages>>
       => version' = version + 1]_vars

\* What the service promises about results, without people and locks.
Ledger == INSTANCE ResultLedger WITH
            ledger <- [i \in DOMAIN proposals |-> proposals[i].status],
            outcome <- result_state

(* The handlers implement the ledger: every step of theirs is a step of it *)
(* or leaves it alone.                                                     *)
ImplementsLedger == Ledger!Spec

(* Acceptance is for good (ResultLedger), said of the task itself.         *)
AcceptedForGood == Ledger!AcceptedForGood
=============================================================================
