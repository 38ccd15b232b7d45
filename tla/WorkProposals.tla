--------------------------- MODULE WorkProposals ----------------------------
(***************************************************************************)
(* The work proposals of one project (work_proposal_service; TT-19, TT-20  *)
(* and ADR-024): an external source proposes work, a repeat or a new       *)
(* revision of the basis becomes another version of the same proposal, and *)
(* a manager decides.                                                      *)
(*                                                                         *)
(* Imports and decisions lock the row of the proposal and commit once, so  *)
(* each is one action, except the decision to create a task: create_task   *)
(* commits in the middle and lets the lock go.  The rest of the decision   *)
(* then writes, in a second transaction, the columns that differ from the  *)
(* row as it was read under the first lock.  It may also never come.       *)
(*                                                                         *)
(* What the task of a proposal rests on changes in other hands as well:    *)
(* people add and remove its bases and delete the task, the registry       *)
(* reports a new current revision, a manager moves the basis to it         *)
(* (portfolio_service, task_service).  These hold the lock of the task or  *)
(* write one row, and commit once.                                         *)
(***************************************************************************)
EXTENDS Naturals, Sequences, FiniteSets

CONSTANTS
  Keys,            \* project, stage, work kind, basis identity, work_scope_key
  Objects, BasisObject,   \* the basis object each key names
  Revisions, None,
  Requests,        \* requests served at the same time
  ExistingTasks,   \* tasks of the project that proposals may be linked to
  MaxTasks, MaxWork   \* bounds

ASSUME WorkProposalsAssumption ==
  /\ BasisObject \in [Keys -> Objects]
  /\ None \notin Keys /\ None \notin Revisions /\ None \notin Nat
  /\ ExistingTasks \in Nat /\ MaxTasks \in Nat /\ MaxWork \in Nat

VARIABLES
  proposals,   \* work_proposals
  versions,    \* work_proposal_versions
  tasks,       \* tasks by id, with the basis `cause` for each object and its assessments
  creating,    \* what a decision to create a task still has to write
  decided,     \* history: the version that was current when the last decision was complete
  work         \* a bound: how often others have changed tasks

vars == <<proposals, versions, tasks, creating, decided, work>>

Taken == {"converted", "linked"}

Status == {"open", "deferred", "rejected", "merged"} \cup Taken

Absent == [status |-> "absent"]
Proposal == [status : Status, task_id : Nat \cup {None}, merged_into : Keys \cup {None},
             current_version : Nat, updated : BOOLEAN]

Version == [version : Nat, basis_revision : Revisions]

\* History: the proposal the task was made for, the revisions it has rested on, the objects
\* whose basis a person removed.
Task == [made_for : Keys \cup {None}, cause : [Objects -> Revisions \cup {None}],
         assessed : [Objects -> SUBSET Revisions], deleted : BOOLEAN,
         rested : [Objects -> SUBSET Revisions], dropped : SUBSET Objects]

NoDecision == [key |-> None]
Creating == {NoDecision} \cup
            [key : Keys, task : Nat, revision : Revisions, current : Nat, updated : BOOLEAN]

TypeOK ==
  /\ proposals \in [Keys -> Proposal \cup {Absent}]
  /\ versions \in [Keys -> SUBSET Version]
  /\ tasks \in Seq(Task)
  /\ creating \in [Requests -> Creating]
  /\ decided \in [Keys -> Nat]
  /\ work \in 0 .. MaxWork
  /\ \A k \in Keys : proposals[k] # Absent => proposals[k].merged_into # k

NewTask(k) == [made_for |-> k, cause |-> [o \in Objects |-> None],
               assessed |-> [o \in Objects |-> {}], deleted |-> FALSE,
               rested |-> [o \in Objects |-> {}], dropped |-> {}]

Init ==
  /\ proposals = [k \in Keys |-> Absent]
  /\ versions = [k \in Keys |-> {}]
  /\ tasks = [t \in 1 .. ExistingTasks |-> NewTask(None)]
  /\ creating = [w \in Requests |-> NoDecision]
  /\ decided = [k \in Keys |-> 0]
  /\ work = 0

Proposed(k) == proposals[k] # Absent

-----------------------------------------------------------------------------
(* Import.                                                                 *)

Known(k, r) == \E v \in versions[k] : v.basis_revision = r

NewProposal == [status |-> "open", task_id |-> None, merged_into |-> None,
                current_version |-> 0, updated |-> FALSE]

\* Slip: only a final decision can be out of date.
OutdatedIfFinal(status) == status \notin {"open", "deferred"}

\* A deferred proposal has been decided, too.
OutdatedBy(status) == status # "open"

WithVersion(p) ==
  [p EXCEPT !.current_version = @ + 1, !.updated = @ \/ OutdatedBy(p.status)]

\* ensure_assessment, for one task
Assessed(task, o, r) ==
  IF task.deleted \/ task.cause[o] \in {None, r} THEN task
  ELSE [task EXCEPT !.assessed[o] = @ \cup {r}]

\* Slip: the task that was created for the proposal is forgotten.
ImpactIfLinked(p, o, r) ==
  IF p.status # "linked" THEN tasks
  ELSE [tasks EXCEPT ![p.task_id] = Assessed(@, o, r)]

\* _impact_for_task
Impact(p, o, r) ==
  IF p.task_id = None THEN tasks
  ELSE [tasks EXCEPT ![p.task_id] = Assessed(@, o, r)]

\* A revision that is known changes nothing.
ImportProposal(k, r) ==
  LET p == IF Proposed(k) THEN proposals[k] ELSE NewProposal
  IN  /\ ~Known(k, r)
      /\ proposals' = [proposals EXCEPT ![k] = WithVersion(p)]
      /\ versions' = [versions EXCEPT ![k] = @ \cup
           {[version |-> p.current_version + 1, basis_revision |-> r]}]
      /\ tasks' = Impact(p, BasisObject[k], r)
      /\ UNCHANGED <<creating, decided, work>>

-----------------------------------------------------------------------------
(* Decision.                                                               *)

\* FINAL
Final(status) == status \in Taken \cup {"rejected", "merged"}

\* Slip: what was merged may be decided again.
MayDecideMerged(k) == Proposed(k) /\ proposals[k].status \notin Taken \cup {"rejected"}

\* WORK_PROPOSAL_ALREADY_DECIDED
MayDecide(k) == Proposed(k) /\ ~Final(proposals[k].status)

CurrentRevision(k) ==
  (CHOOSE v \in versions[k] : v.version = proposals[k].current_version).basis_revision

Pinned(task, o, r) == [task EXCEPT !.cause[o] = r, !.rested[o] = @ \cup {r}]

\* _cause_basis
Caused(ts, t, o, r) ==
  IF ts[t].cause[o] # None THEN ts ELSE [ts EXCEPT ![t] = Pinned(@, o, r)]

Decide(k, p) ==
  /\ MayDecide(k)
  /\ proposals' = [proposals EXCEPT ![k] = [p EXCEPT !.updated = FALSE]]
  /\ decided' = [decided EXCEPT ![k] = proposals[k].current_version]

\* Slip: linking leaves the basis of the task to its author.
LinkedOnly(k, t) == tasks

LinkedTasks(k, t) == Caused(tasks, t, BasisObject[k], CurrentRevision(k))

Link(k, t) ==
  /\ ~tasks[t].deleted
  /\ Decide(k, [proposals[k] EXCEPT !.status = "linked", !.task_id = t])
  /\ tasks' = LinkedTasks(k, t)
  /\ UNCHANGED <<versions, creating, work>>

\* Slip: a proposal may be merged into itself.
AnyProposal(k) == {j \in Keys : Proposed(j)}

\* MERGE_TARGET_REQUIRED
MergeTargets(k) == {j \in Keys : Proposed(j)} \ {k}

Merge(k, target) ==
  /\ target \in MergeTargets(k)
  /\ Decide(k, [proposals[k] EXCEPT !.status = "merged", !.merged_into = target])
  /\ UNCHANGED <<versions, tasks, creating, work>>

PutAside(k, status) ==
  /\ status \in {"deferred", "rejected"}
  /\ Decide(k, [proposals[k] EXCEPT !.status = status])
  /\ UNCHANGED <<versions, tasks, creating, work>>

\* decide, up to the commit of create_task.
CreateTask(w, k) ==
  /\ creating[w] = NoDecision
  /\ MayDecide(k)
  /\ Len(tasks) < MaxTasks
  /\ tasks' = Append(tasks, NewTask(k))
  /\ creating' = [creating EXCEPT ![w] =
       [key |-> k, task |-> Len(tasks) + 1, revision |-> CurrentRevision(k),
        current |-> proposals[k].current_version, updated |-> proposals[k].updated]]
  /\ UNCHANGED <<proposals, versions, decided, work>>

\* Slip: the row is written as it was read.
WholeRow(p, c) ==
  [p EXCEPT !.status = "converted", !.task_id = c.task,
            !.current_version = c.current, !.updated = FALSE]

\* The columns that differ from what was read.
Converted(p, c) ==
  [p EXCEPT !.status = "converted", !.task_id = c.task,
            !.updated = IF c.updated THEN FALSE ELSE @]

\* decide, after create_task.
FinishCreate(w) ==
  LET c == creating[w]
  IN  /\ c # NoDecision
      /\ proposals' = [proposals EXCEPT ![c.key] = Converted(@, c)]
      /\ tasks' = Caused(tasks, c.task, BasisObject[c.key], c.revision)
      /\ decided' = [decided EXCEPT ![c.key] = proposals[c.key].current_version]
      /\ creating' = [creating EXCEPT ![w] = NoDecision]
      /\ UNCHANGED <<versions, work>>

\* The process dies, or the second transaction fails.
Crash(w) ==
  /\ creating[w] # NoDecision
  /\ creating' = [creating EXCEPT ![w] = NoDecision]
  /\ UNCHANGED <<proposals, versions, tasks, decided, work>>

-----------------------------------------------------------------------------
(* What others do to the task.                                             *)

Apart ==
  /\ work < MaxWork /\ work' = work + 1
  /\ UNCHANGED <<proposals, versions, creating, decided>>

Change(t, task) ==
  /\ ~tasks[t].deleted
  /\ tasks' = [tasks EXCEPT ![t] = task]
  /\ Apart

\* BASIS_EXISTS
AddBasis(t, o, r) ==
  /\ tasks[t].cause[o] = None
  /\ Change(t, Pinned(tasks[t], o, r))

\* The assessments of the basis go with it.
RemoveBasis(t, o) ==
  /\ tasks[t].cause[o] # None
  /\ Change(t, [tasks[t] EXCEPT !.cause[o] = None, !.assessed[o] = {}, !.dropped = @ \cup {o}])

\* decide_assessment: reissue or recheck.  That the assessment awaits its decision was read
\* before the lock of the task; it may have been decided since.
MoveBasis(t, o, r) ==
  /\ tasks[t].cause[o] # None /\ r \in tasks[t].assessed[o]
  /\ Change(t, Pinned(tasks[t], o, r))

DeleteTask(t) == Change(t, [tasks[t] EXCEPT !.deleted = TRUE])

\* on_current_changed
CurrentChanged(o, r) ==
  /\ tasks' = [t \in DOMAIN tasks |-> Assessed(tasks[t], o, r)]
  /\ Apart

-----------------------------------------------------------------------------
Decision(k) ==
  \/ \E t \in DOMAIN tasks : Link(k, t)
  \/ \E j \in Keys : Merge(k, j)
  \/ \E status \in Status : PutAside(k, status)
  \/ \E w \in Requests : CreateTask(w, k)

BasisWork(t, o) ==
  \/ RemoveBasis(t, o)
  \/ \E r \in Revisions : AddBasis(t, o, r) \/ MoveBasis(t, o, r)

TaskWork ==
  \/ \E t \in DOMAIN tasks : DeleteTask(t) \/ \E o \in Objects : BasisWork(t, o)
  \/ \E o \in Objects, r \in Revisions : CurrentChanged(o, r)

Next ==
  \/ \E k \in Keys : (\E r \in Revisions : ImportProposal(k, r)) \/ Decision(k)
  \/ \E w \in Requests : FinishCreate(w) \/ Crash(w)
  \/ TaskWork

Spec == Init /\ [][Next]_vars

-----------------------------------------------------------------------------
(* Properties.                                                             *)

(* The versions of a proposal are numbered without gaps up to the current  *)
(* one, each for another revision, though a decision that began on an      *)
(* older row is written over the imports that came in between.             *)
VersionsNumbered ==
  \A k \in Keys :
    /\ \A v, u \in versions[k] :
         v # u => v.version # u.version /\ v.basis_revision # u.basis_revision
    /\ Proposed(k) =>
         {v.version : v \in versions[k]} = 1 .. proposals[k].current_version

(* A proposal says it has become work, by its status, exactly if it names  *)
(* the task, whichever decisions on it overlapped; and that task rests on  *)
(* what was proposed until a person takes the basis away: no guard keeps   *)
(* the basis of a proposal.                                                *)
TakenHasTask ==
  \A k \in Keys : Proposed(k) =>
    /\ (proposals[k].status \in Taken) <=> (proposals[k].task_id # None)
    /\ proposals[k].status \in Taken =>
         /\ proposals[k].task_id \in DOMAIN tasks
         /\ LET task == tasks[proposals[k].task_id]
            IN  task.cause[BasisObject[k]] = None => BasisObject[k] \in task.dropped

Newer(k) == {v \in versions[k] : v.version > decided[k]}

(* A version that arrives after a decision is shown to the manager, even   *)
(* if the decision was written over the imports and the other decisions    *)
(* that came between its two commits.  A version that itself came between  *)
(* them counts as decided: the code does not show it.                      *)
NewVersionIsShown ==
  \A k \in Keys :
    Proposed(k) /\ proposals[k].status # "open" /\ Newer(k) # {} => proposals[k].updated

(* Each version after the decision that made or named the task leads to an *)
(* assessment on the task, unless the task has rested on that revision, a  *)
(* person removed the basis or the task was deleted.  No decision on the   *)
(* assessments, move of the basis or change of the registry takes one back.*)
UpdatesReachTask ==
  \A k \in Keys : Proposed(k) /\ proposals[k].status \in Taken =>
    LET task == tasks[proposals[k].task_id]
        o == BasisObject[k]
    IN  task.deleted \/ o \in task.dropped \/
          \A v \in Newer(k) : v.basis_revision \in task.assessed[o] \cup task.rested[o]

(* A final decision stands, whatever is imported or decided later; only a  *)
(* task that was being created when the decision was taken overrides it.   *)
FinalStands ==
  [][\A k \in Keys : Proposed(k) /\ Final(proposals[k].status) =>
       \/ proposals'[k].status = proposals[k].status
       \/ \E w \in Requests : creating[w].key = k /\ proposals'[k].status = "converted"]_vars

(* TT-20: a repeat creates no second task.                                 *)
OneTaskPerProposal ==
  \A t, u \in DOMAIN tasks :
    tasks[t].made_for # None /\ tasks[t].made_for = tasks[u].made_for => t = u
=============================================================================
