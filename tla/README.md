# TaskTrack in TLA+

TaskTrack (`src/`) is a task tracker for people and software agents: a FastAPI backend over
PostgreSQL, an MCP server over the same services, and a web client. This directory holds a
formal model of the parts of the backend whose correctness depends on the order of events:
what the modules model, what TLC checks of them on small instances, and what TLAPS proves of
them for every value of the constants.

Contents: [inventory](#inventory) · [modules](#modules-and-the-code) · [runs](#runs) ·
[bounds](#bounds) · [fairness](#fairness) · [proofs](#proofs) ·
[what is only model-checked](#only-model-checked) · [findings](#findings) ·
[not modelled](#not-modelled) · [plan](#plan)

## Inventory

Every request runs in one database session at READ COMMITTED; a service function commits at its
end. State shared by requests is in PostgreSQL, apart from the queues of live events, which are in
memory. In the table `services/` is `src/backend/app/services/`.

| Component | State | Operations | Hard behaviour | What makes it correct |
|---|---|---|---|---|
| Results and reviews (`services/result_service.py`) | proposals, reviews, `Task.result_state`, reviewer profiles; deliveries, acceptances | submit, withdraw, review, queue, deliver, accept, withdraw an acceptance | competing reviewers and authors; people change between submission and verdict | one verdict per version, earned acceptance, acceptance for good, the stored summary never stale |
| Tasks (`task_service.py`) | task row with a version counter | create, update, transition, delete | optimistic lock; review gate | nothing changes under an unchanged version; final status only with a verdict |
| Work packages (`work_package_service.py`) | drafts, issued versions | edit, issue | issued between submission and review | a verdict is judged by the pinned package |
| Membership (`permissions.py`, `project_service.py`) | roles, reviewer profile | add, change, remove | not under the task's lock | rights are those of the moment a handler reads them |
| Workflows (`workflow_service.py`) | workflows, statuses, transitions, boards, the choice for a task type | edit, migrate tasks, choose where a task starts | no lock on anything read; tasks created and moved meanwhile | nothing points at what is gone; one default, an initial status; a status is in one column of a board |
| Idempotency (`idempotency_service.py`, `api/idempotency.py`) | one row per user and key | reserve, release, complete, purge | two transactions per command, crashes, waiting duplicates, expiry | a command takes effect once; its repeats learn the truth |
| Event journal (`audit_service.py`) | `audit_events` | record, list behind a cursor | commits out of order | no gap, no duplicate, a final past |
| Work sessions (`session_service.py`) | sessions, checkpoints | claim, checkpoint, complete, release | reassignment under a session; two ends of one session; header checked before the lock | one executor; a session ends once |
| Portfolio (`portfolio_service.py`) | bases, blockers, impact assessments, links | add, remove, decide, resolve, readiness | import meets claim; a decision reads before the lock | the executor knows of every pending change; a stop holds until it is resolved |
| External registry (`external_service.py`) | objects, revisions, events, snapshots, aliases | import facts and snapshots | late, repeated and overlapping reports; no lock | current is verified, newest confirmed, events once |
| Work proposals (`work_proposal_service.py`) | proposals, versions | import, decide | `create_task` commits in the middle of a decision | versions numbered, final decisions stand, every update shown and assessed |
| Live events (`core/events.py`) | bounded queues | publish, subscribe | published after the commit; full queues | subscribers learn of every change or resynchronise |
| Control page, search, timeline, views, export, comments, links, API keys, MCP tools, start-up, web client | — | mostly reads, or single rows | duplicate links; otherwise little | — |

How they interact: all call the services of the tasks; results and packages write the task row
(version, summary); `external_service` calls `portfolio_service.on_current_changed` when a
revision becomes current, which opens assessments and writes checkpoints of sessions; proposals
of work create tasks; every service records into the journal inside its own transaction; routers
run the session guard and the idempotency guard before the service, and the middleware stores the
response after it.

`PROJECT.json` lists under `hazards` what in this code is hard to test, with the line where it
bites and the property that covers it, or the reason why none does yet.

## Modules and the code

| Module | Models | Composes |
|---|---|---|
| `ResultStates` | statuses, verdicts, the rule of `_recompute_state` | |
| `ResultLedger` | **abstract specification** of results: a ledger of versions and its outcome | `ResultStates` |
| `ResultReview` | one task: proposals, reviews, people, transitions, packages, membership | implements `ResultLedger` |
| `ReviewedClosure` | the same with the workflow editor | `ResultReview` |
| `Deliveries` | what follows an accepted result: deliveries and the recipient's acceptances | `ResultReview` |
| `Execution` | one task at work: its bases and what the registry says of them, impact assessments, blockers, readiness, sessions, the project's link | |
| `ExecutionHold` | abstract: what TT-12 promises of the executor's sessions | |
| `WorkProposals` | proposals of work: versions, decisions, the commit in the middle of one | |
| `WorkflowConfig` | workflows, statuses, transitions, boards and the choice for task types, edited while tasks run on them | |
| `Idempotency` | requests under one key, their commands, the middleware, crashes, the clock | |
| `EventFeed` | **abstract specification** of the journal: a log that grows at its end, given in ever longer beginnings | |
| `AuditJournal` | overlapping writers and a consumer behind a cursor | implements `EventFeed` |
| `ExternalRegistry` | overlapping imports of one external object | |
| `*Proofs` | theorems and proofs about the module they are named after; `ResultReviewProofs` covers `Deliveries` and `ReviewedClosure` too | the module and `TLAPS` |
| `MC*` | instances for TLC | the module |

`PROJECT.json` maps every definition to its source lines. An operator that begins "Slip:" in a
module is a plausible bug; it is used nowhere in the specification, but each property is known to
fail when the definition it imitates is replaced by it.

### ResultReview

*State.* A task's columns that matter here (`assignee_id`, `reviewer_id`, the category of
`current_status`, `result_state`, `version`, `deleted`), the issued packages (each the set of its
required criteria), the proposals by version, the reviews, and the members of the project. A review
also keeps the assignee and the designation it met: the code writes them into the journal or
forgets them; here they are history, which only properties read.

*Why a handler is one action.* Every handler that writes the task locks its row (`SELECT … FOR
UPDATE` in `get_task`) and re-reads it; `_load_proposal` re-reads the proposal under that lock. So
handlers of one task exclude each other. The caller's membership is read once, under the lock, and
the commands that change memberships neither read nor write a task: a handler can be placed at the
moment of that read, and is one action. In `ReviewedClosure` and `ExternalRegistry`, where no lock
orders the parties, steps are split as the code is.

*Actions.* `SubmitProposal`, `WithdrawProposal`, `ReviewProposal` (each with the closing
`RecomputeState`), `UpdateTask`, `TransitionStatus`, `DeleteTask`, `IssuePackage`, `UpdateMember`,
`AddMember`, `RemoveMember`. The guards are the refusals of the code, in the form of conjuncts.

*Abstractions.* The project is restricted, so reading needs a membership. The roles `admin` and
`manager` have the same rights on everything modelled and are one role. Required fields, readiness and the
decision type's wait for subtasks only refuse transitions; leaving them out allows more behaviours.
`transition_status` takes an optional version; a transition without one is always among the
behaviours. The draft of a package and the other columns of a task are not in the model, and
`VersionTracksContent` says nothing of them. Initially a task has no proposal, or the `historical`
one that the data migration made of a comment.

### Deliveries

*State.* What `ResultReview` keeps, the deliveries and acceptances in the order they were made, and the
two summaries on the task, each the row it names. *Actions.* `ProposeDelivery`, `RecordAcceptance`,
`WithdrawAcceptance`, each whole, under the task's lock, with the rise of the task's version. The
withdrawal has no guard on the status of the acceptance: the code reads it before it waits for the lock
and does not read it again, so a second withdrawal goes through. That leaves the summary right
(`SummaryIsCurrent`), since it names the acceptance it clears. The code does not go back: when the last
acceptance of a delivery is withdrawn, an earlier one that stands is not shown. Acceptances from before
deliveries existed, which a migration left without a delivery, are not in the model.

### Execution

*State.* The project's portfolio link; of each external object the current revision and its state; the
assignee; the task's bases by id, each pinned at a revision; the bases the current package pins;
blockers, assessments, sessions, notices to sessions. `request` is what each request under way has
read. `gated`, `stopped`, `acts` and `imports` are history and bounds.

*Why a handler is one action, and when not.* Handlers of the task hold its row. Three kinds of request act
on earlier reads. The end of a session finds it first, without a lock (`FindSession`), and waits for the
task; `_load_active` then reads the session again (`EndSession`, `StillActive`), without which two ends
that found it active would both be written. `decide_assessment` reads the assessment and then waits for the task
(`ReadAssessment`, `DecideAssessment`): the last of two decisions stands. An import reads the object, then
writes it and looks for the bases concerned, then inserts assessments and notices (`ReadObject`,
`UpdateObject`, `CommitImport`). The foreign key of an assessment takes the task's row FOR KEY SHARE,
which the FOR UPDATE of a handler excludes, and the active session is looked up after it; from the
insert to the commit nothing of the task moves. An import of a proposal that has become this task
(`ImportProposal`) does the same without touching the object's row.

*Readiness* is the five conditions of `readiness` (TT-11). What the registry and the clock say of the
facts behind a pin is a set that each claim may find different (`facts`). Norms of the project's
regulation, revocation, grants, freshness and the decision `continue` are translated condition by
condition.

*Abstractions.* The checkpoint an owner writes only adds a row. The same readiness also
gates the transition that leaves the initial status (`_check_ready_to_start` in `task_service`); the model has no
statuses, so `StopHolds` is about executor sessions only. Issue of a package is reduced to the
bases it pins. A removed basis takes its assessments with it, by the foreign key. The executor's
session on a task that is then deleted can never be ended, as in the code.

### WorkProposals

*State.* The proposals by their natural key, their versions, the tasks with the basis of role `cause`
and the revisions assessed for each object, and for each decision between the two commits of
`create_task` what it will still write. History, which only properties read: for each task the proposal it
was made for, the revisions it has rested on and the objects whose basis a person removed; for each
proposal the version its last decision knew.

*Actions.* `ImportProposal`, `Link`, `Merge`, `PutAside` (defer, reject)
lock the proposal's row and commit once. The decision to create a task is `CreateTask` and
`FinishCreate`, with `Crash` between them: `create_task` commits and releases the lock, and the second
transaction writes the columns whose values differ from those read under the first lock. The merge
checks the target's project only, so merges may form a cycle; no property says otherwise.

*What others do to the task* of a proposal: people add a basis (`AddBasis`) and remove it with its assessments
(`RemoveBasis`: no guard keeps the basis of a proposal), delete the task (`DeleteTask`, after which
`ensure_assessment` opens nothing), a manager reissues or rechecks and so moves the basis to
the assessed revision (`MoveBasis`), and the registry reports a current revision (`CurrentChanged`), which
opens assessments. Each commits once under the task's lock or writes one row. So `TakenHasTask` and
`UpdatesReachTask` say what is left of the promise when a person has taken the basis away.

### WorkflowConfig

*State.* The rows of workflows, statuses, transitions, views and columns by id, where Gone is a deleted
row; the workflow chosen for each task type; the pairs of column and status; the tasks. `pending` is what
each request has read and decided to write, `edits` a bound. History: `overlapped`, whether two managers'
edits ever overlapped; `crossed`, the statuses that a manager and another request have put on boards at once.

*Actions.* Managers' handlers lock nothing they read, so each that depends on other rows is two actions: the
reads and the first UPDATE's target rows, then the writes and the commit, where the foreign keys and unique
constraints may refuse (`Fail`). `WithoutStatuses` is `ON DELETE CASCADE` from a status, and the refusal of
the tasks that refer to it, deleted ones and those inserted without a commit included. `create_task` is
three: `CreateTask` reads up to the lock on the project; `PlaceTask` holds that lock, has inserted the task
and reads which statuses of a process lack a place on the boards (`NotOnBoards`); `CommitTask` writes them
and commits. Two creations never stand between `PlaceTask` and `CommitTask` at once, but
`add_status_to_column` takes no lock on the project and may run in between. `Placements` leaves open which
column the category selects.

Worth knowing, and in the model: `create_workflow` with `is_default` leaves the other default in place, and
two may be the default; `create_task` accepts the id of any workflow, of another project too; a deleted task
keeps its status from being deleted. `DefaultIsOneInitial` is a claim for managers who edit one after
another: two who edit at once can leave two default statuses, or a default that is not initial. `MappedOnce`
is a claim for all behaviours: what puts a status in two columns of one board is that a manager's request to
put it there commits between the look and the commit of another request that does so too, a manager's or the
creation of a first task of a process. The code does not prevent either, and `crossed` records them.

### Idempotency

*State.* For each request where it is and what its client was told; the committed row of the key with its
owner, its stored response and its age; whose open transaction holds the key (`holder`: it has deleted the
row, or inserted one that nobody else sees); the work session named in `X-Task-Session`; the commands that
took effect in this life of the key, which ends when the row expires; and those of them whose row was
deleted earlier (`swept`).

*Actions.* `Arrive` (session guard); the loop in `reserve`, statement by statement at READ COMMITTED:
`Insert`, which waits behind an uncommitted insert or delete of another request, `Look`, the SELECT behind a
conflict, and `Forget`, the DELETE of a row that `Look` found expired; `Commit`, `SucceedWithoutCommit`,
`Fail` (before or after the commit; `release` deletes only what its own transaction inserted), `Respond`,
`Complete` (the middleware's second transaction), `Crash` at any place, `Age` and `Purge`. Two thresholds of
the clock are three ages of the row. A row expires only when no command or `complete` of its time is still
running: 24 hours against a request's seconds. Requests before their command may be of any age.

*A window.* The DELETE in `Forget` names user and key, not the age. Two requests may both find the row expired;
one deletes it, reserves the key, runs its command and commits; the DELETE of the other then takes that fresh
row, and the command runs again, in one life of the key. `AtMostOnce` and `RowTracksEffect`
say that this is the only way, by `swept`; see the [findings](#findings).

### AuditJournal

*State.* The transaction id of each writer, the events it recorded but has not committed, the
committed rows, and the consumer's cursor and what it was given. `Settled` is the condition
`xid < pg_snapshot_xmin(pg_current_snapshot())`; `IsPage` is `ORDER BY … LIMIT`. The other disjunct of the
filter, a transaction that reads its own events, is never used: list requests write
nothing.

### ExternalRegistry

*State.* The row of one object, its revisions, the recorded events, and for each request what it
has read. Imports take no lock on the object, so an import has three steps: `Receive` looks for
the event and reads the object, `Pin` reads the revisions (at one moment, a simplification) and
inserts its own, `Commit` decides on what was read and writes the columns that it changed. A column
set to the value it was read with is not written: SQLAlchemy leaves it out of the UPDATE. The
unique constraints are the waiting in `Pin`, the refusal in `Commit` and, for the loser of an insert,
`Fail`. A snapshot's item is a confirmed import. `applied` and `confirmations` are history.

## Runs

| Run | Shows |
|---|---|
| `result_review` | with a manager, a reviewer and a person whose membership shifts, in every order: one verdict per version (`VerdictIsReviewed`), earned acceptance (`AcceptedIsEarned`), chains of corrections do not fork (`SupersededOnce`), the queue's SQL agrees with the rule it copies (`QueueMatchesRule`), the gate (`FinalNeedsVerdict`), the version counter (`VersionTracksContent`), and that the handlers implement the ledger (`ImplementsLedger`, `AcceptedForGood`); with deliveries, what was delivered stays accepted (`DeliveredIsAccepted`) and the summaries are current, through newer deliveries, late acceptances and withdrawals (`SummaryIsCurrent`) |
| `reviewed_closure` (violation) | the workflow editor passes by the review gate |
| `idempotency` | a command runs at most once per life of the key (`AtMostOnce`), row and effect never separate (`RowTracksEffect`), both but for the window of the expired row; no false receipt (`ToldDoneIsDone`), nobody waits for ever (`EveryRequestAnswered`) |
| `stored_response` (violation) | a response is stored on another command's row |
| `repeat_refused` (violation) | a repeat is refused though its response is stored |
| `audit_journal` | no gap (`NothingBehindCursor`), no duplicate (`DeliveredOnce`), the journal implements the feed, so its past is final (`ImplementsFeed`), every event arrives (`EveryEventDelivered`) |
| `external_registry` | events take effect once (`AppliedOnce`) and what is acknowledged has (`AcknowledgedIsApplied`), only verified revisions are current (`CurrentIsVerified`), an import nobody overtook does not return to an ancestor (`SupersededStaysBehind`) |
| `confirmed_order` (violation) | an older confirmed state overwrites a newer one |
| `execution` | one executor at a time (`OneExecutor`), who has been told of every pending change (`PendingIsKnown`); after a decision to stop or recheck nobody starts until it is resolved, though another decision overwrote it (`StopHolds`); of two requests to end a session that both found it active, one is refused (`EndsOnce`); sessions implement the abstract hold (`ImplementsHold`) |
| `work_proposals` | decisions that overlap imports and each other, and crash, while others change the tasks: versions stay numbered (`VersionsNumbered`), status and task agree, and the task rests on what was proposed until a person removes that (`TakenHasTask`), later versions are shown (`NewVersionIsShown`) and assessed on the task as long as it has the basis (`UpdatesReachTask`), final decisions stand but for a creation under way (`FinalStands`) |
| `one_task_per_proposal` (violation) | one proposal gets two tasks |
| `workflow_config` | two requests at a time on a project with a process: nothing points at what is gone or at another workflow (`NothingDangles`); after edits one by one there is one default status, an initial one (`DefaultIsOneInitial`); no status is in two columns of a board unless a manager's request crossed another one that put it there (`MappedOnce`) |

Each module has one type invariant, `TypeOK`. The runs check it except where it is only proved: in
`WorkProposals` and `WorkflowConfig`.

## Bounds

- `result_review`: three people, two proposals, two packages, one criterion, version up to 6, two
  deliveries, two acceptances. Two proposals are what a correction, a fork or a second verdict takes; the
  assignment may be issued twice, before, between and after them, so that a later package can come between
  submission and verdict. The bound on the version is a guard of every action of `ResultReview` that
  advances it, and of `ProposeDelivery`; `RecordAcceptance` and `WithdrawAcceptance` are bounded by the
  number of acceptances. Six is what a second delivery after an acceptance takes (submission, verdict,
  delivery, acceptance, delivery), where the acceptance must not carry over; two deliveries also let an
  acceptance of the earlier one arrive late. `Edited` bounds PATCH to clients that read version 2 or 3: the
  task is edited at most twice, at the moments between a first change and a fourth, which is where
  reassignment and designation meet a submission before its verdict and a version sent back; an edit before
  anything has happened only makes another initial task. The theorems have no such bound.
- `reviewed_closure`: as few as the counterexample takes.
- `idempotency`: four requests, two commands sent twice each; lives of the key without a bound, since `Age`
  takes the effects with the row. Of one command two requests can meet an expired row of the other and race
  for it, while the fourth repeats.
- `audit_journal`: two writers, four transactions, four events, pages of two: transactions nest and
  overlap, pages end inside a transaction.
- `external_registry`: two requests at a time, three revisions in a chain, two event ids, one of
  them with two contents, an old and a new snapshot; no counter is bounded. Requests are symmetric.
- `execution`: a manager and an executor, a requirement and a grant with two revisions each, two requests at
  a time (an end of a session is one, from its look to its commit), one blocker, three changes (of the
  setting, imports or sessions) in all, while ends of sessions and decisions are free: enough for a session,
  an arrival and a change of the setting to meet in every order. No revision revokes its object here; the
  proofs admit that.
- `work_proposals`, `one_task_per_proposal`: two proposals of one basis, two revisions, a task to link to
  and two that may be created, two decisions at a time, two changes of tasks by others. Two revisions are a
  version before a decision and one after it; two changes are a removal and a return of the basis, a move
  and a removal, or a deletion after either.
- `workflow_config`: the workflow Basic, a process and room for a third, four statuses, two
  transitions, three views, two columns, two tasks, two requests at a time, two edits by managers; tasks are
  created, moved and deleted without a bound but their number. Two edits show every overlap of a pair and
  every sequence of two; the theorems have no bound.

Deadlock is not checked in `result_review`, `reviewed_closure`, `idempotency` and its variants,
`audit_journal`, and `work_proposals` with its variant, because those systems may stop: requests are answered,
bounds are reached, a deleted task refuses everything, everything is decided. `external_registry`,
`execution` and `workflow_config` never stop and are checked.

## Fairness

- `Idempotency`: weak fairness of each request's own next step. The event loop and the database
  go on serving a request they have accepted. Arrivals, failures, crashes and the clock have none.
- `AuditJournal`: open transactions end, as requests do (weak fairness of commit or rollback
  per writer), and the consumer goes on polling.
- The other modules state safety only: nobody is obliged to review, report, decide, claim or configure.

## Proofs

All theorems hold for every value of the constants under the assumptions named in the modules
(`ConstantsAssumption`, `IdempotencyAssumption`, `JournalAssumption`, `RegistryAssumption`,
`ExecutionAssumption`, `WorkProposalsAssumption`, `DeliveriesAssumption`, `WorkflowConfigAssumption`), which
only say what kind of values the constants are, and `InitialAssumption` of `WorkflowConfig`, which says what
seeding and the creation of a project guarantee of the first statuses, transitions and columns.

- `ResultLedgerProofs`: the outcome is the one the ledger stands for, and acceptance is for good.
- `ResultReviewProofs`: type correctness; `ResultStateCurrent`; from it, and because only a submitted
  version is ever settled, `AcceptedForGood`. `VerdictIsReviewed` is inductive with the types.
  `SupersededOnce` needs `Chained`: a version names only earlier ones, and is superseded by the one that
  names it. `AcceptedIsEarned` speaks of the moment of a verdict while packages and people go on changing:
  `EarnedInv` says that what a proposal pinned stays as it was issued (`Pinned`) and that every accepting
  review on record was earned (`Earned`). `FinalNeedsVerdict` follows from the summary and the verdicts,
  `VersionTracksContent` action by action. `HandlersImplementLedger` maps every handler to a step of the
  ledger or a stutter. `QueueMatchesRule` follows from the types. All this is proved of `Around`, the steps
  of `ResultReview` with two others: one that counts a version at most, which is all that a handler of
  `Deliveries` does to a task, and the workflow editor's. So the theorems hold of a task by itself, with
  deliveries and under the editor. `FinalNeedsVerdict` and `VersionTracksContent`, which the editor breaks,
  are proved without it (`Tracked`); `OnlyEditorEvadesReview` says that nothing else breaks the first. With
  deliveries, `DeliveryInv` says that what was delivered is accepted, which no handler of the task takes
  back, and that the summary names the last acceptance of the current delivery (`Summarised`): a withdrawal
  that comes twice finds the acceptance withdrawn and the summary empty.
- `IdempotencyProofs`: `KeyInv` is the types with `OneRunning` — the open transaction of a running command
  holds the key, so only one runs — and `EffectsAreOver`, that a command in `effects` is past its commit,
  next to `RowTracksEffect` and `AtMostOnce` themselves, which keep each other. `ResponseInv` says what a
  command may rely on between its commit and `complete`: the row is still its own or it was swept, since a
  row does not expire meanwhile (`RowsHeld`). Hence `StoredResponseOrigin`, the exact extent of finding 2: a
  response that is not the row owner's comes from a command that answered without a commit, or from one
  whose row was swept; where every command commits and nothing was swept, the promise holds
  (`StoredResponseKept`).
- `AuditJournalProofs`: `JournalInv` adds `OpenAhead` — open transactions have ids beyond the cursor, since
  the cursor never passes the horizon — and `CursorIsLast`. `JournalIsFeed` maps every step of a writer to
  an extension of the log at its end: an event that becomes visible was behind the horizon (`HorizonMoves`),
  and so comes after all that were visible. A read gives a longer beginning of the log. `HistoryIsFinal`,
  said of all committed rows instead of the visible ones, is proved and in no run.
- `ExternalRegistryProofs`: `RegistryInv` adds what a request may rely on of what it has read: rows stay
  registered with the same verification (`StillRegistered`), and nobody else inserts the revision it inserts
  (`StillInserting`); and `EventsInv`, that a recorded event names the only message that took effect.
  `ConfirmedInOrder` bounds finding 4: for imports one after another, whose unconfirmed messages are not
  older than the state they meet, `OrderInv` says that nothing confirmed is later than `state_as_of` and
  that the one request there is has read the object as it is.
- `ExecutionProofs`: `OneExecutor`, `EndsOnce` and the refinement of `ExecutionHold` rest on what a claim
  and the end of a session do to the sessions; an end acts on what it reads under the lock, whatever it
  found before. `StopHolds` needs `StopsBlock`: every decision to stop or recheck has a blocker that names
  it, whatever was decided after it; a start requires all blockers resolved. `PendingIsKnown` needs
  `KeysKnown`, that assessments name bases that exist, so that none returns by way of a new basis; then a
  gated start finds nothing pending, and an import tells the one executor there is.
- `WorkProposalsProofs`: `Inv` adds to types, `VersionsNumbered` and `TakenHasTask` what a decision between
  its commits counts on (`Resumable`: proposal and task are still there), that a proposal has a version
  (`Numbered`), and that what a basis rests on is on record (`Recorded`). `TaskKept` says what any step may
  do to a task: its revisions on record, its removed bases and its deletion stay, and a basis or an
  assessment goes only by a removal; hence the task of a proposal keeps its basis or the record of its
  removal (`Backed`), and what reached it stays reached (`Reached`). `StepEffect` says what any step does to
  one proposal: it is kept, imported, decided or completed; `FinalStands`, `NewVersionIsShown` and
  `UpdatesReachTask` follow from it case by case. `TaskCreatedOnce` bounds finding 5: if nobody decides on a
  proposal between the two commits of its creation, and the second comes, then each task made for it is the
  one it became or is becoming (`MadeOnce`), in the hands of one request (`DecisionsApart`), whatever is
  imported, decided elsewhere or done to tasks.
- `WorkflowConfigProofs`: `NothingDangles` is inductive with the types and `Referred`: a request acts on
  what it read before, so what a task, transition or migration about to be written names is gone for good
  (and the foreign key refuses it) or still a status of the workflow it was read in, since ids are not used
  again and a status never changes its workflow. `OrderInv` is about managers who never overlapped: the one
  edit under way still describes the statuses of the present (`StatusFits`), whatever tasks are created
  meanwhile; `DefaultIsOneInitial` is part of it. `BoardsInv` has no such condition and carries
  `MappedOnce`: mapped columns exist (`ColumnsKnown`); one creation at most stands between its look at the
  boards and its commit (`OnePlacing`); and what a request is about to put on a board still has no place
  there, or has been put there by a request it crossed, which `crossed` records at the commit (`PutFits`).

## Only model-checked

Liveness (`EveryRequestAnswered`, `EveryEventDelivered`) is out of the prover's reach. The violation runs
are counterexamples by nature; for four of the five findings a theorem says how far the violation reaches.

## Findings

Each has a run that shows it; `PROJECT.json` quotes what the code contradicts.

1. `reviewed_closure`: `migrate_status` and `update_status` bring a task of a reviewed type into a final
   status without a verdict.
2. `stored_response`: `complete` stores a response on whatever row it finds under the key, so a command
   that answered without a commit may answer for another command.
3. `repeat_refused`: the session guard runs before the key is looked up, so the retry of the command
   that ended its session is refused instead of replayed.
4. `confirmed_order`: overlapping confirmed imports are not ordered by their time; without overlap, an
   unconfirmed successor may set `state_as_of` back and open the same door.
5. `one_task_per_proposal`: the commit inside `create_task` lets go of the proposal, so that a second
   decision, or a retry after a crash, creates a second task.

Seen while modelling, without a run of its own:

- ADR-019 promises that a command is never carried out twice under one key («Команда никогда не выполняется
  дважды при повторе с тем же ключом»). Requests that find the row expired at the same time can run it
  twice: the DELETE of one takes the row that another has just committed (`idempotency_service.py:77-89`).
  The module contains the race and `swept` records it: without the exceptions for `swept`, `AtMostOnce` and
  `RowTracksEffect` are violated.
- `docs/15-api.md:2220` promises, of a converted or linked proposal, that a new revision is a new version
  and opens an impact assessment on the task. `remove_basis` has no guard for such a task; after it a new
  version opens none. A version that arrives between the two commits of a creation counts as known to the
  decision and is not shown.
- A status may get into two columns of one board, though both handlers look first: see `MappedOnce`.
- Documents promise exactly one default workflow (`docs/12-data-model.md`, ADR-006, ADR-009), while
  `create_workflow` leaves the other defaults in place.
- `get_task_type_configs` shows the system workflow for every type that has one, while
  `get_workflow_for_task_type` uses it for the process types only.

## Not modelled

- Projects as such (their own row, archiving, import and export), links between tasks, comments,
  notifications: rows that nothing modelled reads to decide anything. `project_service.update_project` and
  `task_link_service` check without a lock; both are listed under the hazards.
- The numbering of task keys (a counter under the project's lock), required fields, the wait of a
  decision task for its subtasks: refusals or data.
- Providers, namespaces and aliases of the external registry beyond the authority for a type.
- The control page, search, timeline, views and lists derive what they show and decide nothing.
- API keys and authentication: identity is taken as given. The MCP tools call the same services; their
  retry wrapper follows the modelled steps.
- Live events tell a page to reload; the server decides nothing by them. The web client. Seeding at
  start runs before requests are served; what it guarantees is assumed of the initial rows.

## Plan

Done, in this order: `ResultStates`, `ResultLedger`, `ResultReview`, `ReviewedClosure`, the core of the
product; `Idempotency` and `AuditJournal` with `EventFeed`, on which every command rests;
`ExternalRegistry`; then `Execution` with `ExecutionHold`, `WorkProposals`, `WorkflowConfig` and
`Deliveries`.

If the project grows: numbering of task keys; the authority and
aliases of providers; a composition of `ExternalRegistry` with `Execution`, where the two now meet only in
that one imports what the other calls the current revision.
