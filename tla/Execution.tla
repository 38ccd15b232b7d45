----------------------------- MODULE Execution ------------------------------
(***************************************************************************)
(* The execution of one task: the external objects it rests on, the        *)
(* revisions pinned for them, blockers and impact assessments, readiness,  *)
(* and the work sessions (portfolio_service, session_service; ADR-022 and  *)
(* ADR-024).                                                               *)
(*                                                                         *)
(* A handler of the task holds its row FOR UPDATE until it commits: it is  *)
(* one action.  Three kinds of request act on what they read before:       *)
(*   - a decision reads the assessment, and only then waits for the task;  *)
(*   - so does the end of a session, which then reads the session again;   *)
(*   - an import reads the object, updates it, looks for the bases pinned  *)
(*     at another revision and inserts the assessments.  The foreign key   *)
(*     of an assessment takes the task's row FOR KEY SHARE: from the first *)
(*     insert to the commit of the import no handler of the task runs, so  *)
(*     insert, search for an active session and commit are one step.       *)
(* A request that fails anywhere leaves nothing behind.                    *)
(***************************************************************************)
EXTENDS Naturals, Sequences

CONSTANTS
  Users, NoUser,
  Owner,            \* reporter of the task
  Managers,         \* members with the role manager or admin
  Reviewers,        \* members with the reviewer profile
  InitialAssignee,
  Objects,          \* external objects the task may rest on
  Grants,           \* those of type allocation or authorization
  Revisions,        \* revisions with a registered original
  Revocations,      \* those that revoke the object
  None,
  InitialBases,     \* the bases of the package issued to begin with
  InitialLinks, InitialObjects,
  Offers,           \* bases that are added and removed: a bound
  Arrivals,         \* revisions of objects that arrive: a bound
  Regulations,      \* what a project link may pin: sets of at most one pin
  FactSets,         \* what the registry may say at a moment: sets of pins
  Requests,         \* requests served at the same time
  MaxSteps,         \* changes of the setting, imports and sessions: a bound
  MaxBlockers       \* a bound

ImpactRoles == {"cause", "input", "normative"}
Roles == ImpactRoles \cup {"reference", "grant"}

Pin == Objects \X Revisions
Basis == [object : Objects, role : Roles, revision : Revisions,
          freshness : {"pinned", "confirm_current"}]

\* A project without a row in project_portfolio_links is standalone.
Link == [on : {TRUE}, regulation : SUBSET Pin] \cup [on : {FALSE}, regulation : {{}}]

Object == [current : Revisions \cup {None},
           state : {"unknown", "unconfirmed", "current", "pending_reconciliation"}]

ASSUME ExecutionAssumption ==
  /\ NoUser \notin Users /\ Owner \in Users
  /\ Managers \subseteq Users /\ Reviewers \subseteq Users
  /\ InitialAssignee \in Users \cup {NoUser}
  /\ Grants \subseteq Objects /\ Arrivals \subseteq Pin
  /\ None \notin Revisions /\ Revocations \subseteq Revisions
  /\ InitialBases \in Seq(Basis) /\ Offers \subseteq Basis
  /\ InitialLinks \subseteq Link /\ InitialObjects \subseteq [Objects -> Object]
  /\ Regulations \subseteq SUBSET Pin /\ FactSets \subseteq SUBSET Pin
  /\ MaxSteps \in Nat /\ MaxBlockers \in Nat

VARIABLES
  link,          \* the project's portfolio link
  objects,       \* current revision and its state
  assignee_id, deleted,
  bases,         \* task_bases by id
  package,       \* the bases pinned into the current WorkPackage
  blockers,      \* task_blockers
  assessments,   \* impact_assessments
  sessions,      \* task_sessions
  checkpoints,   \* notices written to sessions (session_checkpoints)
  request,       \* what each request under way has read
  acts, imports, \* history: changes of the setting so far, imports committed
  stopped        \* history: assessments ever decided stop or recheck

setting == <<link, assignee_id, deleted, package, acts>>
work == <<blockers, assessments, sessions, checkpoints, stopped>>
vars == <<setting, objects, bases, work, imports, request>>

\* A removed basis takes its assessments with it (ON DELETE CASCADE).
BasisRow == [pin : Basis, removed : BOOLEAN]

\* An assessment is named by its basis and the import that opened it.
Key == [basis : Nat, import : Nat]
Manual == [basis |-> 0, import |-> 0]

Decisions == {"continue", "reissue", "recheck", "stop"}
Assessment == [key : Key, new : Revisions, decision : Decisions \cup {"pending"}]

Blocker == [cause : Key, resolved : BOOLEAN]

\* `gated`: history, was the project linked when the session started?
Session == [user : Users, role : {"executor", "reviewer"},
            state : {"active", "completed", "released"}, gated : BOOLEAN]

Checkpoint == [session : Nat, about : Key, kind : {"change", "stop"}]

Idle == [kind |-> "idle"]
Request ==
  {Idle} \cup [kind : {"decide"}, key : Key] \cup [kind : {"end"}, session : Nat]
  \cup [kind : {"read"}, object : Objects, revision : Revisions, first : BOOLEAN]
  \cup [kind : {"import", "proposal"}, object : Objects, revision : Revisions,
        first : BOOLEAN, found : SUBSET Nat]

TypeOK ==
  /\ link \in Link
  /\ objects \in [Objects -> Object]
  /\ assignee_id \in Users \cup {NoUser}
  /\ deleted \in BOOLEAN
  /\ bases \in Seq(BasisRow)
  /\ package \in SUBSET Basis
  /\ blockers \in Seq(Blocker)
  /\ assessments \subseteq Assessment
  /\ sessions \in Seq(Session)
  /\ checkpoints \subseteq Checkpoint
  /\ request \in [Requests -> Request]
  /\ acts \in Nat /\ imports \in Nat
  /\ stopped \subseteq Key

-----------------------------------------------------------------------------
(* What the task rests on.                                                 *)

Live == {b \in DOMAIN bases : ~bases[b].removed}

\* pinned_bases: what an issued package pins.
PinnedBases == {bases[b].pin : b \in Live}

HasRole(b, roles) == bases[b].pin.role \in roles

Init ==
  /\ link \in InitialLinks
  /\ objects \in InitialObjects
  /\ assignee_id = InitialAssignee
  /\ deleted = FALSE
  /\ bases = [b \in DOMAIN InitialBases |-> [pin |-> InitialBases[b], removed |-> FALSE]]
  /\ package = {InitialBases[b] : b \in DOMAIN InitialBases}
  /\ blockers = <<>>
  /\ assessments = {}
  /\ sessions = <<>>
  /\ checkpoints = {}
  /\ request = [w \in Requests |-> Idle]
  /\ acts = 0 /\ imports = 0
  /\ stopped = {}

\* The rows of live bases; the others went with their basis.
LiveAssessments == {a \in assessments : a.key.basis \in Live}

Pending == {a \in LiveAssessments : a.decision = "pending"}

Assessed(b, r) == \E a \in LiveAssessments : a.key.basis = b /\ a.new = r

Continued(b, r) ==
  \E a \in LiveAssessments : a.key.basis = b /\ a.new = r /\ a.decision = "continue"

-----------------------------------------------------------------------------
(* Readiness (TT-11): five conditions.  `facts` is what the registry and   *)
(* the clock say at this moment of each pin: an input accepted for this    *)
(* recipient, a norm accepted for this stage, a grant complete, addressed  *)
(* to this project and in force.                                           *)

PackageIssued == package = PinnedBases /\ assignee_id # NoUser

Pinned(b) == <<bases[b].pin.object, bases[b].pin.revision>>

Revoked(o) == objects[o].current \in Revocations

\* _fact_problem, and what each kind of fact must claim.
FactHolds(pin, facts) == pin \in facts

InputsAccepted(facts) ==
  \A b \in Live : HasRole(b, {"input"}) => FactHolds(Pinned(b), facts)

NormsAccepted(facts) ==
  /\ \A pin \in link.regulation : FactHolds(pin, facts)
  /\ \A b \in Live : HasRole(b, {"normative"}) =>
       FactHolds(Pinned(b), facts) /\ ~Revoked(bases[b].pin.object)

\* A grant is judged by its current revision; without one, by the pinned one.
Judged(b) ==
  LET o == bases[b].pin.object
  IN  IF objects[o].current = None THEN Pinned(b) ELSE <<o, objects[o].current>>

GrantInForce(facts) ==
  \E b \in Live : /\ HasRole(b, {"grant"})
                  /\ FactHolds(Judged(b), facts)
                  /\ ~Revoked(bases[b].pin.object)
                  /\ objects[bases[b].pin.object].state # "pending_reconciliation"

Confirmed(b) ==
  LET o == objects[bases[b].pin.object]
  IN  /\ o.state = "current"
      /\ o.current = bases[b].pin.revision \/ Continued(b, o.current)

BlockersResolved == \A k \in DOMAIN blockers : blockers[k].resolved

BasesInForce ==
  \A b \in Live : HasRole(b, ImpactRoles) =>
    /\ ~Revoked(bases[b].pin.object)
    /\ bases[b].pin.freshness = "confirm_current" => Confirmed(b)

\* Slip: a change that awaits its decision holds nobody up.
NothingBlocked == BlockersResolved /\ BasesInForce

NothingOpen == BlockersResolved /\ Pending = {} /\ BasesInForce

\* require_ready: a standalone project is always ready.
Ready(facts) ==
  link.on => /\ PackageIssued
             /\ InputsAccepted(facts)
             /\ NormsAccepted(facts)
             /\ GrantInForce(facts)
             /\ NothingOpen

-----------------------------------------------------------------------------
(* The setting of the work: link, assignee, package, bases.                *)

WithinBound == acts + imports + Len(sessions) < MaxSteps

Act == WithinBound /\ acts' = acts + 1

\* `admin` in the code: who configures the project.
SetLink(u, regulation) ==
  /\ Act /\ u \in Managers
  /\ link' = [on |-> TRUE, regulation |-> regulation]
  /\ UNCHANGED <<assignee_id, deleted, package, objects, bases, work, imports, request>>

\* Slip: the link is switched off, its regulation stays.
SwitchedOff == [link EXCEPT !.on = FALSE]

\* The row is deleted.
Standalone == [on |-> FALSE, regulation |-> {}]

RemoveLink(u) ==
  /\ Act /\ u \in Managers
  /\ link.on
  /\ link' = Standalone
  /\ UNCHANGED <<assignee_id, deleted, package, objects, bases, work, imports, request>>

\* _require_commissioner
Commissions(u) == u = Owner \/ u \in Managers

\* BASIS_ROLE_TYPE_MISMATCH
WellTyped(pin) == (pin.role = "grant") <=> (pin.object \in Grants)

\* The unique constraint on (task, object, role): BASIS_EXISTS.
BasisExists(pin) ==
  \E b \in Live : bases[b].pin.object = pin.object /\ bases[b].pin.role = pin.role

AddBasis(u, pin) ==
  /\ Act /\ ~deleted /\ Commissions(u)
  /\ WellTyped(pin) /\ ~BasisExists(pin)
  /\ bases' = Append(bases, [pin |-> pin, removed |-> FALSE])
  /\ UNCHANGED <<link, assignee_id, deleted, package, objects, work, imports, request>>

RemoveBasis(u, b) ==
  /\ Act /\ ~deleted /\ Commissions(u)
  /\ b \in Live /\ bases[b].pin \in Offers
  /\ bases' = [bases EXCEPT ![b].removed = TRUE]
  /\ UNCHANGED <<link, assignee_id, deleted, package, objects, work, imports, request>>

\* issue pins the bases of the moment; one that pins the same is left out.
IssuePackage(u) ==
  /\ Act /\ ~deleted /\ Commissions(u)
  /\ package # PinnedBases
  /\ package' = PinnedBases
  /\ UNCHANGED <<link, assignee_id, deleted, objects, bases, work, imports, request>>

\* PATCH /tasks with another assignee: his session stays.
Reassign(u, assignee) ==
  /\ Act /\ ~deleted
  /\ assignee # assignee_id
  /\ assignee_id' = assignee
  /\ UNCHANGED <<link, deleted, package, objects, bases, work, imports, request>>

DeleteTask(u) ==
  /\ Act /\ ~deleted
  /\ deleted' = TRUE
  /\ UNCHANGED <<link, assignee_id, package, objects, bases, work, imports, request>>

-----------------------------------------------------------------------------
(* Requests that act on what they read before.                             *)

Begins(w, what) ==
  /\ request[w] = Idle
  /\ request' = [request EXCEPT ![w] = what]
  /\ UNCHANGED <<setting, objects, bases, work, imports>>

Ends(w) == request' = [request EXCEPT ![w] = Idle]

\* Any error: the transaction is undone.
Fail(w) ==
  /\ request[w] # Idle
  /\ Ends(w)
  /\ UNCHANGED <<setting, objects, bases, work, imports>>

-----------------------------------------------------------------------------
(* The sessions (TT-12).                                                   *)

Executing(u) ==
  {i \in DOMAIN sessions : /\ sessions[i].role = "executor" /\ sessions[i].state = "active"
                           /\ sessions[i].user = u}

ActiveExecutors ==
  {i \in DOMAIN sessions : sessions[i].role = "executor" /\ sessions[i].state = "active"}

\* Slip: only the claimant's own session keeps the task.
FreeForClaimant(u) == Executing(u) = {}

\* SESSION_ACTIVE: the check under the lock, and the partial unique index.
FreeToExecute(u) == ActiveExecutors = {}

MayExecute(u, facts) == u = assignee_id /\ FreeToExecute(u) /\ Ready(facts)

MayCheck(u) == u \in Reviewers /\ u # assignee_id

Claim(u, role, facts) ==
  /\ ~deleted
  /\ \/ role = "executor" /\ MayExecute(u, facts)
     \/ role = "reviewer" /\ MayCheck(u)
  /\ WithinBound
  /\ sessions' = Append(sessions,
       [user |-> u, role |-> role, state |-> "active", gated |-> link.on])
  /\ UNCHANGED <<setting, objects, bases, blockers, assessments, checkpoints, stopped,
                 imports, request>>

\* The session is looked up before the wait for the task's lock.  Of one that
\* has ended nothing comes: it stays so.
FindSession(w) ==
  \E i \in DOMAIN sessions :
    sessions[i].state = "active" /\ Begins(w, [kind |-> "end", session |-> i])

\* Slip: what the request read before it waited is trusted.
ActiveOnArrival(i) == TRUE

\* _load_active reads the session again under the lock.
StillActive(i) == sessions[i].state = "active"

\* complete is the owner's; release the owner's or a manager's.
EndSession(w, u, i, state) ==
  /\ request[w] = [kind |-> "end", session |-> i]
  /\ ~deleted
  /\ StillActive(i)
  /\ sessions[i].user = u \/ (state = "released" /\ u \in Managers)
  /\ sessions' = [sessions EXCEPT ![i].state = state]
  /\ Ends(w)
  /\ UNCHANGED <<setting, objects, bases, blockers, assessments, checkpoints, stopped,
                 imports>>

-----------------------------------------------------------------------------
(* Blockers and decisions.                                                 *)

AddBlocker(u) ==
  /\ ~deleted /\ u \in Managers
  /\ Act
  /\ Len(blockers) < MaxBlockers
  /\ blockers' = Append(blockers, [cause |-> Manual, resolved |-> FALSE])
  /\ UNCHANGED <<link, assignee_id, deleted, package, objects, bases, assessments,
                 sessions, checkpoints, stopped, imports, request>>

\* Read before the lock: a second resolution replaces who resolved it and how.
ResolveBlocker(u, k) ==
  /\ ~deleted /\ u \in Managers
  /\ ~blockers[k].resolved
  /\ blockers' = [blockers EXCEPT ![k].resolved = TRUE]
  /\ UNCHANGED <<setting, objects, bases, assessments, sessions, checkpoints, stopped,
                 imports, request>>

\* decide_assessment refuses what it read as decided.
ReadAssessment(w) ==
  \E a \in Pending : Begins(w, [kind |-> "decide", key |-> a.key])

\* Slip: only a stop leaves a blocker.
BlocksIfStopped(decision) == decision = "stop"

Blocks(decision) == decision \in {"stop", "recheck"}

Moves(decision) == decision \in {"reissue", "recheck"}

\* active_executor returns one row.
Told == IF ActiveExecutors = {} THEN {} ELSE {CHOOSE i \in ActiveExecutors : TRUE}

Note(i, key, kind) == [session |-> i, about |-> key, kind |-> kind]

\* What a decision leaves beside the decision itself.
Consequences(a, decision) ==
  /\ bases' = IF Moves(decision) THEN [bases EXCEPT ![a.key.basis].pin.revision = a.new]
              ELSE bases
  /\ blockers' = IF Blocks(decision)
                 THEN Append(blockers, [cause |-> a.key, resolved |-> FALSE]) ELSE blockers
  /\ checkpoints' = IF decision = "stop"
                    THEN checkpoints \cup {Note(i, a.key, "stop") : i \in Told}
                    ELSE checkpoints
  /\ stopped' = IF decision \in {"stop", "recheck"} THEN stopped \cup {a.key} ELSE stopped

\* Under the lock the assessment is not read again; what matters is that the
\* row is still there.  The last decision stands.
DecideAssessment(w, u, decision) ==
  /\ request[w].kind = "decide"
  /\ ~deleted /\ u \in Managers
  /\ Blocks(decision) => Len(blockers) < MaxBlockers
  /\ \E a \in LiveAssessments :
       /\ a.key = request[w].key
       /\ assessments' = (assessments \ {a}) \cup {[a EXCEPT !.decision = decision]}
       /\ Consequences(a, decision)
  /\ Ends(w)
  /\ UNCHANGED <<setting, objects, sessions, imports>>

-----------------------------------------------------------------------------
(* Imports.                                                                *)

\* _apply_order reads the current revision without a lock.
ReadObject(w, o, r) ==
  /\ r # objects[o].current
  /\ Begins(w, [kind |-> "read", object |-> o, revision |-> r,
                first |-> objects[o].current = None])

\* The update of the object is flushed before the bases are read: its row is
\* locked until the import commits.
Importing(o) ==
  \E w \in Requests : request[w].kind = "import" /\ request[w].object = o

\* Bases pinned at another revision, without an assessment of this one.
Outdated(o, r) ==
  IF deleted THEN {}
  ELSE {b \in Live : /\ bases[b].pin.object = o /\ HasRole(b, ImpactRoles)
                     /\ bases[b].pin.revision # r /\ ~Assessed(b, r)}

\* _set_current, on_current_changed: a first current revision changes nothing.
UpdateObject(w) ==
  /\ request[w].kind = "read" /\ ~Importing(request[w].object)
  /\ request' = [request EXCEPT ![w] =
       [kind |-> "import", object |-> @.object, revision |-> @.revision, first |-> @.first,
        found |-> IF @.first THEN {} ELSE Outdated(@.object, @.revision)]]
  /\ UNCHANGED <<setting, objects, bases, work, imports>>

\* import_proposal, for a proposal that has become this task.
ImportProposal(w, o, r) ==
  Begins(w, [kind |-> "proposal", object |-> o, revision |-> r, first |-> FALSE,
             found |-> Outdated(o, r)])

\* ensure_assessment, for each basis found.
Opened(w) ==
  {[key |-> [basis |-> b, import |-> imports + 1], new |-> request[w].revision,
    decision |-> "pending"] : b \in request[w].found}

\* Slip: the notice goes to the assignee's session.
NoticesToAssignee(w) ==
  {Note(i, a.key, "change") : i \in Told \cap Executing(assignee_id), a \in Opened(w)}

\* _notify_active_session
Notices(w) == {Note(i, a.key, "change") : i \in Told, a \in Opened(w)}

\* A basis removed meanwhile breaks the foreign key, and with it the import.
CommitImport(w, state) ==
  /\ request[w].kind \in {"import", "proposal"}
  /\ WithinBound
  /\ request[w].found \subseteq Live
  /\ IF request[w].kind = "proposal" THEN UNCHANGED objects
     ELSE /\ state = "unconfirmed" => request[w].first
          /\ objects' = [objects EXCEPT ![request[w].object] =
                           [current |-> request[w].revision, state |-> state]]
  /\ assessments' = assessments \cup Opened(w)
  /\ checkpoints' = checkpoints \cup Notices(w)
  /\ imports' = imports + 1
  /\ Ends(w)
  /\ UNCHANGED <<setting, bases, blockers, sessions, stopped>>

\* A revision that does not follow the current one, or a confirmation of it.
ReconcileObject(o, state) ==
  /\ ~Importing(o)
  /\ WithinBound
  /\ objects[o].current # None
  /\ objects' = [objects EXCEPT ![o].state = state]
  /\ imports' = imports + 1
  /\ UNCHANGED <<setting, bases, work, request>>

-----------------------------------------------------------------------------
PortfolioStep(u) ==
  \/ \E regulation \in Regulations : SetLink(u, regulation)
  \/ RemoveLink(u)
  \/ \E pin \in Offers : AddBasis(u, pin)
  \/ \E b \in DOMAIN bases : RemoveBasis(u, b)
  \/ AddBlocker(u)
  \/ \E k \in DOMAIN blockers : ResolveBlocker(u, k)
  \/ \E w \in Requests, decision \in Decisions : DecideAssessment(w, u, decision)

SessionStep(u) ==
  \/ \E role \in {"executor", "reviewer"}, facts \in FactSets : Claim(u, role, facts)
  \/ \E w \in Requests, i \in DOMAIN sessions, state \in {"completed", "released"} :
       EndSession(w, u, i, state)

TaskStep(u) ==
  \/ IssuePackage(u)
  \/ \E assignee \in Users \cup {NoUser} : Reassign(u, assignee)
  \/ DeleteTask(u)

ArrivalStep(w) ==
  \/ ReadAssessment(w) \/ FindSession(w)
  \/ \E pin \in Arrivals : ReadObject(w, pin[1], pin[2]) \/ ImportProposal(w, pin[1], pin[2])
  \/ UpdateObject(w)
  \/ Fail(w)

ImportStep ==
  \/ \E w \in Requests, state \in {"unconfirmed", "current"} : CommitImport(w, state)
  \/ \E pin \in Arrivals, state \in {"current", "pending_reconciliation"} :
       ReconcileObject(pin[1], state)

Next ==
  \/ \E u \in Users : PortfolioStep(u) \/ SessionStep(u) \/ TaskStep(u)
  \/ \E w \in Requests : ArrivalStep(w)
  \/ ImportStep

Spec == Init /\ [][Next]_vars

-----------------------------------------------------------------------------
(* Properties.                                                             *)

(* TT-12: two processes, even under one account, never both hold the task. *)
OneExecutor == \A i, j \in ActiveExecutors : i = j

(* The contract of external systems and on_current_changed: whoever is at  *)
(* work has been told of every change that still awaits a decision, though *)
(* imports, claims and reassignments overlap.  A session of a standalone   *)
(* project may have started while a change was pending.                    *)
PendingIsKnown ==
  \A i \in ActiveExecutors, a \in Pending :
    sessions[i].gated => Note(i, a.key, "change") \in checkpoints

Started == {i \in DOMAIN sessions' \ DOMAIN sessions : sessions'[i].role = "executor"}

(* A decision to stop, or to check again, keeps the work from being started *)
(* anew until a manager resolves it, even when another decision on the same *)
(* assessment has overwritten it.                                           *)
StopHolds ==
  [][\A i \in Started : sessions'[i].gated =>
       \A key \in stopped :
         \E k \in DOMAIN blockers : blockers[k].cause = key /\ blockers[k].resolved]_vars

(* A session ends once: the owner who completes it and the manager who     *)
(* releases it at the same time do not overwrite each other's outcome.     *)
EndsOnce ==
  [][\A i \in DOMAIN sessions : sessions[i].state # "active" => sessions'[i] = sessions[i]]_vars

Hold == INSTANCE ExecutionHold WITH
          holders <- ActiveExecutors,
          used <- {i \in DOMAIN sessions : sessions[i].role = "executor"}

(* The sessions of the executor implement the hold TT-12 promises.         *)
ImplementsHold == Hold!Spec
=============================================================================
