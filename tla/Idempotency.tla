---------------------------- MODULE Idempotency -----------------------------
(***************************************************************************)
(* Requests that carry one Idempotency-Key of one user (ADR-019): the      *)
(* guard that reserves the key inside the transaction of the command, the  *)
(* command, the middleware that stores the response in a second            *)
(* transaction, duplicates and retries that race them, crashes between the *)
(* two commits, and the clock that ages the row and finally purges it.     *)
(*                                                                         *)
(* Every statement at READ COMMITTED is a step: INSERT, SELECT and the     *)
(* DELETE of an expired row meet whatever other requests and the purge     *)
(* have committed since the statement before.                              *)
(*                                                                         *)
(* A request is identified with its response; a retry is another request   *)
(* with the same hash.  Before the key is looked at, X-Task-Session is     *)
(* checked (api/v1/router.py): a command may end the very work session its *)
(* header names.                                                           *)
(***************************************************************************)
EXTENDS Naturals

CONSTANTS
  Requests,      \* requests sent with the key
  Nobody,        \* not a request
  Hash,          \* request_hash of each request: method, path and body
  NoOps,         \* hashes whose command may answer 2xx without a commit
  EndsSession    \* hashes sent in a work session that the command ends

ASSUME IdempotencyAssumption ==
  /\ Nobody \notin Requests
  /\ DOMAIN Hash = Requests

VARIABLES
  pc,             \* where each request is
  answer,         \* what its client was told
  row,            \* the committed row idempotency_keys(user_id, key)
  holder,         \* whose open transaction deleted the row or inserted one
  session_active, \* the work session named in X-Task-Session is active
  effects,        \* requests whose command committed in this life of the key
  swept           \* those whose row was deleted before it had expired

vars == <<pc, answer, row, holder, session_active, effects, swept>>

\* Ages of a row: younger than OUTCOME_UNKNOWN_AFTER, than KEY_TTL, expired.
Fresh == 0
Stale == 1
Expired == 2

Absent == [state |-> "absent", owner |-> Nobody, response |-> Nobody, age |-> Fresh]
Reserved(r) == [state |-> "committed", owner |-> r, response |-> Nobody, age |-> Fresh]

Places == {"idle", "inserting", "looking", "forgetting", "running", "committed",
           "closing", "answered"}
Answers == {"none", "own", "replay", "error", "lost", "session_not_active",
            "key_reused", "in_progress", "outcome_unknown", "no_access"}

\* A request holds the key on its way into the command and in it, never later;
\* a response is in the row exactly when it is completed.
TypeOK ==
  /\ pc \in [Requests -> Places]
  /\ answer \in [Requests -> Answers]
  /\ row \in [state : {"absent", "committed", "completed"},
              owner : Requests \cup {Nobody}, response : Requests \cup {Nobody},
              age : {Fresh, Stale, Expired}]
  /\ row.owner = Nobody <=> row.state = "absent"
  /\ row.response # Nobody <=> row.state = "completed"
  /\ holder \in Requests \cup {Nobody}
  /\ holder # Nobody => pc[holder] \in {"inserting", "running"}
  /\ session_active \in BOOLEAN
  /\ effects \subseteq Requests /\ swept \subseteq effects

Init ==
  /\ pc = [r \in Requests |-> "idle"]
  /\ answer = [r \in Requests |-> "none"]
  /\ row = Absent
  /\ holder = Nobody
  /\ session_active = TRUE
  /\ effects = {}
  /\ swept = {}

\* What a SELECT of another transaction finds: the committed row, also while
\* an open transaction has deleted it.
Visible == row.state # "absent"

\* A repeat within 24 hours finds this row.
Current == Visible /\ row.age # Expired

Go(r, place) == pc' = [pc EXCEPT ![r] = place]

Tell(r, what) ==
  /\ Go(r, "answered")
  /\ answer' = [answer EXCEPT ![r] = what]

-----------------------------------------------------------------------------
(* Before the command: task_session_guard, then reserve.                   *)

Arrive(r) ==
  /\ pc[r] = "idle"
  /\ IF Hash[r] \in EndsSession /\ ~session_active
     THEN Tell(r, "session_not_active")
     ELSE Go(r, "inserting") /\ UNCHANGED answer
  /\ UNCHANGED <<row, holder, session_active, effects, swept>>

\* Slip: the reservation is committed before the command runs.
EarlyInsertion(r) == Reserved(r)

\* The INSERT is part of the open transaction: nobody else sees it yet.
Insertion(r) == row

\* INSERT ... ON CONFLICT DO NOTHING.  Behind a row that another transaction
\* has inserted or deleted without a commit it waits: no disjunct is enabled.
Insert(r) ==
  /\ pc[r] = "inserting"
  /\ \/ /\ holder = r \/ (holder = Nobody /\ ~Visible)
        /\ row' = Insertion(r)
        /\ holder' = r
        /\ Go(r, "running")
     \/ /\ holder = Nobody /\ Visible
        /\ Go(r, "looking")
        /\ UNCHANGED <<row, holder>>
  /\ UNCHANGED <<answer, session_active, effects, swept>>

\* Slip: the hashes are not compared.
SameCommandAny(r) == Visible

SameCommand(r) == Hash[row.owner] = Hash[r]

\* Slip: only a stored response ends the wait.
GiveUpNever(r) == FALSE

\* The duplicate waited WAIT_FOR_COMPLETION seconds, at any speed of the clock.
GiveUp(r) == row.state = "committed"

\* The SELECT behind a conflicting INSERT, and the decision on what it found.
Look(r) ==
  /\ pc[r] = "looking"
  /\ \/ /\ ~Visible                     \* rolled back or purged meanwhile
        /\ Go(r, "inserting")
        /\ UNCHANGED answer
     \/ /\ Visible /\ row.age = Expired
        /\ Go(r, "forgetting")
        /\ UNCHANGED answer
     \/ /\ Current
        /\ \/ ~SameCommand(r) /\ Tell(r, "key_reused")
           \/ /\ SameCommand(r) /\ row.state = "completed"
              /\ Tell(r, "replay") \/ Tell(r, "no_access")
           \/ SameCommand(r) /\ row.state = "committed" /\ row.age = Stale
                /\ Tell(r, "outcome_unknown")
           \/ SameCommand(r) /\ row.age = Fresh /\ GiveUp(r) /\ Tell(r, "in_progress")
  /\ UNCHANGED <<row, holder, session_active, effects, swept>>

\* The DELETE of the expired row names user and key only: it takes whatever
\* row is committed by now, also one that has not expired.  A DELETE that
\* began while another transaction had deleted the row waits for it: if that
\* one commits, the DELETE removes nothing and the loop goes on (the second
\* disjunct, which shows the wait at the INSERT that follows); if it rolls
\* back, the DELETE is as one that begins then.
Forget(r) ==
  /\ pc[r] = "forgetting"
  /\ \/ holder = Nobody /\ holder' = IF Visible THEN r ELSE Nobody
     \/ holder # Nobody /\ UNCHANGED holder
  /\ Go(r, "inserting")
  /\ UNCHANGED <<answer, row, session_active, effects, swept>>

-----------------------------------------------------------------------------
(* The command and what follows it.                                        *)

\* A session that has ended cannot be ended again.
Doomed(r) == pc[r] = "running" /\ Hash[r] \in EndsSession /\ ~session_active

\* The service commits: the change and the reservation become durable
\* together, and so does the deletion of the row that was there.
Commit(r) ==
  /\ pc[r] = "running" /\ ~Doomed(r)
  /\ row' = Reserved(r)
  /\ holder' = Nobody
  /\ effects' = effects \cup {r}
  /\ swept' = IF Current THEN swept \cup {row.owner} ELSE swept
  /\ session_active' = (session_active /\ Hash[r] \notin EndsSession)
  /\ Go(r, "committed")
  /\ UNCHANGED answer

\* Slip: a session given back without a commit keeps its transaction open.
LeftOpen(r) == holder

\* The session is closed, so its open transaction is rolled back: what it
\* inserted is gone, and what it deleted is there again.
RolledBack(r) == IF holder = r THEN Nobody ELSE holder

\* The endpoint returns without a commit; closing the session rolls back.
SucceedWithoutCommit(r) ==
  /\ pc[r] = "running" /\ Hash[r] \in NoOps
  /\ holder' = RolledBack(r)
  /\ Go(r, "closing")
  /\ answer' = [answer EXCEPT ![r] = "own"]
  /\ UNCHANGED <<row, session_active, effects, swept>>

\* Slip: release deletes the row of the key, whoever committed it, and commits.
ReleasedByKey(r) == IF row.state = "committed" THEN Absent ELSE row

\* release deletes only what its own open transaction inserted (xid), and is
\* not committed: no committed row is touched.
Released(r) == row

\* The endpoint raises, before its commit or after it.
Fail(r) ==
  /\ pc[r] \in {"running", "committed"}
  /\ row' = Released(r)
  /\ holder' = RolledBack(r)
  /\ Tell(r, "error")
  /\ UNCHANGED <<session_active, effects, swept>>

Respond(r) ==
  /\ pc[r] = "committed"
  /\ Go(r, "closing")
  /\ answer' = [answer EXCEPT ![r] = "own"]
  /\ UNCHANGED <<row, holder, session_active, effects, swept>>

\* complete: finds the row by user and key, and fills it if nobody has.  An
\* UPDATE that finds the row deleted by an open transaction waits: if that
\* one commits, it changes nothing (the second disjunct); if it rolls back,
\* the UPDATE is as one that begins then.
Complete(r) ==
  /\ pc[r] = "closing"
  /\ \/ /\ holder = Nobody \/ ~Visible
        /\ row' = IF row.state = "committed"
                  THEN [row EXCEPT !.state = "completed", !.response = r]
                  ELSE row
     \/ holder # Nobody /\ Visible /\ UNCHANGED row
  /\ Go(r, "answered")
  /\ UNCHANGED <<answer, holder, session_active, effects, swept>>

\* The process dies: what was not committed is rolled back.
Crash(r) ==
  /\ pc[r] \notin {"idle", "answered"}
  /\ holder' = RolledBack(r)
  /\ Go(r, "answered")
  /\ answer' = [answer EXCEPT ![r] = IF @ = "none" THEN "lost" ELSE @]
  /\ UNCHANGED <<row, session_active, effects, swept>>

-----------------------------------------------------------------------------
(* The clock and the scheduler.                                            *)

\* A row expires after 24 hours, when no request of its time is left.
CanAge ==
  /\ Current
  /\ row.age = Stale =>
       \A r \in Requests : pc[r] \notin {"running", "committed", "closing"}

\* With the row the life of the key ends: a repeat may run the command again.
Age ==
  /\ CanAge
  /\ row' = [row EXCEPT !.age = @ + 1]
  /\ IF row.age = Stale THEN effects' = {} /\ swept' = {}
                        ELSE UNCHANGED <<effects, swept>>
  /\ UNCHANGED <<pc, answer, holder, session_active>>

\* purge_expired, once an hour.
Purge ==
  /\ Visible /\ row.age = Expired /\ holder = Nobody
  /\ row' = Absent
  /\ UNCHANGED <<pc, answer, holder, session_active, effects, swept>>

-----------------------------------------------------------------------------
Serve(r) ==
  \/ Insert(r) \/ Look(r) \/ Forget(r) \/ Commit(r) \/ Respond(r) \/ Complete(r)
  \/ Doomed(r) /\ Fail(r)

Trouble(r) == SucceedWithoutCommit(r) \/ Fail(r) \/ Crash(r)

Next ==
  \/ \E r \in Requests : Arrive(r) \/ Serve(r) \/ Trouble(r)
  \/ Age \/ Purge

\* A request that has arrived is served: the event loop and the database go
\* on.  Arrivals, failures and the clock are left to chance.
Fairness == \A r \in Requests : WF_vars(Serve(r))

Spec == Init /\ [][Next]_vars /\ Fairness

-----------------------------------------------------------------------------
(* Properties.                                                             *)

(* The command is carried out at most once in a life of the key, whatever  *)
(* retries, duplicates, late failures and crashes occur (ADR-019).  One    *)
(* window is left, and nothing else: a request that read the row when it   *)
(* had expired may delete a successor of it that has not, and each command *)
(* above the first takes one such deletion.                                *)
AtMostOnce == \A a, b \in effects \ swept : a = b

(* The row that retries see stands for a change that was really made, and  *)
(* every change made in this life is represented, but for those whose row  *)
(* was deleted through that window: no crash, rollback, purge or failure   *)
(* separates them.                                                         *)
RowTracksEffect ==
  /\ Current <=> effects \ swept # {}
  /\ Current => row.owner \in effects \ swept

(* Who is told that the command is done - by a stored response, or by      *)
(* IDEMPOTENCY_OUTCOME_UNKNOWN - sent the very command that was done.      *)
ToldDoneIsDone ==
  [][\A r \in Requests :
       answer'[r] # answer[r] /\ answer'[r] \in {"replay", "outcome_unknown"} =>
         \E e \in effects : Hash[e] = Hash[r]]_vars

(* Every request is answered: no duplicate waits for ever behind the key,  *)
(* not even when the first request died between its two commits.           *)
EveryRequestAnswered ==
  \A r \in Requests : pc[r] = "inserting" ~> pc[r] = "answered"

(* ADR-019: a repeat gets the status and body stored for its request.  The *)
(* response in the row is one of the command the row was reserved for.     *)
StoredResponseIsOwn ==
  Current /\ row.state = "completed" => Hash[row.response] = Hash[row.owner]

(* ADR-019 again: while the response of a command is stored, a repeat of   *)
(* that command is not refused on other grounds.                           *)
RepeatGetsStored ==
  [][\A r \in Requests :
       answer'[r] # answer[r] /\ Current /\ row.state = "completed"
         /\ Hash[row.owner] = Hash[r]
         => answer'[r] # "session_not_active"]_vars
=============================================================================
