-------------------------- MODULE IdempotencyProofs -------------------------
(***************************************************************************)
(* Theorems about Idempotency, for any number of requests, any commands    *)
(* and any interleaving of commits, failures, crashes and the clock.       *)
(***************************************************************************)
EXTENDS Idempotency, TLAPS

\* The only running command is the one whose open transaction holds the key,
\* and a request whose command has taken effect never runs again; this is what
\* makes the properties of the row inductive.
OneRunning ==
  \A r \in Requests : pc[r] = "running" => holder = r

EffectsAreOver ==
  \A r \in effects : pc[r] \in {"committed", "closing", "answered"}

KeyInv == TypeOK /\ OneRunning /\ EffectsAreOver /\ RowTracksEffect /\ AtMostOnce

LEMMA KeyInit == Init => KeyInv
BY IdempotencyAssumption
DEF Init, KeyInv, TypeOK, OneRunning, EffectsAreOver, RowTracksEffect, AtMostOnce, Visible,
    Current, Absent, Places, Answers, Fresh, Stale, Expired

LEMMA KeyStep ==
  ASSUME KeyInv, NEW r \in Requests, Arrive(r) \/ Serve(r) \/ Trouble(r)
  PROVE  KeyInv'
<1> USE IdempotencyAssumption
    DEF KeyInv, TypeOK, OneRunning, EffectsAreOver, RowTracksEffect, AtMostOnce, Visible,
        Current, Absent, Reserved, Places, Answers, Fresh, Stale, Expired, Go, Tell
<1>1. CASE Arrive(r)
  BY <1>1 DEF Arrive
<1>2. CASE Insert(r)
  BY <1>2 DEF Insert, Insertion
<1>3. CASE Look(r)
  BY <1>3 DEF Look
<1>4. CASE Forget(r)
  BY <1>4 DEF Forget
<1>5. CASE Commit(r)
  BY <1>5 DEF Commit
<1>6. CASE SucceedWithoutCommit(r)
  BY <1>6 DEF SucceedWithoutCommit, RolledBack
<1>7. CASE Fail(r)
  BY <1>7 DEF Fail, Released, RolledBack
<1>8. CASE Respond(r)
  BY <1>8 DEF Respond
<1>9. CASE Complete(r)
  <2>1. row'.state = row.state \/ (row.state = "committed" /\ row'.state = "completed")
    BY <1>9 DEF Complete
  <2>2. row'.owner = row.owner /\ row'.age = row.age
    BY <1>9 DEF Complete
  <2>3. Visible' = Visible /\ Current' = Current
    BY <2>1, <2>2
  <2>4. RowTracksEffect' /\ AtMostOnce'
    BY <1>9, <2>2, <2>3 DEF Complete
  <2>5. EffectsAreOver' /\ OneRunning'
    BY <1>9 DEF Complete
  <2>6. TypeOK'
    <3>1. CASE row.state = "committed" /\ row' = [row EXCEPT !.state = "completed", !.response = r]
      BY <1>9, <3>1 DEF Complete
    <3>2. CASE row' = row
      BY <1>9, <3>2 DEF Complete
    <3>3. QED
      BY <1>9, <3>1, <3>2 DEF Complete
  <2>7. QED
    BY <2>4, <2>5, <2>6
<1>10. CASE Crash(r)
  BY <1>10 DEF Crash, RolledBack
<1>11. QED
  BY <1>1, <1>2, <1>3, <1>4, <1>5, <1>6, <1>7, <1>8, <1>9, <1>10 DEF Serve, Trouble

LEMMA ClockStep ==
  ASSUME KeyInv, Age \/ Purge
  PROVE  KeyInv'
<1> USE IdempotencyAssumption
    DEF KeyInv, TypeOK, OneRunning, EffectsAreOver, RowTracksEffect, AtMostOnce, Visible,
        Current, Absent, Places, Answers, Fresh, Stale, Expired
<1>1. CASE Age
  BY <1>1 DEF Age, CanAge
<1>2. CASE Purge
  BY <1>2 DEF Purge
<1>3. QED
  BY <1>1, <1>2

LEMMA KeyInvariant == Spec => []KeyInv
<1>1. KeyInv /\ [Next]_vars => KeyInv'
  <2> SUFFICES ASSUME KeyInv, [Next]_vars PROVE KeyInv'
    OBVIOUS
  <2>1. CASE UNCHANGED vars
    BY <2>1 DEF vars, KeyInv, TypeOK, OneRunning, EffectsAreOver, RowTracksEffect,
                AtMostOnce, Visible, Current
  <2>2. QED
    BY <2>1, KeyStep, ClockStep DEF Next
<1>2. QED
  BY <1>1, KeyInit, PTL DEF Spec

(* A command sent under a key is carried out at most once in a life of the *)
(* key, but for what a request that read an expired row deletes of a later *)
(* one.                                                                    *)
THEOREM CommandAtMostOnce == Spec => []AtMostOnce
<1>1. KeyInv => AtMostOnce
  BY DEF KeyInv
<1>2. QED
  BY <1>1, KeyInvariant, PTL

(* The row other requests see and the change it stands for exist together, *)
(* with the same exception.                                                *)
THEOREM RowAndEffectTogether == Spec => []RowTracksEffect
<1>1. KeyInv => RowTracksEffect
  BY DEF KeyInv
<1>2. QED
  BY <1>1, KeyInvariant, PTL

(* Nobody is told that a command is done unless that very command is done. *)
THEOREM NoFalseReceipt == Spec => ToldDoneIsDone
<1>1. KeyInv /\ [Next]_vars =>
        [\A r \in Requests :
           answer'[r] # answer[r] /\ answer'[r] \in {"replay", "outcome_unknown"} =>
             \E e \in effects : Hash[e] = Hash[r]]_vars
  <2> SUFFICES ASSUME KeyInv, Next, NEW r \in Requests, answer'[r] # answer[r],
                      answer'[r] \in {"replay", "outcome_unknown"}
               PROVE  \E e \in effects : Hash[e] = Hash[r]
    OBVIOUS
  <2>1. answer \in [Requests -> Answers]
    BY DEF KeyInv, TypeOK
  <2>2. PICK q \in Requests : Arrive(q) \/ Serve(q) \/ Trouble(q)
    BY DEF Next, Age, Purge
  <2>3. Look(q) /\ Current /\ (q = r => SameCommand(q))
    BY <2>1, <2>2 DEF Arrive, Serve, Trouble, Insert, Look, Forget, Commit,
                      SucceedWithoutCommit, Fail, Respond, Complete, Crash, Go, Tell
  <2>4. q = r
    BY <2>1, <2>3 DEF Look, Tell
  <2>5. row.owner \in effects /\ Hash[row.owner] = Hash[r]
    BY <2>3, <2>4 DEF KeyInv, RowTracksEffect, SameCommand
  <2>6. QED
    BY <2>5
<1>2. QED
  BY <1>1, KeyInvariant, PTL DEF Spec, ToldDoneIsDone

(* Every request, the row and what holds the key keep their types; nobody  *)
(* holds the key once answered.                                            *)
THEOREM KeyTypeCorrect == Spec => []TypeOK
<1>1. KeyInv => TypeOK
  BY DEF KeyInv
<1>2. QED
  BY <1>1, KeyInvariant, PTL

-----------------------------------------------------------------------------
(* The stored response.  Between its commit and complete a command can rely *)
(* on its row, unless that was swept away: a row does not expire while      *)
(* requests of its time are left.  A command that has not committed has no  *)
(* such hold on any row.                                                    *)

Holds(r) == pc[r] = "committed" \/ (pc[r] = "closing" /\ Hash[r] \notin NoOps)

RowsHeld ==
  \A r \in Requests : Holds(r) => r \in swept \/ (Current /\ row.owner = r)

\* The response is the one of the command that owns the row, of one that
\* answered without a commit, or of one whose own row was swept away.
StoredResponseOrigin ==
  Current /\ row.state = "completed" =>
    \/ row.response = row.owner
    \/ Hash[row.response] \in NoOps
    \/ row.response \in swept

ResponseInv == RowsHeld /\ StoredResponseOrigin

LEMMA ResponseStep ==
  ASSUME KeyInv, ResponseInv, [Next]_vars
  PROVE  ResponseInv'
<1> USE DEF ResponseInv, RowsHeld, StoredResponseOrigin, Holds, KeyInv, TypeOK, OneRunning,
            Visible, Current, Absent, Reserved, Fresh, Stale, Expired, Go, Tell
<1>1. ASSUME NEW r \in Requests, Arrive(r) \/ Serve(r) \/ Trouble(r)
      PROVE  ResponseInv'
  <2>1. CASE Arrive(r)
    BY <2>1 DEF Arrive
  <2>2. CASE Insert(r)
    BY <2>2 DEF Insert, Insertion
  <2>3. CASE Look(r)
    BY <2>3 DEF Look
  <2>4. CASE Forget(r)
    BY <2>4 DEF Forget
  <2>5. CASE Commit(r)
    BY <2>5 DEF Commit
  <2>6. CASE SucceedWithoutCommit(r)
    BY <2>6 DEF SucceedWithoutCommit
  <2>7. CASE Fail(r)
    BY <2>7 DEF Fail, Released
  <2>8. CASE Respond(r)
    BY <2>8 DEF Respond
  <2>9. CASE Complete(r)
    BY <2>9 DEF Complete
  <2>10. CASE Crash(r)
    BY <2>10 DEF Crash
  <2>11. QED
    BY <1>1, <2>1, <2>2, <2>3, <2>4, <2>5, <2>6, <2>7, <2>8, <2>9, <2>10 DEF Serve, Trouble
<1>2. CASE Age
  BY <1>2 DEF Age, CanAge
<1>3. CASE Purge
  BY <1>3 DEF Purge
<1>4. CASE UNCHANGED vars
  BY <1>4 DEF vars
<1>5. QED
  BY <1>1, <1>2, <1>3, <1>4 DEF Next

LEMMA ResponseInvariant == Spec => []ResponseInv
<1>1. Init => ResponseInv
  BY DEF Init, ResponseInv, RowsHeld, StoredResponseOrigin, Holds, Absent, Visible, Current
<1>2. QED
  BY <1>1, ResponseStep, KeyInvariant, PTL DEF Spec

(* A repeat gets the response stored for its command, as ADR-019 promises,  *)
(* except for what two kinds of requests leave there: one that answered     *)
(* without a commit, and one whose row was swept away before it expired.    *)
THEOREM StoredResponseHasOrigin == Spec => []StoredResponseOrigin
<1>1. ResponseInv => StoredResponseOrigin
  BY DEF ResponseInv
<1>2. QED
  BY <1>1, ResponseInvariant, PTL

(* So where every command that succeeds commits, the promise is kept in     *)
(* each life of the key in which no row is swept away.                      *)
THEOREM StoredResponseKept ==
  ASSUME NoOps = {}
  PROVE  Spec => [](swept = {} => StoredResponseIsOwn)
<1>1. StoredResponseOrigin => (swept = {} => StoredResponseIsOwn)
  BY DEF StoredResponseOrigin, StoredResponseIsOwn
<1>2. QED
  BY <1>1, StoredResponseHasOrigin, PTL
=============================================================================
