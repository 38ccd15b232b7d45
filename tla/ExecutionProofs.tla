--------------------------- MODULE ExecutionProofs ---------------------------
(***************************************************************************)
(* Theorems about Execution, for any people, objects, revisions, bases and *)
(* bounds.                                                                 *)
(***************************************************************************)
EXTENDS Execution, TLAPS

USE ExecutionAssumption

-----------------------------------------------------------------------------
(* Which handlers touch the sessions.                                      *)

\* A session is claimed, one ends, or the sessions stay as they are.
LEMMA SessionCases ==
  ASSUME [Next]_vars
  PROVE  \/ \E u \in Users, role \in {"executor", "reviewer"}, facts \in FactSets :
              Claim(u, role, facts)
         \/ \E w \in Requests, u \in Users, i \in DOMAIN sessions,
              state \in {"completed", "released"} : EndSession(w, u, i, state)
         \/ sessions' = sessions
<1>1. ASSUME NEW u \in Users, PortfolioStep(u)
      PROVE  sessions' = sessions
  BY <1>1 DEF PortfolioStep, SetLink, RemoveLink, AddBasis, RemoveBasis, AddBlocker,
       ResolveBlocker, DecideAssessment, work
<1>2. ASSUME NEW u \in Users, TaskStep(u)
      PROVE  sessions' = sessions
  BY <1>2 DEF TaskStep, IssuePackage, Reassign, DeleteTask, work
<1>3. ASSUME NEW w \in Requests, ArrivalStep(w)
      PROVE  sessions' = sessions
  BY <1>3 DEF ArrivalStep, ReadAssessment, FindSession, ReadObject, ImportProposal, UpdateObject, Fail,
       Begins, work
<1>4. ASSUME ImportStep
      PROVE  sessions' = sessions
  BY <1>4 DEF ImportStep, CommitImport, ReconcileObject, work
<1>5. CASE UNCHANGED vars
  BY <1>5 DEF vars, work
<1>6. QED
  BY <1>1, <1>2, <1>3, <1>4, <1>5 DEF Next, SessionStep

\* What a claim does to the executor's sessions.
LEMMA ClaimEffect ==
  ASSUME TypeOK, NEW u \in Users, NEW role \in {"executor", "reviewer"},
         NEW facts \in FactSets, Claim(u, role, facts)
  PROVE  /\ DOMAIN sessions' = DOMAIN sessions \cup {Len(sessions) + 1}
         /\ Len(sessions) + 1 \notin DOMAIN sessions
         /\ \A i \in DOMAIN sessions : sessions'[i] = sessions[i]
         /\ sessions'[Len(sessions) + 1] =
              [user |-> u, role |-> role, state |-> "active", gated |-> link.on]
         /\ role = "executor" => ActiveExecutors = {} /\ Ready(facts)
<1>1. sessions \in Seq(Session)
  BY DEF TypeOK
<1>2. sessions' = Append(sessions,
        [user |-> u, role |-> role, state |-> "active", gated |-> link.on])
  BY DEF Claim
<1>3. role = "executor" => ActiveExecutors = {} /\ Ready(facts)
  BY DEF Claim, MayExecute, FreeToExecute
<1>4. QED
  BY <1>1, <1>2, <1>3

\* What the end of a session does to the sessions.
LEMMA EndEffect ==
  ASSUME TypeOK, NEW w \in Requests, NEW u \in Users, NEW i \in DOMAIN sessions,
         NEW state \in {"completed", "released"}, EndSession(w, u, i, state)
  PROVE  /\ DOMAIN sessions' = DOMAIN sessions
         /\ sessions[i].state = "active"
         /\ sessions'[i] = [sessions[i] EXCEPT !.state = state]
         /\ \A j \in DOMAIN sessions : j # i => sessions'[j] = sessions[j]
<1>1. sessions \in Seq(Session)
  BY DEF TypeOK
<1>2. /\ sessions' = [sessions EXCEPT ![i].state = state]
      /\ sessions[i].state = "active"
  BY DEF EndSession, StillActive
<1>3. QED
  BY <1>1, <1>2

-----------------------------------------------------------------------------
(* Type correctness.                                                       *)

\* What an import or a decision under way has read.
LEMMA RequestShape ==
  ASSUME NEW r \in Request
  PROVE  /\ r.kind \in {"idle", "decide", "end", "read", "import", "proposal"}
         /\ r.kind = "decide" => r.key \in Key
         /\ r.kind \in {"read", "import", "proposal"} =>
              r.object \in Objects /\ r.revision \in Revisions /\ r.first \in BOOLEAN
         /\ r.kind \in {"import", "proposal"} => r.found \subseteq Nat
BY DEF Request, Idle

LEMMA InitType == Init => TypeOK
<1> SUFFICES ASSUME Init PROVE TypeOK
  OBVIOUS
<1>1. bases \in Seq(BasisRow)
  <2>1. InitialBases \in Seq(Basis)
    OBVIOUS
  <2>2. \A b \in DOMAIN InitialBases : InitialBases[b] \in Basis
    BY <2>1
  <2>3. \A b \in DOMAIN InitialBases : [pin |-> InitialBases[b], removed |-> FALSE] \in BasisRow
    BY <2>2 DEF BasisRow
  <2>4. bases = [b \in 1 .. Len(InitialBases) |-> [pin |-> InitialBases[b], removed |-> FALSE]]
    BY <2>1 DEF Init
  <2>5. QED
    BY <2>1, <2>3, <2>4
<1>2. package \in SUBSET Basis
  BY DEF Init
<1>3. /\ blockers \in Seq(Blocker) /\ sessions \in Seq(Session)
      /\ assessments = {} /\ checkpoints = {} /\ stopped = {}
  BY DEF Init
<1>4. request \in [Requests -> Request]
  BY DEF Init, Request, Idle
<1>5. QED
  BY <1>1, <1>2, <1>3, <1>4 DEF Init, TypeOK

LEMMA SettingType ==
  ASSUME TypeOK, NEW u \in Users,
         \/ \E regulation \in Regulations : SetLink(u, regulation)
         \/ RemoveLink(u)
         \/ TaskStep(u)
  PROVE  TypeOK'
<1>1. ASSUME NEW regulation \in Regulations, SetLink(u, regulation)
      PROVE  TypeOK'
  BY <1>1 DEF SetLink, Act, Link, TypeOK, work
<1>2. ASSUME RemoveLink(u)
      PROVE  TypeOK'
  BY <1>2 DEF RemoveLink, Standalone, Act, Link, TypeOK, work
<1>3. ASSUME IssuePackage(u)
      PROVE  TypeOK'
  <2>1. PinnedBases \subseteq Basis
    <3>1. \A b \in DOMAIN bases : bases[b] \in BasisRow
      BY DEF TypeOK
    <3>2. \A b \in DOMAIN bases : bases[b].pin \in Basis
      BY <3>1 DEF BasisRow
    <3>3. QED
      BY <3>2 DEF PinnedBases, Live
  <2>2. QED
    BY <1>3, <2>1 DEF IssuePackage, Act, TypeOK, work
<1>4. ASSUME NEW assignee \in Users \cup {NoUser}, Reassign(u, assignee)
      PROVE  TypeOK'
  BY <1>4 DEF Reassign, Act, TypeOK, work
<1>5. ASSUME DeleteTask(u)
      PROVE  TypeOK'
  BY <1>5 DEF DeleteTask, Act, TypeOK, work
<1>6. QED
  BY <1>1, <1>2, <1>3, <1>4, <1>5 DEF TaskStep

LEMMA BasisType ==
  ASSUME TypeOK, NEW u \in Users,
         \/ \E pin \in Offers : AddBasis(u, pin)
         \/ \E b \in DOMAIN bases : RemoveBasis(u, b)
  PROVE  TypeOK'
<1>1. ASSUME NEW pin \in Offers, AddBasis(u, pin)
      PROVE  TypeOK'
  <2>1. [pin |-> pin, removed |-> FALSE] \in BasisRow
    BY DEF BasisRow
  <2>2. bases' \in Seq(BasisRow)
    BY <1>1, <2>1 DEF AddBasis, TypeOK
  <2>3. QED
    BY <1>1, <2>2 DEF AddBasis, Act, TypeOK, work
<1>2. ASSUME NEW b \in DOMAIN bases, RemoveBasis(u, b)
      PROVE  TypeOK'
  <2>1. [bases[b] EXCEPT !.removed = TRUE] \in BasisRow
    <3>1. bases[b] \in BasisRow
      BY DEF TypeOK
    <3>2. QED
      BY <3>1 DEF BasisRow
  <2>2. bases' \in Seq(BasisRow)
    BY <1>2, <2>1 DEF RemoveBasis, TypeOK
  <2>3. QED
    BY <1>2, <2>2 DEF RemoveBasis, Act, TypeOK, work
<1>3. QED
  BY <1>1, <1>2

LEMMA BlockerType ==
  ASSUME TypeOK, NEW u \in Users,
         \/ AddBlocker(u)
         \/ \E k \in DOMAIN blockers : ResolveBlocker(u, k)
  PROVE  TypeOK'
<1>1. ASSUME AddBlocker(u)
      PROVE  TypeOK'
  <2>1. [cause |-> Manual, resolved |-> FALSE] \in Blocker
    BY DEF Blocker, Manual, Key
  <2>2. blockers' \in Seq(Blocker)
    BY <1>1, <2>1 DEF AddBlocker, TypeOK
  <2>3. QED
    BY <1>1, <2>2 DEF AddBlocker, Act, TypeOK
<1>2. ASSUME NEW k \in DOMAIN blockers, ResolveBlocker(u, k)
      PROVE  TypeOK'
  <2>1. [blockers[k] EXCEPT !.resolved = TRUE] \in Blocker
    <3>1. blockers[k] \in Blocker
      BY DEF TypeOK
    <3>2. QED
      BY <3>1 DEF Blocker
  <2>2. blockers' \in Seq(Blocker)
    BY <1>2, <2>1 DEF ResolveBlocker, TypeOK
  <2>3. QED
    BY <1>2, <2>2 DEF ResolveBlocker, TypeOK, setting
<1>3. QED
  BY <1>1, <1>2

LEMMA SessionType ==
  ASSUME TypeOK, NEW u \in Users, SessionStep(u)
  PROVE  TypeOK'
<1>1. ASSUME NEW role \in {"executor", "reviewer"}, NEW facts \in FactSets,
             Claim(u, role, facts)
      PROVE  TypeOK'
  <2>1. [user |-> u, role |-> role, state |-> "active", gated |-> link.on] \in Session
    BY DEF Session, TypeOK, Link
  <2>2. sessions' \in Seq(Session)
    BY <1>1, <2>1 DEF Claim, TypeOK
  <2>3. QED
    BY <1>1, <2>2 DEF Claim, TypeOK, setting
<1>2. ASSUME NEW w \in Requests, NEW i \in DOMAIN sessions,
             NEW state \in {"completed", "released"}, EndSession(w, u, i, state)
      PROVE  TypeOK'
  <2>1. [sessions[i] EXCEPT !.state = state] \in Session
    <3>1. sessions[i] \in Session
      BY DEF TypeOK
    <3>2. QED
      BY <3>1 DEF Session
  <2>2. sessions' \in Seq(Session)
    BY <1>2, <2>1 DEF EndSession, TypeOK
  <2>3. QED
    BY <1>2, <2>2 DEF EndSession, Ends, Request, TypeOK, setting
<1>3. QED
  BY <1>1, <1>2 DEF SessionStep

LEMMA DecideType ==
  ASSUME TypeOK, NEW w \in Requests, NEW u \in Users, NEW decision \in Decisions,
         DecideAssessment(w, u, decision)
  PROVE  TypeOK'
<1>1. PICK a \in LiveAssessments :
        /\ a.key = request[w].key
        /\ assessments' = (assessments \ {a}) \cup {[a EXCEPT !.decision = decision]}
        /\ Consequences(a, decision)
  BY DEF DecideAssessment
<1>2. /\ a \in Assessment /\ a.key.basis \in DOMAIN bases
      /\ a.key \in Key /\ a.new \in Revisions
  BY DEF LiveAssessments, Live, TypeOK, Assessment
<1>3. assessments' \subseteq Assessment
  BY <1>1, <1>2 DEF TypeOK, Assessment
<1>4. bases' \in Seq(BasisRow)
  <2> DEFINE row == bases[a.key.basis]
             moved == [row EXCEPT !.pin = [row.pin EXCEPT !.revision = a.new]]
  <2>1. row \in BasisRow
    BY <1>2 DEF TypeOK
  <2>2. [row.pin EXCEPT !.revision = a.new] \in Basis
    BY <1>2, <2>1 DEF BasisRow, Basis
  <2>3. moved \in BasisRow
    BY <2>1, <2>2 DEF BasisRow
  <2>4. \/ bases' = bases
        \/ bases' = [bases EXCEPT ![a.key.basis] = moved]
    BY <1>1 DEF Consequences
  <2>5. bases \in Seq(BasisRow)
    BY DEF TypeOK
  <2> HIDE DEF moved
  <2>6. QED
    BY <1>2, <2>3, <2>4, <2>5
<1>5. blockers' \in Seq(Blocker)
  <2>1. [cause |-> a.key, resolved |-> FALSE] \in Blocker
    BY <1>2 DEF Blocker
  <2>2. blockers \in Seq(Blocker)
    BY DEF TypeOK
  <2>3. QED
    BY <1>1, <2>1, <2>2 DEF Consequences
<1>6. checkpoints' \subseteq Checkpoint
  BY <1>1, <1>2 DEF Consequences, TypeOK, Checkpoint, Note, Told, ActiveExecutors
<1>7. stopped' \subseteq Key
  BY <1>1, <1>2 DEF Consequences, TypeOK
<1>8. request' \in [Requests -> Request]
  BY DEF DecideAssessment, Ends, TypeOK, Request
<1>9. QED
  BY <1>3, <1>4, <1>5, <1>6, <1>7, <1>8 DEF DecideAssessment, TypeOK, setting

LEMMA RequestType ==
  ASSUME TypeOK, NEW w \in Requests, ArrivalStep(w)
  PROVE  TypeOK'
<1>1. ASSUME NEW what \in Request, Begins(w, what)
      PROVE  TypeOK'
  BY <1>1 DEF Begins, TypeOK, setting, work
<1>2. ASSUME ReadAssessment(w)
      PROVE  TypeOK'
  <2>1. PICK a \in Pending : Begins(w, [kind |-> "decide", key |-> a.key])
    BY <1>2 DEF ReadAssessment
  <2>2. a.key \in Key
    BY DEF Pending, LiveAssessments, TypeOK, Assessment
  <2>3. QED
    BY <1>1, <2>1, <2>2 DEF Request
<1>3. ASSUME NEW pin \in Arrivals, ReadObject(w, pin[1], pin[2])
      PROVE  TypeOK'
  <2>1. pin[1] \in Objects /\ pin[2] \in Revisions
    BY DEF Pin
  <2>2. [kind |-> "read", object |-> pin[1], revision |-> pin[2],
         first |-> objects[pin[1]].current = None] \in Request
    BY <2>1 DEF Request
  <2>3. QED
    BY <1>1, <1>3, <2>2 DEF ReadObject
<1>4. \A o \in Objects, r \in Revisions : Outdated(o, r) \subseteq Nat
  <2>1. DOMAIN bases \subseteq Nat
    BY DEF TypeOK
  <2>2. QED
    BY <2>1 DEF Outdated, Live
<1>5. ASSUME NEW pin \in Arrivals, ImportProposal(w, pin[1], pin[2])
      PROVE  TypeOK'
  <2>1. pin[1] \in Objects /\ pin[2] \in Revisions
    BY DEF Pin
  <2>2. [kind |-> "proposal", object |-> pin[1], revision |-> pin[2], first |-> FALSE,
         found |-> Outdated(pin[1], pin[2])] \in Request
    BY <1>4, <2>1 DEF Request
  <2>3. QED
    BY <1>1, <1>5, <2>2 DEF ImportProposal
<1>6. ASSUME UpdateObject(w)
      PROVE  TypeOK'
  <2> DEFINE r == request[w]
             read == [kind |-> "import", object |-> r.object, revision |-> r.revision,
                      first |-> r.first,
                      found |-> IF r.first THEN {} ELSE Outdated(r.object, r.revision)]
  <2>1. /\ r.object \in Objects /\ r.revision \in Revisions /\ r.first \in BOOLEAN
    BY <1>6, RequestShape DEF UpdateObject, TypeOK
  <2>2. read \in Request
    BY <1>4, <2>1 DEF Request
  <2>3. request' = [request EXCEPT ![w] = read]
    BY <1>6 DEF UpdateObject
  <2> HIDE DEF read
  <2>4. QED
    BY <1>6, <2>2, <2>3 DEF UpdateObject, TypeOK, setting, work
<1>7. ASSUME Fail(w)
      PROVE  TypeOK'
  BY <1>7 DEF Fail, Ends, Request, TypeOK, setting, work
<1>8. ASSUME FindSession(w)
      PROVE  TypeOK'
  <2>1. PICK i \in DOMAIN sessions : Begins(w, [kind |-> "end", session |-> i])
    BY <1>8 DEF FindSession
  <2>2. [kind |-> "end", session |-> i] \in Request
    BY DEF Request, TypeOK
  <2>3. QED
    BY <1>1, <2>1, <2>2
<1>9. QED
  BY <1>2, <1>3, <1>5, <1>6, <1>7, <1>8 DEF ArrivalStep

\* An import opens assessments of the bases it found, for its revision.
LEMMA OpenedShape ==
  ASSUME TypeOK, NEW w \in Requests, request[w].kind \in {"import", "proposal"},
         NEW a \in Opened(w)
  PROVE  /\ a \in Assessment
         /\ a.key.basis \in request[w].found
         /\ a.decision = "pending"
<1>1. /\ request[w].revision \in Revisions
      /\ request[w].found \subseteq Nat
  BY RequestShape DEF TypeOK
<1>2. PICK b \in request[w].found :
        a = [key |-> [basis |-> b, import |-> imports + 1],
             new |-> request[w].revision, decision |-> "pending"]
  BY DEF Opened
<1>3. b \in Nat /\ imports + 1 \in Nat
  BY <1>1 DEF TypeOK
<1>4. [basis |-> b, import |-> imports + 1] \in Key
  BY <1>3 DEF Key
<1>5. QED
  BY <1>1, <1>2, <1>4 DEF Assessment

LEMMA ImportType ==
  ASSUME TypeOK, ImportStep
  PROVE  TypeOK'
<1>1. ASSUME NEW w \in Requests, NEW state \in {"unconfirmed", "current"},
             CommitImport(w, state)
      PROVE  TypeOK'
  <2>1. /\ request[w].object \in Objects /\ request[w].revision \in Revisions
        /\ request[w].kind \in {"import", "proposal"}
    BY <1>1, RequestShape DEF CommitImport, TypeOK
  <2>2. objects' \in [Objects -> Object]
    <3>1. [current |-> request[w].revision, state |-> state] \in Object
      BY <2>1 DEF Object
    <3>2. QED
      BY <1>1, <2>1, <3>1 DEF CommitImport, TypeOK
  <2>3. assessments' \subseteq Assessment
    BY <1>1, <2>1, OpenedShape DEF CommitImport, TypeOK
  <2>4. checkpoints' \subseteq Checkpoint
    <3>1. ASSUME NEW i \in Told, NEW a \in Opened(w)
          PROVE  Note(i, a.key, "change") \in Checkpoint
      <4>1. i \in Nat
        BY DEF Told, ActiveExecutors, TypeOK
      <4>2. a.key \in Key
        BY <2>1, OpenedShape DEF Assessment
      <4>3. QED
        BY <4>1, <4>2 DEF Note, Checkpoint
    <3>2. Notices(w) \subseteq Checkpoint
      BY <3>1 DEF Notices
    <3>3. QED
      BY <1>1, <3>2 DEF CommitImport, TypeOK
  <2>5. request' \in [Requests -> Request]
    BY <1>1 DEF CommitImport, Ends, TypeOK, Request
  <2>6. QED
    BY <1>1, <2>2, <2>3, <2>4, <2>5 DEF CommitImport, TypeOK, setting
<1>2. ASSUME NEW pin \in Arrivals, NEW state \in {"current", "pending_reconciliation"},
             ReconcileObject(pin[1], state)
      PROVE  TypeOK'
  <2>1. pin[1] \in Objects
    BY DEF Pin
  <2>2. objects[pin[1]] \in Object
    BY <2>1 DEF TypeOK
  <2>3. [objects[pin[1]] EXCEPT !.state = state] \in Object
    BY <2>2 DEF Object
  <2>4. objects' \in [Objects -> Object]
    BY <1>2, <2>1, <2>3 DEF ReconcileObject, TypeOK
  <2>5. QED
    BY <1>2, <2>4 DEF ReconcileObject, TypeOK, setting, work
<1>3. QED
  BY <1>1, <1>2 DEF ImportStep

LEMMA TypeStep == TypeOK /\ [Next]_vars => TypeOK'
<1> SUFFICES ASSUME TypeOK, [Next]_vars PROVE TypeOK'
  OBVIOUS
<1>1. ASSUME NEW u \in Users, PortfolioStep(u)
      PROVE  TypeOK'
  BY <1>1, SettingType, BasisType, BlockerType, DecideType DEF PortfolioStep
<1>2. CASE UNCHANGED vars
  BY <1>2 DEF vars, setting, work, TypeOK
<1>3. QED
  BY <1>1, <1>2, SettingType, SessionType, RequestType, ImportType DEF Next

(* Every variable keeps its type, whatever requests overlap.               *)
THEOREM TypeCorrect == Spec => []TypeOK
BY InitType, TypeStep, PTL DEF Spec

-----------------------------------------------------------------------------
(* The sessions.                                                           *)

ExecutorSessions == {i \in DOMAIN sessions : sessions[i].role = "executor"}

\* An executor's claim takes a free task; a reviewer's takes nothing.
LEMMA ClaimHolds ==
  ASSUME TypeOK, NEW u \in Users, NEW role \in {"executor", "reviewer"},
         NEW facts \in FactSets, Claim(u, role, facts)
  PROVE  LET n == Len(sessions) + 1
         IN  /\ n \notin ExecutorSessions
             /\ IF role = "executor"
                THEN /\ ActiveExecutors = {} /\ ActiveExecutors' = {n}
                     /\ ExecutorSessions' = ExecutorSessions \cup {n}
                ELSE /\ ActiveExecutors' = ActiveExecutors
                     /\ ExecutorSessions' = ExecutorSessions
<1> DEFINE n == Len(sessions) + 1
           new == [user |-> u, role |-> role, state |-> "active", gated |-> link.on]
<1>1. /\ DOMAIN sessions' = DOMAIN sessions \cup {n}
      /\ n \notin DOMAIN sessions
      /\ \A i \in DOMAIN sessions : sessions'[i] = sessions[i]
      /\ sessions'[n].role = role /\ sessions'[n].state = "active"
      /\ role = "executor" => ActiveExecutors = {}
  <2>1. sessions \in Seq(Session)
    BY DEF TypeOK
  <2>2. sessions' = Append(sessions, new)
    BY DEF Claim
  <2>3. role = "executor" => ActiveExecutors = {}
    BY DEF Claim, MayExecute, FreeToExecute
  <2>4. QED
    BY <2>1, <2>2, <2>3
<1> HIDE DEF n
<1>2. ExecutorSessions' = IF role = "executor" THEN ExecutorSessions \cup {n} ELSE ExecutorSessions
  BY <1>1 DEF ExecutorSessions
<1>3. ActiveExecutors' = IF role = "executor" THEN ActiveExecutors \cup {n} ELSE ActiveExecutors
  BY <1>1 DEF ActiveExecutors
<1>4. n \notin ExecutorSessions
  BY <1>1 DEF ExecutorSessions
<1>5. QED
  BY <1>1, <1>2, <1>3, <1>4 DEF n

\* The end of a session lets go of what it held, and of nothing else.
LEMMA EndLetsGo ==
  ASSUME TypeOK, NEW w \in Requests, NEW u \in Users, NEW i \in DOMAIN sessions,
         NEW state \in {"completed", "released"}, EndSession(w, u, i, state)
  PROVE  /\ ExecutorSessions' = ExecutorSessions
         /\ ActiveExecutors' = ActiveExecutors \ {i}
<1>1. sessions[i] \in Session
  BY DEF TypeOK
<1>2. /\ DOMAIN sessions' = DOMAIN sessions
      /\ sessions'[i] = [sessions[i] EXCEPT !.state = state]
      /\ \A j \in DOMAIN sessions : j # i => sessions'[j] = sessions[j]
  BY <1>1 DEF EndSession, TypeOK
<1>3. sessions'[i].role = sessions[i].role /\ sessions'[i].state # "active"
  BY <1>1, <1>2 DEF Session
<1>4. QED
  BY <1>2, <1>3 DEF ExecutorSessions, ActiveExecutors

LEMMA OneExecutorStep == TypeOK /\ OneExecutor /\ [Next]_vars => OneExecutor'
<1> SUFFICES ASSUME TypeOK, OneExecutor, [Next]_vars PROVE OneExecutor'
  OBVIOUS
<1>1. ASSUME NEW u \in Users, NEW role \in {"executor", "reviewer"}, NEW facts \in FactSets,
             Claim(u, role, facts)
      PROVE  OneExecutor'
  <2>1. ActiveExecutors' \in {{Len(sessions) + 1}, ActiveExecutors}
    BY <1>1, ClaimHolds
  <2>2. QED
    BY <2>1 DEF OneExecutor
<1>2. ASSUME NEW w \in Requests, NEW u \in Users, NEW i \in DOMAIN sessions,
             NEW state \in {"completed", "released"}, EndSession(w, u, i, state)
      PROVE  OneExecutor'
  <2>1. ActiveExecutors' \subseteq ActiveExecutors
    BY <1>2, EndLetsGo
  <2>2. QED
    BY <2>1 DEF OneExecutor
<1>3. CASE sessions' = sessions
  BY <1>3 DEF OneExecutor, ActiveExecutors
<1>4. QED
  BY <1>1, <1>2, <1>3, SessionCases

(* TT-12: the task never has two active executor sessions.                 *)
THEOREM OneExecutorAlways == Spec => []OneExecutor
<1>1. Init => OneExecutor
  BY DEF Init, OneExecutor, ActiveExecutors
<1>2. QED
  BY <1>1, TypeCorrect, OneExecutorStep, PTL DEF Spec

(* A session that has ended is never written again.                        *)
THEOREM SessionsEndOnce == Spec => EndsOnce
<1>1. TypeOK /\ [Next]_vars =>
        [\A i \in DOMAIN sessions : sessions[i].state # "active" => sessions'[i] = sessions[i]]_vars
  <2> SUFFICES ASSUME TypeOK, [Next]_vars,
                      NEW j \in DOMAIN sessions, sessions[j].state # "active"
               PROVE  sessions'[j] = sessions[j]
    OBVIOUS
  <2>1. ASSUME NEW u \in Users, NEW role \in {"executor", "reviewer"}, NEW facts \in FactSets,
               Claim(u, role, facts)
        PROVE  sessions'[j] = sessions[j]
    BY <2>1, ClaimEffect
  <2>2. ASSUME NEW w \in Requests, NEW u \in Users, NEW i \in DOMAIN sessions,
               NEW state \in {"completed", "released"}, EndSession(w, u, i, state)
        PROVE  sessions'[j] = sessions[j]
    BY <2>2, EndEffect
  <2>3. QED
    BY <2>1, <2>2, SessionCases
<1>2. QED
  BY <1>1, TypeCorrect, PTL DEF Spec, EndsOnce

LEMMA HoldStep ==
  TypeOK /\ OneExecutor /\ [Next]_vars => [Hold!Next]_<<ActiveExecutors, ExecutorSessions>>
<1> SUFFICES ASSUME TypeOK, OneExecutor, [Next]_vars
             PROVE  \/ Hold!Next
                    \/ ActiveExecutors' = ActiveExecutors /\ ExecutorSessions' = ExecutorSessions
  OBVIOUS
<1>1. ASSUME NEW u \in Users, NEW role \in {"executor", "reviewer"}, NEW facts \in FactSets,
             Claim(u, role, facts)
      PROVE  \/ Hold!Take
             \/ ActiveExecutors' = ActiveExecutors /\ ExecutorSessions' = ExecutorSessions
  BY <1>1, ClaimHolds DEF Hold!Take, ExecutorSessions
<1>2. ASSUME NEW w \in Requests, NEW u \in Users, NEW i \in DOMAIN sessions,
             NEW state \in {"completed", "released"}, EndSession(w, u, i, state)
      PROVE  \/ Hold!LetGo
             \/ ActiveExecutors' = ActiveExecutors /\ ExecutorSessions' = ExecutorSessions
  <2>1. /\ ExecutorSessions' = ExecutorSessions
        /\ ActiveExecutors' = ActiveExecutors \ {i}
    BY <1>2, EndLetsGo
  <2>2. CASE i \in ActiveExecutors
    <3>1. ActiveExecutors = {i}
      BY <2>2 DEF OneExecutor
    <3>2. QED
      BY <2>1, <3>1 DEF Hold!LetGo, ExecutorSessions
  <2>3. CASE i \notin ActiveExecutors
    BY <2>1, <2>3
  <2>4. QED
    BY <2>2, <2>3
<1>3. CASE sessions' = sessions
  BY <1>3 DEF ActiveExecutors, ExecutorSessions
<1>4. QED
  BY <1>1, <1>2, <1>3, SessionCases DEF Hold!Next

(* The executor's sessions implement the hold of TT-12: taken anew by one  *)
(* session at a time, let go once.                                         *)
THEOREM HoldImplemented == Spec => ImplementsHold
<1>1. Init => Hold!Init
  BY DEF Init, Hold!Init, ActiveExecutors
<1>2. QED
  BY <1>1, HoldStep, TypeCorrect, OneExecutorAlways, PTL
     DEF Spec, ImplementsHold, Hold!Spec, ExecutorSessions

-----------------------------------------------------------------------------
(* Blockers.                                                               *)

\* Blockers are added, or resolved; none goes or changes its cause.
BlockersGrow ==
  /\ blockers' \in Seq(Blocker)
  /\ DOMAIN blockers \subseteq DOMAIN blockers'
  /\ \A k \in DOMAIN blockers : blockers'[k].cause = blockers[k].cause

LEMMA BlockerCases ==
  ASSUME TypeOK, [Next]_vars
  PROVE  \/ blockers' = blockers /\ stopped' = stopped
         \/ BlockersGrow /\ stopped' = stopped
         \/ \E w \in Requests, u \in Users, decision \in Decisions :
              DecideAssessment(w, u, decision)
<1>1. ASSUME NEW u \in Users, PortfolioStep(u)
      PROVE  \/ blockers' = blockers /\ stopped' = stopped
             \/ BlockersGrow /\ stopped' = stopped
             \/ \E w \in Requests, decision \in Decisions : DecideAssessment(w, u, decision)
  <2>1. ASSUME AddBlocker(u)
        PROVE  BlockersGrow /\ stopped' = stopped
    <3>1. blockers' \in Seq(Blocker)
      BY <2>1, BlockerType DEF TypeOK
    <3>2. blockers \in Seq(Blocker)
      BY DEF TypeOK
    <3>3. QED
      BY <2>1, <3>1, <3>2 DEF AddBlocker, BlockersGrow
  <2>2. ASSUME NEW k \in DOMAIN blockers, ResolveBlocker(u, k)
        PROVE  BlockersGrow /\ stopped' = stopped
    <3>1. blockers' \in Seq(Blocker)
      BY <2>2, BlockerType DEF TypeOK
    <3>2. blockers \in Seq(Blocker)
      BY DEF TypeOK
    <3>3. [blockers[k] EXCEPT !.resolved = TRUE].cause = blockers[k].cause
      <4>1. blockers[k] \in Blocker
        BY <3>2
      <4>2. QED
        BY <4>1 DEF Blocker
    <3>4. QED
      BY <2>2, <3>1, <3>2, <3>3 DEF ResolveBlocker, BlockersGrow
  <2>3. ASSUME \/ \E regulation \in Regulations : SetLink(u, regulation)
               \/ RemoveLink(u)
               \/ \E pin \in Offers : AddBasis(u, pin)
               \/ \E b \in DOMAIN bases : RemoveBasis(u, b)
        PROVE  blockers' = blockers /\ stopped' = stopped
    BY <2>3 DEF SetLink, RemoveLink, AddBasis, RemoveBasis, work
  <2>4. QED
    BY <1>1, <2>1, <2>2, <2>3 DEF PortfolioStep
<1>2. ASSUME NEW u \in Users, SessionStep(u) \/ TaskStep(u)
      PROVE  blockers' = blockers /\ stopped' = stopped
  BY <1>2 DEF SessionStep, Claim, EndSession, TaskStep, IssuePackage, Reassign, DeleteTask, work
<1>3. ASSUME NEW w \in Requests, ArrivalStep(w)
      PROVE  blockers' = blockers /\ stopped' = stopped
  BY <1>3 DEF ArrivalStep, ReadAssessment, FindSession, ReadObject, ImportProposal, UpdateObject, Fail,
       Begins, work
<1>4. ASSUME ImportStep
      PROVE  blockers' = blockers /\ stopped' = stopped
  BY <1>4 DEF ImportStep, CommitImport, ReconcileObject, work
<1>5. CASE UNCHANGED vars
  BY <1>5 DEF vars, work
<1>6. QED
  BY <1>1, <1>2, <1>3, <1>4, <1>5 DEF Next

\* What makes StopHolds inductive: a decision that stops left its blocker.
StopsBlock == \A key \in stopped : \E k \in DOMAIN blockers : blockers[k].cause = key

LEMMA StopsBlockStep == TypeOK /\ StopsBlock /\ [Next]_vars => StopsBlock'
<1> SUFFICES ASSUME TypeOK, StopsBlock, [Next]_vars, NEW key \in stopped'
             PROVE  \E k \in DOMAIN blockers' : blockers'[k].cause = key
  BY DEF StopsBlock
<1>1. CASE blockers' = blockers /\ stopped' = stopped
  BY <1>1 DEF StopsBlock
<1>2. CASE BlockersGrow /\ stopped' = stopped
  BY <1>2 DEF StopsBlock, BlockersGrow
<1>3. ASSUME NEW w \in Requests, NEW u \in Users, NEW decision \in Decisions,
             DecideAssessment(w, u, decision)
      PROVE  \E k \in DOMAIN blockers' : blockers'[k].cause = key
  <2>1. PICK a \in LiveAssessments : Consequences(a, decision)
    BY <1>3 DEF DecideAssessment
  <2>2. blockers \in Seq(Blocker)
    BY DEF TypeOK
  <2>3. CASE Blocks(decision)
    <3> DEFINE new == [cause |-> a.key, resolved |-> FALSE]
    <3>1. blockers' = Append(blockers, new) /\ stopped' = stopped \cup {a.key}
      BY <2>1, <2>3 DEF Consequences, Blocks
    <3>2. /\ DOMAIN blockers' = DOMAIN blockers \cup {Len(blockers) + 1}
          /\ \A k \in DOMAIN blockers : blockers'[k] = blockers[k]
          /\ blockers'[Len(blockers) + 1].cause = a.key
      BY <2>2, <3>1
    <3>3. CASE key = a.key
      BY <3>2, <3>3
    <3>4. CASE key \in stopped
      BY <3>2, <3>4 DEF StopsBlock
    <3>5. QED
      BY <3>1, <3>3, <3>4
  <2>4. CASE ~Blocks(decision)
    BY <2>1, <2>4 DEF Consequences, Blocks, StopsBlock
  <2>5. QED
    BY <2>3, <2>4
<1>4. QED
  BY <1>1, <1>2, <1>3, BlockerCases

THEOREM StopsBlockAlways == Spec => []StopsBlock
<1>1. Init => StopsBlock
  BY DEF Init, StopsBlock
<1>2. QED
  BY <1>1, TypeCorrect, StopsBlockStep, PTL DEF Spec

LEMMA StartedClean ==
  ASSUME TypeOK, [Next]_vars, NEW i \in Started, sessions'[i].gated
  PROVE  NothingOpen
<1>1. PICK u \in Users, role \in {"executor", "reviewer"}, facts \in FactSets :
        Claim(u, role, facts)
  <2>1. ASSUME NEW w \in Requests, NEW u \in Users, NEW j \in DOMAIN sessions,
               NEW state \in {"completed", "released"}, EndSession(w, u, j, state)
        PROVE  FALSE
    BY <2>1, EndEffect DEF Started
  <2>2. QED
    BY <2>1, SessionCases DEF Started
<1>2. /\ i = Len(sessions) + 1
      /\ sessions'[i] = [user |-> u, role |-> role, state |-> "active", gated |-> link.on]
      /\ role = "executor" => Ready(facts)
  BY <1>1, ClaimEffect DEF Started
<1>3. link.on /\ Ready(facts)
  BY <1>2 DEF Started
<1>4. QED
  BY <1>3 DEF Ready

(* Whatever else was decided on the same assessment: no executor starts on *)
(* a linked task while a decision to stop or recheck is unresolved.        *)
THEOREM StopsHold == Spec => StopHolds
<1>1. TypeOK /\ StopsBlock /\ [Next]_vars =>
        [\A i \in Started : sessions'[i].gated =>
           \A key \in stopped :
             \E k \in DOMAIN blockers : blockers[k].cause = key /\ blockers[k].resolved]_vars
  BY StartedClean DEF NothingOpen, BlockersResolved, StopsBlock
<1>2. QED
  BY <1>1, TypeCorrect, StopsBlockAlways, PTL DEF Spec, StopHolds

-----------------------------------------------------------------------------
(* Changes that await a decision.                                          *)

\* Which handlers touch the bases, the assessments and the notices.
LEMMA ImpactCases ==
  ASSUME [Next]_vars
  PROVE  \/ UNCHANGED <<bases, assessments, checkpoints>>
         \/ \E u \in Users, pin \in Offers : AddBasis(u, pin)
         \/ \E u \in Users, b \in DOMAIN bases : RemoveBasis(u, b)
         \/ \E w \in Requests, u \in Users, decision \in Decisions :
              DecideAssessment(w, u, decision)
         \/ \E w \in Requests, state \in {"unconfirmed", "current"} : CommitImport(w, state)
<1>1. ASSUME NEW u \in Users, PortfolioStep(u)
      PROVE  \/ UNCHANGED <<bases, assessments, checkpoints>>
             \/ \E pin \in Offers : AddBasis(u, pin)
             \/ \E b \in DOMAIN bases : RemoveBasis(u, b)
             \/ \E w \in Requests, decision \in Decisions : DecideAssessment(w, u, decision)
  BY <1>1 DEF PortfolioStep, SetLink, RemoveLink, AddBlocker, ResolveBlocker, work
<1>2. ASSUME NEW u \in Users, SessionStep(u) \/ TaskStep(u)
      PROVE  UNCHANGED <<bases, assessments, checkpoints>>
  BY <1>2 DEF SessionStep, Claim, EndSession, TaskStep, IssuePackage, Reassign, DeleteTask, work
<1>3. ASSUME NEW w \in Requests, ArrivalStep(w)
      PROVE  UNCHANGED <<bases, assessments, checkpoints>>
  BY <1>3 DEF ArrivalStep, ReadAssessment, FindSession, ReadObject, ImportProposal, UpdateObject, Fail,
       Begins, work
<1>4. ASSUME NEW o, NEW state, ReconcileObject(o, state)
      PROVE  UNCHANGED <<bases, assessments, checkpoints>>
  BY <1>4 DEF ReconcileObject, work
<1>5. CASE UNCHANGED vars
  BY <1>5 DEF vars, work
<1>6. QED
  BY <1>1, <1>2, <1>3, <1>4, <1>5 DEF Next, ImportStep

\* Ids of bases are never used again, so no assessment is of a basis to come.
KeysKnown == \A a \in assessments : a.key.basis \in DOMAIN bases

LEMMA DecideEffect ==
  ASSUME TypeOK, NEW w \in Requests, NEW u \in Users, NEW decision \in Decisions,
         DecideAssessment(w, u, decision)
  PROVE  /\ DOMAIN bases' = DOMAIN bases /\ Live' = Live
         /\ checkpoints \subseteq checkpoints'
         /\ \A b \in assessments' \ assessments :
              b.decision # "pending" /\ \E a \in assessments : b.key = a.key
<1>1. PICK a \in LiveAssessments :
        /\ assessments' = (assessments \ {a}) \cup {[a EXCEPT !.decision = decision]}
        /\ Consequences(a, decision)
  BY DEF DecideAssessment
<1>2. /\ a \in Assessment /\ a \in assessments /\ a.key.basis \in DOMAIN bases
  BY DEF LiveAssessments, Live, TypeOK
<1>3. /\ [a EXCEPT !.decision = decision].decision # "pending"
      /\ [a EXCEPT !.decision = decision].key = a.key
  BY <1>2 DEF Assessment, Decisions
<1>4. DOMAIN bases' = DOMAIN bases /\ \A b \in DOMAIN bases : bases'[b].removed = bases[b].removed
  <2> DEFINE row == bases[a.key.basis]
             moved == [row EXCEPT !.pin = [row.pin EXCEPT !.revision = a.new]]
  <2>1. bases \in Seq(BasisRow)
    BY DEF TypeOK
  <2>2. row \in BasisRow
    BY <1>2, <2>1
  <2>3. moved.removed = row.removed
    BY <2>2 DEF BasisRow
  <2>4. \/ bases' = bases
        \/ bases' = [bases EXCEPT ![a.key.basis] = moved]
    BY <1>1 DEF Consequences
  <2> HIDE DEF moved
  <2>5. QED
    BY <1>2, <2>1, <2>3, <2>4
<1>5. Live' = Live
  BY <1>4 DEF Live
<1>6. checkpoints \subseteq checkpoints'
  BY <1>1 DEF Consequences
<1>7. QED
  BY <1>1, <1>2, <1>3, <1>4, <1>5, <1>6

LEMMA AddEffect ==
  ASSUME TypeOK, NEW u \in Users, NEW pin \in Offers, AddBasis(u, pin)
  PROVE  /\ DOMAIN bases' = DOMAIN bases \cup {Len(bases) + 1}
         /\ Len(bases) + 1 \notin DOMAIN bases
         /\ \A b \in DOMAIN bases : bases'[b] = bases[b]
         /\ assessments' = assessments /\ checkpoints' = checkpoints
<1>1. /\ bases \in Seq(BasisRow)
      /\ bases' = Append(bases, [pin |-> pin, removed |-> FALSE])
  BY DEF AddBasis, TypeOK
<1>2. QED
  BY <1>1 DEF AddBasis, work

LEMMA RemoveEffect ==
  ASSUME TypeOK, NEW u \in Users, NEW c \in DOMAIN bases, RemoveBasis(u, c)
  PROVE  /\ DOMAIN bases' = DOMAIN bases
         /\ Live' = Live \ {c}
         /\ assessments' = assessments /\ checkpoints' = checkpoints
<1>1. /\ bases \in Seq(BasisRow)
      /\ bases' = [bases EXCEPT ![c] = [bases[c] EXCEPT !.removed = TRUE]]
  BY DEF RemoveBasis, TypeOK
<1>2. bases[c] \in BasisRow
  BY <1>1
<1>3. [bases[c] EXCEPT !.removed = TRUE].removed
  BY <1>2 DEF BasisRow
<1>4. /\ DOMAIN bases' = DOMAIN bases
      /\ bases'[c].removed
      /\ \A b \in DOMAIN bases : b # c => bases'[b] = bases[b]
  BY <1>1, <1>3
<1>5. QED
  BY <1>4 DEF RemoveBasis, Live, work

LEMMA KeysKnownStep == TypeOK /\ KeysKnown /\ [Next]_vars => KeysKnown'
<1> SUFFICES ASSUME TypeOK, KeysKnown, [Next]_vars, NEW a \in assessments'
             PROVE  a.key.basis \in DOMAIN bases'
  BY DEF KeysKnown
<1>1. CASE UNCHANGED <<bases, assessments, checkpoints>>
  BY <1>1 DEF KeysKnown
<1>2. ASSUME NEW u \in Users, NEW pin \in Offers, AddBasis(u, pin)
      PROVE  a.key.basis \in DOMAIN bases'
  BY <1>2, AddEffect DEF KeysKnown
<1>3. ASSUME NEW u \in Users, NEW b \in DOMAIN bases, RemoveBasis(u, b)
      PROVE  a.key.basis \in DOMAIN bases'
  BY <1>3, RemoveEffect DEF KeysKnown
<1>4. ASSUME NEW w \in Requests, NEW u \in Users, NEW decision \in Decisions,
             DecideAssessment(w, u, decision)
      PROVE  a.key.basis \in DOMAIN bases'
  BY <1>4, DecideEffect DEF KeysKnown
<1>5. ASSUME NEW w \in Requests, NEW state \in {"unconfirmed", "current"},
             CommitImport(w, state)
      PROVE  a.key.basis \in DOMAIN bases'
  BY <1>5, OpenedShape DEF CommitImport, KeysKnown, Live
<1>6. QED
  BY <1>1, <1>2, <1>3, <1>4, <1>5, ImpactCases

GatedExecutors == {i \in ActiveExecutors : sessions[i].gated}

Known(i, a) == Note(i, a.key, "change") \in checkpoints

\* Only an import adds to what is pending.
LEMMA PendingCases ==
  ASSUME TypeOK, KeysKnown, [Next]_vars
  PROVE  \/ Pending' \subseteq Pending /\ checkpoints \subseteq checkpoints'
         \/ \E w \in Requests, state \in {"unconfirmed", "current"} : CommitImport(w, state)
<1>1. CASE UNCHANGED <<bases, assessments, checkpoints>>
  BY <1>1 DEF Pending, LiveAssessments, Live
<1>2. ASSUME NEW u \in Users, NEW pin \in Offers, AddBasis(u, pin)
      PROVE  Pending' \subseteq Pending /\ checkpoints \subseteq checkpoints'
  BY <1>2, AddEffect DEF Pending, LiveAssessments, Live, KeysKnown
<1>3. ASSUME NEW u \in Users, NEW b \in DOMAIN bases, RemoveBasis(u, b)
      PROVE  Pending' \subseteq Pending /\ checkpoints \subseteq checkpoints'
  BY <1>3, RemoveEffect DEF Pending, LiveAssessments
<1>4. ASSUME NEW w \in Requests, NEW u \in Users, NEW decision \in Decisions,
             DecideAssessment(w, u, decision)
      PROVE  Pending' \subseteq Pending /\ checkpoints \subseteq checkpoints'
  BY <1>4, DecideEffect DEF Pending, LiveAssessments
<1>5. QED
  BY <1>1, <1>2, <1>3, <1>4, ImpactCases

\* Only a claim adds to the sessions at work, and only when nothing is pending.
LEMMA GatedCases ==
  ASSUME TypeOK, [Next]_vars
  PROVE  \/ GatedExecutors' \subseteq GatedExecutors
         \/ Pending = {} /\ UNCHANGED <<bases, assessments, checkpoints>>
<1>1. ASSUME NEW u \in Users, NEW role \in {"executor", "reviewer"}, NEW facts \in FactSets,
             Claim(u, role, facts)
      PROVE  \/ GatedExecutors' \subseteq GatedExecutors
             \/ Pending = {} /\ UNCHANGED <<bases, assessments, checkpoints>>
  <2> DEFINE n == Len(sessions) + 1
  <2>1. UNCHANGED <<bases, assessments, checkpoints>>
    BY <1>1 DEF Claim
  <2>2. /\ DOMAIN sessions' = DOMAIN sessions \cup {n}
        /\ \A i \in DOMAIN sessions : sessions'[i] = sessions[i]
        /\ sessions'[n].role = role /\ sessions'[n].gated = link.on
        /\ role = "executor" => Ready(facts)
    <3>1. sessions \in Seq(Session)
      BY DEF TypeOK
    <3>2. sessions' = Append(sessions,
            [user |-> u, role |-> role, state |-> "active", gated |-> link.on])
      BY <1>1 DEF Claim
    <3>3. role = "executor" => Ready(facts)
      BY <1>1 DEF Claim, MayExecute
    <3>4. QED
      BY <3>1, <3>2, <3>3
  <2> HIDE DEF n
  <2>3. CASE role = "executor" /\ link.on
    BY <2>1, <2>2, <2>3 DEF Ready, NothingOpen
  <2>4. CASE ~(role = "executor" /\ link.on)
    BY <2>2, <2>4 DEF GatedExecutors, ActiveExecutors
  <2>5. QED
    BY <2>3, <2>4
<1>2. ASSUME NEW w \in Requests, NEW u \in Users, NEW i \in DOMAIN sessions,
             NEW state \in {"completed", "released"}, EndSession(w, u, i, state)
      PROVE  GatedExecutors' \subseteq GatedExecutors
  <2>1. ActiveExecutors' = ActiveExecutors \ {i}
    BY <1>2, EndLetsGo
  <2>2. \A j \in DOMAIN sessions : j # i => sessions'[j] = sessions[j]
    BY <1>2 DEF EndSession, TypeOK
  <2>3. QED
    BY <2>1, <2>2 DEF GatedExecutors, ActiveExecutors
<1>3. CASE sessions' = sessions
  BY <1>3 DEF GatedExecutors, ActiveExecutors
<1>4. QED
  BY <1>1, <1>2, <1>3, SessionCases

\* The import tells whoever is at work of each change it opens.
LEMMA ImportTells ==
  ASSUME TypeOK, OneExecutor, PendingIsKnown, NEW w \in Requests, NEW state,
         CommitImport(w, state), NEW i \in GatedExecutors, NEW a \in Pending'
  PROVE  Known(i, a)'
<1>1. /\ bases' = bases /\ sessions' = sessions
      /\ assessments' = assessments \cup Opened(w)
      /\ checkpoints' = checkpoints \cup Notices(w)
  BY DEF CommitImport
<1>2. i \in ActiveExecutors /\ sessions[i].gated
  BY DEF GatedExecutors
<1>3. CASE a \in assessments
  <2>1. a \in Pending
    BY <1>1, <1>3 DEF Pending, LiveAssessments, Live
  <2>2. Note(i, a.key, "change") \in checkpoints
    BY <1>2, <2>1 DEF PendingIsKnown
  <2>3. QED
    BY <1>1, <2>2 DEF Known, Note
<1>4. CASE a \in Opened(w)
  <2>1. Told = {i}
    BY <1>2 DEF Told, OneExecutor
  <2>2. Note(i, a.key, "change") \in Notices(w)
    BY <1>4, <2>1 DEF Notices
  <2>3. QED
    BY <1>1, <2>2 DEF Known, Note
<1>5. QED
  BY <1>1, <1>3, <1>4 DEF Pending, LiveAssessments

LEMMA PendingIsKnownStep ==
  TypeOK /\ OneExecutor /\ KeysKnown /\ PendingIsKnown /\ [Next]_vars => PendingIsKnown'
<1> SUFFICES ASSUME TypeOK, OneExecutor, KeysKnown, PendingIsKnown, [Next]_vars,
                    NEW i \in GatedExecutors', NEW a \in Pending'
             PROVE  Known(i, a)'
  BY DEF PendingIsKnown, GatedExecutors, Known
<1>1. CASE Pending' \subseteq Pending /\ checkpoints \subseteq checkpoints'
  <2>1. CASE i \in GatedExecutors
    <3>1. Note(i, a.key, "change") \in checkpoints
      BY <1>1, <2>1 DEF PendingIsKnown, GatedExecutors
    <3>2. QED
      BY <1>1, <3>1 DEF Known, Note
  <2>2. CASE Pending = {}
    BY <1>1, <2>2
  <2>3. QED
    BY <2>1, <2>2, GatedCases
<1>2. ASSUME NEW w \in Requests, NEW state \in {"unconfirmed", "current"},
             CommitImport(w, state)
      PROVE  Known(i, a)'
  <2>1. i \in GatedExecutors
    BY <1>2 DEF CommitImport, GatedExecutors, ActiveExecutors
  <2>2. QED
    BY <1>2, <2>1, ImportTells
<1>3. QED
  BY <1>1, <1>2, PendingCases

(* Whoever is at work on a linked task has been told of every change that  *)
(* awaits a decision, however imports, claims and decisions overlap.       *)
THEOREM PendingAlwaysKnown == Spec => []PendingIsKnown
<1>1. Init => KeysKnown /\ PendingIsKnown
  BY DEF Init, KeysKnown, PendingIsKnown, ActiveExecutors
<1>2. TypeOK /\ OneExecutor /\ KeysKnown /\ PendingIsKnown /\ [Next]_vars =>
        KeysKnown' /\ PendingIsKnown'
  BY KeysKnownStep, PendingIsKnownStep
<1>3. QED
  BY <1>1, <1>2, TypeCorrect, OneExecutorAlways, PTL DEF Spec
=============================================================================
