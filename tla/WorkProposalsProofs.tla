------------------------- MODULE WorkProposalsProofs -------------------------
(***************************************************************************)
(* Theorems about WorkProposals, for any keys, revisions and requests.     *)
(***************************************************************************)
EXTENDS WorkProposals, TLAPS

USE WorkProposalsAssumption

-----------------------------------------------------------------------------
(* What the operators do to the tasks and to a proposal.                   *)

LEMMA Present ==
  ASSUME proposals \in [Keys -> Proposal \cup {Absent}], NEW k \in Keys
  PROVE  /\ Proposed(k) => proposals[k] \in Proposal
         /\ \A p \in Proposal : p # Absent
BY DEF Proposed, Proposal, Absent, Status, Taken

\* What a task rests on is among what it has rested on.
Recorded == {a \in Task : \A o \in Objects : a.cause[o] \in a.rested[o] \cup {None}}

\* What a step may do to a task: only a person takes a basis and its assessments away.
TaskKept(a, b) ==
  /\ a.deleted => b.deleted
  /\ a.dropped \subseteq b.dropped
  /\ b.made_for = a.made_for
  /\ \A o \in Objects :
       /\ a.rested[o] \subseteq b.rested[o]
       /\ a.assessed[o] \subseteq b.assessed[o] \/ o \in b.dropped
       /\ a.cause[o] = None \/ b.cause[o] # None \/ o \in b.dropped

\* The task rests on the object, or a person took that basis away.
Backed(a, o) == a.cause[o] = None => o \in a.dropped

\* Nothing about the revision r of the object is left to be said to the task.
Reached(a, o, r) == a.deleted \/ o \in a.dropped \/ r \in a.assessed[o] \cup a.rested[o]

LEMMA KeptStands ==
  ASSUME NEW a, NEW b, NEW o \in Objects, TaskKept(a, b)
  PROVE  /\ Backed(a, o) => Backed(b, o)
         /\ \A r : Reached(a, o, r) => Reached(b, o, r)
BY Zenon DEF TaskKept, Backed, Reached

LEMMA PinnedKept ==
  ASSUME NEW a \in Recorded, NEW o \in Objects, NEW r \in Revisions
  PROVE  /\ Pinned(a, o, r) \in Recorded
         /\ TaskKept(a, Pinned(a, o, r))
         /\ Backed(Pinned(a, o, r), o)
<1> DEFINE cause == [a.cause EXCEPT ![o] = r]
           rested == [a.rested EXCEPT ![o] = @ \cup {r}]
           b == Pinned(a, o, r)
<1>1. a \in Task /\ \A x \in Objects : a.cause[x] \in a.rested[x] \cup {None}
  BY DEF Recorded
<1>2. /\ cause \in [Objects -> Revisions \cup {None}] /\ cause[o] = r
      /\ rested \in [Objects -> SUBSET Revisions] /\ rested[o] = a.rested[o] \cup {r}
      /\ \A x \in Objects : x # o => cause[x] = a.cause[x] /\ rested[x] = a.rested[x]
  BY <1>1 DEF Task
<1>3. b = [a EXCEPT !.cause = cause, !.rested = rested]
  BY <1>1 DEF Pinned, Task
<1> HIDE DEF cause, rested, b
<1>4. /\ b \in Task /\ b.cause = cause /\ b.rested = rested /\ b.assessed = a.assessed
      /\ b.dropped = a.dropped /\ b.made_for = a.made_for
  BY <1>1, <1>2, <1>3 DEF Task
<1>5. b.deleted = a.deleted
  BY <1>1, <1>3, Zenon DEF Task
<1>6. b \in Recorded
  BY <1>1, <1>2, <1>4 DEF Recorded
<1>7. Backed(b, o)
  BY <1>2, <1>4 DEF Backed
<1>8. \A x \in Objects :
        /\ a.rested[x] \subseteq b.rested[x]
        /\ a.cause[x] = None \/ b.cause[x] # None
  BY <1>2, <1>4
<1>9. TaskKept(a, b)
  BY <1>4, <1>5, <1>8, Zenon DEF TaskKept
<1>10. QED
  BY <1>6, <1>7, <1>9 DEF b

LEMMA AssessedKept ==
  ASSUME NEW a \in Recorded, NEW o \in Objects, NEW r \in Revisions
  PROVE  /\ Assessed(a, o, r) \in Recorded
         /\ TaskKept(a, Assessed(a, o, r))
         /\ Backed(a, o) => Reached(Assessed(a, o, r), o, r)
<1> DEFINE b == Assessed(a, o, r)
<1>1. a \in Task /\ \A x \in Objects : a.cause[x] \in a.rested[x] \cup {None}
  BY DEF Recorded
<1>2. CASE a.deleted \/ a.cause[o] \in {None, r}
  <2>1. b = a
    BY <1>2, Zenon DEF Assessed
  <2>2. TaskKept(a, a)
    BY Zenon DEF TaskKept
  <2>3. CASE a.deleted
    BY <2>1, <2>2, <2>3, Zenon DEF Reached
  <2>4. CASE a.cause[o] \in {None, r}
    <3>1. Backed(a, o) => o \in a.dropped \/ r \in a.rested[o]
      BY <1>1, <2>4 DEF Backed
    <3>2. QED
      BY <2>1, <2>2, <3>1, Zenon DEF Reached
  <2>5. QED
    BY <1>2, <2>3, <2>4
<1>3. CASE ~(a.deleted \/ a.cause[o] \in {None, r})
  <2> DEFINE assessed == [a.assessed EXCEPT ![o] = @ \cup {r}]
  <2>1. /\ assessed \in [Objects -> SUBSET Revisions] /\ r \in assessed[o]
        /\ \A x \in Objects : a.assessed[x] \subseteq assessed[x]
    BY <1>1 DEF Task
  <2>2. b = [a EXCEPT !.assessed = assessed]
    BY <1>3, Zenon DEF Assessed
  <2> HIDE DEF assessed, b
  <2>3. /\ b \in Task /\ b.assessed = assessed /\ b.cause = a.cause /\ b.rested = a.rested
        /\ b.dropped = a.dropped /\ b.made_for = a.made_for
    BY <1>1, <2>1, <2>2 DEF Task
  <2>4. b.deleted = a.deleted
    BY <1>1, <2>2, Zenon DEF Task
  <2>5. b \in Recorded
    BY <1>1, <2>3 DEF Recorded
  <2>6. TaskKept(a, b)
    BY <2>1, <2>3, <2>4, Zenon DEF TaskKept
  <2>7. Reached(b, o, r)
    BY <2>1, <2>3, Zenon DEF Reached
  <2>8. QED
    BY <2>5, <2>6, <2>7 DEF b
<1>4. QED
  BY <1>2, <1>3

\* Tasks are added, none goes, and each is kept.
TasksGrow ==
  /\ tasks' \in Seq(Recorded)
  /\ DOMAIN tasks \subseteq DOMAIN tasks'
  /\ \A t \in DOMAIN tasks : TaskKept(tasks[t], tasks'[t])

\* The tasks are the same ones, made for what they were made for.
SameTasks ==
  /\ DOMAIN tasks' = DOMAIN tasks
  /\ \A t \in DOMAIN tasks : tasks'[t].made_for = tasks[t].made_for

LEMMA RecordedTasks ==
  ASSUME NEW s \in Seq(Recorded)
  PROVE  s \in Seq(Task)
<1>1. Recorded \subseteq Task
  BY DEF Recorded
<1>2. QED
  BY <1>1

LEMMA TasksTyped ==
  ASSUME TasksGrow
  PROVE  tasks' \in Seq(Task)
<1>1. PICK s \in Seq(Recorded) : s = tasks'
  BY DEF TasksGrow
<1>2. QED
  BY <1>1, RecordedTasks

LEMMA UnchangedTasks ==
  ASSUME tasks \in Seq(Recorded), tasks' = tasks
  PROVE  TasksGrow /\ SameTasks
<1>1. \A a : TaskKept(a, a)
  BY Zenon DEF TaskKept
<1>2. QED
  BY <1>1, Zenon DEF TasksGrow, SameTasks

LEMMA OneTaskKept ==
  ASSUME tasks \in Seq(Recorded), NEW t \in DOMAIN tasks, NEW a \in Recorded,
         TaskKept(tasks[t], a), tasks' = [tasks EXCEPT ![t] = a]
  PROVE  TasksGrow /\ SameTasks /\ tasks'[t] = a
<1>1. /\ tasks' \in Seq(Recorded) /\ DOMAIN tasks' = DOMAIN tasks /\ tasks'[t] = a
      /\ \A x \in DOMAIN tasks : x # t => tasks'[x] = tasks[x]
  OBVIOUS
<1>2. \A b : TaskKept(b, b)
  BY Zenon DEF TaskKept
<1>3. \A x \in DOMAIN tasks : TaskKept(tasks[x], tasks'[x])
  BY <1>1, <1>2, Zenon
<1>4. \A x \in DOMAIN tasks : tasks'[x].made_for = tasks[x].made_for
  BY <1>3, Zenon DEF TaskKept
<1>5. QED
  BY <1>1, <1>3, <1>4 DEF TasksGrow, SameTasks

LEMMA CausedGrows ==
  ASSUME tasks \in Seq(Recorded), NEW t \in DOMAIN tasks, NEW o \in Objects,
         NEW r \in Revisions, tasks' = Caused(tasks, t, o, r)
  PROVE  TasksGrow /\ SameTasks /\ Backed(tasks'[t], o)
<1>1. tasks[t] \in Recorded
  OBVIOUS
<1>2. CASE tasks[t].cause[o] # None
  BY <1>2, UnchangedTasks DEF Caused, Backed
<1>3. CASE tasks[t].cause[o] = None
  <2> DEFINE a == Pinned(tasks[t], o, r)
  <2>1. tasks' = [tasks EXCEPT ![t] = a]
    BY <1>3 DEF Caused
  <2>2. a \in Recorded /\ TaskKept(tasks[t], a) /\ Backed(a, o)
    BY <1>1, PinnedKept
  <2> HIDE DEF a
  <2>3. QED
    BY <2>1, <2>2, OneTaskKept
<1>4. QED
  BY <1>2, <1>3

LEMMA ImpactGrows ==
  ASSUME tasks \in Seq(Recorded), NEW p, p.task_id # None => p.task_id \in DOMAIN tasks,
         NEW o \in Objects, NEW r \in Revisions, tasks' = Impact(p, o, r)
  PROVE  /\ TasksGrow /\ SameTasks
         /\ p.task_id # None /\ Backed(tasks[p.task_id], o) => Reached(tasks'[p.task_id], o, r)
<1>1. CASE p.task_id # None
  <2> DEFINE a == Assessed(tasks[p.task_id], o, r)
  <2>1. tasks[p.task_id] \in Recorded
    BY <1>1
  <2>2. tasks' = [tasks EXCEPT ![p.task_id] = a]
    BY <1>1 DEF Impact
  <2>3. /\ a \in Recorded /\ TaskKept(tasks[p.task_id], a)
        /\ Backed(tasks[p.task_id], o) => Reached(a, o, r)
    BY <2>1, AssessedKept
  <2> HIDE DEF a
  <2>4. TasksGrow /\ SameTasks /\ tasks'[p.task_id] = a
    BY <1>1, <2>2, <2>3, OneTaskKept
  <2>5. QED
    BY <2>3, <2>4
<1>2. CASE p.task_id = None
  BY <1>2, UnchangedTasks DEF Impact
<1>3. QED
  BY <1>1, <1>2

-----------------------------------------------------------------------------
(* What others do to a task keeps it, too.                                 *)

LEMMA RemovedKept ==
  ASSUME NEW a \in Recorded, NEW o \in Objects, NEW b,
         b = [a EXCEPT !.cause[o] = None, !.assessed[o] = {}, !.dropped = @ \cup {o}]
  PROVE  b \in Recorded /\ TaskKept(a, b)
<1> DEFINE cause == [a.cause EXCEPT ![o] = None]
           assessed == [a.assessed EXCEPT ![o] = {}]
           dropped == a.dropped \cup {o}
<1>1. a \in Task /\ \A x \in Objects : a.cause[x] \in a.rested[x] \cup {None}
  BY DEF Recorded
<1>2. /\ cause \in [Objects -> Revisions \cup {None}] /\ cause[o] = None
      /\ assessed \in [Objects -> SUBSET Revisions]
      /\ dropped \in SUBSET Objects /\ o \in dropped /\ a.dropped \subseteq dropped
      /\ \A x \in Objects : x # o => cause[x] = a.cause[x] /\ assessed[x] = a.assessed[x]
  BY <1>1 DEF Task
<1>3. b = [a EXCEPT !.cause = cause, !.assessed = assessed, !.dropped = dropped]
  BY <1>1 DEF Task
<1> HIDE DEF cause, assessed, dropped
<1>4. /\ b \in Task /\ b.cause = cause /\ b.rested = a.rested /\ b.assessed = assessed
      /\ b.dropped = dropped /\ b.made_for = a.made_for
  BY <1>1, <1>2, <1>3 DEF Task
<1>5. b.deleted = a.deleted
  BY <1>1, <1>3, Zenon DEF Task
<1>6. b \in Recorded
  BY <1>1, <1>2, <1>4 DEF Recorded
<1>7. \A x \in Objects :
        /\ a.rested[x] \subseteq b.rested[x]
        /\ a.assessed[x] \subseteq b.assessed[x] \/ x \in b.dropped
        /\ a.cause[x] = None \/ b.cause[x] # None \/ x \in b.dropped
  BY <1>2, <1>4
<1>8. QED
  BY <1>2, <1>4, <1>5, <1>6, <1>7, Zenon DEF TaskKept

LEMMA DeletedKept ==
  ASSUME NEW a \in Recorded, NEW b, b = [a EXCEPT !.deleted = TRUE]
  PROVE  b \in Recorded /\ TaskKept(a, b)
<1>1. a \in Task /\ \A x \in Objects : a.cause[x] \in a.rested[x] \cup {None}
  BY DEF Recorded
<1>2. /\ b \in Task /\ b.cause = a.cause /\ b.rested = a.rested /\ b.assessed = a.assessed
      /\ b.dropped = a.dropped /\ b.made_for = a.made_for
  BY <1>1 DEF Task
<1>3. b.deleted
  BY <1>1, Zenon DEF Task
<1>4. b \in Recorded
  BY <1>1, <1>2 DEF Recorded
<1>5. QED
  BY <1>2, <1>3, <1>4, Zenon DEF TaskKept

LEMMA WorkGrows ==
  ASSUME tasks \in Seq(Recorded), TaskWork
  PROVE  TasksGrow /\ SameTasks /\ Apart
<1>1. ASSUME NEW t \in DOMAIN tasks, NEW a \in Recorded, TaskKept(tasks[t], a), Change(t, a)
      PROVE  TasksGrow /\ SameTasks /\ Apart
  BY <1>1, OneTaskKept DEF Change
<1>2. \A t \in DOMAIN tasks : tasks[t] \in Recorded
  OBVIOUS
<1>3. ASSUME NEW t \in DOMAIN tasks, DeleteTask(t)
      PROVE  TasksGrow /\ SameTasks /\ Apart
  BY <1>1, <1>2, <1>3, DeletedKept DEF DeleteTask
<1>4. ASSUME NEW t \in DOMAIN tasks, NEW o \in Objects, RemoveBasis(t, o)
      PROVE  TasksGrow /\ SameTasks /\ Apart
  BY <1>1, <1>2, <1>4, RemovedKept DEF RemoveBasis
<1>5. ASSUME NEW t \in DOMAIN tasks, NEW o \in Objects, NEW r \in Revisions,
             AddBasis(t, o, r) \/ MoveBasis(t, o, r)
      PROVE  TasksGrow /\ SameTasks /\ Apart
  <2>1. Change(t, Pinned(tasks[t], o, r))
    BY <1>5 DEF AddBasis, MoveBasis
  <2>2. QED
    BY <1>1, <1>2, <2>1, PinnedKept
<1>6. ASSUME NEW o \in Objects, NEW r \in Revisions, CurrentChanged(o, r)
      PROVE  TasksGrow /\ SameTasks /\ Apart
  <2>1. Apart /\ tasks' = [t \in DOMAIN tasks |-> Assessed(tasks[t], o, r)]
    BY <1>6 DEF CurrentChanged
  <2>2. \A t \in DOMAIN tasks :
          Assessed(tasks[t], o, r) \in Recorded /\ TaskKept(tasks[t], Assessed(tasks[t], o, r))
    BY <1>2, AssessedKept
  <2>3. /\ DOMAIN tasks' = DOMAIN tasks
        /\ \A t \in DOMAIN tasks : tasks'[t] \in Recorded /\ TaskKept(tasks[t], tasks'[t])
    BY <2>1, <2>2
  <2>4. tasks' \in Seq(Recorded)
    <3>1. DOMAIN tasks = 1 .. Len(tasks) /\ Len(tasks) \in Nat
      OBVIOUS
    <3>2. tasks' = [t \in 1 .. Len(tasks) |-> tasks'[t]]
      BY <2>1, <2>3, <3>1
    <3>3. QED
      BY <2>3, <3>1, <3>2
  <2>5. \A t \in DOMAIN tasks : tasks'[t].made_for = tasks[t].made_for
    BY <2>3, Zenon DEF TaskKept
  <2>6. QED
    BY <2>1, <2>3, <2>4, <2>5 DEF TasksGrow, SameTasks
<1>7. QED
  BY <1>3, <1>4, <1>5, <1>6 DEF TaskWork, BasisWork

-----------------------------------------------------------------------------
(* The invariant: what the rows say of each other at any moment, and what  *)
(* a decision between its two commits may count on.                        *)

\* A key without a proposal has no version, a proposal has one.
Numbered ==
  \A k \in Keys : IF Proposed(k) THEN proposals[k].current_version > 0 ELSE versions[k] = {}

\* Proposals do not go, and tasks do not, while a decision waits.
Resumable ==
  \A w \in Requests : creating[w] # NoDecision =>
    /\ creating[w] \in [key : Keys, task : Nat, revision : Revisions, current : Nat,
                        updated : BOOLEAN]
    /\ Proposed(creating[w].key)
    /\ creating[w].task \in DOMAIN tasks

Inv ==
  /\ TypeOK /\ Numbered /\ VersionsNumbered /\ Resumable /\ TakenHasTask
  /\ tasks \in Seq(Recorded)

\* The parts of the invariant on tasks.
LEMMA TakenBacked ==
  ASSUME Inv, NEW k \in Keys, Proposed(k), proposals[k].status \in Taken
  PROVE  /\ proposals[k].task_id \in DOMAIN tasks
         /\ Backed(tasks[proposals[k].task_id], BasisObject[k])
BY DEF Inv, TakenHasTask, Backed

LEMMA CurrentExists ==
  ASSUME Inv, NEW k \in Keys, Proposed(k)
  PROVE  CurrentRevision(k) \in Revisions
<1>1. proposals[k].current_version \in 1 .. proposals[k].current_version
  BY Present DEF Inv, TypeOK, Numbered, Proposal
<1>2. \E v \in versions[k] : v.version = proposals[k].current_version
  BY <1>1 DEF Inv, VersionsNumbered
<1>3. versions[k] \subseteq Version
  BY DEF Inv, TypeOK
<1>4. QED
  BY <1>2, <1>3 DEF CurrentRevision, Version

LEMMA InitInv == Init => Inv
<1> SUFFICES ASSUME Init PROVE Inv
  OBVIOUS
<1>1. \A k \in Keys : ~Proposed(k) /\ versions[k] = {}
  BY DEF Init, Proposed
<1>2. NewTask(None) \in Recorded
  BY DEF NewTask, Task, Recorded
<1>3. tasks \in Seq(Recorded) /\ tasks \in Seq(Task)
  <2>1. tasks = [t \in 1 .. ExistingTasks |-> NewTask(None)]
    BY DEF Init
  <2>2. tasks \in Seq(Recorded)
    BY <1>2, <2>1
  <2>3. QED
    BY <2>2, RecordedTasks
<1>4. TypeOK
  BY <1>1, <1>3 DEF Init, TypeOK, Creating, Proposed
<1>5. QED
  BY <1>1, <1>3, <1>4 DEF Init, Inv, Numbered, VersionsNumbered, Resumable, TakenHasTask

-----------------------------------------------------------------------------
(* Every handler preserves the invariant.                                  *)

\* The row of k is replaced; the others stay.
Replaces(k, p) == proposals' = [proposals EXCEPT ![k] = p]

LEMMA ReplacedRow ==
  ASSUME Inv, NEW k \in Keys, NEW p \in Proposal, Replaces(k, p)
  PROVE  /\ proposals' \in [Keys -> Proposal \cup {Absent}]
         /\ proposals'[k] = p /\ Proposed(k)'
         /\ \A j \in Keys : j # k => proposals'[j] = proposals[j] /\ (Proposed(j)' <=> Proposed(j))
         /\ \A j \in Keys : Proposed(j) => Proposed(j)'
<1>1. /\ proposals' \in [Keys -> Proposal \cup {Absent}]
      /\ proposals'[k] = p
      /\ \A j \in Keys : j # k => proposals'[j] = proposals[j]
  BY DEF Replaces, Inv, TypeOK
<1>2. p # Absent
  BY Present DEF Inv, TypeOK
<1>3. QED
  BY <1>1, <1>2 DEF Proposed

\* A row that names its task, if any, and tasks that grow keep the links.
LEMMA LinksKept ==
  ASSUME Inv, NEW k \in Keys, NEW p \in Proposal, Replaces(k, p), TasksGrow,
         (p.status \in Taken) <=> (p.task_id # None),
         p.status \in Taken =>
           /\ p.task_id \in DOMAIN tasks
           /\ Backed(tasks'[p.task_id], BasisObject[k])
  PROVE  TakenHasTask'
<1>1. /\ proposals'[k] = p
      /\ \A j \in Keys : j # k => proposals'[j] = proposals[j] /\ (Proposed(j)' <=> Proposed(j))
  BY ReplacedRow
<1>2. ASSUME NEW j \in Keys, Proposed(j)'
      PROVE  /\ (proposals'[j].status \in Taken) <=> (proposals'[j].task_id # None)
             /\ proposals'[j].status \in Taken =>
                  /\ proposals'[j].task_id \in DOMAIN tasks'
                  /\ Backed(tasks'[proposals'[j].task_id], BasisObject[j])
  <2>1. CASE j = k
    BY <1>1, <2>1 DEF TasksGrow
  <2>2. CASE j # k
    <3>1. Proposed(j) /\ proposals'[j] = proposals[j]
      BY <1>1, <1>2, <2>2
    <3>2. BasisObject[j] \in Objects
      OBVIOUS
    <3>3. (proposals[j].status \in Taken) <=> (proposals[j].task_id # None)
      BY <3>1 DEF Inv, TakenHasTask
    <3>4. ASSUME proposals[j].status \in Taken
          PROVE  /\ proposals[j].task_id \in DOMAIN tasks'
                 /\ Backed(tasks'[proposals[j].task_id], BasisObject[j])
      <4>1. PICK t \in DOMAIN tasks : t = proposals[j].task_id /\ Backed(tasks[t], BasisObject[j])
        BY <3>1, <3>4, TakenBacked
      <4>2. TaskKept(tasks[t], tasks'[t]) /\ t \in DOMAIN tasks'
        BY DEF TasksGrow
      <4>3. QED
        BY <3>2, <4>1, <4>2, KeptStands
    <3>5. QED
      BY <3>1, <3>3, <3>4
  <2>3. QED
    BY <2>1, <2>2
<1>3. QED
  BY <1>2 DEF TakenHasTask, Backed

LEMMA DecidedInv ==
  ASSUME Inv, NEW k \in Keys, NEW p \in Proposal,
         Decide(k, p), TasksGrow, UNCHANGED <<versions, creating, work>>,
         p.current_version = proposals[k].current_version, p.merged_into # k,
         (p.status \in Taken) <=> (p.task_id # None),
         p.status \in Taken =>
           /\ p.task_id \in DOMAIN tasks
           /\ Backed(tasks'[p.task_id], BasisObject[k])
  PROVE  Inv'
<1> DEFINE q == [p EXCEPT !.updated = FALSE]
<1>1. /\ q \in Proposal /\ q.current_version = p.current_version /\ q.merged_into = p.merged_into
      /\ q.status = p.status /\ q.task_id = p.task_id
  BY DEF Proposal
<1>2. Replaces(k, q) /\ Proposed(k) /\ proposals[k] \in Proposal
  BY Present DEF Decide, MayDecide, Replaces, Inv, TypeOK
<1> HIDE DEF q
<1>3. /\ proposals' \in [Keys -> Proposal \cup {Absent}]
      /\ proposals'[k] = q /\ Proposed(k)'
      /\ \A j \in Keys : j # k => proposals'[j] = proposals[j] /\ (Proposed(j)' <=> Proposed(j))
      /\ \A j \in Keys : Proposed(j) => Proposed(j)'
  BY <1>1, <1>2, ReplacedRow
<1>4. decided' \in [Keys -> Nat]
  BY <1>2 DEF Decide, Inv, TypeOK, Proposal
<1>5. TypeOK'
  <2>1. \A j \in Keys : proposals'[j] # Absent => proposals'[j].merged_into # j
    BY <1>1, <1>3 DEF Inv, TypeOK, Proposed
  <2>2. QED
    BY <1>3, <1>4, <2>1, TasksTyped DEF Inv, TypeOK
<1>6. Numbered' /\ VersionsNumbered'
  BY <1>1, <1>2, <1>3 DEF Inv, Numbered, VersionsNumbered
<1>7. Resumable'
  BY <1>3 DEF Inv, Resumable, TasksGrow
<1>8. TakenHasTask'
  BY <1>1, <1>2, LinksKept
<1>9. QED
  BY <1>5, <1>6, <1>7, <1>8 DEF Inv, TasksGrow

LEMMA Undecided ==
  ASSUME Inv, NEW k \in Keys, MayDecide(k)
  PROVE  /\ proposals[k] \in Proposal
         /\ proposals[k].status \in {"open", "deferred"}
         /\ proposals[k].task_id = None /\ proposals[k].merged_into # k
<1>1. Proposed(k) /\ proposals[k] \in Proposal /\ ~Final(proposals[k].status)
  BY Present DEF MayDecide, Inv, TypeOK
<1>2. proposals[k].status \in {"open", "deferred"} /\ proposals[k].status \notin Taken
  BY <1>1 DEF Proposal, Status, Final
<1>3. QED
  BY <1>1, <1>2 DEF Inv, TakenHasTask, TypeOK, Proposed

LEMMA LinkInv ==
  ASSUME Inv, NEW k \in Keys, NEW t \in DOMAIN tasks, Link(k, t)
  PROVE  Inv'
<1> DEFINE p == [proposals[k] EXCEPT !.status = "linked", !.task_id = t]
<1>1. MayDecide(k) /\ Decide(k, p) /\ UNCHANGED <<versions, creating, work>>
  BY DEF Link, Decide
<1>2. /\ proposals[k] \in Proposal /\ proposals[k].merged_into # k
  BY <1>1, Undecided
<1>3. t \in Nat /\ t # None /\ tasks \in Seq(Task)
  BY DEF Inv, TypeOK
<1>4. /\ p \in Proposal /\ p.status = "linked" /\ p.task_id = t
      /\ p.current_version = proposals[k].current_version
      /\ p.merged_into = proposals[k].merged_into
  BY <1>2, <1>3 DEF Proposal, Status, Taken
<1>5. BasisObject[k] \in Objects /\ CurrentRevision(k) \in Revisions
  BY <1>1, CurrentExists DEF MayDecide
<1>6. TasksGrow /\ Backed(tasks'[t], BasisObject[k])
  BY <1>3, <1>5, CausedGrows DEF Link, LinkedTasks, Inv
<1> HIDE DEF p
<1>7. QED
  BY <1>1, <1>2, <1>3, <1>4, <1>6, DecidedInv DEF Taken

LEMMA MergeInv ==
  ASSUME Inv, NEW k \in Keys, NEW target \in Keys, Merge(k, target)
  PROVE  Inv'
<1> DEFINE p == [proposals[k] EXCEPT !.status = "merged", !.merged_into = target]
<1>1. /\ MayDecide(k) /\ Decide(k, p) /\ UNCHANGED <<versions, tasks, creating, work>>
      /\ target # k
  BY DEF Merge, Decide, MergeTargets
<1>2. proposals[k] \in Proposal /\ proposals[k].task_id = None
  BY <1>1, Undecided
<1>3. /\ p \in Proposal /\ p.status = "merged" /\ p.task_id = None
      /\ p.current_version = proposals[k].current_version
      /\ p.merged_into = target
  BY <1>2 DEF Proposal, Status, Taken
<1>4. TasksGrow
  BY <1>1, UnchangedTasks DEF Inv
<1> HIDE DEF p
<1>5. QED
  BY <1>1, <1>3, <1>4, DecidedInv DEF Taken

LEMMA PutAsideInv ==
  ASSUME Inv, NEW k \in Keys, NEW status \in Status, PutAside(k, status)
  PROVE  Inv'
<1> DEFINE p == [proposals[k] EXCEPT !.status = status]
<1>1. /\ MayDecide(k) /\ Decide(k, p) /\ UNCHANGED <<versions, tasks, creating, work>>
      /\ status \in {"deferred", "rejected"}
  BY DEF PutAside, Decide
<1>2. proposals[k] \in Proposal /\ proposals[k].task_id = None /\ proposals[k].merged_into # k
  BY <1>1, Undecided
<1>3. /\ p \in Proposal /\ p.status \in {"deferred", "rejected"} /\ p.task_id = None
      /\ p.current_version = proposals[k].current_version
      /\ p.merged_into = proposals[k].merged_into
  BY <1>1, <1>2 DEF Proposal
<1>4. TasksGrow
  BY <1>1, UnchangedTasks DEF Inv
<1> HIDE DEF p
<1>5. QED
  BY <1>1, <1>2, <1>3, <1>4, DecidedInv DEF Taken

\* What an import leaves: one version more, of a revision not known before.
LEMMA ImportEffect ==
  ASSUME Inv, NEW k \in Keys, NEW r \in Revisions, ImportProposal(k, r)
  PROVE  \E p, q \in Proposal :
           /\ IF Proposed(k) THEN p = proposals[k] ELSE p.status = "open"
           /\ q.status = p.status /\ q.task_id = p.task_id /\ q.merged_into = p.merged_into
           /\ q.current_version = p.current_version + 1
           /\ p.status # "open" => q.updated
           /\ Replaces(k, q)
           /\ versions' = [versions EXCEPT ![k] = @ \cup
                {[version |-> q.current_version, basis_revision |-> r]}]
           /\ {v.version : v \in versions[k]} = 1 .. p.current_version
           /\ \A v \in versions[k] : v.basis_revision # r
           /\ p.merged_into # k
           /\ (p.status \in Taken) <=> (p.task_id # None)
           /\ p.task_id # None =>
                /\ p.task_id \in DOMAIN tasks
                /\ Backed(tasks[p.task_id], BasisObject[k])
           /\ tasks' = Impact(p, BasisObject[k], r)
<1> DEFINE p == IF Proposed(k) THEN proposals[k] ELSE NewProposal
           q == [p EXCEPT !.current_version = p.current_version + 1,
                          !.updated = p.updated \/ OutdatedBy(p.status)]
<1>1. p \in Proposal
  BY Present DEF Inv, TypeOK, NewProposal, Proposal, Status
<1>2. /\ ~Proposed(k) => /\ p.status = "open" /\ p.task_id = None /\ p.merged_into = None
                         /\ p.current_version = 0
      /\ Proposed(k) => p = proposals[k]
  BY DEF NewProposal
<1>3. {v.version : v \in versions[k]} = 1 .. p.current_version
  BY <1>2 DEF Inv, Numbered, VersionsNumbered
<1>4. p.merged_into # k
  BY <1>2 DEF Inv, TypeOK, Proposed
<1>5. /\ (p.status \in Taken) <=> (p.task_id # None)
      /\ p.task_id # None =>
           /\ p.task_id \in DOMAIN tasks
           /\ Backed(tasks[p.task_id], BasisObject[k])
  BY <1>2, TakenBacked DEF Inv, TakenHasTask, Taken
<1>6. \A v \in versions[k] : v.basis_revision # r
  BY DEF ImportProposal, Known
<1>7. /\ Replaces(k, q)
      /\ versions' = [versions EXCEPT ![k] = @ \cup
           {[version |-> p.current_version + 1, basis_revision |-> r]}]
      /\ tasks' = Impact(p, BasisObject[k], r)
  BY DEF ImportProposal, WithVersion, Replaces
<1> HIDE DEF p
<1>8. /\ q \in Proposal
      /\ q.status = p.status /\ q.task_id = p.task_id /\ q.merged_into = p.merged_into
      /\ q.current_version = p.current_version + 1
      /\ p.status # "open" => q.updated
  <2> DEFINE n == p.current_version + 1
             u == p.updated \/ OutdatedBy(p.status)
  <2>1. p.current_version \in Nat /\ p.updated \in BOOLEAN
    BY <1>1 DEF Proposal
  <2>2. u \in BOOLEAN /\ (p.status # "open" => u = TRUE)
    BY <2>1, Zenon DEF OutdatedBy
  <2>3. n \in Nat
    BY <2>1
  <2> HIDE DEF n, u
  <2>4. q = [p EXCEPT !.current_version = n, !.updated = u]
    BY Zenon DEF q, n, u
  <2>5. /\ q \in Proposal
        /\ q.status = p.status /\ q.task_id = p.task_id /\ q.merged_into = p.merged_into
        /\ q.current_version = n /\ q.updated = u
    BY <1>1, <2>2, <2>3, <2>4 DEF Proposal
  <2>6. QED
    BY <2>2, <2>5 DEF n
<1> HIDE DEF q
<1>9. QED
  BY <1>1, <1>2, <1>3, <1>4, <1>5, <1>6, <1>7, <1>8

LEMMA ImportInv ==
  ASSUME Inv, NEW k \in Keys, NEW r \in Revisions, ImportProposal(k, r)
  PROVE  Inv'
<1>1. PICK p, q \in Proposal :
        /\ IF Proposed(k) THEN p = proposals[k] ELSE p.status = "open"
        /\ q.status = p.status /\ q.task_id = p.task_id /\ q.merged_into = p.merged_into
        /\ q.current_version = p.current_version + 1
        /\ Replaces(k, q)
        /\ versions' = [versions EXCEPT ![k] = @ \cup
             {[version |-> q.current_version, basis_revision |-> r]}]
        /\ {v.version : v \in versions[k]} = 1 .. p.current_version
        /\ \A v \in versions[k] : v.basis_revision # r
        /\ p.merged_into # k
        /\ (p.status \in Taken) <=> (p.task_id # None)
        /\ p.task_id # None =>
             /\ p.task_id \in DOMAIN tasks
             /\ Backed(tasks[p.task_id], BasisObject[k])
        /\ tasks' = Impact(p, BasisObject[k], r)
  BY ImportEffect
<1>2. /\ proposals' \in [Keys -> Proposal \cup {Absent}]
      /\ proposals'[k] = q /\ Proposed(k)'
      /\ \A j \in Keys : j # k => proposals'[j] = proposals[j] /\ (Proposed(j)' <=> Proposed(j))
      /\ \A j \in Keys : Proposed(j) => Proposed(j)'
  BY <1>1, ReplacedRow
<1>3. TasksGrow
  BY <1>1, ImpactGrows DEF Inv
<1>4. p.current_version \in Nat /\ q.current_version \in Nat
  BY DEF Proposal
<1> DEFINE new == [version |-> q.current_version, basis_revision |-> r]
<1>5. new \in Version
  BY <1>4 DEF Version
<1>6. /\ versions' \in [Keys -> SUBSET Version]
      /\ versions'[k] = versions[k] \cup {new}
      /\ \A j \in Keys : j # k => versions'[j] = versions[j]
  BY <1>1, <1>5 DEF Inv, TypeOK
<1>7. UNCHANGED <<creating, decided, work>>
  BY DEF ImportProposal
<1>8. TypeOK'
  <2>1. \A j \in Keys : proposals'[j] # Absent => proposals'[j].merged_into # j
    BY <1>1, <1>2 DEF Inv, TypeOK, Proposed
  <2>2. QED
    BY <1>2, <1>3, <1>6, <1>7, <2>1, TasksTyped DEF Inv, TypeOK
<1>9. Numbered'
  BY <1>1, <1>2, <1>4, <1>6 DEF Inv, Numbered
<1>10. VersionsNumbered'
  <2>1. \A v \in versions[k] : v.version \in 1 .. p.current_version
    BY <1>1
  <2>2. \A v \in versions[k] : v.version # new.version /\ v.basis_revision # new.basis_revision
    BY <1>1, <1>4, <2>1
  <2>3. {v.version : v \in versions'[k]} = (1 .. p.current_version) \cup {q.current_version}
    <3>1. new.version = q.current_version
      OBVIOUS
    <3> HIDE DEF new
    <3>2. {v.version : v \in versions'[k]} = {v.version : v \in versions[k]} \cup {new.version}
      BY <1>6, Zenon
    <3>3. QED
      BY <1>1, <3>1, <3>2
  <2>4. (1 .. p.current_version) \cup {q.current_version} = 1 .. q.current_version
    BY <1>1, <1>4
  <2>5. \A v, u \in versions'[k] :
          v # u => v.version # u.version /\ v.basis_revision # u.basis_revision
    <3> HIDE DEF new
    <3>1. QED
      BY <1>6, <2>2 DEF Inv, VersionsNumbered
  <2>6. ASSUME NEW j \in Keys, j # k
        PROVE  /\ \A v, u \in versions'[j] :
                    v # u => v.version # u.version /\ v.basis_revision # u.basis_revision
               /\ Proposed(j)' =>
                    {v.version : v \in versions'[j]} = 1 .. proposals'[j].current_version
    <3>1. versions'[j] = versions[j] /\ proposals'[j] = proposals[j] /\ (Proposed(j)' <=> Proposed(j))
      BY <1>2, <1>6, <2>6
    <3>2. QED
      BY <3>1 DEF Inv, VersionsNumbered
  <2>7. QED
    BY <1>2, <2>3, <2>4, <2>5, <2>6 DEF VersionsNumbered
<1>11. Resumable'
  BY <1>2, <1>3, <1>7 DEF Inv, Resumable, TasksGrow
<1>12. TakenHasTask'
  <2>1. ASSUME q.task_id # None
        PROVE  q.task_id \in DOMAIN tasks /\ Backed(tasks'[q.task_id], BasisObject[k])
    <3>1. PICK t \in DOMAIN tasks : t = q.task_id /\ Backed(tasks[t], BasisObject[k])
      BY <1>1, <2>1
    <3>2. TaskKept(tasks[t], tasks'[t]) /\ BasisObject[k] \in Objects
      BY <1>3 DEF TasksGrow
    <3>3. QED
      BY <3>1, <3>2, KeptStands
  <2>2. QED
    BY <1>1, <1>3, <2>1, LinksKept
<1>13. QED
  BY <1>3, <1>8, <1>9, <1>10, <1>11, <1>12 DEF Inv, TasksGrow

LEMMA AppendedGrows ==
  ASSUME tasks \in Seq(Recorded), NEW k \in Keys, tasks' = Append(tasks, NewTask(k))
  PROVE  TasksGrow /\ Len(tasks) + 1 \in DOMAIN tasks' /\ Len(tasks) + 1 \in Nat
<1> DEFINE new == NewTask(k)
<1>1. new \in Recorded
  BY DEF NewTask, Task, Recorded
<1>2. tasks' = Append(tasks, new)
  OBVIOUS
<1> HIDE DEF new
<1>3. /\ tasks' \in Seq(Recorded) /\ DOMAIN tasks \subseteq DOMAIN tasks'
      /\ Len(tasks) + 1 \in DOMAIN tasks' /\ Len(tasks) + 1 \in Nat
      /\ \A t \in DOMAIN tasks : tasks'[t] = tasks[t]
  BY <1>1, <1>2
<1>4. \A a : TaskKept(a, a)
  BY Zenon DEF TaskKept
<1>5. QED
  BY <1>3, <1>4 DEF TasksGrow

LEMMA CreateInv ==
  ASSUME Inv, NEW w \in Requests, NEW k \in Keys, CreateTask(w, k)
  PROVE  Inv'
<1> DEFINE c == [key |-> k, task |-> Len(tasks) + 1, revision |-> CurrentRevision(k),
                 current |-> proposals[k].current_version, updated |-> proposals[k].updated]
<1>1. /\ tasks' = Append(tasks, NewTask(k))
      /\ creating' = [creating EXCEPT ![w] = c]
      /\ UNCHANGED <<proposals, versions, decided, work>>
      /\ Proposed(k)
  BY DEF CreateTask, MayDecide
<1>3. TasksGrow /\ Len(tasks) + 1 \in DOMAIN tasks' /\ Len(tasks) + 1 \in Nat
  BY <1>1, AppendedGrows DEF Inv
<1>4. c \in [key : Keys, task : Nat, revision : Revisions, current : Nat, updated : BOOLEAN]
  <2>1. proposals[k] \in Proposal
    BY <1>1, Present DEF Inv, TypeOK
  <2>2. QED
    BY <1>1, <1>3, <2>1, CurrentExists DEF Proposal
<1>5. c.key = k /\ c.task \in DOMAIN tasks'
  BY <1>3
<1> HIDE DEF c
<1>6. TypeOK'
  BY <1>1, <1>3, <1>4, TasksTyped DEF Inv, TypeOK, Creating
<1>7. Resumable'
  BY <1>1, <1>3, <1>4, <1>5 DEF Inv, TypeOK, Resumable, TasksGrow, Proposed
<1>8. TakenHasTask'
  <2>1. ASSUME NEW j \in Keys, Proposed(j), proposals[j].status \in Taken
        PROVE  /\ proposals[j].task_id \in DOMAIN tasks'
               /\ Backed(tasks'[proposals[j].task_id], BasisObject[j])
    <3>1. PICK t \in DOMAIN tasks : t = proposals[j].task_id /\ Backed(tasks[t], BasisObject[j])
      BY <2>1, TakenBacked
    <3>2. /\ TaskKept(tasks[t], tasks'[t]) /\ t \in DOMAIN tasks'
          /\ BasisObject[j] \in Objects
      BY <1>3 DEF TasksGrow
    <3>3. QED
      BY <3>1, <3>2, KeptStands
  <2>2. QED
    BY <1>1, <2>1 DEF Inv, TakenHasTask, Backed, Proposed
<1>9. Numbered' /\ VersionsNumbered'
  BY <1>1 DEF Inv, Numbered, VersionsNumbered, Proposed
<1>10. QED
  BY <1>3, <1>6, <1>7, <1>8, <1>9 DEF Inv, TasksGrow

LEMMA FinishEffect ==
  ASSUME Inv, NEW w \in Requests, FinishCreate(w)
  PROVE  \E k \in Keys, t \in DOMAIN tasks, p \in Proposal :
           /\ creating[w].key = k /\ creating[w].task = t /\ Proposed(k) /\ Replaces(k, p)
           /\ p.status = "converted" /\ p.task_id = t
           /\ p.current_version = proposals[k].current_version
           /\ p.merged_into = proposals[k].merged_into
           /\ TasksGrow /\ SameTasks /\ Backed(tasks'[t], BasisObject[k])
           /\ decided' \in [Keys -> Nat] /\ decided'[k] = proposals[k].current_version
           /\ \A j \in Keys : j # k => decided'[j] = decided[j]
<1> DEFINE c == creating[w]
           k == c.key
           t == c.task
           p == Converted(proposals[k], c)
<1>1. /\ c \in [key : Keys, task : Nat, revision : Revisions, current : Nat, updated : BOOLEAN]
      /\ Proposed(k) /\ t \in DOMAIN tasks
  BY DEF FinishCreate, Inv, Resumable
<1>2. k \in Keys /\ t \in Nat /\ c.revision \in Revisions
  BY <1>1
<1>3. /\ Replaces(k, p)
      /\ tasks' = Caused(tasks, t, BasisObject[k], c.revision)
      /\ decided' = [decided EXCEPT ![k] = proposals[k].current_version]
  BY DEF FinishCreate, Replaces
<1>4. proposals[k] \in Proposal
  BY <1>1, <1>2, Present DEF Inv, TypeOK
<1> HIDE DEF k, t
<1>5. /\ p \in Proposal /\ p.status = "converted" /\ p.task_id = t
      /\ p.current_version = proposals[k].current_version
      /\ p.merged_into = proposals[k].merged_into
  <2> DEFINE u == IF c.updated THEN FALSE ELSE proposals[k].updated
  <2>1. u \in BOOLEAN
    BY <1>4 DEF Proposal
  <2> HIDE DEF u
  <2>2. p = [proposals[k] EXCEPT !.status = "converted", !.task_id = t, !.updated = u]
    BY Zenon DEF Converted, u, t
  <2>3. QED
    BY <1>2, <1>4, <2>1, <2>2 DEF Proposal, Status, Taken
<1>6. BasisObject[k] \in Objects
  BY <1>2
<1>7. TasksGrow /\ SameTasks /\ Backed(tasks'[t], BasisObject[k])
  BY <1>1, <1>2, <1>3, <1>6, CausedGrows DEF Inv, t
<1>8. /\ decided' \in [Keys -> Nat] /\ decided'[k] = proposals[k].current_version
      /\ \A j \in Keys : j # k => decided'[j] = decided[j]
  BY <1>2, <1>3, <1>4 DEF Inv, TypeOK, Proposal
<1>9. creating[w].key = k /\ creating[w].task = t /\ Proposed(k) /\ t \in DOMAIN tasks
  BY <1>1 DEF k, t
<1> HIDE DEF p
<1>10. QED
  BY <1>2, <1>3, <1>5, <1>7, <1>8, <1>9

LEMMA FinishInv ==
  ASSUME Inv, NEW w \in Requests, FinishCreate(w)
  PROVE  Inv'
<1>1. PICK k \in Keys, t \in DOMAIN tasks, p \in Proposal :
           /\ creating[w].key = k /\ Proposed(k) /\ Replaces(k, p)
           /\ p.status = "converted" /\ p.task_id = t
           /\ p.current_version = proposals[k].current_version
           /\ p.merged_into = proposals[k].merged_into
           /\ TasksGrow /\ Backed(tasks'[t], BasisObject[k])
           /\ decided' \in [Keys -> Nat]
  BY FinishEffect
<1>2. /\ proposals' \in [Keys -> Proposal \cup {Absent}]
      /\ proposals'[k] = p /\ Proposed(k)'
      /\ \A j \in Keys : j # k => proposals'[j] = proposals[j] /\ (Proposed(j)' <=> Proposed(j))
      /\ \A j \in Keys : Proposed(j) => Proposed(j)'
  BY <1>1, ReplacedRow
<1>3. /\ creating' = [creating EXCEPT ![w] = NoDecision]
      /\ versions' = versions /\ work' = work
  BY DEF FinishCreate
<1>4. TypeOK'
  <2>1. ASSUME NEW j \in Keys, proposals'[j] # Absent PROVE proposals'[j].merged_into # j
    <3>1. \A i \in Keys : proposals[i] # Absent => proposals[i].merged_into # i
      BY DEF Inv, TypeOK
    <3>2. proposals[k] # Absent
      BY <1>1 DEF Proposed
    <3>3. CASE j = k
      BY <1>1, <1>2, <3>1, <3>2, <3>3
    <3>4. CASE j # k
      BY <1>2, <2>1, <3>1, <3>4
    <3>5. QED
      BY <3>3, <3>4
  <2>2. creating' \in [Requests -> Creating]
    BY <1>3 DEF Inv, TypeOK, Creating
  <2>3. QED
    BY <1>1, <1>2, <1>3, <2>1, <2>2, TasksTyped DEF Inv, TypeOK
<1>5. Numbered' /\ VersionsNumbered'
  <2>1. \A j \in Keys :
          /\ proposals[j].current_version = proposals'[j].current_version
          /\ Proposed(j)' <=> Proposed(j)
    BY <1>1, <1>2
  <2>2. Numbered /\ VersionsNumbered
    BY DEF Inv
  <2>3. Numbered'
    BY <1>3, <2>1, <2>2 DEF Numbered
  <2>4. ASSUME NEW j \in Keys
        PROVE  /\ \A v, u \in versions'[j] :
                    v # u => v.version # u.version /\ v.basis_revision # u.basis_revision
               /\ Proposed(j)' =>
                    {v.version : v \in versions'[j]} = 1 .. proposals'[j].current_version
    <3>1. versions'[j] = versions[j]
      BY <1>3
    <3>2. QED
      BY <2>1, <2>2, <3>1 DEF VersionsNumbered
  <2>5. QED
    BY <2>3, <2>4 DEF VersionsNumbered
<1>6. Resumable'
  BY <1>1, <1>2, <1>3 DEF Inv, TypeOK, Resumable, TasksGrow
<1>7. t \in Nat /\ t # None
  BY DEF Inv, TypeOK
<1>8. TakenHasTask'
  BY <1>1, <1>7, LinksKept DEF Taken
<1>9. QED
  BY <1>1, <1>4, <1>5, <1>6, <1>8 DEF Inv, TasksGrow

LEMMA CrashInv ==
  ASSUME Inv, NEW w \in Requests, Crash(w)
  PROVE  Inv'
<1>1. /\ creating' = [creating EXCEPT ![w] = NoDecision]
      /\ UNCHANGED <<proposals, versions, tasks, decided, work>>
  BY DEF Crash
<1>2. TypeOK'
  BY <1>1 DEF Inv, TypeOK, Creating
<1>3. Resumable'
  BY <1>1 DEF Inv, TypeOK, Resumable, Proposed
<1>4. Numbered' /\ VersionsNumbered' /\ TakenHasTask'
  BY <1>1 DEF Inv, Numbered, VersionsNumbered, TakenHasTask, Proposed
<1>5. QED
  BY <1>1, <1>2, <1>3, <1>4 DEF Inv

LEMMA WorkInv ==
  ASSUME Inv, TaskWork
  PROVE  Inv'
<1>1. TasksGrow
  BY WorkGrows DEF Inv
<1>2. UNCHANGED <<proposals, versions, creating, decided>> /\ work < MaxWork /\ work' = work + 1
  BY WorkGrows DEF Inv, Apart
<1>3. TypeOK'
  BY <1>1, <1>2, TasksTyped DEF Inv, TypeOK
<1>4. Resumable'
  BY <1>1, <1>2 DEF Inv, TypeOK, Resumable, Proposed, TasksGrow
<1>5. TakenHasTask'
  <2>1. ASSUME NEW j \in Keys, Proposed(j), proposals[j].status \in Taken
        PROVE  /\ proposals[j].task_id \in DOMAIN tasks'
               /\ Backed(tasks'[proposals[j].task_id], BasisObject[j])
    <3>1. PICK t \in DOMAIN tasks : t = proposals[j].task_id /\ Backed(tasks[t], BasisObject[j])
      BY <2>1, TakenBacked
    <3>2. /\ TaskKept(tasks[t], tasks'[t]) /\ t \in DOMAIN tasks'
          /\ BasisObject[j] \in Objects
      BY <1>1 DEF TasksGrow
    <3>3. QED
      BY <3>1, <3>2, KeptStands
  <2>2. QED
    BY <1>2, <2>1 DEF Inv, TakenHasTask, Backed, Proposed
<1>6. Numbered' /\ VersionsNumbered'
  BY <1>2 DEF Inv, Numbered, VersionsNumbered, Proposed
<1>7. QED
  BY <1>1, <1>3, <1>4, <1>5, <1>6 DEF Inv, TasksGrow

LEMMA InvStep == Inv /\ [Next]_vars => Inv'
<1> SUFFICES ASSUME Inv, [Next]_vars PROVE Inv'
  OBVIOUS
<1>1. ASSUME NEW k \in Keys, NEW r \in Revisions, ImportProposal(k, r) PROVE Inv'
  BY <1>1, ImportInv
<1>2. ASSUME NEW k \in Keys, Decision(k) PROVE Inv'
  BY <1>2, LinkInv, MergeInv, PutAsideInv, CreateInv DEF Decision
<1>3. ASSUME NEW w \in Requests, FinishCreate(w) \/ Crash(w) PROVE Inv'
  BY <1>3, FinishInv, CrashInv
<1>4. CASE UNCHANGED vars
  BY <1>4 DEF vars, Inv, TypeOK, Numbered, VersionsNumbered, Resumable, TakenHasTask, Proposed
<1>5. CASE TaskWork
  BY <1>5, WorkInv
<1>6. QED
  BY <1>1, <1>2, <1>3, <1>4, <1>5 DEF Next

LEMMA InvAlways == Spec => []Inv
<1>1. Init => Inv
  BY InitInv
<1>2. Inv /\ [Next]_vars => Inv'
  BY InvStep
<1>3. QED
  BY <1>1, <1>2, PTL DEF Spec

-----------------------------------------------------------------------------
(* What a step does to one proposal.                                       *)

Kept(k) == proposals'[k] = proposals[k] /\ Newer(k)' = Newer(k)
Imported(k) == \E r \in Revisions : ImportProposal(k, r)
DecidedNow(k) == MayDecide(k) /\ Newer(k)' = {}
Completed(k) ==
  proposals'[k].status = "converted" /\ Newer(k)' = {} /\ \E w \in Requests : creating[w].key = k

StepOn(k) == Kept(k) \/ Imported(k) \/ DecidedNow(k) \/ Completed(k)

\* A decision settles every version there is.
LEMMA DecideSettles ==
  ASSUME Inv, NEW k \in Keys, NEW p, Decide(k, p), versions' = versions
  PROVE  \A j \in Keys : StepOn(j)
<1>1. MayDecide(k) /\ Proposed(k) /\ proposals[k].current_version \in Nat
  BY Present DEF Decide, MayDecide, Inv, TypeOK, Proposal
<1>2. decided'[k] = proposals[k].current_version
  BY DEF Decide, Inv, TypeOK
<1>3. \A v \in versions[k] : v.version \in 1 .. proposals[k].current_version
  BY <1>1 DEF Inv, VersionsNumbered
<1>4. Newer(k)' = {}
  BY <1>1, <1>2, <1>3 DEF Newer
<1>5. ASSUME NEW j \in Keys, j # k PROVE Kept(j)
  <2>1. proposals'[j] = proposals[j] /\ decided'[j] = decided[j]
    BY <1>5 DEF Decide, Inv, TypeOK
  <2>2. QED
    BY <2>1 DEF Kept, Newer
<1>6. QED
  BY <1>1, <1>4, <1>5 DEF StepOn, DecidedNow

LEMMA StepEffect ==
  ASSUME Inv, [Next]_vars
  PROVE  TasksGrow /\ \A j \in Keys : StepOn(j)
<1>1. ASSUME NEW k \in Keys, NEW r \in Revisions, ImportProposal(k, r)
      PROVE  TasksGrow /\ \A j \in Keys : StepOn(j)
  <2>1. PICK p, q \in Proposal :
          /\ Replaces(k, q)
          /\ versions' = [versions EXCEPT ![k] = @ \cup
               {[version |-> q.current_version, basis_revision |-> r]}]
          /\ p.task_id # None => p.task_id \in DOMAIN tasks
          /\ tasks' = Impact(p, BasisObject[k], r)
    BY <1>1, ImportEffect
  <2>2. TasksGrow
    BY <2>1, ImpactGrows DEF Inv
  <2>3. Imported(k)
    BY <1>1 DEF Imported
  <2>4. ASSUME NEW j \in Keys, j # k PROVE Kept(j)
    <3>1. /\ proposals'[j] = proposals[j] /\ versions'[j] = versions[j]
          /\ decided' = decided
      BY <1>1, <2>1, <2>4 DEF ImportProposal, Replaces, Inv, TypeOK
    <3>2. QED
      BY <3>1 DEF Kept, Newer
  <2>5. QED
    BY <2>2, <2>3, <2>4 DEF StepOn
<1>2. ASSUME NEW k \in Keys, NEW t \in DOMAIN tasks, Link(k, t)
      PROVE  TasksGrow /\ \A j \in Keys : StepOn(j)
  <2>1. Proposed(k) /\ versions' = versions
    BY <1>2 DEF Link, Decide, MayDecide
  <2>2. BasisObject[k] \in Objects /\ CurrentRevision(k) \in Revisions
    BY <2>1, CurrentExists
  <2>3. TasksGrow
    BY <1>2, <2>2, CausedGrows DEF Link, LinkedTasks, Inv
  <2>4. QED
    BY <1>2, <2>1, <2>3, DecideSettles DEF Link
<1>3. ASSUME NEW k \in Keys,
             (\E j \in Keys : Merge(k, j)) \/ (\E status \in Status : PutAside(k, status))
      PROVE  TasksGrow /\ \A j \in Keys : StepOn(j)
  <2>1. /\ \E p : Decide(k, p)
        /\ UNCHANGED <<versions, tasks>>
    BY <1>3 DEF Merge, PutAside
  <2>2. QED
    BY <2>1, DecideSettles, UnchangedTasks DEF Inv
<1>4. ASSUME NEW w \in Requests, NEW k \in Keys, CreateTask(w, k)
      PROVE  TasksGrow /\ \A j \in Keys : StepOn(j)
  <2>2. TasksGrow
    BY <1>4, AppendedGrows DEF CreateTask, Inv
  <2>3. QED
    BY <1>4, <2>2 DEF CreateTask, StepOn, Kept, Newer
<1>5. ASSUME NEW w \in Requests, FinishCreate(w)
      PROVE  TasksGrow /\ \A j \in Keys : StepOn(j)
  <2>1. PICK k \in Keys, p \in Proposal :
          /\ creating[w].key = k /\ Replaces(k, p) /\ p.status = "converted"
          /\ Proposed(k) /\ p.current_version = proposals[k].current_version
          /\ TasksGrow /\ decided'[k] = proposals[k].current_version
          /\ \A j \in Keys : j # k => decided'[j] = decided[j]
    BY <1>5, FinishEffect
  <2>2. Completed(k)
    <3>1. proposals[k].current_version \in Nat /\ versions' = versions
      BY <1>5, <2>1, Present DEF FinishCreate, Inv, TypeOK, Proposal
    <3>2. \A v \in versions[k] : v.version \in 1 .. proposals[k].current_version
      BY <2>1 DEF Inv, VersionsNumbered
    <3>3. Newer(k)' = {}
      BY <2>1, <3>1, <3>2 DEF Newer
    <3>4. QED
      BY <2>1, <3>3, ReplacedRow DEF Completed
  <2>3. ASSUME NEW j \in Keys, j # k PROVE Kept(j)
    <3>1. proposals'[j] = proposals[j] /\ decided'[j] = decided[j] /\ versions' = versions
      BY <1>5, <2>1, <2>3 DEF FinishCreate, Replaces, Inv, TypeOK
    <3>2. QED
      BY <3>1 DEF Kept, Newer
  <2>4. QED
    BY <2>1, <2>2, <2>3 DEF StepOn
<1>6. ASSUME (\E w \in Requests : Crash(w)) \/ UNCHANGED vars
      PROVE  TasksGrow /\ \A j \in Keys : StepOn(j)
  BY <1>6, UnchangedTasks DEF Crash, vars, StepOn, Kept, Newer, Inv
<1>7. ASSUME TaskWork
      PROVE  TasksGrow /\ \A j \in Keys : StepOn(j)
  BY <1>7, WorkGrows DEF Apart, StepOn, Kept, Newer, Inv
<1>8. QED
  BY <1>1, <1>2, <1>3, <1>4, <1>5, <1>6, <1>7 DEF Next, Decision

-----------------------------------------------------------------------------
(* The theorems.                                                           *)

(* Every variable keeps its type, and no proposal is merged into itself.   *)
THEOREM ProposalsTypeCorrect == Spec => []TypeOK
<1>1. Inv => TypeOK
  BY DEF Inv
<1>2. QED
  BY <1>1, InvAlways, PTL

(* The versions stay numbered, whichever imports come between the two      *)
(* commits of a decision.                                                  *)
THEOREM VersionsStayNumbered == Spec => []VersionsNumbered
<1>1. Inv => VersionsNumbered
  BY DEF Inv
<1>2. QED
  BY <1>1, InvAlways, PTL

(* A converted or linked proposal has its task, and the task the basis     *)
(* until a person takes it away; other proposals have none.                *)
THEOREM TakenAlwaysHasTask == Spec => []TakenHasTask
<1>1. Inv => TakenHasTask
  BY DEF Inv
<1>2. QED
  BY <1>1, InvAlways, PTL

(* A final decision is changed only by a task creation under way.          *)
THEOREM FinalDecisionStands == Spec => FinalStands
<1>1. ASSUME Inv, [Next]_vars, NEW k \in Keys, Proposed(k), Final(proposals[k].status)
      PROVE  \/ proposals'[k].status = proposals[k].status
             \/ \E w \in Requests : creating[w].key = k /\ proposals'[k].status = "converted"
  <2>1. CASE Imported(k)
    <3>1. PICK q \in Proposal : Replaces(k, q) /\ q.status = proposals[k].status
      BY <1>1, <2>1, ImportEffect DEF Imported
    <3>2. QED
      BY <1>1, <3>1, ReplacedRow
  <2>2. CASE DecidedNow(k)
    BY <1>1, <2>2 DEF DecidedNow, MayDecide
  <2>3. QED
    BY <1>1, <2>1, <2>2, StepEffect DEF StepOn, Kept, Completed
<1>2. Inv /\ [Next]_vars =>
        [\A k \in Keys : Proposed(k) /\ Final(proposals[k].status) =>
           \/ proposals'[k].status = proposals[k].status
           \/ \E w \in Requests : creating[w].key = k /\ proposals'[k].status = "converted"]_vars
  BY <1>1
<1>3. QED
  BY <1>2, InvAlways, PTL DEF Spec, FinalStands

(* A version that comes after a decision is shown, also where the decision *)
(* was written over the row as it was read at its beginning.               *)
THEOREM NewVersionAlwaysShown == Spec => []NewVersionIsShown
<1> DEFINE Shown(k) ==
      Proposed(k) /\ proposals[k].status # "open" /\ Newer(k) # {}
        => proposals[k].updated
<1>1. Init => NewVersionIsShown
  BY DEF Init, NewVersionIsShown, Proposed
<1>2. ASSUME Inv, NewVersionIsShown, [Next]_vars, NEW k \in Keys PROVE Shown(k)'
  <2>1. CASE Imported(k)
    <3>1. PICK q \in Proposal :
            Replaces(k, q) /\ (q.status # "open" => q.updated)
      <4>1. PICK r \in Revisions : ImportProposal(k, r)
        BY <2>1 DEF Imported
      <4>2. \E p, q \in Proposal :
              Replaces(k, q) /\ q.status = p.status /\ (p.status # "open" => q.updated)
        BY <1>2, <4>1, ImportEffect
      <4>3. QED
        BY <4>2
    <3>2. proposals'[k] = q
      BY <1>2, <3>1, ReplacedRow
    <3>3. QED
      BY <3>1, <3>2
  <2>2. CASE Kept(k)
    BY <1>2, <2>2 DEF Kept, NewVersionIsShown, Proposed
  <2>3. CASE DecidedNow(k) \/ Completed(k)
    BY <2>3 DEF DecidedNow, Completed
  <2>4. QED
    BY <1>2, <2>1, <2>2, <2>3, StepEffect DEF StepOn
<1>3. Inv /\ NewVersionIsShown /\ [Next]_vars => NewVersionIsShown'
  BY <1>2 DEF NewVersionIsShown
<1>4. QED
  BY <1>1, <1>3, InvAlways, PTL DEF Spec

(* No version after the decision is lost on the task, whatever is decided  *)
(* about its bases, while it rests on the basis of the proposal.           *)
THEOREM UpdatesAlwaysReachTask == Spec => []UpdatesReachTask
<1>1. Init => UpdatesReachTask
  BY DEF Init, UpdatesReachTask, Proposed
<1>2. ASSUME Inv, UpdatesReachTask, [Next]_vars, NEW k \in Keys,
             proposals'[k] \in Proposal, proposals'[k].status \in Taken, NEW n \in Newer(k)'
      PROVE  Reached(tasks'[proposals'[k].task_id], BasisObject[k], n.basis_revision)
  <2>1. TasksGrow /\ StepOn(k)
    BY <1>2, StepEffect
  <2>2. BasisObject[k] \in Objects
    OBVIOUS
  <2> DEFINE o == BasisObject[k]
  <2>3. ASSUME Proposed(k), proposals[k].status \in Taken,
               proposals'[k].task_id = proposals[k].task_id, NEW v \in Newer(k)
        PROVE  Reached(tasks'[proposals'[k].task_id], o, v.basis_revision)
    <3>1. PICK t \in DOMAIN tasks : t = proposals[k].task_id
      BY <1>2, <2>3, TakenBacked
    <3>2. Reached(tasks[t], o, v.basis_revision)
      BY <1>2, <2>3, <3>1 DEF UpdatesReachTask, Reached
    <3>3. TaskKept(tasks[t], tasks'[t])
      BY <2>1 DEF TasksGrow
    <3>4. QED
      BY <2>2, <2>3, <3>1, <3>2, <3>3, KeptStands
  <2>4. CASE Imported(k)
    <3>1. PICK r \in Revisions : ImportProposal(k, r)
      BY <2>4 DEF Imported
    <3>2. PICK p, q \in Proposal :
            /\ IF Proposed(k) THEN p = proposals[k] ELSE p.status = "open"
            /\ q.status = p.status /\ q.task_id = p.task_id
            /\ Replaces(k, q)
            /\ versions' = [versions EXCEPT ![k] = @ \cup
                 {[version |-> q.current_version, basis_revision |-> r]}]
            /\ (p.status \in Taken) <=> (p.task_id # None)
            /\ p.task_id # None =>
                 /\ p.task_id \in DOMAIN tasks
                 /\ Backed(tasks[p.task_id], BasisObject[k])
            /\ tasks' = Impact(p, BasisObject[k], r)
      BY <1>2, <3>1, ImportEffect
    <3>3. proposals'[k] = q
      BY <1>2, <3>2, ReplacedRow
    <3>4. /\ Proposed(k) /\ p = proposals[k] /\ p.task_id # None
          /\ proposals'[k].task_id = proposals[k].task_id
      BY <1>2, <3>2, <3>3 DEF Taken
    <3>5. Reached(tasks'[p.task_id], o, r)
      BY <1>2, <2>2, <3>2, <3>4, ImpactGrows DEF Inv
    <3> DEFINE new == [version |-> q.current_version, basis_revision |-> r]
    <3>6. /\ versions'[k] = versions[k] \cup {new} /\ decided' = decided
          /\ new.basis_revision = r
      BY <1>2, <3>1, <3>2 DEF ImportProposal, Inv, TypeOK
    <3> HIDE DEF new
    <3>7. n \in Newer(k) \/ n = new
      BY <1>2, <3>6 DEF Newer
    <3>8. QED
      BY <1>2, <2>3, <3>2, <3>3, <3>4, <3>5, <3>6, <3>7
  <2>5. CASE Kept(k)
    <3>1. proposals[k] # Absent
      BY <1>2, <2>5, Present DEF Kept, Inv, TypeOK
    <3>2. QED
      BY <1>2, <2>3, <2>5, <3>1 DEF Kept, Proposed
  <2>6. CASE DecidedNow(k) \/ Completed(k)
    BY <1>2, <2>6 DEF DecidedNow, Completed
  <2>7. QED
    BY <2>1, <2>4, <2>5, <2>6 DEF StepOn
<1>3. ASSUME Inv, UpdatesReachTask, [Next]_vars PROVE UpdatesReachTask'
  <2>1. Inv'
    BY <1>3, InvStep
  <2>2. \A k \in Keys : Proposed(k)' => proposals'[k] \in Proposal
    BY <2>1 DEF Inv, TypeOK, Proposed
  <2>3. \A k \in Keys : Proposed(k)' /\ proposals'[k].status \in Taken =>
          \A v \in Newer(k)' :
            Reached(tasks'[proposals'[k].task_id], BasisObject[k], v.basis_revision)
    BY <1>2, <1>3, <2>2
  <2>4. QED
    BY <2>3 DEF UpdatesReachTask, Reached
<1>4. Inv /\ UpdatesReachTask /\ [Next]_vars => UpdatesReachTask'
  BY <1>3
<1>5. QED
  BY <1>1, <1>4, InvAlways, PTL DEF Spec

-----------------------------------------------------------------------------
(* A repeat creates a second task only if a decision on the proposal comes *)
(* between the two commits of the creation, or the second never comes.     *)

UndisturbedNext ==
  \/ \E k \in Keys, r \in Revisions : ImportProposal(k, r)
  \/ \E k \in Keys : Decision(k) /\ \A w \in Requests : creating[w].key # k
  \/ \E w \in Requests : FinishCreate(w)
  \/ TaskWork

Undisturbed == Init /\ [][UndisturbedNext]_vars

Became(k, t) == proposals[k].status = "converted" /\ proposals[k].task_id = t

Becoming(k, t) ==
  \E w \in Requests : creating[w] # NoDecision /\ creating[w].key = k /\ creating[w].task = t

\* Each task made for a proposal is the one it became or is becoming.
MadeOnce ==
  \A t \in DOMAIN tasks : tasks[t].made_for # None =>
    Became(tasks[t].made_for, t) \/ Becoming(tasks[t].made_for, t)

\* What is becoming a task is undecided, and in the hands of one request.
DecisionsApart ==
  \A w \in Requests : creating[w] # NoDecision =>
    /\ MayDecide(creating[w].key)
    /\ \A u \in Requests : creating[u].key = creating[w].key => u = w

OnceInv == MadeOnce /\ DecisionsApart

LEMMA OnceSuffices ==
  ASSUME OnceInv
  PROVE  OneTaskPerProposal
<1> SUFFICES ASSUME NEW t \in DOMAIN tasks, NEW u \in DOMAIN tasks,
                    tasks[t].made_for # None, tasks[t].made_for = tasks[u].made_for
             PROVE  t = u
  BY DEF OneTaskPerProposal
<1> DEFINE k == tasks[t].made_for
<1>1. (Became(k, t) \/ Becoming(k, t)) /\ (Became(k, u) \/ Becoming(k, u))
  BY DEF OnceInv, MadeOnce
<1> HIDE DEF k
<1>2. (\E x : Becoming(k, x)) => ~ \E x : Became(k, x)
  BY DEF Becoming, Became, OnceInv, DecisionsApart, MayDecide, Final, Taken
<1>3. CASE Became(k, t) /\ Became(k, u)
  BY <1>3 DEF Became
<1>4. CASE Becoming(k, t) /\ Becoming(k, u)
  BY <1>4 DEF Becoming, OnceInv, DecisionsApart
<1>5. QED
  BY <1>1, <1>2, <1>3, <1>4

LEMMA MadeForKey ==
  ASSUME Inv, NEW t \in DOMAIN tasks, tasks[t].made_for # None
  PROVE  tasks[t].made_for \in Keys
<1>1. tasks[t] \in Task
  BY DEF Inv, TypeOK
<1>2. QED
  BY <1>1 DEF Task

\* A step that makes no task and leaves what is becoming one alone.
LEMMA OnceKept ==
  ASSUME Inv, OnceInv, SameTasks, creating' = creating,
         \A k \in Keys, t \in DOMAIN tasks : Became(k, t) => Became(k, t)',
         \A w \in Requests : creating[w] # NoDecision /\ MayDecide(creating[w].key)
                               => MayDecide(creating[w].key)'
  PROVE  OnceInv'
<1>1. ASSUME NEW t \in DOMAIN tasks, tasks[t].made_for # None
      PROVE  tasks[t].made_for \in Keys
  BY <1>1, MadeForKey
<1>2. MadeOnce'
  BY <1>1 DEF OnceInv, MadeOnce, SameTasks, Became, Becoming
<1>3. DecisionsApart'
  BY DEF OnceInv, DecisionsApart
<1>4. QED
  BY <1>2, <1>3 DEF OnceInv

LEMMA ImportOnce ==
  ASSUME Inv, OnceInv, NEW k \in Keys, NEW r \in Revisions, ImportProposal(k, r)
  PROVE  OnceInv'
<1>1. PICK p, q \in Proposal :
        /\ IF Proposed(k) THEN p = proposals[k] ELSE p.status = "open"
        /\ q.status = p.status /\ q.task_id = p.task_id
        /\ Replaces(k, q)
        /\ p.task_id # None => p.task_id \in DOMAIN tasks
        /\ tasks' = Impact(p, BasisObject[k], r)
  BY ImportEffect
<1>2. /\ proposals'[k] = q /\ Proposed(k)'
      /\ \A j \in Keys : j # k => proposals'[j] = proposals[j] /\ (Proposed(j)' <=> Proposed(j))
  BY <1>1, ReplacedRow
<1>3. SameTasks /\ creating' = creating
  BY <1>1, ImpactGrows DEF Inv, ImportProposal
<1>4. \A j \in Keys, t \in DOMAIN tasks : Became(j, t) => Became(j, t)'
  BY <1>1, <1>2 DEF Became, Proposed, Absent
<1>5. \A j \in Keys : MayDecide(j) => MayDecide(j)'
  BY <1>1, <1>2 DEF MayDecide
<1>6. \A w \in Requests : creating[w] # NoDecision => creating[w].key \in Keys
  BY DEF Inv, Resumable
<1>7. QED
  BY <1>3, <1>4, <1>5, <1>6, OnceKept

\* Link, merge, defer, reject.
LEMMA DecideOnce ==
  ASSUME Inv, OnceInv, NEW k \in Keys, NEW p, Decide(k, p), SameTasks, creating' = creating,
         \A w \in Requests : creating[w].key # k
  PROVE  OnceInv'
<1>1. MayDecide(k) /\ \A j \in Keys : j # k => proposals'[j] = proposals[j]
  BY DEF Decide, Inv, TypeOK
<1>2. \A j \in Keys, t \in DOMAIN tasks : Became(j, t) => Became(j, t)'
  BY <1>1 DEF Became, MayDecide, Final, Taken
<1>3. \A w \in Requests : creating[w] # NoDecision => creating[w].key \in Keys
  BY DEF Inv, Resumable
<1>4. \A w \in Requests : creating[w] # NoDecision /\ MayDecide(creating[w].key)
                            => MayDecide(creating[w].key)'
  BY <1>1, <1>3 DEF MayDecide, Proposed
<1>5. QED
  BY <1>2, <1>4, OnceKept

LEMMA CreateOnce ==
  ASSUME Inv, OnceInv, NEW k \in Keys, NEW w \in Requests, CreateTask(w, k),
         \A u \in Requests : creating[u].key # k
  PROVE  OnceInv'
<1> DEFINE c == [key |-> k, task |-> Len(tasks) + 1, revision |-> CurrentRevision(k),
                 current |-> proposals[k].current_version, updated |-> proposals[k].updated]
<1>0. PICK new : new = Len(tasks) + 1
  OBVIOUS
<1>1. /\ creating[w] = NoDecision /\ MayDecide(k)
      /\ tasks' = Append(tasks, NewTask(k))
      /\ creating' = [creating EXCEPT ![w] = c]
      /\ proposals' = proposals
  BY DEF CreateTask
<1>2. c # NoDecision /\ c.key = k /\ c.task = new
  BY <1>0 DEF NoDecision
<1> HIDE DEF c
<1>3. /\ creating'[w] = c
      /\ \A u \in Requests : u # w => creating'[u] = creating[u]
  BY <1>1 DEF Inv, TypeOK
<1>4. DecisionsApart'
  <2>1. \A j : MayDecide(j) => MayDecide(j)'
    BY <1>1 DEF MayDecide, Proposed
  <2>2. QED
    BY <1>1, <1>2, <1>3, <2>1 DEF OnceInv, DecisionsApart
<1>5. /\ DOMAIN tasks' = DOMAIN tasks \cup {new}
      /\ tasks'[new].made_for = k
      /\ \A t \in DOMAIN tasks : t # new /\ tasks'[t] = tasks[t]
  BY <1>0, <1>1 DEF Inv, TypeOK, NewTask
<1>6. Becoming(k, new)'
  BY <1>2, <1>3 DEF Becoming
<1>7. ASSUME NEW j \in Keys, NEW t \in DOMAIN tasks
      PROVE  /\ Became(j, t) => Became(j, t)'
             /\ Becoming(j, t) => Becoming(j, t)'
  BY <1>1, <1>3 DEF Became, Becoming
<1>8. MadeOnce'
  <2>1. ASSUME NEW t \in DOMAIN tasks, tasks[t].made_for # None
        PROVE  \E j \in Keys : j = tasks'[t].made_for /\ (Became(j, t)' \/ Becoming(j, t)')
    BY <1>5, <1>7, <2>1, MadeForKey DEF OnceInv, MadeOnce
  <2>2. \A t \in DOMAIN tasks : tasks'[t].made_for = tasks[t].made_for
    BY <1>5
  <2>3. QED
    BY <1>5, <1>6, <2>1, <2>2 DEF MadeOnce, Became, Becoming
<1>9. QED
  BY <1>4, <1>8 DEF OnceInv

LEMMA FinishOnce ==
  ASSUME Inv, OnceInv, NEW w \in Requests, FinishCreate(w)
  PROVE  OnceInv'
<1>1. PICK k \in Keys, t \in DOMAIN tasks, p \in Proposal :
        /\ creating[w].key = k /\ creating[w].task = t /\ Replaces(k, p)
        /\ p.status = "converted" /\ p.task_id = t
        /\ SameTasks
  BY FinishEffect
<1>2. /\ proposals'[k] = p
      /\ \A j \in Keys : j # k => proposals'[j] = proposals[j] /\ (Proposed(j)' <=> Proposed(j))
  BY <1>1, ReplacedRow
<1>3. /\ creating[w] # NoDecision /\ creating'[w] = NoDecision
      /\ \A u \in Requests : u # w => creating'[u] = creating[u]
  BY DEF FinishCreate, Inv, TypeOK
<1>4. MayDecide(k) /\ \A u \in Requests : u # w => creating[u].key # k
  BY <1>1, <1>3 DEF OnceInv, DecisionsApart
<1>5. \A u \in Requests : creating'[u] # NoDecision => u # w /\ creating[u].key \in Keys \ {k}
  BY <1>3, <1>4 DEF Inv, Resumable
<1>6. DecisionsApart'
  <2>1. \A j \in Keys \ {k} : MayDecide(j) => MayDecide(j)'
    BY <1>2 DEF MayDecide
  <2>2. ASSUME NEW u \in Requests, creating'[u] # NoDecision
        PROVE  \E j \in Keys : creating'[u].key = j /\ MayDecide(j)'
    <3>1. u # w /\ creating'[u] = creating[u] /\ creating[u].key \in Keys \ {k}
      BY <1>3, <1>5, <2>2
    <3>2. PICK j \in Keys \ {k} : creating[u].key = j /\ MayDecide(j)
      BY <2>2, <3>1 DEF OnceInv, DecisionsApart
    <3>3. MayDecide(j)'
      BY <2>1, <3>2
    <3>4. QED
      BY <3>1, <3>2, <3>3
  <2>3. NoDecision.key \notin Keys
    BY DEF NoDecision
  <2>4. ASSUME NEW u \in Requests, NEW v \in Requests,
               creating'[u] # NoDecision, creating'[v].key = creating'[u].key
        PROVE  v = u
    <3>1. u # w /\ v # w /\ creating'[u] = creating[u] /\ creating'[v] = creating[v]
      BY <1>3, <1>5, <2>3, <2>4
    <3>2. QED
      BY <2>4, <3>1 DEF OnceInv, DecisionsApart
  <2>5. QED
    BY <2>2, <2>4 DEF DecisionsApart, MayDecide, Proposed
<1>7. ASSUME NEW x \in DOMAIN tasks, NEW j \in Keys, j = tasks[x].made_for
      PROVE  Became(j, x)' \/ Becoming(j, x)'
  <2>1. Became(j, x) \/ Becoming(j, x)
    BY <1>7 DEF OnceInv, MadeOnce
  <2>2. CASE j = k
    <3>1. Becoming(k, x)
      BY <1>4, <2>1, <2>2 DEF Became, MayDecide, Final, Taken
    <3>2. x = t
      BY <1>1, <1>4, <3>1 DEF Becoming
    <3>3. QED
      BY <1>1, <1>2, <2>2, <3>2 DEF Became
  <2>3. CASE j # k
    <3>1. Became(j, x) => Became(j, x)'
      BY <1>2, <2>1, <2>3 DEF Became
    <3>2. Becoming(j, x) => Becoming(j, x)'
      BY <1>1, <1>3, <2>3 DEF Becoming
    <3>3. QED
      BY <2>1, <3>1, <3>2
  <2>4. QED
    BY <2>2, <2>3
<1>8. MadeOnce'
  BY <1>1, <1>7, MadeForKey DEF MadeOnce, SameTasks, Became, Becoming
<1>9. QED
  BY <1>6, <1>8 DEF OnceInv

(* TT-20: a repeat creates no second task of a proposal, however imports   *)
(* and decisions on other proposals come in between.                       *)
THEOREM TaskCreatedOnce == Undisturbed => []OneTaskPerProposal
<1>1. [UndisturbedNext]_vars => [Next]_vars
  BY DEF UndisturbedNext, Next
<1>2. Undisturbed => []Inv
  BY <1>1, InvAlways, PTL DEF Undisturbed, Spec
<1>3. Init => OnceInv
  BY DEF Init, OnceInv, MadeOnce, DecisionsApart, NewTask
<1>4. Inv /\ OnceInv /\ [UndisturbedNext]_vars => OnceInv'
  <2> SUFFICES ASSUME Inv, OnceInv, [UndisturbedNext]_vars PROVE OnceInv'
    OBVIOUS
  <2>1. ASSUME NEW k \in Keys, NEW r \in Revisions, ImportProposal(k, r) PROVE OnceInv'
    BY <2>1, ImportOnce
  <2>2. ASSUME NEW k \in Keys, Decision(k), \A w \in Requests : creating[w].key # k
        PROVE  OnceInv'
    <3>1. ASSUME NEW t \in DOMAIN tasks, Link(k, t) PROVE OnceInv'
      <4>1. BasisObject[k] \in Objects /\ CurrentRevision(k) \in Revisions
        BY <3>1, CurrentExists DEF Link, Decide, MayDecide
      <4>2. SameTasks /\ creating' = creating
        BY <3>1, <4>1, CausedGrows DEF Link, LinkedTasks, Inv
      <4>3. QED
        BY <2>2, <3>1, <4>2, DecideOnce DEF Link
    <3>2. ASSUME NEW p, Decide(k, p), UNCHANGED <<versions, tasks, creating, work>> PROVE OnceInv'
      BY <2>2, <3>2, DecideOnce DEF SameTasks
    <3>3. ASSUME NEW w \in Requests, CreateTask(w, k) PROVE OnceInv'
      BY <2>2, <3>3, CreateOnce
    <3>4. QED
      BY <2>2, <3>1, <3>2, <3>3 DEF Decision, Merge, PutAside
  <2>3. ASSUME NEW w \in Requests, FinishCreate(w) PROVE OnceInv'
    BY <2>3, FinishOnce
  <2>4. CASE UNCHANGED vars
    BY <2>4 DEF vars, OnceInv, MadeOnce, DecisionsApart, Became, Becoming, MayDecide, Proposed
  <2>5. ASSUME TaskWork PROVE OnceInv'
    <3>1. SameTasks /\ Apart
      BY <2>5, WorkGrows DEF Inv
    <3>2. QED
      BY <3>1, OnceKept DEF Apart, Became, MayDecide, Proposed
  <2>6. QED
    BY <2>1, <2>2, <2>3, <2>4, <2>5 DEF UndisturbedNext
<1>5. QED
  BY <1>2, <1>3, <1>4, OnceSuffices, PTL DEF Undisturbed
=============================================================================
