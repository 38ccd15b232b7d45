------------------------ MODULE WorkflowConfigProofs -------------------------
(***************************************************************************)
(* Theorems about WorkflowConfig, for any workflows, boards, tasks and     *)
(* requests: however many managers edit at once, nothing points at what is *)
(* gone.                                                                   *)
(***************************************************************************)
EXTENDS WorkflowConfig, TLAPS

-----------------------------------------------------------------------------
(* Rows and what a request is about to write.                              *)

LEMMA RowKinds ==
  /\ \A x \in Rows(Workflow) : Exists(x) <=> x \in Workflow
  /\ \A x \in Rows(Status) : Exists(x) <=> x \in Status
  /\ \A x \in Rows(Transition) : Exists(x) <=> x \in Transition
  /\ \A x \in Rows(View) : Exists(x) <=> x \in View
  /\ \A x \in Rows(Column) : Exists(x) <=> x \in Column
  /\ \A x \in Rows(Task) : Exists(x) <=> x \in Task
  /\ ~Exists(Gone) /\ ~Exists(Absent) /\ Gone # Absent
<1>1. ~Exists(Gone) /\ ~Exists(Absent) /\ Gone # Absent
  BY DEF Exists, Gone, Absent
<1>2. \A x \in Workflow : Exists(x)
  BY DEF Exists, Gone, Absent, Workflow
<1>3. \A x \in Status : Exists(x)
  BY DEF Exists, Gone, Absent, Status
<1>4. \A x \in Transition : Exists(x)
  BY DEF Exists, Gone, Absent, Transition
<1>5. \A x \in View : Exists(x)
  BY DEF Exists, Gone, Absent, View
<1>6. \A x \in Column : Exists(x)
  BY DEF Exists, Gone, Absent, Column
<1>7. \A x \in Task : Exists(x)
  BY DEF Exists, Gone, Absent, Task
<1>8. QED
  BY <1>1, <1>2, <1>3, <1>4, <1>5, <1>6, <1>7 DEF Rows

LEMMA PendingKinds ==
  ASSUME NEW p \in Pending
  PROVE  /\ p.op = "workflow" => p.id \in Workflows /\ p.is_default \in BOOLEAN
         /\ p.op = "delete workflow" => p.id \in Workflows
         /\ p.op = "new status" => p.row \in Status
         /\ p.op = "status" => /\ p.id \in Statuses
                               /\ p.category \in Categories \cup {None}
                               /\ p.is_default \in BOOLEAN \cup {None}
         /\ p.op = "delete status" => p.id \in Statuses
         /\ p.op = "migrate" => p.id \in Statuses /\ p.target \in Statuses
         /\ p.op = "transition" => p.row \in Transition
         /\ p.op = "config" => p.type \in TaskTypes /\ p.workflow \in Workflows
         /\ p.op = "map" => p.column \in Columns /\ p.status \in Statuses
         /\ p.op = "task" => p.workflow \in Workflows /\ p.status \in Statuses
         /\ p.op = "placed" => /\ p.workflow \in Workflows /\ p.status \in Statuses
                               /\ p.places \in SUBSET (Columns \X Statuses)
<1> DEFINE P1 == [op : {"workflow"}, id : Workflows, is_default : BOOLEAN, unset : SUBSET Workflows]
           P2 == [op : {"delete workflow"}, id : Workflows]
           P3 == [op : {"new status"}, row : Status, unset : SUBSET Statuses]
           P4 == [op : {"status"}, id : Statuses, category : Categories \cup {None},
                   is_default : BOOLEAN \cup {None}, unset : SUBSET Statuses]
           P5 == [op : {"delete status"}, id : Statuses]
           P6 == [op : {"migrate"}, id : Statuses, target : Statuses]
           P7 == [op : {"transition"}, row : Transition]
           P8 == [op : {"config"}, type : TaskTypes, workflow : Workflows, existing : BOOLEAN]
           P9 == [op : {"map"}, column : Columns, status : Statuses]
           P10 == [op : {"task"}, workflow : Workflows, status : Statuses]
           P11 == [op : {"placed"}, workflow : Workflows, status : Statuses,
                   places : SUBSET (Columns \X Statuses)]
<1>1. p \in {Idle} \cup P1 \cup P2 \cup P3 \cup P4 \cup P5 \cup P6 \cup P7 \cup P8 \cup P9 \cup P10
      \cup P11
  BY DEF Pending
<1>2. Idle.op = "idle"
  BY DEF Idle
<1>3. p \in P1 => p.op = "workflow" /\ p.id \in Workflows /\ p.is_default \in BOOLEAN
  OBVIOUS
<1>4. p \in P2 => p.op = "delete workflow" /\ p.id \in Workflows
  OBVIOUS
<1>5. p \in P3 => p.op = "new status" /\ p.row \in Status
  OBVIOUS
<1>6. p \in P4 => p.op = "status" /\ p.id \in Statuses /\ p.category \in Categories \cup {None}
      /\ p.is_default \in BOOLEAN \cup {None}
  OBVIOUS
<1>7. p \in P5 => p.op = "delete status" /\ p.id \in Statuses
  OBVIOUS
<1>8. p \in P6 => p.op = "migrate" /\ p.id \in Statuses /\ p.target \in Statuses
  OBVIOUS
<1>9. p \in P7 => p.op = "transition" /\ p.row \in Transition
  OBVIOUS
<1>10. p \in P8 => p.op = "config" /\ p.type \in TaskTypes /\ p.workflow \in Workflows
  OBVIOUS
<1>11. p \in P9 => p.op = "map" /\ p.column \in Columns /\ p.status \in Statuses
  OBVIOUS
<1>12. p \in P10 => p.op = "task" /\ p.workflow \in Workflows /\ p.status \in Statuses
  OBVIOUS
<1>13. p \in P11 => /\ p.op = "placed" /\ p.workflow \in Workflows /\ p.status \in Statuses
                    /\ p.places \in SUBSET (Columns \X Statuses)
  OBVIOUS
<1> HIDE DEF P1, P2, P3, P4, P5, P6, P7, P8, P9, P10, P11
<1>14. QED
  BY <1>1, <1>2, <1>3, <1>4, <1>5, <1>6, <1>7, <1>8, <1>9, <1>10, <1>11, <1>12, <1>13

LEMMA UnsetStatuses ==
  ASSUME statuses \in [Statuses -> Rows(Status)], NEW ids
  PROVE  /\ Unset(statuses, ids) \in [Statuses -> Rows(Status)]
         /\ \A s \in Statuses :
              /\ ~Exists(statuses[s]) => Unset(statuses, ids)[s] = statuses[s]
              /\ Exists(statuses[s]) => /\ Unset(statuses, ids)[s] \in Status
                                        /\ Unset(statuses, ids)[s].workflow = statuses[s].workflow
<1>1. ASSUME NEW s \in Statuses, Exists(statuses[s])
      PROVE  LET row == [statuses[s] EXCEPT !.is_default = FALSE]
             IN  row \in Status /\ row.workflow = statuses[s].workflow
  <2>1. statuses[s] \in Status
    BY <1>1, RowKinds
  <2>2. QED
    BY <2>1 DEF Status
<1>2. ASSUME NEW s \in Statuses
      PROVE  /\ ~Exists(statuses[s]) => Unset(statuses, ids)[s] = statuses[s]
             /\ Exists(statuses[s]) => /\ Unset(statuses, ids)[s] \in Status
                                       /\ Unset(statuses, ids)[s].workflow = statuses[s].workflow
  BY <1>1, <1>2, RowKinds DEF Unset
<1>3. \A s \in Statuses : Unset(statuses, ids)[s] \in Rows(Status)
  BY <1>2, RowKinds DEF Rows
<1>4. Unset(statuses, ids) = [s \in Statuses |-> Unset(statuses, ids)[s]]
  BY DEF Unset
<1>5. QED
  BY <1>2, <1>3, <1>4

LEMMA UnsetWorkflows ==
  ASSUME workflows \in [Workflows -> Rows(Workflow)], NEW ids
  PROVE  /\ Unset(workflows, ids) \in [Workflows -> Rows(Workflow)]
         /\ \A w \in Workflows : Exists(workflows[w]) => Unset(workflows, ids)[w] \in Workflow
<1>1. ASSUME NEW w \in Workflows, Exists(workflows[w])
      PROVE  [workflows[w] EXCEPT !.is_default = FALSE] \in Workflow
  <2>1. workflows[w] \in Workflow
    BY <1>1, RowKinds
  <2>2. QED
    BY <2>1 DEF Workflow
<1>2. ASSUME NEW w \in Workflows
      PROVE  /\ ~Exists(workflows[w]) => Unset(workflows, ids)[w] = workflows[w]
             /\ Exists(workflows[w]) => Unset(workflows, ids)[w] \in Workflow
  BY <1>1, <1>2, RowKinds DEF Unset
<1>3. \A w \in Workflows : Unset(workflows, ids)[w] \in Rows(Workflow)
  BY <1>2, RowKinds DEF Rows
<1>4. Unset(workflows, ids) = [w \in Workflows |-> Unset(workflows, ids)[w]]
  BY DEF Unset
<1>5. QED
  BY <1>2, <1>3, <1>4

-----------------------------------------------------------------------------
(* The invariant.  Between its reads and its writes a request counts on    *)
(* statuses that others may delete, but not move to another workflow.      *)

OfWorkflow(s, w) ==
  statuses[s] = Gone \/ (Exists(statuses[s]) /\ statuses[s].workflow = w)

Referred ==
  \A e \in Requests :
    /\ pending[e].op \in {"task", "placed"} =>
         OfWorkflow(pending[e].status, pending[e].workflow)
    /\ pending[e].op = "transition" =>
         \A s \in {pending[e].row.from, pending[e].row.to} :
           OfWorkflow(s, pending[e].row.workflow)
    /\ pending[e].op = "migrate" =>
         \E w \in Workflows : OfWorkflow(pending[e].id, w) /\ OfWorkflow(pending[e].target, w)

Inv == TypeOK /\ Referred /\ NothingDangles

LEMMA InitInv == Init => Inv
<1> SUFFICES ASSUME Init PROVE Inv
  OBVIOUS
<1>1. \A w \in Workflows : workflows[w] \in Rows(Workflow)
  BY DEF Init, Rows, Workflow
<1>2. workflows \in [Workflows -> Rows(Workflow)] /\ Exists(workflows[SystemWorkflow])
      /\ Exists(workflows[ProjectWorkflow])
  BY <1>1, RowKinds, WorkflowConfigAssumption DEF Init, Workflow
<1>3. /\ statuses \in [Statuses -> Rows(Status)]
      /\ transitions \in [Transitions -> Rows(Transition)]
      /\ columns \in [Columns -> Rows(Column)]
  BY InitialAssumption DEF Init, Rows, SeededStatuses, SeededTransitions
<1>4. views \in [Views -> Rows(View)]
  BY DEF Init, Rows, View
<1>5. TypeOK
  <2>1. pending \in [Requests -> Pending]
    BY DEF Init, Pending
  <2>2. edits \in 0 .. MaxEdits /\ overlapped \in BOOLEAN /\ crossed \in SUBSET Statuses
    <3>1. MaxEdits \in Nat
      BY WorkflowConfigAssumption
    <3>2. edits = 0 /\ overlapped = FALSE
      BY Zenon DEF Init
    <3>3. edits \in 0 .. MaxEdits
      BY <3>1, <3>2
    <3>4. overlapped \in BOOLEAN
      BY <3>2, Zenon
    <3>5. crossed \in SUBSET Statuses
      BY DEF Init
    <3>6. QED
      BY <3>3, <3>4, <3>5
  <2>3. /\ configs \in [TaskTypes -> Workflows \cup {None}]
        /\ mapped \in SUBSET (Columns \X Statuses)
        /\ tasks \in [Tasks -> Rows(Task)]
    BY DEF Init, Rows
  <2>4. QED
    BY <1>2, <1>3, <1>4, <2>1, <2>2, <2>3 DEF TypeOK
<1>6. Referred
  BY DEF Init, Referred, Idle
<1>7. \A r \in Transitions : Exists(transitions[r]) =>
        \A s \in {transitions[r].from, transitions[r].to} :
          Exists(statuses[s]) /\ statuses[s].workflow = transitions[r].workflow
  <2>1. ASSUME NEW r \in Transitions, Exists(transitions[r]),
               NEW s \in {transitions[r].from, transitions[r].to}
        PROVE  Exists(statuses[s]) /\ statuses[s].workflow = transitions[r].workflow
    <3>1. transitions[r] # Absent /\ transitions[r] \in Transition
      BY <1>3, <2>1, RowKinds
    <3>2. s \in Statuses
      BY <2>1, <3>1 DEF Transition
    <3>3. statuses[s] # Absent /\ statuses[s].workflow = transitions[r].workflow
      BY <2>1, <3>1, InitialAssumption DEF Init, SeededTransitions
    <3>4. statuses[s] \in Status
      BY <3>2, <3>3, InitialAssumption DEF Init, SeededStatuses
    <3>5. QED
      BY <1>3, <3>2, <3>3, <3>4, RowKinds
  <2>2. QED
    BY <2>1
<1>8. NothingDangles
  BY <1>7, RowKinds DEF Init, NothingDangles
<1>9. QED
  BY <1>5, <1>6, <1>8 DEF Inv

-----------------------------------------------------------------------------
(* What every step keeps: a status that exists stays, or goes for good; it *)
(* does not change its workflow.                                           *)

StatusesKept ==
  \A s \in Statuses :
    /\ statuses[s] = Gone => statuses'[s] = Gone
    /\ Exists(statuses[s]) =>
         \/ statuses'[s] = Gone
         \/ Exists(statuses'[s]) /\ statuses'[s].workflow = statuses[s].workflow

StatusesStay ==
  \A s \in Statuses :
    /\ statuses[s] = Gone => statuses'[s] = Gone
    /\ Exists(statuses[s]) =>
         Exists(statuses'[s]) /\ statuses'[s].workflow = statuses[s].workflow

WorkflowsStay == \A w \in Workflows : Exists(workflows[w]) => Exists(workflows'[w])

\* A request ends, or none does.
RequestsEnd == \A e \in Requests : pending'[e] = pending[e] \/ pending'[e] = Idle

LEMMA ReferredKept ==
  ASSUME TypeOK, Referred, StatusesKept, RequestsEnd
  PROVE  Referred'
<1>1. ASSUME NEW s \in Statuses, NEW w, OfWorkflow(s, w)
      PROVE  OfWorkflow(s, w)'
  BY <1>1 DEF OfWorkflow, StatusesKept
<1>2. ASSUME NEW e \in Requests, pending'[e] = pending[e]
      PROVE  /\ pending[e].op \in {"task", "placed"} =>
                  OfWorkflow(pending[e].status, pending[e].workflow)'
             /\ pending[e].op = "transition" =>
                  \A s \in {pending[e].row.from, pending[e].row.to} :
                    OfWorkflow(s, pending[e].row.workflow)'
             /\ pending[e].op = "migrate" =>
                  \E w \in Workflows :
                    OfWorkflow(pending[e].id, w)' /\ OfWorkflow(pending[e].target, w)'
  <2>1. pending[e] \in Pending
    BY DEF TypeOK
  <2>2. pending[e].op \in {"task", "placed"} =>
          OfWorkflow(pending[e].status, pending[e].workflow)'
    <3>1. pending[e].op \in {"task", "placed"} => pending[e].status \in Statuses
      BY <2>1, PendingKinds
    <3>2. pending[e].op \in {"task", "placed"} =>
            OfWorkflow(pending[e].status, pending[e].workflow)
      BY DEF Referred
    <3>3. QED
      BY <1>1, <1>2, <3>1, <3>2
  <2>3. pending[e].op = "transition" =>
          \A s \in {pending[e].row.from, pending[e].row.to} :
            OfWorkflow(s, pending[e].row.workflow)'
    <3>1. pending[e].op = "transition" =>
            pending[e].row.from \in Statuses /\ pending[e].row.to \in Statuses
      BY <2>1, PendingKinds DEF Transition
    <3>2. pending[e].op = "transition" =>
            \A s \in {pending[e].row.from, pending[e].row.to} :
              OfWorkflow(s, pending[e].row.workflow)
      BY DEF Referred
    <3>3. QED
      BY <1>1, <1>2, <3>1, <3>2
  <2>4. pending[e].op = "migrate" =>
          \E w \in Workflows :
            OfWorkflow(pending[e].id, w)' /\ OfWorkflow(pending[e].target, w)'
    <3>1. pending[e].op = "migrate" =>
            pending[e].id \in Statuses /\ pending[e].target \in Statuses
      BY <2>1, PendingKinds
    <3>2. pending[e].op = "migrate" =>
            \E w \in Workflows : OfWorkflow(pending[e].id, w) /\ OfWorkflow(pending[e].target, w)
      BY DEF Referred
    <3>3. QED
      BY <1>1, <1>2, <3>1, <3>2
  <2>5. QED
    BY <2>2, <2>3, <2>4
<1>3. QED
  BY <1>2 DEF Referred, RequestsEnd, Idle

TasksFit ==
  \A t \in Tasks : Exists(tasks[t]) =>
    /\ Exists(workflows[tasks[t].workflow])
    /\ Exists(statuses[tasks[t].status])
    /\ statuses[tasks[t].status].workflow = tasks[t].workflow

TransitionsFit ==
  \A r \in Transitions : Exists(transitions[r]) =>
    \A s \in {transitions[r].from, transitions[r].to} :
      Exists(statuses[s]) /\ statuses[s].workflow = transitions[r].workflow

ConfigsFit == \A y \in TaskTypes : configs[y] # None => Exists(workflows[configs[y]])

LEMMA Parts ==
  /\ NothingDangles <=> TasksFit /\ TransitionsFit /\ ConfigsFit
  /\ (NothingDangles <=> TasksFit /\ TransitionsFit /\ ConfigsFit)'
BY DEF NothingDangles, TasksFit, TransitionsFit, ConfigsFit

\* Rows of tasks, transitions and types that do not change go on to fit.
LEMMA TasksFitOn ==
  ASSUME TypeOK, TasksFit, StatusesStay, WorkflowsStay, tasks' = tasks
  PROVE  TasksFit'
<1>1. ASSUME NEW t \in Tasks, Exists(tasks[t])
      PROVE  tasks[t].workflow \in Workflows /\ tasks[t].status \in Statuses
  <2>1. tasks[t] \in Task
    BY <1>1, RowKinds DEF TypeOK
  <2>2. QED
    BY <2>1 DEF Task
<1>2. QED
  BY <1>1 DEF TasksFit, StatusesStay, WorkflowsStay

LEMMA TransitionsFitOn ==
  ASSUME TypeOK, TransitionsFit, StatusesStay, transitions' = transitions
  PROVE  TransitionsFit'
<1>1. ASSUME NEW r \in Transitions, Exists(transitions[r])
      PROVE  transitions[r].from \in Statuses /\ transitions[r].to \in Statuses
  <2>1. transitions[r] \in Transition
    BY <1>1, RowKinds DEF TypeOK
  <2>2. QED
    BY <2>1 DEF Transition
<1>2. QED
  BY <1>1 DEF TransitionsFit, StatusesStay

LEMMA ConfigsFitOn ==
  ASSUME TypeOK, ConfigsFit, WorkflowsStay, configs' = configs
  PROVE  ConfigsFit'
BY DEF TypeOK, ConfigsFit, WorkflowsStay

LEMMA StayIsKept == StatusesStay => StatusesKept
BY DEF StatusesStay, StatusesKept

\* A step that changes neither tasks, transitions nor types, and lets
\* workflows and statuses be.
LEMMA QuietInv ==
  ASSUME Inv, TypeOK', StatusesStay, WorkflowsStay, RequestsEnd,
         UNCHANGED <<tasks, transitions, configs>>
  PROVE  Inv'
<1>1. Referred'
  BY StayIsKept, ReferredKept DEF Inv
<1>2. NothingDangles'
  BY Parts, TasksFitOn, TransitionsFitOn, ConfigsFitOn DEF Inv
<1>3. QED
  BY <1>1, <1>2 DEF Inv

-----------------------------------------------------------------------------
(* The first half of a request.                                            *)

LEMMA RowsUnchanged ==
  ASSUME UNCHANGED rows
  PROVE  UNCHANGED <<workflows, statuses, transitions, configs, views, columns, mapped, tasks>>
BY DEF rows

LEMMA StartInv ==
  ASSUME Inv, NEW e \in Requests, NEW edit \in Pending,
         pending' = [pending EXCEPT ![e] = edit], UNCHANGED rows,
         edits' \in 0 .. MaxEdits, overlapped' \in BOOLEAN, crossed' = crossed,
         edit.op \in {"task", "placed"} => OfWorkflow(edit.status, edit.workflow),
         edit.op = "transition" =>
           \A s \in {edit.row.from, edit.row.to} : OfWorkflow(s, edit.row.workflow),
         edit.op = "migrate" =>
           \E w \in Workflows : OfWorkflow(edit.id, w) /\ OfWorkflow(edit.target, w)
  PROVE  Inv'
<1>1. UNCHANGED <<workflows, statuses, transitions, configs, views, columns, mapped, tasks>>
  BY RowsUnchanged
<1>2. pending' \in [Requests -> Pending]
  BY DEF Inv, TypeOK
<1>3. TypeOK'
  BY <1>1, <1>2 DEF Inv, TypeOK
<1>4. NothingDangles'
  BY <1>1 DEF Inv, NothingDangles
<1>5. Referred'
  <2>1. \A s, w : OfWorkflow(s, w)' <=> OfWorkflow(s, w)
    BY <1>1 DEF OfWorkflow
  <2>2. /\ pending'[e] = edit
        /\ \A f \in Requests : f # e => pending'[f] = pending[f]
    BY DEF Inv, TypeOK
  <2>3. ASSUME NEW f \in Requests
        PROVE  /\ pending'[f].op \in {"task", "placed"} =>
                    OfWorkflow(pending'[f].status, pending'[f].workflow)
               /\ pending'[f].op = "transition" =>
                    \A s \in {pending'[f].row.from, pending'[f].row.to} :
                      OfWorkflow(s, pending'[f].row.workflow)
               /\ pending'[f].op = "migrate" =>
                    \E w \in Workflows :
                      OfWorkflow(pending'[f].id, w) /\ OfWorkflow(pending'[f].target, w)
    <3>1. CASE f = e
      BY <2>2, <3>1
    <3>2. CASE f # e
      BY <2>2, <3>2 DEF Inv, Referred
    <3>3. QED
      BY <3>1, <3>2
  <2>4. QED
    BY <1>1, <2>3 DEF Referred, OfWorkflow
<1>6. QED
  BY <1>3, <1>4, <1>5 DEF Inv

LEMMA BeginInv ==
  ASSUME Inv, NEW e \in Requests, NEW edit \in Pending, Begin(e, edit),
         edit.op \notin {"task", "placed"},
         edit.op = "transition" =>
           \A s \in {edit.row.from, edit.row.to} : OfWorkflow(s, edit.row.workflow),
         edit.op = "migrate" =>
           \E w \in Workflows : OfWorkflow(edit.id, w) /\ OfWorkflow(edit.target, w)
  PROVE  Inv'
<1>1. edits' \in 0 .. MaxEdits
  <2>1. edits \in 0 .. MaxEdits /\ MaxEdits \in Nat
    BY WorkflowConfigAssumption DEF Inv, TypeOK
  <2>2. edits < MaxEdits /\ edits' = edits + 1
    BY DEF Begin
  <2>3. QED
    BY <2>1, <2>2
<1>2. overlapped' \in BOOLEAN
  BY Zenon DEF Begin
<1>3. pending' = [pending EXCEPT ![e] = edit] /\ UNCHANGED rows /\ crossed' = crossed
  BY DEF Begin
<1>4. QED
  BY <1>1, <1>2, <1>3, StartInv

LEMMA StatusKnown ==
  ASSUME Inv, NEW s \in Statuses, Exists(statuses[s])
  PROVE  /\ statuses[s] \in Status /\ statuses[s].workflow \in Workflows
         /\ OfWorkflow(s, statuses[s].workflow)
<1>1. statuses[s] \in Status
  BY RowKinds DEF Inv, TypeOK
<1>2. QED
  BY <1>1 DEF Status, OfWorkflow

LEMMA WrittenDefaultType ==
  ASSUME NEW row \in Status, NEW category, NEW b \in BOOLEAN \cup {None}
  PROVE  WrittenDefault(row, category, b) \in BOOLEAN \cup {None}
BY Zenon DEF WrittenDefault

\* What managers read before they write.
LEMMA ReadInv ==
  ASSUME Inv, NEW e \in Requests, Read(e)
  PROVE  Inv'
<1>1. ASSUME NEW w \in Workflows, NEW b \in BOOLEAN, UpdateWorkflow(e, w, b)
      PROVE  Inv'
  <2> DEFINE edit == [op |-> "workflow", id |-> w, is_default |-> b,
                      unset |-> IF b THEN DefaultWorkflows ELSE {}]
  <2>1. edit \in Pending /\ edit.op = "workflow"
    BY DEF Pending, DefaultWorkflows
  <2>2. Begin(e, edit)
    BY <1>1 DEF UpdateWorkflow
  <2> HIDE DEF edit
  <2>3. QED
    BY <2>1, <2>2, BeginInv
<1>2. ASSUME NEW w \in Workflows, DeleteWorkflow(e, w)
      PROVE  Inv'
  <2> DEFINE edit == [op |-> "delete workflow", id |-> w]
  <2>1. edit \in Pending /\ edit.op = "delete workflow"
    BY DEF Pending
  <2>2. Begin(e, edit)
    BY <1>2 DEF DeleteWorkflow
  <2> HIDE DEF edit
  <2>3. QED
    BY <2>1, <2>2, BeginInv
<1>3. ASSUME NEW w \in Workflows, NEW c \in Categories, NEW b \in BOOLEAN,
             CreateStatus(e, w, c, b)
      PROVE  Inv'
  <2> DEFINE edit == [op |-> "new status",
                      row |-> [workflow |-> w, category |-> c, is_default |-> b],
                      unset |-> DefaultsToUnset(w, b)]
  <2>1. edit \in Pending /\ edit.op = "new status"
    <3>1. DefaultsToUnset(w, b) \in SUBSET Statuses
      BY DEF DefaultsToUnset, DefaultsOf, StatusesOf
    <3>2. [workflow |-> w, category |-> c, is_default |-> b] \in Status
      BY DEF Status
    <3>3. QED
      BY <3>1, <3>2 DEF Pending
  <2>2. Begin(e, edit)
    BY <1>3 DEF CreateStatus
  <2> HIDE DEF edit
  <2>3. QED
    BY <2>1, <2>2, BeginInv
<1>4. ASSUME NEW w \in Workflows, NEW from \in Statuses, NEW to \in Statuses,
             CreateTransition(e, w, from, to)
      PROVE  Inv'
  <2> DEFINE row == [workflow |-> w, from |-> from, to |-> to]
             edit == [op |-> "transition", row |-> row]
  <2>1. edit \in Pending /\ edit.op = "transition" /\ edit.row = row
    BY DEF Pending, Transition
  <2>2. Begin(e, edit) /\ \A s \in {row.from, row.to} : OfWorkflow(s, row.workflow)
    BY <1>4 DEF CreateTransition, OfWorkflow
  <2> HIDE DEF edit, row
  <2>3. QED
    BY <2>1, <2>2, BeginInv
<1>5. ASSUME NEW w \in Workflows, NEW s \in Statuses, CreateTask(e, w, s)
      PROVE  Inv'
  <2> DEFINE edit == [op |-> "task", workflow |-> w, status |-> s]
  <2>1. edit \in Pending /\ edit.op = "task" /\ edit.workflow = w /\ edit.status = s
    BY DEF Pending
  <2>2. /\ pending' = [pending EXCEPT ![e] = edit]
        /\ UNCHANGED <<rows, edits, overlapped, crossed>>
        /\ OfWorkflow(s, w)
    BY <1>5 DEF CreateTask, DefaultsOf, StatusesOf, OfWorkflow
  <2> HIDE DEF edit
  <2>3. edits' \in 0 .. MaxEdits /\ overlapped' \in BOOLEAN
    BY <2>2 DEF Inv, TypeOK
  <2>4. QED
    BY <2>1, <2>2, <2>3, StartInv
<1>6. ASSUME NEW s \in Statuses, NEW c \in Categories \cup {None},
             NEW b \in BOOLEAN \cup {None}, UpdateStatus(e, s, c, b)
      PROVE  Inv'
  <2> DEFINE row == statuses[s]
             category == IF c = row.category THEN None ELSE c
             unset == DefaultsToUnset(row.workflow, b = TRUE)
             edit == [op |-> "status", id |-> s, category |-> category,
                      is_default |-> WrittenDefault(row, c, b), unset |-> unset]
  <2>1. row \in Status
    BY <1>6, StatusKnown DEF UpdateStatus, EditableStatus
  <2>2. WrittenDefault(row, c, b) \in BOOLEAN \cup {None}
    BY <2>1, WrittenDefaultType
  <2>3. unset \in SUBSET Statuses
    BY DEF DefaultsToUnset, DefaultsOf, StatusesOf
  <2>4. category \in Categories \cup {None}
    OBVIOUS
  <2>5. Begin(e, edit)
    BY <1>6, Zenon DEF UpdateStatus
  <2> HIDE DEF unset, category
  <2>6. edit \in Pending /\ edit.op = "status"
    BY <2>2, <2>3, <2>4 DEF Pending
  <2> HIDE DEF edit
  <2>7. QED
    BY <2>5, <2>6, BeginInv
<1>7. ASSUME NEW s \in Statuses, DeleteStatus(e, s)
      PROVE  Inv'
  <2> DEFINE edit == [op |-> "delete status", id |-> s]
  <2>1. edit \in Pending /\ edit.op = "delete status"
    BY DEF Pending
  <2>2. Begin(e, edit)
    BY <1>7 DEF DeleteStatus
  <2> HIDE DEF edit
  <2>3. QED
    BY <2>1, <2>2, BeginInv
<1>8. ASSUME NEW s \in Statuses, NEW z \in Statuses, MigrateStatus(e, s, z)
      PROVE  Inv'
  <2> DEFINE edit == [op |-> "migrate", id |-> s, target |-> z]
  <2>1. edit \in Pending /\ edit.op = "migrate" /\ edit.id = s /\ edit.target = z
    BY DEF Pending
  <2>2. Begin(e, edit) /\ Exists(statuses[s]) /\ z \in StatusesOf(statuses[s].workflow)
    BY <1>8 DEF MigrateStatus, EditableStatus, MigrationTargets
  <2>3. \E w \in Workflows : OfWorkflow(s, w) /\ OfWorkflow(z, w)
    BY <2>2, StatusKnown DEF StatusesOf, OfWorkflow
  <2> HIDE DEF edit
  <2>4. QED
    BY <2>1, <2>2, <2>3, BeginInv
<1>9. ASSUME NEW s \in Statuses, NEW c \in Columns, AddStatusToColumn(e, c, s)
      PROVE  Inv'
  <2> DEFINE edit == [op |-> "map", column |-> c, status |-> s]
  <2>1. edit \in Pending /\ edit.op = "map"
    BY DEF Pending
  <2>2. Begin(e, edit)
    BY <1>9 DEF AddStatusToColumn
  <2> HIDE DEF edit
  <2>3. QED
    BY <2>1, <2>2, BeginInv
<1>10. QED
  BY <1>1, <1>2, <1>3, <1>4, <1>5, <1>6, <1>7, <1>8, <1>9 DEF Read

LEMMA TypeStepInv ==
  ASSUME Inv, NEW y \in TaskTypes, TypeStep(y)
  PROVE  Inv'
<1>1. ASSUME NEW e \in Requests, NEW w \in Workflows, SetTaskTypeWorkflow(e, y, w)
      PROVE  Inv'
  <2> DEFINE edit == [op |-> "config", type |-> y, workflow |-> w,
                      existing |-> configs[y] # None]
  <2>1. edit \in Pending /\ edit.op = "config"
    <3>1. (configs[y] # None) \in BOOLEAN
      BY Zenon
    <3> DEFINE existing == configs[y] # None
    <3> HIDE DEF existing
    <3>2. [op |-> "config", type |-> y, workflow |-> w, existing |-> existing] \in Pending
      BY <3>1 DEF Pending, existing
    <3>3. QED
      BY <3>2 DEF existing
  <2>2. Begin(e, edit)
    BY <1>1 DEF SetTaskTypeWorkflow
  <2> HIDE DEF edit
  <2>3. QED
    BY <2>1, <2>2, BeginInv
<1>2. ASSUME ResetTaskTypeWorkflow(y)
      PROVE  Inv'
  <2>1. /\ configs' = [configs EXCEPT ![y] = None]
        /\ UNCHANGED <<workflows, statuses, transitions, views, columns, mapped, tasks,
                       pending, overlapped, crossed>>
    BY <1>2 DEF ResetTaskTypeWorkflow, AtOnce
  <2>2. edits' \in 0 .. MaxEdits
    <3>1. edits \in 0 .. MaxEdits /\ MaxEdits \in Nat /\ edits < MaxEdits /\ edits' = edits + 1
      BY <1>2, WorkflowConfigAssumption DEF Inv, TypeOK, ResetTaskTypeWorkflow, AtOnce
    <3>2. QED
      BY <3>1
  <2>3. TypeOK'
    BY <2>1, <2>2 DEF Inv, TypeOK
  <2>4. Referred'
    BY <2>1 DEF Inv, Referred, OfWorkflow
  <2>5. NothingDangles'
    BY <2>1 DEF Inv, TypeOK, NothingDangles
  <2>6. QED
    BY <2>3, <2>4, <2>5 DEF Inv
<1>3. QED
  BY <1>1, <1>2 DEF TypeStep

-----------------------------------------------------------------------------
(* Requests of one step.                                                   *)

LEMMA AtOnceEdits ==
  ASSUME Inv, AtOnce
  PROVE  edits' \in 0 .. MaxEdits /\ UNCHANGED <<pending, overlapped, crossed>>
<1>1. /\ edits \in 0 .. MaxEdits /\ MaxEdits \in Nat /\ edits < MaxEdits /\ edits' = edits + 1
      /\ UNCHANGED <<pending, overlapped, crossed>>
  BY WorkflowConfigAssumption DEF Inv, TypeOK, AtOnce
<1>2. QED
  BY <1>1

LEMMA BoardInv ==
  ASSUME Inv, UNCHANGED <<workflows, statuses, transitions, configs, tasks>>,
         RequestsEnd, pending' \in [Requests -> Pending],
         edits' \in 0 .. MaxEdits, overlapped' \in BOOLEAN, crossed' \in SUBSET Statuses,
         views' \in [Views -> Rows(View)], columns' \in [Columns -> Rows(Column)],
         mapped' \in SUBSET (Columns \X Statuses)
  PROVE  Inv'
<1>1. TypeOK'
  BY DEF Inv, TypeOK
<1>2. StatusesStay /\ WorkflowsStay
  BY DEF StatusesStay, WorkflowsStay
<1>3. QED
  BY <1>1, <1>2, QuietInv

LEMMA WithoutColumnsType ==
  ASSUME Inv, NEW gone, WithoutColumns(gone)
  PROVE  columns' \in [Columns -> Rows(Column)] /\ mapped' \in SUBSET (Columns \X Statuses)
<1>1. \A c \in Columns : (IF c \in gone THEN Gone ELSE columns[c]) \in Rows(Column)
  BY DEF Inv, TypeOK, Rows
<1>2. QED
  BY <1>1 DEF WithoutColumns, Inv, TypeOK

LEMMA SingleInv ==
  ASSUME Inv, Single
  PROVE  Inv'
<1>1. ASSUME NEW w \in Workflows, NEW b \in BOOLEAN, CreateWorkflow(w, b)
      PROVE  Inv'
  <2> DEFINE row == [system |-> FALSE, is_default |-> b]
  <2>1. row \in Workflow /\ row \in Rows(Workflow)
    BY DEF Workflow, Rows
  <2>2. /\ workflows' = [workflows EXCEPT ![w] = row]
        /\ UNCHANGED <<statuses, transitions, configs, views, columns, mapped, tasks>>
        /\ AtOnce
    BY <1>1 DEF CreateWorkflow
  <2> HIDE DEF row
  <2>3. workflows' \in [Workflows -> Rows(Workflow)] /\ WorkflowsStay
    BY <2>1, <2>2, RowKinds DEF Inv, TypeOK, WorkflowsStay
  <2>4. TypeOK'
    BY <2>2, <2>3, AtOnceEdits DEF Inv, TypeOK
  <2>5. StatusesStay /\ RequestsEnd
    BY <2>2, AtOnceEdits DEF StatusesStay, RequestsEnd
  <2>6. QED
    BY <2>2, <2>3, <2>4, <2>5, QuietInv
<1>2. ASSUME NEW r \in Transitions, DeleteTransition(r)
      PROVE  Inv'
  <2>1. /\ transitions' = [transitions EXCEPT ![r] = Gone]
        /\ UNCHANGED <<workflows, statuses, configs, views, columns, mapped, tasks>>
        /\ UNCHANGED <<pending, overlapped, crossed>> /\ edits' \in 0 .. MaxEdits
    BY <1>2, AtOnceEdits DEF DeleteTransition
  <2>2. transitions' \in [Transitions -> Rows(Transition)]
    BY <2>1 DEF Inv, TypeOK, Rows
  <2>3. TypeOK'
    BY <2>1, <2>2 DEF Inv, TypeOK
  <2>4. Referred'
    BY <2>1 DEF Inv, Referred, OfWorkflow
  <2>5. \A x \in Transitions : Exists(transitions'[x]) => transitions'[x] = transitions[x]
    BY <2>1, RowKinds DEF Inv, TypeOK
  <2>6. NothingDangles'
    BY <2>1, <2>5 DEF Inv, NothingDangles
  <2>7. QED
    BY <2>3, <2>4, <2>6 DEF Inv
<1>3. ASSUME NEW v \in Views, CreateView(v)
      PROVE  Inv'
  <2>1. views' \in [Views -> Rows(View)]
    BY <1>3 DEF CreateView, Inv, TypeOK, Rows, View
  <2>2. QED
    BY <1>3, <2>1, AtOnceEdits, BoardInv DEF CreateView, Inv, TypeOK, RequestsEnd
<1>4. ASSUME NEW v \in Views, DeleteView(v)
      PROVE  Inv'
  <2>1. views' \in [Views -> Rows(View)]
    BY <1>4 DEF DeleteView, Inv, TypeOK, Rows
  <2>2. WithoutColumns(ColumnsOf(v))
    BY <1>4 DEF DeleteView
  <2>3. QED
    BY <1>4, <2>1, <2>2, WithoutColumnsType, AtOnceEdits, BoardInv
       DEF DeleteView, Inv, TypeOK, RequestsEnd
<1>5. ASSUME NEW c \in Columns, NEW v \in Views, CreateBoardColumn(c, v)
      PROVE  Inv'
  <2>1. columns' \in [Columns -> Rows(Column)]
    BY <1>5 DEF CreateBoardColumn, Inv, TypeOK, Rows, Column
  <2>2. QED
    BY <1>5, <2>1, AtOnceEdits, BoardInv DEF CreateBoardColumn, Inv, TypeOK, RequestsEnd
<1>6. ASSUME NEW c \in Columns, DeleteBoardColumn(c)
      PROVE  Inv'
  <2>1. WithoutColumns({c})
    BY <1>6 DEF DeleteBoardColumn
  <2>2. QED
    BY <1>6, <2>1, WithoutColumnsType, AtOnceEdits, BoardInv
       DEF DeleteBoardColumn, Inv, TypeOK, RequestsEnd
<1>7. ASSUME NEW c \in Columns, NEW s \in Statuses, RemoveStatusFromColumn(c, s)
      PROVE  Inv'
  <2>1. mapped' \in SUBSET (Columns \X Statuses)
    BY <1>7 DEF RemoveStatusFromColumn, Inv, TypeOK
  <2>2. QED
    BY <1>7, <2>1, AtOnceEdits, BoardInv DEF RemoveStatusFromColumn, Inv, TypeOK, RequestsEnd
<1>8. ASSUME NEW t \in Tasks, NEW to,
             \/ DeleteTask(t)
             \/ to \in Statuses /\ TransitionStatus(t, to)
      PROVE  Inv'
  <2>1. tasks[t] \in Task /\ Exists(tasks[t])
    BY <1>8, RowKinds DEF DeleteTask, TransitionStatus, Live, Inv, TypeOK
  <2>2. \E row \in Task :
          /\ tasks' = [tasks EXCEPT ![t] = row]
          /\ row.workflow = tasks[t].workflow
          /\ row.status \in Statuses /\ Exists(statuses[row.status])
          /\ statuses[row.status].workflow = row.workflow
    <3>1. CASE DeleteTask(t)
      <4> DEFINE row == [tasks[t] EXCEPT !.deleted = TRUE]
      <4>1. /\ row \in Task /\ row.workflow = tasks[t].workflow
            /\ row.status = tasks[t].status /\ row.status \in Statuses
        BY <2>1 DEF Task
      <4>2. tasks' = [tasks EXCEPT ![t] = row]
        BY <3>1 DEF DeleteTask
      <4> HIDE DEF row
      <4>3. Exists(statuses[row.status]) /\ statuses[row.status].workflow = row.workflow
        BY <2>1, <4>1 DEF Inv, NothingDangles
      <4>4. QED
        BY <4>1, <4>2, <4>3
    <3>2. CASE to \in Statuses /\ TransitionStatus(t, to)
      <4> DEFINE row == [tasks[t] EXCEPT !.status = to]
      <4>1. row \in Task /\ row.workflow = tasks[t].workflow /\ row.status = to
        BY <2>1, <3>2 DEF Task
      <4>2. tasks' = [tasks EXCEPT ![t] = row]
        BY <3>2 DEF TransitionStatus
      <4> HIDE DEF row
      <4>3. PICK r \in Transitions :
              transitions[r] = [workflow |-> tasks[t].workflow, from |-> tasks[t].status, to |-> to]
        BY <3>2 DEF TransitionStatus
      <4>4. Exists(transitions[r])
        BY <4>3 DEF Exists, Gone, Absent
      <4>5. Exists(statuses[to]) /\ statuses[to].workflow = tasks[t].workflow
        BY <4>3, <4>4 DEF Inv, NothingDangles
      <4>6. QED
        BY <3>2, <4>1, <4>2, <4>5
    <3>3. QED
      BY <1>8, <3>1, <3>2
  <2>3. PICK row \in Task :
          /\ tasks' = [tasks EXCEPT ![t] = row]
          /\ row.workflow = tasks[t].workflow
          /\ row.status \in Statuses /\ Exists(statuses[row.status])
          /\ statuses[row.status].workflow = row.workflow
    BY <2>2
  <2>4. UNCHANGED <<workflows, statuses, transitions, configs, views, columns, mapped,
                    pending, edits, overlapped, crossed>>
    BY <1>8 DEF DeleteTask, TransitionStatus
  <2>5. /\ tasks' \in [Tasks -> Rows(Task)] /\ tasks'[t] = row
        /\ \A u \in Tasks : u # t => tasks'[u] = tasks[u]
    BY <2>3 DEF Inv, TypeOK, Rows
  <2>6. TypeOK'
    BY <2>4, <2>5 DEF Inv, TypeOK
  <2>7. Referred'
    BY <2>4 DEF Inv, Referred, OfWorkflow
  <2>8. TasksFit'
    <3>1. TasksFit
      BY Parts DEF Inv
    <3>2. \A u \in Tasks : Exists(tasks'[u]) =>
            /\ Exists(workflows[tasks'[u].workflow])
            /\ Exists(statuses[tasks'[u].status])
            /\ statuses[tasks'[u].status].workflow = tasks'[u].workflow
      BY <2>1, <2>3, <2>5, <3>1 DEF TasksFit
    <3>3. QED
      BY <2>4, <3>2 DEF TasksFit
  <2>9. NothingDangles'
    BY <2>4, <2>8, Parts DEF Inv, TransitionsFit, ConfigsFit
  <2>10. QED
    BY <2>6, <2>7, <2>9 DEF Inv
<1>9. QED
  BY <1>1, <1>2, <1>3, <1>4, <1>5, <1>6, <1>7, <1>8 DEF Single

-----------------------------------------------------------------------------
(* The second half of a request.                                           *)

LEMMA EndEffect ==
  ASSUME Inv, NEW e \in Requests, pending' = [pending EXCEPT ![e] = Idle]
  PROVE  pending' \in [Requests -> Pending] /\ RequestsEnd /\ pending[e] \in Pending
<1>1. Idle \in Pending
  BY DEF Pending
<1>2. QED
  BY <1>1 DEF Inv, TypeOK, RequestsEnd

LEMMA CrossedType ==
  ASSUME Inv, NEW e \in Requests
  PROVE  crossed \cup Crossing(e) \in SUBSET Statuses
<1>1. Puts(e) \subseteq Statuses
  <2>1. pending[e] \in Pending
    BY DEF Inv, TypeOK
  <2>2. CASE pending[e].op = "map"
    BY <2>1, <2>2, PendingKinds DEF Puts
  <2>3. CASE pending[e].op = "placed"
    <3>1. \A m \in pending[e].places : m[2] \in Statuses
      BY <2>1, <2>3, PendingKinds
    <3>2. QED
      BY <2>3, <3>1 DEF Puts
  <2>4. CASE pending[e].op \notin {"map", "placed"}
    BY <2>4 DEF Puts
  <2>5. QED
    BY <2>2, <2>3, <2>4
<1>2. Crossing(e) \subseteq Puts(e)
  BY DEF Crossing
<1>3. QED
  BY <1>1, <1>2 DEF Inv, TypeOK

\* Statuses go, and with them the transitions and columns that name them.
LEMMA WithoutStatusesEffect ==
  ASSUME Inv, NEW gone, NEW left, WithoutStatuses(gone, left)
  PROVE  /\ statuses' \in [Statuses -> Rows(Status)]
         /\ transitions' \in [Transitions -> Rows(Transition)]
         /\ mapped' \in SUBSET (Columns \X Statuses)
         /\ \A s \in Statuses : IF s \in gone THEN statuses'[s] = Gone
                                ELSE statuses'[s] = statuses[s]
         /\ StatusesKept
         /\ TransitionsFit'
         /\ \A t \in Tasks : Exists(left[t]) => left[t].status \notin gone
<1>1. /\ statuses \in [Statuses -> Rows(Status)]
      /\ transitions \in [Transitions -> Rows(Transition)]
      /\ mapped \in SUBSET (Columns \X Statuses)
  BY DEF Inv, TypeOK
<1>2. statuses' \in [Statuses -> Rows(Status)]
  BY <1>1 DEF WithoutStatuses, Rows
<1>3. \A s \in Statuses : IF s \in gone THEN statuses'[s] = Gone ELSE statuses'[s] = statuses[s]
  BY DEF WithoutStatuses
<1>4. \A r \in Transitions :
        transitions'[r] = IF Exists(transitions[r])
                             /\ {transitions[r].from, transitions[r].to} \cap gone # {}
                          THEN Gone ELSE transitions[r]
  BY DEF WithoutStatuses
<1>5. transitions' \in [Transitions -> Rows(Transition)]
  BY <1>1 DEF WithoutStatuses, Rows
<1>6. mapped' \in SUBSET (Columns \X Statuses)
  BY <1>1 DEF WithoutStatuses
<1>7. StatusesKept
  BY <1>3 DEF StatusesKept
<1>8. ASSUME NEW r \in Transitions, Exists(transitions'[r]),
             NEW s \in {transitions'[r].from, transitions'[r].to}
      PROVE  Exists(statuses'[s]) /\ statuses'[s].workflow = transitions'[r].workflow
  <2>1. Exists(transitions[r]) /\ transitions'[r] = transitions[r] /\ s \notin gone
    BY <1>4, <1>8, RowKinds
  <2>2. s \in Statuses
    <3>1. transitions[r] \in Transition
      BY <1>1, <2>1, RowKinds
    <3>2. QED
      BY <1>8, <2>1, <3>1 DEF Transition
  <2>3. Exists(statuses[s]) /\ statuses[s].workflow = transitions[r].workflow
    BY <1>8, <2>1 DEF Inv, NothingDangles
  <2>4. QED
    BY <1>3, <2>1, <2>2, <2>3
<1>9. TransitionsFit'
  BY <1>8 DEF TransitionsFit
<1>10. QED
  BY <1>2, <1>3, <1>5, <1>6, <1>7, <1>9 DEF WithoutStatuses

\* What deletes statuses: the tasks left name none of them.
LEMMA DeletionInv ==
  ASSUME Inv, NEW gone, WithoutStatuses(gone, tasks'), RequestsEnd,
         pending' \in [Requests -> Pending], UNCHANGED <<views, columns, edits, overlapped>>,
         crossed' \in SUBSET Statuses,
         workflows' \in [Workflows -> Rows(Workflow)],
         configs' \in [TaskTypes -> Workflows \cup {None}],
         tasks' \in [Tasks -> Rows(Task)], ConfigsFit',
         \A t \in Tasks : Exists(tasks'[t]) =>
           /\ Exists(workflows'[tasks'[t].workflow])
           /\ Exists(statuses[tasks'[t].status])
           /\ statuses[tasks'[t].status].workflow = tasks'[t].workflow
  PROVE  Inv'
<1>1. /\ statuses' \in [Statuses -> Rows(Status)]
      /\ transitions' \in [Transitions -> Rows(Transition)]
      /\ mapped' \in SUBSET (Columns \X Statuses)
      /\ \A s \in Statuses : IF s \in gone THEN statuses'[s] = Gone
                             ELSE statuses'[s] = statuses[s]
      /\ StatusesKept
      /\ TransitionsFit'
      /\ \A t \in Tasks : Exists(tasks'[t]) => tasks'[t].status \notin gone
  BY WithoutStatusesEffect
<1>2. TypeOK'
  BY <1>1 DEF Inv, TypeOK
<1>3. Referred'
  BY <1>1, ReferredKept DEF Inv
<1>4. ASSUME NEW t \in Tasks, Exists(tasks'[t])
      PROVE  tasks'[t].status \in Statuses
  <2>1. tasks'[t] \in Task
    BY <1>4, RowKinds
  <2>2. QED
    BY <2>1 DEF Task
<1>5. TasksFit'
  BY <1>1, <1>4 DEF TasksFit
<1>6. QED
  BY <1>1, <1>2, <1>3, <1>5, Parts DEF Inv

LEMMA CommitWorkflowInv ==
  ASSUME Inv, NEW e \in Requests, CommitWorkflow(e)
  PROVE  Inv'
<1> DEFINE p == pending[e]
           unset == Unset(workflows, p.unset)
           row == [unset[p.id] EXCEPT !.is_default = p.is_default]
<1>1. /\ p.op = "workflow" /\ pending' = [pending EXCEPT ![e] = Idle]
      /\ Exists(workflows[p.id])
      /\ workflows' = [unset EXCEPT ![p.id].is_default = p.is_default]
      /\ UNCHANGED <<statuses, transitions, configs, views, columns, mapped, tasks,
                     edits, overlapped>>
      /\ crossed' \in SUBSET Statuses
  BY CrossedType DEF CommitWorkflow, Commit
<1>2. pending' \in [Requests -> Pending] /\ RequestsEnd /\ p \in Pending
  BY <1>1, EndEffect
<1>3. p.id \in Workflows /\ p.is_default \in BOOLEAN
  BY <1>1, <1>2, PendingKinds
<1>4. /\ unset \in [Workflows -> Rows(Workflow)]
      /\ \A w \in Workflows : Exists(workflows[w]) => unset[w] \in Workflow
  BY UnsetWorkflows DEF Inv, TypeOK
<1> HIDE DEF unset
<1>5. row \in Workflow
  BY <1>1, <1>3, <1>4 DEF Workflow
<1>6. workflows' = [unset EXCEPT ![p.id] = row]
  BY <1>1
<1> HIDE DEF row
<1>7. workflows' \in [Workflows -> Rows(Workflow)] /\ WorkflowsStay
  BY <1>3, <1>4, <1>5, <1>6, RowKinds DEF WorkflowsStay, Rows
<1>8. TypeOK'
  BY <1>1, <1>2, <1>7 DEF Inv, TypeOK
<1>9. StatusesStay
  BY <1>1 DEF StatusesStay
<1>10. QED
  BY <1>1, <1>2, <1>7, <1>8, <1>9, QuietInv

LEMMA CommitDeleteWorkflowInv ==
  ASSUME Inv, NEW e \in Requests, CommitDeleteWorkflow(e)
  PROVE  Inv'
<1> DEFINE w == pending[e].id
<1>1. /\ pending[e].op = "delete workflow" /\ pending' = [pending EXCEPT ![e] = Idle]
      /\ \A t \in Tasks : Exists(tasks[t]) => tasks[t].workflow # w
      /\ workflows' = [workflows EXCEPT ![w] = Gone]
      /\ WithoutStatuses(StatusesOf(w), tasks)
      /\ configs' = [y \in TaskTypes |-> IF configs[y] = w THEN None ELSE configs[y]]
      /\ UNCHANGED <<views, columns, tasks, edits, overlapped>>
      /\ crossed' \in SUBSET Statuses
  BY CrossedType DEF CommitDeleteWorkflow, Commit
<1>2. pending' \in [Requests -> Pending] /\ RequestsEnd /\ pending[e] \in Pending
  BY <1>1, EndEffect
<1>3. w \in Workflows
  BY <1>1, <1>2, PendingKinds
<1> HIDE DEF w
<1>4. /\ workflows' \in [Workflows -> Rows(Workflow)]
      /\ \A x \in Workflows : x # w => workflows'[x] = workflows[x]
  BY <1>1, <1>3 DEF Inv, TypeOK, Rows
<1>5. configs' \in [TaskTypes -> Workflows \cup {None}]
  BY <1>1 DEF Inv, TypeOK
<1>6. ConfigsFit'
  BY <1>1, <1>4 DEF Inv, TypeOK, NothingDangles, ConfigsFit
<1>7. ASSUME NEW t \in Tasks, Exists(tasks[t])
      PROVE  /\ Exists(workflows'[tasks[t].workflow])
             /\ Exists(statuses[tasks[t].status])
             /\ statuses[tasks[t].status].workflow = tasks[t].workflow
  <2>1. tasks[t].workflow \in Workflows
    <3>1. tasks[t] \in Task
      BY <1>7, RowKinds DEF Inv, TypeOK
    <3>2. QED
      BY <3>1 DEF Task
  <2>2. QED
    BY <1>1, <1>4, <1>7, <2>1 DEF Inv, NothingDangles
<1>8. tasks' \in [Tasks -> Rows(Task)]
  BY <1>1 DEF Inv, TypeOK
<1>9. QED
  BY <1>1, <1>2, <1>4, <1>5, <1>6, <1>7, <1>8, DeletionInv

LEMMA CommitDeleteStatusInv ==
  ASSUME Inv, NEW e \in Requests, CommitDeleteStatus(e)
  PROVE  Inv'
<1>1. /\ pending' = [pending EXCEPT ![e] = Idle]
      /\ WithoutStatuses({pending[e].id}, tasks)
      /\ UNCHANGED <<workflows, configs, views, columns, tasks, edits, overlapped>>
      /\ crossed' \in SUBSET Statuses
  BY CrossedType DEF CommitDeleteStatus, Commit
<1>2. pending' \in [Requests -> Pending] /\ RequestsEnd
  BY <1>1, EndEffect
<1>3. ConfigsFit'
  BY <1>1 DEF Inv, NothingDangles, ConfigsFit
<1>4. QED
  BY <1>1, <1>2, <1>3, DeletionInv DEF Inv, TypeOK, NothingDangles

\* The tasks go to a status of the workflow they are in.
LEMMA CommitMigrateInv ==
  ASSUME Inv, NEW e \in Requests, CommitMigrate(e)
  PROVE  Inv'
<1> DEFINE p == pending[e]
<1>1. /\ p.op = "migrate" /\ pending' = [pending EXCEPT ![e] = Idle]
      /\ Exists(statuses[p.id]) /\ Exists(statuses[p.target])
      /\ tasks' = [t \in Tasks |-> IF Live(t) /\ tasks[t].status = p.id
                                   THEN [tasks[t] EXCEPT !.status = p.target] ELSE tasks[t]]
      /\ UNCHANGED <<workflows, configs, views, columns, edits, overlapped>>
      /\ crossed' \in SUBSET Statuses
  BY CrossedType DEF CommitMigrate, Commit
<1>2. WithoutStatuses({p.id}, tasks')
  BY DEF CommitMigrate
<1>3. pending' \in [Requests -> Pending] /\ RequestsEnd /\ p \in Pending
  BY <1>1, EndEffect
<1>4. p.id \in Statuses /\ p.target \in Statuses
  BY <1>1, <1>3, PendingKinds
<1>5. statuses[p.target].workflow = statuses[p.id].workflow
  <2>1. PICK w \in Workflows : OfWorkflow(p.id, w) /\ OfWorkflow(p.target, w)
    BY <1>1 DEF Inv, Referred
  <2>2. QED
    BY <1>1, <2>1, RowKinds DEF OfWorkflow
<1> HIDE DEF p
<1>6. ASSUME NEW t \in Tasks
      PROVE  /\ tasks'[t] \in Rows(Task)
             /\ Exists(tasks'[t]) =>
                  /\ Exists(workflows[tasks'[t].workflow])
                  /\ Exists(statuses[tasks'[t].status])
                  /\ statuses[tasks'[t].status].workflow = tasks'[t].workflow
  <2>1. CASE Live(t) /\ tasks[t].status = p.id
    <3>1. tasks[t] \in Task /\ Exists(tasks[t])
      BY <2>1, RowKinds DEF Live, Inv, TypeOK
    <3> DEFINE row == [tasks[t] EXCEPT !.status = p.target]
    <3>2. row \in Task /\ row.status = p.target /\ row.workflow = tasks[t].workflow
      BY <1>4, <3>1 DEF Task
    <3>3. tasks'[t] = row
      BY <1>1, <2>1
    <3> HIDE DEF row
    <3>4. /\ Exists(workflows[tasks[t].workflow])
          /\ statuses[p.id].workflow = tasks[t].workflow
      BY <2>1, <3>1 DEF Inv, NothingDangles
    <3>5. QED
      BY <1>1, <1>5, <3>2, <3>3, <3>4 DEF Rows
  <2>2. CASE ~(Live(t) /\ tasks[t].status = p.id)
    <3>1. tasks'[t] = tasks[t]
      BY <1>1, <2>2
    <3>2. QED
      BY <3>1 DEF Inv, TypeOK, NothingDangles
  <2>3. QED
    BY <2>1, <2>2
<1>7. tasks' \in [Tasks -> Rows(Task)]
  <2>1. tasks' = [t \in Tasks |-> tasks'[t]]
    BY <1>1
  <2>2. QED
    BY <1>6, <2>1
<1>8. ConfigsFit'
  BY <1>1 DEF Inv, NothingDangles, ConfigsFit
<1>9. QED
  BY <1>1, <1>2, <1>3, <1>6, <1>7, <1>8, DeletionInv DEF Inv, TypeOK

LEMMA CommitNewStatusInv ==
  ASSUME Inv, NEW e \in Requests, NEW s \in Statuses, CommitNewStatus(e, s)
  PROVE  Inv'
<1> DEFINE p == pending[e]
           unset == Unset(statuses, p.unset)
<1>1. /\ p.op = "new status" /\ pending' = [pending EXCEPT ![e] = Idle]
      /\ statuses[s] = Absent
      /\ statuses' = [unset EXCEPT ![s] = p.row]
      /\ UNCHANGED <<workflows, transitions, configs, views, columns, mapped, tasks,
                     edits, overlapped>>
      /\ crossed' \in SUBSET Statuses
  BY CrossedType DEF CommitNewStatus, Commit
<1>2. pending' \in [Requests -> Pending] /\ RequestsEnd /\ p \in Pending
  BY <1>1, EndEffect
<1>3. p.row \in Status
  BY <1>1, <1>2, PendingKinds
<1>4. /\ unset \in [Statuses -> Rows(Status)]
      /\ \A z \in Statuses :
           /\ ~Exists(statuses[z]) => unset[z] = statuses[z]
           /\ Exists(statuses[z]) => unset[z] \in Status
                                     /\ unset[z].workflow = statuses[z].workflow
  BY UnsetStatuses DEF Inv, TypeOK
<1> HIDE DEF unset, p
<1>5. statuses' \in [Statuses -> Rows(Status)] /\ StatusesStay
  BY <1>1, <1>3, <1>4, RowKinds DEF StatusesStay, Rows
<1>6. TypeOK'
  BY <1>1, <1>2, <1>5 DEF Inv, TypeOK
<1>7. WorkflowsStay
  BY <1>1 DEF WorkflowsStay
<1>8. QED
  BY <1>1, <1>2, <1>5, <1>6, <1>7, QuietInv

LEMMA CommitStatusInv ==
  ASSUME Inv, NEW e \in Requests, CommitStatus(e)
  PROVE  Inv'
<1> DEFINE p == pending[e]
           unset == Unset(statuses, p.unset)
           category == IF p.category = None THEN unset[p.id].category ELSE p.category
           is_default == IF p.is_default = None THEN unset[p.id].is_default ELSE p.is_default
           row == [unset[p.id] EXCEPT !.category = category, !.is_default = is_default]
<1>1. /\ p.op = "status" /\ pending' = [pending EXCEPT ![e] = Idle]
      /\ Exists(statuses[p.id])
      /\ UNCHANGED <<workflows, transitions, configs, views, columns, mapped, tasks,
                     edits, overlapped>>
      /\ crossed' \in SUBSET Statuses
  BY CrossedType DEF CommitStatus, Commit
<1>2. statuses' = [unset EXCEPT
        ![p.id].category = IF p.category = None THEN @ ELSE p.category,
        ![p.id].is_default = IF p.is_default = None THEN @ ELSE p.is_default]
  BY Zenon DEF CommitStatus
<1>3. pending' \in [Requests -> Pending] /\ RequestsEnd /\ p \in Pending
  BY <1>1, EndEffect
<1>4. /\ p.id \in Statuses /\ p.category \in Categories \cup {None}
      /\ p.is_default \in BOOLEAN \cup {None}
  BY <1>1, <1>3, PendingKinds
<1>5. /\ unset \in [Statuses -> Rows(Status)]
      /\ \A z \in Statuses :
           /\ ~Exists(statuses[z]) => unset[z] = statuses[z]
           /\ Exists(statuses[z]) => unset[z] \in Status
                                     /\ unset[z].workflow = statuses[z].workflow
  BY UnsetStatuses DEF Inv, TypeOK
<1> HIDE DEF unset, p
<1>6. category \in Categories
  BY <1>1, <1>4, <1>5 DEF Status
<1>7. is_default \in BOOLEAN
  <2>1. unset[p.id].is_default \in BOOLEAN
    BY <1>1, <1>4, <1>5 DEF Status
  <2>2. QED
    BY <1>4, <2>1, Zenon
<1>8. statuses' = [unset EXCEPT ![p.id] = row]
  BY <1>1, <1>2, <1>4, <1>5 DEF Status
<1> HIDE DEF category, is_default
<1>9. row \in Status /\ row.workflow = statuses[p.id].workflow
  BY <1>1, <1>4, <1>5, <1>6, <1>7 DEF Status
<1> HIDE DEF row
<1>10. statuses' \in [Statuses -> Rows(Status)] /\ StatusesStay
  BY <1>1, <1>4, <1>5, <1>8, <1>9, RowKinds DEF StatusesStay, Rows
<1>11. TypeOK'
  BY <1>1, <1>3, <1>10 DEF Inv, TypeOK
<1>12. WorkflowsStay
  BY <1>1 DEF WorkflowsStay
<1>13. QED
  BY <1>1, <1>3, <1>10, <1>11, <1>12, QuietInv

LEMMA CommitTransitionInv ==
  ASSUME Inv, NEW e \in Requests, NEW t \in Transitions, CommitTransition(e, t)
  PROVE  Inv'
<1> DEFINE row == pending[e].row
<1>1. /\ pending[e].op = "transition" /\ pending' = [pending EXCEPT ![e] = Idle]
      /\ Exists(statuses[row.from]) /\ Exists(statuses[row.to])
      /\ transitions' = [transitions EXCEPT ![t] = row]
      /\ UNCHANGED <<workflows, statuses, configs, views, columns, mapped, tasks,
                     edits, overlapped>>
      /\ crossed' \in SUBSET Statuses
  BY CrossedType DEF CommitTransition, Commit
<1>2. pending' \in [Requests -> Pending] /\ RequestsEnd /\ pending[e] \in Pending
  BY <1>1, EndEffect
<1>3. row \in Transition
  BY <1>1, <1>2, PendingKinds
<1>4. \A s \in {row.from, row.to} : Exists(statuses[s]) /\ statuses[s].workflow = row.workflow
  <2>1. \A s \in {row.from, row.to} : OfWorkflow(s, row.workflow)
    BY <1>1 DEF Inv, Referred
  <2>2. QED
    BY <1>1, <2>1, RowKinds DEF OfWorkflow
<1> HIDE DEF row
<1>5. /\ transitions' \in [Transitions -> Rows(Transition)]
      /\ transitions'[t] = row
      /\ \A r \in Transitions : r # t => transitions'[r] = transitions[r]
  BY <1>1, <1>3 DEF Inv, TypeOK, Rows
<1>6. TypeOK'
  BY <1>1, <1>2, <1>5 DEF Inv, TypeOK
<1>7. StatusesKept
  BY <1>1 DEF StatusesKept
<1>8. Referred'
  BY <1>2, <1>7, ReferredKept DEF Inv
<1>9. TransitionsFit'
  <2>1. TransitionsFit
    BY Parts DEF Inv
  <2>2. \A r \in Transitions : Exists(transitions'[r]) =>
          \A s \in {transitions'[r].from, transitions'[r].to} :
            Exists(statuses[s]) /\ statuses[s].workflow = transitions'[r].workflow
    BY <1>4, <1>5, <2>1 DEF TransitionsFit
  <2>3. QED
    BY <1>1, <2>2 DEF TransitionsFit
<1>10. NothingDangles'
  BY <1>1, <1>9, Parts DEF Inv, TasksFit, ConfigsFit
<1>11. QED
  BY <1>6, <1>8, <1>10 DEF Inv

LEMMA CommitConfigInv ==
  ASSUME Inv, NEW e \in Requests, CommitConfig(e)
  PROVE  Inv'
<1> DEFINE p == pending[e]
<1>1. /\ p.op = "config" /\ pending' = [pending EXCEPT ![e] = Idle]
      /\ Exists(workflows[p.workflow])
      /\ configs' = [configs EXCEPT ![p.type] = p.workflow]
      /\ UNCHANGED <<workflows, statuses, transitions, views, columns, mapped, tasks,
                     edits, overlapped>>
      /\ crossed' \in SUBSET Statuses
  BY CrossedType DEF CommitConfig, Commit
<1>2. pending' \in [Requests -> Pending] /\ RequestsEnd /\ p \in Pending
  BY <1>1, EndEffect
<1>3. p.type \in TaskTypes /\ p.workflow \in Workflows
  BY <1>1, <1>2, PendingKinds
<1> HIDE DEF p
<1>4. configs' \in [TaskTypes -> Workflows \cup {None}] /\ ConfigsFit'
  BY <1>1, <1>3 DEF Inv, TypeOK, NothingDangles, ConfigsFit
<1>5. TypeOK'
  BY <1>1, <1>2, <1>4 DEF Inv, TypeOK
<1>6. StatusesKept
  BY <1>1 DEF StatusesKept
<1>7. Referred'
  BY <1>2, <1>6, ReferredKept DEF Inv
<1>8. NothingDangles'
  BY <1>1, <1>4, Parts DEF Inv, TasksFit, TransitionsFit
<1>9. QED
  BY <1>5, <1>7, <1>8 DEF Inv

LEMMA CommitMapInv ==
  ASSUME Inv, NEW e \in Requests, CommitMap(e)
  PROVE  Inv'
<1> DEFINE p == pending[e]
<1>1. /\ p.op = "map" /\ pending' = [pending EXCEPT ![e] = Idle]
      /\ mapped' = mapped \cup {<<p.column, p.status>>}
      /\ UNCHANGED <<workflows, statuses, transitions, configs, views, columns, tasks,
                     edits, overlapped>>
      /\ crossed' \in SUBSET Statuses
  BY CrossedType DEF CommitMap, Commit
<1>2. pending' \in [Requests -> Pending] /\ RequestsEnd /\ p \in Pending
  BY <1>1, EndEffect
<1>3. p.column \in Columns /\ p.status \in Statuses
  BY <1>1, <1>2, PendingKinds
<1> HIDE DEF p
<1>4. mapped' \in SUBSET (Columns \X Statuses)
  BY <1>1, <1>3 DEF Inv, TypeOK
<1>5. QED
  BY <1>1, <1>2, <1>4, BoardInv DEF Inv, TypeOK

\* Every place is a column of the board for a status that is not on it.
LEMMA PlacementsKinds ==
  ASSUME NEW w, NEW places \in Placements(w)
  PROVE  \/ places = {}
         \/ \E column \in [NotOnBoards(w) -> Columns] :
              /\ \A m \in NotOnBoards(w) : column[m] \in ColumnsOf(m[2])
              /\ places = {<<column[m], m[1]>> : m \in NotOnBoards(w)}
BY DEF Placements

LEMMA PlacementsType ==
  ASSUME NEW w, NEW places \in Placements(w)
  PROVE  places \in SUBSET (Columns \X Statuses)
<1>1. \A m \in NotOnBoards(w) : m[1] \in Statuses
  BY DEF NotOnBoards, StatusesOf
<1>2. QED
  BY <1>1, PlacementsKinds

\* A task that is inserted starts in a status of its workflow.
LEMMA PlaceTaskInv ==
  ASSUME Inv, NEW e \in Requests, PlaceTask(e)
  PROVE  Inv'
<1> DEFINE p == pending[e]
<1>1. PICK places \in Placements(p.workflow) :
        pending' = [pending EXCEPT ![e] =
          [op |-> "placed", workflow |-> p.workflow, status |-> p.status, places |-> places]]
  BY DEF PlaceTask
<1>2. p.op = "task" /\ UNCHANGED <<rows, edits, overlapped, crossed>>
  BY DEF PlaceTask
<1>3. p.workflow \in Workflows /\ p.status \in Statuses
  BY <1>2, PendingKinds DEF Inv, TypeOK
<1>4. OfWorkflow(p.status, p.workflow)
  BY <1>2 DEF Inv, Referred
<1> HIDE DEF p
<1>5. places \in SUBSET (Columns \X Statuses)
  BY PlacementsType
<1> DEFINE edit == [op |-> "placed", workflow |-> p.workflow, status |-> p.status,
                    places |-> places]
<1>6. edit \in Pending
  BY <1>3, <1>5 DEF Pending
<1>7. edit.op = "placed" /\ edit.workflow = p.workflow /\ edit.status = p.status
      /\ pending' = [pending EXCEPT ![e] = edit]
  BY <1>1
<1> HIDE DEF edit
<1>8. edits' \in 0 .. MaxEdits /\ overlapped' \in BOOLEAN
  BY <1>2 DEF Inv, TypeOK
<1>9. QED
  BY <1>2, <1>4, <1>6, <1>7, <1>8, StartInv

\* The new task starts in a status of its workflow, both still there.
LEMMA CommitTaskInv ==
  ASSUME Inv, NEW e \in Requests, NEW t \in Tasks, CommitTask(e, t)
  PROVE  Inv'
<1> DEFINE p == pending[e]
           row == [workflow |-> p.workflow, status |-> p.status, deleted |-> FALSE]
<1>1. /\ p.op = "placed" /\ pending' = [pending EXCEPT ![e] = Idle]
      /\ Exists(workflows[p.workflow]) /\ Exists(statuses[p.status])
      /\ tasks' = [tasks EXCEPT ![t] = row]
      /\ mapped' = mapped \cup p.places
      /\ UNCHANGED <<workflows, statuses, transitions, configs, views, columns,
                     edits, overlapped>>
  BY DEF CommitTask, Commit
<1>2. crossed' \in SUBSET Statuses
  BY CrossedType DEF CommitTask, Commit
<1>3. pending' \in [Requests -> Pending] /\ RequestsEnd /\ p \in Pending
  BY <1>1, EndEffect
<1>4. /\ p.workflow \in Workflows /\ p.status \in Statuses
      /\ p.places \in SUBSET (Columns \X Statuses)
  BY <1>1, <1>3, PendingKinds
<1>5. statuses[p.status].workflow = p.workflow
  <2>1. OfWorkflow(p.status, p.workflow)
    BY <1>1 DEF Inv, Referred
  <2>2. QED
    BY <1>1, <2>1, RowKinds DEF OfWorkflow
<1> HIDE DEF p
<1>6. mapped' \in SUBSET (Columns \X Statuses)
  BY <1>1, <1>4 DEF Inv, TypeOK
<1>7. row \in Task /\ row.workflow = p.workflow /\ row.status = p.status
  BY <1>4 DEF Task
<1> HIDE DEF row
<1>8. /\ tasks' \in [Tasks -> Rows(Task)]
      /\ tasks'[t] = row
      /\ \A u \in Tasks : u # t => tasks'[u] = tasks[u]
  BY <1>1, <1>7 DEF Inv, TypeOK, Rows
<1>9. TypeOK'
  BY <1>1, <1>2, <1>3, <1>6, <1>8 DEF Inv, TypeOK
<1>10. StatusesKept
  BY <1>1 DEF StatusesKept
<1>11. Referred'
  BY <1>3, <1>10, ReferredKept DEF Inv
<1>12. TasksFit'
  <2>1. TasksFit
    BY Parts DEF Inv
  <2>2. \A u \in Tasks : Exists(tasks'[u]) =>
          /\ Exists(workflows[tasks'[u].workflow])
          /\ Exists(statuses[tasks'[u].status])
          /\ statuses[tasks'[u].status].workflow = tasks'[u].workflow
    BY <1>1, <1>5, <1>7, <1>8, <2>1 DEF TasksFit
  <2>3. QED
    BY <1>1, <2>2 DEF TasksFit
<1>13. NothingDangles'
  BY <1>1, <1>12, Parts DEF Inv, TransitionsFit, ConfigsFit
<1>14. QED
  BY <1>9, <1>11, <1>13 DEF Inv

LEMMA FailInv ==
  ASSUME Inv, NEW e \in Requests, Fail(e)
  PROVE  Inv'
<1>1. /\ pending' = [pending EXCEPT ![e] = Idle]
      /\ UNCHANGED <<workflows, statuses, transitions, configs, views, columns, mapped, tasks,
                     edits, overlapped, crossed>>
  BY DEF Fail, rows
<1>2. pending' \in [Requests -> Pending] /\ RequestsEnd
  BY <1>1, EndEffect
<1>3. QED
  BY <1>1, <1>2, BoardInv DEF Inv, TypeOK

-----------------------------------------------------------------------------
(* The theorems.                                                           *)

LEMMA InvStep == Inv /\ [Next]_vars => Inv'
<1> SUFFICES ASSUME Inv, [Next]_vars PROVE Inv'
  OBVIOUS
<1>1. CASE Single
  BY <1>1, SingleInv
<1>2. ASSUME NEW y \in TaskTypes, TypeStep(y) PROVE Inv'
  BY <1>2, TypeStepInv
<1>3. ASSUME NEW e \in Requests, Read(e) PROVE Inv'
  BY <1>3, ReadInv
<1>4. ASSUME NEW e \in Requests, Write(e) PROVE Inv'
  BY <1>4, CommitWorkflowInv, CommitDeleteWorkflowInv, CommitStatusInv, CommitDeleteStatusInv,
     CommitMigrateInv, CommitNewStatusInv, CommitTransitionInv, CommitConfigInv, CommitMapInv,
     PlaceTaskInv, CommitTaskInv, FailInv DEF Write
<1>5. CASE UNCHANGED vars
  <2>1. UNCHANGED <<workflows, statuses, transitions, configs, views, columns, mapped, tasks,
                    pending, edits, overlapped, crossed>>
    BY <1>5 DEF vars, rows
  <2>2. QED
    BY <2>1, BoardInv DEF Inv, TypeOK, RequestsEnd
<1>6. QED
  BY <1>1, <1>2, <1>3, <1>4, <1>5 DEF Next

LEMMA InvAlways == Spec => []Inv
<1>1. Init => Inv
  BY InitInv
<1>2. Inv /\ [Next]_vars => Inv'
  BY InvStep
<1>3. QED
  BY <1>1, <1>2, PTL DEF Spec

(* Every row and every request keeps its type.                             *)
THEOREM ConfigTypeCorrect == Spec => []TypeOK
<1>1. Inv => TypeOK
  BY DEF Inv
<1>2. QED
  BY <1>1, InvAlways, PTL

(* Without a lock on anything that is read, the foreign keys and the fact  *)
(* that a status never changes its workflow keep every reference of tasks, *)
(* transitions and types to what exists, in the workflow it belongs to.    *)
THEOREM NothingEverDangles == Spec => []NothingDangles
<1>1. Inv => NothingDangles
  BY DEF Inv
<1>2. QED
  BY <1>1, InvAlways, PTL

-----------------------------------------------------------------------------
(* Edits one after another.  As long as no two managers overlapped, the    *)
(* only edit under way still describes the present: nothing has changed    *)
(* what it read.                                                           *)

Starts(s) == Exists(statuses[s]) /\ statuses[s].is_default = TRUE

OneInitial ==
  /\ \A s \in Statuses : Starts(s) => statuses[s].category = "initial"
  /\ \A s, z \in Statuses :
       Starts(s) /\ Starts(z) /\ statuses[s].workflow = statuses[z].workflow => s = z

\* An edit that makes a status the default has seen every other one.
StatusFits(p) ==
  /\ p.op = "new status" /\ p.row.is_default = TRUE =>
       /\ p.row.category = "initial"
       /\ DefaultsOf(p.row.workflow) \subseteq p.unset
  /\ p.op = "status" =>
       /\ Exists(statuses[p.id])
       /\ p.is_default = TRUE =>
            /\ "initial" = (IF p.category = None THEN statuses[p.id].category ELSE p.category)
            /\ DefaultsOf(statuses[p.id].workflow) \subseteq p.unset
       /\ p.is_default = None /\ statuses[p.id].is_default = TRUE =>
            p.category \in {None, "initial"}

Alone == \A e, f \in Editing : e = f

StatusesInOrder == OneInitial /\ \A e \in Requests : StatusFits(pending[e])

OrderInv == ~overlapped => Alone /\ StatusesInOrder

LEMMA InitOrder == Init => OrderInv
<1> SUFFICES ASSUME Init PROVE OrderInv
  OBVIOUS
<1>1. Alone /\ \A e \in Requests : StatusFits(pending[e])
  BY DEF Init, Alone, Editing, Idle, StatusFits
<1>2. OneInitial
  <2>1. \A s \in Statuses : Starts(s) =>
          InitialStatuses[s] # Absent /\ InitialStatuses[s].is_default = TRUE
          /\ statuses[s] = InitialStatuses[s]
    BY DEF Init, Starts, Exists
  <2>2. QED
    BY <2>1, InitialAssumption DEF SeededStatuses, OneInitial
<1>3. QED
  BY <1>1, <1>2 DEF OrderInv, StatusesInOrder

-----------------------------------------------------------------------------
(* What leaves the order of statuses and editors alone.                    *)

LEMMA AloneOn ==
  ASSUME Alone, RequestsEnd
  PROVE  Alone'
BY DEF Alone, Editing, RequestsEnd, Idle

LEMMA NothingFits ==
  ASSUME NEW p, p.op \notin {"new status", "status"}
  PROVE  StatusFits(p) /\ StatusFits(p)'
BY DEF StatusFits

LEMMA FitsLater ==
  ASSUME NEW e, NEW p, pending'[e] = p
  PROVE  StatusFits(p)' => StatusFits(pending[e])'
BY DEF StatusFits, DefaultsOf, StatusesOf

LEMMA IdleFits == StatusFits(Idle)'
BY NothingFits DEF Idle

LEMMA StatusFitsOn ==
  ASSUME NEW p, StatusFits(p), statuses' = statuses
  PROVE  StatusFits(p)'
BY DEF StatusFits, DefaultsOf, StatusesOf

LEMMA OneInitialOn ==
  ASSUME OneInitial, statuses' = statuses
  PROVE  OneInitial'
BY DEF OneInitial, Starts

LEMMA StatusesInOrderOn ==
  ASSUME StatusesInOrder, RequestsEnd, statuses' = statuses
  PROVE  StatusesInOrder'
<1>1. ASSUME NEW e \in Requests
      PROVE  StatusFits(pending[e])'
  <2>1. CASE pending'[e] = pending[e]
    <3> DEFINE p == pending[e]
    <3>1. StatusFits(pending[e])
      BY DEF StatusesInOrder
    <3>2. QED
      BY <2>1, <3>1, StatusFitsOn DEF StatusFits, DefaultsOf, StatusesOf
  <2>2. CASE pending'[e] = Idle
    BY <2>2, IdleFits DEF StatusFits, Idle
  <2>3. QED
    BY <2>1, <2>2 DEF RequestsEnd
<1>2. QED
  BY <1>1, OneInitialOn DEF StatusesInOrder

-----------------------------------------------------------------------------
(* A request that has read what it needs.                                  *)

LEMMA StartOrder ==
  ASSUME Inv, OrderInv, NEW e \in Requests, NEW edit \in Pending,
         pending' = [pending EXCEPT ![e] = edit], UNCHANGED rows,
         StatusFits(edit),
         ~overlapped' => ~overlapped /\ (Editing = {} \/ edit.op \in {"task", "placed"})
  PROVE  OrderInv'
<1>1. UNCHANGED <<workflows, statuses, transitions, configs, views, columns, mapped, tasks>>
  BY RowsUnchanged
<1>2. \A f \in Requests : pending'[f] = IF f = e THEN edit ELSE pending[f]
  BY DEF Inv, TypeOK
<1>3. ASSUME ~overlapped'
      PROVE  Alone' /\ StatusesInOrder'
  <2>1. ~overlapped /\ Alone /\ StatusesInOrder
    BY <1>3 DEF OrderInv
  <2>2. Alone'
    BY <1>2, <1>3, <2>1 DEF Alone, Editing
  <2>3. StatusesInOrder'
    <3>1. ASSUME NEW f \in Requests
          PROVE  StatusFits(pending[f])'
      <4>1. PICK p : p = pending'[f]
        OBVIOUS
      <4>2. StatusFits(p)
        BY <1>2, <2>1, <4>1 DEF StatusesInOrder
      <4>3. QED
        BY <1>1, <4>1, <4>2, StatusFitsOn, FitsLater
    <3>2. QED
      BY <1>1, <2>1, <3>1, OneInitialOn DEF StatusesInOrder
  <2>4. QED
    BY <2>2, <2>3
<1>4. QED
  BY <1>3 DEF OrderInv

LEMMA BeginOrder ==
  ASSUME Inv, OrderInv, NEW e \in Requests, NEW edit \in Pending, Begin(e, edit),
         StatusFits(edit)
  PROVE  OrderInv'
<1>1. ~overlapped' => ~overlapped /\ Editing = {}
  BY Zenon DEF Begin
<1>2. pending' = [pending EXCEPT ![e] = edit] /\ UNCHANGED rows
  BY DEF Begin
<1>3. QED
  BY <1>1, <1>2, StartOrder

\* What update_status writes fits the status it has read.
LEMMA UpdateFits ==
  ASSUME Inv, NEW s \in Statuses, EditableStatus(s),
         NEW c \in Categories \cup {None}, NEW b \in BOOLEAN \cup {None},
         b = TRUE => "initial" = (IF c = None THEN statuses[s].category ELSE c),
         NEW unset, unset = DefaultsToUnset(statuses[s].workflow, b = TRUE),
         NEW p, p.op = "status", p.id = s, p.unset = unset,
         p.category = (IF c = statuses[s].category THEN None ELSE c),
         p.is_default = WrittenDefault(statuses[s], c, b)
  PROVE  StatusFits(p)
<1>1. Exists(statuses[s]) /\ statuses[s].category \in Categories
      /\ statuses[s].is_default \in BOOLEAN
  BY StatusKnown DEF EditableStatus, Status
<1>2. None \notin Categories /\ None # TRUE /\ None # FALSE
  BY WorkflowConfigAssumption, Zenon
<1>3. p.is_default = TRUE => b = TRUE
  BY <1>2, Zenon DEF WrittenDefault
<1>4. b = TRUE => DefaultsOf(statuses[s].workflow) \subseteq unset
  BY DEF DefaultsToUnset
<1>5. b = TRUE => "initial" =
        (IF p.category = None THEN statuses[s].category ELSE p.category)
  BY <1>1, <1>2
<1>6. ASSUME p.is_default = None, statuses[s].is_default = TRUE
      PROVE  p.category \in {None, "initial"}
  <2>1. c \in {None, "initial"}
    <3>1. b = None
      BY <1>2, <1>6, Zenon DEF WrittenDefault
    <3>2. QED
      BY <1>2, <1>6, <3>1, Zenon DEF WrittenDefault
  <2>2. QED
    BY <2>1
<1>7. QED
  BY <1>1, <1>3, <1>4, <1>5, <1>6 DEF StatusFits

LEMMA ReadOrder ==
  ASSUME Inv, OrderInv, NEW e \in Requests, Read(e)
  PROVE  OrderInv'
<1>1. ASSUME NEW edit, edit.op \notin {"new status", "status"},
             edit \in Pending, Begin(e, edit)
      PROVE  OrderInv'
  BY <1>1, NothingFits, BeginOrder
<1>2. ASSUME NEW w \in Workflows, NEW b \in BOOLEAN, UpdateWorkflow(e, w, b)
      PROVE  OrderInv'
  <2> DEFINE edit == [op |-> "workflow", id |-> w, is_default |-> b,
                      unset |-> IF b THEN DefaultWorkflows ELSE {}]
  <2>1. edit \in Pending /\ edit.op = "workflow"
    BY DEF Pending, DefaultWorkflows
  <2>2. Begin(e, edit)
    BY <1>2 DEF UpdateWorkflow
  <2> HIDE DEF edit
  <2>3. QED
    BY <1>1, <2>1, <2>2
<1>3. ASSUME NEW w \in Workflows, DeleteWorkflow(e, w)
      PROVE  OrderInv'
  <2> DEFINE edit == [op |-> "delete workflow", id |-> w]
  <2>1. edit \in Pending /\ edit.op = "delete workflow"
    BY DEF Pending
  <2>2. Begin(e, edit)
    BY <1>3 DEF DeleteWorkflow
  <2> HIDE DEF edit
  <2>3. QED
    BY <1>1, <2>1, <2>2
<1>4. ASSUME NEW w \in Workflows, NEW c \in Categories, NEW b \in BOOLEAN,
             CreateStatus(e, w, c, b)
      PROVE  OrderInv'
  <2> DEFINE row == [workflow |-> w, category |-> c, is_default |-> b]
             edit == [op |-> "new status", row |-> row, unset |-> DefaultsToUnset(w, b)]
  <2>1. edit \in Pending /\ edit.op = "new status"
    <3>1. DefaultsToUnset(w, b) \in SUBSET Statuses
      BY DEF DefaultsToUnset, DefaultsOf, StatusesOf
    <3>2. row \in Status
      BY DEF Status
    <3> HIDE DEF row
    <3>3. QED
      BY <3>1, <3>2 DEF Pending
  <2>2. Begin(e, edit) /\ (b = TRUE => c = "initial")
    BY <1>4 DEF CreateStatus
  <2>3. StatusFits(edit)
    <3>1. b = TRUE => DefaultsOf(w) \subseteq DefaultsToUnset(w, b)
      BY DEF DefaultsToUnset
    <3>2. QED
      BY <2>2, <3>1 DEF StatusFits
  <2> HIDE DEF edit
  <2>4. QED
    BY <2>1, <2>2, <2>3, BeginOrder
<1>5. ASSUME NEW w \in Workflows, NEW from \in Statuses, NEW to \in Statuses,
             CreateTransition(e, w, from, to)
      PROVE  OrderInv'
  <2> DEFINE row == [workflow |-> w, from |-> from, to |-> to]
             edit == [op |-> "transition", row |-> row]
  <2>1. edit \in Pending /\ edit.op = "transition"
    BY DEF Pending, Transition
  <2>2. Begin(e, edit)
    BY <1>5 DEF CreateTransition
  <2> HIDE DEF edit
  <2>3. QED
    BY <1>1, <2>1, <2>2
<1>6. ASSUME NEW w \in Workflows, NEW s \in Statuses, CreateTask(e, w, s)
      PROVE  OrderInv'
  <2> DEFINE edit == [op |-> "task", workflow |-> w, status |-> s]
  <2>1. edit \in Pending /\ edit.op = "task"
    BY DEF Pending
  <2>2. pending' = [pending EXCEPT ![e] = edit] /\ UNCHANGED <<rows, edits, overlapped>>
    BY <1>6 DEF CreateTask
  <2> HIDE DEF edit
  <2>3. StatusFits(edit)
    BY <2>1, NothingFits
  <2>4. QED
    BY <2>1, <2>2, <2>3, StartOrder
<1>7. ASSUME NEW s \in Statuses, NEW c \in Categories \cup {None},
             NEW b \in BOOLEAN \cup {None}, UpdateStatus(e, s, c, b)
      PROVE  OrderInv'
  <2> DEFINE row == statuses[s]
             category == IF c = row.category THEN None ELSE c
             unset == DefaultsToUnset(row.workflow, b = TRUE)
             edit == [op |-> "status", id |-> s, category |-> category,
                      is_default |-> WrittenDefault(row, c, b), unset |-> unset]
  <2>1. row \in Status /\ EditableStatus(s)
    BY <1>7, StatusKnown DEF UpdateStatus, EditableStatus
  <2>2. WrittenDefault(row, c, b) \in BOOLEAN \cup {None}
    BY <2>1, WrittenDefaultType
  <2>3. unset \in SUBSET Statuses
    BY DEF DefaultsToUnset, DefaultsOf, StatusesOf
  <2>4. category \in Categories \cup {None}
    OBVIOUS
  <2>5. /\ Begin(e, edit)
        /\ b = TRUE => "initial" = (IF c = None THEN row.category ELSE c)
    BY <1>7, Zenon DEF UpdateStatus
  <2>6. StatusFits(edit)
    BY <2>1, <2>5, UpdateFits
  <2> HIDE DEF unset, category
  <2>7. edit \in Pending /\ edit.op = "status"
    BY <2>2, <2>3, <2>4 DEF Pending
  <2> HIDE DEF edit
  <2>8. QED
    BY <2>5, <2>6, <2>7, BeginOrder
<1>8. ASSUME NEW s \in Statuses, DeleteStatus(e, s)
      PROVE  OrderInv'
  <2> DEFINE edit == [op |-> "delete status", id |-> s]
  <2>1. edit \in Pending /\ edit.op = "delete status"
    BY DEF Pending
  <2>2. Begin(e, edit)
    BY <1>8 DEF DeleteStatus
  <2> HIDE DEF edit
  <2>3. QED
    BY <1>1, <2>1, <2>2
<1>9. ASSUME NEW s \in Statuses, NEW z \in Statuses, MigrateStatus(e, s, z)
      PROVE  OrderInv'
  <2> DEFINE edit == [op |-> "migrate", id |-> s, target |-> z]
  <2>1. edit \in Pending /\ edit.op = "migrate"
    BY DEF Pending
  <2>2. Begin(e, edit)
    BY <1>9 DEF MigrateStatus
  <2> HIDE DEF edit
  <2>3. QED
    BY <1>1, <2>1, <2>2
<1>10. ASSUME NEW s \in Statuses, NEW c \in Columns, AddStatusToColumn(e, c, s)
      PROVE  OrderInv'
  <2> DEFINE edit == [op |-> "map", column |-> c, status |-> s]
  <2>1. edit \in Pending /\ edit.op = "map"
    BY DEF Pending
  <2>2. Begin(e, edit)
    BY <1>10 DEF AddStatusToColumn
  <2> HIDE DEF edit
  <2>3. QED
    BY <1>1, <2>1, <2>2
<1>11. QED
  BY <1>2, <1>3, <1>4, <1>5, <1>6, <1>7, <1>8, <1>9, <1>10 DEF Read

-----------------------------------------------------------------------------
(* Steps that leave statuses alone.                                        *)

LEMMA QuietOrder ==
  ASSUME Inv, OrderInv, RequestsEnd, statuses' = statuses, ~overlapped' => ~overlapped
  PROVE  OrderInv'
BY AloneOn, StatusesInOrderOn DEF OrderInv

LEMMA SingleOrder ==
  ASSUME Inv, OrderInv, Single
  PROVE  OrderInv'
<1>1. UNCHANGED <<statuses, pending, overlapped>>
  BY DEF Single, CreateWorkflow, DeleteTransition, CreateView, DeleteView, CreateBoardColumn,
         DeleteBoardColumn, RemoveStatusFromColumn, DeleteTask, TransitionStatus, AtOnce
<1>2. QED
  BY <1>1, QuietOrder DEF RequestsEnd

LEMMA TypeStepOrder ==
  ASSUME Inv, OrderInv, NEW y \in TaskTypes, TypeStep(y)
  PROVE  OrderInv'
<1>1. ASSUME NEW e \in Requests, NEW w \in Workflows, SetTaskTypeWorkflow(e, y, w)
      PROVE  OrderInv'
  <2>1. PICK existing \in BOOLEAN : existing = (configs[y] # None)
    BY Zenon
  <2> DEFINE edit == [op |-> "config", type |-> y, workflow |-> w, existing |-> existing]
  <2>2. edit \in Pending /\ edit.op = "config"
    BY DEF Pending
  <2>3. Begin(e, edit)
    BY <1>1, <2>1, Zenon DEF SetTaskTypeWorkflow
  <2> HIDE DEF edit
  <2>4. QED
    BY <2>2, <2>3, NothingFits, BeginOrder
<1>2. ASSUME ResetTaskTypeWorkflow(y)
      PROVE  OrderInv'
  <2>1. UNCHANGED <<statuses, pending, overlapped>>
    BY <1>2 DEF ResetTaskTypeWorkflow, AtOnce
  <2>2. QED
    BY <2>1, QuietOrder DEF RequestsEnd
<1>3. QED
  BY <1>1, <1>2 DEF TypeStep

-----------------------------------------------------------------------------
(* The only edit under way is applied: nobody else waits to apply one.     *)

LEMMA EditorLeaves ==
  ASSUME Inv, Alone, NEW e \in Requests, pending[e].op \notin {"idle", "task", "placed"},
         pending' = [pending EXCEPT ![e] = Idle]
  PROVE  Alone' /\ \A f \in Requests : StatusFits(pending[f])'
<1>1. \A f \in Requests : pending'[f].op \in {"idle", "task", "placed"}
  BY DEF Inv, TypeOK, Alone, Editing, Idle
<1>2. \A f \in Requests : StatusFits(pending[f])'
  BY <1>1 DEF StatusFits
<1>3. QED
  BY <1>1, <1>2 DEF Alone, Editing

\* A request that changes statuses commits.
LEMMA ClosingOrder ==
  ASSUME Inv, OrderInv, NEW e \in Requests,
         pending[e].op \notin {"idle", "task", "placed"},
         pending' = [pending EXCEPT ![e] = Idle], overlapped' = overlapped,
         ~overlapped => OneInitial'
  PROVE  OrderInv'
BY EditorLeaves DEF OrderInv, StatusesInOrder

LEMMA DeletionOrder ==
  ASSUME Inv, OrderInv, NEW e \in Requests,
         pending[e].op \notin {"idle", "task", "placed"},
         pending' = [pending EXCEPT ![e] = Idle], overlapped' = overlapped,
         NEW gone, NEW left, WithoutStatuses(gone, left)
  PROVE  OrderInv'
<1>1. \A s \in Statuses : Starts(s)' => Starts(s) /\ statuses'[s] = statuses[s]
  BY WithoutStatusesEffect, RowKinds DEF Starts
<1>2. OneInitial => OneInitial'
  BY <1>1 DEF OneInitial
<1>3. QED
  BY <1>2, ClosingOrder DEF OrderInv, StatusesInOrder

LEMMA CommitDeleteWorkflowOrder ==
  ASSUME Inv, OrderInv, NEW e \in Requests, CommitDeleteWorkflow(e)
  PROVE  OrderInv'
<1>1. /\ pending[e].op = "delete workflow" /\ pending' = [pending EXCEPT ![e] = Idle]
      /\ overlapped' = overlapped
      /\ WithoutStatuses(StatusesOf(pending[e].id), tasks)
  BY DEF CommitDeleteWorkflow, Commit
<1>2. QED
  BY <1>1, DeletionOrder

LEMMA CommitDeleteStatusOrder ==
  ASSUME Inv, OrderInv, NEW e \in Requests, CommitDeleteStatus(e)
  PROVE  OrderInv'
<1>1. /\ pending[e].op = "delete status" /\ pending' = [pending EXCEPT ![e] = Idle]
      /\ overlapped' = overlapped
      /\ WithoutStatuses({pending[e].id}, tasks)
  BY DEF CommitDeleteStatus, Commit
<1>2. QED
  BY <1>1, DeletionOrder

LEMMA CommitMigrateOrder ==
  ASSUME Inv, OrderInv, NEW e \in Requests, CommitMigrate(e)
  PROVE  OrderInv'
<1>1. /\ pending[e].op = "migrate" /\ pending' = [pending EXCEPT ![e] = Idle]
      /\ overlapped' = overlapped
      /\ WithoutStatuses({pending[e].id}, tasks')
  BY DEF CommitMigrate, Commit
<1>2. QED
  BY <1>1, DeletionOrder

\* What is still a default was one, and was not unset.
LEMMA UnsetStarts ==
  ASSUME Inv, NEW ids, NEW s \in Statuses
  PROVE  /\ Exists(Unset(statuses, ids)[s]) /\ Unset(statuses, ids)[s].is_default = TRUE =>
              Starts(s) /\ s \notin ids /\ Unset(statuses, ids)[s] = statuses[s]
         /\ Exists(statuses[s]) =>
              Unset(statuses, ids)[s].category = statuses[s].category
<1>1. CASE s \in ids /\ Exists(statuses[s])
  <2> DEFINE row == [statuses[s] EXCEPT !.is_default = FALSE]
  <2>1. row.is_default = FALSE /\ row.category = statuses[s].category
    <3>1. statuses[s] \in Status
      BY <1>1, StatusKnown
    <3>2. QED
      BY <3>1 DEF Status
  <2>2. Unset(statuses, ids)[s] = row
    BY <1>1 DEF Unset, Inv, TypeOK
  <2> HIDE DEF row
  <2>3. QED
    BY <2>1, <2>2
<1>2. CASE ~(s \in ids /\ Exists(statuses[s]))
  <2>1. Unset(statuses, ids)[s] = statuses[s]
    BY <1>2 DEF Unset, Inv, TypeOK
  <2>2. QED
    BY <1>2, <2>1 DEF Starts
<1>3. QED
  BY <1>1, <1>2

LEMMA CommitNewStatusOrder ==
  ASSUME Inv, OrderInv, NEW e \in Requests, NEW s \in Statuses, CommitNewStatus(e, s)
  PROVE  OrderInv'
<1>1. PICK p : p = pending[e]
  OBVIOUS
<1> DEFINE unset == Unset(statuses, p.unset)
<1>2. /\ p.op = "new status" /\ pending' = [pending EXCEPT ![e] = Idle]
      /\ statuses[s] = Absent
      /\ statuses' = [unset EXCEPT ![s] = p.row]
      /\ overlapped' = overlapped
  BY <1>1 DEF CommitNewStatus, Commit
<1>3. p.row \in Status
  BY <1>1, <1>2, PendingKinds DEF Inv, TypeOK
<1>4. \A z \in Statuses : statuses'[z] = IF z = s THEN p.row ELSE unset[z]
  BY <1>2 DEF Unset, Inv, TypeOK
<1>5. \A z \in Statuses \ {s} : Starts(z)' =>
        Starts(z) /\ z \notin p.unset /\ statuses'[z] = statuses[z]
  <2>1. \A z \in Statuses : Exists(unset[z]) /\ unset[z].is_default = TRUE =>
          Starts(z) /\ z \notin p.unset /\ unset[z] = statuses[z]
    BY UnsetStarts
  <2> HIDE DEF unset
  <2>2. QED
    BY <1>4, <2>1 DEF Starts
<1>6. ASSUME ~overlapped
      PROVE  OneInitial'
  <2>1. OneInitial /\ StatusFits(p)
    BY <1>1, <1>6 DEF OrderInv, StatusesInOrder
  <2>2. p.row.is_default = TRUE =>
          /\ p.row.category = "initial"
          /\ \A z \in Statuses : Starts(z) /\ statuses[z].workflow = p.row.workflow => z \in p.unset
    BY <1>2, <2>1 DEF StatusFits, Starts, DefaultsOf, StatusesOf
  <2>3. Starts(s)' => p.row.is_default = TRUE /\ statuses'[s] = p.row
    BY <1>4 DEF Starts
  <2>4. \A z \in Statuses : Starts(z)' => statuses'[z].category = "initial"
    BY <1>5, <2>1, <2>2, <2>3 DEF OneInitial
  <2>5. ASSUME NEW y \in Statuses, NEW z \in Statuses, Starts(y)', Starts(z)',
               statuses'[y].workflow = statuses'[z].workflow
        PROVE  y = z
    BY <1>5, <2>1, <2>2, <2>3, <2>5 DEF OneInitial
  <2>6. QED
    BY <2>4, <2>5 DEF OneInitial
<1>7. QED
  BY <1>1, <1>2, <1>6, ClosingOrder

LEMMA CommitStatusOrder ==
  ASSUME Inv, OrderInv, NEW e \in Requests, CommitStatus(e)
  PROVE  OrderInv'
<1>1. PICK p : p = pending[e]
  OBVIOUS
<1> DEFINE unset == Unset(statuses, p.unset)
           category == IF p.category = None THEN unset[p.id].category ELSE p.category
           is_default == IF p.is_default = None THEN unset[p.id].is_default ELSE p.is_default
           row == [unset[p.id] EXCEPT !.category = category, !.is_default = is_default]
<1>2. /\ p.op = "status" /\ pending' = [pending EXCEPT ![e] = Idle]
      /\ Exists(statuses[p.id])
      /\ overlapped' = overlapped
  BY <1>1 DEF CommitStatus, Commit
<1>3. statuses' = [unset EXCEPT
        ![p.id].category = IF p.category = None THEN @ ELSE p.category,
        ![p.id].is_default = IF p.is_default = None THEN @ ELSE p.is_default]
  BY <1>1, Zenon DEF CommitStatus
<1>4. p.id \in Statuses
  BY <1>1, <1>2, PendingKinds DEF Inv, TypeOK
<1>5. unset[p.id] \in Status /\ unset[p.id].workflow = statuses[p.id].workflow
      /\ Exists(unset[p.id])
  BY <1>2, <1>4, UnsetStatuses, RowKinds DEF Inv, TypeOK
<1>6. statuses' = [unset EXCEPT ![p.id] = row] /\ DOMAIN unset = Statuses
  BY <1>3, <1>4, <1>5 DEF Status, Unset, Inv, TypeOK
<1>7. unset[p.id].category = statuses[p.id].category
  BY <1>2, <1>4, UnsetStarts
<1>8. unset[p.id].is_default = TRUE => Starts(p.id) /\ p.id \notin p.unset
  BY <1>4, <1>5, UnsetStarts
<1>9. \A z \in Statuses : Exists(unset[z]) /\ unset[z].is_default = TRUE =>
        Starts(z) /\ z \notin p.unset /\ unset[z] = statuses[z]
  BY UnsetStarts
<1> HIDE DEF unset
<1>10. /\ row.category = category /\ row.is_default = is_default
       /\ row.workflow = statuses[p.id].workflow
  BY <1>5 DEF Status
<1> HIDE DEF row, category, is_default
<1>11. /\ statuses'[p.id] = row
       /\ \A z \in Statuses \ {p.id} : statuses'[z] = unset[z]
  BY <1>4, <1>6
<1>12. \A z \in Statuses \ {p.id} : Starts(z)' =>
         Starts(z) /\ z \notin p.unset /\ statuses'[z] = statuses[z]
  BY <1>9, <1>11 DEF Starts
<1>13. ASSUME ~overlapped
       PROVE  OneInitial'
  <2>1. OneInitial /\ StatusFits(p)
    BY <1>1, <1>13 DEF OrderInv, StatusesInOrder
  <2>2. is_default = TRUE => \/ p.is_default = TRUE
                             \/ /\ p.is_default = None /\ Starts(p.id)
                                /\ p.category \in {None, "initial"}
    <3>1. CASE p.is_default = None
      BY <1>2, <1>8, <2>1, <3>1 DEF StatusFits, is_default, Starts
    <3>2. CASE p.is_default # None
      BY <3>2, Zenon DEF is_default
    <3>3. QED
      BY <3>1, <3>2
  <2>3. is_default = TRUE => category = "initial"
    <3>1. CASE p.is_default = TRUE
      BY <1>2, <1>7, <2>1, <3>1 DEF StatusFits, category
    <3>2. CASE p.is_default = None /\ Starts(p.id) /\ p.category \in {None, "initial"}
      BY <1>4, <1>7, <2>1, <3>2 DEF OneInitial, category
    <3>3. QED
      BY <2>2, <3>1, <3>2
  <2>4. ASSUME is_default = TRUE, NEW z \in Statuses \ {p.id}, Starts(z)',
               statuses'[z].workflow = statuses[p.id].workflow
        PROVE  FALSE
    <3>1. Starts(z) /\ z \notin p.unset /\ statuses[z].workflow = statuses[p.id].workflow
      BY <1>12, <2>4
    <3>2. CASE p.is_default = TRUE
      BY <1>2, <2>1, <3>1, <3>2 DEF StatusFits, Starts, DefaultsOf, StatusesOf
    <3>3. CASE Starts(p.id)
      BY <1>4, <2>1, <3>1, <3>3 DEF OneInitial
    <3>4. QED
      BY <2>2, <2>4, <3>2, <3>3
  <2>5. Starts(p.id)' => is_default = TRUE
    BY <1>10, <1>11 DEF Starts
  <2>6. \A z \in Statuses : Starts(z)' => statuses'[z].category = "initial"
    BY <1>10, <1>11, <1>12, <2>1, <2>3, <2>5 DEF OneInitial
  <2>7. ASSUME NEW y \in Statuses, NEW z \in Statuses, Starts(y)', Starts(z)',
               statuses'[y].workflow = statuses'[z].workflow
        PROVE  y = z
    BY <1>10, <1>11, <1>12, <2>1, <2>4, <2>5, <2>7 DEF OneInitial
  <2>8. QED
    BY <2>6, <2>7 DEF OneInitial
<1>14. QED
  BY <1>1, <1>2, <1>13, ClosingOrder

LEMMA PlaceTaskOrder ==
  ASSUME Inv, OrderInv, NEW e \in Requests, PlaceTask(e)
  PROVE  OrderInv'
<1>1. PICK places \in Placements(pending[e].workflow) :
        pending' = [pending EXCEPT ![e] =
          [op |-> "placed", workflow |-> pending[e].workflow, status |-> pending[e].status,
           places |-> places]]
  BY DEF PlaceTask
<1> DEFINE edit == [op |-> "placed", workflow |-> pending[e].workflow,
                    status |-> pending[e].status, places |-> places]
<1>2. UNCHANGED <<rows, overlapped>> /\ pending[e].op = "task"
  BY DEF PlaceTask
<1>3. edit \in Pending /\ edit.op = "placed" /\ pending' = [pending EXCEPT ![e] = edit]
  <2>1. pending[e].workflow \in Workflows /\ pending[e].status \in Statuses
    BY <1>2, PendingKinds DEF Inv, TypeOK
  <2>2. places \in SUBSET (Columns \X Statuses)
    BY PlacementsType
  <2>3. QED
    BY <1>1, <2>1, <2>2 DEF Pending
<1> HIDE DEF edit
<1>4. StatusFits(edit)
  BY <1>3, NothingFits
<1>5. QED
  BY <1>2, <1>3, <1>4, StartOrder

LEMMA QuietCommitOrder ==
  ASSUME Inv, OrderInv, NEW e \in Requests, pending' = [pending EXCEPT ![e] = Idle],
         UNCHANGED <<statuses, overlapped>>
  PROVE  OrderInv'
BY EndEffect, QuietOrder

LEMMA WriteOrder ==
  ASSUME Inv, OrderInv, NEW e \in Requests, Write(e)
  PROVE  OrderInv'
<1>1. CASE CommitWorkflow(e)
  BY <1>1, QuietCommitOrder DEF CommitWorkflow, Commit
<1>2. ASSUME NEW t \in Transitions, CommitTransition(e, t)
      PROVE  OrderInv'
  BY <1>2, QuietCommitOrder DEF CommitTransition, Commit
<1>3. CASE CommitConfig(e)
  BY <1>3, QuietCommitOrder DEF CommitConfig, Commit
<1>4. CASE CommitMap(e)
  BY <1>4, QuietCommitOrder DEF CommitMap, Commit
<1>5. ASSUME NEW t \in Tasks, CommitTask(e, t)
      PROVE  OrderInv'
  BY <1>5, QuietCommitOrder DEF CommitTask, Commit
<1>6. CASE Fail(e)
  BY <1>6, QuietCommitOrder DEF Fail, rows
<1>7. QED
  BY <1>1, <1>2, <1>3, <1>4, <1>5, <1>6, CommitDeleteWorkflowOrder, CommitStatusOrder,
     CommitDeleteStatusOrder, CommitMigrateOrder, CommitNewStatusOrder, PlaceTaskOrder
     DEF Write

LEMMA OrderStep == Inv /\ OrderInv /\ [Next]_vars => OrderInv'
<1> SUFFICES ASSUME Inv, OrderInv, [Next]_vars PROVE OrderInv'
  OBVIOUS
<1>1. CASE UNCHANGED vars
  <2>1. UNCHANGED <<statuses, pending, overlapped>>
    BY <1>1 DEF vars, rows
  <2>2. QED
    BY <2>1, QuietOrder DEF RequestsEnd
<1>2. QED
  BY <1>1, SingleOrder, TypeStepOrder, ReadOrder, WriteOrder DEF Next

LEMMA OrderAlways == Spec => [](Inv /\ OrderInv)
<1>1. Init => Inv /\ OrderInv
  BY InitInv, InitOrder
<1>2. Inv /\ OrderInv /\ [Next]_vars => Inv' /\ OrderInv'
  BY InvStep, OrderStep
<1>3. QED
  BY <1>1, <1>2, PTL DEF Spec

(* Managers who edit one after another leave a workflow with one default   *)
(* status at most, an initial one: update_status and create_status unset   *)
(* every default they have read, and nothing came in between.              *)
THEOREM OneInitialDefault == Spec => []DefaultIsOneInitial
<1>1. Inv /\ OrderInv => DefaultIsOneInitial
  <2> SUFFICES ASSUME Inv, OrderInv, ~overlapped,
                      NEW s \in Statuses, Exists(statuses[s]), statuses[s].is_default
               PROVE  /\ statuses[s].category = "initial"
                      /\ DefaultsOf(statuses[s].workflow) = {s}
    BY DEF DefaultIsOneInitial
  <2>1. OneInitial
    BY DEF OrderInv, StatusesInOrder
  <2>2. \A z \in Statuses : Exists(statuses[z]) => (statuses[z].is_default <=> Starts(z))
    <3>1. \A z \in Statuses : Exists(statuses[z]) => statuses[z].is_default \in BOOLEAN
      BY StatusKnown DEF Status
    <3>2. QED
      BY <3>1, Zenon DEF Starts
  <2>3. DefaultsOf(statuses[s].workflow) =
          {z \in Statuses : Starts(z) /\ statuses[z].workflow = statuses[s].workflow}
    <3>1. ASSUME NEW z
          PROVE  z \in DefaultsOf(statuses[s].workflow) <=>
                   /\ z \in Statuses /\ Starts(z)
                   /\ statuses[z].workflow = statuses[s].workflow
      <4>1. z \in DefaultsOf(statuses[s].workflow) <=>
              /\ z \in Statuses /\ Exists(statuses[z])
              /\ statuses[z].workflow = statuses[s].workflow
              /\ statuses[z].is_default
        BY Zenon DEF DefaultsOf, StatusesOf
      <4>2. QED
        BY <2>2, <4>1, Zenon DEF Starts
    <3>2. QED
      BY <3>1
  <2>4. Starts(s)
    BY <2>2
  <2>5. QED
    BY <2>1, <2>3, <2>4 DEF OneInitial
<1>2. QED
  BY <1>1, OrderAlways, PTL

-----------------------------------------------------------------------------
(* The boards.  What a request is about to put on a board is not there     *)
(* yet, or has crossed with what another request put there.                *)

\* The columns a request puts statuses in.
ToPut(p) ==
  CASE p.op = "map" -> {<<p.column, p.status>>}
    [] p.op = "placed" -> p.places
    [] OTHER -> {}

SameView(c, d) == Exists(columns[c]) /\ Exists(columns[d]) /\ columns[c].view = columns[d].view

PutFits(p) ==
  /\ \A m \in ToPut(p) :
       /\ columns[m[1]] # Absent
       /\ Exists(columns[m[1]]) /\ OnView(m[2], columns[m[1]].view) => m[2] \in crossed
  /\ \A m, n \in ToPut(p) : m[2] = n[2] /\ SameView(m[1], n[1]) => m = n

\* The project is locked while a creation of a task looks at the boards.
OnePlacing ==
  \A e, f \in Requests : pending[e].op = "placed" /\ pending[f].op = "placed" => e = f

ColumnsKnown == \A m \in mapped : Exists(columns[m[1]])

BoardsInv ==
  /\ ColumnsKnown
  /\ MappedOnce
  /\ OnePlacing
  /\ \A e \in Requests : PutFits(pending[e])

LEMMA ToPutKinds ==
  ASSUME NEW p \in Pending
  PROVE  /\ ToPut(p) \subseteq Columns \X Statuses
         /\ ToPut(p) # {} => p.op \in {"map", "placed"}
<1>1. CASE p.op = "map"
  <2>1. p.column \in Columns /\ p.status \in Statuses
    BY <1>1, PendingKinds
  <2>2. ToPut(p) = {<<p.column, p.status>>}
    BY <1>1 DEF ToPut
  <2>3. QED
    BY <1>1, <2>1, <2>2
<1>2. CASE p.op = "placed"
  BY <1>2, PendingKinds DEF ToPut
<1>3. CASE p.op \notin {"map", "placed"}
  BY <1>3 DEF ToPut
<1>4. QED
  BY <1>1, <1>2, <1>3

LEMMA NothingToPut ==
  ASSUME NEW p, p.op \notin {"map", "placed"}
  PROVE  ToPut(p) = {} /\ PutFits(p) /\ PutFits(p)'
<1>1. ToPut(p) = {}
  BY DEF ToPut
<1>2. QED
  BY <1>1 DEF PutFits

LEMMA PutFitsLater ==
  ASSUME NEW e, NEW p, pending'[e] = p, PutFits(p)'
  PROVE  PutFits(pending[e])'
BY DEF PutFits, ToPut, SameView, OnView, ColumnsOf

LEMMA InitBoards == Init => BoardsInv
<1> SUFFICES ASSUME Init PROVE BoardsInv
  OBVIOUS
<1>1. ColumnsKnown /\ MappedOnce
  BY DEF Init, ColumnsKnown, MappedOnce
<1>2. OnePlacing
  BY DEF Init, OnePlacing, Idle
<1>3. \A e \in Requests : PutFits(pending[e])
  BY NothingToPut DEF Init, Idle
<1>4. QED
  BY <1>1, <1>2, <1>3 DEF BoardsInv

-----------------------------------------------------------------------------
(* Steps that add nothing to a board.                                      *)

\* A column never changes its board, and does not come back.
ColumnsStay ==
  \A c \in Columns :
    \/ columns'[c] \in {columns[c], Gone}
    \/ columns[c] = Absent /\ columns'[c] # Absent

FewerOnBoards == ColumnsStay /\ ColumnsKnown' /\ mapped' \subseteq mapped

LEMMA MappedColumns ==
  ASSUME Inv, ColumnsKnown, FewerOnBoards, NEW m \in mapped'
  PROVE  /\ m \in mapped /\ m[1] \in Columns /\ m = <<m[1], m[2]>>
         /\ columns'[m[1]] = columns[m[1]] /\ Exists(columns[m[1]])
<1>1. m \in mapped /\ m[1] \in Columns /\ m = <<m[1], m[2]>>
  BY DEF FewerOnBoards, Inv, TypeOK
<1>2. Exists(columns[m[1]]) /\ Exists(columns'[m[1]])
  BY <1>1 DEF ColumnsKnown, FewerOnBoards
<1>3. QED
  BY <1>1, <1>2, RowKinds DEF ColumnsStay, FewerOnBoards

LEMMA MappedOnceOn ==
  ASSUME Inv, ColumnsKnown, MappedOnce, FewerOnBoards, crossed \subseteq crossed'
  PROVE  MappedOnce'
BY MappedColumns DEF MappedOnce

LEMMA PutFitsOn ==
  ASSUME Inv, ColumnsKnown, FewerOnBoards, crossed \subseteq crossed',
         NEW p \in Pending, PutFits(p)
  PROVE  PutFits(p)'
<1>1. ASSUME NEW c \in Columns, Exists(columns'[c]), columns[c] # Absent
      PROVE  columns'[c] = columns[c]
  BY <1>1, RowKinds DEF FewerOnBoards, ColumnsStay
<1>2. \A m \in ToPut(p) : m[1] \in Columns /\ columns[m[1]] # Absent
  BY ToPutKinds DEF PutFits
<1>3. ASSUME NEW m \in ToPut(p)
      PROVE  columns'[m[1]] # Absent
  BY <1>2, RowKinds DEF FewerOnBoards, ColumnsStay
<1>4. ASSUME NEW m \in ToPut(p), Exists(columns'[m[1]]),
             NEW c \in Columns, <<c, m[2]>> \in mapped',
             columns'[c].view = columns'[m[1]].view
      PROVE  m[2] \in crossed'
  <2>1. columns'[m[1]] = columns[m[1]]
    BY <1>1, <1>2, <1>4
  <2>2. columns'[c] = columns[c] /\ Exists(columns[c]) /\ <<c, m[2]>> \in mapped
    BY <1>4, MappedColumns
  <2>3. OnView(m[2], columns[m[1]].view)
    BY <1>4, <2>1, <2>2 DEF OnView, ColumnsOf
  <2>4. QED
    BY <1>4, <2>1, <2>3 DEF PutFits
<1>5. ASSUME NEW m \in ToPut(p), NEW n \in ToPut(p), m[2] = n[2], SameView(m[1], n[1])'
      PROVE  m = n
  <2>1. columns'[m[1]] = columns[m[1]] /\ columns'[n[1]] = columns[n[1]]
    BY <1>1, <1>2, <1>5 DEF SameView
  <2>2. QED
    BY <1>5, <2>1 DEF PutFits, SameView
<1>6. QED
  BY <1>3, <1>4, <1>5 DEF PutFits, OnView, ColumnsOf

LEMMA OnePlacingOn ==
  ASSUME OnePlacing, RequestsEnd
  PROVE  OnePlacing'
BY DEF OnePlacing, RequestsEnd, Idle

LEMMA QuietBoards ==
  ASSUME Inv, BoardsInv, RequestsEnd, FewerOnBoards, crossed \subseteq crossed'
  PROVE  BoardsInv'
<1>1. ASSUME NEW e \in Requests
      PROVE  PutFits(pending[e])'
  <2>1. PICK p : p = pending'[e]
    OBVIOUS
  <2>2. PutFits(p)'
    <3>1. CASE p = pending[e]
      BY <3>1, PutFitsOn DEF BoardsInv, Inv, TypeOK
    <3>2. CASE p = Idle
      BY <3>2, NothingToPut DEF Idle
    <3>3. QED
      BY <2>1, <3>1, <3>2 DEF RequestsEnd
  <2>3. QED
    BY <2>1, <2>2, PutFitsLater
<1>2. MappedOnce' /\ OnePlacing' /\ ColumnsKnown'
  BY MappedOnceOn, OnePlacingOn DEF BoardsInv, FewerOnBoards
<1>3. QED
  BY <1>1, <1>2 DEF BoardsInv

LEMMA SameBoards ==
  ASSUME BoardsInv, UNCHANGED <<columns, mapped>>
  PROVE  FewerOnBoards
BY DEF BoardsInv, ColumnsKnown, ColumnsStay, FewerOnBoards

LEMMA FewerColumns ==
  ASSUME Inv, BoardsInv, NEW gone, WithoutColumns(gone)
  PROVE  FewerOnBoards
<1>1. \A c \in Columns : columns'[c] = IF c \in gone THEN Gone ELSE columns[c]
  BY DEF WithoutColumns
<1>2. \A m \in mapped' : m \in mapped /\ m[1] \notin gone /\ m[1] \in Columns
  BY DEF WithoutColumns, Inv, TypeOK
<1>3. QED
  BY <1>1, <1>2 DEF BoardsInv, ColumnsKnown, ColumnsStay, FewerOnBoards

LEMMA FewerStatuses ==
  ASSUME BoardsInv, NEW gone, NEW left, WithoutStatuses(gone, left), columns' = columns
  PROVE  FewerOnBoards
<1>1. mapped' \subseteq mapped
  BY DEF WithoutStatuses
<1>2. QED
  BY <1>1 DEF BoardsInv, ColumnsKnown, ColumnsStay, FewerOnBoards

LEMMA SingleBoards ==
  ASSUME Inv, BoardsInv, Single
  PROVE  BoardsInv'
<1>1. RequestsEnd /\ crossed' = crossed
  <2>1. UNCHANGED <<pending, crossed>>
    BY DEF Single, CreateWorkflow, DeleteTransition, CreateView, DeleteView, CreateBoardColumn,
           DeleteBoardColumn, RemoveStatusFromColumn, DeleteTask, TransitionStatus, AtOnce
  <2>2. QED
    BY <2>1 DEF RequestsEnd
<1>2. FewerOnBoards
  <2>1. ASSUME NEW v \in Views, DeleteView(v)
        PROVE  FewerOnBoards
    BY <2>1, FewerColumns DEF DeleteView
  <2>2. ASSUME NEW c \in Columns, DeleteBoardColumn(c)
        PROVE  FewerOnBoards
    BY <2>2, FewerColumns DEF DeleteBoardColumn
  <2>3. ASSUME NEW c \in Columns, NEW v \in Views, CreateBoardColumn(c, v)
        PROVE  FewerOnBoards
    <3> DEFINE row == [view |-> v]
    <3>1. /\ columns[c] = Absent /\ mapped' = mapped
          /\ columns' = [columns EXCEPT ![c] = row]
      BY <2>3 DEF CreateBoardColumn
    <3>2. Exists(row) /\ row # Absent
      BY DEF Exists, Gone, Absent
    <3> HIDE DEF row
    <3>3. /\ \A d \in Columns : columns'[d] = IF d = c THEN row ELSE columns[d]
          /\ mapped \subseteq Columns \X Statuses
      BY <3>1 DEF Inv, TypeOK
    <3>4. QED
      BY <3>1, <3>2, <3>3 DEF BoardsInv, ColumnsKnown, ColumnsStay, FewerOnBoards
  <2>4. ASSUME NEW c \in Columns, NEW s \in Statuses, RemoveStatusFromColumn(c, s)
        PROVE  FewerOnBoards
    <3>1. mapped' \subseteq mapped /\ columns' = columns
      BY <2>4 DEF RemoveStatusFromColumn
    <3>2. QED
      BY <3>1 DEF BoardsInv, ColumnsKnown, ColumnsStay, FewerOnBoards
  <2>5. ASSUME UNCHANGED <<columns, mapped>>
        PROVE  FewerOnBoards
    BY <2>5, SameBoards
  <2>6. QED
    BY <2>1, <2>2, <2>3, <2>4, <2>5
       DEF Single, CreateWorkflow, DeleteTransition, CreateView, DeleteTask, TransitionStatus
<1>3. QED
  BY <1>1, <1>2, QuietBoards

-----------------------------------------------------------------------------
(* A request looks at the boards.                                          *)

LEMMA StartBoards ==
  ASSUME Inv, BoardsInv, NEW e \in Requests, NEW edit \in Pending,
         pending' = [pending EXCEPT ![e] = edit], UNCHANGED <<rows, crossed>>,
         PutFits(edit),
         edit.op = "placed" => \A f \in Requests : pending[f].op # "placed"
  PROVE  BoardsInv'
<1>1. FewerOnBoards
  BY RowsUnchanged, SameBoards
<1>2. \A f \in Requests : pending'[f] = IF f = e THEN edit ELSE pending[f]
  BY DEF Inv, TypeOK
<1>3. OnePlacing'
  BY <1>2 DEF BoardsInv, OnePlacing
<1>4. ASSUME NEW f \in Requests
      PROVE  PutFits(pending[f])'
  <2>1. PICK p : p = pending'[f]
    OBVIOUS
  <2>2. PutFits(p) /\ p \in Pending
    BY <1>2, <2>1 DEF BoardsInv, Inv, TypeOK
  <2>3. PutFits(p)'
    BY <1>1, <2>2, PutFitsOn DEF BoardsInv
  <2>4. QED
    BY <2>1, <2>3, PutFitsLater
<1>5. MappedOnce' /\ ColumnsKnown'
  BY <1>1, MappedOnceOn DEF BoardsInv, FewerOnBoards
<1>6. QED
  BY <1>3, <1>4, <1>5 DEF BoardsInv

\* Edits of anything else.
LEMMA OtherEdit ==
  ASSUME Inv, BoardsInv, NEW e \in Requests, NEW edit \in Pending, Begin(e, edit),
         edit.op \notin {"map", "placed"}
  PROVE  BoardsInv'
<1>1. pending' = [pending EXCEPT ![e] = edit] /\ UNCHANGED <<rows, crossed>>
  BY DEF Begin
<1>2. QED
  BY <1>1, NothingToPut, StartBoards

LEMMA AddStatusBoards ==
  ASSUME Inv, BoardsInv, NEW e \in Requests, NEW s \in Statuses, NEW c \in Columns,
         AddStatusToColumn(e, c, s)
  PROVE  BoardsInv'
<1> DEFINE edit == [op |-> "map", column |-> c, status |-> s]
<1>1. edit \in Pending /\ edit.op = "map" /\ edit.column = c /\ edit.status = s
  BY DEF Pending
<1>2. /\ pending' = [pending EXCEPT ![e] = edit] /\ UNCHANGED <<rows, crossed>>
      /\ Exists(columns[c]) /\ ~OnView(s, columns[c].view)
  BY DEF AddStatusToColumn, Begin
<1> HIDE DEF edit
<1>3. ToPut(edit) = {<<c, s>>}
  BY <1>1 DEF ToPut
<1>4. PutFits(edit)
  BY <1>2, <1>3, RowKinds DEF PutFits
<1>5. QED
  BY <1>1, <1>2, <1>4, StartBoards

\* The places chosen for a process are on different boards or for different
\* statuses, none of which is on that board.
LEMMA PlaceTaskBoards ==
  ASSUME Inv, BoardsInv, NEW e \in Requests, PlaceTask(e)
  PROVE  BoardsInv'
<1>1. PICK w : w = pending[e].workflow
  OBVIOUS
<1>2. PICK places \in Placements(w) :
        pending' = [pending EXCEPT ![e] =
          [op |-> "placed", workflow |-> w, status |-> pending[e].status, places |-> places]]
  BY <1>1 DEF PlaceTask
<1>3. /\ pending[e].op = "task" /\ UNCHANGED <<rows, crossed>>
      /\ \A f \in Requests : pending[f].op # "placed"
  BY DEF PlaceTask
<1> DEFINE edit == [op |-> "placed", workflow |-> w, status |-> pending[e].status,
                    places |-> places]
<1>4. /\ edit \in Pending /\ edit.op = "placed" /\ edit.places = places
      /\ pending' = [pending EXCEPT ![e] = edit]
  <2>1. w \in Workflows /\ pending[e].status \in Statuses
    BY <1>1, <1>3, PendingKinds DEF Inv, TypeOK
  <2>2. places \in SUBSET (Columns \X Statuses)
    BY PlacementsType
  <2>3. QED
    BY <1>2, <2>1, <2>2 DEF Pending
<1> HIDE DEF edit
<1>5. ToPut(edit) = places
  BY <1>4 DEF ToPut
<1>6. CASE places = {}
  <2>1. PutFits(edit)
    BY <1>5, <1>6 DEF PutFits
  <2>2. QED
    BY <1>3, <1>4, <2>1, StartBoards
<1>7. ASSUME NEW column \in [NotOnBoards(w) -> Columns],
             \A m \in NotOnBoards(w) : column[m] \in ColumnsOf(m[2]),
             places = {<<column[m], m[1]>> : m \in NotOnBoards(w)}
      PROVE  BoardsInv'
  <2>1. \A m \in NotOnBoards(w) : /\ Exists(columns[column[m]])
                                  /\ columns[column[m]].view = m[2]
                                  /\ ~OnView(m[1], m[2])
                                  /\ m = <<m[1], m[2]>>
    BY <1>7 DEF NotOnBoards, ColumnsOf
  <2>2. \A k \in ToPut(edit) : \E m \in NotOnBoards(w) : k = <<column[m], m[1]>>
    BY <1>5, <1>7
  <2>3. \A k \in ToPut(edit) : columns[k[1]] # Absent /\ ~OnView(k[2], columns[k[1]].view)
    BY <2>1, <2>2, RowKinds
  <2>4. ASSUME NEW k \in ToPut(edit), NEW n \in ToPut(edit), k[2] = n[2],
               SameView(k[1], n[1])
        PROVE  k = n
    <3>1. PICK i \in NotOnBoards(w) : k = <<column[i], i[1]>>
      BY <2>2
    <3>2. PICK j \in NotOnBoards(w) : n = <<column[j], j[1]>>
      BY <2>2
    <3>3. i[1] = j[1] /\ i[2] = j[2]
      BY <2>1, <2>4, <3>1, <3>2 DEF SameView
    <3>4. i = j
      BY <2>1, <3>3
    <3>5. QED
      BY <3>1, <3>2, <3>4
  <2>5. PutFits(edit)
    BY <2>3, <2>4 DEF PutFits
  <2>6. QED
    BY <1>3, <1>4, <2>5, StartBoards
<1>8. QED
  BY <1>6, <1>7, PlacementsKinds

LEMMA ReadBoards ==
  ASSUME Inv, BoardsInv, NEW e \in Requests, Read(e)
  PROVE  BoardsInv'
<1>1. ASSUME NEW w \in Workflows, NEW b \in BOOLEAN, UpdateWorkflow(e, w, b)
      PROVE  BoardsInv'
  <2> DEFINE edit == [op |-> "workflow", id |-> w, is_default |-> b,
                      unset |-> IF b THEN DefaultWorkflows ELSE {}]
  <2>1. edit \in Pending /\ edit.op = "workflow"
    BY DEF Pending, DefaultWorkflows
  <2>2. Begin(e, edit)
    BY <1>1 DEF UpdateWorkflow
  <2> HIDE DEF edit
  <2>3. QED
    BY <2>1, <2>2, OtherEdit
<1>2. ASSUME NEW w \in Workflows, DeleteWorkflow(e, w)
      PROVE  BoardsInv'
  <2> DEFINE edit == [op |-> "delete workflow", id |-> w]
  <2>1. edit \in Pending /\ edit.op = "delete workflow"
    BY DEF Pending
  <2>2. Begin(e, edit)
    BY <1>2 DEF DeleteWorkflow
  <2> HIDE DEF edit
  <2>3. QED
    BY <2>1, <2>2, OtherEdit
<1>3. ASSUME NEW w \in Workflows, NEW c \in Categories, NEW b \in BOOLEAN,
             CreateStatus(e, w, c, b)
      PROVE  BoardsInv'
  <2> DEFINE edit == [op |-> "new status",
                      row |-> [workflow |-> w, category |-> c, is_default |-> b],
                      unset |-> DefaultsToUnset(w, b)]
  <2>1. edit \in Pending /\ edit.op = "new status"
    <3>1. DefaultsToUnset(w, b) \in SUBSET Statuses
      BY DEF DefaultsToUnset, DefaultsOf, StatusesOf
    <3>2. [workflow |-> w, category |-> c, is_default |-> b] \in Status
      BY DEF Status
    <3>3. QED
      BY <3>1, <3>2 DEF Pending
  <2>2. Begin(e, edit)
    BY <1>3 DEF CreateStatus
  <2> HIDE DEF edit
  <2>3. QED
    BY <2>1, <2>2, OtherEdit
<1>4. ASSUME NEW w \in Workflows, NEW from \in Statuses, NEW to \in Statuses,
             CreateTransition(e, w, from, to)
      PROVE  BoardsInv'
  <2> DEFINE row == [workflow |-> w, from |-> from, to |-> to]
             edit == [op |-> "transition", row |-> row]
  <2>1. edit \in Pending /\ edit.op = "transition"
    BY DEF Pending, Transition
  <2>2. Begin(e, edit)
    BY <1>4 DEF CreateTransition
  <2> HIDE DEF edit
  <2>3. QED
    BY <2>1, <2>2, OtherEdit
<1>5. ASSUME NEW w \in Workflows, NEW s \in Statuses, CreateTask(e, w, s)
      PROVE  BoardsInv'
  <2> DEFINE edit == [op |-> "task", workflow |-> w, status |-> s]
  <2>1. edit \in Pending /\ edit.op = "task"
    BY DEF Pending
  <2>2. pending' = [pending EXCEPT ![e] = edit] /\ UNCHANGED <<rows, crossed>>
    BY <1>5 DEF CreateTask
  <2> HIDE DEF edit
  <2>3. QED
    BY <2>1, <2>2, NothingToPut, StartBoards
<1>6. ASSUME NEW s \in Statuses, NEW c \in Categories \cup {None},
             NEW b \in BOOLEAN \cup {None}, UpdateStatus(e, s, c, b)
      PROVE  BoardsInv'
  <2> DEFINE row == statuses[s]
             category == IF c = row.category THEN None ELSE c
             unset == DefaultsToUnset(row.workflow, b = TRUE)
             edit == [op |-> "status", id |-> s, category |-> category,
                      is_default |-> WrittenDefault(row, c, b), unset |-> unset]
  <2>1. row \in Status
    BY <1>6, StatusKnown DEF UpdateStatus, EditableStatus
  <2>2. WrittenDefault(row, c, b) \in BOOLEAN \cup {None}
    BY <2>1, WrittenDefaultType
  <2>3. unset \in SUBSET Statuses
    BY DEF DefaultsToUnset, DefaultsOf, StatusesOf
  <2>4. category \in Categories \cup {None}
    OBVIOUS
  <2>5. Begin(e, edit)
    BY <1>6, Zenon DEF UpdateStatus
  <2> HIDE DEF unset, category
  <2>6. edit \in Pending /\ edit.op = "status"
    BY <2>2, <2>3, <2>4 DEF Pending
  <2> HIDE DEF edit
  <2>7. QED
    BY <2>5, <2>6, OtherEdit
<1>7. ASSUME NEW s \in Statuses, DeleteStatus(e, s)
      PROVE  BoardsInv'
  <2> DEFINE edit == [op |-> "delete status", id |-> s]
  <2>1. edit \in Pending /\ edit.op = "delete status"
    BY DEF Pending
  <2>2. Begin(e, edit)
    BY <1>7 DEF DeleteStatus
  <2> HIDE DEF edit
  <2>3. QED
    BY <2>1, <2>2, OtherEdit
<1>8. ASSUME NEW s \in Statuses, NEW z \in Statuses, MigrateStatus(e, s, z)
      PROVE  BoardsInv'
  <2> DEFINE edit == [op |-> "migrate", id |-> s, target |-> z]
  <2>1. edit \in Pending /\ edit.op = "migrate"
    BY DEF Pending
  <2>2. Begin(e, edit)
    BY <1>8 DEF MigrateStatus
  <2> HIDE DEF edit
  <2>3. QED
    BY <2>1, <2>2, OtherEdit
<1>9. QED
  BY <1>1, <1>2, <1>3, <1>4, <1>5, <1>6, <1>7, <1>8, AddStatusBoards DEF Read

LEMMA TypeStepBoards ==
  ASSUME Inv, BoardsInv, NEW y \in TaskTypes, TypeStep(y)
  PROVE  BoardsInv'
<1>1. ASSUME NEW e \in Requests, NEW w \in Workflows, SetTaskTypeWorkflow(e, y, w)
      PROVE  BoardsInv'
  <2>1. PICK existing \in BOOLEAN : existing = (configs[y] # None)
    BY Zenon
  <2> DEFINE edit == [op |-> "config", type |-> y, workflow |-> w, existing |-> existing]
  <2>2. edit \in Pending /\ edit.op = "config"
    BY DEF Pending
  <2>3. Begin(e, edit)
    BY <1>1, <2>1, Zenon DEF SetTaskTypeWorkflow
  <2> HIDE DEF edit
  <2>4. QED
    BY <2>2, <2>3, OtherEdit
<1>2. ASSUME ResetTaskTypeWorkflow(y)
      PROVE  BoardsInv'
  <2>1. UNCHANGED <<columns, mapped, pending, crossed>>
    BY <1>2 DEF ResetTaskTypeWorkflow, AtOnce
  <2>2. QED
    BY <2>1, SameBoards, QuietBoards DEF RequestsEnd
<1>3. QED
  BY <1>1, <1>2 DEF TypeStep

-----------------------------------------------------------------------------
(* A request commits.  What it puts on a board is not there yet, or has    *)
(* crossed; whoever has looked before and will put the same there crosses. *)

LEMMA PutsOf ==
  ASSUME NEW e, NEW m \in ToPut(pending[e])
  PROVE  m[2] \in Puts(e)
BY DEF ToPut, Puts

LEMMA PutBoards ==
  ASSUME Inv, BoardsInv, NEW e \in Requests,
         pending' = [pending EXCEPT ![e] = Idle], columns' = columns,
         mapped' = mapped \cup ToPut(pending[e]), crossed' = crossed \cup Crossing(e),
         \A m \in ToPut(pending[e]) : Exists(columns[m[1]])
  PROVE  BoardsInv'
<1>1. PICK P : P = ToPut(pending[e])
  OBVIOUS
<1>2. P \subseteq Columns \X Statuses /\ pending[e] \in Pending
  BY <1>1, ToPutKinds DEF Inv, TypeOK
<1>3. mapped' = mapped \cup P /\ \A m \in P : Exists(columns[m[1]])
  BY <1>1
<1>4. ColumnsKnown'
  BY <1>3 DEF BoardsInv, ColumnsKnown
<1>5. /\ \A m \in P : OnView(m[2], columns[m[1]].view) => m[2] \in crossed
      /\ \A m, n \in P : m[2] = n[2] /\ SameView(m[1], n[1]) => m = n
  BY <1>1, <1>3 DEF BoardsInv, PutFits
<1>6. ASSUME NEW m \in P, NEW k \in mapped, m[2] = k[2],
             columns[m[1]].view = columns[k[1]].view
      PROVE  m[2] \in crossed
  <2>1. k = <<k[1], m[2]>> /\ k[1] \in ColumnsOf(columns[m[1]].view)
    BY <1>6 DEF Inv, TypeOK, BoardsInv, ColumnsKnown, ColumnsOf
  <2>2. QED
    BY <1>5, <1>6, <2>1 DEF OnView
<1>7. MappedOnce'
  <2>1. ASSUME NEW m \in mapped', NEW n \in mapped', m[2] = n[2],
               columns[m[1]].view = columns[n[1]].view, m # n
        PROVE  m[2] \in crossed
    <3>1. CASE m \in mapped /\ n \in mapped
      BY <2>1, <3>1 DEF BoardsInv, MappedOnce
    <3>2. CASE m \in P /\ n \in P
      BY <1>3, <1>5, <2>1, <3>2 DEF SameView
    <3>3. CASE m \in P /\ n \in mapped
      BY <1>6, <2>1, <3>3
    <3>4. CASE m \in mapped /\ n \in P
      BY <1>6, <2>1, <3>4
    <3>5. QED
      BY <1>3, <3>1, <3>2, <3>3, <3>4
  <2>2. QED
    BY <2>1 DEF MappedOnce
<1>8. RequestsEnd /\ \A f \in Requests : f # e => pending'[f] = pending[f]
  BY EndEffect DEF Inv, TypeOK
<1>9. OnePlacing'
  BY <1>8, OnePlacingOn DEF BoardsInv
<1>10. ASSUME NEW f \in Requests \ {e}, NEW m \in ToPut(pending[f]), NEW k \in P, k[2] = m[2]
       PROVE  m[2] \in crossed'
  <2>1. m[2] \in Puts(e) \cap Puts(f)
    BY <1>1, <1>10, PutsOf
  <2>2. pending[e].op \in {"map", "placed"} /\ pending[f].op \in {"map", "placed"}
    BY <1>1, <1>10, ToPutKinds DEF Inv, TypeOK
  <2>3. "map" \in {pending[e].op, pending[f].op}
    BY <2>2 DEF BoardsInv, OnePlacing
  <2>4. QED
    BY <2>1, <2>3 DEF Crossing
<1>11. ASSUME NEW f \in Requests
       PROVE  PutFits(pending[f])'
  <2>1. CASE f = e
    <3>1. pending'[f] = Idle
      BY <2>1 DEF Inv, TypeOK
    <3>2. PutFits(Idle)'
      BY NothingToPut DEF Idle
    <3>3. QED
      BY <3>1, <3>2, PutFitsLater
  <2>2. CASE f # e
    <3>1. PICK p : p = pending[f]
      OBVIOUS
    <3>2. PutFits(p) /\ ToPut(p) \subseteq Columns \X Statuses
      BY <3>1, ToPutKinds DEF BoardsInv, Inv, TypeOK
    <3>3. ASSUME NEW m \in ToPut(p), Exists(columns[m[1]]),
                 NEW c \in Columns, Exists(columns[c]), <<c, m[2]>> \in mapped',
                 columns[c].view = columns[m[1]].view
          PROVE  m[2] \in crossed'
      <4>1. CASE <<c, m[2]>> \in mapped
        <5>1. OnView(m[2], columns[m[1]].view)
          BY <3>3, <4>1 DEF OnView, ColumnsOf
        <5>2. QED
          BY <3>2, <3>3, <5>1 DEF PutFits
      <4>2. CASE <<c, m[2]>> \in P
        <5>1. <<c, m[2]>>[2] = m[2]
          OBVIOUS
        <5>2. QED
          BY <1>10, <2>2, <3>1, <4>2, <5>1
      <4>3. QED
        BY <1>3, <3>3, <4>1, <4>2
    <3>4. PutFits(p)'
      BY <3>2, <3>3 DEF PutFits, OnView, ColumnsOf, SameView
    <3>5. QED
      BY <1>8, <2>2, <3>1, <3>4, PutFitsLater
  <2>3. QED
    BY <2>1, <2>2
<1>12. QED
  BY <1>4, <1>7, <1>9, <1>11 DEF BoardsInv

LEMMA CommitMapBoards ==
  ASSUME Inv, BoardsInv, NEW e \in Requests, CommitMap(e)
  PROVE  BoardsInv'
<1>1. PICK p : p = pending[e]
  OBVIOUS
<1>2. /\ p.op = "map" /\ pending' = [pending EXCEPT ![e] = Idle]
      /\ Exists(columns[p.column]) /\ columns' = columns
      /\ mapped' = mapped \cup {<<p.column, p.status>>}
      /\ crossed' = crossed \cup Crossing(e)
  BY <1>1 DEF CommitMap, Commit
<1>3. ToPut(p) = {<<p.column, p.status>>}
  BY <1>2 DEF ToPut
<1>4. \A m \in ToPut(p) : Exists(columns[m[1]])
  BY <1>2, <1>3
<1>5. mapped' = mapped \cup ToPut(p)
  BY <1>2, <1>3
<1>6. QED
  BY <1>1, <1>2, <1>4, <1>5, PutBoards

LEMMA CommitTaskBoards ==
  ASSUME Inv, BoardsInv, NEW e \in Requests, NEW t \in Tasks, CommitTask(e, t)
  PROVE  BoardsInv'
<1>1. PICK p : p = pending[e]
  OBVIOUS
<1>2. /\ p.op = "placed" /\ pending' = [pending EXCEPT ![e] = Idle]
      /\ \A m \in p.places : Exists(columns[m[1]])
      /\ columns' = columns
      /\ mapped' = mapped \cup p.places
      /\ crossed' = crossed \cup Crossing(e)
  BY <1>1 DEF CommitTask, Commit
<1>3. ToPut(p) = p.places
  BY <1>2 DEF ToPut
<1>4. QED
  BY <1>1, <1>2, <1>3, PutBoards

\* Commits that add nothing to a board.
LEMMA OtherCommit ==
  ASSUME Inv, BoardsInv, NEW e \in Requests, NEW op, Commit(e, op), FewerOnBoards
  PROVE  BoardsInv'
<1>1. pending' = [pending EXCEPT ![e] = Idle] /\ crossed \subseteq crossed'
  BY DEF Commit
<1>2. QED
  BY <1>1, EndEffect, QuietBoards

LEMMA WriteBoards ==
  ASSUME Inv, BoardsInv, NEW e \in Requests, Write(e)
  PROVE  BoardsInv'
<1>1. CASE CommitWorkflow(e)
  BY <1>1, SameBoards, OtherCommit DEF CommitWorkflow
<1>2. CASE CommitDeleteWorkflow(e)
  BY <1>2, FewerStatuses, OtherCommit DEF CommitDeleteWorkflow
<1>3. CASE CommitStatus(e)
  BY <1>3, SameBoards, OtherCommit DEF CommitStatus
<1>4. CASE CommitDeleteStatus(e)
  BY <1>4, FewerStatuses, OtherCommit DEF CommitDeleteStatus
<1>5. CASE CommitMigrate(e)
  <2>1. /\ Commit(e, "migrate") /\ columns' = columns
        /\ \E left : WithoutStatuses({pending[e].id}, left)
    BY <1>5 DEF CommitMigrate
  <2>2. QED
    BY <2>1, FewerStatuses, OtherCommit
<1>6. ASSUME NEW s \in Statuses, CommitNewStatus(e, s)
      PROVE  BoardsInv'
  BY <1>6, SameBoards, OtherCommit DEF CommitNewStatus
<1>7. ASSUME NEW t \in Transitions, CommitTransition(e, t)
      PROVE  BoardsInv'
  BY <1>7, SameBoards, OtherCommit DEF CommitTransition
<1>8. CASE CommitConfig(e)
  BY <1>8, SameBoards, OtherCommit DEF CommitConfig
<1>9. CASE Fail(e)
  <2>1. /\ pending' = [pending EXCEPT ![e] = Idle]
        /\ UNCHANGED <<columns, mapped, crossed>>
    BY <1>9 DEF Fail, rows
  <2>2. QED
    BY <2>1, EndEffect, SameBoards, QuietBoards
<1>10. QED
  BY <1>1, <1>2, <1>3, <1>4, <1>5, <1>6, <1>7, <1>8, <1>9, CommitMapBoards,
     PlaceTaskBoards, CommitTaskBoards DEF Write

LEMMA BoardsStep == Inv /\ BoardsInv /\ [Next]_vars => BoardsInv'
<1> SUFFICES ASSUME Inv, BoardsInv, [Next]_vars PROVE BoardsInv'
  OBVIOUS
<1>1. CASE UNCHANGED vars
  <2>1. UNCHANGED <<columns, mapped, pending, crossed>>
    BY <1>1 DEF vars, rows
  <2>2. QED
    BY <2>1, SameBoards, QuietBoards DEF RequestsEnd
<1>2. QED
  BY <1>1, SingleBoards, TypeStepBoards, ReadBoards, WriteBoards DEF Next

(* Whatever managers and creations of tasks do at the same time, a status  *)
(* lands in two columns of a board only when a manager has put it there    *)
(* between another's look and commit: the lock on the project lets one     *)
(* creation at a time look at the boards and put a process there.          *)
THEOREM StatusMappedOnce == Spec => []MappedOnce
<1>1. Init => Inv /\ BoardsInv
  BY InitInv, InitBoards
<1>2. Inv /\ BoardsInv /\ [Next]_vars => Inv' /\ BoardsInv'
  BY InvStep, BoardsStep
<1>3. BoardsInv => MappedOnce
  BY DEF BoardsInv
<1>4. QED
  BY <1>1, <1>2, <1>3, PTL DEF Spec
=============================================================================
