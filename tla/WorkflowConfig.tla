--------------------------- MODULE WorkflowConfig ---------------------------
(***************************************************************************)
(* The workflows and boards of one project while its tasks run on them     *)
(* (workflow_service, and task_service where it reads what managers edit). *)
(*                                                                         *)
(* No handler here locks what it reads: a manager's request reads rows,    *)
(* sends its first UPDATE, and writes the rest and commits later, on rows  *)
(* that others may have changed or deleted.  The first half is an action   *)
(* that leaves an edit in `pending`, the second applies it; a request that *)
(* reads nothing it depends on is one action.  Foreign keys guard the      *)
(* commit: whatever they refuse, and every failure, undoes the request.    *)
(* Ids are never used again: a deleted row is Gone.                        *)
(***************************************************************************)
EXTENDS Naturals, FiniteSets

CONSTANTS
  Workflows, Statuses, Transitions, TaskTypes, Views, Columns, Tasks,   \* ids
  None,
  Requests,            \* requests served at the same time
  SystemWorkflow,      \* the workflow of the process types, seeded at start
  ProcessTypes,
  ProjectWorkflow,     \* what create_project makes: the workflow Basic,
  Board, Backlog,      \* two views, Board the default one,
  InitialStatuses,     \* the rows of both workflows,
  InitialTransitions,
  InitialColumns,      \* and the columns laid out on Board since
  MaxEdits             \* a bound

Categories == {"initial", "intermediate", "final"}

Absent == [row |-> "absent"]
Gone == [row |-> "gone"]
Exists(row) == row \notin {Absent, Gone}

Workflow == [system : BOOLEAN, is_default : BOOLEAN]
Status == [workflow : Workflows, category : Categories, is_default : BOOLEAN]
Transition == [workflow : Workflows, from : Statuses, to : Statuses]
View == [is_default : BOOLEAN]
Column == [view : Views]
Task == [workflow : Workflows, status : Statuses, deleted : BOOLEAN]

Rows(R) == R \cup {Absent, Gone}

ASSUME WorkflowConfigAssumption ==
  /\ SystemWorkflow \in Workflows /\ ProjectWorkflow \in Workflows
  /\ ProcessTypes \subseteq TaskTypes
  /\ Board \in Views /\ Backlog \in Views \ {Board}
  /\ None \notin Workflows /\ None \notin Categories /\ None \notin BOOLEAN
  /\ MaxEdits \in Nat

\* The seeded processes, and what else create_project makes: a status starts
\* the tasks of its workflow only if it is the one default, an initial one.
SeededStatuses ==
  /\ InitialStatuses \in [Statuses -> Status \cup {Absent}]
  /\ \A s \in Statuses : InitialStatuses[s] # Absent =>
       /\ InitialStatuses[s].workflow \in {SystemWorkflow, ProjectWorkflow}
       /\ InitialStatuses[s].is_default => InitialStatuses[s].category = "initial"
  /\ \A s, z \in Statuses :
       /\ InitialStatuses[s] # Absent /\ InitialStatuses[s].is_default
       /\ InitialStatuses[z] # Absent /\ InitialStatuses[z].is_default
       /\ InitialStatuses[s].workflow = InitialStatuses[z].workflow
       => s = z

SeededTransitions ==
  /\ InitialTransitions \in [Transitions -> Transition \cup {Absent}]
  /\ \A t \in Transitions : InitialTransitions[t] # Absent =>
       \A s \in {InitialTransitions[t].from, InitialTransitions[t].to} :
         /\ InitialStatuses[s] # Absent
         /\ InitialStatuses[s].workflow = InitialTransitions[t].workflow

ASSUME InitialAssumption ==
  /\ SeededStatuses
  /\ SeededTransitions
  /\ InitialColumns \in [Columns -> Column \cup {Absent}]
  /\ \A c \in Columns : InitialColumns[c] # Absent => InitialColumns[c].view = Board

VARIABLES
  workflows, statuses, transitions,   \* rows by id
  configs,        \* project_task_type_configs: the workflow chosen for a type
  views, columns, \* rows by id
  mapped,         \* board_column_statuses
  tasks,
  pending,        \* what each request is about to write
  edits,          \* how many edits there were
  overlapped,     \* history: two managers have edited at the same time
  crossed         \* history: statuses that a manager and another request, another
                  \* manager's or a creation of a task, have put on boards at once

rows == <<workflows, statuses, transitions, configs, views, columns, mapped, tasks>>
vars == <<rows, pending, edits, overlapped, crossed>>

Idle == [op |-> "idle"]

\* `unset`: the default rows that the request's first UPDATE found.
Pending ==
  {Idle}
  \cup [op : {"workflow"}, id : Workflows, is_default : BOOLEAN, unset : SUBSET Workflows]
  \cup [op : {"delete workflow"}, id : Workflows]
  \cup [op : {"new status"}, row : Status, unset : SUBSET Statuses]
  \cup [op : {"status"}, id : Statuses, category : Categories \cup {None},
        is_default : BOOLEAN \cup {None}, unset : SUBSET Statuses]
  \cup [op : {"delete status"}, id : Statuses]
  \cup [op : {"migrate"}, id : Statuses, target : Statuses]
  \cup [op : {"transition"}, row : Transition]
  \cup [op : {"config"}, type : TaskTypes, workflow : Workflows, existing : BOOLEAN]
  \cup [op : {"map"}, column : Columns, status : Statuses]
  \cup [op : {"task"}, workflow : Workflows, status : Statuses]
  \cup [op : {"placed"}, workflow : Workflows, status : Statuses,
        places : SUBSET (Columns \X Statuses)]

TypeOK ==
  /\ workflows \in [Workflows -> Rows(Workflow)]
  /\ statuses \in [Statuses -> Rows(Status)]
  /\ transitions \in [Transitions -> Rows(Transition)]
  /\ configs \in [TaskTypes -> Workflows \cup {None}]
  /\ views \in [Views -> Rows(View)]
  /\ columns \in [Columns -> Rows(Column)]
  /\ mapped \in SUBSET (Columns \X Statuses)
  /\ tasks \in [Tasks -> Rows(Task)]
  /\ pending \in [Requests -> Pending]
  /\ edits \in 0 .. MaxEdits
  /\ overlapped \in BOOLEAN
  /\ crossed \in SUBSET Statuses

Init ==
  /\ workflows = [w \in Workflows |->
       CASE w = SystemWorkflow -> [system |-> TRUE, is_default |-> FALSE]
         [] w = ProjectWorkflow -> [system |-> FALSE, is_default |-> TRUE]
         [] OTHER -> Absent]
  /\ statuses = InitialStatuses
  /\ transitions = InitialTransitions
  /\ configs = [y \in TaskTypes |-> None]
  /\ views = [v \in Views |->
       IF v \in {Board, Backlog} THEN [is_default |-> v = Board] ELSE Absent]
  /\ columns = InitialColumns
  /\ mapped = {}
  /\ tasks = [t \in Tasks |-> Absent]
  /\ pending = [e \in Requests |-> Idle]
  /\ edits = 0
  /\ overlapped = FALSE
  /\ crossed = {}

-----------------------------------------------------------------------------
(* How a request goes.                                                     *)

Editing == {e \in Requests : pending[e].op \notin {"idle", "task", "placed"}}

\* A manager's request has read what it needs.
Begin(e, edit) ==
  /\ pending[e] = Idle
  /\ edits < MaxEdits
  /\ pending' = [pending EXCEPT ![e] = edit]
  /\ edits' = edits + 1
  /\ overlapped' = (overlapped \/ Editing # {})
  /\ UNCHANGED <<rows, crossed>>

\* The statuses that a request is about to put on boards, and those of them
\* that others put there as well, creations of tasks among themselves apart.
Puts(e) ==
  CASE pending[e].op = "map" -> {pending[e].status}
    [] pending[e].op = "placed" -> {m[2] : m \in pending[e].places}
    [] OTHER -> {}

Crossing(e) ==
  UNION {Puts(e) \cap Puts(f) :
           f \in {f \in Requests \ {e} : "map" \in {pending[e].op, pending[f].op}}}

\* The rest of it, up to the commit.
Commit(e, op) ==
  /\ pending[e].op = op
  /\ pending' = [pending EXCEPT ![e] = Idle]
  /\ crossed' = crossed \cup Crossing(e)
  /\ UNCHANGED <<edits, overlapped>>

\* A constraint refuses, the row is gone, the client or the server gives up.
Fail(e) ==
  /\ pending[e] # Idle
  /\ pending' = [pending EXCEPT ![e] = Idle]
  /\ UNCHANGED <<rows, edits, overlapped, crossed>>

\* A manager's request that depends on no row but the one it changes.
AtOnce ==
  /\ edits < MaxEdits
  /\ edits' = edits + 1
  /\ UNCHANGED <<pending, overlapped, crossed>>

\* require_manager refuses system workflows.
Editable(w) == Exists(workflows[w]) /\ ~workflows[w].system

-----------------------------------------------------------------------------
(* Workflows.                                                              *)

\* create_workflow leaves the other defaults alone.
CreateWorkflow(w, is_default) ==
  /\ AtOnce
  /\ workflows[w] = Absent
  /\ workflows' = [workflows EXCEPT ![w] = [system |-> FALSE, is_default |-> is_default]]
  /\ UNCHANGED <<statuses, transitions, configs, views, columns, mapped, tasks>>

DefaultWorkflows == {w \in Workflows : Editable(w) /\ workflows[w].is_default}

UpdateWorkflow(e, w, is_default) ==
  /\ Editable(w)
  /\ is_default \/ workflows[w].is_default
  /\ Begin(e, [op |-> "workflow", id |-> w, is_default |-> is_default,
               unset |-> IF is_default THEN DefaultWorkflows ELSE {}])

Unset(table, ids) ==
  [i \in DOMAIN table |->
     IF i \in ids /\ Exists(table[i]) THEN [table[i] EXCEPT !.is_default = FALSE]
     ELSE table[i]]

CommitWorkflow(e) ==
  LET p == pending[e]
  IN  /\ Commit(e, "workflow")
      /\ Exists(workflows[p.id])
      /\ workflows' = [Unset(workflows, p.unset) EXCEPT ![p.id].is_default = p.is_default]
      /\ UNCHANGED <<statuses, transitions, configs, views, columns, mapped, tasks>>

\* WORKFLOW_IS_DEFAULT, WORKFLOW_HAS_TASKS: deleted tasks count.
DeleteWorkflow(e, w) ==
  /\ Editable(w) /\ ~workflows[w].is_default
  /\ \A t \in Tasks : Exists(tasks[t]) => tasks[t].workflow # w
  /\ Begin(e, [op |-> "delete workflow", id |-> w])

StatusesOf(w) == {s \in Statuses : Exists(statuses[s]) /\ statuses[s].workflow = w}

\* The foreign keys cascade from statuses, and protect the tasks left and
\* the task that is inserted and not committed yet.
WithoutStatuses(gone, left) ==
  /\ \A t \in Tasks : Exists(left[t]) => left[t].status \notin gone
  /\ \A e \in Requests : pending[e].op = "placed" => pending[e].status \notin gone
  /\ statuses' = [s \in Statuses |-> IF s \in gone THEN Gone ELSE statuses[s]]
  /\ transitions' = [t \in Transitions |->
       IF Exists(transitions[t]) /\ {transitions[t].from, transitions[t].to} \cap gone # {}
       THEN Gone ELSE transitions[t]]
  /\ mapped' = {m \in mapped : m[2] \notin gone}

CommitDeleteWorkflow(e) ==
  LET w == pending[e].id
  IN  /\ Commit(e, "delete workflow")
      /\ Exists(workflows[w])
      /\ \A t \in Tasks : Exists(tasks[t]) => tasks[t].workflow # w
      /\ workflows' = [workflows EXCEPT ![w] = Gone]
      /\ WithoutStatuses(StatusesOf(w), tasks)
      /\ configs' = [y \in TaskTypes |-> IF configs[y] = w THEN None ELSE configs[y]]
      /\ UNCHANGED <<views, columns, tasks>>

-----------------------------------------------------------------------------
(* Statuses.                                                               *)

DefaultsOf(w) == {s \in StatusesOf(w) : statuses[s].is_default}

\* _unset_default_status
DefaultsToUnset(w, is_default) == IF is_default THEN DefaultsOf(w) ELSE {}

\* STATUS_DEFAULT_MUST_BE_INITIAL
CreateStatus(e, w, category, is_default) ==
  /\ Editable(w)
  /\ is_default => category = "initial"
  /\ Begin(e, [op |-> "new status",
               row |-> [workflow |-> w, category |-> category, is_default |-> is_default],
               unset |-> DefaultsToUnset(w, is_default)])

CommitNewStatus(e, s) ==
  LET p == pending[e]
  IN  /\ Commit(e, "new status")
      /\ statuses[s] = Absent
      /\ Exists(workflows[p.row.workflow])
      /\ statuses' = [Unset(statuses, p.unset) EXCEPT ![s] = p.row]
      /\ UNCHANGED <<workflows, transitions, configs, views, columns, mapped, tasks>>

\* Slip: a default status keeps being the default when its category changes.
KeptDefault(row, category, is_default) ==
  IF is_default = FALSE /\ ~row.is_default THEN None ELSE is_default

\* What update_status writes: a status that leaves "initial" is no default;
\* a column that keeps its value is not written.
WrittenDefault(row, category, is_default) ==
  CASE is_default = TRUE -> TRUE
    [] is_default = FALSE /\ row.is_default -> FALSE
    [] is_default = None /\ category \notin {None, "initial"} /\ row.is_default -> FALSE
    [] OTHER -> None

EditableStatus(s) == Exists(statuses[s]) /\ Editable(statuses[s].workflow)

\* `category` and `is_default` are None if the request leaves them alone.
UpdateStatus(e, s, category, is_default) ==
  LET row == statuses[s]
  IN  /\ EditableStatus(s)
      /\ is_default = TRUE =>
           "initial" = (IF category = None THEN row.category ELSE category)
      /\ Begin(e, [op |-> "status", id |-> s,
                   category |-> IF category = row.category THEN None ELSE category,
                   is_default |-> WrittenDefault(row, category, is_default),
                   unset |-> DefaultsToUnset(row.workflow, is_default = TRUE)])

CommitStatus(e) ==
  LET p == pending[e]
      Written(old, new) == IF new = None THEN old ELSE new
  IN  /\ Commit(e, "status")
      /\ Exists(statuses[p.id])
      /\ statuses' = [Unset(statuses, p.unset) EXCEPT
           ![p.id].category = Written(@, p.category),
           ![p.id].is_default = Written(@, p.is_default)]
      /\ UNCHANGED <<workflows, transitions, configs, views, columns, mapped, tasks>>

Live(t) == Exists(tasks[t]) /\ ~tasks[t].deleted

\* STATUS_HAS_ACTIVE_TASKS: deleted tasks do not count.
DeleteStatus(e, s) ==
  /\ EditableStatus(s)
  /\ \A t \in Tasks : Live(t) => tasks[t].status # s
  /\ Begin(e, [op |-> "delete status", id |-> s])

CommitDeleteStatus(e) ==
  /\ Commit(e, "delete status")
  /\ Exists(statuses[pending[e].id])
  /\ WithoutStatuses({pending[e].id}, tasks)
  /\ UNCHANGED <<workflows, configs, views, columns, tasks>>

\* Slip: the target may be a status of any workflow.
AnyTarget(s) == {z \in Statuses : Exists(statuses[z])}

\* STATUS_WORKFLOW_MISMATCH
MigrationTargets(s) == StatusesOf(statuses[s].workflow)

MigrateStatus(e, s, target) ==
  /\ EditableStatus(s)
  /\ target \in MigrationTargets(s)
  /\ Begin(e, [op |-> "migrate", id |-> s, target |-> target])

\* Only live tasks move; a deleted one keeps the status from being deleted.
CommitMigrate(e) ==
  LET p == pending[e]
      moved == [t \in Tasks |->
                  IF Live(t) /\ tasks[t].status = p.id
                  THEN [tasks[t] EXCEPT !.status = p.target] ELSE tasks[t]]
  IN  /\ Commit(e, "migrate")
      /\ Exists(statuses[p.id]) /\ Exists(statuses[p.target])
      /\ tasks' = moved
      /\ WithoutStatuses({p.id}, moved)
      /\ UNCHANGED <<workflows, configs, views, columns>>

-----------------------------------------------------------------------------
(* Transitions.                                                            *)

\* STATUS_NOT_IN_WORKFLOW
CreateTransition(e, w, from, to) ==
  /\ Editable(w)
  /\ \A s \in {from, to} : Exists(statuses[s]) /\ statuses[s].workflow = w
  /\ Begin(e, [op |-> "transition", row |-> [workflow |-> w, from |-> from, to |-> to]])

CommitTransition(e, t) ==
  LET row == pending[e].row
  IN  /\ Commit(e, "transition")
      /\ transitions[t] = Absent
      /\ Exists(workflows[row.workflow])
      /\ Exists(statuses[row.from]) /\ Exists(statuses[row.to])
      /\ transitions' = [transitions EXCEPT ![t] = row]
      /\ UNCHANGED <<workflows, statuses, configs, views, columns, mapped, tasks>>

DeleteTransition(t) ==
  /\ AtOnce
  /\ Exists(transitions[t]) /\ Editable(transitions[t].workflow)
  /\ transitions' = [transitions EXCEPT ![t] = Gone]
  /\ UNCHANGED <<workflows, statuses, configs, views, columns, mapped, tasks>>

-----------------------------------------------------------------------------
(* The workflow of a task type.                                            *)

SetTaskTypeWorkflow(e, y, w) ==
  /\ Exists(workflows[w])
  /\ Begin(e, [op |-> "config", type |-> y, workflow |-> w, existing |-> configs[y] # None])

\* One row for each type: the second of two first choices is refused.
CommitConfig(e) ==
  LET p == pending[e]
  IN  /\ Commit(e, "config")
      /\ p.existing <=> configs[p.type] # None
      /\ Exists(workflows[p.workflow])
      /\ configs' = [configs EXCEPT ![p.type] = p.workflow]
      /\ UNCHANGED <<workflows, statuses, transitions, views, columns, mapped, tasks>>

ResetTaskTypeWorkflow(y) ==
  /\ AtOnce
  /\ configs[y] # None
  /\ configs' = [configs EXCEPT ![y] = None]
  /\ UNCHANGED <<workflows, statuses, transitions, views, columns, mapped, tasks>>

\* get_workflow_for_task_type: any default will do; none is NO_DEFAULT_WORKFLOW.
WorkflowsForTaskType(y) ==
  IF configs[y] # None THEN {configs[y]}
  ELSE IF y \in ProcessTypes THEN {SystemWorkflow}
  ELSE DefaultWorkflows

-----------------------------------------------------------------------------
(* Views and boards; every view here is a kanban view.                     *)

CreateView(v) ==
  /\ AtOnce
  /\ views[v] = Absent
  /\ views' = [views EXCEPT ![v] = [is_default |-> FALSE]]
  /\ UNCHANGED <<workflows, statuses, transitions, configs, columns, mapped, tasks>>

ColumnsOf(v) == {c \in Columns : Exists(columns[c]) /\ columns[c].view = v}

WithoutColumns(gone) ==
  /\ columns' = [c \in Columns |-> IF c \in gone THEN Gone ELSE columns[c]]
  /\ mapped' = {m \in mapped : m[1] \notin gone}

\* VIEW_IS_DEFAULT
DeleteView(v) ==
  /\ AtOnce
  /\ Exists(views[v]) /\ ~views[v].is_default
  /\ views' = [views EXCEPT ![v] = Gone]
  /\ WithoutColumns(ColumnsOf(v))
  /\ UNCHANGED <<workflows, statuses, transitions, configs, tasks>>

CreateBoardColumn(c, v) ==
  /\ AtOnce
  /\ columns[c] = Absent /\ Exists(views[v])
  /\ columns' = [columns EXCEPT ![c] = [view |-> v]]
  /\ UNCHANGED <<workflows, statuses, transitions, configs, views, mapped, tasks>>

DeleteBoardColumn(c) ==
  /\ AtOnce
  /\ Exists(columns[c])
  /\ WithoutColumns({c})
  /\ UNCHANGED <<workflows, statuses, transitions, configs, views, tasks>>

OnView(s, v) == \E c \in ColumnsOf(v) : <<c, s>> \in mapped

\* STATUS_ALREADY_MAPPED
AddStatusToColumn(e, c, s) ==
  /\ Exists(columns[c])
  /\ ~OnView(s, columns[c].view)
  /\ Begin(e, [op |-> "map", column |-> c, status |-> s])

CommitMap(e) ==
  LET p == pending[e]
  IN  /\ Commit(e, "map")
      /\ Exists(columns[p.column]) /\ Exists(statuses[p.status])
      /\ <<p.column, p.status>> \notin mapped
      /\ mapped' = mapped \cup {<<p.column, p.status>>}
      /\ UNCHANGED <<workflows, statuses, transitions, configs, views, columns, tasks>>

RemoveStatusFromColumn(c, s) ==
  /\ AtOnce
  /\ <<c, s>> \in mapped
  /\ mapped' = mapped \ {<<c, s>>}
  /\ UNCHANGED <<workflows, statuses, transitions, configs, views, columns, tasks>>

-----------------------------------------------------------------------------
(* Tasks.                                                                  *)

\* Slip: every status of the process is put on the board again.
PutAgain(w) ==
  {m \in StatusesOf(w) \X Views : ColumnsOf(m[2]) # {}}

\* A status that a manager has put on a board stays where it is.
NotOnBoards(w) ==
  {m \in StatusesOf(w) \X Views : ColumnsOf(m[2]) # {} /\ ~OnView(m[1], m[2])}

\* map_workflow_to_boards; which column the category selects is left open.
Placements(w) ==
  IF workflows[w].system
  THEN {{<<column[m], m[1]>> : m \in NotOnBoards(w)} :
          column \in {f \in [NotOnBoards(w) -> Columns] :
                        \A m \in NotOnBoards(w) : f[m] \in ColumnsOf(m[2])}}
  ELSE {{}}

\* create_task, up to the lock on the project: the workflow is given, or
\* follows from the type; WORKFLOW_NO_DEFAULT_STATUS.
CreateTask(e, w, s) ==
  /\ pending[e] = Idle
  /\ Exists(workflows[w]) \/ \E y \in TaskTypes : w \in WorkflowsForTaskType(y)
  /\ s \in DefaultsOf(w)
  /\ pending' = [pending EXCEPT ![e] = [op |-> "task", workflow |-> w, status |-> s]]
  /\ UNCHANGED <<rows, edits, overlapped, crossed>>

\* The project is locked until the commit, the task inserted, which keeps its
\* status and workflow from being deleted, and the boards are looked at.
PlaceTask(e) ==
  LET p == pending[e]
  IN  /\ p.op = "task"
      /\ \A f \in Requests : pending[f].op # "placed"
      /\ Exists(workflows[p.workflow]) /\ Exists(statuses[p.status])
      /\ \E places \in Placements(p.workflow) :
           pending' = [pending EXCEPT ![e] =
             [op |-> "placed", workflow |-> p.workflow, status |-> p.status,
              places |-> places]]
      /\ UNCHANGED <<rows, edits, overlapped, crossed>>

\* The columns may have gone, a manager may have put a status there himself.
CommitTask(e, t) ==
  LET p == pending[e]
  IN  /\ Commit(e, "placed")
      /\ tasks[t] = Absent
      /\ Exists(workflows[p.workflow]) /\ Exists(statuses[p.status])
      /\ \A m \in p.places : Exists(columns[m[1]]) /\ Exists(statuses[m[2]])
      /\ p.places \cap mapped = {}
      /\ tasks' = [tasks EXCEPT ![t] =
           [workflow |-> p.workflow, status |-> p.status, deleted |-> FALSE]]
      /\ mapped' = mapped \cup p.places
      /\ UNCHANGED <<workflows, statuses, transitions, configs, views, columns>>

\* transition_status: the task's row is locked before its status is read.
TransitionStatus(t, to) ==
  /\ Live(t)
  /\ \E r \in Transitions :
       transitions[r] = [workflow |-> tasks[t].workflow, from |-> tasks[t].status, to |-> to]
  /\ tasks' = [tasks EXCEPT ![t].status = to]
  /\ UNCHANGED <<workflows, statuses, transitions, configs, views, columns, mapped,
                 pending, edits, overlapped, crossed>>

DeleteTask(t) ==
  /\ Live(t)
  /\ tasks' = [tasks EXCEPT ![t].deleted = TRUE]
  /\ UNCHANGED <<workflows, statuses, transitions, configs, views, columns, mapped,
                 pending, edits, overlapped, crossed>>

-----------------------------------------------------------------------------
Read(e) ==
  \/ \E w \in Workflows :
       \/ \E b \in BOOLEAN : UpdateWorkflow(e, w, b)
       \/ DeleteWorkflow(e, w)
       \/ \E c \in Categories, b \in BOOLEAN : CreateStatus(e, w, c, b)
       \/ \E from, to \in Statuses : CreateTransition(e, w, from, to)
       \/ \E s \in Statuses : CreateTask(e, w, s)
  \/ \E s \in Statuses :
       \/ \E c \in Categories \cup {None}, b \in BOOLEAN \cup {None} : UpdateStatus(e, s, c, b)
       \/ DeleteStatus(e, s)
       \/ \E z \in Statuses : MigrateStatus(e, s, z)
       \/ \E c \in Columns : AddStatusToColumn(e, c, s)

Write(e) ==
  \/ CommitWorkflow(e) \/ CommitDeleteWorkflow(e)
  \/ CommitStatus(e) \/ CommitDeleteStatus(e) \/ CommitMigrate(e)
  \/ \E s \in Statuses : CommitNewStatus(e, s)
  \/ \E t \in Transitions : CommitTransition(e, t)
  \/ CommitConfig(e) \/ CommitMap(e)
  \/ PlaceTask(e) \/ \E t \in Tasks : CommitTask(e, t)
  \/ Fail(e)

TypeStep(y) ==
  \/ \E e \in Requests, w \in Workflows : SetTaskTypeWorkflow(e, y, w)
  \/ ResetTaskTypeWorkflow(y)

Single ==
  \/ \E w \in Workflows, b \in BOOLEAN : CreateWorkflow(w, b)
  \/ \E t \in Transitions : DeleteTransition(t)
  \/ \E v \in Views : CreateView(v) \/ DeleteView(v)
  \/ \E c \in Columns :
       \/ \E v \in Views : CreateBoardColumn(c, v)
       \/ DeleteBoardColumn(c)
       \/ \E s \in Statuses : RemoveStatusFromColumn(c, s)
  \/ \E t \in Tasks : DeleteTask(t) \/ \E s \in Statuses : TransitionStatus(t, s)

Next ==
  \/ Single
  \/ \E y \in TaskTypes : TypeStep(y)
  \/ \E e \in Requests : Read(e) \/ Write(e)

Spec == Init /\ [][Next]_vars

-----------------------------------------------------------------------------
(* Properties.                                                             *)

(* Whatever managers delete or migrate while tasks are created and moved,  *)
(* a task, deleted or not, stays in an existing status of its own, existing *)
(* workflow; a transition joins existing statuses of one workflow; and the *)
(* choice for a task type names an existing workflow.                      *)
NothingDangles ==
  /\ \A t \in Tasks : Exists(tasks[t]) =>
       /\ Exists(workflows[tasks[t].workflow])
       /\ Exists(statuses[tasks[t].status])
       /\ statuses[tasks[t].status].workflow = tasks[t].workflow
  /\ \A r \in Transitions : Exists(transitions[r]) =>
       \A s \in {transitions[r].from, transitions[r].to} :
         Exists(statuses[s]) /\ statuses[s].workflow = transitions[r].workflow
  /\ \A y \in TaskTypes : configs[y] # None => Exists(workflows[configs[y]])

(* As long as managers have edited one after another, and however many     *)
(* tasks were created meanwhile, a workflow has at most one default status, *)
(* and that one is an initial status: where a new task starts.             *)
DefaultIsOneInitial ==
  ~overlapped =>
    \A s \in Statuses : Exists(statuses[s]) /\ statuses[s].is_default =>
      /\ statuses[s].category = "initial"
      /\ DefaultsOf(statuses[s].workflow) = {s}

(* A status is in one column of a board at most, however many first tasks  *)
(* of a process put it on the board and whatever managers do, unless a      *)
(* manager put it there between the look at the boards and the commit of   *)
(* another request, a manager's or a creation, that put it there as well.  *)
MappedOnce ==
  \A m, n \in mapped :
    /\ m[2] = n[2] /\ columns[m[1]].view = columns[n[1]].view
    /\ m # n
    => m[2] \in crossed
=============================================================================
