SPECIFICATION Spec
CONSTANTS
  basic = basic
  process = process
  extra = extra
  todo = todo
  done = done
  running = running
  fresh = fresh
  forward = forward
  back = back
  execution = execution
  board = board
  backlog = backlog
  second = second
  left = left
  right = right
  t1 = t1
  t2 = t2
  e1 = e1
  e2 = e2
  None = None
  Workflows <- MCWorkflows
  Statuses <- MCStatuses
  Transitions <- MCTransitions
  TaskTypes <- MCTaskTypes
  Views <- MCViews
  Columns <- MCColumns
  Tasks <- MCTasks
  Requests <- MCRequests
  ProcessTypes <- MCProcessTypes
  InitialStatuses <- MCInitialStatuses
  InitialTransitions <- MCInitialTransitions
  InitialColumns <- MCInitialColumns
  SystemWorkflow = process
  ProjectWorkflow = basic
  Board = board
  Backlog = backlog
  MaxEdits = 2
SYMMETRY Symmetry
INVARIANTS
  NothingDangles
  DefaultIsOneInitial
  MappedOnce
