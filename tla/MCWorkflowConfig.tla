-------------------------- MODULE MCWorkflowConfig --------------------------
(* One project as it is created, with a process beside its workflow Basic, *)
(* room for another workflow, view and column, two requests at a time.     *)
EXTENDS WorkflowConfig, TLC

CONSTANTS basic, process, extra, todo, done, running, fresh, forward, back,
          execution, board, backlog, second, left, right, t1, t2, e1, e2

MCWorkflows == {basic, process, extra}
MCStatuses == {todo, done, running, fresh}
MCTransitions == {forward, back}
MCTaskTypes == {execution}
MCViews == {board, backlog, second}
MCColumns == {left, right}
MCTasks == {t1, t2}
MCRequests == {e1, e2}
MCProcessTypes == {execution}

MCInitialStatuses == [s \in MCStatuses |->
  CASE s = todo -> [workflow |-> basic, category |-> "initial", is_default |-> TRUE]
    [] s = done -> [workflow |-> basic, category |-> "final", is_default |-> FALSE]
    [] s = running -> [workflow |-> process, category |-> "initial", is_default |-> TRUE]
    [] OTHER -> Absent]

MCInitialTransitions == [t \in MCTransitions |->
  IF t = forward THEN [workflow |-> basic, from |-> todo, to |-> done] ELSE Absent]

MCInitialColumns == [c \in MCColumns |-> IF c = left THEN [view |-> board] ELSE Absent]

Symmetry == Permutations(MCTasks) \cup Permutations(MCRequests)
=============================================================================
