-------------------------- MODULE ReviewedClosure ---------------------------
(***************************************************************************)
(* ResultReview together with the workflow editor (workflow_service).  A   *)
(* manager of the project may delete a status and have its tasks moved     *)
(* (migrate_status), or give a status another category (update_status).    *)
(* Both change what status the task is in; neither takes the task's lock,  *)
(* asks for a verdict or advances the task's version.                      *)
(*                                                                         *)
(* The editor refuses the shared system workflows: the task runs on a      *)
(* workflow of its project, which a type with requires_review does when    *)
(* ProjectTaskTypeConfig or the creator of the task says so.               *)
(***************************************************************************)
EXTENDS ResultReview

\* migrate_status is one UPDATE of the live tasks in the status.
MigrateStatus(manager, to) ==
  /\ IsManager(members[manager])
  /\ to # current_status
  /\ ~deleted
  /\ current_status' = to
  /\ UNCHANGED <<members, assignee_id, reviewer_id, deleted, result_state,
                 version, packages, proposals, reviews>>

\* update_status with a category: a task in the status, deleted or not,
\* is in that category from then on.
ReclassifyStatus(manager, category) ==
  /\ IsManager(members[manager])
  /\ current_status' = category
  /\ UNCHANGED <<members, assignee_id, reviewer_id, deleted, result_state,
                 version, packages, proposals, reviews>>

EditorStep ==
  \E manager \in Users, category \in Categories :
    \/ MigrateStatus(manager, category)
    \/ ReclassifyStatus(manager, category)

ClosureSpec == Init /\ [][Next \/ EditorStep]_vars
=============================================================================
