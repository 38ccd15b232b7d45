---------------------------- MODULE ResultStates ----------------------------
(***************************************************************************)
(* The vocabulary of ADR-021 shared by the modules about results: what a   *)
(* result proposal's status may be, which verdicts a review gives, and how *)
(* Task.result_state is derived from the statuses of a task's proposals.   *)
(***************************************************************************)
EXTENDS Naturals, Sequences

Verdicts == {"accepted", "changes_requested", "rejected"}

ProposalStatus ==
  Verdicts \cup {"submitted", "withdrawn", "superseded", "historical"}

\* Statuses in which a proposal may still be replaced by a newer version.
Supersedable == {"submitted", "changes_requested"}

ResultStateSet ==
  {"accepted", "proposed", "changes_requested", "rejected", "historical", "none"}

\* Verdicts after which the work on a task is finished.
ReviewedStates == {"accepted", "rejected"}

\* The candidates of _recompute_state, strongest first.
ResultOf(statuses) ==
  IF "accepted" \in statuses THEN "accepted"
  ELSE IF "submitted" \in statuses THEN "proposed"
  ELSE IF "changes_requested" \in statuses THEN "changes_requested"
  ELSE IF "rejected" \in statuses THEN "rejected"
  ELSE IF "historical" \in statuses THEN "historical"
  ELSE "none"

StatusesOf(seq) == {seq[i] : i \in DOMAIN seq}
=============================================================================
