--------------------------- MODULE ExecutionHold ----------------------------
(***************************************************************************)
(* What TT-12 promises of the executor's sessions of one task, however     *)
(* requests overlap: the task is held by one session at a time, a hold is  *)
(* taken anew and let go once, and the session that let go never holds the *)
(* task again.                                                             *)
(***************************************************************************)
VARIABLES
  holders,   \* the sessions that hold the task
  used       \* the sessions that ever did

Init == holders = {} /\ used = {}

Take ==
  /\ holders = {}
  /\ \E n \in used' \ used :
       /\ holders' = {n}
       /\ used' = used \cup {n}

LetGo ==
  /\ holders # {}
  /\ holders' = {}
  /\ UNCHANGED used

Next == Take \/ LetGo

Spec == Init /\ [][Next]_<<holders, used>>
=============================================================================
