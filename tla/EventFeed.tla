----------------------------- MODULE EventFeed ------------------------------
(***************************************************************************)
(* What ADR-018 promises a consumer of the journal, without transactions,  *)
(* pages or cursors: the events shown form a log that grows at its end     *)
(* only, and the consumer is given ever longer beginnings of it.           *)
(*                                                                         *)
(* AuditJournal implements this specification.                             *)
(***************************************************************************)
CONSTANT Before(_, _)   \* the order of the log

VARIABLES
  log,     \* the events the journal shows
  given    \* those of them the consumer has

Init == log = {} /\ given = {}

\* Every element of `first` comes before every one of `later`.
InOrder(first, later) == \A e \in first, f \in later : Before(e, f)

Publish ==
  /\ log \subseteq log'
  /\ InOrder(log, log' \ log)
  /\ UNCHANGED given

Give ==
  /\ given \subseteq given' /\ given' # given
  /\ given' \subseteq log /\ InOrder(given', log \ given')
  /\ UNCHANGED log

Next == Publish \/ Give

Spec == Init /\ [][Next]_<<log, given>>
=============================================================================
