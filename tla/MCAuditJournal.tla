--------------------------- MODULE MCAuditJournal ---------------------------
(* Two writers whose transactions overlap in every order, and pages that   *)
(* hold fewer events than the journal.                                     *)
EXTENDS AuditJournal

CONSTANTS alice, bob

MCWriters == {alice, bob}
=============================================================================
