-------------------------- MODULE MCExternalRegistry -------------------------
(* Two requests at a time, three revisions in a chain and the messages of  *)
(* two events: each repeated, the second also with other content.          *)
EXTENDS ExternalRegistry, TLC

CONSTANTS r1, r2, r3, d1, d2, e1, e2, w1, w2

Sent(event, revision, digest, supersedes, time, confirmed, revoked) ==
  [event |-> event, revision |-> revision, digest |-> digest, supersedes |-> supersedes,
   time |-> time, confirmed |-> confirmed, revoked |-> revoked]

MCMessages ==
  {Sent(e1, r2, d1, r1, 2, FALSE, FALSE),      \* a fact
   Sent(e2, r3, d2, r2, 2, FALSE, TRUE),       \* its successor, a revocation
   Sent(e2, r3, d1, r2, 2, TRUE, FALSE),       \* another message under its id
   Sent(None, r1, None, None, 3, TRUE, FALSE), \* an old snapshot
   Sent(None, r2, d1, None, 4, TRUE, FALSE)}   \* a new one

MCImporters == {w1, w2}
Symmetry == Permutations(MCImporters)
=============================================================================
