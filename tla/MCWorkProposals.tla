-------------------------- MODULE MCWorkProposals ---------------------------
(* Two scopes of one requirement, two revisions of it, a task they may be  *)
(* linked to, two decisions at a time, two changes of tasks by others.     *)
EXTENDS WorkProposals, TLC

CONSTANTS scope1, scope2, req, r1, r2, w1, w2

MCKeys == {scope1, scope2}
MCObjects == {req}
MCBasisObject == [k \in MCKeys |-> req]
MCRevisions == {r1, r2}
MCRequests == {w1, w2}

Symmetry == Permutations(MCKeys) \cup Permutations(MCRevisions) \cup Permutations(MCRequests)
=============================================================================
