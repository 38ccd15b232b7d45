---------------------------- MODULE MCExecution -----------------------------
(* A requirement and the grant for the work, two revisions of each, a      *)
(* manager, who may also check the work, an executor, and two requests at  *)
(* a time.                                                                 *)
EXTENDS Execution, TLC

CONSTANTS req, grant, r1, r2, ann, bob, w1, w2

Needs(object, role, revision, freshness) ==
  [object |-> object, role |-> role, revision |-> revision, freshness |-> freshness]

MCInitialBases ==
  << Needs(req, "input", r1, "pinned"), Needs(grant, "grant", r1, "pinned") >>

MCInitialLinks == {[on |-> TRUE, regulation |-> {}]}

\* The requirement may not have a current revision yet.
MCInitialObjects ==
  {[o \in Objects |-> IF o = req /\ ~known THEN [current |-> None, state |-> "unknown"]
                     ELSE [current |-> r1, state |-> "current"]] : known \in BOOLEAN}

MCOffers == {Needs(req, "normative", r1, "confirm_current")}

MCArrivals == {req} \X {r1, r2}

MCRegulations == {{<<req, r1>>}}

MCRequests == {w1, w2}

\* Everything is accepted, or nothing but the first revisions.
MCFactSets == {{req, grant} \X {r1, r2}, {<<req, r1>>, <<grant, r1>>}}

Symmetry == Permutations(MCRequests)
=============================================================================
