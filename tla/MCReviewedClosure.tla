------------------------- MODULE MCReviewedClosure --------------------------
(* The people and the workflow of MCResultReview, with the editor.         *)
EXTENDS ReviewedClosure

CONSTANTS ann, bob, cat

MCUsers == {ann, bob, cat}

MCInitialMembers ==
  [u \in MCUsers |-> [role |-> IF u = ann THEN "manager" ELSE "member",
                      is_reviewer |-> u = cat]]

MCTransitions ==
  { <<"initial", "intermediate", "member">>, <<"intermediate", "final", "member">> }
=============================================================================
