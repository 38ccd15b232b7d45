-------------------------- MODULE MCDeliveries ------------------------------
(* A manager, a reviewer and a third person whose membership and reviewer  *)
(* profile come and go; any of them may be the assignee.                   *)
EXTENDS Deliveries

CONSTANTS ann, bob, cat

MCUsers == {ann, bob, cat}

MCInitialMembers ==
  [u \in MCUsers |-> [role |-> IF u = ann THEN "manager" ELSE "member",
                      is_reviewer |-> u = cat]]

\* The reviewer profile granted, withdrawn, and kept by a mere viewer.
MCMemberships ==
  { [role |-> "member", is_reviewer |-> TRUE],
    [role |-> "member", is_reviewer |-> FALSE],
    [role |-> "viewer", is_reviewer |-> TRUE] }

\* Writers finish the task, managers reopen it.
MCTransitions ==
  { <<"initial", "final", "member">>, <<"intermediate", "final", "member">>,
    <<"final", "intermediate", "manager">> }
=============================================================================
