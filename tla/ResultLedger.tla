---------------------------- MODULE ResultLedger ----------------------------
(***************************************************************************)
(* What the result service promises to the rest of the system, without     *)
(* users, permissions, locks or versions: a task owns a ledger of proposal *)
(* versions.  An entry starts as submitted, is settled at most once, and   *)
(* may be replaced by a later entry only until it is settled for good.     *)
(* The task's outcome always is the one the ledger stands for.             *)
(*                                                                         *)
(* ResultReview implements this specification.                             *)
(***************************************************************************)
EXTENDS ResultStates

VARIABLES
  ledger,    \* the status of every proposal version of the task, in order
  outcome    \* Task.result_state

vars == <<ledger, outcome>>

TypeOK ==
  /\ ledger \in Seq(ProposalStatus)
  /\ outcome \in ResultStateSet

Init ==
  /\ ledger \in Seq({"historical"})
  /\ outcome = ResultOf(StatusesOf(ledger))

\* A new version is presented; it may replace one that is still open.
Present ==
  /\ \/ ledger' = Append(ledger, "submitted")
     \/ \E i \in DOMAIN ledger :
          /\ ledger[i] \in Supersedable
          /\ ledger' = Append([ledger EXCEPT ![i] = "superseded"], "submitted")
  /\ outcome' = ResultOf(StatusesOf(ledger'))

\* The author takes a version back, or a reviewer gives its verdict.
Settle ==
  /\ \E i \in DOMAIN ledger, s \in Verdicts \cup {"withdrawn"} :
       /\ ledger[i] = "submitted"
       /\ ledger' = [ledger EXCEPT ![i] = s]
  /\ outcome' = ResultOf(StatusesOf(ledger'))

Next == Present \/ Settle

Spec == Init /\ [][Next]_vars

-----------------------------------------------------------------------------
(* The task's stored outcome never disagrees with its proposals            *)
(* (result_service._recompute_state runs in every handler that writes one).*)
OutcomeMatchesLedger == outcome = ResultOf(StatusesOf(ledger))

(* Acceptance is for good: no later proposal, withdrawal or verdict takes  *)
(* an accepted result back, so a delivery may rely on it.                  *)
AcceptedForGood == [][outcome = "accepted" => outcome' = "accepted"]_vars
=============================================================================
