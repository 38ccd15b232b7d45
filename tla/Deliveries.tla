----------------------------- MODULE Deliveries ------------------------------
(***************************************************************************)
(* ResultReview together with what follows an accepted result (TT-17,      *)
(* TT-21): the assignee or a manager proposes its delivery, a manager      *)
(* records the recipient's acceptance of one exact delivery, or withdraws  *)
(* an acceptance.  The task carries a summary of the current delivery.     *)
(*                                                                         *)
(* All three take the task's lock, but withdraw_recipient_acceptance reads *)
(* the acceptance before and does not read it again: a request that found  *)
(* it accepted may wait for the lock while others withdraw it.             *)
(***************************************************************************)
EXTENDS ResultReview

CONSTANTS MaxDeliveries, MaxAcceptances   \* bounds of the model, which also
  \* bound how often the handlers below change the task's version

ASSUME DeliveriesAssumption == {MaxDeliveries, MaxAcceptances} \subseteq Nat

VARIABLES
  deliveries,            \* deliveries, by created_at
  acceptances,           \* recipient_acceptances, by created_at
  delivery,              \* Task.delivery: the delivery it names, 0 for none
  recipient_acceptance   \* Task.recipient_acceptance, 0 for none

deliveryVars == <<deliveries, acceptances, delivery, recipient_acceptance>>
allVars == <<vars, deliveryVars>>

Delivery == [proposal : Nat, package : Nat]
Acceptance == [delivery : Nat, proposal : Nat, status : {"accepted", "withdrawn"}]

DeliveryTypeOK ==
  /\ deliveries \in Seq(Delivery)
  /\ acceptances \in Seq(Acceptance)
  /\ delivery \in Nat
  /\ recipient_acceptance \in Nat

DeliveryInit ==
  /\ Init
  /\ deliveries = <<>>
  /\ acceptances = <<>>
  /\ delivery = 0
  /\ recipient_acceptance = 0

-----------------------------------------------------------------------------
\* Slip: the newest version presented is delivered.
Presented == DOMAIN proposals

AcceptedVersions == {i \in DOMAIN proposals : proposals[i].status = "accepted"}

\* Slip: the task keeps the acceptance of the delivery it named before.
AcceptanceKept == recipient_acceptance

\* The acceptance the task names once a newer delivery is proposed.
AcceptanceOfNew == 0

\* RESULT_NOT_ACCEPTED; the newest accepted version is delivered.
ProposeDelivery(u) ==
  /\ CanWrite(u)
  /\ u = assignee_id \/ CanManage(u)
  /\ Len(deliveries) < MaxDeliveries
  /\ \E i \in AcceptedVersions :
       /\ \A j \in AcceptedVersions : j <= i
       /\ deliveries' = Append(deliveries,
            [proposal |-> i, package |-> proposals[i].package])
  /\ delivery' = Len(deliveries) + 1
  /\ recipient_acceptance' = AcceptanceOfNew
  /\ Touch
  /\ UNCHANGED <<members, taskVars, result_state, packages, proposals, reviews, acceptances>>

\* _current_delivery
CurrentDelivery == Len(deliveries)

\* Slip: an acceptance of an earlier delivery speaks for the task, too.
SpeaksAlways(d) == TRUE

SpeaksForTask(d) == d = CurrentDelivery

\* An earlier delivery may be named; its acceptance is only recorded.
RecordAcceptance(u, d) ==
  /\ CanManage(u)
  /\ d \in DOMAIN deliveries
  /\ Len(acceptances) < MaxAcceptances
  /\ acceptances' = Append(acceptances,
       [delivery |-> d, proposal |-> deliveries[d].proposal, status |-> "accepted"])
  /\ IF SpeaksForTask(d)
     THEN recipient_acceptance' = Len(acceptances) + 1 /\ version' = version + 1
     ELSE UNCHANGED <<recipient_acceptance, version>>
  /\ UNCHANGED <<members, taskVars, result_state, packages, proposals, reviews,
                 deliveries, delivery>>

\* RECIPIENT_ACCEPTANCE_WITHDRAWN is judged by what was read before the
\* lock: a withdrawal of what has been withdrawn meanwhile goes through.
WithdrawAcceptance(u, a) ==
  /\ CanManage(u)
  /\ acceptances' = [acceptances EXCEPT ![a].status = "withdrawn"]
  /\ IF recipient_acceptance = a
     THEN recipient_acceptance' = 0 /\ version' = version + 1
     ELSE UNCHANGED <<recipient_acceptance, version>>
  /\ UNCHANGED <<members, taskVars, result_state, packages, proposals, reviews,
                 deliveries, delivery>>

DeliveryStep(u) ==
  \/ ProposeDelivery(u)
  \/ \E d \in DOMAIN deliveries : RecordAcceptance(u, d)
  \/ \E a \in DOMAIN acceptances : WithdrawAcceptance(u, a)

DeliveryNext ==
  \/ Next /\ UNCHANGED deliveryVars
  \/ \E u \in Users : DeliveryStep(u)

DeliverySpec == DeliveryInit /\ [][DeliveryNext]_allVars

-----------------------------------------------------------------------------
(* What was delivered stays an accepted version of the result, and goes    *)
(* with the assignment it was made for, whatever is presented, judged or   *)
(* corrected later; an acceptance is bound to what was delivered.          *)
DeliveredIsAccepted ==
  /\ \A d \in DOMAIN deliveries :
       /\ deliveries[d].proposal \in DOMAIN proposals
       /\ proposals[deliveries[d].proposal].status = "accepted"
       /\ deliveries[d].package = proposals[deliveries[d].proposal].package
  /\ \A a \in DOMAIN acceptances :
       /\ acceptances[a].delivery \in DOMAIN deliveries
       /\ acceptances[a].proposal = deliveries[acceptances[a].delivery].proposal

\* The acceptance recorded last for a delivery, 0 for none.
LastAcceptance(d) ==
  LET of == {a \in DOMAIN acceptances : acceptances[a].delivery = d}
  IN  IF of = {} THEN 0 ELSE CHOOSE a \in of : \A b \in of : b <= a

(* The summary on the task names the current delivery, and its last        *)
(* acceptance unless that one was withdrawn: no acceptance carries over to *)
(* a newer delivery, and neither a late acceptance of an older delivery    *)
(* nor a withdrawal that comes twice disturbs it.                          *)
SummaryIsCurrent ==
  LET a == LastAcceptance(CurrentDelivery)
  IN  /\ delivery = CurrentDelivery
      /\ recipient_acceptance =
           IF a # 0 /\ acceptances[a].status = "accepted" THEN a ELSE 0
=============================================================================
