------------------------- MODULE ResultLedgerProofs -------------------------
(***************************************************************************)
(* Theorems about the abstract ledger of results: its outcome always is    *)
(* the one its entries stand for, and an accepted outcome is never lost.   *)
(***************************************************************************)
EXTENDS ResultLedger, TLAPS

\* The strongest candidate of _recompute_state is the accepted one.
LEMMA AcceptedDominates ==
  ASSUME NEW S
  PROVE  ResultOf(S) = "accepted" <=> "accepted" \in S
BY DEF ResultOf

LEMMA ResultOfType ==
  ASSUME NEW S
  PROVE  ResultOf(S) \in ResultStateSet
BY DEF ResultOf, ResultStateSet

(* Type correctness of the ledger.                                         *)
LEMMA LedgerTypeOK == Spec => []TypeOK
<1>1. Init => TypeOK
  <2> SUFFICES ASSUME Init PROVE TypeOK
    OBVIOUS
  <2>1. ledger \in Seq(ProposalStatus)
    BY DEF Init, ProposalStatus
  <2>2. QED
    BY <2>1, ResultOfType DEF Init, TypeOK
<1>2. TypeOK /\ [Next]_vars => TypeOK'
  <2> SUFFICES ASSUME TypeOK, [Next]_vars PROVE TypeOK'
    OBVIOUS
  <2> USE DEF TypeOK, ProposalStatus, Verdicts
  <2>1. CASE Present
    <3>1. ledger' \in Seq(ProposalStatus)
      BY <2>1 DEF Present
    <3>2. QED
      BY <2>1, <3>1, ResultOfType DEF Present
  <2>2. CASE Settle
    <3>1. ledger' \in Seq(ProposalStatus)
      BY <2>2 DEF Settle
    <3>2. QED
      BY <2>2, <3>1, ResultOfType DEF Settle
  <2>3. CASE UNCHANGED vars
    BY <2>3 DEF vars
  <2>4. QED
    BY <2>1, <2>2, <2>3 DEF Next
<1>3. QED
  BY <1>1, <1>2, PTL DEF Spec

(* The stored outcome never disagrees with the entries: every step that    *)
(* writes an entry writes the outcome with it.                             *)
THEOREM LedgerOutcome == Spec => []OutcomeMatchesLedger
<1>1. Init => OutcomeMatchesLedger
  BY DEF Init, OutcomeMatchesLedger
<1>2. OutcomeMatchesLedger /\ [Next]_vars => OutcomeMatchesLedger'
  BY DEF OutcomeMatchesLedger, Next, Present, Settle, vars, StatusesOf
<1>3. QED
  BY <1>1, <1>2, PTL DEF Spec

\* An accepted entry is neither settled again nor replaced.
LEMMA AcceptedEntryStays ==
  ASSUME TypeOK, Next,
         NEW i \in DOMAIN ledger, ledger[i] = "accepted"
  PROVE  i \in DOMAIN ledger' /\ ledger'[i] = "accepted"
<1> USE DEF TypeOK
<1>1. CASE Present
  <2>1. CASE ledger' = Append(ledger, "submitted")
    BY <2>1
  <2>2. ASSUME NEW j \in DOMAIN ledger, ledger[j] \in Supersedable,
               ledger' = Append([ledger EXCEPT ![j] = "superseded"], "submitted")
        PROVE  i \in DOMAIN ledger' /\ ledger'[i] = "accepted"
    <3>1. i # j
      BY <2>2 DEF Supersedable
    <3>2. [ledger EXCEPT ![j] = "superseded"] \in Seq(ProposalStatus)
      BY DEF ProposalStatus
    <3>3. QED
      BY <2>2, <3>1, <3>2
  <2>3. QED
    BY <1>1, <2>1, <2>2 DEF Present
<1>2. CASE Settle
  BY <1>2 DEF Settle
<1>3. QED
  BY <1>1, <1>2 DEF Next

(* Acceptance is for good: whatever is presented, withdrawn or judged      *)
(* later, the outcome of an accepted task stays accepted.                  *)
THEOREM LedgerAcceptedForGood == Spec => AcceptedForGood
<1>1. TypeOK /\ OutcomeMatchesLedger /\ [Next]_vars /\ OutcomeMatchesLedger'
        => [outcome = "accepted" => outcome' = "accepted"]_vars
  <2> SUFFICES ASSUME TypeOK, OutcomeMatchesLedger, OutcomeMatchesLedger', Next,
                      outcome = "accepted"
               PROVE  outcome' = "accepted"
    BY DEF vars
  <2>1. PICK i \in DOMAIN ledger : ledger[i] = "accepted"
    <3>1. "accepted" \in StatusesOf(ledger)
      BY AcceptedDominates DEF OutcomeMatchesLedger
    <3>2. QED
      BY <3>1 DEF StatusesOf
  <2>2. i \in DOMAIN ledger' /\ ledger'[i] = "accepted"
    BY <2>1, AcceptedEntryStays
  <2>3. "accepted" \in StatusesOf(ledger')
    BY <2>2 DEF StatusesOf
  <2>4. QED
    BY <2>3, AcceptedDominates DEF OutcomeMatchesLedger
<1>2. QED
  BY <1>1, LedgerTypeOK, LedgerOutcome, PTL DEF Spec, AcceptedForGood
=============================================================================
