---------------------------- MODULE GroupLedger ----------------------------
(***************************************************************************)
(* What a claimed group order promises those who pay for it, whatever      *)
(* requests race.  One coordinator draws up one bill, and who is on it     *)
(* never changes.  A share stands at what was said of it last; only with a *)
(* payment gateway is a settled share settled for good, without it the     *)
(* payer's own report takes a confirmation back.  The order is judged by   *)
(* one look at all shares at once: whoever stood at PAID at that moment is *)
(* credited and everybody else on the bill has missed.  A verdict may be   *)
(* out of date when it is recorded, several may be recorded, and one may   *)
(* be lost to a failure; but nothing is ever recorded that was not such a  *)
(* verdict.                                                                *)
(***************************************************************************)
CONSTANTS Users, NoBill,
          Gateway,   \* payments are verified by a gateway
          Failures   \* requests may die

VARIABLES
  bill,       \* NoBill, or the coordinator and the payers
  shares,     \* where each user's share stands
  verdicts,   \* what the order was judged to be, and is not recorded yet
  outcomes    \* what is recorded of the members

ledger == <<bill, shares, verdicts, outcomes>>

LedgerInit == /\ bill = NoBill /\ shares = [u \in Users |-> "NONE"]
              /\ verdicts = {} /\ outcomes = {}

DrawUp ==
  /\ bill = NoBill
  /\ \E u \in Users, who \in (SUBSET Users) \ {{}} :
       /\ bill' = [coordinator |-> u, payers |-> who]
       /\ shares' = [v \in Users |-> IF v \in who THEN "PENDING" ELSE "NONE"]
  /\ UNCHANGED <<verdicts, outcomes>>

Report ==
  /\ bill # NoBill /\ ~Gateway
  /\ \E u \in bill.payers : shares' = [shares EXCEPT ![u] = "CLAIMED_PAID"]
  /\ UNCHANGED <<bill, verdicts, outcomes>>

Settle ==
  /\ bill # NoBill
  /\ \E u \in bill.payers : shares' = [shares EXCEPT ![u] = "PAID"]
  /\ UNCHANGED <<bill, verdicts, outcomes>>

Verdict ==
  {<<u, IF shares[u] = "PAID" THEN "ORDER_COMPLETED" ELSE "PAYMENT_MISSED">> :
     u \in bill.payers}
  \cup {<<bill.coordinator, "COORDINATOR_COMPLETED">>}

Judge ==
  /\ bill # NoBill
  /\ verdicts' = verdicts \cup {Verdict}
  /\ UNCHANGED <<bill, shares, outcomes>>

(* Another completion may have come to the same verdict. *)
Record ==
  /\ \E v \in verdicts : /\ outcomes' = outcomes \cup v
                         /\ verdicts' \in {verdicts, verdicts \ {v}}
  /\ UNCHANGED <<bill, shares>>

Forget ==
  /\ Failures
  /\ \E v \in verdicts : verdicts' = verdicts \ {v}
  /\ UNCHANGED <<bill, shares, outcomes>>

LedgerNext == DrawUp \/ Report \/ Settle \/ Judge \/ Record \/ Forget

LedgerSpec == LedgerInit /\ [][LedgerNext]_ledger
=============================================================================
