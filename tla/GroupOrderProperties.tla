------------------------ MODULE GroupOrderProperties ------------------------
(***************************************************************************)
(* What GroupOrder is checked for, the inductive invariant behind the      *)
(* proofs, and the ledger it implements.                                   *)
(***************************************************************************)
EXTENDS GroupOrder

(* Every variable stays in the domain the schema gives its column, and     *)
(* every request in a state the handlers can be in.                        *)
TypeOK ==
  /\ status \in GroupStatus
  /\ coordinator \in Users \cup {NoUser}
  /\ fee \in Nat /\ itemsPaise \in Nat /\ splitPaise \in Nat
  /\ members \subseteq Users
  /\ contrib \in [Users -> ContributionStatus]
  /\ paidAt \subseteq Users /\ verified \subseteq Users
  /\ raised \in Nat /\ undecided \in Nat
  /\ events \subseteq Users \X EventType
  /\ audit \subseteq AuditAction \X Users
  /\ due \in BOOLEAN /\ sweeping \in BOOLEAN
  /\ req \in [Reqs -> Request]

Claimed == coordinator # NoUser
Recomputing == {"recRow", "recItems", "recWrite"}
InStep(r, steps) == req[r].pc \in steps

-----------------------------------------------------------------------------
(* Safety *)

(* An order only goes ahead above the store's minimum, although the total  *)
(* is computed from items read in one statement and the status is written  *)
(* unconditionally in a later one (lib/groupStatus.ts).                    *)
MinimumReached ==
  status \in {"THRESHOLD_MET", "AWAITING_PAYMENTS", "COMPLETED"}
    => itemsPaise >= Threshold

(* Once claimed, the members' shares cover the minimum and the whole       *)
(* delivery fee, and never more than the items and the fee; only members   *)
(* pay.  Before, nobody owes anything.  The shares are computed from items *)
(* read before the claim's transaction (claim-coordinator).                *)
SplitWithinCart ==
  IF Claimed
  THEN /\ Threshold + fee <= splitPaise
       /\ splitPaise <= itemsPaise + fee
       /\ Contributors # {} /\ Contributors \subseteq members
  ELSE splitPaise = 0 /\ Contributors = {}

(* Requests that race past the status check cannot replace a coordinator,  *)
(* a fee or the shares: the second transaction rolls back.                 *)
ClaimIsFinal ==
  [][Claimed => /\ UNCHANGED <<coordinator, fee, splitPaise>>
                /\ Contributors' = Contributors]_vars

(* The recompute is written as OPEN <-> THRESHOLD_MET; because items are   *)
(* never removed, no step leads back to OPEN.                              *)
NeverBackToOpen ==
  [][status' = "OPEN" => status \in {"ABSENT", "OPEN"}]_vars

(* A cart that crossed the threshold is OPEN only while the request that   *)
(* has to notice it is still being served: of two concurrent joins, each   *)
(* reading before the other inserted, one must see the full total.         *)
CrossingIsNoticed ==
  status = "OPEN" /\ itemsPaise >= Threshold
    => \E r \in Reqs : InStep(r, Recomputing)

(* audit.ts: each claim, confirmed payment, completion and dispute has its *)
(* audit row, or the request that did it is still about to write one.      *)
ClaimAudited ==
  Claimed => \/ <<"coordinator.claim", coordinator>> \in audit
             \/ \E r \in Reqs : At(r, "claimAudit") /\ req[r].by = coordinator
PaymentsAudited ==
  \A u \in paidAt :
    \/ <<"payment.confirmed", u>> \in audit
    \/ \E r \in Reqs : /\ InStep(r, {"confirmEvent", "confirmAudit"})
                       /\ req[r].payer = u
CompletionAudited ==
  status = "COMPLETED" =>
    \/ <<"order.completed", coordinator>> \in audit
    \/ \E r \in Reqs : InStep(r, {"completeEvents", "completeAudit"})
DisputesAudited ==
  status = "DISPUTED" =>
    \/ \E u \in Users : <<"dispute.raised", u>> \in audit
    \/ \E r \in Reqs : At(r, "disputeAudit")
AuditTrail == ClaimAudited /\ PaymentsAudited /\ CompletionAudited
              /\ DisputesAudited

(* A member is only credited with ORDER_COMPLETED when the coordinator (or *)
(* the gateway) had confirmed the payment, however the completion's stale  *)
(* read interleaves with pay and confirm.                                  *)
HonestCompletion ==
  \A u \in Users : <<u, "ORDER_COMPLETED">> \in events =>
                     u \in paidAt /\ u \in Contributors

(* A group is DISPUTED only if an admin can find its Dispute row, even     *)
(* when a request dies half-way through /dispute.                          *)
DisputeRowFirst == status = "DISPUTED" => raised > 0

(* With gateway verification a payment the gateway confirmed stays PAID:   *)
(* no self-report can take it back to CLAIMED_PAID.                        *)
GatewayPaymentSticks ==
  OptionB => \A u \in verified : contrib[u] = "PAID" /\ u \in paidAt

-----------------------------------------------------------------------------
(* Liveness *)

(* A group whose time is up stops taking items for good, although a stale  *)
(* recompute may write THRESHOLD_MET over the sweep's EXPIRED.             *)
DueGroupCloses == due ~> [](status \notin ACTIVE_STATUSES)

-----------------------------------------------------------------------------
(* What comments of the repository say and the code does not keep          *)

(* groupStatus.ts:7-9: once claimed, item totals no longer drive status.   *)
ClaimedIsClosed == Claimed => status \notin ACTIVE_STATUSES

(* schema.prisma: AWAITING_PAYMENTS means the split is locked; the test    *)
(* expects it to cover the items and the fee exactly, no paise lost.       *)
SplitIsLocked == status = "AWAITING_PAYMENTS" => splitPaise = itemsPaise + fee

-----------------------------------------------------------------------------
(* The inductive invariant *)

(* A request knows who called it and whom it acts for. *)
CallersKnown ==
  \A r \in Reqs :
    /\ req[r].pc # "idle" => req[r].by \in Users
    /\ InStep(r, {"confirmWrite", "confirmEvent", "confirmAudit"})
         => req[r].payer \in Users

(* What a request was asked to add or to charge passed the zod schema. *)
BodiesValid ==
  \A r \in Reqs :
    /\ At(r, "joinInsert") => req[r].paise \in Amounts
    /\ InStep(r, {"claimItems", "claimTx"}) => req[r].paise \in Fees

(* Before the row exists there is nothing to work on; afterwards there is  *)
(* always the creator's item.                                              *)
RowExists ==
  IF status = "ABSENT"
  THEN /\ ~Claimed /\ itemsPaise = 0 /\ members = {}
       /\ raised = 0 /\ undecided = 0 /\ ~due /\ ~sweeping
       /\ \A r \in Reqs : req[r] = Idle
  ELSE members # {}

(* A recompute never writes OPEN: it saw an active status and a total that *)
(* can only have grown since.                                              *)
RecomputeGrounded ==
  \A r \in Reqs :
    /\ At(r, "recItems") => /\ req[r].seen \in ACTIVE_STATUSES
                            /\ req[r].seen = "THRESHOLD_MET"
                                 => itemsPaise >= Threshold
    /\ At(r, "recWrite") => /\ req[r].seen = "THRESHOLD_MET"
                            /\ itemsPaise >= Threshold

(* What a claim read is still in the cart when it commits. *)
ClaimGrounded ==
  \A r \in Reqs :
    /\ At(r, "claimItems") => itemsPaise >= Threshold
    /\ At(r, "claimTx") => /\ Threshold <= req[r].total
                           /\ req[r].total <= itemsPaise
                           /\ req[r].who # {}
                           /\ req[r].who \subseteq members

(* Any two claims bill a common member (the creator, for one), and one     *)
(* that commits has billed a member of every other: this is what makes the *)
(* unique index serialise claims.                                          *)
ClaimsOverlap ==
  \A r \in Reqs : At(r, "claimTx") =>
    /\ \A q \in Reqs : At(q, "claimTx") => req[r].who \cap req[q].who # {}
    /\ Claimed => req[r].who \cap Contributors # {}

(* A payer has a row to update; whoever completes found the group claimed. *)
SharesGrounded ==
  \A r \in Reqs :
    /\ At(r, "payWrite") => req[r].by \in Contributors
    /\ InStep(r, {"completeRead", "completeWrite"})
         => itemsPaise >= Threshold

(* While the group is OPEN no recompute has seen it any other way. *)
OpenIsFresh ==
  status = "OPEN" => \A r \in Reqs : At(r, "recItems") => req[r].seen = "OPEN"

IInv == /\ TypeOK /\ CallersKnown /\ BodiesValid /\ RowExists
        /\ RecomputeGrounded /\ ClaimGrounded /\ ClaimsOverlap
        /\ SharesGrounded /\ OpenIsFresh
        /\ MinimumReached /\ SplitWithinCart

-----------------------------------------------------------------------------
(* What settles an order: the invariant behind HonestCompletion,           *)
(* DisputeRowFirst, GatewayPaymentSticks and AuditTrail                    *)

(* Only what is owed is paid, and PAID goes with a date. *)
PaidIsDated == /\ paidAt \subseteq Contributors
               /\ \A u \in Users : contrib[u] = "PAID" => u \in paidAt

(* The credits a completion is about to insert are for dated payments. *)
CreditsGrounded ==
  \A r \in Reqs, u \in Users :
    <<u, "ORDER_COMPLETED">> \in req[r].batch => u \in paidAt

(* What a completion is about to insert are outcomes, not confirmations. *)
BatchesJudge ==
  \A r \in Reqs : \A e \in req[r].batch : e[2] # "PAYMENT_CONFIRMED"

(* Whoever is about to write DISPUTED has inserted the row. *)
DisputesGrounded == \A r \in Reqs : At(r, "disputeStatus") => raised > 0

(* With the gateway no self-report is under way. *)
NoSelfReports == OptionB => \A r \in Reqs : ~At(r, "payWrite")

(* Orders are completed by their coordinator, who stays the same. *)
CompletersKnown ==
  \A r \in Reqs :
    InStep(r, {"completeRead", "completeWrite", "completeEvents",
               "completeAudit"})
      => Claimed /\ req[r].by = coordinator

SettlementInv == /\ PaidIsDated /\ CreditsGrounded /\ BatchesJudge
                 /\ DisputesGrounded /\ NoSelfReports /\ CompletersKnown
                 /\ HonestCompletion /\ DisputeRowFirst /\ GatewayPaymentSticks

-----------------------------------------------------------------------------
(* The ledger GroupOrder implements *)

NoBill == [coordinator |-> NoUser, payers |-> {}]
Bill == IF Claimed THEN [coordinator |-> coordinator, payers |-> Contributors]
                   ELSE NoBill

(* What the completions under way have read and not yet inserted. *)
Judging == {r \in Reqs : InStep(r, {"completeWrite", "completeEvents"})}
Verdicts == {req[r].batch : r \in Judging}

(* Confirmations are recorded on the way; the outcomes are the rest. *)
Outcomes == {e \in events : e[2] # "PAYMENT_CONFIRMED"}

Ledger == INSTANCE GroupLedger WITH Gateway <- OptionB, Failures <- WithCrash,
                                    bill <- Bill, shares <- contrib,
                                    verdicts <- Verdicts, outcomes <- Outcomes

(* pay, confirm, webhook and complete: every run of the routes is a run of *)
(* the ledger.  The statuses in the rows move as it says (so with the      *)
(* gateway PAID is final, and without it pay may take it back); complete   *)
(* judges every payer, exactly once, by one look at the rows; and however  *)
(* late it inserts the outcomes, and whatever raced, it records no others. *)
ImplementsLedger == Ledger!LedgerSpec
=============================================================================
