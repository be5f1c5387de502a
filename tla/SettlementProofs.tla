-------------------------- MODULE SettlementProofs --------------------------
(***************************************************************************)
(* Proofs about how an order of GroupOrder is settled: payments, credits,  *)
(* disputes and audit rows.  SettlementInv is inductive relative to IInv;  *)
(* each of its parts says what a pending write of some handler is worth.   *)
(***************************************************************************)
EXTENDS GroupOrderProofs

-----------------------------------------------------------------------------
(* The request slots, once more *)

(* The slots are typed. *)
LEMMA SlotsTyped == IInv => req \in [Reqs -> Request]
  BY DEF IInv, TypeOK

(* A request that is served has not just arrived, and none dies. *)
LEMMA HowLeft ==
  ASSUME ~WithCrash, req \in [Reqs -> Request], Next, NEW r \in Reqs,
         req[r].pc # "idle", req'[r] # req[r]
  PROVE  Serve(r)
<1>1. req[r] # Idle
  BY DEF Idle
<1> QED
  BY <1>1, OnlyOneMoves DEF Crash, Arrive, Free, CreateGroup, JoinRead,
     ClaimRead, PayRead, ConfirmRead, CompleteRead, DisputeRead, ResolveDispute

(* The events a slot holds are only put there by the completion's read. *)
LEMMA BatchWritten ==
  ASSUME req \in [Reqs -> Request], Next, NEW r \in Reqs
  PROVE  \/ req'[r].batch \subseteq req[r].batch
         \/ CompleteReadContributions(r)
<1>0. req[r] \in Request
  OBVIOUS
<1>1. CASE req'[r] = req[r]
  BY <1>1
<1>2. CASE req'[r] # req[r]
  <2>1. Arrive(r) \/ Serve(r) \/ Crash(r)
    BY <1>2, OnlyOneMoves
  <2>2. CASE Arrive(r)
    <3>1. \/ \E pc, u : Accept(r, pc, u)
          \/ \E u, a : Becomes(r, [Idle EXCEPT !.pc = "joinInsert", !.by = u,
                                               !.paise = a])
          \/ \E u, f : Becomes(r, [Idle EXCEPT !.pc = "claimItems", !.by = u,
                                               !.paise = f])
          \/ \E u : Becomes(r, [Idle EXCEPT !.pc = "confirmWrite",
                                            !.by = coordinator, !.payer = u])
      BY <2>2 DEF Arrive, CreateGroup, JoinRead, ClaimRead, PayRead,
         ConfirmRead, CompleteRead, DisputeRead, ResolveDispute
    <3>2. req'[r].batch = {}
      BY <3>1 DEF Accept, Becomes, Idle
    <3> QED BY <3>2
  <2>3. CASE Serve(r) \/ Crash(r)
    <3>1. \/ Reply(r) \/ \E pc : Goto(r, pc)
          \/ RecomputeReadRow(r) \/ RecomputeReadItems(r) \/ ClaimReadItems(r)
          \/ CompleteReadContributions(r)
      BY <2>3 DEF Serve, Crash, RecomputeWrite, JoinInsert, ClaimCommit,
         ClaimRollback, ClaimAudit, PayWrite, ConfirmWrite, ConfirmEvent,
         ConfirmAudit, CompleteWrite, CompleteEvents, CompleteAudit,
         DisputeCreate, DisputeStatus, DisputeAudit, ResolveAudit
    <3>2. CASE Reply(r)
      BY <3>2 DEF Reply, Becomes, Idle
    <3>3. ASSUME NEW pc, Goto(r, pc) PROVE req'[r].batch = req[r].batch
      BY <1>0, <3>3 DEF Goto, Becomes, Request
    <3>4. CASE RecomputeReadRow(r) \/ RecomputeReadItems(r) \/ ClaimReadItems(r)
      BY <1>0, <3>2, <3>4 DEF RecomputeReadRow, RecomputeReadItems,
         ClaimReadItems, Becomes, Request
    <3> QED BY <3>1, <3>2, <3>3, <3>4
  <2> QED BY <2>1, <2>2, <2>3
<1> QED BY <1>1, <1>2

-----------------------------------------------------------------------------
(* Each part of SettlementInv is kept by every step *)

(* Payments are dated for good. *)
LEMMA PaidGrows ==
  ASSUME Next
  PROVE  paidAt \subseteq paidAt'
<1>1. CASE paidAt' = paidAt
  BY <1>1
<1>2. CASE paidAt' # paidAt
  BY <1>2, SharesWriters DEF PaymentWebhook, ConfirmWrite
<1> QED BY <1>1, <1>2

(* PAID and its date are written together, and only for those who owe.     *)
LEMMA PaidStep ==
  ASSUME IInv, PaidIsDated, Next
  PROVE  PaidIsDated'
<1>0. contrib \in [Users -> ContributionStatus] /\ req \in [Reqs -> Request]
  BY DEF IInv, TypeOK
<1>1. Contributors \subseteq Contributors'
  BY ContributorsStay
<1>2. paidAt' \subseteq Contributors'
  <2>1. CASE paidAt' = paidAt
    BY <1>1, <2>1 DEF PaidIsDated
  <2>2. CASE paidAt' # paidAt
    BY <1>1, <2>2, SharesWriters DEF PaidIsDated, PaymentWebhook, ConfirmWrite
  <2> QED BY <2>1, <2>2
<1>3. \A u \in Users : contrib'[u] = "PAID" => u \in paidAt'
  <2>1. CASE contrib' = contrib
    BY <2>1, PaidGrows DEF PaidIsDated
  <2>2. ASSUME NEW r \in Reqs, ClaimCommit(r) \/ PayWrite(r)
        PROVE  \A u \in Users : contrib'[u] = "PAID" => contrib[u] = "PAID"
    BY <1>0, <2>2 DEF ClaimCommit, PayWrite
  <2>3. ASSUME NEW r \in Reqs, ConfirmWrite(r)
        PROVE  \A u \in Users : contrib'[u] = "PAID" => u \in paidAt'
    BY <1>0, <2>3 DEF ConfirmWrite, PaidIsDated
  <2>4. CASE PaymentWebhook
    BY <1>0, <2>4 DEF PaymentWebhook, PaidIsDated
  <2> QED BY <2>1, <2>2, <2>3, <2>4, PaidGrows, ContribWriters DEF PaidIsDated
<1> QED BY <1>2, <1>3 DEF PaidIsDated

(* What a completion read as PAID has its date, and keeps it. *)
LEMMA CreditsStep ==
  ASSUME IInv, PaidIsDated, CreditsGrounded, Next
  PROVE  CreditsGrounded'
<1>1. SUFFICES ASSUME NEW r \in Reqs, NEW u \in Users,
                      <<u, "ORDER_COMPLETED">> \in req'[r].batch
               PROVE  u \in paidAt'
  BY DEF CreditsGrounded
<1>2. CASE req'[r].batch \subseteq req[r].batch
  BY <1>1, <1>2, PaidGrows DEF CreditsGrounded
<1>3. CASE CompleteReadContributions(r)
  <2>1. req[r] \in Request
    BY SlotsTyped
  <2>2. req'[r].batch = {<<v, OutcomeOf(v)>> : v \in Contributors}
                           \cup {<<req[r].by, "COORDINATOR_COMPLETED">>}
    BY <1>3, <2>1, SlotsTyped DEF CompleteReadContributions, Becomes, Request
  <2>3. OutcomeOf(u) = "ORDER_COMPLETED"
    BY <1>1, <2>2
  <2> QED BY <2>3, PaidGrows DEF OutcomeOf, PaidIsDated
<1> QED BY <1>2, <1>3, SlotsTyped, BatchWritten

(* Credits are only inserted for dated payments. *)
LEMMA HonestStep ==
  ASSUME IInv, PaidIsDated, CreditsGrounded, HonestCompletion, Next
  PROVE  HonestCompletion'
<1>1. SUFFICES ASSUME NEW u \in Users, <<u, "ORDER_COMPLETED">> \in events'
               PROVE  u \in paidAt
  BY PaidGrows, PaidStep DEF HonestCompletion, PaidIsDated
<1>2. CASE events' = events
  BY <1>1, <1>2 DEF HonestCompletion
<1>3. ASSUME NEW r \in Reqs, ConfirmEvent(r)
      PROVE  <<u, "ORDER_COMPLETED">> \in events
  BY <1>1, <1>3 DEF ConfirmEvent
<1>4. ASSUME NEW r \in Reqs, CompleteEvents(r)
      PROVE  u \in paidAt
  BY <1>1, <1>4 DEF CompleteEvents, CreditsGrounded, HonestCompletion
<1> QED BY <1>2, <1>3, <1>4, EventWriters DEF HonestCompletion

(* The completion's read draws up outcomes only. *)
LEMMA BatchesStep ==
  ASSUME IInv, BatchesJudge, Next
  PROVE  BatchesJudge'
<1>1. SUFFICES ASSUME NEW r \in Reqs, NEW e \in req'[r].batch
               PROVE  e[2] # "PAYMENT_CONFIRMED"
  BY DEF BatchesJudge
<1>2. CASE req'[r].batch \subseteq req[r].batch
  BY <1>1, <1>2 DEF BatchesJudge
<1>3. CASE CompleteReadContributions(r)
  <2>1. req'[r].batch = {<<v, OutcomeOf(v)>> : v \in Contributors}
                           \cup {<<req[r].by, "COORDINATOR_COMPLETED">>}
    BY <1>3, SlotsTyped DEF CompleteReadContributions, Becomes, Request
  <2> QED BY <1>1, <2>1 DEF OutcomeOf
<1> QED BY <1>2, <1>3, SlotsTyped, BatchWritten

(* Dispute rows are never deleted. *)
LEMMA RaisedGrows ==
  ASSUME IInv, Next
  PROVE  /\ raised > 0 => raised' > 0
         /\ \A r \in Reqs : DisputeCreate(r) => raised' > 0
<1>1. raised \in Nat
  BY DEF IInv, TypeOK
<1>2. CASE raised' = raised
  BY <1>1, <1>2 DEF DisputeCreate
<1>3. CASE raised' # raised
  BY <1>1, <1>3, DisputeWriters DEF DisputeCreate, ResolveDispute
<1> QED BY <1>2, <1>3

(* The row precedes the status. *)
LEMMA DisputeStep ==
  ASSUME IInv, DisputesGrounded, DisputeRowFirst, Next
  PROVE  DisputesGrounded' /\ DisputeRowFirst'
<1>1. DisputesGrounded'
  <2>1. SUFFICES ASSUME NEW r \in Reqs, At(r, "disputeStatus")'
                 PROVE  raised' > 0
    BY DEF DisputesGrounded
  <2>2. CASE req'[r] = req[r]
    BY <2>1, <2>2, RaisedGrows DEF DisputesGrounded, At
  <2>3. CASE req'[r] # req[r]
    BY <2>1, <2>3, SlotsTyped, HowEntered, RaisedGrows
  <2> QED BY <2>2, <2>3
<1>2. DisputeRowFirst'
  <2>1. CASE status' = status
    BY <2>1, RaisedGrows DEF DisputeRowFirst
  <2>2. ASSUME NEW r \in Reqs, DisputeStatus(r)
        PROVE  raised' > 0
    BY <2>2, RaisedGrows DEF DisputeStatus, DisputesGrounded
  <2>3. ASSUME NEW r \in Reqs, RecomputeWrite(r)
        PROVE  status' # "DISPUTED"
    BY <2>3 DEF RecomputeWrite, IInv, RecomputeGrounded
  <2>4. ASSUME NEW r \in Reqs, CreateGroup(r) \/ ClaimCommit(r) \/ CompleteWrite(r)
        PROVE  status' # "DISPUTED"
    BY <2>4 DEF CreateGroup, ClaimCommit, CompleteWrite
  <2>5. SweepWrite => status' # "DISPUTED"
    BY DEF SweepWrite
  <2> QED BY <2>1, <2>2, <2>3, <2>4, <2>5, StatusWriters DEF DisputeRowFirst
<1> QED BY <1>1, <1>2

(* With the gateway nothing takes a verified payment back. *)
LEMMA GatewayStep ==
  ASSUME IInv, NoSelfReports, GatewayPaymentSticks, Next
  PROVE  NoSelfReports' /\ GatewayPaymentSticks'
<1>0. contrib \in [Users -> ContributionStatus] /\ req \in [Reqs -> Request]
  BY DEF IInv, TypeOK
<1>1. NoSelfReports'
  <2>1. SUFFICES ASSUME OptionB, NEW r \in Reqs, At(r, "payWrite")'
                 PROVE  FALSE
    BY DEF NoSelfReports
  <2>2. req'[r] # req[r]
    BY <2>1 DEF NoSelfReports, At
  <2> QED BY <1>0, <2>1, <2>2, HowEntered DEF PayRead
<1>2. GatewayPaymentSticks'
  <2>1. SUFFICES ASSUME OptionB, NEW u \in verified'
                 PROVE  contrib'[u] = "PAID" /\ u \in paidAt'
    BY DEF GatewayPaymentSticks
  <2>2. u \in Users
    BY <2>1, NextIInv DEF IInv, TypeOK
  <2>3. CASE PaymentWebhook
    BY <1>0, <2>1, <2>2, <2>3 DEF PaymentWebhook, GatewayPaymentSticks
  <2>4. CASE ~PaymentWebhook
    <3>1. u \in verified
      BY <2>1, <2>4, SharesWriters DEF ConfirmWrite
    <3>2. contrib[u] = "PAID" /\ u \in paidAt'
      BY <2>1, <3>1, PaidGrows DEF GatewayPaymentSticks
    <3>3. ASSUME NEW r \in Reqs, ClaimCommit(r)
          PROVE  contrib'[u] = "PAID"
      BY <2>2, <3>2, <3>3 DEF ClaimCommit, UniqueContributions
    <3>4. ASSUME NEW r \in Reqs PROVE ~PayWrite(r)
      BY <2>1 DEF PayWrite, NoSelfReports
    <3>5. ASSUME NEW r \in Reqs, ConfirmWrite(r)
          PROVE  contrib'[u] = "PAID"
      BY <1>0, <2>2, <3>2, <3>5 DEF ConfirmWrite
    <3> QED BY <2>4, <3>2, <3>3, <3>4, <3>5, ContribWriters
  <2> QED BY <2>3, <2>4
<1> QED BY <1>1, <1>2

(* A claim that is taken stays with its coordinator. *)
LEMMA ClaimStays ==
  ASSUME IInv, Next, Claimed
  PROVE  Claimed' /\ coordinator' = coordinator
<1>1. ~\E r \in Reqs : ClaimCommit(r)
  BY LateClaimRollsBack
<1> QED BY <1>1, ClaimWriters DEF Claimed

(* Only the coordinator gets past the check of /complete. *)
LEMMA CompletersStep ==
  ASSUME IInv, CompletersKnown, Next
  PROVE  CompletersKnown'
<1> DEFINE Completing == {"completeRead", "completeWrite", "completeEvents",
                          "completeAudit"}
<1>0. req \in [Reqs -> Request]
  BY SlotsTyped
<1>1. SUFFICES ASSUME NEW r \in Reqs, req'[r].pc \in Completing
               PROVE  Claimed' /\ req'[r].by = coordinator'
  BY DEF CompletersKnown, InStep
<1>2. CASE req'[r] = req[r]
  BY <1>1, <1>2, ClaimStays DEF CompletersKnown, InStep
<1>3. CASE req'[r] # req[r] /\ req'[r].pc = "completeRead"
  <2>1. CompleteRead(r)
    BY <1>0, <1>3, HowEntered DEF At
  <2>2. req'[r].by = coordinator
    BY <1>0, <2>1, AcceptAt DEF CompleteRead
  <2> QED BY <2>1, <2>2, ClaimStays DEF CompleteRead, Claimed
<1>4. CASE req'[r] # req[r] /\ req'[r].pc # "completeRead"
  <2>1. \/ CompleteReadContributions(r) \/ CompleteWrite(r) \/ CompleteEvents(r)
    BY <1>0, <1>1, <1>4, HowEntered DEF At
  <2>2. req'[r].by = req[r].by
    BY <1>0, <2>1, GotoAt DEF CompleteReadContributions, CompleteWrite,
       CompleteEvents, Becomes, Request
  <2>3. req[r].pc \in Completing
    BY <2>1 DEF CompleteReadContributions, CompleteWrite, CompleteEvents, At
  <2> QED BY <2>2, <2>3, ClaimStays DEF CompletersKnown, InStep
<1> QED BY <1>2, <1>3, <1>4

(* Nothing is settled before the first request. *)
LEMMA InitSettlement == Init => SettlementInv
  BY DEF Init, SettlementInv, PaidIsDated, CreditsGrounded, BatchesJudge,
     DisputesGrounded, NoSelfReports, CompletersKnown, HonestCompletion,
     DisputeRowFirst, GatewayPaymentSticks, Idle, At, InStep, Contributors

(* SettlementInv is kept by every step. *)
LEMMA NextSettlement ==
  ASSUME IInv, SettlementInv, [Next]_vars
  PROVE  SettlementInv'
<1>1. CASE Next
  BY <1>1, PaidStep, CreditsStep, BatchesStep, HonestStep, DisputeStep,
     GatewayStep, CompletersStep DEF SettlementInv
<1>2. CASE UNCHANGED vars
  BY <1>2 DEF vars, group, cart, shares, disputes, records, sweep,
     SettlementInv, PaidIsDated, CreditsGrounded, BatchesJudge,
     DisputesGrounded, NoSelfReports, CompletersKnown, HonestCompletion,
     DisputeRowFirst, GatewayPaymentSticks, Claimed, Contributors, At, InStep
<1> QED BY <1>1, <1>2

(* SettlementInv holds in every reachable state. *)
THEOREM SettlementInvariance == Spec => []SettlementInv
<1>1. IInv /\ SettlementInv /\ [Next]_vars => SettlementInv'
  BY NextSettlement
<1> QED BY <1>1, InitSettlement, Invariance, PTL DEF Spec

(* Nobody is credited with a completed order whose payment was not         *)
(* confirmed, whatever pay, confirm and complete read and write when.      *)
THEOREM CreditsAreEarned == Spec => []HonestCompletion
<1>1. SettlementInv => HonestCompletion
  BY DEF SettlementInv
<1> QED BY <1>1, SettlementInvariance, PTL

(* A disputed group has a dispute an admin can find, also when requests    *)
(* die half-way.                                                           *)
THEOREM DisputesAreFound == Spec => []DisputeRowFirst
<1>1. SettlementInv => DisputeRowFirst
  BY DEF SettlementInv
<1> QED BY <1>1, SettlementInvariance, PTL

(* With the gateway a verified payment is final. *)
THEOREM VerifiedIsFinal == Spec => []GatewayPaymentSticks
<1>1. SettlementInv => GatewayPaymentSticks
  BY DEF SettlementInv
<1> QED BY <1>1, SettlementInvariance, PTL

-----------------------------------------------------------------------------
(* GroupOrder implements GroupLedger *)

(* What the verdicts are without a request, and with it. *)
Own(r) == IF r \in Judging THEN {req[r].batch} ELSE {}
LEMMA VerdictsMove ==
  ASSUME req \in [Reqs -> Request], NEW r \in Reqs, NEW q, Becomes(r, q)
  PROVE  \E others : /\ Verdicts = others \cup Own(r)
                     /\ Verdicts' = others \cup Own(r)'
<1> DEFINE Rest == {req[p].batch : p \in Judging \ {r}}
<1>1. \A p \in Reqs \ {r} : req'[p] = req[p]
  BY BecomesAt
<1>2. Judging' \ {r} = Judging \ {r}
  BY <1>1 DEF Judging, InStep
<1>3. Verdicts = Rest \cup Own(r)
  BY DEF Verdicts, Own, Judging
<1>4. \A p \in Judging \ {r} : req'[p].batch = req[p].batch
  BY <1>1 DEF Judging
<1>5. Verdicts' = Rest \cup Own(r)'
  BY <1>2, <1>4 DEF Verdicts, Own, Judging
<1> QED BY <1>3, <1>5

(* A request judges when it reads the contributions, and has judged when   *)
(* it inserts its events or dies.                                          *)
LEMMA VerdictsStay ==
  ASSUME IInv, NEW r \in Reqs, Arrive(r) \/ Serve(r), Next,
         ~CompleteReadContributions(r), ~CompleteEvents(r)
  PROVE  Verdicts' = Verdicts
<1>0. req \in [Reqs -> Request] /\ req[r] \in Request
  BY SlotsTyped
<1>1. PICK q : Becomes(r, q)
  BY WritesItsSlot
<1>2. CASE r \in Judging
  <2>1. CompleteWrite(r)
    <3>1. req[r].pc \in {"completeWrite", "completeEvents"} /\ req[r] # Idle
      BY <1>2 DEF Judging, InStep, Idle
    <3>2. Serve(r)
      BY <3>1 DEF Arrive, Free, CreateGroup, JoinRead, ClaimRead, PayRead,
         ConfirmRead, CompleteRead, DisputeRead, ResolveDispute
    <3> QED BY <3>1, <3>2 DEF Serve, At, RecomputeReadRow, RecomputeReadItems,
           RecomputeWrite, JoinInsert, ClaimReadItems, ClaimCommit,
           ClaimRollback, ClaimAudit, PayWrite, ConfirmWrite, ConfirmEvent,
           ConfirmAudit, CompleteAudit, DisputeCreate, DisputeStatus,
           DisputeAudit, ResolveAudit
  <2>2. req'[r].pc = "completeEvents" /\ req'[r].batch = req[r].batch
    BY <1>0, <2>1 DEF CompleteWrite, Goto, Becomes, Request
  <2>3. Own(r)' = Own(r)
    BY <1>2, <2>2 DEF Own, Judging, InStep
  <2> QED BY <1>0, <1>1, <2>3, VerdictsMove
<1>3. CASE r \notin Judging
  <2>1. r \notin Judging'
    BY <1>0, <1>3, HowEntered DEF Judging, InStep, At, CompleteWrite
  <2> QED BY <1>0, <1>1, <1>3, <2>1, VerdictsMove DEF Own
<1> QED BY <1>2, <1>3

(* A claimed order has its bill, and keeps it. *)
LEMMA BillStays ==
  ASSUME IInv, Next, Claimed
  PROVE  /\ Bill = [coordinator |-> coordinator, payers |-> Contributors]
         /\ Bill # NoBill /\ Bill' = Bill
<1>1. Bill = [coordinator |-> coordinator, payers |-> Contributors]
  BY DEF Bill
<1>2. Contributors' = Contributors
  BY ContributorsStay, LateClaimRollsBack
<1> QED BY <1>1, <1>2, ClaimStays DEF Bill, NoBill, Claimed

(* The claim draws up the bill. *)
LEMMA ClaimDrawsUp ==
  ASSUME IInv, Next, NEW r \in Reqs, ClaimCommit(r)
  PROVE  Ledger!DrawUp
<1>1. /\ ~Claimed /\ Contributors = {} /\ Claimed'
      /\ coordinator' \in Users /\ Contributors' = req[r].who
      /\ req[r].who # {} /\ req[r].who \subseteq Users
  BY LateClaimRollsBack, ClaimWrites DEF IInv, TypeOK
<1>2. Bill = NoBill
  BY <1>1 DEF Bill
<1>3. Bill' = [coordinator |-> coordinator', payers |-> req[r].who]
  BY <1>1 DEF Bill
<1>4. contrib' = [v \in Users |-> IF v \in req[r].who THEN "PENDING" ELSE "NONE"]
  BY <1>1 DEF ClaimCommit, Contributors
<1>5. ~CompleteReadContributions(r) /\ ~CompleteEvents(r)
  BY DEF ClaimCommit, CompleteReadContributions, CompleteEvents, At
<1>6. Verdicts' = Verdicts
  BY <1>5, VerdictsStay DEF Serve
<1>7. Outcomes' = Outcomes
  BY DEF ClaimCommit, records, Outcomes
<1> QED BY <1>1, <1>2, <1>3, <1>4, <1>6, <1>7 DEF Ledger!DrawUp

(* Self-reports, confirmations and the webhook move one share of the bill. *)
LEMMA SharesMove ==
  ASSUME IInv, SettlementInv, Next,
         \/ \E r \in Reqs : PayWrite(r) \/ ConfirmWrite(r)
         \/ PaymentWebhook
  PROVE  [Ledger!Report \/ Ledger!Settle]_(Ledger!ledger)
<1>1. Contributors # {} => Claimed
  BY DEF IInv, SplitWithinCart
<1>2. Claimed \/ Contributors = {}
  BY <1>1
<1>3. Outcomes' = Outcomes
  BY DEF PayWrite, ConfirmWrite, PaymentWebhook, records, Outcomes
<1>4. Verdicts' = Verdicts
  <2>1. CASE PaymentWebhook
    BY <2>1 DEF PaymentWebhook, Verdicts, Judging, InStep
  <2>2. ASSUME NEW r \in Reqs, PayWrite(r) \/ ConfirmWrite(r)
        PROVE  Verdicts' = Verdicts
    <3>1. ~CompleteReadContributions(r) /\ ~CompleteEvents(r)
      BY <2>2 DEF PayWrite, ConfirmWrite, CompleteReadContributions,
         CompleteEvents, At
    <3> QED BY <2>2, <3>1, VerdictsStay DEF Serve
  <2> QED BY <2>1, <2>2
<1>5. ASSUME NEW r \in Reqs, PayWrite(r)
      PROVE  Ledger!Report
  <2>1. ~OptionB
    BY <1>5 DEF SettlementInv, NoSelfReports, PayWrite
  <2>2. req[r].by \in Contributors
    BY <1>5 DEF IInv, SharesGrounded, PayWrite
  <2>3. contrib' = [contrib EXCEPT ![req[r].by] = "CLAIMED_PAID"]
    BY <1>5 DEF PayWrite
  <2>4. Bill # NoBill /\ Bill' = Bill /\ Bill.payers = Contributors
    BY <1>1, <2>2, BillStays
  <2> QED BY <1>3, <1>4, <2>1, <2>2, <2>3, <2>4 DEF Ledger!Report
<1>6. ASSUME NEW u \in Contributors, contrib' = [contrib EXCEPT ![u] = "PAID"]
      PROVE  Ledger!Settle
  <2>1. Bill # NoBill /\ Bill' = Bill /\ Bill.payers = Contributors
    BY <1>1, BillStays
  <2> QED BY <1>3, <1>4, <1>6, <2>1 DEF Ledger!Settle
<1>7. ASSUME NEW r \in Reqs, ConfirmWrite(r), req[r].payer \notin Contributors
      PROVE  UNCHANGED Ledger!ledger
  <2>1. UNCHANGED <<contrib, coordinator>>
    BY <1>7 DEF ConfirmWrite, group
  <2>2. Bill' = Bill
    BY <2>1 DEF Bill, Claimed, Contributors, NoBill
  <2> QED BY <1>3, <1>4, <2>1, <2>2 DEF Ledger!ledger
<1> QED BY <1>5, <1>6, <1>7 DEF ConfirmWrite, PaymentWebhook

(* complete judges every payer by one look at the rows. *)
LEMMA CompleteJudges ==
  ASSUME IInv, SettlementInv, Next, NEW r \in Reqs, CompleteReadContributions(r)
  PROVE  Ledger!Judge
<1>0. req \in [Reqs -> Request] /\ req[r] \in Request
  BY SlotsTyped
<1>1. Claimed /\ req[r].by = coordinator
  BY DEF SettlementInv, CompletersKnown, InStep, CompleteReadContributions, At
<1>2. /\ req'[r].pc = "completeWrite"
      /\ req'[r].batch = {<<u, OutcomeOf(u)>> : u \in Contributors}
                            \cup {<<req[r].by, "COORDINATOR_COMPLETED">>}
  BY <1>0 DEF CompleteReadContributions, Becomes, Request
<1>3. req'[r].batch = Ledger!Verdict
  BY <1>1, <1>2, BillStays DEF Ledger!Verdict, OutcomeOf
<1>4. Own(r) = {} /\ Own(r)' = {req'[r].batch}
  BY <1>2 DEF Own, Judging, InStep, CompleteReadContributions, At
<1>5. PICK q : Becomes(r, q)
  BY DEF CompleteReadContributions
<1>6. Verdicts' = Verdicts \cup {Ledger!Verdict}
  BY <1>0, <1>3, <1>4, <1>5, VerdictsMove
<1>7. contrib' = contrib /\ Outcomes' = Outcomes
  BY DEF CompleteReadContributions, shares, records, Outcomes
<1> QED BY <1>1, <1>6, <1>7, BillStays DEF Ledger!Judge

(* It inserts what it judged, and nothing else. *)
LEMMA CompleteRecords ==
  ASSUME IInv, SettlementInv, Next, NEW r \in Reqs, CompleteEvents(r)
  PROVE  Ledger!Record
<1>0. req \in [Reqs -> Request] /\ req[r] \in Request
  BY SlotsTyped
<1>1. Claimed
  BY DEF SettlementInv, CompletersKnown, InStep, CompleteEvents, At
<1>2. Outcomes' = Outcomes \cup req[r].batch
  BY DEF CompleteEvents, Outcomes, SettlementInv, BatchesJudge
<1>3. r \in Judging /\ Own(r) = {req[r].batch}
  BY DEF Own, Judging, InStep, CompleteEvents, At
<1>4. req'[r].pc = "completeAudit"
  BY <1>0, GotoAt DEF CompleteEvents
<1>5. Own(r)' = {}
  BY <1>4 DEF Own, Judging, InStep
<1>6. PICK q : Becomes(r, q)
  BY WritesItsSlot DEF Serve
<1>7. PICK others : /\ Verdicts = others \cup {req[r].batch}
                    /\ Verdicts' = others
  BY <1>0, <1>3, <1>5, <1>6, VerdictsMove
<1>8. /\ req[r].batch \in Verdicts
      /\ Verdicts' \in {Verdicts, Verdicts \ {req[r].batch}}
  BY <1>7
<1>9. contrib' = contrib
  BY DEF CompleteEvents, shares
<1> QED BY <1>1, <1>2, <1>8, <1>9, BillStays DEF Ledger!Record

(* A completion that dies takes its verdict with it, unless another came   *)
(* to the same one.                                                        *)
LEMMA CrashForgets ==
  ASSUME IInv, Next, NEW r \in Reqs, Crash(r)
  PROVE  [Ledger!Forget]_(Ledger!ledger)
<1>0. req \in [Reqs -> Request] /\ req[r] \in Request
  BY SlotsTyped
<1>1. req'[r].pc = "idle"
  BY <1>0, ReplyAt DEF Crash
<1>2. Own(r)' = {}
  BY <1>1 DEF Own, Judging, InStep
<1>3. PICK q : Becomes(r, q)
  BY WritesItsSlot
<1>4. UNCHANGED <<contrib, coordinator>> /\ Outcomes' = Outcomes /\ WithCrash
  BY DEF Crash, group, shares, records, Outcomes
<1>5. Bill' = Bill
  BY <1>4 DEF Bill, Claimed, Contributors, NoBill
<1>6. PICK others : Verdicts = others \cup Own(r) /\ Verdicts' = others
  BY <1>0, <1>2, <1>3, VerdictsMove
<1>7. \/ Verdicts' = Verdicts
      \/ \E v \in Verdicts : Verdicts' = Verdicts \ {v}
  BY <1>6 DEF Own
<1> QED BY <1>4, <1>5, <1>7 DEF Ledger!Forget, Ledger!ledger

(* Everything else leaves the ledger alone: a confirmation's event is no   *)
(* outcome, and arrivals, joins, recomputes, disputes and the sweep write  *)
(* other columns.                                                          *)
LEMMA LedgerStays ==
  ASSUME IInv, Next, contrib' = contrib, coordinator' = coordinator,
         Verdicts' = Verdicts, \A r \in Reqs : ~CompleteEvents(r)
  PROVE  UNCHANGED Ledger!ledger
<1>1. Bill' = Bill
  BY DEF Bill, Claimed, Contributors, NoBill
<1>2. Outcomes' = Outcomes
  <2>1. CASE events' = events
    BY <2>1 DEF Outcomes
  <2>2. ASSUME NEW r \in Reqs, ConfirmEvent(r)
        PROVE  Outcomes' = Outcomes
    BY <2>2 DEF ConfirmEvent, Outcomes
  <2> QED BY <2>1, <2>2, EventWriters
<1> QED BY <1>1, <1>2 DEF Ledger!ledger

(* Every step is a ledger step or leaves the ledger unchanged. *)
LEMMA LedgerStep ==
  ASSUME IInv, SettlementInv, Next
  PROVE  [Ledger!LedgerNext]_(Ledger!ledger)
<1>1. CASE \E r \in Reqs : ClaimCommit(r)
  BY <1>1, ClaimDrawsUp DEF Ledger!LedgerNext
<1>2. CASE \/ \E r \in Reqs : PayWrite(r) \/ ConfirmWrite(r)
           \/ PaymentWebhook
  BY <1>2, SharesMove DEF Ledger!LedgerNext
<1>3. CASE \E r \in Reqs : CompleteReadContributions(r)
  BY <1>3, CompleteJudges DEF Ledger!LedgerNext
<1>4. CASE \E r \in Reqs : CompleteEvents(r)
  BY <1>4, CompleteRecords DEF Ledger!LedgerNext
<1>5. CASE \E r \in Reqs : Crash(r)
  BY <1>5, CrashForgets DEF Ledger!LedgerNext
<1>6. CASE /\ ~PaymentWebhook
           /\ \A r \in Reqs : /\ ~ClaimCommit(r) /\ ~PayWrite(r)
                              /\ ~ConfirmWrite(r) /\ ~Crash(r)
                              /\ ~CompleteReadContributions(r)
                              /\ ~CompleteEvents(r)
  <2>1. contrib' = contrib /\ coordinator' = coordinator
    BY <1>6, ContribWriters, ClaimWriters
  <2>2. Verdicts' = Verdicts
    <3>1. CASE \E r \in Reqs : Arrive(r) \/ Serve(r)
      BY <1>6, <3>1, VerdictsStay
    <3>2. CASE req' = req
      BY <3>2 DEF Verdicts, Judging, InStep
    <3> QED BY <1>6, <3>1, <3>2
        DEF Next, Deadline, SweepRead, SweepWrite, SweepCrash
  <2> QED BY <1>6, <2>1, <2>2, LedgerStays
<1> QED BY <1>1, <1>2, <1>3, <1>4, <1>5, <1>6

(* Whatever requests race and die, those on the bill are kept the ledger's *)
(* promises: their shares' statuses move only as it says, PAID is final    *)
(* with the gateway, and what is recorded of them is what one look at all  *)
(* of their rows showed.                                                   *)
THEOREM Implementation == Spec => ImplementsLedger
<1>1. Init => Ledger!LedgerInit
  BY DEF Init, Ledger!LedgerInit, Bill, Claimed, Verdicts, Judging, InStep,
     Idle, Outcomes
<1>2. IInv /\ SettlementInv /\ [Next]_vars => [Ledger!LedgerNext]_(Ledger!ledger)
  <2>1. ASSUME UNCHANGED vars PROVE UNCHANGED Ledger!ledger
    BY <2>1 DEF vars, group, shares, records, Ledger!ledger, Bill, Claimed,
       NoBill, Contributors, Verdicts, Judging, InStep, Outcomes
  <2> QED BY <2>1, LedgerStep
<1> QED BY <1>1, <1>2, Invariance, SettlementInvariance, PTL
    DEF Spec, Ledger!LedgerSpec, ImplementsLedger

-----------------------------------------------------------------------------
(* The audit trail *)

(* Audit rows are never deleted. *)
LEMMA AuditGrows ==
  ASSUME Next
  PROVE  audit \subseteq audit'
<1>1. CASE audit' = audit
  BY <1>1
<1>2. CASE audit' # audit
  BY <1>2, AuditWriters DEF ClaimAudit, ConfirmAudit, CompleteAudit,
     DisputeAudit, ResolveAudit
<1> QED BY <1>1, <1>2

(* A request that owes an audit row still owes it, or has written it. *)
LEMMA RowIsOwed ==
  ASSUME ~WithCrash, req \in [Reqs -> Request], Next, NEW r \in Reqs,
         req[r].pc \in {"claimAudit", "confirmEvent", "confirmAudit",
                       "completeEvents", "completeAudit", "disputeAudit"}
  PROVE  \/ req'[r] = req[r]
         \/ /\ req'[r].by = req[r].by /\ req'[r].payer = req[r].payer
            /\ \/ At(r, "confirmEvent") /\ At(r, "confirmAudit")'
               \/ At(r, "completeEvents") /\ At(r, "completeAudit")'
         \/ ClaimAudit(r) \/ ConfirmAudit(r) \/ CompleteAudit(r) \/ DisputeAudit(r)
<1>1. SUFFICES ASSUME req'[r] # req[r]
      PROVE  \/ ClaimAudit(r) \/ ConfirmEvent(r) \/ ConfirmAudit(r)
             \/ CompleteEvents(r) \/ CompleteAudit(r) \/ DisputeAudit(r)
  BY GotoAt DEF ConfirmEvent, CompleteEvents, At
<1>2. Serve(r)
  BY <1>1, HowLeft
<1> QED BY <1>2 DEF Serve, At, RecomputeReadRow, RecomputeReadItems,
       RecomputeWrite, JoinInsert, ClaimReadItems, ClaimCommit, ClaimRollback,
       PayWrite, ConfirmWrite, CompleteReadContributions, CompleteWrite,
       DisputeCreate, DisputeStatus, ResolveAudit

(* A claim has its row, or its request is about to write it. *)
LEMMA ClaimAuditStep ==
  ASSUME ~WithCrash, IInv, ClaimAudited, Next
  PROVE  ClaimAudited'
<1>0. req \in [Reqs -> Request]
  BY SlotsTyped
<1>1. SUFFICES ASSUME Claimed' PROVE ClaimAudited'
  BY DEF ClaimAudited
<1>2. ASSUME NEW r \in Reqs, ClaimCommit(r)
      PROVE  ClaimAudited'
  <2>1. coordinator' = req[r].by
    BY <1>2 DEF ClaimCommit
  <2>2. At(r, "claimAudit")' /\ req'[r].by = req[r].by
    BY <1>0, <1>2, GotoAt DEF ClaimCommit, At
  <2> QED BY <2>1, <2>2 DEF ClaimAudited
<1>3. CASE ~\E r \in Reqs : ClaimCommit(r)
  <2>1. Claimed /\ coordinator' = coordinator
    BY <1>1, <1>3, ClaimWriters DEF Claimed
  <2>2. CASE <<"coordinator.claim", coordinator>> \in audit
    BY <2>1, <2>2, AuditGrows DEF ClaimAudited
  <2>3. ASSUME NEW r \in Reqs, At(r, "claimAudit"), req[r].by = coordinator
        PROVE  ClaimAudited'
    <3>1. req'[r] = req[r] \/ ClaimAudit(r)
      BY <1>0, <2>3, RowIsOwed DEF At, ConfirmAudit, CompleteAudit, DisputeAudit
    <3> QED BY <2>1, <2>3, <3>1 DEF ClaimAudited, At, ClaimAudit
  <2> QED BY <2>1, <2>2, <2>3 DEF ClaimAudited
<1> QED BY <1>2, <1>3

(* A confirmed payment has its row, or its request still works on it. *)
LEMMA PaymentAuditStep ==
  ASSUME ~WithCrash, ~OptionB, IInv, PaymentsAudited, Next
  PROVE  PaymentsAudited'
<1> DEFINE Confirming == {"confirmEvent", "confirmAudit"}
<1>0. req \in [Reqs -> Request]
  BY SlotsTyped
<1>1. SUFFICES ASSUME NEW u \in paidAt'
      PROVE  \/ <<"payment.confirmed", u>> \in audit'
             \/ \E r \in Reqs : req'[r].pc \in Confirming /\ req'[r].payer = u
  BY DEF PaymentsAudited, InStep
<1>2. CASE u \in paidAt
  <2>1. CASE <<"payment.confirmed", u>> \in audit
    BY <2>1, AuditGrows
  <2>2. ASSUME NEW r \in Reqs, req[r].pc \in Confirming, req[r].payer = u
        PROVE  \/ <<"payment.confirmed", u>> \in audit'
               \/ req'[r].pc \in Confirming /\ req'[r].payer = u
    <3>1. \/ req'[r] = req[r]
          \/ req'[r].payer = req[r].payer /\ At(r, "confirmAudit")'
          \/ ConfirmAudit(r)
      BY <1>0, <2>2, RowIsOwed DEF At, ClaimAudit, CompleteAudit, DisputeAudit
    <3> QED BY <2>2, <3>1 DEF At, ConfirmAudit
  <2> QED BY <1>2, <2>1, <2>2 DEF PaymentsAudited, InStep
<1>3. CASE u \notin paidAt
  <2>1. PICK r \in Reqs : ConfirmWrite(r)
    BY <1>3, SharesWriters DEF PaymentWebhook
  <2>2. u = req[r].payer /\ Goto(r, "confirmEvent")
    BY <1>3, <2>1 DEF ConfirmWrite
  <2> QED BY <1>0, <2>2, GotoAt
<1> QED BY <1>2, <1>3

(* A completed order has its row, or its completion still works on it. *)
LEMMA CompletionAuditStep ==
  ASSUME ~WithCrash, IInv, CompletersKnown, CompletionAudited, Next
  PROVE  CompletionAudited'
<1> DEFINE Closing == {"completeEvents", "completeAudit"}
<1>0. req \in [Reqs -> Request]
  BY SlotsTyped
<1>1. SUFFICES ASSUME status' = "COMPLETED"
      PROVE  \/ <<"order.completed", coordinator'>> \in audit'
             \/ \E r \in Reqs : req'[r].pc \in Closing
  BY DEF CompletionAudited, InStep
<1>2. CASE status = "COMPLETED"
  <2>1. CASE <<"order.completed", coordinator>> \in audit /\ Claimed
    BY <2>1, AuditGrows, ClaimStays
  <2>2. CASE <<"order.completed", coordinator>> \in audit /\ ~Claimed
    BY <2>2, UsersAssumption DEF Claimed, IInv, TypeOK
  <2>3. ASSUME NEW r \in Reqs, req[r].pc \in Closing
        PROVE  \/ <<"order.completed", coordinator'>> \in audit'
               \/ req'[r].pc \in Closing
    <3>1. Claimed /\ req[r].by = coordinator
      BY <2>3 DEF CompletersKnown, InStep
    <3>2. \/ req'[r] = req[r] \/ At(r, "completeAudit")' \/ CompleteAudit(r)
      BY <1>0, <2>3, RowIsOwed DEF At, ClaimAudit, ConfirmAudit, DisputeAudit
    <3> QED BY <2>3, <3>1, <3>2, ClaimStays DEF At, CompleteAudit
  <2> QED BY <1>2, <2>1, <2>2, <2>3 DEF CompletionAudited, InStep
<1>3. CASE status # "COMPLETED"
  <2>1. PICK r \in Reqs : CompleteWrite(r)
    BY <1>1, <1>3, StatusWriters DEF CreateGroup, RecomputeWrite, ClaimCommit,
       DisputeStatus, SweepWrite, IInv, RecomputeGrounded
  <2> QED BY <1>0, <2>1, GotoAt DEF CompleteWrite
<1> QED BY <1>2, <1>3

(* A dispute has its row, or its request is about to write it. *)
LEMMA DisputeAuditStep ==
  ASSUME ~WithCrash, IInv, DisputesAudited, Next
  PROVE  DisputesAudited'
<1>0. req \in [Reqs -> Request] /\ CallersKnown
  BY SlotsTyped DEF IInv
<1>1. SUFFICES ASSUME status' = "DISPUTED"
      PROVE  \/ \E u \in Users : <<"dispute.raised", u>> \in audit'
             \/ \E r \in Reqs : req'[r].pc = "disputeAudit"
  BY DEF DisputesAudited, At
<1>2. CASE status = "DISPUTED"
  <2>1. ASSUME NEW r \in Reqs, At(r, "disputeAudit")
        PROVE  \/ \E u \in Users : <<"dispute.raised", u>> \in audit'
               \/ req'[r].pc = "disputeAudit"
    <3>1. req[r].by \in Users
      BY <1>0, <2>1 DEF CallersKnown, At
    <3>2. req'[r] = req[r] \/ DisputeAudit(r)
      BY <1>0, <2>1, RowIsOwed DEF At, ClaimAudit, ConfirmAudit, CompleteAudit
    <3> QED BY <2>1, <3>1, <3>2 DEF At, DisputeAudit
  <2> QED BY <1>2, <2>1, AuditGrows DEF DisputesAudited
<1>3. CASE status # "DISPUTED"
  <2>1. PICK r \in Reqs : DisputeStatus(r)
    BY <1>1, <1>3, StatusWriters DEF CreateGroup, RecomputeWrite, ClaimCommit,
       CompleteWrite, SweepWrite, IInv, RecomputeGrounded
  <2> QED BY <1>0, <2>1, GotoAt DEF DisputeStatus
<1> QED BY <1>2, <1>3

(* As long as no request dies half-way and payments are confirmed by the   *)
(* coordinator, what audit.ts promises holds: every claim, confirmed       *)
(* payment, completion and dispute has its audit row, or the request that  *)
(* did it is still about to write it.                                      *)
THEOREM AuditIsComplete == ~WithCrash /\ ~OptionB => (Spec => []AuditTrail)
<1> SUFFICES ASSUME ~WithCrash, ~OptionB PROVE Spec => []AuditTrail
  OBVIOUS
<1>1. Init => AuditTrail
  BY DEF Init, AuditTrail, ClaimAudited, PaymentsAudited, CompletionAudited,
     DisputesAudited, Claimed
<1>2. IInv /\ SettlementInv /\ AuditTrail /\ [Next]_vars => AuditTrail'
  <2>1. ASSUME IInv, SettlementInv, AuditTrail, Next PROVE AuditTrail'
    BY <2>1, ClaimAuditStep, PaymentAuditStep, CompletionAuditStep,
       DisputeAuditStep DEF AuditTrail, SettlementInv
  <2>2. ASSUME AuditTrail, UNCHANGED vars PROVE AuditTrail'
    BY <2>2 DEF vars, group, shares, records, AuditTrail, ClaimAudited,
       PaymentsAudited, CompletionAudited, DisputesAudited, Claimed, At, InStep
  <2> QED BY <2>1, <2>2
<1> QED BY <1>1, <1>2, Invariance, SettlementInvariance, PTL DEF Spec
=============================================================================
