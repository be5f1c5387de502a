--------------------------- MODULE NoticesProofs ---------------------------
(***************************************************************************)
(* Proofs about Notices: its steps are steps of GroupOrder, or leave the   *)
(* order alone, so IInv holds there too; whoever is asked to pay owes,     *)
(* although the requests are sent out after the transaction that bills;    *)
(* and a crossing of the minimum is announced, though the request that     *)
(* writes the new status need not be the one that announces it.            *)
(***************************************************************************)
EXTENDS Notices, SettlementProofs

(* A notice changes nothing of the order. *)
LEMMA OrderSteps ==
  ASSUME NoticesNext
  PROVE  [Next]_vars
<1>1. CASE \E r \in Reqs : Arriving(r) \/ Serving(r)
  BY <1>1 DEF Arriving, Serving, Next
<1>2. CASE Announce \/ PushJob
  BY <1>2 DEF Announce, PushJob
<1>3. CASE Deadline \/ Sweeping
  BY <1>3 DEF Sweeping, Next
<1> QED BY <1>1, <1>2, <1>3 DEF NoticesNext

(* Whatever is announced to whom, and whenever the push worker runs, the   *)
(* routes and the sweep behave as GroupOrder says: what is proved of its   *)
(* runs holds with the notices.                                            *)
THEOREM NoticesImplementOrder == NoticesSpec => Spec
<1>1. NoticesInit => Init
  BY DEF NoticesInit
<1>2. [NoticesNext]_noticeVars => [Next]_vars
  BY OrderSteps DEF noticeVars
<1> QED BY <1>1, <1>2, PTL DEF NoticesSpec, Spec

(* So the members are promised the ledger there too: one bill, statuses    *)
(* that move as it says, and no outcome but what one look at all of the    *)
(* payers' rows showed.                                                    *)
THEOREM NoticesKeepLedger == NoticesSpec => ImplementsLedger
BY NoticesImplementOrder, Implementation, PTL

(* The invariants of GroupOrder hold with its notices. *)
THEOREM NoticesInvariance == NoticesSpec => []IInv
<1>1. NoticesInit => IInv
  BY InitIInv DEF NoticesInit
<1>2. IInv /\ [NoticesNext]_noticeVars => IInv'
  BY OrderSteps, NextIInv DEF noticeVars
<1> QED BY <1>1, <1>2, PTL DEF NoticesSpec

(* So do those about its settlement. *)
LEMMA NoticesSettlement == NoticesSpec => []SettlementInv
<1>1. NoticesInit => SettlementInv
  BY InitSettlement DEF NoticesInit
<1>2. IInv /\ SettlementInv /\ [NoticesNext]_noticeVars => SettlementInv'
  BY OrderSteps, NextSettlement DEF noticeVars
<1> QED BY <1>1, <1>2, NoticesInvariance, PTL DEF NoticesSpec

-----------------------------------------------------------------------------
(* Those who are asked to pay *)

(* After a claim's transaction its request holds the users it billed, and  *)
(* nobody is asked to pay before that request asks all of them at once.    *)
Asked == Told("Pay your share")
BillIsHeld ==
  \A r \in Reqs : At(r, "claimAudit") => Claimed /\ req[r].who = Contributors
AskedTogether == /\ Asked = {} \/ (Claimed /\ Asked = Contributors)
                 /\ Claimed /\ Asked = {} => \E r \in Reqs : At(r, "claimAudit")
AskedInv == BillIsHeld /\ AskedTogether

(* Other notices are not about payments. *)
LEMMA OtherNotices ==
  ASSUME NEW who, Notify(who, "Minimum order reached!")
  PROVE  Asked' = Asked
  BY DEF Notify, Asked, Told

(* Asking adds those who are asked. *)
LEMMA AskThem ==
  ASSUME NEW who \in SUBSET Users, Notify(who, "Pay your share")
  PROVE  Asked' = Asked \cup who
  BY DEF Notify, Asked, Told

(* A claim that is taken keeps its payers. *)
LEMMA PayersStay ==
  ASSUME IInv, Next, Claimed
  PROVE  Claimed' /\ Contributors' = Contributors
<1>1. ~\E r \in Reqs : ClaimCommit(r)
  BY LateClaimRollsBack
<1> QED BY <1>1, ClaimWriters, ContributorsStay DEF Claimed

(* The request that has to ask the payers knows them. *)
LEMMA BillStep ==
  ASSUME IInv, BillIsHeld, Next
  PROVE  BillIsHeld'
<1>0. req \in [Reqs -> Request]
  BY DEF IInv, TypeOK
<1>1. SUFFICES ASSUME NEW r \in Reqs, At(r, "claimAudit")'
      PROVE  Claimed' /\ req'[r].who = Contributors'
  BY DEF BillIsHeld
<1>2. CASE req'[r] = req[r]
  BY <1>1, <1>2, PayersStay DEF BillIsHeld, At
<1>3. CASE req'[r] # req[r]
  <2>1. ClaimCommit(r)
    BY <1>0, <1>1, <1>3, HowEntered
  <2>2. req'[r].who = req[r].who
    BY <1>0, <2>1 DEF ClaimCommit, Goto, Becomes, Request
  <2> QED BY <2>1, <2>2, ClaimWrites
<1> QED BY <1>2, <1>3

(* A step of the order that asks nobody keeps the request that will ask.   *)
LEMMA QuietStep ==
  ASSUME IInv, AskedInv, Next, Asked' = Asked,
         \A r \in Reqs : At(r, "claimAudit") => req'[r] = req[r]
  PROVE  AskedTogether'
<1>0. req \in [Reqs -> Request]
  BY DEF IInv, TypeOK
<1>1. CASE Claimed
  BY <1>1, PayersStay DEF AskedInv, AskedTogether, At
<1>2. CASE ~Claimed /\ Claimed'
  <2>1. PICK r \in Reqs : ClaimCommit(r)
    BY <1>2, ClaimWriters DEF Claimed
  <2>2. At(r, "claimAudit")'
    BY <1>0, <2>1, GotoAt DEF ClaimCommit, At
  <2> QED BY <1>2, <2>2 DEF AskedInv, AskedTogether
<1>3. CASE ~Claimed /\ ~Claimed'
  BY <1>3 DEF AskedInv, AskedTogether
<1> QED BY <1>1, <1>2, <1>3

(* The claim asks everybody it billed. *)
LEMMA AskingStep ==
  ASSUME IInv, AskedInv, NEW r \in Reqs, Serving(r), At(r, "claimAudit")
  PROVE  AskedTogether'
<1>1. Claimed /\ req[r].who = Contributors /\ Contributors \subseteq Users
  BY DEF AskedInv, BillIsHeld, Contributors
<1>2. Next
  BY DEF Serving, Next
<1>3. Asked' = Contributors
  BY <1>1, AskThem DEF Serving, TellsPayers, AskedInv, AskedTogether
<1>4. Contributors # {}
  BY <1>1 DEF IInv, SplitWithinCart
<1> QED BY <1>1, <1>2, <1>3, <1>4, PayersStay DEF AskedTogether

(* Every step keeps those who are asked to pay the ones who owe. *)
LEMMA AskedStep ==
  ASSUME IInv, AskedInv, NoticesNext
  PROVE  AskedInv'
<1>0. req \in [Reqs -> Request]
  BY DEF IInv, TypeOK
<1>1. ASSUME NEW r \in Reqs, Serving(r), At(r, "claimAudit")
      PROVE  AskedInv'
  BY <1>1, AskingStep, BillStep DEF AskedInv, Serving, Next
<1>2. ASSUME NEW r \in Reqs, Arriving(r) \/ (Serving(r) /\ ~At(r, "claimAudit"))
      PROVE  AskedInv'
  <2>1. Next /\ Asked' = Asked
    BY <1>2 DEF Arriving, Serving, TellsPayers, Next, Asked, Told
  <2>2. ~At(r, "claimAudit")
    <3>1. Arriving(r) => req[r] = Idle
      BY DEF Arriving, Arrive, Free, CreateGroup, JoinRead, ClaimRead, PayRead,
         ConfirmRead, CompleteRead, DisputeRead, ResolveDispute
    <3> QED BY <1>2, <3>1 DEF At, Idle
  <2>3. \A p \in Reqs \ {r} : req'[p] = req[p]
    BY <1>0, <1>2, WritesItsSlot, BecomesAt DEF Arriving, Serving
  <2> QED BY <2>1, <2>2, <2>3, QuietStep, BillStep DEF AskedInv
<1>3. CASE (Deadline \/ Sweeping) /\ UNCHANGED notices
  <2>1. Next /\ Asked' = Asked /\ req' = req
    BY <1>3 DEF notices, Sweeping, Deadline, SweepRead, SweepWrite, Next, Asked,
       Told
  <2> QED BY <2>1, QuietStep, BillStep DEF AskedInv
<1>4. CASE Announce \/ PushJob
  <2>1. Asked' = Asked /\ UNCHANGED vars
    BY <1>4, OtherNotices DEF Announce, PushJob, Asked, Told
  <2> QED BY <2>1 DEF vars, group, shares, AskedInv, BillIsHeld, AskedTogether,
         Claimed, Contributors, At
<1> QED BY <1>1, <1>2, <1>3, <1>4 DEF NoticesNext

(* Whatever claims, payments and sweeps race, those who are asked to pay   *)
(* are those who owe, and nobody is left out once the claim is done.       *)
THEOREM PayersTold == NoticesSpec => []PayersAreTold
<1>1. NoticesInit => AskedInv
  BY DEF NoticesInit, Init, AskedInv, BillIsHeld, AskedTogether, Asked, Told,
     Claimed, At, Idle
<1>2. IInv /\ AskedInv /\ [NoticesNext]_noticeVars => AskedInv'
  <2>1. ASSUME AskedInv, UNCHANGED noticeVars PROVE AskedInv'
    BY <2>1 DEF noticeVars, notices, vars, group, shares, AskedInv, BillIsHeld,
       AskedTogether, Asked, Told, Claimed, Contributors, At
  <2> QED BY <2>1, AskedStep
<1>3. AskedInv => PayersAreTold
  BY DEF AskedInv, AskedTogether, PayersAreTold, Asked
<1> QED BY <1>1, <1>2, <1>3, NoticesInvariance, PTL DEF NoticesSpec

-----------------------------------------------------------------------------
(* Those who are told of the crossing *)

(* A create's own recompute may notice a crossing and tells nobody; there  *)
(* is one create, and with small carts it does not cross by itself.        *)
SmallCarts == \A a \in Amounts : a < Threshold
Calm == raised = 0 /\ ~due
Creating(r) == was[r] = "ABSENT" /\ InStep(r, Recomputing)
Left == status \notin {"ABSENT", "OPEN"}

(* What a request remembers of the status fits what its recompute reads.   *)
MemoryFits ==
  /\ DOMAIN was = Reqs
  /\ \A r, q \in Reqs : Creating(r) /\ Creating(q) => r = q
  /\ \A r \in Reqs : InStep(r, Recomputing) =>
       was[r] \in {"ABSENT", "OPEN", "THRESHOLD_MET"}
  /\ \A r \in Reqs : At(r, "joinInsert") => was[r] \in ACTIVE_STATUSES
  /\ \A r \in Reqs : was[r] = "THRESHOLD_MET" =>
       /\ Left
       /\ InStep(r, Recomputing \cup {"joinInsert"}) => itemsPaise >= Threshold
       /\ ~At(r, "recWrite")
       /\ At(r, "recItems") => req[r].seen = "THRESHOLD_MET"

(* Whoever claims or completes found the order no longer OPEN; the sweep   *)
(* comes after the deadline.                                               *)
LateSteps == /\ \A r \in Reqs : InStep(r, {"claimItems", "claimTx", "completeRead",
                                           "completeWrite"}) => Left
             /\ sweeping => due
             /\ announcing => members # {}

(* The status left OPEN by an announced crossing, or by the create; and a  *)
(* full cart is announced, or will be, or it is too late for that.         *)
CrossingKnown ==
  SmallCarts /\ Calm =>
    /\ Left => Crossed \/ \A r \in Reqs : ~Creating(r)
    /\ itemsPaise >= Threshold =>
         \/ Crossed \/ \E r \in Reqs : Joining(r)
         \/ status \notin ACTIVE_STATUSES /\ \A r \in Reqs : ~Creating(r)

CrossingInv == MemoryFits /\ LateSteps /\ CrossingKnown

(* A request that is served has not just arrived. *)
LEMMA ServedNotIdle ==
  ASSUME NEW r \in Reqs, Serving(r)
  PROVE  req[r] # Idle
<1>1. req[r].pc # "idle"
  BY DEF Serving, Serve, At, RecomputeReadRow, RecomputeReadItems,
     RecomputeWrite, JoinInsert, ClaimReadItems, ClaimCommit, ClaimRollback,
     ClaimAudit, PayWrite, ConfirmWrite, ConfirmEvent, ConfirmAudit,
     CompleteReadContributions, CompleteWrite, CompleteEvents, CompleteAudit,
     DisputeCreate, DisputeStatus, DisputeAudit, ResolveAudit
<1> QED BY <1>1 DEF Idle

(* Of each slot, what a step does to it and to its memory. *)
LEMMA ForSlot ==
  ASSUME IInv, MemoryFits, NoticesNext, NEW r \in Reqs
  PROVE  \/ req'[r] = req[r] /\ was'[r] = was[r]
         \/ Arriving(r) /\ req[r] = Idle /\ was'[r] = status
         \/ /\ Serving(r) /\ req[r] # Idle
            /\ was'[r] = IF req'[r] = Idle THEN "ABSENT" ELSE was[r]
<1>0. req \in [Reqs -> Request] /\ DOMAIN was = Reqs
  BY DEF IInv, TypeOK, MemoryFits
<1>1. ASSUME NEW q \in Reqs, Arriving(q) \/ Serving(q)
      PROVE  \A p \in Reqs \ {q} : req'[p] = req[p] /\ was'[p] = was[p]
  <2>1. \A p \in Reqs \ {q} : req'[p] = req[p]
    BY <1>0, <1>1, WritesItsSlot, BecomesAt DEF Arriving, Serving
  <2>2. \A p \in Reqs \ {q} : was'[p] = was[p]
    BY <1>0, <1>1 DEF Arriving, Serving, Remember
  <2> QED BY <2>1, <2>2
<1>2. Arriving(r) => req[r] = Idle /\ was'[r] = status
  <2>1. Arriving(r) => req[r] = Idle
    BY DEF Arriving, Arrive, Free, CreateGroup, JoinRead, ClaimRead, PayRead,
       ConfirmRead, CompleteRead, DisputeRead, ResolveDispute
  <2> QED BY <1>0, <2>1 DEF Arriving, Remember
<1>3. Serving(r) => /\ req[r] # Idle
                    /\ was'[r] = IF req'[r] = Idle THEN "ABSENT" ELSE was[r]
  BY <1>0, ServedNotIdle DEF Serving, Remember
<1>4. CASE Announce \/ PushJob \/ ((Deadline \/ Sweeping) /\ UNCHANGED notices)
  BY <1>4 DEF Announce, PushJob, Sweeping, Deadline, SweepRead, SweepWrite,
     notices, vars
<1>5. ASSUME NEW q \in Reqs, Arriving(q) \/ Serving(q), q # r
      PROVE  req'[r] = req[r] /\ was'[r] = was[r]
  BY <1>1, <1>5
<1>6. \/ \E q \in Reqs : Arriving(q) \/ Serving(q)
      \/ Announce \/ PushJob \/ ((Deadline \/ Sweeping) /\ UNCHANGED notices)
  BY DEF NoticesNext
<1> QED BY <1>2, <1>3, <1>4, <1>5, <1>6

(* Who recomputes: a create, or a join, that did before or has just        *)
(* written its items.                                                      *)
LEMMA HowRecomputing ==
  ASSUME IInv, MemoryFits, NoticesNext, NEW r \in Reqs, InStep(r, Recomputing)'
  PROVE  \/ req'[r] = req[r] /\ was'[r] = was[r]
         \/ CreateGroup(r) /\ was'[r] = "ABSENT"
         \/ JoinInsert(r) /\ was'[r] = was[r]
         \/ (RecomputeReadRow(r) \/ RecomputeReadItems(r)) /\ was'[r] = was[r]
<1>0. req \in [Reqs -> Request]
  BY DEF IInv, TypeOK
<1>1. SUFFICES ASSUME req'[r] # req[r]
      PROVE  \/ CreateGroup(r) /\ was'[r] = "ABSENT"
             \/ JoinInsert(r) /\ was'[r] = was[r]
             \/ (RecomputeReadRow(r) \/ RecomputeReadItems(r)) /\ was'[r] = was[r]
  <2>1. req'[r] # Idle
    BY DEF InStep, Recomputing, Idle
  <2>2. req'[r] = req[r] => was'[r] = was[r]
    BY <2>1, ForSlot
  <2> QED BY <2>2
<1>2. Next
  BY <1>1, OrderSteps DEF vars
<1>3. CreateGroup(r) \/ JoinInsert(r) \/ RecomputeReadRow(r) \/ RecomputeReadItems(r)
  BY <1>0, <1>1, <1>2, HowEntered DEF InStep, Recomputing, At
<1>4. req'[r] # Idle
  BY DEF InStep, Recomputing, Idle
<1>5. CreateGroup(r) => status = "ABSENT" /\ req[r] = Idle
  BY DEF CreateGroup, Free
<1>6. JoinInsert(r) \/ RecomputeReadRow(r) \/ RecomputeReadItems(r) => req[r] # Idle
  BY DEF JoinInsert, RecomputeReadRow, RecomputeReadItems, At, Idle
<1>7. req[r] = Idle => was'[r] = status
  BY <1>1, ForSlot
<1>8. req[r] # Idle => was'[r] = was[r]
  BY <1>1, <1>4, ForSlot
<1> QED BY <1>3, <1>5, <1>6, <1>7, <1>8

(* The status leaves OPEN once. *)
LEMMA StaysLeft ==
  ASSUME IInv, Next, Left
  PROVE  Left'
  BY StatusAfter DEF Left

(* The cart grows, with or without a notice. *)
LEMMA GrowsOrStays ==
  ASSUME IInv, NoticesNext
  PROVE  /\ itemsPaise \in Nat /\ itemsPaise' \in Nat /\ itemsPaise <= itemsPaise'
         /\ members \subseteq members'
<1>1. CASE Next
  BY <1>1, CartGrows
<1>2. CASE UNCHANGED vars
  BY <1>2 DEF vars, cart, IInv, TypeOK
<1> QED BY <1>1, <1>2, OrderSteps

(* There is one create, and nothing else before it. *)
LEMMA HowCreating ==
  ASSUME IInv, MemoryFits, NoticesNext, NEW r \in Reqs, Creating(r)'
  PROVE  \/ Creating(r)
         \/ /\ CreateGroup(r) /\ status = "ABSENT"
            /\ \A p \in Reqs : ~InStep(p, Recomputing)
<1>1. InStep(r, Recomputing)' /\ was'[r] = "ABSENT"
  BY DEF Creating
<1>2. CASE CreateGroup(r)
  <2>1. status = "ABSENT"
    BY <1>2 DEF CreateGroup
  <2> QED BY <1>2, <2>1 DEF IInv, RowExists, InStep, Recomputing, Idle
<1>3. CASE ~CreateGroup(r)
  <2>1. ~JoinInsert(r) \/ was[r] # "ABSENT"
    BY DEF JoinInsert, MemoryFits, ACTIVE_STATUSES
  <2>2. was[r] = "ABSENT"
    BY <1>1, <1>3, HowRecomputing
  <2>3. InStep(r, Recomputing)
    BY <1>1, <1>3, <2>1, <2>2, HowRecomputing DEF RecomputeReadRow,
       RecomputeReadItems, InStep, Recomputing, At
  <2> QED BY <2>2, <2>3 DEF Creating
<1> QED BY <1>2, <1>3

(* Every step keeps memories fitting. *)
LEMMA MemoryStep ==
  ASSUME IInv, MemoryFits, NoticesNext
  PROVE  MemoryFits'
<1>0. req \in [Reqs -> Request]
  BY DEF IInv, TypeOK
<1>1. DOMAIN was' = Reqs
  BY DEF NoticesNext, Arriving, Serving, Remember, Announce, PushJob, notices,
     MemoryFits
<1>2. ASSUME NEW r \in Reqs, NEW q \in Reqs, Creating(r)', Creating(q)'
      PROVE  r = q
  <2>1. CASE Creating(r) /\ Creating(q)
    BY <2>1 DEF MemoryFits
  <2>2. ASSUME CreateGroup(r), CreateGroup(q), r # q
        PROVE  FALSE
    <3>1. req'[r].pc = "recRow" /\ req[r].pc = "idle"
      BY <1>0, <2>2, AcceptAt DEF CreateGroup, Free, Idle
    <3>2. req'[r] = req[r]
      BY <1>0, <2>2, WritesItsSlot, BecomesAt DEF Arrive
    <3> QED BY <3>1, <3>2
  <2> QED BY <1>2, <2>1, <2>2, HowCreating DEF Creating
<1>3. ASSUME NEW r \in Reqs, InStep(r, Recomputing)'
      PROVE  was'[r] \in {"ABSENT", "OPEN", "THRESHOLD_MET"}
  <2>1. JoinInsert(r) => was[r] \in {"OPEN", "THRESHOLD_MET"}
    BY DEF JoinInsert, MemoryFits, ACTIVE_STATUSES
  <2>2. InStep(r, Recomputing) => was[r] \in {"ABSENT", "OPEN", "THRESHOLD_MET"}
    BY DEF MemoryFits
  <2> QED BY <1>3, <2>1, <2>2, HowRecomputing DEF RecomputeReadRow,
         RecomputeReadItems, InStep, Recomputing, At
<1>4. ASSUME NEW r \in Reqs, At(r, "joinInsert")'
      PROVE  was'[r] \in ACTIVE_STATUSES
  <2>1. CASE req'[r] = req[r]
    <3>1. req'[r] # Idle
      BY <1>4 DEF At, Idle
    <3>2. was'[r] = was[r]
      BY <2>1, <3>1, ForSlot
    <3> QED BY <1>4, <2>1, <3>2 DEF MemoryFits, At
  <2>2. CASE req'[r] # req[r]
    <3>1. JoinRead(r)
      BY <1>0, <1>4, <2>2, OrderSteps, HowEntered DEF vars
    <3>2. req[r] = Idle /\ status \in ACTIVE_STATUSES
      BY <3>1 DEF JoinRead, Free
    <3>3. was'[r] = status
      BY <2>2, <3>2, ForSlot
    <3> QED BY <3>2, <3>3
  <2> QED BY <2>1, <2>2
<1>5. ASSUME NEW r \in Reqs, was'[r] = "THRESHOLD_MET"
      PROVE  /\ Left'
             /\ InStep(r, Recomputing \cup {"joinInsert"})'
                  => itemsPaise' >= Threshold
             /\ ~At(r, "recWrite")'
             /\ At(r, "recItems")' => req'[r].seen = "THRESHOLD_MET"
  <2>1. CASE req'[r] = req[r] /\ was'[r] = was[r]
    <3>1. Left /\ Left'
      BY <1>5, <2>1, OrderSteps, StaysLeft DEF MemoryFits, Left, vars, group
    <3>2. InStep(r, Recomputing \cup {"joinInsert"}) => itemsPaise' >= Threshold
      BY <1>5, <2>1, GrowsOrStays, MoneyAssumption DEF MemoryFits
    <3> QED BY <1>5, <2>1, <3>1, <3>2 DEF MemoryFits, InStep, At
  <2>2. CASE Arriving(r) /\ req[r] = Idle /\ was'[r] = status
    <3>1. Next /\ Left /\ itemsPaise >= Threshold
      BY <1>5, <2>2 DEF Arriving, Next, Left, IInv, MinimumReached
    <3>2. Left' /\ itemsPaise' >= Threshold
      BY <3>1, StaysLeft, GrowsOrStays, MoneyAssumption
    <3>3. ~RecomputeReadItems(r) /\ ~RecomputeReadRow(r)
      BY <2>2 DEF RecomputeReadItems, RecomputeReadRow, At, Idle
    <3>4. ~At(r, "recWrite")' /\ ~At(r, "recItems")'
      BY <1>0, <2>2, <3>1, <3>3, HowEntered DEF At, Idle
    <3> QED BY <3>2, <3>4
  <2>3. CASE Serving(r) /\ was'[r] = was[r] /\ req'[r] # req[r]
    <3>1. Next /\ Left /\ Left'
      BY <1>5, <2>3, StaysLeft DEF Serving, Next, MemoryFits
    <3>2. InStep(r, Recomputing \cup {"joinInsert"})' =>
            InStep(r, Recomputing \cup {"joinInsert"})
      <4>1. ~JoinRead(r) /\ ~CreateGroup(r)
        BY <2>3, ServedNotIdle DEF JoinRead, CreateGroup, Free
      <4>2. \/ ~InStep(r, Recomputing \cup {"joinInsert"})'
            \/ JoinInsert(r) \/ RecomputeReadRow(r) \/ RecomputeReadItems(r)
        BY <1>0, <2>3, <3>1, <4>1, HowEntered DEF InStep, Recomputing, At
      <4> QED BY <4>2 DEF InStep, Recomputing, At, JoinInsert,
             RecomputeReadRow, RecomputeReadItems
    <3>3. ~At(r, "recWrite")'
      <4>1. SUFFICES ASSUME At(r, "recWrite")' PROVE FALSE
        OBVIOUS
      <4>2. RecomputeReadItems(r)
        BY <1>0, <2>3, <3>1, <4>1, HowEntered
      <4>3. itemsPaise >= Threshold /\ req[r].seen = "THRESHOLD_MET"
        BY <1>5, <2>3, <4>2 DEF RecomputeReadItems, MemoryFits, InStep,
           Recomputing, At
      <4>4. Reply(r)
        BY <4>2, <4>3 DEF RecomputeReadItems, NextStatus, CrossesThreshold
      <4> QED BY <1>0, <4>1, <4>4, ReplyAt DEF At
    <3>4. At(r, "recItems")' => req'[r].seen = "THRESHOLD_MET"
      <4>1. SUFFICES ASSUME At(r, "recItems")'
                     PROVE  req'[r].seen = "THRESHOLD_MET"
        OBVIOUS
      <4>2. RecomputeReadRow(r)
        BY <1>0, <2>3, <3>1, <4>1, HowEntered
      <4>3. req'[r] = [req[r] EXCEPT !.pc = "recItems", !.seen = status]
        BY <1>0, <4>1, <4>2, BecomesAt, ReplyAt DEF RecomputeReadRow, At
      <4>4. req'[r].seen = status /\ status \in ACTIVE_STATUSES
        BY <1>0, <4>1, <4>2, <4>3, ReplyAt DEF RecomputeReadRow, At, Request
      <4> QED BY <3>1, <4>4 DEF Left, ACTIVE_STATUSES
    <3>5. InStep(r, Recomputing \cup {"joinInsert"}) => itemsPaise' >= Threshold
      BY <1>5, <2>3, GrowsOrStays, MoneyAssumption DEF MemoryFits
    <3> QED BY <3>1, <3>2, <3>3, <3>4, <3>5
  <2> QED BY <1>5, <2>1, <2>2, <2>3, ForSlot
<1> QED BY <1>1, <1>2, <1>3, <1>4, <1>5 DEF MemoryFits

(* Late steps stay late. *)
LEMMA LateStep ==
  ASSUME IInv, MemoryFits, LateSteps, NoticesNext
  PROVE  LateSteps'
<1> DEFINE Later == {"claimItems", "claimTx", "completeRead", "completeWrite"}
<1>0. req \in [Reqs -> Request]
  BY DEF IInv, TypeOK
<1>1. Left => Left'
  BY OrderSteps, StaysLeft DEF Left, vars, group
<1>2. ASSUME NEW r \in Reqs, req'[r].pc \in Later
      PROVE  Left'
  <2>1. CASE req'[r] = req[r]
    BY <1>1, <1>2, <2>1 DEF LateSteps, InStep
  <2>2. CASE req'[r] # req[r]
    <3>1. ClaimRead(r) \/ ClaimReadItems(r) \/ CompleteRead(r)
            \/ CompleteReadContributions(r)
      BY <1>0, <1>2, <2>2, OrderSteps, HowEntered DEF At, vars
    <3>2. Left
      BY <3>1 DEF LateSteps, InStep, At, Left, ClaimRead, ClaimReadItems,
         CompleteRead, CompleteReadContributions
    <3> QED BY <1>1, <3>2
  <2> QED BY <2>1, <2>2
<1>3. sweeping' => due'
  <2>1. CASE UNCHANGED vars
    BY <2>1 DEF vars, sweep, LateSteps
  <2>2. CASE Next
    BY <2>2, SweepWriters DEF Deadline, SweepRead, SweepWrite, SweepCrash,
       LateSteps
  <2> QED BY <2>1, <2>2, OrderSteps
<1>4. announcing' => members' # {}
  <2>1. ASSUME NEW r \in Reqs, Serving(r)
        PROVE  members # {}
    BY <2>1, ServedNotIdle DEF IInv, RowExists
  <2>2. announcing' => announcing \/ \E r \in Reqs : Serving(r)
    BY DEF NoticesNext, Arriving, Announce, PushJob, notices
  <2> QED BY <2>1, <2>2, GrowsOrStays DEF LateSteps
<1> QED BY <1>2, <1>3, <1>4 DEF LateSteps, InStep

(* What has been announced stays announced. *)
LEMMA StaysCrossed ==
  ASSUME IInv, LateSteps, NoticesNext, Crossed
  PROVE  Crossed'
<1>1. CASE Announce
  <2>1. \E u \in Users : u \in members
    BY <1>1 DEF Announce, LateSteps, IInv, TypeOK
  <2> QED BY <1>1, <2>1 DEF Announce, Notify, Crossed, Told
<1>2. CASE ~Announce
  <2>1. ASSUME NEW r \in Reqs, Serving(r)
        PROVE  (announcing => announcing') /\ called \subseteq called'
    <3>1. announcing => announcing'
      BY <2>1, Zenon DEF Serving
    <3>2. called \subseteq called'
      BY <2>1 DEF Serving, Notify
    <3> QED BY <3>1, <3>2
  <2>2. CASE UNCHANGED <<announcing, called>>
    BY <2>2 DEF Crossed, Told
  <2>3. UNCHANGED <<announcing, called>> \/ \E r \in Reqs : Serving(r)
    BY <1>2 DEF NoticesNext, Arriving, PushJob, notices
  <2> QED BY <2>1, <2>2, <2>3 DEF Crossed, Told
<1> QED BY <1>1, <1>2

(* A join that ends on a row it saw become THRESHOLD_MET announces it.     *)
LEMMA JoinAnnounces ==
  ASSUME IInv, MemoryFits, NoticesNext, NEW r \in Reqs, Joining(r),
         req'[r] = Idle, At(r, "recItems") \/ At(r, "recWrite"),
         req[r].seen = "THRESHOLD_MET"
  PROVE  Crossed'
<1>1. req[r] # Idle
  BY DEF Joining, InStep, Recomputing, Idle
<1>2. Serving(r)
  BY <1>1, ForSlot
<1>3. SawCrossing(r)
  BY DEF SawCrossing, Joining, InStep, At
<1> QED BY <1>2, <1>3 DEF Serving, Crossed

(* Only a join or the create writes THRESHOLD_MET, and a join announces it.*)
LEMMA WrittenOrCreated ==
  ASSUME IInv, MemoryFits, NoticesNext, NEW r \in Reqs, RecomputeWrite(r)
  PROVE  Crossed' \/ (Creating(r) /\ \A p \in Reqs : ~Creating(p)')
<1>0. req \in [Reqs -> Request] /\ status # "ABSENT"
  <2>1. req[r] # Idle
    BY DEF RecomputeWrite, At, Idle
  <2> QED BY <2>1 DEF IInv, TypeOK, RowExists
<1>1. req'[r] = Idle /\ req[r].seen = "THRESHOLD_MET" /\ At(r, "recWrite")
  BY <1>0, ReplyAt DEF RecomputeWrite, IInv, RecomputeGrounded
<1>2. was[r] \in {"ABSENT", "OPEN"} /\ InStep(r, Recomputing)
  BY <1>1 DEF MemoryFits, InStep, At, Recomputing
<1>3. CASE was[r] = "OPEN"
  BY <1>1, <1>2, <1>3, JoinAnnounces DEF Joining
<1>4. CASE was[r] = "ABSENT"
  <2>1. Creating(r)
    BY <1>2, <1>4 DEF Creating
  <2>2. ASSUME NEW p \in Reqs, Creating(p)'
        PROVE  FALSE
    <3>1. Creating(p)
      BY <1>0, <2>2, HowCreating
    <3>2. p = r
      BY <2>1, <3>1 DEF MemoryFits
    <3> QED BY <1>1, <2>2, <3>2 DEF Creating, InStep, Recomputing, Idle
  <2> QED BY <2>1, <2>2
<1> QED BY <1>2, <1>3, <1>4

(* A calm order was calm before. *)
LEMMA WasCalm ==
  ASSUME IInv, NoticesNext, Calm'
  PROVE  Calm
<1>1. raised \in Nat
  BY DEF IInv, TypeOK
<1>2. CASE UNCHANGED vars
  BY <1>2 DEF vars, disputes, sweep, Calm
<1>3. CASE Next
  <2>1. raised' = raised \/ raised' = raised + 1
    BY <1>3, DisputeWriters DEF DisputeCreate, ResolveDispute
  <2>2. due => due'
    BY <1>3, SweepWriters DEF Deadline, SweepRead, SweepWrite, SweepCrash
  <2>3. raised = 0
    BY <1>1, <2>1 DEF Calm
  <2> QED BY <2>2, <2>3 DEF Calm
<1> QED BY <1>2, <1>3, OrderSteps

(* Who changes the status of a calm order. *)
LEMMA CalmWriters ==
  ASSUME IInv, SettlementInv, LateSteps, Calm, Next, status' # status
  PROVE  \/ \E r \in Reqs : CreateGroup(r) \/ RecomputeWrite(r)
         \/ Left /\ status' \notin ACTIVE_STATUSES
<1>1. ASSUME NEW r \in Reqs, DisputeStatus(r) PROVE FALSE
  BY <1>1 DEF DisputeStatus, SettlementInv, DisputesGrounded, Calm
<1>2. ~SweepWrite
  BY DEF SweepWrite, LateSteps, Calm
<1>3. ASSUME NEW r \in Reqs, ClaimCommit(r) \/ CompleteWrite(r)
      PROVE  Left /\ status' \notin ACTIVE_STATUSES
  BY <1>3 DEF ClaimCommit, CompleteWrite, LateSteps, InStep, At, ACTIVE_STATUSES
<1> QED BY <1>1, <1>2, <1>3, StatusWriters

(* A status other than OPEN is an announced crossing, or the create's own. *)
LEMMA LeftStep ==
  ASSUME IInv, SettlementInv, MemoryFits, LateSteps, CrossingKnown, SmallCarts,
         NoticesNext, Calm', Left'
  PROVE  Crossed' \/ \A r \in Reqs : ~Creating(r)'
<1>0. Calm
  BY WasCalm
<1>1. CASE Left
  <2>1. ASSUME NEW r \in Reqs, Creating(r)' PROVE Creating(r)
    BY <1>1, <2>1, HowCreating DEF Left
  <2> QED BY <1>0, <1>1, <2>1, StaysCrossed DEF CrossingKnown
<1>2. CASE ~Left
  <2>1. Next /\ status' # status
    BY <1>2, OrderSteps DEF Left, vars, group
  <2>2. ~\E r \in Reqs : CreateGroup(r)
    BY DEF CreateGroup, Left
  <2> QED BY <1>0, <1>2, <2>1, <2>2, CalmWriters, WrittenOrCreated
<1> QED BY <1>1, <1>2

(* Where a recompute goes from what it reads. *)
LEMMA RecomputeGoes ==
  ASSUME req \in [Reqs -> Request], NEW r \in Reqs
  PROVE  /\ RecomputeReadRow(r) =>
              \/ status \in ACTIVE_STATUSES /\ req'[r].pc = "recItems"
              \/ status \notin ACTIVE_STATUSES /\ req'[r] = Idle
         /\ RecomputeReadItems(r) =>
              \/ NextStatus(itemsPaise) # req[r].seen /\ req'[r].pc = "recWrite"
              \/ NextStatus(itemsPaise) = req[r].seen /\ req'[r] = Idle
<1>1. req[r] \in Request
  OBVIOUS
<1>2. RecomputeReadRow(r) =>
        \/ status \in ACTIVE_STATUSES /\ req'[r].pc = "recItems"
        \/ status \notin ACTIVE_STATUSES /\ req'[r] = Idle
  BY <1>1, ReplyAt DEF RecomputeReadRow, Becomes, Request
<1>3. RecomputeReadItems(r) =>
        \/ NextStatus(itemsPaise) # req[r].seen /\ req'[r].pc = "recWrite"
        \/ NextStatus(itemsPaise) = req[r].seen /\ req'[r] = Idle
  BY <1>1, ReplyAt DEF RecomputeReadItems, Becomes, Request
<1> QED BY <1>2, <1>3

(* A full cart is announced, or will be, or it is too late for that.       *)
LEMMA FullCartStep ==
  ASSUME IInv, SettlementInv, MemoryFits, LateSteps, CrossingKnown, SmallCarts,
         NoticesNext, Calm', itemsPaise' >= Threshold
  PROVE  \/ Crossed' \/ \E r \in Reqs : Joining(r)'
         \/ /\ status' \notin ACTIVE_STATUSES
            /\ \A r \in Reqs : ~Creating(r)'
<1>0. Calm /\ req \in [Reqs -> Request]
  BY WasCalm DEF IInv, TypeOK
<1>1. CASE ~(itemsPaise >= Threshold)
  <2>1. PICK r \in Reqs : CreateGroup(r) \/ JoinInsert(r)
    BY <1>1, OrderSteps, CartWriters DEF vars, cart
  <2>2. ~CreateGroup(r)
    BY MoneyAssumption DEF CreateGroup, SmallCarts
  <2>3. was[r] = "OPEN"
    <3>1. was[r] \in ACTIVE_STATUSES /\ InStep(r, {"joinInsert"})
      BY <2>1, <2>2 DEF JoinInsert, MemoryFits, InStep, At
    <3> QED BY <1>1, <3>1 DEF MemoryFits, ACTIVE_STATUSES, InStep
  <2>4. req'[r].pc = "recRow" /\ req'[r] # Idle /\ req[r] # Idle
    BY <1>0, <2>1, <2>2, GotoAt DEF JoinInsert, At, Idle
  <2>5. was'[r] = "OPEN"
    BY <2>3, <2>4, ForSlot
  <2> QED BY <2>4, <2>5 DEF Joining, InStep, Recomputing
<1>2. CASE itemsPaise >= Threshold
  <2>0. status # "ABSENT"
    BY <1>2, MoneyAssumption DEF IInv, RowExists
  <2>1. CASE Crossed
    BY <2>1, StaysCrossed
  <2>2. ASSUME NEW r \in Reqs, Joining(r), ~Joining(r)'
        PROVE  \/ Crossed'
               \/ /\ status' \notin ACTIVE_STATUSES
                  /\ \A p \in Reqs : ~Creating(p)'
    <3>1. was[r] = "OPEN" /\ req[r].pc \in Recomputing /\ req[r] # Idle
      BY <2>2 DEF Joining, InStep, Recomputing, Idle
    <3>2. req'[r] # req[r] /\ Serving(r)
      BY <2>2, <3>1, ForSlot DEF Joining, InStep
    <3>3. req'[r] = Idle \/ was'[r] = "OPEN"
      BY <3>1, <3>2, ForSlot
    <3>4. RecomputeReadRow(r) \/ RecomputeReadItems(r) \/ RecomputeWrite(r)
      BY <3>1, <3>2 DEF Serving, Serve, Recomputing, At, JoinInsert,
         ClaimReadItems, ClaimCommit, ClaimRollback, ClaimAudit, PayWrite,
         ConfirmWrite, ConfirmEvent, ConfirmAudit, CompleteReadContributions,
         CompleteWrite, CompleteEvents, CompleteAudit, DisputeCreate,
         DisputeStatus, DisputeAudit, ResolveAudit
    <3>5. req'[r] = Idle
      <4>1. RecomputeReadRow(r) => req'[r] = Idle \/ req'[r].pc = "recItems"
        BY <1>0, RecomputeGoes
      <4>2. RecomputeReadItems(r) => req'[r] = Idle \/ req'[r].pc = "recWrite"
        BY <1>0, RecomputeGoes
      <4>3. RecomputeWrite(r) => req'[r] = Idle
        BY <1>0, ReplyAt DEF RecomputeWrite
      <4> QED BY <2>2, <3>3, <3>4, <4>1, <4>2, <4>3
          DEF Joining, InStep, Recomputing
    <3>6. CASE RecomputeReadRow(r)
      <4>1. status \notin ACTIVE_STATUSES /\ status' = status
        <5>1. status \notin ACTIVE_STATUSES
          BY <1>0, <3>5, <3>6, RecomputeGoes DEF Idle
        <5>2. status' = status
          BY <3>6 DEF RecomputeReadRow, group
        <5> QED BY <5>1, <5>2
      <4>2. Left
        BY <2>0, <4>1 DEF Left, ACTIVE_STATUSES
      <4>3. ASSUME NEW p \in Reqs, Creating(p)' PROVE Creating(p)
        BY <2>0, <4>3, HowCreating
      <4> QED BY <1>0, <4>1, <4>2, <4>3, StaysCrossed DEF CrossingKnown
    <3>7. CASE RecomputeReadItems(r)
      <4>1. NextStatus(itemsPaise) = "THRESHOLD_MET" /\ At(r, "recItems")
        BY <1>2, <3>7 DEF NextStatus, CrossesThreshold, RecomputeReadItems
      <4>2. req[r].seen = "THRESHOLD_MET"
        BY <1>0, <3>5, <3>7, <4>1, RecomputeGoes DEF Idle
      <4> QED BY <2>2, <3>5, <4>1, <4>2, JoinAnnounces
    <3>8. CASE RecomputeWrite(r)
      BY <3>1, <3>8, WrittenOrCreated DEF Creating
    <3> QED BY <3>4, <3>6, <3>7, <3>8
  <2>3. CASE status \notin ACTIVE_STATUSES /\ \A r \in Reqs : ~Creating(r)
    <3>1. \A r \in Reqs : ~Creating(r)'
      BY <2>0, <2>3, HowCreating
    <3>2. CASE status' = status
      BY <2>3, <3>1, <3>2
    <3>3. CASE status' # status
      <4>1. Next
        BY <3>3, OrderSteps DEF vars, group
      <4>2. ~\E r \in Reqs : CreateGroup(r)
        BY <2>0 DEF CreateGroup
      <4> QED BY <1>0, <2>3, <3>1, <3>3, <4>1, <4>2, CalmWriters,
             WrittenOrCreated
    <3> QED BY <3>2, <3>3
  <2> QED BY <1>0, <1>2, <2>1, <2>2, <2>3 DEF CrossingKnown
<1> QED BY <1>1, <1>2

(* When joins together reach the minimum in time, the members are told of  *)
(* it or will be, whoever of the racing requests wrote the status.         *)
THEOREM CrossingTold == NoticesSpec => []CrossingIsAnnounced
<1>1. NoticesInit => CrossingInv
  BY MoneyAssumption DEF NoticesInit, Init, CrossingInv, MemoryFits, LateSteps,
     CrossingKnown, Creating, Left, InStep, Recomputing, At, Idle
<1>2. IInv /\ SettlementInv /\ CrossingInv /\ [NoticesNext]_noticeVars
        => CrossingInv'
  <2>1. ASSUME CrossingInv, UNCHANGED noticeVars PROVE CrossingInv'
    BY <2>1 DEF noticeVars, notices, vars, group, cart, disputes, sweep,
       CrossingInv, MemoryFits, LateSteps, CrossingKnown, Calm, Crossed,
       Creating, Joining, Left, Told, InStep, At
  <2>2. ASSUME IInv, SettlementInv, CrossingInv, NoticesNext PROVE CrossingInv'
    <3>1. MemoryFits' /\ LateSteps'
      BY <2>2, MemoryStep, LateStep DEF CrossingInv
    <3>2. CrossingKnown'
      BY <2>2, LeftStep, FullCartStep DEF CrossingInv, CrossingKnown, SmallCarts
    <3> QED BY <3>1, <3>2 DEF CrossingInv
  <2> QED BY <2>1, <2>2
<1>3. IInv /\ CrossingInv => CrossingIsAnnounced
  BY DEF CrossingInv, CrossingKnown, CrossingIsAnnounced, SmallCarts, Calm,
     IInv, MinimumReached, ACTIVE_STATUSES
<1> QED BY <1>1, <1>2, <1>3, NoticesInvariance, NoticesSettlement, PTL
    DEF NoticesSpec
=============================================================================
