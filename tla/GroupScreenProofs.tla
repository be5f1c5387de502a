------------------------- MODULE GroupScreenProofs -------------------------
(***************************************************************************)
(* Theorems about GroupScreen, for any number of students and faults: the  *)
(* caches are well-typed, and what the screen says of the student's own    *)
(* payment is backed.                                                      *)
(***************************************************************************)
EXTENDS GroupScreen, TLAPS

(* The backend has the payment of the student on the device. *)
Backed == db.contrib[Me] \in {"CLAIMED_PAID", "PAID"}

(* Shares are drawn up by a claim, which happens once. *)
NothingOwedYet ==
  db.status \in ACTIVE_STATUSES \cup {"ABSENT"} =>
    \A u \in Users : db.contrib[u] = "NONE"

(* What a pay under way falls back to, and what its answer means. *)
PayUnderWay ==
  call # NoCall /\ call.op = "pay" =>
    /\ call.previous # "CLAIMED_PAID"
    /\ call.at = "answered" => Backed

AnswerIsBacked == share.answer = "CLAIMED_PAID" => Backed

ScreenInv == /\ ScreenTypeOK /\ NothingOwedYet /\ PayUnderWay
             /\ AnswerIsBacked /\ OptimismIsBacked

-----------------------------------------------------------------------------
(* What the cache operations leave of a query. *)
LEMMA QueryOps ==
  ASSUME NEW values, NEW q \in Query(values), NEW active \in BOOLEAN
  PROVE  /\ Fetched(q) \in Query(values)
         /\ Fetched(q).data = q.data /\ Fetched(q).answer = q.answer
         /\ Stopped(q) \in Query(values)
         /\ Stopped(q).data = q.data /\ Stopped(q).answer = NoData
         /\ Failed(q) \in Query(values)
         /\ Failed(q).data = q.data /\ Failed(q).answer = NoData
         /\ Invalidated(q, active) \in Query(values)
         /\ Invalidated(q, active).data = q.data
         /\ Invalidated(q, active).answer \in {q.answer, NoData}
BY DEF Query, Data, Fetched, Stopped, Failed, Invalidated

LEMMA SetDataOps ==
  ASSUME NEW values, NEW q \in Query(values), NEW data \in Data(values)
  PROVE  /\ SetData(q, data) \in Query(values)
         /\ SetData(q, data).data = data /\ SetData(q, data).answer = q.answer
BY DEF Query, Data, SetData

(* What a route does to the rows: the bill is drawn up once, and a payment *)
(* that was reported stays reported.                                       *)
LEMMA RowsStep ==
  ASSUME db \in GroupDetail, NothingOwedYet, NEW op \in Op, NEW u \in Users,
         NEW payer \in Users, Handle(op, u, payer)
  PROVE  /\ db' \in GroupDetail /\ NothingOwedYet'
         /\ Backed => Backed'
         /\ op = "pay" /\ u = Me => Backed'
<1>0. Me \in Users
  BY ScreenAssumption
<1>1. CASE op \in {"create", "join"}
  <2>1. db' = WithItemsOf(u) /\ db.status \in ACTIVE_STATUSES \cup {"ABSENT"}
    BY <1>1 DEF Handle, RowsAfter, Accepts
  <2>2. db' \in GroupDetail /\ db'.contrib = db.contrib
    BY <2>1 DEF WithItemsOf, GroupDetail, GroupStatus, ACTIVE_STATUSES
  <2> QED BY <1>0, <1>1, <2>1, <2>2 DEF NothingOwedYet, Backed
<1>2. CASE op = "claim"
  <2>1. db' = ClaimedBy(u) /\ db.status = "THRESHOLD_MET"
    BY <1>2 DEF Handle, RowsAfter, Accepts
  <2>2. db' \in GroupDetail /\ db'.status = "AWAITING_PAYMENTS"
    BY <2>1 DEF ClaimedBy, GroupDetail, GroupStatus, ContributionStatus
  <2>3. ~Backed
    BY <1>0, <2>1 DEF NothingOwedYet, Backed, ACTIVE_STATUSES
  <2> QED BY <1>2, <2>2, <2>3 DEF NothingOwedYet, ACTIVE_STATUSES
<1>3. CASE op = "pay"
  <2>1. db' = [db EXCEPT !.contrib[u] = "CLAIMED_PAID"] /\ db.contrib[u] # "NONE"
    BY <1>3 DEF Handle, RowsAfter, Accepts
  <2>2. /\ db' \in GroupDetail /\ db'.status = db.status
        /\ db'.contrib = [db.contrib EXCEPT ![u] = "CLAIMED_PAID"]
    BY <2>1 DEF GroupDetail, ContributionStatus
  <2>3. db.contrib \in [Users -> ContributionStatus]
    BY DEF GroupDetail
  <2> QED BY <1>0, <2>1, <2>2, <2>3 DEF NothingOwedYet, Backed
<1>4. CASE op = "confirm"
  <2>1. db' = [db EXCEPT !.contrib[payer] = "PAID"] /\ db.contrib[payer] # "NONE"
    BY <1>4 DEF Handle, RowsAfter, Accepts
  <2>2. /\ db' \in GroupDetail /\ db'.status = db.status
        /\ db'.contrib = [db.contrib EXCEPT ![payer] = "PAID"]
    BY <2>1 DEF GroupDetail, ContributionStatus
  <2>3. db.contrib \in [Users -> ContributionStatus]
    BY DEF GroupDetail
  <2> QED BY <1>0, <1>4, <2>1, <2>2, <2>3 DEF NothingOwedYet, Backed
<1>5. CASE op \in {"complete", "dispute"}
  <2>1. db' \in {[db EXCEPT !.status = "COMPLETED"],
                 [db EXCEPT !.status = "DISPUTED"]}
    BY <1>5 DEF Handle, RowsAfter
  <2>2. /\ db' \in GroupDetail /\ db'.contrib = db.contrib
        /\ db'.status \in {"COMPLETED", "DISPUTED"}
    BY <2>1 DEF GroupDetail, GroupStatus
  <2> QED BY <1>5, <2>2 DEF NothingOwedYet, Backed, ACTIVE_STATUSES
<1> QED BY <1>1, <1>2, <1>3, <1>4, <1>5 DEF Op

LEMMA SweepStep ==
  ASSUME db \in GroupDetail, SweepExpires
  PROVE  db' \in GroupDetail /\ NothingOwedYet' /\ (Backed => Backed')
<1>1. /\ db' \in GroupDetail /\ db'.contrib = db.contrib
      /\ db'.status = "EXPIRED"
  BY DEF SweepExpires, GroupDetail, GroupStatus
<1> QED BY <1>1 DEF NothingOwedYet, Backed, ACTIVE_STATUSES

(* Who writes the rows. *)
LEMMA DbWriters ==
  ASSUME ScreenTypeOK, Next
  PROVE  \/ UNCHANGED db
         \/ SweepExpires
         \/ \E op \in Op, u \in Users, payer \in Users : Handle(op, u, payer)
<1>1. CASE ServeCall
  <2>1. call \in Call /\ Me \in Users
    BY <1>1, ScreenAssumption DEF ServeCall, ScreenTypeOK
  <2>2. call.op \in Op /\ call.payer \in Users
    BY <2>1 DEF Call
  <2> QED BY <1>1, <2>1, <2>2 DEF ServeCall
<1>2. CASE OthersCall
  BY <1>2 DEF OthersCall
<1> QED BY <1>1, <1>2 DEF Next, Respond, ServeGroup, ReceiveGroup, ServeShare,
      ReceiveShare, OpenScreen, SettleGroup, SettleConfirm, SettleDispute,
      SettlePay, FailCall, Subscribe, Connect, Broadcast, Poll, LeaveScreen,
      Press, LoseGroup, LoseShare, LoseCall, RefuseSocket, DropSocket

LEMMA DbStep ==
  ASSUME ScreenInv, Next
  PROVE  db' \in GroupDetail /\ NothingOwedYet' /\ (Backed => Backed')
<1>1. db \in GroupDetail /\ NothingOwedYet
  BY DEF ScreenInv, ScreenTypeOK
<1>2. CASE UNCHANGED db
  BY <1>1, <1>2 DEF NothingOwedYet, Backed
<1> QED BY <1>1, <1>2, DbWriters, RowsStep, SweepStep DEF ScreenInv

-----------------------------------------------------------------------------
(* Who writes the group's query, and with what. *)
LEMMA GroupStep ==
  ASSUME ScreenTypeOK, Next
  PROVE  group' \in Query(GroupDetail)
<1>0. /\ group \in Query(GroupDetail) /\ db \in GroupDetail
      /\ group.answer \in Data(GroupDetail)
  BY DEF ScreenTypeOK, Query
<1>1. CASE ServeGroup
  BY <1>0, <1>1 DEF ServeGroup, Query, Data
<1>2. CASE ReceiveGroup
  BY <1>0, <1>2, QueryOps, SetDataOps DEF ReceiveGroup
<1>3. CASE LoseGroup
  <2>1. Failed(group) \in Query(GroupDetail)
    BY <1>0, QueryOps
  <2> QED BY <1>0, <1>3, <2>1 DEF LoseGroup, Query, Data
<1>4. CASE Poll
  BY <1>0, <1>4, QueryOps DEF Poll
<1>5. CASE OpenScreen \/ SettleGroup
  <2>1. call.answer \in Data(GroupDetail)
    BY <1>5 DEF OpenScreen, SettleGroup, Settled, ScreenTypeOK, Call
  <2>2. Cached(call.answer) \in Query(GroupDetail)
    BY <1>0, <2>1, SetDataOps DEF Cached
  <2> QED BY <1>5, <2>2, QueryOps DEF OpenScreen, SettleGroup
<1>6. CASE SettleConfirm \/ Broadcast
  <2>1. \A active \in BOOLEAN : Invalidated(group, active) \in Query(GroupDetail)
    BY <1>0, QueryOps
  <2>2. Here \in BOOLEAN /\ (room = "joined") \in BOOLEAN
    BY DEF Here
  <2> QED BY <1>6, <2>1, <2>2 DEF SettleConfirm, Broadcast
<1>7. CASE UNCHANGED group
  BY <1>0, <1>7
<1> QED BY <1>1, <1>2, <1>3, <1>4, <1>5, <1>6, <1>7 DEF Next, Respond,
      ServeShare, ReceiveShare, ServeCall, SettleDispute, SettlePay, FailCall,
      Subscribe, Connect, LeaveScreen, Press, OthersCall, SweepExpires,
      LoseShare, LoseCall, RefuseSocket, DropSocket

(* Only these steps write the query of the contribution. *)
Shares == \/ ServeShare \/ ReceiveShare \/ LoseShare \/ SettlePay \/ FailCall
          \/ ReceiveGroup \/ OpenScreen \/ SettleGroup
          \/ \E op \in Op, payer \in Users : Press(op, payer)

LEMMA ShareWriters ==
  ASSUME Next
  PROVE  Shares \/ UNCHANGED share
BY DEF Next, Respond, Shares, ServeGroup, ServeCall, SettleConfirm,
   SettleDispute, Subscribe, Connect, Broadcast, Poll, LeaveScreen, OthersCall,
   SweepExpires, LoseGroup, LoseCall, RefuseSocket, DropSocket

(* A call that is served or lost stays the same call. *)
LEMMA CallServed ==
  ASSUME call \in Call, db' \in GroupDetail, ServeCall \/ LoseCall
  PROVE  /\ call' \in Call /\ call'.op = call.op
         /\ call'.previous = call.previous
         /\ call'.at = "answered" => ServeCall /\ Handle(call.op, Me, call.payer)
<1>1. CASE LoseCall
  BY <1>1 DEF LoseCall, Call, Data
<1>2. CASE ServeCall /\ ~Handle(call.op, Me, call.payer)
  BY <1>2 DEF ServeCall, Call
<1>3. CASE ServeCall /\ Handle(call.op, Me, call.payer)
  <2>1. \/ \E a \in Data(GroupDetail) :
             call' = [call EXCEPT !.at = "answered", !.answer = a]
        \/ call' = [call EXCEPT !.at = "failed"]
    BY <1>3 DEF ServeCall, Data
  <2> QED BY <1>3, <2>1 DEF Call
<1> QED BY <1>1, <1>2, <1>3

(* What a press leaves behind. *)
LEMMA PressStep ==
  ASSUME ScreenInv, NEW op \in Op, NEW payer \in Users, Press(op, payer)
  PROVE  /\ call' \in Call /\ call'.op = op /\ call'.at = "sent"
         /\ call'.previous # "CLAIMED_PAID"
<1>0. share.data \in Data(ContributionStatus) /\ NoData # "CLAIMED_PAID"
  BY ScreenValues DEF ScreenInv, ScreenTypeOK, Query, ContributionStatus
<1>1. op = "pay" => share.data = "PENDING"
  BY DEF Press, Offered, PayOffered
<1>2. Previous(op) \in Data(ContributionStatus) \ {"CLAIMED_PAID"}
  BY <1>0, <1>1 DEF Previous, Data
<1>3. call' = [op |-> op, payer |-> payer, at |-> "sent", answer |-> NoData,
               previous |-> Previous(op)]
  BY DEF Press
<1> QED BY <1>2, <1>3 DEF Call, Data

(* The query of the contribution: what it holds was in the rows, or comes  *)
(* from a pay under way.                                                   *)
LEMMA ShareStep ==
  ASSUME ScreenInv, Next
  PROVE  /\ share' \in Query(ContributionStatus)
         /\ share'.answer = "CLAIMED_PAID" => Backed
         /\ share'.data = "CLAIMED_PAID" =>
              Backed \/ (call' # NoCall /\ call'.op = "pay")
<1>0. /\ share \in Query(ContributionStatus)
      /\ share.answer \in Data(ContributionStatus)
      /\ db.contrib[Me] \in ContributionStatus
      /\ NoData # "CLAIMED_PAID"
      /\ call \in Call \cup {NoCall}
  BY ScreenAssumption, ScreenValues
     DEF ScreenInv, ScreenTypeOK, Query, GroupDetail, ContributionStatus
<1>1. /\ share.answer = "CLAIMED_PAID" => Backed
      /\ share.data = "CLAIMED_PAID" =>
           Backed \/ (call # NoCall /\ call.op = "pay")
  BY DEF ScreenInv, AnswerIsBacked, OptimismIsBacked, Backed
<1>2. /\ Stopped(share) \in Query(ContributionStatus)
      /\ Stopped(share).data = share.data /\ Stopped(share).answer = NoData
      /\ Failed(share) \in Query(ContributionStatus)
      /\ Failed(share).data = share.data /\ Failed(share).answer = NoData
      /\ Fetched(share) \in Query(ContributionStatus)
      /\ Fetched(share).data = share.data
      /\ Fetched(share).answer = share.answer
  BY <1>0, QueryOps
<1>3. CASE UNCHANGED <<share, call>>
  BY <1>0, <1>1, <1>3
<1>4. CASE ServeShare
  <2>1. CASE db.contrib[Me] = "NONE"
    <3>1. share' = Failed(share) /\ call' = call
      BY <1>4, <2>1 DEF ServeShare
    <3> QED BY <1>0, <1>1, <1>2, <3>1
  <2>2. CASE db.contrib[Me] # "NONE"
    <3>1. share' = [share EXCEPT !.fetch = "answered", !.answer = db.contrib[Me]]
          /\ call' = call
      BY <1>4, <2>2 DEF ServeShare
    <3>2. /\ share' \in Query(ContributionStatus) /\ share'.data = share.data
          /\ share'.answer = db.contrib[Me]
      BY <1>0, <3>1 DEF Query, Data
    <3> QED BY <1>1, <3>1, <3>2 DEF Backed
  <2> QED BY <2>1, <2>2
<1>5. CASE ReceiveShare
  <2>1. share' = SetData(Stopped(share), share.answer) /\ call' = call
    BY <1>5 DEF ReceiveShare
  <2>2. /\ share' \in Query(ContributionStatus)
        /\ share'.data = share.answer /\ share'.answer = NoData
    BY <1>0, <1>2, <2>1, SetDataOps
  <2> QED BY <1>0, <1>1, <2>2
<1>6. CASE LoseShare
  <2>1. share' = Failed(share) /\ call' = call
    BY <1>6 DEF LoseShare
  <2> QED BY <1>0, <1>1, <1>2, <2>1
<1>7. CASE ReceiveGroup \/ OpenScreen \/ SettleGroup
  <2>1. share' \in {share, Fetched(share)}
    BY <1>7 DEF ReceiveGroup, OpenScreen, SettleGroup, FetchShareOnceEnabled
  <2>2. (call # NoCall /\ call.op = "pay") => call' = call
    BY <1>7 DEF ReceiveGroup, OpenScreen, SettleGroup, Settled
  <2> QED BY <1>0, <1>1, <1>2, <2>1, <2>2
<1>8. CASE SettlePay
  <2>1. Backed
    BY <1>8 DEF SettlePay, Settled, ScreenInv, PayUnderWay
  <2>2. share' = Invalidated(share, ShareEnabled) /\ ShareEnabled \in BOOLEAN
    BY <1>8 DEF SettlePay, ShareEnabled, Here
  <2>3. share' \in Query(ContributionStatus)
    BY <1>0, <2>2, QueryOps
  <2> QED BY <2>1, <2>3
<1>9. CASE FailCall
  <2>1. CASE call.op = "pay"
    <3>1. call.previous \in Data(ContributionStatus) \ {"CLAIMED_PAID"}
      BY <1>0, <1>9, <2>1 DEF FailCall, ScreenInv, PayUnderWay, Call
    <3>2. /\ SetData(share, call.previous) \in Query(ContributionStatus)
          /\ SetData(share, call.previous).data = call.previous
          /\ SetData(share, call.previous).answer = share.answer
      BY <1>0, <3>1, SetDataOps
    <3>3. /\ share' = Invalidated(SetData(share, call.previous), ShareEnabled)
          /\ ShareEnabled \in BOOLEAN
      BY <1>9, <2>1 DEF FailCall, ShareEnabled, Here
    <3>4. /\ share' \in Query(ContributionStatus)
          /\ share'.data = call.previous
          /\ share'.answer \in {share.answer, NoData}
      BY <3>2, <3>3, QueryOps
    <3> QED BY <1>0, <1>1, <3>1, <3>4
  <2>2. CASE call.op # "pay"
    <3>1. share' = share
      BY <1>9, <2>2 DEF FailCall
    <3> QED BY <1>0, <1>1, <2>2, <3>1
  <2> QED BY <2>1, <2>2
<1>10. ASSUME NEW op \in Op, NEW payer \in Users, Press(op, payer)
       PROVE  /\ share' \in Query(ContributionStatus)
              /\ share'.answer = "CLAIMED_PAID" => Backed
              /\ share'.data = "CLAIMED_PAID" =>
                   Backed \/ (call' # NoCall /\ call'.op = "pay")
  <2>1. call' # NoCall /\ call'.op = op
    BY <1>10, PressStep, ScreenValues
  <2>2. CASE op = "pay"
    <3>1. share' = SetData(Stopped(share), "CLAIMED_PAID")
      BY <1>10, <2>2 DEF Press
    <3>2. share' \in Query(ContributionStatus) /\ share'.answer = NoData
      BY <1>2, <3>1, SetDataOps DEF Data, ContributionStatus
    <3> QED BY <1>0, <2>1, <2>2, <3>2
  <2>3. CASE op # "pay"
    <3>1. share' = share /\ call = NoCall
      BY <1>10, <2>3 DEF Press
    <3> QED BY <1>0, <1>1, <3>1
  <2> QED BY <2>2, <2>3
<1>11. CASE ~Shares
  <2>1. share' = share
    BY <1>11, ShareWriters
  <2>2. (call # NoCall /\ call.op = "pay") => call' # NoCall /\ call'.op = "pay"
    <3>1. CASE ServeCall \/ LoseCall
      <4>1. ASSUME call # NoCall, call.op = "pay"
            PROVE  call' \in Call /\ call'.op = "pay"
        BY <1>0, <3>1, <4>1, DbStep, CallServed
      <4> QED BY <4>1, ScreenValues
    <3>2. CASE UNCHANGED call
      BY <3>2
    <3>3. CASE SettleConfirm \/ SettleDispute
      BY <3>3 DEF SettleConfirm, SettleDispute, Settled
    <3> QED BY <1>11, <3>1, <3>2, <3>3 DEF Shares, Next, Respond, ServeGroup,
          Subscribe, Connect, Broadcast, Poll, LeaveScreen, OthersCall,
          SweepExpires, LoseGroup, RefuseSocket, DropSocket
  <2> QED BY <1>0, <1>1, <2>1, <2>2
<1> QED BY <1>4, <1>5, <1>6, <1>7, <1>8, <1>9, <1>10, <1>11 DEF Shares

(* Rooms and connections; the subscription belongs to the screen. *)
LEMMA PlaceStep ==
  ASSUME ScreenTypeOK, Next
  PROVE  /\ news' \in BOOLEAN /\ screen' \in {"Home", "GroupDetail"}
         /\ socket' \in {"none", "trying", "up", "refused"}
         /\ room' \in {"out", "wanted", "buffered", "joined", "lost"}
         /\ (room' = "out") = (screen' = "Home")
<1>1. news' \in BOOLEAN
  BY DEF ScreenTypeOK, Next, Respond, ServeGroup, ReceiveGroup, ServeShare,
     ReceiveShare, ServeCall, Handle, OpenScreen, SettleGroup, SettleConfirm,
     SettleDispute, SettlePay, FailCall, Subscribe, Connect, Broadcast, Poll,
     LeaveScreen, Press, OthersCall, SweepExpires, LoseGroup, LoseShare,
     LoseCall, RefuseSocket, DropSocket
<1>2. CASE UNCHANGED <<screen, socket, room>>
  BY <1>1, <1>2 DEF ScreenTypeOK
<1>3. CASE OpenScreen
  BY <1>1, <1>3 DEF ScreenTypeOK, OpenScreen
<1>4. CASE LeaveScreen
  BY <1>1, <1>4 DEF ScreenTypeOK, LeaveScreen
<1>5. CASE Subscribe \/ Connect \/ RefuseSocket \/ DropSocket
  BY <1>1, <1>5 DEF ScreenTypeOK, Subscribe, Connect, RefuseSocket, DropSocket
<1> QED BY <1>1, <1>2, <1>3, <1>4, <1>5 DEF Next, Respond, ServeGroup,
      ReceiveGroup, ServeShare, ReceiveShare, ServeCall, SettleGroup,
      SettleConfirm, SettleDispute, SettlePay, FailCall, Broadcast, Poll, Press,
      OthersCall, SweepExpires, LoseGroup, LoseShare, LoseCall, realtime

LEMMA FaultStep ==
  ASSUME faults \in 0 .. MaxFaults, Next
  PROVE  faults' \in 0 .. MaxFaults
<1>1. CASE Fault
  BY <1>1, ScreenAssumption DEF Fault
<1>2. CASE UNCHANGED faults
  BY <1>2
<1> QED BY <1>1, <1>2 DEF Next, Respond, ServeGroup, ReceiveGroup, ServeShare,
      ReceiveShare, ServeCall, OpenScreen, SettleGroup, SettleConfirm,
      SettleDispute, SettlePay, FailCall, Subscribe, Connect, Broadcast, Poll,
      LeaveScreen, Press, OthersCall, SweepExpires, LoseGroup, LoseShare,
      LoseCall, RefuseSocket, DropSocket

(* A call under way: what is under way stays typed, and a pay that was     *)
(* answered is in the rows.                                                *)
LEMMA CallStep ==
  ASSUME ScreenInv, Next
  PROVE  call' \in Call \cup {NoCall} /\ PayUnderWay'
<1>0. call \in Call \cup {NoCall} /\ Me \in Users /\ (Backed => Backed')
  BY ScreenAssumption, DbStep DEF ScreenInv, ScreenTypeOK
<1>1. CASE UNCHANGED call
  BY <1>0, <1>1 DEF ScreenInv, PayUnderWay
<1>2. CASE call' = NoCall
  BY <1>2 DEF PayUnderWay
<1>3. ASSUME NEW op \in Op, NEW payer \in Users, Press(op, payer)
      PROVE  call' \in Call /\ PayUnderWay'
  BY <1>3, PressStep DEF PayUnderWay
<1>4. CASE ServeCall \/ LoseCall
  <2>1. call # NoCall /\ call \in Call
    BY <1>0, <1>4 DEF ServeCall, LoseCall
  <2>2. /\ call' \in Call /\ call'.op = call.op
        /\ call'.previous = call.previous
        /\ call'.at = "answered" => Handle(call.op, Me, call.payer)
    BY <1>4, <2>1, DbStep, CallServed
  <2>3. call.op \in Op /\ call.payer \in Users
    BY <2>1 DEF Call
  <2>4. call.op = "pay" /\ call'.at = "answered" => Backed'
    BY <1>0, <2>2, <2>3, RowsStep DEF ScreenInv, ScreenTypeOK
  <2> QED BY <2>1, <2>2, <2>4 DEF ScreenInv, PayUnderWay
<1> QED BY <1>1, <1>2, <1>3, <1>4 DEF Next, Respond, ServeGroup, ReceiveGroup,
      ServeShare, ReceiveShare, OpenScreen, SettleGroup, SettleConfirm,
      SettleDispute, SettlePay, FailCall, Settled, Subscribe, Connect,
      Broadcast, Poll, LeaveScreen, OthersCall, SweepExpires, LoseGroup,
      LoseShare, RefuseSocket, DropSocket

-----------------------------------------------------------------------------
(* ScreenInv is inductive: it says what answers under way are worth, and   *)
(* that shares are drawn up once.                                          *)
THEOREM ScreenInvariance == Spec => []ScreenInv
<1>1. Init => ScreenInv
  <2> SUFFICES ASSUME Init PROVE ScreenInv
    OBVIOUS
  <2>1. db \in GroupDetail /\ NothingOwedYet
    BY DEF Init, NoGroup, GroupDetail, GroupStatus, ContributionStatus,
       NothingOwedYet
  <2>2. /\ group \in Query(GroupDetail) /\ share \in Query(ContributionStatus)
        /\ share.data = NoData /\ share.answer = NoData
    BY DEF Init, Query, Data
  <2>3. NoData # "CLAIMED_PAID"
    BY ScreenValues DEF ContributionStatus
  <2>4. faults \in 0 .. MaxFaults
    BY ScreenAssumption DEF Init
  <2> QED BY <2>1, <2>2, <2>3, <2>4 DEF Init, ScreenInv, ScreenTypeOK,
        PayUnderWay, AnswerIsBacked, OptimismIsBacked
<1>2. ScreenInv /\ [Next]_vars => ScreenInv'
  <2>1. ASSUME ScreenInv, UNCHANGED vars PROVE ScreenInv'
    BY <2>1 DEF vars, ScreenInv, ScreenTypeOK, NothingOwedYet, PayUnderWay,
       AnswerIsBacked, OptimismIsBacked, Backed
  <2>2. ASSUME ScreenInv, Next PROVE ScreenInv'
    <3>1. ScreenTypeOK'
      BY <2>2, DbStep, PlaceStep, GroupStep, ShareStep, CallStep, FaultStep
         DEF ScreenInv, ScreenTypeOK
    <3>2. NothingOwedYet' /\ (Backed => Backed')
      BY <2>2, DbStep
    <3>3. AnswerIsBacked' /\ OptimismIsBacked'
      BY <2>2, <3>2, ShareStep DEF AnswerIsBacked, OptimismIsBacked, Backed
    <3> QED BY <2>2, <3>1, <3>2, <3>3, CallStep DEF ScreenInv
  <2> QED BY <2>1, <2>2
<1> QED BY <1>1, <1>2, PTL DEF Spec

(* Caches hold what routes return; a subscription belongs to the screen.   *)
THEOREM ScreenTyped == Spec => []ScreenTypeOK
BY ScreenInvariance, PTL DEF ScreenInv

(* useMarkPaid: whatever is lost, refused or overtaken, "Waiting for the   *)
(* coordinator" is only shown of a payment that the backend has or is      *)
(* being told of.                                                          *)
THEOREM OptimismBacked == Spec => []OptimismIsBacked
BY ScreenInvariance, PTL DEF ScreenInv
=============================================================================
