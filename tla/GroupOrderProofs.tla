-------------------------- MODULE GroupOrderProofs --------------------------
(***************************************************************************)
(* Proofs about GroupOrder, for any users, any number of request slots,    *)
(* any amounts, fees and threshold, with crashes or without.               *)
(*                                                                         *)
(* The argument: IInv is inductive (NextIInv), and everything else follows *)
(* from it.  The frame lemmas say which actions write which variables, so  *)
(* that each part of IInv is only argued for the actions that touch it.    *)
(***************************************************************************)
EXTENDS GroupOrderProperties, TLAPS

-----------------------------------------------------------------------------
(* The request slots *)

(* What the handlers build from a request is a request. *)
LEMMA NewRequests ==
  ASSUME NEW p \in Step, NEW u \in Users, NEW v \in Users, NEW n \in Nat
  PROVE  /\ Idle \in Request
         /\ [Idle EXCEPT !.pc = p, !.by = u] \in Request
         /\ [Idle EXCEPT !.pc = p, !.by = u, !.paise = n] \in Request
         /\ [Idle EXCEPT !.pc = p, !.by = u, !.payer = v] \in Request
  BY DEF Idle, Request, Step, GroupStatus

(* The empty slot is well typed. *)
LEMMA IdleRequest == Idle \in Request
  BY DEF Idle, Request, Step, GroupStatus

(* Writing a request into a slot keeps the slots typed. *)
LEMMA BecomesTyped ==
  ASSUME req \in [Reqs -> Request], NEW r \in Reqs, NEW q \in Request,
         Becomes(r, q)
  PROVE  req' \in [Reqs -> Request]
  BY DEF Becomes

(* A step of one slot leaves the others alone. *)
LEMMA BecomesAt ==
  ASSUME req \in [Reqs -> Request], NEW r \in Reqs, NEW q, Becomes(r, q)
  PROVE  req'[r] = q /\ \A p \in Reqs \ {r} : req'[p] = req[p]
  BY DEF Becomes

(* What an accepted request starts with. *)
LEMMA AcceptAt ==
  ASSUME req \in [Reqs -> Request], NEW r \in Reqs, NEW pc, NEW u, Accept(r, pc, u)
  PROVE  req'[r].pc = pc /\ req'[r].by = u
<1>1. req'[r] = [Idle EXCEPT !.pc = pc, !.by = u]
  BY DEF Accept, Becomes
<1> QED BY <1>1 DEF Idle

(* Moving on keeps the caller and the payer. *)
LEMMA GotoAt ==
  ASSUME req \in [Reqs -> Request], NEW r \in Reqs, NEW pc, Goto(r, pc)
  PROVE  /\ req'[r].pc = pc /\ req'[r].by = req[r].by
         /\ req'[r].payer = req[r].payer
  BY BecomesAt DEF Goto, Request

(* A reply empties the slot. *)
LEMMA ReplyAt ==
  ASSUME req \in [Reqs -> Request], NEW r \in Reqs, Reply(r)
  PROVE  req'[r] = Idle /\ req'[r].pc = "idle"
  BY BecomesAt DEF Reply, Idle

(* A request works in its own slot. *)
LEMMA WritesItsSlot ==
  ASSUME NEW r \in Reqs, Arrive(r) \/ Serve(r) \/ Crash(r)
  PROVE  \E q : Becomes(r, q)
  BY DEF Arrive, Serve, Crash, Accept, Goto, Reply,
         CreateGroup, JoinRead, ClaimRead, PayRead, ConfirmRead, CompleteRead,
         DisputeRead, ResolveDispute, RecomputeReadRow, RecomputeReadItems,
         RecomputeWrite, JoinInsert, ClaimReadItems, ClaimCommit,
         ClaimRollback, ClaimAudit, PayWrite, ConfirmWrite, ConfirmEvent,
         ConfirmAudit, CompleteReadContributions, CompleteWrite,
         CompleteEvents, CompleteAudit, DisputeCreate, DisputeStatus,
         DisputeAudit, ResolveAudit

(* A slot that changed is the one that acted. *)
LEMMA OnlyOneMoves ==
  ASSUME req \in [Reqs -> Request], Next, NEW r \in Reqs, req'[r] # req[r]
  PROVE  Arrive(r) \/ Serve(r) \/ Crash(r)
<1>1. PICK p \in Reqs : Arrive(p) \/ Serve(p) \/ Crash(p)
  BY DEF Next, PaymentWebhook, Deadline, SweepRead, SweepWrite, SweepCrash
<1> QED BY <1>1, WritesItsSlot, BecomesAt

(* A slot only enters one of these states by the action named. *)
LEMMA HowEntered ==
  ASSUME req \in [Reqs -> Request], Next, NEW r \in Reqs, req'[r] # req[r]
  PROVE  /\ At(r, "joinInsert")' => JoinRead(r)
         /\ At(r, "recRow")' => CreateGroup(r) \/ JoinInsert(r)
         /\ At(r, "recItems")' => RecomputeReadRow(r)
         /\ At(r, "recWrite")' => RecomputeReadItems(r)
         /\ At(r, "claimItems")' => ClaimRead(r)
         /\ At(r, "claimTx")' => ClaimReadItems(r)
         /\ At(r, "claimAudit")' => ClaimCommit(r)
         /\ At(r, "payWrite")' => PayRead(r)
         /\ At(r, "completeRead")' => CompleteRead(r)
         /\ At(r, "completeWrite")' => CompleteReadContributions(r)
         /\ At(r, "completeEvents")' => CompleteWrite(r)
         /\ At(r, "completeAudit")' => CompleteEvents(r)
         /\ At(r, "disputeStatus")' => DisputeCreate(r)
<1>1. Arrive(r) \/ Serve(r) \/ Crash(r)
  BY OnlyOneMoves
<1>2. CASE Arrive(r)
  <2>1. JoinRead(r) => req'[r].pc = "joinInsert"
    <3>1. SUFFICES ASSUME NEW u \in Users, NEW a \in Amounts,
                   req'[r] = [Idle EXCEPT !.pc = "joinInsert", !.by = u,
                                          !.paise = a]
          PROVE  req'[r].pc = "joinInsert"
      BY DEF JoinRead, Becomes
    <3> QED BY <3>1 DEF Idle
  <2>2. ClaimRead(r) => req'[r].pc = "claimItems"
    <3>1. SUFFICES ASSUME NEW u \in Users, NEW f \in Fees,
                   req'[r] = [Idle EXCEPT !.pc = "claimItems", !.by = u,
                                          !.paise = f]
          PROVE  req'[r].pc = "claimItems"
      BY DEF ClaimRead, Becomes
    <3> QED BY <3>1 DEF Idle
  <2>3. ConfirmRead(r) => req'[r].pc = "confirmWrite"
    <3>1. SUFFICES ASSUME NEW u \in Users,
                   req'[r] = [Idle EXCEPT !.pc = "confirmWrite",
                                          !.by = coordinator, !.payer = u]
          PROVE  req'[r].pc = "confirmWrite"
      BY DEF ConfirmRead, Becomes
    <3> QED BY <3>1 DEF Idle
  <2> QED
    BY <1>2, <2>1, <2>2, <2>3, AcceptAt DEF Arrive, At, CreateGroup, PayRead,
       CompleteRead, DisputeRead, ResolveDispute
<1>3. CASE Serve(r)
  <2>1. req[r] \in Request
    OBVIOUS
  <2>2. RecomputeReadRow(r) => req'[r].pc \in {"recItems", "idle"}
    BY <2>1, ReplyAt DEF RecomputeReadRow, Becomes, Request
  <2>3. RecomputeReadItems(r) => req'[r].pc \in {"recWrite", "idle"}
    BY <2>1, ReplyAt DEF RecomputeReadItems, Becomes, Request
  <2>4. ClaimReadItems(r) => req'[r].pc = "claimTx"
    BY <2>1 DEF ClaimReadItems, Becomes, Request
  <2>5. CompleteReadContributions(r) => req'[r].pc = "completeWrite"
    BY <2>1 DEF CompleteReadContributions, Becomes, Request
  <2>6. CompleteWrite(r) => req'[r].pc = "completeEvents"
    BY GotoAt DEF CompleteWrite
  <2>7. CompleteEvents(r) => req'[r].pc = "completeAudit"
    BY GotoAt DEF CompleteEvents
  <2>8. DisputeCreate(r) => req'[r].pc = "disputeStatus"
    BY GotoAt DEF DisputeCreate
  <2>9. \/ RecomputeReadRow(r) \/ RecomputeReadItems(r) \/ ClaimReadItems(r)
        \/ JoinInsert(r) \/ ClaimCommit(r) \/ CompleteReadContributions(r)
        \/ CompleteWrite(r) \/ CompleteEvents(r) \/ DisputeCreate(r)
        \/ Reply(r)
        \/ \E pc \in {"confirmEvent", "confirmAudit", "disputeAudit"} : Goto(r, pc)
    BY <1>3 DEF Serve, RecomputeWrite, ClaimRollback,
         ClaimAudit, PayWrite, ConfirmWrite, ConfirmEvent, ConfirmAudit,
         CompleteAudit, DisputeStatus, DisputeAudit, ResolveAudit
  <2>10. ClaimCommit(r) => req'[r].pc = "claimAudit"
    BY GotoAt DEF ClaimCommit
  <2>11. JoinInsert(r) => req'[r].pc = "recRow"
    BY GotoAt DEF JoinInsert
  <2> QED
    BY <2>2, <2>3, <2>4, <2>5, <2>6, <2>7, <2>8, <2>9, <2>10, <2>11, GotoAt,
       ReplyAt DEF At
<1>4. CASE Crash(r)
  BY <1>4, ReplyAt DEF Crash, At
<1> QED BY <1>1, <1>2, <1>3, <1>4

-----------------------------------------------------------------------------
(* Which actions touch what *)

(* The status is only written by these actions. *)
LEMMA StatusWriters ==
  ASSUME Next, status' # status
  PROVE  \/ \E r \in Reqs : \/ CreateGroup(r) \/ RecomputeWrite(r)
                            \/ ClaimCommit(r) \/ CompleteWrite(r)
                            \/ DisputeStatus(r)
         \/ SweepWrite
  BY DEF Next, Arrive, Serve, group, cart, shares, disputes, records, sweep,
         JoinRead, ClaimRead, PayRead, ConfirmRead, CompleteRead, DisputeRead,
         ResolveDispute, RecomputeReadRow, RecomputeReadItems, JoinInsert,
         ClaimReadItems, ClaimRollback, ClaimAudit, PayWrite, ConfirmWrite,
         ConfirmEvent, ConfirmAudit, CompleteReadContributions, CompleteEvents,
         CompleteAudit, DisputeCreate, DisputeAudit, ResolveAudit, Crash,
         PaymentWebhook, Deadline, SweepRead, SweepCrash

(* Items are only inserted by these actions. *)
LEMMA CartWriters ==
  ASSUME Next, <<itemsPaise, members>>' # <<itemsPaise, members>>
  PROVE  \E r \in Reqs : CreateGroup(r) \/ JoinInsert(r)
  BY DEF Next, Arrive, Serve, group, cart, shares, disputes, records, sweep,
         JoinRead, ClaimRead, PayRead, ConfirmRead, CompleteRead, DisputeRead,
         ResolveDispute, RecomputeReadRow, RecomputeReadItems, RecomputeWrite,
         ClaimReadItems, ClaimCommit, ClaimRollback, ClaimAudit, PayWrite,
         ConfirmWrite, ConfirmEvent, ConfirmAudit, CompleteReadContributions,
         CompleteWrite, CompleteEvents, CompleteAudit, DisputeCreate,
         DisputeStatus, DisputeAudit, ResolveAudit, Crash, PaymentWebhook,
         Deadline, SweepRead, SweepWrite, SweepCrash

(* The claim is only written by one transaction, the shares also by pay,   *)
(* confirm and the webhook.                                                *)
LEMMA ClaimWriters ==
  ASSUME Next, <<coordinator, fee, splitPaise>>' # <<coordinator, fee, splitPaise>>
  PROVE  \E r \in Reqs : ClaimCommit(r)
  BY DEF Next, Arrive, Serve, group, cart, shares, disputes, records, sweep,
         CreateGroup, JoinRead, ClaimRead, PayRead, ConfirmRead, CompleteRead,
         DisputeRead, ResolveDispute, RecomputeReadRow, RecomputeReadItems,
         RecomputeWrite, JoinInsert, ClaimReadItems, ClaimRollback, ClaimAudit,
         PayWrite, ConfirmWrite, ConfirmEvent, ConfirmAudit,
         CompleteReadContributions, CompleteWrite, CompleteEvents,
         CompleteAudit, DisputeCreate, DisputeStatus, DisputeAudit,
         ResolveAudit, Crash, PaymentWebhook, Deadline, SweepRead, SweepWrite,
         SweepCrash

(* The contributions' statuses are only written by these actions. *)
LEMMA ContribWriters ==
  ASSUME Next, contrib' # contrib
  PROVE  \/ \E r \in Reqs : ClaimCommit(r) \/ PayWrite(r) \/ ConfirmWrite(r)
         \/ PaymentWebhook
  BY DEF Next, Arrive, Serve, group, cart, shares, disputes, records, sweep,
         CreateGroup, JoinRead, ClaimRead, PayRead, ConfirmRead, CompleteRead,
         DisputeRead, ResolveDispute, RecomputeReadRow, RecomputeReadItems,
         RecomputeWrite, JoinInsert, ClaimReadItems, ClaimRollback, ClaimAudit,
         ConfirmEvent, ConfirmAudit, CompleteReadContributions, CompleteWrite,
         CompleteEvents, CompleteAudit, DisputeCreate, DisputeStatus,
         DisputeAudit, ResolveAudit, Crash, Deadline, SweepRead, SweepWrite,
         SweepCrash

(* Who sets paidAt and verifiedByWebhook, and who inserts events, audit    *)
(* rows and disputes.                                                      *)
LEMMA SharesWriters ==
  ASSUME Next, <<paidAt, verified>>' # <<paidAt, verified>>
  PROVE  PaymentWebhook \/ \E r \in Reqs : ConfirmWrite(r)
  BY DEF Next, Arrive, Serve, group, cart, shares, disputes, records, sweep,
         CreateGroup, JoinRead, ClaimRead, PayRead, ConfirmRead, CompleteRead,
         DisputeRead, ResolveDispute, RecomputeReadRow, RecomputeReadItems,
         RecomputeWrite, JoinInsert, ClaimReadItems, ClaimCommit,
         ClaimRollback, ClaimAudit, PayWrite, ConfirmEvent, ConfirmAudit,
         CompleteReadContributions, CompleteWrite, CompleteEvents,
         CompleteAudit, DisputeCreate, DisputeStatus, DisputeAudit,
         ResolveAudit, Crash, Deadline, SweepRead, SweepWrite, SweepCrash

LEMMA EventWriters ==
  ASSUME Next, events' # events
  PROVE  \E r \in Reqs : ConfirmEvent(r) \/ CompleteEvents(r)
  BY DEF Next, Arrive, Serve, group, cart, shares, disputes, records, sweep,
         CreateGroup, JoinRead, ClaimRead, PayRead, ConfirmRead, CompleteRead,
         DisputeRead, ResolveDispute, RecomputeReadRow, RecomputeReadItems,
         RecomputeWrite, JoinInsert, ClaimReadItems, ClaimCommit,
         ClaimRollback, ClaimAudit, PayWrite, ConfirmWrite, ConfirmAudit,
         CompleteReadContributions, CompleteWrite, CompleteAudit,
         DisputeCreate, DisputeStatus, DisputeAudit, ResolveAudit, Crash,
         PaymentWebhook, Deadline, SweepRead, SweepWrite, SweepCrash

LEMMA AuditWriters ==
  ASSUME Next, audit' # audit
  PROVE  \E r \in Reqs : \/ ClaimAudit(r) \/ ConfirmAudit(r)
                         \/ CompleteAudit(r) \/ DisputeAudit(r)
                         \/ ResolveAudit(r)
  BY DEF Next, Arrive, Serve, group, cart, shares, disputes, records, sweep,
         CreateGroup, JoinRead, ClaimRead, PayRead, ConfirmRead, CompleteRead,
         DisputeRead, ResolveDispute, RecomputeReadRow, RecomputeReadItems,
         RecomputeWrite, JoinInsert, ClaimReadItems, ClaimCommit,
         ClaimRollback, PayWrite, ConfirmWrite, ConfirmEvent,
         CompleteReadContributions, CompleteWrite, CompleteEvents,
         DisputeCreate, DisputeStatus, Crash, PaymentWebhook, Deadline,
         SweepRead, SweepWrite, SweepCrash

LEMMA DisputeWriters ==
  ASSUME Next, <<raised, undecided>>' # <<raised, undecided>>
  PROVE  \E r \in Reqs : DisputeCreate(r) \/ ResolveDispute(r)
  BY DEF Next, Arrive, Serve, group, cart, shares, disputes, records, sweep,
         CreateGroup, JoinRead, ClaimRead, PayRead, ConfirmRead, CompleteRead,
         DisputeRead, RecomputeReadRow, RecomputeReadItems, RecomputeWrite,
         JoinInsert, ClaimReadItems, ClaimCommit, ClaimRollback, ClaimAudit,
         PayWrite, ConfirmWrite, ConfirmEvent, ConfirmAudit,
         CompleteReadContributions, CompleteWrite, CompleteEvents,
         CompleteAudit, DisputeStatus, DisputeAudit, ResolveAudit, Crash,
         PaymentWebhook, Deadline, SweepRead, SweepWrite, SweepCrash

LEMMA SweepWriters ==
  ASSUME Next, <<due, sweeping>>' # <<due, sweeping>>
  PROVE  Deadline \/ SweepRead \/ SweepWrite \/ SweepCrash
  BY DEF Next, Arrive, Serve, group, cart, shares, disputes, records, sweep,
         CreateGroup, JoinRead, ClaimRead, PayRead, ConfirmRead, CompleteRead,
         DisputeRead, ResolveDispute, RecomputeReadRow, RecomputeReadItems,
         RecomputeWrite, JoinInsert, ClaimReadItems, ClaimCommit,
         ClaimRollback, ClaimAudit, PayWrite, ConfirmWrite, ConfirmEvent,
         ConfirmAudit, CompleteReadContributions, CompleteWrite,
         CompleteEvents, CompleteAudit, DisputeCreate, DisputeStatus,
         DisputeAudit, ResolveAudit, Crash, PaymentWebhook
-----------------------------------------------------------------------------
-----------------------------------------------------------------------------
(* Each part of IInv is kept by every step *)

(* Every request knows its caller. *)
LEMMA CallersStep ==
  ASSUME IInv, Next
  PROVE  CallersKnown'
<1> USE DEF IInv, TypeOK, CallersKnown, InStep, At
<1>1. SUFFICES ASSUME NEW r \in Reqs, req'[r] # req[r]
      PROVE  /\ req'[r].pc # "idle" => req'[r].by \in Users
             /\ req'[r].pc \in {"confirmWrite", "confirmEvent", "confirmAudit"}
                  => req'[r].payer \in Users
  OBVIOUS
<1>2. Arrive(r) \/ Serve(r) \/ Crash(r)
  BY <1>1, OnlyOneMoves
<1>3. req[r] \in Request
  OBVIOUS
<1>4. CASE Arrive(r)
  <2>1. \/ \E u \in Users, pc \in {"recRow", "payWrite", "completeRead",
                                   "disputeCreate", "resolveAudit"} :
             Accept(r, pc, u)
        \/ JoinRead(r) \/ ClaimRead(r) \/ ConfirmRead(r)
    BY <1>4, UsersAssumption DEF Arrive, CreateGroup, PayRead, CompleteRead,
       DisputeRead, ResolveDispute, Contributors
  <2>2. CASE \E u \in Users, pc \in {"recRow", "payWrite", "completeRead",
                                     "disputeCreate", "resolveAudit"} :
               Accept(r, pc, u)
    BY <2>2, AcceptAt
  <2>3. CASE JoinRead(r)
    <3>1. PICK u \in Users, a \in Amounts :
            req'[r] = [Idle EXCEPT !.pc = "joinInsert", !.by = u, !.paise = a]
      BY <2>3 DEF JoinRead, Becomes
    <3> QED BY <3>1 DEF Idle
  <2>4. CASE ClaimRead(r)
    <3>1. PICK u \in Users, f \in Fees :
            req'[r] = [Idle EXCEPT !.pc = "claimItems", !.by = u, !.paise = f]
      BY <2>4 DEF ClaimRead, Becomes
    <3> QED BY <3>1 DEF Idle
  <2>5. CASE ConfirmRead(r)
    <3>1. PICK u \in Users :
            req'[r] = [Idle EXCEPT !.pc = "confirmWrite", !.by = coordinator,
                                   !.payer = u]
      BY <2>5 DEF ConfirmRead, Becomes
    <3>2. coordinator \in Users
      BY <2>5 DEF ConfirmRead
    <3> QED BY <3>1, <3>2 DEF Idle
  <2> QED BY <2>1, <2>2, <2>3, <2>4, <2>5
<1>5. CASE Serve(r)
  <2>1. \/ req'[r].pc = "idle"
        \/ /\ req'[r].by = req[r].by
           /\ req'[r].payer = req[r].payer
           /\ req[r].pc # "idle"
           /\ \/ req'[r].pc \notin {"confirmWrite", "confirmEvent", "confirmAudit"}
              \/ req[r].pc \in {"confirmWrite", "confirmEvent"}
    <3>1. \/ RecomputeReadRow(r) \/ RecomputeReadItems(r) \/ ClaimReadItems(r)
          \/ CompleteReadContributions(r)
          \/ Reply(r)
          \/ /\ req[r].pc # "idle"
             /\ \E pc \in {"recRow", "claimAudit", "completeEvents",
                           "completeAudit", "disputeStatus", "disputeAudit"} :
                  Goto(r, pc)
          \/ /\ req[r].pc \in {"confirmWrite", "confirmEvent"}
             /\ \E pc \in {"confirmEvent", "confirmAudit"} : Goto(r, pc)
      BY <1>5 DEF Serve, RecomputeWrite, JoinInsert, ClaimCommit, ClaimRollback,
           ClaimAudit, PayWrite, ConfirmWrite, ConfirmEvent, ConfirmAudit,
           CompleteWrite, CompleteEvents, CompleteAudit, DisputeCreate,
           DisputeStatus, DisputeAudit, ResolveAudit
    <3>2. CASE RecomputeReadRow(r)
      BY <3>2, <1>3, ReplyAt DEF RecomputeReadRow, Becomes, Request
    <3>3. CASE RecomputeReadItems(r)
      BY <3>3, <1>3, ReplyAt DEF RecomputeReadItems, Becomes, Request
    <3>4. CASE ClaimReadItems(r)
      BY <3>4, <1>3 DEF ClaimReadItems, Becomes, Request
    <3>5. CASE CompleteReadContributions(r)
      BY <3>5, <1>3 DEF CompleteReadContributions, Becomes, Request
    <3> QED BY <3>1, <3>2, <3>3, <3>4, <3>5, GotoAt, ReplyAt
  <2> QED BY <2>1
<1>6. CASE Crash(r)
  BY <1>6, ReplyAt DEF Crash
<1> QED BY <1>2, <1>4, <1>5, <1>6

(* Request bodies stay valid. *)
LEMMA BodiesStep ==
  ASSUME IInv, Next
  PROVE  BodiesValid'
<1> USE DEF At, InStep
<1>1. req \in [Reqs -> Request]
  BY DEF IInv, TypeOK
<1>2. SUFFICES ASSUME NEW r \in Reqs
      PROVE  /\ req'[r].pc = "joinInsert" => req'[r].paise \in Amounts
             /\ req'[r].pc \in {"claimItems", "claimTx"}
                  => req'[r].paise \in Fees
  BY DEF BodiesValid
<1>3. CASE req'[r] = req[r]
  BY <1>3 DEF IInv, BodiesValid
<1>4. CASE req'[r] # req[r] /\ req'[r].pc = "joinInsert"
  <2>1. PICK u \in Users, a \in Amounts :
          req'[r] = [Idle EXCEPT !.pc = "joinInsert", !.by = u, !.paise = a]
    BY <1>1, <1>4, HowEntered DEF JoinRead, Becomes
  <2> QED BY <1>4, <2>1 DEF Idle
<1>5. CASE req'[r] # req[r] /\ req'[r].pc = "claimItems"
  <2>1. PICK u \in Users, f \in Fees :
          req'[r] = [Idle EXCEPT !.pc = "claimItems", !.by = u, !.paise = f]
    BY <1>1, <1>5, HowEntered DEF ClaimRead, Becomes
  <2> QED BY <1>5, <2>1 DEF Idle
<1>6. CASE req'[r] # req[r] /\ req'[r].pc = "claimTx"
  <2>1. ClaimReadItems(r) /\ req[r] \in Request
    BY <1>1, <1>6, HowEntered
  <2>2. req'[r].paise = req[r].paise /\ req[r].pc = "claimItems"
    BY <1>1, <2>1 DEF ClaimReadItems, Becomes, Request
  <2> QED BY <1>6, <2>2 DEF IInv, BodiesValid
<1> QED BY <1>3, <1>4, <1>5, <1>6

(* Before the row exists the only step is POST /groups. *)
LEMMA OnlyCreate ==
  ASSUME IInv, Next, status = "ABSENT"
  PROVE  \E r \in Reqs : CreateGroup(r)
<1>1. \A r \in Reqs : req[r] = Idle /\ req[r].pc = "idle"
  BY DEF IInv, RowExists, Idle
<1>2. Contributors = {}
  BY DEF IInv, RowExists, SplitWithinCart
<1>3. raised = 0 /\ undecided = 0 /\ coordinator = NoUser
  BY DEF IInv, RowExists, Claimed
<1>4. ~SweepRead /\ ~SweepWrite /\ ~SweepCrash
  BY Zenon DEF IInv, RowExists, SweepRead, SweepWrite, SweepCrash
<1>5. ~PaymentWebhook /\ ~Deadline
  BY <1>2 DEF PaymentWebhook, Deadline
<1>6. ASSUME NEW r \in Reqs, Arrive(r) PROVE CreateGroup(r)
  BY <1>2, <1>3, <1>6 DEF Arrive, ACTIVE_STATUSES, JoinRead, ClaimRead,
     PayRead, ConfirmRead, CompleteRead, DisputeRead, ResolveDispute
<1>7. ASSUME NEW r \in Reqs PROVE ~Serve(r) /\ ~Crash(r)
  BY <1>1 DEF Serve, Crash, At, RecomputeReadRow, RecomputeReadItems,
     RecomputeWrite, JoinInsert, ClaimReadItems, ClaimCommit, ClaimRollback,
     ClaimAudit, PayWrite, ConfirmWrite, ConfirmEvent, ConfirmAudit,
     CompleteReadContributions, CompleteWrite, CompleteEvents, CompleteAudit,
     DisputeCreate, DisputeStatus, DisputeAudit, ResolveAudit
<1> QED BY <1>4, <1>5, <1>6, <1>7 DEF Next

(* Nobody removes an item. *)
LEMMA CartGrows ==
  ASSUME IInv, Next
  PROVE  /\ itemsPaise \in Nat /\ itemsPaise' \in Nat /\ itemsPaise <= itemsPaise'
         /\ members \subseteq members'
<1> USE MoneyAssumption DEF IInv, TypeOK
<1>1. ASSUME NEW r \in Reqs, CreateGroup(r)
      PROVE  itemsPaise = 0 /\ members = {} /\ itemsPaise' \in Nat
  BY <1>1 DEF CreateGroup, RowExists
<1>2. ASSUME NEW r \in Reqs, JoinInsert(r)
      PROVE  /\ req[r].paise \in Nat
             /\ itemsPaise' = itemsPaise + req[r].paise
             /\ members \subseteq members'
  <2>1. req[r] \in Request
    OBVIOUS
  <2> QED BY <1>2, <2>1 DEF JoinInsert, Request
<1> QED BY <1>1, <1>2, CartWriters

(* A contribution row is never deleted, and only the claim inserts one. *)
LEMMA ContributorsStay ==
  ASSUME IInv, Next
  PROVE  /\ Contributors \subseteq Contributors'
         /\ Contributors' # Contributors => \E r \in Reqs : ClaimCommit(r)
<1> USE DEF Contributors
<1>0. contrib \in [Users -> ContributionStatus] /\ req \in [Reqs -> Request]
  BY DEF IInv, TypeOK
<1>1. CASE contrib' = contrib
  BY <1>1
<1>2. ASSUME NEW r \in Reqs, ClaimCommit(r)
      PROVE  Contributors \subseteq Contributors'
  BY <1>0, <1>2 DEF ClaimCommit
<1>3. ASSUME NEW r \in Reqs, PayWrite(r)
      PROVE  Contributors = Contributors'
  <2>1. req[r].by \in Contributors
    BY <1>3 DEF IInv, SharesGrounded, PayWrite
  <2> QED BY <1>0, <1>3, <2>1 DEF PayWrite
<1>4. ASSUME NEW r \in Reqs, ConfirmWrite(r)
      PROVE  Contributors = Contributors'
  BY <1>0, <1>4 DEF ConfirmWrite
<1>5. CASE PaymentWebhook
  BY <1>0, <1>5 DEF PaymentWebhook
<1> QED BY <1>1, <1>2, <1>3, <1>4, <1>5, ContribWriters

(* A recompute's read stays true until it writes. *)
LEMMA RecomputeStep ==
  ASSUME IInv, Next
  PROVE  RecomputeGrounded'
<1> USE MoneyAssumption DEF At, ACTIVE_STATUSES
<1>1. req \in [Reqs -> Request]
  BY DEF IInv, TypeOK
<1>2. /\ itemsPaise \in Nat /\ itemsPaise' \in Nat /\ itemsPaise <= itemsPaise'
  BY CartGrows
<1>3. SUFFICES ASSUME NEW r \in Reqs
      PROVE  /\ req'[r].pc = "recItems" =>
                  /\ req'[r].seen \in ACTIVE_STATUSES
                  /\ req'[r].seen = "THRESHOLD_MET" => itemsPaise' >= Threshold
             /\ req'[r].pc = "recWrite" =>
                  /\ req'[r].seen = "THRESHOLD_MET"
                  /\ itemsPaise' >= Threshold
  BY DEF RecomputeGrounded
<1>4. CASE req'[r] = req[r]
  BY <1>2, <1>4 DEF IInv, RecomputeGrounded
<1>5. CASE req'[r] # req[r] /\ req'[r].pc = "recItems"
  <2>1. RecomputeReadRow(r)
    BY <1>1, <1>5, HowEntered
  <2>2. req'[r] = Idle \/ (req'[r].seen = status /\ status \in ACTIVE_STATUSES)
    <3>1. req[r] \in Request
      BY <1>1
    <3> QED BY <1>1, <2>1, <3>1, ReplyAt DEF RecomputeReadRow, Becomes, Request
  <2>3. status = "THRESHOLD_MET" => itemsPaise >= Threshold
    BY DEF IInv, MinimumReached
  <2> QED BY <1>2, <1>5, <2>2, <2>3 DEF Idle
<1>6. CASE req'[r] # req[r] /\ req'[r].pc = "recWrite"
  <2>1. RecomputeReadItems(r)
    BY <1>1, <1>6, HowEntered
  <2>2. /\ req[r].pc = "recItems"
        /\ req'[r].seen = NextStatus(itemsPaise)
        /\ NextStatus(itemsPaise) # req[r].seen
    <3>1. req[r] \in Request
      BY <1>1
    <3> QED BY <1>1, <1>6, <2>1, <3>1, ReplyAt
        DEF RecomputeReadItems, Becomes, Request
  <2>3. /\ req[r].seen \in ACTIVE_STATUSES
        /\ req[r].seen = "THRESHOLD_MET" => itemsPaise >= Threshold
    BY <2>2 DEF IInv, RecomputeGrounded
  <2> QED BY <1>2, <2>2, <2>3 DEF NextStatus, CrossesThreshold
<1> QED BY <1>4, <1>5, <1>6

(* A claim's read stays true until it commits. *)
LEMMA ClaimStep ==
  ASSUME IInv, Next
  PROVE  ClaimGrounded'
<1> USE MoneyAssumption DEF At
<1>1. req \in [Reqs -> Request]
  BY DEF IInv, TypeOK
<1>2. /\ itemsPaise \in Nat /\ itemsPaise' \in Nat /\ itemsPaise <= itemsPaise'
      /\ members \subseteq members'
  BY CartGrows
<1>3. SUFFICES ASSUME NEW r \in Reqs
      PROVE  /\ req'[r].pc = "claimItems" => itemsPaise' >= Threshold
             /\ req'[r].pc = "claimTx" => /\ Threshold <= req'[r].total
                                          /\ req'[r].total <= itemsPaise'
                                          /\ req'[r].who # {}
                                          /\ req'[r].who \subseteq members'
  BY DEF ClaimGrounded
<1>4. req[r] \in Request
  BY <1>1
<1>5. CASE req'[r] = req[r]
  BY <1>2, <1>4, <1>5 DEF IInv, ClaimGrounded, Request
<1>6. CASE req'[r] # req[r] /\ req'[r].pc = "claimItems"
  <2>1. status = "THRESHOLD_MET"
    BY <1>1, <1>6, HowEntered DEF ClaimRead
  <2> QED BY <1>2, <1>6, <2>1 DEF IInv, MinimumReached
<1>7. CASE req'[r] # req[r] /\ req'[r].pc = "claimTx"
  <2>1. ClaimReadItems(r)
    BY <1>1, <1>7, HowEntered
  <2>2. req'[r].total = itemsPaise /\ req'[r].who = members
    BY <1>1, <1>4, <2>1 DEF ClaimReadItems, Becomes, Request
  <2>3. itemsPaise >= Threshold
    BY <2>1 DEF ClaimReadItems, IInv, ClaimGrounded
  <2>4. members # {}
    <3>1. req[r] # Idle
      BY <2>1 DEF ClaimReadItems, Idle
    <3> QED BY <3>1 DEF IInv, RowExists
  <2> QED BY <1>2, <1>7, <2>2, <2>3, <2>4
<1> QED BY <1>5, <1>6, <1>7

(* Whoever pays has a row, whoever completes found the minimum reached. *)
LEMMA SharesStep ==
  ASSUME IInv, Next
  PROVE  SharesGrounded'
<1> USE MoneyAssumption DEF At, InStep
<1>1. req \in [Reqs -> Request]
  BY DEF IInv, TypeOK
<1>2. itemsPaise \in Nat /\ itemsPaise' \in Nat /\ itemsPaise <= itemsPaise'
  BY CartGrows
<1>3. Contributors \subseteq Contributors'
  BY ContributorsStay
<1>4. SUFFICES ASSUME NEW r \in Reqs
      PROVE  /\ req'[r].pc = "payWrite" => req'[r].by \in Contributors'
             /\ req'[r].pc \in {"completeRead", "completeWrite"}
                  => itemsPaise' >= Threshold
  BY DEF SharesGrounded
<1>5. req[r] \in Request
  BY <1>1
<1>6. CASE req'[r] = req[r]
  BY <1>2, <1>3, <1>6 DEF IInv, SharesGrounded
<1>7. CASE req'[r] # req[r] /\ req'[r].pc = "payWrite"
  <2>1. PICK u \in Contributors : Accept(r, "payWrite", u)
    BY <1>1, <1>7, HowEntered DEF PayRead
  <2> QED BY <1>1, <1>3, <1>7, <2>1, AcceptAt
<1>8. CASE req'[r] # req[r] /\ req'[r].pc = "completeRead"
  <2>1. status = "AWAITING_PAYMENTS"
    BY <1>1, <1>8, HowEntered DEF CompleteRead
  <2> QED BY <1>2, <1>8, <2>1 DEF IInv, MinimumReached
<1>9. CASE req'[r] # req[r] /\ req'[r].pc = "completeWrite"
  <2>1. req[r].pc = "completeRead"
    BY <1>1, <1>9, HowEntered DEF CompleteReadContributions
  <2> QED BY <1>2, <1>9, <2>1 DEF IInv, SharesGrounded
<1> QED BY <1>6, <1>7, <1>8, <1>9

(* Two claims never both pass the unique index. *)
LEMMA LateClaimRollsBack ==
  ASSUME IInv, NEW r \in Reqs, ClaimCommit(r)
  PROVE  ~Claimed /\ Contributors = {} /\ splitPaise = 0
<1>1. Claimed => req[r].who \cap Contributors # {}
  BY DEF IInv, ClaimsOverlap, ClaimCommit
<1>2. req[r].who \cap Contributors = {}
  BY DEF ClaimCommit, UniqueContributions, Contributors
<1>3. ~Claimed
  BY <1>1, <1>2
<1> QED BY <1>3 DEF IInv, SplitWithinCart

(* What the claim's transaction writes. *)
LEMMA ClaimWrites ==
  ASSUME IInv, NEW r \in Reqs, ClaimCommit(r)
  PROVE  /\ Claimed' /\ coordinator' \in Users
         /\ Contributors' = req[r].who
         /\ req[r].who # {} /\ req[r].who \subseteq members
         /\ fee' = req[r].paise /\ fee' \in Nat
         /\ splitPaise' = req[r].total + fee'
         /\ req[r].total \in Nat
         /\ Threshold <= req[r].total /\ req[r].total <= itemsPaise
         /\ itemsPaise' = itemsPaise /\ members' = members
<1>1. req[r] \in Request /\ contrib \in [Users -> ContributionStatus]
  BY DEF IInv, TypeOK
<1>2. /\ req[r].paise \in Nat /\ req[r].total \in Nat
      /\ req[r].who \subseteq Users
  BY <1>1 DEF Request
<1>3. /\ Threshold <= req[r].total /\ req[r].total <= itemsPaise
      /\ req[r].who # {} /\ req[r].who \subseteq members
  BY DEF IInv, ClaimGrounded, ClaimCommit
<1>4. coordinator' \in Users /\ Claimed'
  BY UsersAssumption DEF ClaimCommit, At, IInv, CallersKnown, Claimed
<1>5. Contributors = {} /\ splitPaise = 0
  BY LateClaimRollsBack
<1>6. Contributors' = req[r].who
  BY <1>2, <1>5 DEF ClaimCommit, Contributors
<1> QED BY <1>2, <1>3, <1>4, <1>5, <1>6 DEF ClaimCommit, SplitTotal, cart

(* Claims in flight overlap with each other and with the one committed. *)
LEMMA OverlapStep ==
  ASSUME IInv, Next
  PROVE  ClaimsOverlap'
<1> USE DEF At
<1>1. req \in [Reqs -> Request]
  BY DEF IInv, TypeOK
<1>2. ClaimGrounded'
  BY ClaimStep
<1>3. \A r \in Reqs : req'[r].pc = "claimTx" /\ req'[r] # req[r]
        => ClaimReadItems(r) /\ req'[r].who = members
  <2>1. SUFFICES ASSUME NEW r \in Reqs, req'[r].pc = "claimTx", req'[r] # req[r]
        PROVE  ClaimReadItems(r) /\ req'[r].who = members
    OBVIOUS
  <2>2. ClaimReadItems(r) /\ req[r] \in Request
    BY <1>1, <2>1, HowEntered
  <2> QED BY <1>1, <2>2 DEF ClaimReadItems, Becomes, Request
<1>4. \A r \in Reqs : req'[r].pc = "claimTx"
        => req'[r].who # {} /\ req'[r].who \subseteq members'
  BY <1>2 DEF ClaimGrounded
<1>5. \A r \in Reqs : req[r].pc = "claimTx"
        => req[r].who # {} /\ req[r].who \subseteq members
  BY DEF IInv, ClaimGrounded
<1>6. SUFFICES ASSUME NEW r \in Reqs, req'[r].pc = "claimTx"
      PROVE  /\ \A q \in Reqs : req'[q].pc = "claimTx"
                   => req'[r].who \cap req'[q].who # {}
             /\ Claimed' => req'[r].who \cap Contributors' # {}
  BY DEF ClaimsOverlap
<1>7. ASSUME NEW q \in Reqs, req'[q].pc = "claimTx"
      PROVE  req'[r].who \cap req'[q].who # {}
  <2>1. CASE req'[r] = req[r] /\ req'[q] = req[q]
    BY <1>6, <1>7, <2>1 DEF IInv, ClaimsOverlap
  <2>2. CASE req'[r] # req[r] /\ req'[q] = req[q]
    BY <1>3, <1>5, <1>6, <1>7, <2>2
  <2>3. CASE req'[r] = req[r] /\ req'[q] # req[q]
    BY <1>3, <1>5, <1>6, <1>7, <2>3
  <2>4. CASE req'[r] # req[r] /\ req'[q] # req[q]
    BY <1>3, <1>4, <1>6, <1>7, <2>4
  <2> QED BY <2>1, <2>2, <2>3, <2>4
<1>8. ASSUME Claimed' PROVE req'[r].who \cap Contributors' # {}
  <2>1. CASE \E p \in Reqs : ClaimCommit(p)
    <3>1. PICK p \in Reqs : ClaimCommit(p)
      BY <2>1
    <3>2. Contributors' = req[p].who /\ req[p].pc = "claimTx"
      BY <3>1, ClaimWrites DEF ClaimCommit
    <3>3. req'[p].pc = "claimAudit"
      BY <1>1, <3>1, GotoAt DEF ClaimCommit
    <3>4. req'[r] = req[r]
      BY <1>1, <1>6, <3>1, <3>3 DEF ClaimCommit, Goto, Becomes
    <3> QED BY <1>6, <3>2, <3>4 DEF IInv, ClaimsOverlap
  <2>2. CASE ~\E p \in Reqs : ClaimCommit(p)
    <3>1. Claimed /\ Contributors' = Contributors
      BY <1>8, <2>2, ClaimWriters, ContributorsStay DEF Claimed
    <3>2. Contributors # {} /\ Contributors \subseteq members
      BY <3>1 DEF IInv, SplitWithinCart
    <3>3. CASE req'[r] = req[r]
      BY <1>6, <3>1, <3>3 DEF IInv, ClaimsOverlap
    <3>4. CASE req'[r] # req[r]
      BY <1>3, <1>6, <3>1, <3>2, <3>4
    <3> QED BY <3>3, <3>4
  <2> QED BY <2>1, <2>2
<1> QED BY <1>7, <1>8

(* A bound stays when its right-hand side grows. *)
LEMMA WeakerBound ==
  ASSUME NEW a \in Nat, NEW b \in Nat, NEW c \in Nat, NEW d \in Nat,
         a <= b, d <= a + c
  PROVE  d <= b + c
  OBVIOUS

(* The shares stay within the cart. *)
LEMMA SplitStep ==
  ASSUME IInv, Next
  PROVE  SplitWithinCart'
<1> USE MoneyAssumption
<1>1. /\ itemsPaise \in Nat /\ itemsPaise' \in Nat /\ itemsPaise <= itemsPaise'
      /\ members \subseteq members'
  BY CartGrows
<1>2. fee \in Nat /\ splitPaise \in Nat
  BY DEF IInv, TypeOK
<1>3. CASE \E r \in Reqs : ClaimCommit(r)
  <2>1. PICK r \in Reqs : ClaimCommit(r)
    BY <1>3
  <2> QED BY <1>1, <2>1, ClaimWrites DEF SplitWithinCart
<1>4. CASE ~\E r \in Reqs : ClaimCommit(r)
  <2>1. /\ coordinator' = coordinator /\ fee' = fee /\ splitPaise' = splitPaise
        /\ Contributors' = Contributors
    BY <1>4, ClaimWriters, ContributorsStay
  <2>2. SplitWithinCart
    BY DEF IInv
  <2>3. CASE coordinator # NoUser
    <3>1. /\ Threshold + fee <= splitPaise /\ splitPaise <= itemsPaise + fee
          /\ Contributors # {} /\ Contributors \subseteq members
      BY <2>2, <2>3 DEF SplitWithinCart, Claimed
    <3>2. /\ Threshold + fee' <= splitPaise' /\ splitPaise' <= itemsPaise' + fee'
      BY <1>1, <1>2, <2>1, <3>1, WeakerBound
    <3>3. Contributors' # {} /\ Contributors' \subseteq members'
      BY <1>1, <2>1, <3>1
    <3> QED BY <2>1, <2>3, <3>2, <3>3 DEF SplitWithinCart, Claimed
  <2>4. CASE coordinator = NoUser
    BY <2>1, <2>2, <2>4 DEF SplitWithinCart, Claimed
  <2> QED BY <2>3, <2>4
<1> QED BY <1>3, <1>4

(* Where a status comes from. *)
LEMMA StatusAfter ==
  ASSUME IInv, Next, status' # status
  PROVE  \/ status' = "OPEN" /\ status = "ABSENT"
         \/ status' = "THRESHOLD_MET" /\ itemsPaise' >= Threshold
         \/ status' = "AWAITING_PAYMENTS" /\ itemsPaise' >= Threshold
         \/ status' = "COMPLETED" /\ itemsPaise' >= Threshold
         \/ status' \in {"DISPUTED", "EXPIRED"}
<1> USE MoneyAssumption
<1>1. itemsPaise \in Nat /\ itemsPaise' \in Nat /\ itemsPaise <= itemsPaise'
  BY CartGrows
<1>2. ASSUME NEW r \in Reqs, CreateGroup(r)
      PROVE  status' = "OPEN" /\ status = "ABSENT"
  BY <1>2 DEF CreateGroup
<1>3. ASSUME NEW r \in Reqs, RecomputeWrite(r)
      PROVE  status' = "THRESHOLD_MET" /\ itemsPaise >= Threshold
  BY <1>3 DEF RecomputeWrite, IInv, RecomputeGrounded
<1>4. ASSUME NEW r \in Reqs, ClaimCommit(r)
      PROVE  status' = "AWAITING_PAYMENTS" /\ itemsPaise >= Threshold
  <2>1. status' = "AWAITING_PAYMENTS"
    BY <1>4 DEF ClaimCommit
  <2>2. /\ Threshold <= req[r].total /\ req[r].total <= itemsPaise
        /\ req[r].total \in Nat
    BY <1>4, ClaimWrites
  <2> QED BY <1>1, <2>1, <2>2
<1>5. ASSUME NEW r \in Reqs, CompleteWrite(r)
      PROVE  status' = "COMPLETED" /\ itemsPaise >= Threshold
  BY <1>5 DEF CompleteWrite, At, InStep, IInv, SharesGrounded
<1>6. ASSUME NEW r \in Reqs, DisputeStatus(r)
      PROVE  status' = "DISPUTED"
  BY <1>6 DEF DisputeStatus
<1>7. SweepWrite => status' = "EXPIRED"
  BY DEF SweepWrite
<1> QED BY <1>1, <1>2, <1>3, <1>4, <1>5, <1>6, <1>7, StatusWriters

(* The minimum stays reached. *)
LEMMA MinimumStep ==
  ASSUME IInv, Next
  PROVE  MinimumReached'
<1>1. itemsPaise \in Nat /\ itemsPaise' \in Nat /\ itemsPaise <= itemsPaise'
  BY CartGrows
<1>2. CASE status' = status
  BY <1>1, <1>2, MoneyAssumption DEF IInv, MinimumReached
<1>3. CASE status' # status
  BY <1>3, StatusAfter DEF MinimumReached
<1> QED BY <1>2, <1>3

(* While OPEN, no recompute has seen another status. *)
LEMMA FreshStep ==
  ASSUME IInv, Next
  PROVE  OpenIsFresh'
<1> USE DEF At
<1>1. req \in [Reqs -> Request]
  BY DEF IInv, TypeOK
<1>2. SUFFICES ASSUME status' = "OPEN", NEW r \in Reqs, req'[r].pc = "recItems"
      PROVE  req'[r].seen = "OPEN"
  BY DEF OpenIsFresh
<1>3. CASE status' # status
  <2>1. status = "ABSENT"
    BY <1>2, <1>3, StatusAfter
  <2>2. req[r].pc = "idle"
    BY <2>1 DEF IInv, RowExists, Idle
  <2>3. RecomputeReadRow(r)
    BY <1>1, <1>2, <2>2, HowEntered
  <2> QED BY <2>2, <2>3 DEF RecomputeReadRow
<1>4. CASE status' = status /\ req'[r] = req[r]
  BY <1>2, <1>4 DEF IInv, OpenIsFresh
<1>5. CASE status' = status /\ req'[r] # req[r]
  <2>1. RecomputeReadRow(r) /\ req[r] \in Request
    BY <1>1, <1>2, <1>5, HowEntered
  <2> QED BY <1>1, <1>2, <1>5, <2>1, ReplyAt
      DEF RecomputeReadRow, Becomes, Request
<1> QED BY <1>3, <1>4, <1>5

(* The row, once created, stays. *)
LEMMA RowStep ==
  ASSUME IInv, Next
  PROVE  RowExists'
<1>1. CASE status = "ABSENT"
  <2>1. PICK r \in Reqs : CreateGroup(r)
    BY <1>1, OnlyCreate
  <2>2. status' = "OPEN" /\ \E u \in Users : members' = {u}
    BY <2>1 DEF CreateGroup
  <2> QED BY <2>2 DEF RowExists
<1>2. CASE status # "ABSENT"
  <2>1. status' # "ABSENT"
    BY <1>2, StatusAfter
  <2> QED BY <1>2, <2>1, CartGrows DEF IInv, RowExists
<1> QED BY <1>1, <1>2
-----------------------------------------------------------------------------
(* Type correctness *)

(* Every handler leaves the slots typed. *)
LEMMA RequestsTyped ==
  ASSUME IInv, Next
  PROVE  req' \in [Reqs -> Request]
<1>0. req \in [Reqs -> Request]
  BY DEF IInv, TypeOK
<1>1. ASSUME NEW r \in Reqs, NEW pc \in Step, NEW u \in Users, Accept(r, pc, u)
      PROVE  req' \in [Reqs -> Request]
  BY <1>0, <1>1, NewRequests, BecomesTyped DEF Accept
<1>2. ASSUME NEW r \in Reqs, NEW pc \in Step, Goto(r, pc)
      PROVE  req' \in [Reqs -> Request]
  <2>1. [req[r] EXCEPT !.pc = pc] \in Request
    BY <1>0 DEF Request
  <2> QED BY <1>0, <1>2, <2>1, BecomesTyped DEF Goto
<1>3. ASSUME NEW r \in Reqs, Reply(r)
      PROVE  req' \in [Reqs -> Request]
  BY <1>0, <1>3, IdleRequest, BecomesTyped DEF Reply
<1>4. ASSUME NEW r \in Reqs, Arrive(r) PROVE req' \in [Reqs -> Request]
  <2>1. CASE JoinRead(r)
    <3>1. PICK u \in Users, a \in Amounts :
            Becomes(r, [Idle EXCEPT !.pc = "joinInsert", !.by = u, !.paise = a])
      BY <2>1 DEF JoinRead
    <3>2. a \in Nat /\ "joinInsert" \in Step
      BY MoneyAssumption DEF Step
    <3>3. [Idle EXCEPT !.pc = "joinInsert", !.by = u, !.paise = a] \in Request
      BY <3>2, NewRequests
    <3> QED BY <1>0, <3>1, <3>3, BecomesTyped
  <2>2. CASE ClaimRead(r)
    <3>1. PICK u \in Users, f \in Fees :
            Becomes(r, [Idle EXCEPT !.pc = "claimItems", !.by = u, !.paise = f])
      BY <2>2 DEF ClaimRead
    <3>2. f \in Nat /\ "claimItems" \in Step
      BY MoneyAssumption DEF Step
    <3>3. [Idle EXCEPT !.pc = "claimItems", !.by = u, !.paise = f] \in Request
      BY <3>2, NewRequests
    <3> QED BY <1>0, <3>1, <3>3, BecomesTyped
  <2>3. CASE ConfirmRead(r)
    <3>1. PICK u \in Users :
            Becomes(r, [Idle EXCEPT !.pc = "confirmWrite", !.by = coordinator,
                                    !.payer = u])
      BY <2>3 DEF ConfirmRead
    <3>2. coordinator \in Users /\ "confirmWrite" \in Step
      BY <2>3 DEF ConfirmRead, IInv, TypeOK, Step
    <3>3. [Idle EXCEPT !.pc = "confirmWrite", !.by = coordinator, !.payer = u]
            \in Request
      BY <3>2, NewRequests
    <3> QED BY <1>0, <3>1, <3>3, BecomesTyped
  <2>4. CASE \E u \in Users, pc \in Step : Accept(r, pc, u)
    BY <1>1, <2>4
  <2>5. {"recRow", "payWrite", "completeRead", "disputeCreate", "resolveAudit"}
          \subseteq Step
    BY DEF Step
  <2>6. ASSUME CompleteRead(r) PROVE coordinator \in Users
    BY <2>6 DEF CompleteRead, IInv, TypeOK
  <2>7. \/ CreateGroup(r) \/ PayRead(r) \/ CompleteRead(r) \/ DisputeRead(r)
        \/ ResolveDispute(r)
        => \E u \in Users, pc \in Step : Accept(r, pc, u)
    BY <2>5, <2>6 DEF CreateGroup, PayRead, CompleteRead, DisputeRead,
       ResolveDispute, Contributors
  <2> QED BY <1>4, <2>1, <2>2, <2>3, <2>4, <2>7 DEF Arrive
<1>5. ASSUME NEW r \in Reqs, Serve(r) PROVE req' \in [Reqs -> Request]
  <2>0. req[r] \in Request
    BY <1>0
  <2>1. CASE RecomputeReadRow(r)
    <3>1. [req[r] EXCEPT !.pc = "recItems", !.seen = status] \in Request
      <4>1. "recItems" \in Step /\ status \in GroupStatus
        BY DEF IInv, TypeOK, Step
      <4> QED BY <2>0, <4>1 DEF Request
    <3> QED BY <1>0, <1>3, <2>1, <3>1, BecomesTyped DEF RecomputeReadRow
  <2>2. CASE RecomputeReadItems(r)
    <3>1. [req[r] EXCEPT !.pc = "recWrite", !.seen = NextStatus(itemsPaise)]
            \in Request
      BY <2>0 DEF NextStatus, Step, Request, GroupStatus
    <3> QED BY <1>0, <1>3, <2>2, <3>1, BecomesTyped DEF RecomputeReadItems
  <2>3. CASE ClaimReadItems(r)
    <3>1. itemsPaise \in Nat /\ members \in SUBSET Users /\ "claimTx" \in Step
      BY DEF IInv, TypeOK, Step
    <3>2. [req[r] EXCEPT !.pc = "claimTx", !.total = itemsPaise, !.who = members]
            \in Request
      BY <2>0, <3>1 DEF Request
    <3> QED BY <1>0, <2>3, <3>2, BecomesTyped DEF ClaimReadItems
  <2>4. CASE CompleteReadContributions(r)
    <3> DEFINE batch == {<<u, OutcomeOf(u)>> : u \in Contributors}
                          \cup {<<req[r].by, "COORDINATOR_COMPLETED">>}
    <3>1. req[r].by \in Users
      BY <2>4 DEF CompleteReadContributions, At, IInv, CallersKnown
    <3>2. batch \in SUBSET (Users \X EventType)
      BY <3>1 DEF OutcomeOf, Contributors, EventType
    <3>3. [req[r] EXCEPT !.pc = "completeWrite", !.batch = batch] \in Request
      <4> HIDE DEF batch
      <4> QED BY <2>0, <3>2 DEF Request, Step
    <3> QED BY <1>0, <2>4, <3>3, BecomesTyped DEF CompleteReadContributions
  <2>5. CASE Reply(r) \/ \E pc \in Step : Goto(r, pc)
    BY <1>2, <1>3, <2>5
  <2> QED BY <1>5, <2>1, <2>2, <2>3, <2>4, <2>5 DEF Serve, RecomputeWrite,
         JoinInsert, ClaimCommit, ClaimRollback, ClaimAudit, PayWrite,
         ConfirmWrite, ConfirmEvent, ConfirmAudit, CompleteWrite,
         CompleteEvents, CompleteAudit, DisputeCreate, DisputeStatus,
         DisputeAudit, ResolveAudit, Step
<1>6. ASSUME NEW r \in Reqs, Crash(r) PROVE req' \in [Reqs -> Request]
  BY <1>3, <1>6 DEF Crash
<1> QED BY <1>0, <1>4, <1>5, <1>6 DEF Next, PaymentWebhook, Deadline,
       SweepRead, SweepWrite, SweepCrash

(* Cart, coordinator and amounts stay typed. *)
LEMMA MoneyTyped ==
  ASSUME IInv, Next
  PROVE  /\ coordinator' \in Users \cup {NoUser}
         /\ fee' \in Nat /\ itemsPaise' \in Nat /\ splitPaise' \in Nat
         /\ members' \subseteq Users
<1>1. coordinator' \in Users \cup {NoUser} /\ fee' \in Nat /\ splitPaise' \in Nat
  <2>1. CASE \E r \in Reqs : ClaimCommit(r)
    BY <2>1, ClaimWrites
  <2>2. CASE ~\E r \in Reqs : ClaimCommit(r)
    BY <2>2, ClaimWriters DEF IInv, TypeOK
  <2> QED BY <2>1, <2>2
<1>2. members' \subseteq Users
  <2>1. ASSUME NEW r \in Reqs, JoinInsert(r) PROVE req[r].by \in Users
    BY <2>1 DEF JoinInsert, At, IInv, CallersKnown
  <2> QED BY <2>1, CartWriters DEF CreateGroup, JoinInsert, IInv, TypeOK
<1> QED BY <1>1, <1>2, CartGrows

(* Contributions stay typed. *)
LEMMA ContribTyped ==
  ASSUME IInv, Next
  PROVE  /\ contrib' \in [Users -> ContributionStatus]
         /\ paidAt' \subseteq Users /\ verified' \subseteq Users
<1> USE DEF IInv, TypeOK, ContributionStatus
<1>1. contrib' \in [Users -> ContributionStatus]
  BY ContribWriters DEF ClaimCommit, PayWrite, ConfirmWrite, PaymentWebhook
<1>2. \/ UNCHANGED <<paidAt, verified>> \/ PaymentWebhook
      \/ \E r \in Reqs : ConfirmWrite(r)
  BY SharesWriters
<1> QED BY <1>1, <1>2 DEF ConfirmWrite, PaymentWebhook, Contributors

(* Events, audit rows, disputes and the sweep stay typed. *)
LEMMA RecordsTyped ==
  ASSUME IInv, Next
  PROVE  /\ events' \subseteq Users \X EventType
         /\ audit' \subseteq AuditAction \X Users
         /\ raised' \in Nat /\ undecided' \in Nat
         /\ due' \in BOOLEAN /\ sweeping' \in BOOLEAN
<1>0. TypeOK /\ CallersKnown
  BY DEF IInv
<1>1. events' \subseteq Users \X EventType
  <2>1. ASSUME NEW r \in Reqs, CompleteEvents(r)
        PROVE  req[r].batch \subseteq Users \X EventType
    <3>1. req[r] \in Request
      BY <1>0 DEF TypeOK
    <3> QED BY <3>1 DEF Request
  <2>2. ASSUME NEW r \in Reqs, ConfirmEvent(r)
        PROVE  <<req[r].payer, "PAYMENT_CONFIRMED">> \in Users \X EventType
    BY <1>0, <2>2 DEF ConfirmEvent, CallersKnown, InStep, At, EventType
  <2> QED BY <1>0, <2>1, <2>2, EventWriters
      DEF TypeOK, ConfirmEvent, CompleteEvents
<1>2. audit' \subseteq AuditAction \X Users
  <2>1. ASSUME NEW r \in Reqs, req[r].pc # "idle" PROVE req[r].by \in Users
    BY <1>0, <2>1 DEF CallersKnown
  <2>2. ASSUME NEW r \in Reqs, At(r, "confirmAudit")
        PROVE  req[r].payer \in Users
    BY <1>0, <2>2 DEF CallersKnown, InStep, At
  <2> QED BY <1>0, <2>1, <2>2, AuditWriters
      DEF TypeOK, AuditAction, At, ClaimAudit, ConfirmAudit, CompleteAudit,
          DisputeAudit, ResolveAudit
<1>3. raised' \in Nat /\ undecided' \in Nat
  BY <1>0, DisputeWriters DEF TypeOK, DisputeCreate, ResolveDispute
<1>4. due' \in BOOLEAN /\ sweeping' \in BOOLEAN
  BY <1>0, SweepWriters
  DEF TypeOK, Deadline, SweepRead, SweepWrite, SweepCrash
<1> QED BY <1>1, <1>2, <1>3, <1>4

(* The status stays typed. *)
LEMMA StatusTyped ==
  ASSUME IInv, Next
  PROVE  status' \in GroupStatus
BY StatusAfter DEF IInv, TypeOK, GroupStatus

-----------------------------------------------------------------------------
(* The theorems *)

(* IInv holds at the start. *)
LEMMA InitIInv ==
  ASSUME Init
  PROVE  IInv
<1> USE DEF Init
<1>1. \A r \in Reqs : req[r] = Idle /\ req[r].pc = "idle"
  BY DEF Idle
<1>2. TypeOK
  BY IdleRequest DEF TypeOK, GroupStatus, ContributionStatus
<1>3. CallersKnown /\ BodiesValid /\ RecomputeGrounded /\ ClaimGrounded /\ ClaimsOverlap
      /\ SharesGrounded /\ OpenIsFresh
  BY <1>1 DEF CallersKnown, BodiesValid, RecomputeGrounded, ClaimGrounded, ClaimsOverlap,
     SharesGrounded, OpenIsFresh, At, InStep
<1>4. RowExists /\ MinimumReached /\ SplitWithinCart
  BY <1>1 DEF RowExists, MinimumReached, SplitWithinCart, Claimed, Contributors
<1> QED BY <1>2, <1>3, <1>4 DEF IInv

(* Every step keeps IInv. *)
LEMMA NextIInv ==
  ASSUME IInv, [Next]_vars
  PROVE  IInv'
<1>1. CASE Next
  <2>1. TypeOK'
    BY <1>1, RequestsTyped, MoneyTyped, ContribTyped, RecordsTyped, StatusTyped
    DEF TypeOK
  <2> QED
    BY <1>1, <2>1, CallersStep, BodiesStep, RowStep, RecomputeStep, ClaimStep, OverlapStep,
       SharesStep, FreshStep, MinimumStep, SplitStep DEF IInv
<1>2. CASE UNCHANGED vars
  BY <1>2 DEF vars, group, cart, shares, disputes, records, sweep, IInv,
     TypeOK, CallersKnown, BodiesValid, RowExists, RecomputeGrounded, ClaimGrounded,
     ClaimsOverlap, SharesGrounded, OpenIsFresh, MinimumReached,
     SplitWithinCart, Claimed, Contributors, At, InStep
<1> QED BY <1>1, <1>2

(* IInv holds in every reachable state. *)
THEOREM Invariance == Spec => []IInv
<1>1. Init => IInv
  BY InitIInv
<1>2. IInv /\ [Next]_vars => IInv'
  BY NextIInv
<1> QED BY <1>1, <1>2, PTL DEF Spec

(* Every variable keeps the domain its column has. *)
THEOREM TypeCorrect == Spec => []TypeOK
<1>1. IInv => TypeOK
  BY DEF IInv
<1> QED BY <1>1, Invariance, PTL

(* No group goes ahead below the minimum, for any number of concurrent     *)
(* joins, claims and sweeps, with crashes or without.                      *)
THEOREM MinimumHolds == Spec => []MinimumReached
<1>1. IInv => MinimumReached
  BY DEF IInv
<1> QED BY <1>1, Invariance, PTL

(* The members' shares cover the minimum and the fee and never exceed the  *)
(* cart and the fee.                                                       *)
THEOREM SplitHolds == Spec => []SplitWithinCart
<1>1. IInv => SplitWithinCart
  BY DEF IInv
<1> QED BY <1>1, Invariance, PTL

(* A claim is never replaced or changed, whatever races with it.           *)
THEOREM ClaimHolds == Spec => ClaimIsFinal
<1>1. ASSUME IInv, [Next]_vars, Claimed
      PROVE  /\ UNCHANGED <<coordinator, fee, splitPaise>>
             /\ Contributors' = Contributors
  <2>1. CASE Next
    <3>1. ~\E r \in Reqs : ClaimCommit(r)
      BY <1>1, LateClaimRollsBack
    <3> QED BY <1>1, <2>1, <3>1, ClaimWriters, ContributorsStay
  <2>2. CASE UNCHANGED vars
    BY <2>2 DEF vars, group, shares, Contributors
  <2> QED BY <1>1, <2>1, <2>2
<1>2. IInv /\ [Next]_vars
        => [Claimed => /\ UNCHANGED <<coordinator, fee, splitPaise>>
                       /\ Contributors' = Contributors]_vars
  BY <1>1
<1> QED BY <1>2, Invariance, PTL DEF Spec, ClaimIsFinal

(* No step leads back to OPEN. *)
THEOREM OpenOnce == Spec => NeverBackToOpen
<1>1. ASSUME IInv, [Next]_vars, status' = "OPEN"
      PROVE  status \in {"ABSENT", "OPEN"}
  <2>1. CASE Next
    BY <1>1, <2>1, StatusAfter
  <2>2. CASE UNCHANGED vars
    BY <1>1, <2>2 DEF vars, group
  <2> QED BY <1>1, <2>1, <2>2
<1>2. IInv /\ [Next]_vars
        => [status' = "OPEN" => status \in {"ABSENT", "OPEN"}]_vars
  BY <1>1
<1> QED BY <1>2, Invariance, PTL DEF Spec, NeverBackToOpen

-----------------------------------------------------------------------------
(* The join that crosses the threshold is noticed *)

(* A step either keeps the request that will notice, or starts one. *)
LEMMA NoticedStep ==
  ASSUME ~WithCrash, IInv, CrossingIsNoticed, Next
  PROVE  CrossingIsNoticed'
<1> USE DEF Recomputing, InStep
<1>1. req \in [Reqs -> Request]
  BY DEF IInv, TypeOK
<1>2. SUFFICES ASSUME status' = "OPEN", itemsPaise' >= Threshold
      PROVE  \E r \in Reqs : req'[r].pc \in {"recRow", "recItems", "recWrite"}
  BY DEF CrossingIsNoticed
<1>3. ASSUME NEW r \in Reqs, CreateGroup(r) \/ JoinInsert(r)
      PROVE  req'[r].pc = "recRow"
  BY <1>1, <1>3, AcceptAt, GotoAt DEF CreateGroup, JoinInsert
<1>4. CASE ~\E r \in Reqs : CreateGroup(r) \/ JoinInsert(r)
  <2>1. itemsPaise' = itemsPaise
    BY <1>4, CartWriters
  <2>2. status = "OPEN"
    BY <1>2, <1>4, StatusAfter, OnlyCreate
  <2>3. PICK r \in Reqs : req[r].pc \in {"recRow", "recItems", "recWrite"}
    BY <1>2, <2>1, <2>2 DEF CrossingIsNoticed
  <2>4. CASE req'[r] = req[r]
    BY <2>3, <2>4
  <2>5. CASE req'[r] # req[r]
    <3>1. req[r] \in Request /\ req[r] # Idle
      BY <1>1, <2>3 DEF Idle
    <3>2. RecomputeReadRow(r) \/ RecomputeReadItems(r) \/ RecomputeWrite(r)
      <4>1. Serve(r)
        BY <1>1, <2>5, <3>1, OnlyOneMoves DEF Crash, Arrive, Free, CreateGroup,
           JoinRead, ClaimRead, PayRead, ConfirmRead, CompleteRead,
           DisputeRead, ResolveDispute
      <4> QED BY <2>3, <4>1 DEF Serve, At, JoinInsert, ClaimReadItems,
             ClaimCommit, ClaimRollback, ClaimAudit, PayWrite, ConfirmWrite,
             ConfirmEvent, ConfirmAudit, CompleteReadContributions,
             CompleteWrite, CompleteEvents, CompleteAudit, DisputeCreate,
             DisputeStatus, DisputeAudit, ResolveAudit
    <3>3. CASE RecomputeReadRow(r)
      BY <1>1, <2>2, <3>1, <3>3 DEF RecomputeReadRow, ACTIVE_STATUSES, Becomes,
         Request
    <3>4. CASE RecomputeReadItems(r)
      <4>1. req[r].seen = "OPEN"
        BY <2>2, <3>4 DEF RecomputeReadItems, IInv, OpenIsFresh
      <4>2. NextStatus(itemsPaise) = "THRESHOLD_MET"
        BY <1>2, <2>1 DEF NextStatus, CrossesThreshold
      <4> QED BY <1>1, <3>1, <3>4, <4>1, <4>2
          DEF RecomputeReadItems, Becomes, Request
    <3>5. CASE RecomputeWrite(r)
      BY <1>2, <3>5 DEF RecomputeWrite, IInv, RecomputeGrounded
    <3> QED BY <3>2, <3>3, <3>4, <3>5
  <2> QED BY <2>4, <2>5
<1> QED BY <1>3, <1>4

(* As long as no request dies half-way, a group at or above its minimum is *)
(* OPEN only while a request that will notice it is being served.          *)
THEOREM CrossingNoticed == ~WithCrash => (Spec => []CrossingIsNoticed)
<1> SUFFICES ASSUME ~WithCrash PROVE Spec => []CrossingIsNoticed
  OBVIOUS
<1>1. Init => CrossingIsNoticed
  BY DEF Init, CrossingIsNoticed
<1>2. IInv /\ CrossingIsNoticed /\ [Next]_vars => CrossingIsNoticed'
  <2>1. ASSUME CrossingIsNoticed, UNCHANGED vars PROVE CrossingIsNoticed'
    BY <2>1 DEF vars, group, cart, CrossingIsNoticed, InStep
  <2> QED BY <2>1, NoticedStep
<1> QED BY <1>1, <1>2, Invariance, PTL DEF Spec

=============================================================================
