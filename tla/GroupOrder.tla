----------------------------- MODULE GroupOrder -----------------------------
(***************************************************************************)
(* One group order of the backend: the routes of routes/groups.ts, the     *)
(* payment webhook, the admin's dispute decision and the expiry sweep, all *)
(* working on the same GroupOrder row and its items, contributions,        *)
(* disputes, reliability events and audit rows.                            *)
(*                                                                         *)
(* A request is a small state machine in a slot of Reqs: every statement   *)
(* it awaits on the database is one atomic action, and other requests and  *)
(* the sweep run between two of them.  A Prisma transaction is one action; *)
(* a Prisma read with an `include` is two SELECTs, hence two actions.  An  *)
(* early return (404, 403, 409) leaves no trace, so a request only enters  *)
(* a slot when its first read lets it go on.                               *)
(*                                                                         *)
(* A definition marked "Faulty" is no part of the specification: it is the *)
(* definition after it with a plausible bug, kept to see that a property   *)
(* would catch it.                                                         *)
(***************************************************************************)
EXTENDS Integers

CONSTANTS
  Users,        \* students, coordinators and admins
  NoUser,       \* a null user id
  Reqs,         \* slots for requests being served
  Routes,       \* the routes clients call
  Amounts,      \* what the items of one create or join request cost, in paise
  Fees,         \* the delivery fees a claim may state, in paise
  Threshold,    \* GROUP_THRESHOLD_PAISE
  MaxPaise,     \* bound: no create or join starts above this cart total
  MaxDisputes,  \* bound: no dispute starts once this many were raised
  OptionB,      \* PAYMENT_WEBHOOK_SECRET is set: gateway-verified payments
  WithCrash     \* requests and the sweep may die between two statements

ASSUME UsersAssumption == NoUser \notin Users
ASSUME MoneyAssumption == /\ Amounts \subseteq Nat \ {0}
                          /\ Fees \subseteq Nat
                          /\ Threshold \in Nat \ {0}
                          /\ MaxPaise \in Nat
ASSUME DisputeAssumption == MaxDisputes \in Nat
ASSUME SwitchAssumption == OptionB \in BOOLEAN /\ WithCrash \in BOOLEAN

VARIABLES
  status,       \* GroupOrder.status, "ABSENT" before the row exists
  coordinator,  \* GroupOrder.coordinatorUserId
  fee,          \* GroupOrder.deliveryFeePaise
  itemsPaise,   \* the price of all GroupItem rows together
  members,      \* the users who own a GroupItem row
  contrib,      \* Contribution.status of each user, "NONE" without a row
  splitPaise,   \* the amounts of all Contribution rows together
  paidAt,       \* users whose Contribution.paidAt is set
  verified,     \* users whose Contribution.verifiedByWebhook is set
  raised,       \* how many Dispute rows there are
  undecided,    \* how many of them are OPEN
  events,       \* ReliabilityEvent rows: <<user, type>>
  audit,        \* AuditLog rows: <<action, user>>
  due,          \* GroupOrder.expiresAt lies in the past
  sweeping,     \* a running sweep holds this group in its findMany result
  req           \* the requests being served

group    == <<status, coordinator, fee>>
cart     == <<itemsPaise, members>>
shares   == <<contrib, splitPaise, paidAt, verified>>
disputes == <<raised, undecided>>
records  == <<events, audit>>
sweep    == <<due, sweeping>>
vars     == <<group, cart, shares, disputes, records, sweep, req>>

GroupStatus == {"ABSENT", "OPEN", "THRESHOLD_MET", "AWAITING_PAYMENTS",
                "COMPLETED", "EXPIRED", "CANCELLED", "DISPUTED"}
ACTIVE_STATUSES == {"OPEN", "THRESHOLD_MET"}
ContributionStatus == {"NONE", "PENDING", "CLAIMED_PAID", "PAID", "REFUNDED"}
EventType == {"PAYMENT_CONFIRMED", "PAYMENT_MISSED", "ORDER_COMPLETED",
              "COORDINATOR_COMPLETED"}
AuditAction == {"coordinator.claim", "payment.confirmed", "order.completed",
                "dispute.raised", "dispute.resolved"}

(* What a request holds between two statements: the caller, the user whose *)
(* payment it confirms, the paise of its body, the status and the totals   *)
(* it read, the users it read, and the reliability events it will insert.  *)
Step == {"idle", "joinInsert", "recRow", "recItems", "recWrite",
         "claimItems", "claimTx", "claimAudit", "payWrite", "confirmWrite",
         "confirmEvent", "confirmAudit", "completeRead", "completeWrite",
         "completeEvents", "completeAudit", "disputeCreate",
         "disputeStatus", "disputeAudit", "resolveAudit"}
Request == [pc : Step, by : Users \cup {NoUser}, payer : Users \cup {NoUser},
            paise : Nat, seen : GroupStatus, total : Nat,
            who : SUBSET Users, batch : SUBSET (Users \X EventType)]
Idle == [pc |-> "idle", by |-> NoUser, payer |-> NoUser, paise |-> 0,
         seen |-> "ABSENT", total |-> 0, who |-> {}, batch |-> {}]

Free(r, route) == route \in Routes /\ req[r] = Idle
At(r, pc) == req[r].pc = pc
Becomes(r, q) == req' = [req EXCEPT ![r] = q]
Accept(r, pc, u) == Becomes(r, [Idle EXCEPT !.pc = pc, !.by = u])
Goto(r, pc) == Becomes(r, [req[r] EXCEPT !.pc = pc])
Reply(r) == Becomes(r, Idle)

Contributors == {u \in Users : contrib[u] # "NONE"}

Init == /\ status = "ABSENT" /\ coordinator = NoUser /\ fee = 0
        /\ itemsPaise = 0 /\ members = {}
        /\ contrib = [u \in Users |-> "NONE"]
        /\ splitPaise = 0 /\ paidAt = {} /\ verified = {}
        /\ raised = 0 /\ undecided = 0
        /\ events = {} /\ audit = {}
        /\ due = FALSE /\ sweeping = FALSE
        /\ req = [r \in Reqs |-> Idle]

-----------------------------------------------------------------------------
(* recomputeThresholdStatus: row, items, then a write that is not          *)
(* conditional on the status it read.                                      *)

CrossesThreshold(total) == total >= Threshold

NextStatus(total) ==
  IF CrossesThreshold(total) THEN "THRESHOLD_MET" ELSE "OPEN"

RecomputeReadRow(r) ==
  /\ At(r, "recRow")
  /\ \/ /\ status \in ACTIVE_STATUSES
        /\ Becomes(r, [req[r] EXCEPT !.pc = "recItems", !.seen = status])
     \/ status \notin ACTIVE_STATUSES /\ Reply(r)
  /\ UNCHANGED <<group, cart, shares, disputes, records, sweep>>

(* Faulty: adds the joined items to a total that already has them. *)
RecomputeCountingTwice(r) ==
  /\ At(r, "recItems")
  /\ \/ /\ NextStatus(itemsPaise + req[r].paise) # req[r].seen
        /\ Becomes(r, [req[r] EXCEPT !.pc = "recWrite",
                         !.seen = NextStatus(itemsPaise + req[r].paise)])
     \/ NextStatus(itemsPaise + req[r].paise) = req[r].seen /\ Reply(r)
  /\ UNCHANGED <<group, cart, shares, disputes, records, sweep>>

(* Faulty: misses the items this request inserted. *)
RecomputeWithoutOwn(r) ==
  /\ At(r, "recItems")
  /\ \/ /\ NextStatus(itemsPaise - req[r].paise) # req[r].seen
        /\ Becomes(r, [req[r] EXCEPT !.pc = "recWrite",
                         !.seen = NextStatus(itemsPaise - req[r].paise)])
     \/ NextStatus(itemsPaise - req[r].paise) = req[r].seen /\ Reply(r)
  /\ UNCHANGED <<group, cart, shares, disputes, records, sweep>>

RecomputeReadItems(r) ==
  /\ At(r, "recItems")
  /\ \/ /\ NextStatus(itemsPaise) # req[r].seen
        /\ Becomes(r, [req[r] EXCEPT !.pc = "recWrite",
                                     !.seen = NextStatus(itemsPaise)])
     \/ NextStatus(itemsPaise) = req[r].seen /\ Reply(r)
  /\ UNCHANGED <<group, cart, shares, disputes, records, sweep>>

RecomputeWrite(r) ==
  /\ At(r, "recWrite")
  /\ status' = req[r].seen
  /\ Reply(r)
  /\ UNCHANGED <<coordinator, fee, cart, shares, disputes, records, sweep>>

-----------------------------------------------------------------------------
(* POST /groups, and POST /groups/:id/join and /items.                     *)

CreateGroup(r) ==
  /\ Free(r, "create")
  /\ status = "ABSENT"
  /\ \E u \in Users, a \in Amounts :
       /\ itemsPaise' = a
       /\ members' = {u}
       /\ Accept(r, "recRow", u)
  /\ status' = "OPEN"
  /\ UNCHANGED <<coordinator, fee, shares, disputes, records, sweep>>

JoinRead(r) ==
  /\ Free(r, "join")
  /\ status \in ACTIVE_STATUSES
  /\ \E u \in Users, a \in Amounts :
       /\ itemsPaise + a <= MaxPaise
       /\ Becomes(r, [Idle EXCEPT !.pc = "joinInsert", !.by = u, !.paise = a])
  /\ UNCHANGED <<group, cart, shares, disputes, records, sweep>>

(* Faulty: inserts and forgets to recompute. *)
JoinInsertOnly(r) ==
  /\ At(r, "joinInsert")
  /\ itemsPaise' = itemsPaise + req[r].paise
  /\ members' = members \cup {req[r].by}
  /\ Reply(r)
  /\ UNCHANGED <<group, shares, disputes, records, sweep>>

JoinInsert(r) ==
  /\ At(r, "joinInsert")
  /\ itemsPaise' = itemsPaise + req[r].paise
  /\ members' = members \cup {req[r].by}
  /\ Goto(r, "recRow")
  /\ UNCHANGED <<group, shares, disputes, records, sweep>>

-----------------------------------------------------------------------------
(* POST /groups/:id/claim-coordinator.  The caller need not be a member.   *)

(* Faulty: no unique index. *)
NoUniqueIndex(who) == TRUE

(* The unique index on Contribution(groupOrderId, userId). *)
UniqueContributions(who) == \A u \in who : contrib[u] = "NONE"

(* Faulty: forgets the delivery fee. *)
SplitWithoutFee(total, deliveryFee) == total

(* splitCost: the shares add up to the items and the delivery fee. *)
SplitTotal(total, deliveryFee) == total + deliveryFee

ClaimRead(r) ==
  /\ Free(r, "claim")
  /\ status = "THRESHOLD_MET"
  /\ \E u \in Users, f \in Fees :
       Becomes(r, [Idle EXCEPT !.pc = "claimItems", !.by = u, !.paise = f])
  /\ UNCHANGED <<group, cart, shares, disputes, records, sweep>>

ClaimReadItems(r) ==
  /\ At(r, "claimItems")
  /\ Becomes(r, [req[r] EXCEPT !.pc = "claimTx", !.total = itemsPaise,
                               !.who = members])
  /\ UNCHANGED <<group, cart, shares, disputes, records, sweep>>

ClaimCommit(r) ==
  /\ At(r, "claimTx")
  /\ UniqueContributions(req[r].who)
  /\ status' = "AWAITING_PAYMENTS"
  /\ coordinator' = req[r].by
  /\ fee' = req[r].paise
  /\ contrib' = [u \in Users |-> IF u \in req[r].who THEN "PENDING"
                                                     ELSE contrib[u]]
  /\ splitPaise' = splitPaise + SplitTotal(req[r].total, req[r].paise)
  /\ Goto(r, "claimAudit")
  /\ UNCHANGED <<cart, paidAt, verified, disputes, records, sweep>>

(* The insert violates the unique index: nothing is kept, the reply is 500. *)
ClaimRollback(r) ==
  /\ At(r, "claimTx")
  /\ ~UniqueContributions(req[r].who)
  /\ Reply(r)
  /\ UNCHANGED <<group, cart, shares, disputes, records, sweep>>

(* Faulty: an action name nobody looks for. *)
ClaimAuditMisnamed(r) ==
  /\ At(r, "claimAudit")
  /\ audit' = audit \cup {<<"coordinator.claimed", req[r].by>>}
  /\ Reply(r)
  /\ UNCHANGED <<group, cart, shares, disputes, events, sweep>>

ClaimAudit(r) ==
  /\ At(r, "claimAudit")
  /\ audit' = audit \cup {<<"coordinator.claim", req[r].by>>}
  /\ Reply(r)
  /\ UNCHANGED <<group, cart, shares, disputes, events, sweep>>

-----------------------------------------------------------------------------
(* POST /groups/:id/pay and /contributions/:userId/confirm, and the        *)
(* gateway's webhook.                                                      *)

(* Faulty: self-reports stay possible next to the gateway. *)
PayReadAlways(r) ==
  /\ Free(r, "pay")
  /\ \E u \in Contributors : Accept(r, "payWrite", u)
  /\ UNCHANGED <<group, cart, shares, disputes, records, sweep>>

PayRead(r) ==
  /\ Free(r, "pay")
  /\ ~OptionB
  /\ \E u \in Contributors : Accept(r, "payWrite", u)
  /\ UNCHANGED <<group, cart, shares, disputes, records, sweep>>

PayWrite(r) ==
  /\ At(r, "payWrite")
  /\ contrib' = [contrib EXCEPT ![req[r].by] = "CLAIMED_PAID"]
  /\ Reply(r)
  /\ UNCHANGED <<group, cart, splitPaise, paidAt, verified, disputes,
                 records, sweep>>

ConfirmRead(r) ==
  /\ Free(r, "confirm")
  /\ coordinator # NoUser
  /\ \E u \in Users :
       Becomes(r, [Idle EXCEPT !.pc = "confirmWrite", !.by = coordinator,
                               !.payer = u])
  /\ UNCHANGED <<group, cart, shares, disputes, records, sweep>>

ConfirmWrite(r) ==
  /\ At(r, "confirmWrite")
  /\ \/ /\ req[r].payer \in Contributors
        /\ contrib' = [contrib EXCEPT ![req[r].payer] = "PAID"]
        /\ paidAt' = paidAt \cup {req[r].payer}
        /\ Goto(r, "confirmEvent")
     \/ /\ req[r].payer \notin Contributors
        /\ Reply(r)
        /\ UNCHANGED <<contrib, paidAt>>
  /\ UNCHANGED <<group, cart, splitPaise, verified, disputes, records, sweep>>

(* Faulty: replies before the audit row is written. *)
ConfirmUnaudited(r) ==
  /\ At(r, "confirmEvent")
  /\ events' = events \cup {<<req[r].payer, "PAYMENT_CONFIRMED">>}
  /\ Reply(r)
  /\ UNCHANGED <<group, cart, shares, disputes, audit, sweep>>

ConfirmEvent(r) ==
  /\ At(r, "confirmEvent")
  /\ events' = events \cup {<<req[r].payer, "PAYMENT_CONFIRMED">>}
  /\ Goto(r, "confirmAudit")
  /\ UNCHANGED <<group, cart, shares, disputes, audit, sweep>>

ConfirmAudit(r) ==
  /\ At(r, "confirmAudit")
  /\ audit' = audit \cup {<<"payment.confirmed", req[r].payer>>}
  /\ Reply(r)
  /\ UNCHANGED <<group, cart, shares, disputes, events, sweep>>

(* One statement; the gateway may repeat it and send it at any time. *)
PaymentWebhook ==
  /\ OptionB
  /\ \E u \in Contributors :
       /\ contrib' = [contrib EXCEPT ![u] = "PAID"]
       /\ paidAt' = paidAt \cup {u}
       /\ verified' = verified \cup {u}
  /\ UNCHANGED <<group, cart, splitPaise, disputes, records, sweep, req>>

-----------------------------------------------------------------------------
(* POST /groups/:id/complete. *)

CompleteRead(r) ==
  /\ Free(r, "complete")
  /\ coordinator # NoUser
  /\ status = "AWAITING_PAYMENTS"
  /\ Accept(r, "completeRead", coordinator)
  /\ UNCHANGED <<group, cart, shares, disputes, records, sweep>>

(* Faulty: believes the self-report. *)
OutcomeAsClaimed(u) == IF contrib[u] \in {"PAID", "CLAIMED_PAID"}
                       THEN "ORDER_COMPLETED" ELSE "PAYMENT_MISSED"

OutcomeOf(u) ==
  IF contrib[u] = "PAID" THEN "ORDER_COMPLETED" ELSE "PAYMENT_MISSED"

(* Faulty: passes over those who wait for a confirmation. *)
CompleteReadDecided(r) ==
  /\ At(r, "completeRead")
  /\ Becomes(r, [req[r] EXCEPT
       !.pc = "completeWrite",
       !.batch = {<<u, OutcomeOf(u)>> :
                    u \in {v \in Contributors : contrib[v] # "CLAIMED_PAID"}}
            \cup {<<req[r].by, "COORDINATOR_COMPLETED">>}])
  /\ UNCHANGED <<group, cart, shares, disputes, records, sweep>>

CompleteReadContributions(r) ==
  /\ At(r, "completeRead")
  /\ Becomes(r, [req[r] EXCEPT
                   !.pc = "completeWrite",
                   !.batch = {<<u, OutcomeOf(u)>> : u \in Contributors}
                        \cup {<<req[r].by, "COORDINATOR_COMPLETED">>}])
  /\ UNCHANGED <<group, cart, shares, disputes, records, sweep>>

CompleteWrite(r) ==
  /\ At(r, "completeWrite")
  /\ status' = "COMPLETED"
  /\ Goto(r, "completeEvents")
  /\ UNCHANGED <<coordinator, fee, cart, shares, disputes, records, sweep>>

CompleteEvents(r) ==
  /\ At(r, "completeEvents")
  /\ events' = events \cup req[r].batch
  /\ Goto(r, "completeAudit")
  /\ UNCHANGED <<group, cart, shares, disputes, audit, sweep>>

CompleteAudit(r) ==
  /\ At(r, "completeAudit")
  /\ audit' = audit \cup {<<"order.completed", req[r].by>>}
  /\ Reply(r)
  /\ UNCHANGED <<group, cart, shares, disputes, events, sweep>>

-----------------------------------------------------------------------------
(* POST /groups/:id/dispute, open to every user and in every status, and   *)
(* PATCH /admin/disputes/:id.                                              *)

DisputeRead(r) ==
  /\ Free(r, "dispute")
  /\ status # "ABSENT"
  /\ raised < MaxDisputes
  /\ \E u \in Users : Accept(r, "disputeCreate", u)
  /\ UNCHANGED <<group, cart, shares, disputes, records, sweep>>

(* Faulty: writes the status before the dispute row. *)
DisputeStatusFirst(r) ==
  /\ At(r, "disputeCreate")
  /\ status' = "DISPUTED"
  /\ Goto(r, "disputeStatus")
  /\ UNCHANGED <<coordinator, fee, cart, shares, disputes, records, sweep>>

DisputeCreate(r) ==
  /\ At(r, "disputeCreate")
  /\ raised' = raised + 1
  /\ undecided' = undecided + 1
  /\ Goto(r, "disputeStatus")
  /\ UNCHANGED <<group, cart, shares, records, sweep>>

DisputeStatus(r) ==
  /\ At(r, "disputeStatus")
  /\ status' = "DISPUTED"
  /\ Goto(r, "disputeAudit")
  /\ UNCHANGED <<coordinator, fee, cart, shares, disputes, records, sweep>>

DisputeAudit(r) ==
  /\ At(r, "disputeAudit")
  /\ audit' = audit \cup {<<"dispute.raised", req[r].by>>}
  /\ Reply(r)
  /\ UNCHANGED <<group, cart, shares, disputes, events, sweep>>

(* Nothing stops an admin from deciding a decided dispute once more. *)
ResolveDispute(r) ==
  /\ Free(r, "resolve")
  /\ \/ undecided > 0 /\ undecided' = undecided - 1
     \/ undecided < raised /\ UNCHANGED undecided
  /\ \E u \in Users : Accept(r, "resolveAudit", u)
  /\ UNCHANGED <<group, cart, shares, raised, records, sweep>>

ResolveAudit(r) ==
  /\ At(r, "resolveAudit")
  /\ audit' = audit \cup {<<"dispute.resolved", req[r].by>>}
  /\ Reply(r)
  /\ UNCHANGED <<group, cart, shares, disputes, events, sweep>>

-----------------------------------------------------------------------------
(* The expiry sweep: findMany, then one unconditional update per group     *)
(* found.  BullMQ runs one sweep at a time.                                *)

Deadline ==
  /\ status # "ABSENT" /\ ~due
  /\ due' = TRUE
  /\ UNCHANGED <<group, cart, shares, disputes, records, sweeping, req>>

(* Faulty: sweeps OPEN groups only. *)
SweepReadOpen ==
  /\ ~sweeping /\ due
  /\ status = "OPEN"
  /\ sweeping' = TRUE
  /\ UNCHANGED <<group, cart, shares, disputes, records, due, req>>

SweepRead ==
  /\ ~sweeping /\ due
  /\ status \in ACTIVE_STATUSES
  /\ sweeping' = TRUE
  /\ UNCHANGED <<group, cart, shares, disputes, records, due, req>>

SweepWrite ==
  /\ sweeping
  /\ sweeping' = FALSE
  /\ status' = "EXPIRED"
  /\ UNCHANGED <<coordinator, fee, cart, shares, disputes, records, due, req>>

(* The process dies, or the database fails the next statement (500). *)
Crash(r) ==
  /\ WithCrash
  /\ req[r] # Idle
  /\ Reply(r)
  /\ UNCHANGED <<group, cart, shares, disputes, records, sweep>>

SweepCrash ==
  /\ WithCrash
  /\ sweeping
  /\ sweeping' = FALSE
  /\ UNCHANGED <<group, cart, shares, disputes, records, due, req>>

-----------------------------------------------------------------------------
Arrive(r) == \/ CreateGroup(r) \/ JoinRead(r) \/ ClaimRead(r) \/ PayRead(r)
             \/ ConfirmRead(r) \/ CompleteRead(r) \/ DisputeRead(r)
             \/ ResolveDispute(r)

Serve(r) == \/ RecomputeReadRow(r) \/ RecomputeReadItems(r) \/ RecomputeWrite(r)
            \/ JoinInsert(r)
            \/ ClaimReadItems(r) \/ ClaimCommit(r) \/ ClaimRollback(r)
            \/ ClaimAudit(r)
            \/ PayWrite(r)
            \/ ConfirmWrite(r) \/ ConfirmEvent(r) \/ ConfirmAudit(r)
            \/ CompleteReadContributions(r) \/ CompleteWrite(r)
            \/ CompleteEvents(r) \/ CompleteAudit(r)
            \/ DisputeCreate(r) \/ DisputeStatus(r) \/ DisputeAudit(r)
            \/ ResolveAudit(r)

Next == \/ \E r \in Reqs : Arrive(r) \/ Serve(r) \/ Crash(r)
        \/ PaymentWebhook
        \/ Deadline \/ SweepRead \/ SweepWrite \/ SweepCrash

Spec == Init /\ [][Next]_vars

(* The event loop serves every request it accepted, time passes, and       *)
(* BullMQ repeats the sweep every 15 s; nobody owes the group a request.   *)
Fairness == /\ \A r \in Reqs : WF_vars(Serve(r))
            /\ WF_vars(Deadline) /\ WF_vars(SweepRead) /\ WF_vars(SweepWrite)

FairSpec == Spec /\ Fairness
=============================================================================
