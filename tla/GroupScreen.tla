---------------------------- MODULE GroupScreen ----------------------------
(***************************************************************************)
(* One device's view of one group: HomeScreen's create and join, the       *)
(* GroupDetail screen with its two queries and its mutations (api/hooks),  *)
(* the realtime subscription (api/realtime and the backend's socket        *)
(* plugin), and the routes it calls, which also serve the other students.  *)
(*                                                                         *)
(* A route is one step here, followed by a step of its own for the         *)
(* broadcast: how the statements of routes interleave is GroupOrder's      *)
(* subject.  Carts are reduced to who has items, and the minimum to how    *)
(* many students must have some.  Requests, answers, broadcasts and the    *)
(* socket's handshakes take their time; MaxFaults bounds how many of them  *)
(* are lost or refused and how often the student leaves the screen.  One   *)
(* mutation of the device is under way at a time.                          *)
(***************************************************************************)
EXTENDS Integers, FiniteSets

CONSTANTS
  Users,      \* the students of the group
  Me,         \* the one signed in on the device
  Nobody,     \* a null coordinator
  NoData,     \* an empty cache entry
  NoCall,     \* no mutation under way
  Threshold,  \* how many students' items reach the minimum
  MaxFaults   \* bound: lost answers, dropped or refused sockets, visits home

ASSUME ScreenAssumption == /\ Me \in Users /\ Nobody \notin Users
                           /\ Threshold \in Nat /\ MaxFaults \in Nat

VARIABLES
  db,         \* the group's rows in the backend
  news,       \* a broadcast of a change is still on its way
  screen,     \* "Home" or "GroupDetail"
  group,      \* the query ["group", id]
  share,      \* the query ["contribution", id]
  call,       \* the mutation under way
  socket,     \* realtime.ts's one socket
  room,       \* the screen's subscription to the group's room
  faults      \* how many faults there were

realtime == <<socket, room>>
vars == <<db, news, screen, group, share, call, socket, room, faults>>

ACTIVE_STATUSES == {"OPEN", "THRESHOLD_MET"}
GroupStatus == ACTIVE_STATUSES \cup
  {"ABSENT", "AWAITING_PAYMENTS", "COMPLETED", "EXPIRED", "DISPUTED"}
ContributionStatus == {"NONE", "PENDING", "CLAIMED_PAID", "PAID"}
GroupDetail == [status : GroupStatus, coordinator : Users \cup {Nobody},
                buyers : SUBSET Users, contrib : [Users -> ContributionStatus]]
Op == {"create", "join", "claim", "pay", "confirm", "complete", "dispute"}

NoGroup == [status |-> "ABSENT", coordinator |-> Nobody, buyers |-> {},
            contrib |-> [u \in Users |-> "NONE"]]

Init == /\ db = NoGroup /\ news = FALSE
        /\ screen = "Home"
        /\ group = [data |-> NoData, fetch |-> "idle", answer |-> NoData,
                    failed |-> FALSE]
        /\ share = group
        /\ call = NoCall
        /\ socket = "none" /\ room = "out"
        /\ faults = 0

Fault == faults < MaxFaults /\ faults' = faults + 1

-----------------------------------------------------------------------------
(* The backend's routes *)

Accepts(op, u, payer) ==
  \/ op = "create" /\ db.status = "ABSENT"
  \/ op = "join" /\ db.status \in ACTIVE_STATUSES
  \/ op = "claim" /\ db.status = "THRESHOLD_MET"
  \/ op = "pay" /\ db.contrib[u] # "NONE"
  \/ op = "confirm" /\ db.coordinator = u /\ db.contrib[payer] # "NONE"
  \/ op = "complete" /\ db.coordinator = u /\ db.status = "AWAITING_PAYMENTS"
  \/ op = "dispute" /\ db.status # "ABSENT"

WithItemsOf(u) ==
  LET buyers == db.buyers \cup {u}
  IN [db EXCEPT !.buyers = buyers,
                !.status = IF Cardinality(buyers) >= Threshold
                           THEN "THRESHOLD_MET" ELSE "OPEN"]

ClaimedBy(u) ==
  [db EXCEPT !.status = "AWAITING_PAYMENTS", !.coordinator = u,
             !.contrib = [v \in Users |-> IF v \in db.buyers THEN "PENDING"
                                                             ELSE "NONE"]]

RowsAfter(op, u, payer) ==
  CASE op \in {"create", "join"} -> WithItemsOf(u)
    [] op = "claim"    -> ClaimedBy(u)
    [] op = "pay"      -> [db EXCEPT !.contrib[u] = "CLAIMED_PAID"]
    [] op = "confirm"  -> [db EXCEPT !.contrib[payer] = "PAID"]
    [] op = "complete" -> [db EXCEPT !.status = "COMPLETED"]
    [] op = "dispute"  -> [db EXCEPT !.status = "DISPUTED"]

(* POST /groups is the one route that broadcasts nothing. *)
Handle(op, u, payer) ==
  /\ Accepts(op, u, payer)
  /\ db' = RowsAfter(op, u, payer)
  /\ news' = (news \/ op # "create")

(* The other students do what the same app offers them; disputes are left  *)
(* to this device.                                                         *)
OthersCall ==
  /\ \E u \in Users \ {Me}, payer \in Users, op \in Op :
       /\ op = "pay" => db.contrib[u] = "PENDING" /\ db.coordinator # u
       /\ op = "confirm" => /\ db.contrib[payer] # "PAID"
                           /\ db.status = "AWAITING_PAYMENTS"
       /\ op \in {"create", "join"} => u \notin db.buyers
       /\ op # "dispute"
       /\ Handle(op, u, payer)
  /\ UNCHANGED <<screen, group, share, call, realtime, faults>>

SweepExpires ==
  /\ db.status \in ACTIVE_STATUSES
  /\ db' = [db EXCEPT !.status = "EXPIRED"]
  /\ news' = TRUE
  /\ UNCHANGED <<screen, group, share, call, realtime, faults>>

-----------------------------------------------------------------------------
(* Queries.  A fetch under way is joined by a refetch on mount or by the   *)
(* interval, and replaced by an invalidation once there is data.           *)

Fetched(q) == IF q.fetch = "idle" THEN [q EXCEPT !.fetch = "sent"] ELSE q

Invalidated(q, active) ==
  IF active /\ (q.data # NoData \/ q.fetch = "idle")
  THEN [q EXCEPT !.fetch = "sent", !.answer = NoData] ELSE q

Stopped(q) == [q EXCEPT !.fetch = "idle", !.answer = NoData]
Failed(q) == [Stopped(q) EXCEPT !.failed = TRUE]

(* setQueryData: a fetch under way goes on, and its answer will win. *)
SetData(q, data) == [q EXCEPT !.data = data, !.failed = FALSE]

Here == screen = "GroupDetail"

(* useMyContribution(group?.coordinatorUserId ? groupId : undefined) *)
ShareEnabled ==
  Here /\ group.data # NoData /\ group.data.coordinator # Nobody

(* Faulty: only a remount would fetch the contribution. *)
FetchShareNever == UNCHANGED share

FetchShareOnceEnabled ==
  share' = IF ShareEnabled' /\ ~ShareEnabled THEN Fetched(share) ELSE share

Asking(q) == q.fetch = "sent"
Answered(q) == q.fetch = "answered"

ServeGroup ==
  /\ Asking(group)
  /\ group' = [group EXCEPT !.fetch = "answered", !.answer = db]
  /\ UNCHANGED <<db, news, screen, share, call, realtime, faults>>

ReceiveGroup ==
  /\ Answered(group)
  /\ group' = SetData(Stopped(group), group.answer)
  /\ UNCHANGED <<db, news, screen, call, realtime, faults>>
  /\ FetchShareOnceEnabled

(* An answer is lost and the one retry asks again, or both tries are lost. *)
LoseGroup ==
  /\ group.fetch # "idle" /\ Fault
  /\ \/ /\ Answered(group)
        /\ group' = [group EXCEPT !.fetch = "sent", !.answer = NoData]
     \/ group' = Failed(group)
  /\ UNCHANGED <<db, news, screen, share, call, realtime>>

(* GET /groups/:id/contributions/mine, 404 for those who owe nothing. *)
ServeShare ==
  /\ Asking(share)
  /\ share' = IF db.contrib[Me] = "NONE" THEN Failed(share)
              ELSE [share EXCEPT !.fetch = "answered",
                                 !.answer = db.contrib[Me]]
  /\ UNCHANGED <<db, news, screen, group, call, realtime, faults>>

ReceiveShare ==
  /\ Answered(share)
  /\ share' = SetData(Stopped(share), share.answer)
  /\ UNCHANGED <<db, news, screen, group, call, realtime, faults>>

(* retry: false *)
LoseShare ==
  /\ share.fetch # "idle" /\ Fault
  /\ share' = Failed(share)
  /\ UNCHANGED <<db, news, screen, group, call, realtime>>

(* Faulty: the interval stops with the first failure. *)
PollWhileFine ==
  /\ Here /\ group.fetch = "idle" /\ ~group.failed
  /\ group' = Fetched(group)
  /\ UNCHANGED <<db, news, screen, share, call, realtime, faults>>

(* refetchInterval, 15 s; "Try again" of the error screen does the same. *)
Poll ==
  /\ Here /\ group.fetch = "idle"
  /\ group' = Fetched(group)
  /\ UNCHANGED <<db, news, screen, share, call, realtime, faults>>

-----------------------------------------------------------------------------
(* What the screens offer *)

Shown == Here /\ group.data # NoData /\ ~group.failed
IsCoordinator == group.data.coordinator = Me

ClaimOffered == Shown /\ group.data.status = "THRESHOLD_MET"
                      /\ group.data.coordinator = Nobody
PayOffered == /\ Shown /\ group.data.coordinator # Nobody /\ ~IsCoordinator
              /\ share.data = "PENDING"
ConfirmOffered(payer) ==
  /\ Shown /\ IsCoordinator /\ group.data.status = "AWAITING_PAYMENTS"
  /\ group.data.contrib[payer] \notin {"NONE", "PAID"}
CompleteOffered ==
  Shown /\ IsCoordinator /\ group.data.status = "AWAITING_PAYMENTS"
DisputeOffered ==
  Shown /\ group.data.status \in {"THRESHOLD_MET", "AWAITING_PAYMENTS"}

Offered(op, payer) ==
  \/ op = "create" /\ ~Here /\ db.status = "ABSENT"
  \/ op = "join" /\ ~Here /\ db.status # "ABSENT"
  \/ op = "claim" /\ ClaimOffered
  \/ op = "pay" /\ PayOffered
  \/ op = "confirm" /\ ConfirmOffered(payer)
  \/ op = "complete" /\ CompleteOffered
  \/ op = "dispute" /\ DisputeOffered

(* Faulty: the optimistic update remembers itself as the previous value. *)
RememberOptimistic(op) == IF op = "pay" THEN "CLAIMED_PAID" ELSE NoData

(* onMutate of useMarkPaid keeps what it overwrites. *)
Previous(op) == IF op = "pay" THEN share.data ELSE NoData

Press(op, payer) ==
  /\ call = NoCall /\ Offered(op, payer)
  /\ op # "confirm" => payer = Me
  /\ call' = [op |-> op, payer |-> payer, at |-> "sent", answer |-> NoData,
              previous |-> Previous(op)]
  /\ share' = IF op = "pay" THEN SetData(Stopped(share), "CLAIMED_PAID")
                            ELSE share
  /\ UNCHANGED <<db, news, screen, group, realtime, faults>>

ServeCall ==
  /\ call # NoCall /\ call.at = "sent"
  /\ \/ /\ Handle(call.op, Me, call.payer)
        /\ call' = [call EXCEPT !.at = "answered", !.answer =
             IF call.op \in {"pay", "confirm"} THEN NoData ELSE db']
     \/ /\ ~Accepts(call.op, Me, call.payer)
        /\ call' = [call EXCEPT !.at = "failed"]
        /\ UNCHANGED <<db, news>>
  /\ UNCHANGED <<screen, group, share, realtime, faults>>

LoseCall ==
  /\ call # NoCall /\ call.at # "failed" /\ Fault
  /\ call' = [call EXCEPT !.at = "failed", !.answer = NoData]
  /\ UNCHANGED <<db, news, screen, group, share, realtime>>

Settled(op) == call # NoCall /\ call.at = "answered" /\ call.op \in op
               /\ call' = NoCall

(* onSuccess of create, join, claim and complete. *)
Cached(answer) == SetData(group, answer)

(* create and join: the answer goes into the cache, and the screen opens.  *)
OpenScreen ==
  /\ Settled({"create", "join"})
  /\ screen' = "GroupDetail"
  /\ group' = Fetched(Cached(call.answer))
  /\ room' = "wanted"
  /\ UNCHANGED <<db, news, socket, faults>>
  /\ FetchShareOnceEnabled

SettleGroup ==
  /\ Settled({"claim", "complete"})
  /\ group' = Cached(call.answer)
  /\ UNCHANGED <<db, news, screen, realtime, faults>>
  /\ FetchShareOnceEnabled

(* A dispute changes no cache: its own broadcast has to. *)
SettleDispute ==
  /\ Settled({"dispute"})
  /\ UNCHANGED <<db, news, screen, group, share, realtime, faults>>

SettleConfirm ==
  /\ Settled({"confirm"})
  /\ group' = Invalidated(group, Here)
  /\ UNCHANGED <<db, news, screen, share, realtime, faults>>

SettlePay ==
  /\ Settled({"pay"})
  /\ share' = Invalidated(share, ShareEnabled)
  /\ UNCHANGED <<db, news, screen, group, realtime, faults>>

FailCall ==
  /\ call # NoCall /\ call.at = "failed"
  /\ call' = NoCall
  /\ share' = IF call.op = "pay"
              THEN Invalidated(SetData(share, call.previous), ShareEnabled)
              ELSE share
  /\ UNCHANGED <<db, news, screen, group, realtime, faults>>

(* Faulty: unmounting leaves the room joined. *)
LeaveSubscribed ==
  /\ Here /\ Fault
  /\ screen' = "Home"
  /\ UNCHANGED <<db, news, group, share, call, realtime>>

LeaveScreen ==
  /\ Here /\ Fault
  /\ screen' = "Home" /\ room' = "out"
  /\ UNCHANGED <<db, news, group, share, call, socket>>

-----------------------------------------------------------------------------
(* useGroupRealtime.  The room is joined for one connection: a socket that *)
(* reconnects by itself is in no room.                                     *)

Subscribe ==
  /\ room = "wanted"
  /\ \/ socket = "up" /\ room' = "joined" /\ UNCHANGED socket
     \/ socket # "up" /\ room' = "buffered" /\ socket' = "trying"
  /\ UNCHANGED <<db, news, screen, group, share, call, faults>>

Connect ==
  /\ socket = "trying"
  /\ socket' = "up"
  /\ room' = IF room = "buffered" THEN "joined" ELSE room
  /\ UNCHANGED <<db, news, screen, group, share, call, faults>>

(* The token the socket was made with has expired: it never tries again. *)
RefuseSocket ==
  /\ socket = "trying" /\ Fault
  /\ socket' = "refused"
  /\ UNCHANGED <<db, news, screen, group, share, call, room>>

DropSocket ==
  /\ socket = "up" /\ Fault
  /\ socket' = "trying"
  /\ room' = IF room = "joined" THEN "lost" ELSE room
  /\ UNCHANGED <<db, news, screen, group, share, call>>

(* All three events invalidate the group's query, and only that. *)
Broadcast ==
  /\ news
  /\ news' = FALSE
  /\ group' = Invalidated(group, room = "joined")
  /\ UNCHANGED <<db, screen, share, call, realtime, faults>>

-----------------------------------------------------------------------------
Respond == \/ ServeGroup \/ ReceiveGroup \/ ServeShare \/ ReceiveShare
           \/ ServeCall \/ OpenScreen \/ SettleGroup \/ SettleConfirm
           \/ SettleDispute \/ SettlePay \/ FailCall
           \/ Subscribe \/ Connect \/ Broadcast

Next == \/ Respond \/ Poll \/ LeaveScreen
        \/ \E op \in Op, payer \in Users : Press(op, payer)
        \/ OthersCall \/ SweepExpires
        \/ LoseGroup \/ LoseShare \/ LoseCall
        \/ RefuseSocket \/ DropSocket

Spec == Init /\ [][Next]_vars

(* Requests are served and answers arrive (faults are bounded), timers     *)
(* fire, and a connection comes about; nobody owes the group an action.    *)
(* Strong for ReceiveGroup: an invalidation drops the answer under way,    *)
(* but not even a student who keeps pressing is faster every time.         *)
Fairness == /\ WF_vars(ServeGroup) /\ SF_vars(ReceiveGroup)
            /\ WF_vars(ServeShare) /\ WF_vars(ReceiveShare)
            /\ WF_vars(ServeCall) /\ WF_vars(OpenScreen)
            /\ WF_vars(SettleGroup) /\ WF_vars(SettleConfirm)
            /\ WF_vars(SettleDispute) /\ WF_vars(SettlePay)
            /\ WF_vars(FailCall)
            /\ WF_vars(Subscribe) /\ WF_vars(Connect) /\ WF_vars(Broadcast)
            /\ WF_vars(Poll)

FairSpec == Spec /\ Fairness

-----------------------------------------------------------------------------
Data(values) == values \cup {NoData}
Query(values) == [data : Data(values), answer : Data(values),
                  fetch : {"idle", "sent", "answered"},
                  failed : BOOLEAN]
Call == [op : Op, payer : Users, at : {"sent", "answered", "failed"},
         answer : Data(GroupDetail), previous : Data(ContributionStatus)]

ASSUME ScreenValues == NoCall \notin Call /\ NoData \notin ContributionStatus

(* Caches hold what routes return; a subscription belongs to the screen. *)
ScreenTypeOK ==
  /\ db \in GroupDetail /\ news \in BOOLEAN
  /\ screen \in {"Home", "GroupDetail"}
  /\ group \in Query(GroupDetail) /\ share \in Query(ContributionStatus)
  /\ call \in Call \cup {NoCall}
  /\ socket \in {"none", "trying", "up", "refused"}
  /\ room \in {"out", "wanted", "buffered", "joined", "lost"}
  /\ (room = "out") = (screen = "Home")
  /\ faults \in 0 .. MaxFaults

(* useMarkPaid: "Waiting for the coordinator" is only shown when the       *)
(* backend has the payment, or the request that tells it is under way.     *)
OptimismIsBacked ==
  share.data = "CLAIMED_PAID" =>
    \/ db.contrib[Me] \in {"CLAIMED_PAID", "PAID"}
    \/ call # NoCall /\ call.op = "pay"

(* realtime.ts, hooks.ts: whatever was missed (a broadcast before the room *)
(* was joined or after the socket dropped, an answer overtaken by a later  *)
(* one, a failed fetch), an open screen comes to show the group as it is.  *)
ViewCatchesUp == []<>(Here => Shown /\ group.data = db)

(* A student on the screen who owes a share is offered to pay it, unless   *)
(* the one fetch of the contribution failed: it is not tried again while   *)
(* the screen is open (retry: false, no interval).                         *)
Owing == db.contrib[Me] = "PENDING" /\ db.coordinator \notin {Me, Nobody}
ShareMissing == ShareEnabled /\ share.data = NoData /\ share.fetch = "idle"
ShareIsOffered ==
  []<>(Here /\ Owing => PayOffered \/ (ShareMissing /\ share.failed))

(* realtime.ts:17-20: the cache is invalidated the instant the backend     *)
(* broadcasts a change, so what the screen says of my payment catches up.  *)
PaymentIsShown ==
  []<>(ShareEnabled /\ share.data # NoData => share.data = db.contrib[Me])
=============================================================================
