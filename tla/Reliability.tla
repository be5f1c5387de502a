---------------------------- MODULE Reliability ----------------------------
(***************************************************************************)
(* How reliability events become a student's score: the confirm and        *)
(* complete routes of several orders with the same members, statement by   *)
(* statement, and lib/reliability.ts.  A user's ReliabilityEvent rows are  *)
(* kept as the sum of their deltas.  The orders are claimed when the model *)
(* starts; what leads there is GroupOrder's subject.                       *)
(***************************************************************************)
EXTENDS Integers, FiniteSets

CONSTANTS
  Users,        \* the members of every order
  Orders,       \* group orders awaiting payments
  Reqs,         \* slots for completions being served
  Earlier,      \* what the deltas of earlier events may add up to
  MaxConfirms   \* bound: how often payments are confirmed

ASSUME ReliabilityAssumption == /\ MaxConfirms \in Nat /\ Earlier \subseteq Int
                                /\ IsFiniteSet(Reqs) /\ Reqs # {}

VARIABLES
  done,       \* the orders whose status is COMPLETED
  leader,     \* each order's coordinatorUserId
  paid,       \* the users of each order whose contribution is PAID
  points,     \* the sum of each user's ReliabilityEvent deltas
  score,      \* User.reliabilityScore
  req,        \* the completions being served
  confirms,   \* how many confirmations there were
  counted,    \* how often each order's outcome was counted
  late,       \* slots whose completion began after its order was counted
  recounted,  \* orders that such a completion has counted
  unseen,     \* the deltas of confirmations since the user's rows were read
  raced       \* two completions recalculated at the same time

tables == <<done, leader, paid, points, score>>
counts == <<counted, late, recounted>>
history == <<confirms, counts, unseen, raced>>
vars == <<tables, req, history>>

RELIABILITY_DELTAS == [PAYMENT_CONFIRMED |-> 2, PAYMENT_MISSED |-> -15,
                       ORDER_COMPLETED |-> 3, COORDINATOR_COMPLETED |-> 8]
DEFAULT_RELIABILITY_SCORE == 100

(* Faulty: no lower limit. *)
ScoreUnfloored(sum) ==
  LET total == DEFAULT_RELIABILITY_SCORE + sum
  IN IF total > 100 THEN 100 ELSE total

computeReliabilityScore(sum) ==
  LET total == DEFAULT_RELIABILITY_SCORE + sum
  IN IF total < 0 THEN 0 ELSE IF total > 100 THEN 100 ELSE total

(* A completion knows its order and, per user, the deltas it will insert;  *)
(* then whose score it has still to recalculate, and the sum it read.      *)
Idle == [pc |-> "idle"]
Goto(r, q) == req' = [req EXCEPT ![r] = q]
Recalculating(r) == req[r].pc \in {"read", "write"}

Init == /\ done = {} /\ leader \in [Orders -> Users]
        /\ paid = [o \in Orders |-> {}]
        /\ points \in [Users -> Earlier]
        /\ score = [u \in Users |-> computeReliabilityScore(points[u])]
        /\ req = [r \in Reqs |-> Idle]
        /\ confirms = 0 /\ raced = FALSE
        /\ counted = [o \in Orders |-> 0] /\ late = {} /\ recounted = {}
        /\ unseen = [u \in Users |-> 0]

(* The confirm route adds an event on every call, in any status, and       *)
(* leaves the score to the next completion.  Its two writes are one step:  *)
(* no statement modelled here reads both tables.                           *)
ConfirmPayment ==
  /\ confirms < MaxConfirms /\ confirms' = confirms + 1
  /\ \E o \in Orders, u \in Users :
       LET delta == RELIABILITY_DELTAS.PAYMENT_CONFIRMED IN
       /\ paid' = [paid EXCEPT ![o] = @ \cup {u}]
       /\ points' = [points EXCEPT ![u] = @ + delta]
       /\ unseen' = [unseen EXCEPT ![u] = @ + delta]
  /\ UNCHANGED <<done, leader, score, req, counts, raced>>

Outcome(o, u) ==
  (IF u \in paid[o] THEN RELIABILITY_DELTAS.ORDER_COMPLETED
                    ELSE RELIABILITY_DELTAS.PAYMENT_MISSED)
  + (IF u = leader[o] THEN RELIABILITY_DELTAS.COORDINATOR_COMPLETED ELSE 0)

(* The status and the contributions are read; and it is noted whether the  *)
(* order had been counted by then.                                         *)
Begin(r, o) ==
  /\ Goto(r, [pc |-> "status", order |-> o,
              batch |-> [u \in Users |-> Outcome(o, u)]])
  /\ late' = IF counted[o] > 0 THEN late \cup {r} ELSE late \ {r}
  /\ UNCHANGED <<tables, confirms, counted, recounted, unseen, raced>>

(* Faulty: no check that the order is still awaiting completion. *)
CompleteAlways(r) == req[r] = Idle /\ \E o \in Orders : Begin(r, o)

CompleteRead(r) == req[r] = Idle /\ \E o \in Orders \ done : Begin(r, o)

CompleteStatus(r) ==
  /\ req[r].pc = "status"
  /\ done' = done \cup {req[r].order}
  /\ Goto(r, [req[r] EXCEPT !.pc = "insert"])
  /\ UNCHANGED <<leader, paid, points, score, history>>

CompleteInsert(r) ==
  /\ req[r].pc = "insert"
  /\ points' = [u \in Users |-> points[u] + req[r].batch[u]]
  /\ counted' = [counted EXCEPT ![req[r].order] = @ + 1]
  /\ recounted' = IF r \in late THEN recounted \cup {req[r].order}
                               ELSE recounted
  /\ raced' = (raced \/ \E q \in Reqs : Recalculating(q))
  /\ Goto(r, [pc |-> "read", todo |-> Users])
  /\ UNCHANGED <<done, leader, paid, score, confirms, late, unseen>>

(* recalculateReliability: one user after the other, a read and a write.   *)
RecalculateRead(r) ==
  /\ req[r].pc = "read"
  /\ \E u \in req[r].todo :
       /\ Goto(r, [pc |-> "write", todo |-> req[r].todo \ {u}, user |-> u,
                   sum |-> points[u]])
       /\ unseen' = [unseen EXCEPT ![u] = 0]
  /\ UNCHANGED <<tables, confirms, counts, raced>>

(* Faulty: leaves the last user out. *)
RecalculateAllButOne(r) ==
  /\ req[r].pc = "write"
  /\ score' = [score EXCEPT ![req[r].user] = computeReliabilityScore(req[r].sum)]
  /\ Goto(r, IF Cardinality(req[r].todo) <= 1 THEN Idle
             ELSE [pc |-> "read", todo |-> req[r].todo])
  /\ UNCHANGED <<done, leader, paid, points, history>>

RecalculateWrite(r) ==
  /\ req[r].pc = "write"
  /\ score' = [score EXCEPT ![req[r].user] = computeReliabilityScore(req[r].sum)]
  /\ Goto(r, IF req[r].todo = {} THEN Idle
             ELSE [pc |-> "read", todo |-> req[r].todo])
  /\ UNCHANGED <<done, leader, paid, points, history>>

Complete(r) == \/ CompleteRead(r) \/ CompleteStatus(r) \/ CompleteInsert(r)
               \/ RecalculateRead(r) \/ RecalculateWrite(r)

Next == ConfirmPayment \/ \E r \in Reqs : Complete(r)

Spec == Init /\ [][Next]_vars

-----------------------------------------------------------------------------
(* A completion adds up its members' deltas, nobody else's.                *)
ReliabilityTypeOK ==
  /\ done \subseteq Orders /\ leader \in [Orders -> Users]
  /\ paid \in [Orders -> SUBSET Users]
  /\ points \in [Users -> Int] /\ score \in [Users -> 0 .. 100]
  /\ DOMAIN req = Reqs
  /\ \A r \in Reqs :
       \/ req[r] = Idle
       \/ req[r] \in [pc : {"status", "insert"}, order : Orders,
                     batch : [Users -> Int]]
       \/ req[r] \in [pc : {"read"}, todo : (SUBSET Users) \ {{}}]
       \/ req[r] \in [pc : {"write"}, todo : SUBSET Users, user : Users,
                     sum : Int]

(* complete and recalculateReliability: when no completion is under way,   *)
(* every member's score counts every completed order, what the member did  *)
(* as coordinator and as payer, and every confirmation made before the     *)
(* last completion; only completions that recalculated at the same time    *)
(* may have overwritten a newer score by an older one.                     *)
ScoreIsCurrent ==
  ~raced /\ (\A r \in Reqs : ~Recalculating(r)) =>
    \A u \in Users : score[u] = computeReliabilityScore(points[u] - unseen[u])

(* complete: the status check, the status write and the insert are three   *)
(* statements, so an order can be counted twice; but every completion that *)
(* counts it had read its status before the first of them counted it.  So  *)
(* they were all under way at that moment: a completion that begins later  *)
(* counts nothing, and there are never more than requests at once.         *)
CountedOnlyTogether ==
  recounted = {} /\ \A o \in Orders : counted[o] <= Cardinality(Reqs)
=============================================================================
