------------------------- MODULE ReliabilityProofs -------------------------
(***************************************************************************)
(* Proofs about Reliability, for any number of members, orders, concurrent *)
(* completions and confirmations: scores stay on their scale and current,  *)
(* and no order is counted by a completion that came later.                *)
(***************************************************************************)
EXTENDS Reliability, FiniteSetTheorems, TLAPS

(* The history variables stay in their domains. *)
HistoryTypeOK == /\ confirms \in Nat /\ counted \in [Orders -> Nat]
                 /\ unseen \in [Users -> Int] /\ raced \in BOOLEAN

(* Nobody is counted before the status is written, so nobody is late; and  *)
(* every count is one of a completion that got past the check before that. *)
Completing(o) ==
  {r \in Reqs : req[r].pc \in {"status", "insert"} /\ req[r].order = o}
CountsGrounded ==
  /\ late = {} /\ recounted = {}
  /\ \A r \in Reqs : req[r].pc = "insert" => req[r].order \in done
  /\ \A o \in Orders :
       IF o \in done
       THEN counted[o] + Cardinality(Completing(o)) <= Cardinality(Reqs)
       ELSE counted[o] = 0

(* A score that is not current is the one the only completion that         *)
(* recalculates has still to read or, from rows it has read, to write.     *)
Current(u) == score[u] = computeReliabilityScore(points[u] - unseen[u])
Pending(r, u) == \/ req[r].pc \in {"read", "write"} /\ u \in req[r].todo
                 \/ req[r].pc = "write" /\ u = req[r].user
ScoresGrounded ==
  ~raced =>
    /\ \A r, q \in Reqs : Recalculating(r) /\ Recalculating(q) => r = q
    /\ \A u \in Users : Current(u) \/ \E r \in Reqs : Pending(r, u)
    /\ \A r \in Reqs : req[r].pc = "write" =>
         req[r].sum = points[req[r].user] - unseen[req[r].user]

ReliabilityInv == ReliabilityTypeOK /\ HistoryTypeOK

-----------------------------------------------------------------------------
(* What slots hold *)

(* A slot knows what its step needs. *)
LEMMA SlotTyped ==
  ASSUME ReliabilityTypeOK, NEW r \in Reqs
  PROVE  /\ req[r].pc \in {"idle", "status", "insert", "read", "write"}
         /\ req[r].pc = "idle" => req[r] = Idle
         /\ req[r].pc \in {"status", "insert"} =>
              /\ req[r] \in [pc : {"status", "insert"}, order : Orders,
                             batch : [Users -> Int]]
         /\ req[r].pc = "read" =>
              req[r] \in [pc : {"read"}, todo : (SUBSET Users) \ {{}}]
         /\ req[r].pc = "write" =>
              req[r] \in [pc : {"write"}, todo : SUBSET Users, user : Users,
                          sum : Int]
  BY DEF ReliabilityTypeOK, Idle

(* A score is on its scale. *)
LEMMA ScoreScale ==
  ASSUME NEW sum \in Int
  PROVE  computeReliabilityScore(sum) \in 0 .. 100
  BY DEF computeReliabilityScore, DEFAULT_RELIABILITY_SCORE

(* An outcome is a number of points. *)
LEMMA OutcomeTyped ==
  ASSUME NEW o, NEW u
  PROVE  Outcome(o, u) \in Int
  BY DEF Outcome, RELIABILITY_DELTAS

(* Only the completion that acts moves. *)
LEMMA OnlyOne ==
  ASSUME ReliabilityTypeOK, NEW r \in Reqs, NEW q, Goto(r, q)
  PROVE  req'[r] = q /\ \A p \in Reqs \ {r} : req'[p] = req[p]
  BY DEF Goto, ReliabilityTypeOK

(* A slot that changed is the one that acted. *)
LEMMA OnlyActor ==
  ASSUME ReliabilityTypeOK, Next, NEW p \in Reqs, req'[p] # req[p]
  PROVE  Complete(p)
<1>1. PICK r \in Reqs : Complete(r)
  BY DEF Next, ConfirmPayment, counts
<1>2. \E q : Goto(r, q)
  BY <1>1 DEF Complete, CompleteRead, Begin, CompleteStatus, CompleteInsert,
     RecalculateRead, RecalculateWrite
<1> QED BY <1>1, <1>2, OnlyOne

-----------------------------------------------------------------------------
(* Types *)

(* Every step keeps the tables typed. *)
LEMMA TablesStep ==
  ASSUME ReliabilityInv, Next
  PROVE  /\ done' \subseteq Orders /\ leader' \in [Orders -> Users]
         /\ paid' \in [Orders -> SUBSET Users]
         /\ points' \in [Users -> Int] /\ score' \in [Users -> 0 .. 100]
<1> USE DEF ReliabilityInv
<1>1. CASE ConfirmPayment
  BY <1>1 DEF ConfirmPayment, counts, ReliabilityTypeOK, RELIABILITY_DELTAS
<1>2. ASSUME NEW r \in Reqs, CompleteRead(r) \/ RecalculateRead(r)
      PROVE  UNCHANGED tables
  BY <1>2 DEF CompleteRead, Begin, RecalculateRead
<1>3. ASSUME NEW r \in Reqs, CompleteStatus(r) \/ CompleteInsert(r)
      PROVE  /\ done' \subseteq Orders /\ points' \in [Users -> Int]
             /\ UNCHANGED <<leader, paid, score>>
  BY <1>3, SlotTyped DEF CompleteStatus, CompleteInsert, ReliabilityTypeOK
<1>4. ASSUME NEW r \in Reqs, RecalculateWrite(r)
      PROVE  /\ score' \in [Users -> 0 .. 100]
             /\ UNCHANGED <<done, leader, paid, points>>
  BY <1>4, SlotTyped, ScoreScale DEF RecalculateWrite, ReliabilityTypeOK
<1> QED BY <1>1, <1>2, <1>3, <1>4
    DEF Next, Complete, tables, ReliabilityTypeOK

(* Every step keeps the history typed. *)
LEMMA HistoryStep ==
  ASSUME ReliabilityInv, Next
  PROVE  HistoryTypeOK'
<1> USE DEF ReliabilityInv
<1>1. CASE ConfirmPayment
  <2>1. UNCHANGED raced
    BY <1>1 DEF ConfirmPayment, counts
  <2>2. /\ confirms' \in Nat /\ counted' \in [Orders -> Nat]
        /\ unseen' \in [Users -> Int]
    BY <1>1 DEF ConfirmPayment, counts, HistoryTypeOK, RELIABILITY_DELTAS
  <2> QED BY <2>1, <2>2 DEF HistoryTypeOK
<1>2. ASSUME NEW r \in Reqs,
             CompleteRead(r) \/ CompleteStatus(r) \/ RecalculateWrite(r)
      PROVE  UNCHANGED <<confirms, counted, unseen, raced>>
  BY <1>2 DEF CompleteRead, Begin, CompleteStatus, RecalculateWrite, history,
     counts
<1>3. ASSUME NEW r \in Reqs, CompleteInsert(r)
      PROVE  HistoryTypeOK'
  <2>1. raced' \in BOOLEAN
    BY <1>3, Zenon DEF CompleteInsert, HistoryTypeOK
  <2>2. /\ confirms' \in Nat /\ counted' \in [Orders -> Nat]
        /\ unseen' \in [Users -> Int]
    BY <1>3, SlotTyped DEF CompleteInsert, HistoryTypeOK
  <2> QED BY <2>1, <2>2 DEF HistoryTypeOK
<1>4. ASSUME NEW r \in Reqs, RecalculateRead(r)
      PROVE  HistoryTypeOK'
  <2>1. UNCHANGED raced
    BY <1>4 DEF RecalculateRead
  <2>2. /\ confirms' \in Nat /\ counted' \in [Orders -> Nat]
        /\ unseen' \in [Users -> Int]
    BY <1>4, SlotTyped DEF RecalculateRead, counts, HistoryTypeOK
  <2> QED BY <2>1, <2>2 DEF HistoryTypeOK
<1> QED BY <1>1, <1>2, <1>3, <1>4 DEF Next, Complete, HistoryTypeOK

(* Every step keeps the slots typed. *)
LEMMA SlotsStep ==
  ASSUME ReliabilityInv, Next, NEW p \in Reqs
  PROVE  \/ req'[p] = Idle
         \/ req'[p] \in [pc : {"status", "insert"}, order : Orders,
                          batch : [Users -> Int]]
         \/ req'[p] \in [pc : {"read"}, todo : (SUBSET Users) \ {{}}]
         \/ req'[p] \in [pc : {"write"}, todo : SUBSET Users, user : Users,
                          sum : Int]
<1> USE DEF ReliabilityInv
<1>0. ReliabilityTypeOK /\ points \in [Users -> Int]
  BY DEF ReliabilityTypeOK
<1>1. CASE req'[p] = req[p]
  BY <1>1 DEF ReliabilityTypeOK
<1>2. CASE req'[p] # req[p]
  <2>1. Complete(p)
    BY <1>0, <1>2, OnlyActor
  <2>2. CASE CompleteRead(p)
    <3>1. PICK o \in Orders :
            req'[p] = [pc |-> "status", order |-> o,
                       batch |-> [u \in Users |-> Outcome(o, u)]]
      BY <1>0, <2>2, OnlyOne DEF CompleteRead, Begin
    <3> QED BY <3>1, OutcomeTyped
  <2>3. CASE CompleteStatus(p)
    <3>1. req'[p] = [req[p] EXCEPT !.pc = "insert"]
      BY <1>0, <2>3, OnlyOne DEF CompleteStatus
    <3>2. req[p] \in [pc : {"status", "insert"}, order : Orders,
                      batch : [Users -> Int]]
      BY <1>0, <2>3, SlotTyped DEF CompleteStatus
    <3>3. req'[p] \in [pc : {"status", "insert"}, order : Orders,
                       batch : [Users -> Int]]
      BY <3>1, <3>2
    <3> QED BY <3>3
  <2>4. CASE CompleteInsert(p)
    <3>1. req'[p] = [pc |-> "read", todo |-> Users]
      BY <1>0, <2>4, OnlyOne DEF CompleteInsert
    <3>2. Users # {}
      BY <1>0, <2>4, SlotTyped DEF CompleteInsert, ReliabilityTypeOK
    <3> QED BY <3>1, <3>2
  <2>5. CASE RecalculateRead(p)
    <3>1. PICK u \in req[p].todo :
            req'[p] = [pc |-> "write", todo |-> req[p].todo \ {u},
                       user |-> u, sum |-> points[u]]
      BY <1>0, <2>5, OnlyOne DEF RecalculateRead
    <3>2. req[p].todo \in SUBSET Users
      BY <1>0, <2>5, SlotTyped DEF RecalculateRead
    <3> QED BY <1>0, <3>1, <3>2
  <2>6. CASE RecalculateWrite(p)
    <3>1. req'[p] = IF req[p].todo = {} THEN Idle
                    ELSE [pc |-> "read", todo |-> req[p].todo]
      BY <1>0, <2>6, OnlyOne DEF RecalculateWrite
    <3>2. req[p].todo \in SUBSET Users
      BY <1>0, <2>6, SlotTyped DEF RecalculateWrite
    <3>3. CASE req[p].todo = {}
      BY <3>1, <3>3
    <3>4. CASE req[p].todo # {}
      <4>1. req'[p] = [pc |-> "read", todo |-> req[p].todo]
        BY <3>1, <3>4
      <4>2. req'[p] \in [pc : {"read"}, todo : (SUBSET Users) \ {{}}]
        BY <3>2, <3>4, <4>1
      <4> QED BY <4>2
    <3> QED BY <3>3, <3>4
  <2> QED BY <2>1, <2>2, <2>3, <2>4, <2>5, <2>6 DEF Complete
<1> QED BY <1>1, <1>2

(* Every step keeps everything typed. *)
LEMMA TypesStep ==
  ASSUME ReliabilityInv, [Next]_vars
  PROVE  ReliabilityInv'
<1>1. CASE Next
  <2>1. DOMAIN req' = Reqs
    BY <1>1 DEF ReliabilityInv, ReliabilityTypeOK, Next, ConfirmPayment, counts,
       Complete, CompleteRead, Begin, CompleteStatus, CompleteInsert,
       RecalculateRead, RecalculateWrite, Goto
  <2> QED BY <1>1, <2>1, TablesStep, HistoryStep, SlotsStep
      DEF ReliabilityInv, ReliabilityTypeOK
<1>2. CASE UNCHANGED vars
  BY <1>2 DEF vars, tables, history, counts, ReliabilityInv, ReliabilityTypeOK,
     HistoryTypeOK
<1> QED BY <1>1, <1>2

(* The model starts well typed. *)
LEMMA TypesInit == Init => ReliabilityInv
<1> SUFFICES ASSUME Init PROVE ReliabilityInv
  OBVIOUS
<1>1. points \in [Users -> Int]
  BY ReliabilityAssumption DEF Init
<1>2. score \in [Users -> 0 .. 100]
  BY <1>1, ScoreScale DEF Init
<1>3. raced \in BOOLEAN
  BY Zenon DEF Init
<1>4. \A r \in Reqs : req[r] = Idle
  BY DEF Init
<1>5. /\ done \subseteq Orders /\ leader \in [Orders -> Users]
      /\ paid \in [Orders -> SUBSET Users] /\ DOMAIN req = Reqs
      /\ confirms \in Nat /\ counted \in [Orders -> Nat]
      /\ unseen \in [Users -> Int]
  BY DEF Init
<1> QED BY <1>1, <1>2, <1>3, <1>4, <1>5
    DEF ReliabilityInv, ReliabilityTypeOK, HistoryTypeOK

(* Every reachable state is well typed; scores stay from 0 to 100. *)
THEOREM ReliabilityTyped == Spec => []ReliabilityTypeOK
<1>1. ReliabilityInv => ReliabilityTypeOK
  BY DEF ReliabilityInv
<1> QED BY <1>1, TypesInit, TypesStep, PTL DEF Spec

-----------------------------------------------------------------------------
(* How often an order is counted *)

(* The completions of an order fit into the slots. *)
LEMMA CompletingFits ==
  ASSUME NEW o
  PROVE  /\ IsFiniteSet(Completing(o)) /\ Cardinality(Completing(o)) \in Nat
         /\ Cardinality(Reqs) \in Nat
         /\ Cardinality(Completing(o)) <= Cardinality(Reqs)
         /\ Cardinality(Completing(o)') \in Nat
         /\ Cardinality(Completing(o)') <= Cardinality(Reqs)
  BY FS_Subset, FS_CardinalityType, ReliabilityAssumption DEF Completing

(* A completion waits to write the status or to insert its events only     *)
(* after it has passed the check, and keeps its order.                     *)
LEMMA HowCompleting ==
  ASSUME ReliabilityTypeOK, Next, NEW p \in Reqs, req'[p] # req[p],
         req'[p].pc \in {"status", "insert"}
  PROVE  \/ /\ CompleteRead(p) /\ req'[p].pc = "status"
            /\ req'[p].order \notin done
         \/ /\ CompleteStatus(p) /\ req[p].pc = "status"
            /\ req'[p].order = req[p].order
<1>1. Complete(p)
  BY OnlyActor
<1>2. CompleteRead(p) => req'[p].pc = "status" /\ req'[p].order \notin done
  BY OnlyOne DEF CompleteRead, Begin
<1>3. ASSUME CompleteStatus(p)
      PROVE  req[p].pc = "status" /\ req'[p].order = req[p].order
  <2>1. req'[p] = [req[p] EXCEPT !.pc = "insert"] /\ req[p].pc = "status"
    BY <1>3, OnlyOne DEF CompleteStatus
  <2>2. req[p] \in [pc : {"status", "insert"}, order : Orders,
                    batch : [Users -> Int]]
    BY <2>1, SlotTyped
  <2> QED BY <2>1, <2>2
<1>4. CompleteInsert(p) => req'[p].pc = "read"
  BY OnlyOne DEF CompleteInsert
<1>5. RecalculateRead(p) => req'[p].pc = "write"
  BY OnlyOne DEF RecalculateRead
<1>6. RecalculateWrite(p) => req'[p].pc \in {"idle", "read"}
  BY OnlyOne DEF RecalculateWrite, Idle
<1> QED BY <1>1, <1>2, <1>3, <1>4, <1>5, <1>6 DEF Complete

(* Nobody passes the check of an order whose status is written. *)
LEMMA NobodyLater ==
  ASSUME ReliabilityTypeOK, Next, NEW o \in done
  PROVE  Completing(o)' \subseteq Completing(o)
<1>1. SUFFICES ASSUME NEW p \in Reqs, req'[p].pc \in {"status", "insert"},
                      req'[p].order = o
               PROVE  req[p].pc \in {"status", "insert"} /\ req[p].order = o
  BY DEF Completing
<1> QED BY <1>1, HowCompleting

(* The last step before an order is counted follows its status write. *)
LEMMA InsertsStep ==
  ASSUME ReliabilityTypeOK, CountsGrounded, Next, NEW p \in Reqs,
         req'[p].pc = "insert"
  PROVE  req'[p].order \in done'
<1>1. done \subseteq done'
  BY DEF Next, ConfirmPayment, Complete, CompleteRead, Begin,
     CompleteStatus, CompleteInsert, RecalculateRead, RecalculateWrite,
     tables
<1>2. CASE req'[p] = req[p]
  BY <1>1, <1>2 DEF CountsGrounded
<1>3. CASE req'[p] # req[p]
  BY <1>3, HowCompleting DEF CompleteStatus
<1> QED BY <1>2, <1>3

(* Nobody begins to complete an order that was counted. *)
LEMMA NobodyLate ==
  ASSUME ReliabilityInv, CountsGrounded, Next
  PROVE  late' = {} /\ recounted' = {}
<1>1. ASSUME NEW r \in Reqs, NEW o \in Orders \ done, Begin(r, o)
      PROVE  late' = {} /\ recounted' = {}
  <2>1. counted[o] = 0
    BY DEF CountsGrounded
  <2> QED BY <1>1, <2>1 DEF Begin, CountsGrounded
<1>2. ASSUME NEW r \in Reqs, CompleteInsert(r)
      PROVE  late' = {} /\ recounted' = {}
  BY <1>2 DEF CompleteInsert, CountsGrounded
<1>3. ASSUME UNCHANGED <<late, recounted>>
      PROVE  late' = {} /\ recounted' = {}
  BY <1>3 DEF CountsGrounded
<1> QED BY <1>1, <1>2, <1>3
    DEF Next, ConfirmPayment, Complete, CompleteRead, CompleteStatus,
        RecalculateRead, RecalculateWrite, history, counts

(* Each count takes one completion off those that may still count.         *)
LEMMA CountsStep ==
  ASSUME ReliabilityInv, CountsGrounded, Next
  PROVE  CountsGrounded'
<1>0. ReliabilityTypeOK /\ counted \in [Orders -> Nat]
  BY DEF ReliabilityInv, HistoryTypeOK
<1>1. SUFFICES ASSUME NEW o \in Orders
      PROVE  IF o \in done'
             THEN counted'[o] + Cardinality(Completing(o)') <= Cardinality(Reqs)
             ELSE counted'[o] = 0
  BY <1>0, InsertsStep, NobodyLate DEF CountsGrounded
<1>2. \/ counted' = counted
      \/ /\ done' = done
         /\ \E r \in Reqs : CompleteInsert(r) /\ req[r].order \in done
  BY DEF Next, ConfirmPayment, Complete, CompleteRead, Begin,
     CompleteStatus, CompleteInsert, RecalculateRead, RecalculateWrite,
     history, counts, CountsGrounded
<1>3. CASE counted' = counted
  <2>1. CASE o \notin done
    BY <1>3, <2>1, CompletingFits DEF CountsGrounded
  <2>2. CASE o \in done
    <3>1. o \in done'
      BY <2>2 DEF Next, ConfirmPayment, Complete, CompleteRead, Begin,
         CompleteStatus, CompleteInsert, RecalculateRead, RecalculateWrite,
         tables
    <3>2. Cardinality(Completing(o)') <= Cardinality(Completing(o))
      BY <1>0, <2>2, NobodyLater, CompletingFits, FS_Subset
    <3>3. counted[o] + Cardinality(Completing(o)) <= Cardinality(Reqs)
      BY <2>2 DEF CountsGrounded
    <3> QED BY <1>0, <1>3, <3>1, <3>2, <3>3, CompletingFits
  <2> QED BY <2>1, <2>2
<1>4. ASSUME NEW r \in Reqs, CompleteInsert(r), req[r].order \in done,
             done' = done
      PROVE  IF o \in done
             THEN counted'[o] + Cardinality(Completing(o)') <= Cardinality(Reqs)
             ELSE counted'[o] = 0
  <2>0. counted' = [counted EXCEPT ![req[r].order] = @ + 1]
    BY <1>4 DEF CompleteInsert
  <2>1. CASE o \notin done
    BY <1>0, <1>4, <2>0, <2>1 DEF CountsGrounded
  <2>2. CASE o \in done
    <3>1. counted[o] + Cardinality(Completing(o)) <= Cardinality(Reqs)
      BY <2>2 DEF CountsGrounded
    <3>2. CASE o # req[r].order
      <4>1. Cardinality(Completing(o)') <= Cardinality(Completing(o))
        BY <1>0, <2>2, NobodyLater, CompletingFits, FS_Subset
      <4>2. counted'[o] = counted[o]
        BY <1>0, <2>0, <3>2
      <4> QED BY <1>0, <2>2, <3>1, <4>1, <4>2, CompletingFits
    <3>3. CASE o = req[r].order
      <4>1. r \in Completing(o) /\ r \notin Completing(o)'
        <5>1. req[r].pc = "insert" /\ req'[r].pc = "read"
          BY <1>0, <1>4, OnlyOne DEF CompleteInsert
        <5> QED BY <3>3, <5>1 DEF Completing
      <4>2. Completing(o)' \subseteq Completing(o) \ {r}
        BY <1>0, <2>2, <4>1, NobodyLater
      <4>3. /\ IsFiniteSet(Completing(o) \ {r})
            /\ Cardinality(Completing(o) \ {r}) = Cardinality(Completing(o)) - 1
        BY <4>1, CompletingFits, FS_RemoveElement
      <4>4. Cardinality(Completing(o)') <= Cardinality(Completing(o)) - 1
        BY <4>2, <4>3, FS_Subset
      <4>5. counted'[o] = counted[o] + 1
        BY <1>0, <2>0, <3>3
      <4> QED BY <1>0, <2>2, <3>1, <4>4, <4>5, CompletingFits
    <3> QED BY <3>2, <3>3
  <2> QED BY <2>1, <2>2
<1> QED BY <1>2, <1>3, <1>4

(* An order is never counted by a completion that began after it had been  *)
(* counted: whoever counts it was under way when the first of them did, so *)
(* they are at most as many as there are requests at once.                 *)
THEOREM CountedTogether == Spec => []CountedOnlyTogether
<1>1. Init => CountsGrounded
  BY DEF Init, CountsGrounded, Idle
<1>2. ReliabilityInv /\ CountsGrounded /\ [Next]_vars => CountsGrounded'
  <2>1. ASSUME CountsGrounded, UNCHANGED vars PROVE CountsGrounded'
    <3>1. \A o : Completing(o)' = Completing(o)
      BY <2>1 DEF vars, Completing
    <3> QED BY <2>1, <3>1 DEF vars, tables, history, counts, CountsGrounded
  <2> QED BY <2>1, CountsStep
<1>3. ReliabilityInv /\ CountsGrounded => CountedOnlyTogether
  BY CompletingFits
     DEF ReliabilityInv, HistoryTypeOK, CountsGrounded, CountedOnlyTogether
<1> QED BY <1>1, <1>2, <1>3, TypesInit, TypesStep, PTL DEF Spec

-----------------------------------------------------------------------------
(* Scores *)

(* Confirmations wait for the next completion that reads their user.       *)
LEMMA ScoresConfirm ==
  ASSUME ReliabilityInv, ScoresGrounded, ConfirmPayment
  PROVE  ScoresGrounded'
<1>0. /\ points \in [Users -> Int] /\ unseen \in [Users -> Int]
      /\ ReliabilityTypeOK
  BY DEF ReliabilityInv, ReliabilityTypeOK, HistoryTypeOK
<1>1. /\ UNCHANGED <<score, req, raced>>
      /\ \A u \in Users : points'[u] - unseen'[u] = points[u] - unseen[u]
  BY <1>0 DEF ConfirmPayment, counts, RELIABILITY_DELTAS
<1>2. \A r \in Reqs : req[r].pc = "write" => req[r].user \in Users
  BY <1>0, SlotTyped
<1> QED BY <1>1, <1>2 DEF ScoresGrounded, Current, Pending, Recalculating

(* A completion that has not inserted its events changes no score.         *)
LEMMA ScoresWait ==
  ASSUME ReliabilityInv, ScoresGrounded, NEW r \in Reqs,
         CompleteRead(r) \/ CompleteStatus(r)
  PROVE  ScoresGrounded'
<1>0. ReliabilityTypeOK
  BY DEF ReliabilityInv
<1>1. /\ ~Recalculating(r) /\ ~Recalculating(r)'
      /\ \A p \in Reqs \ {r} : req'[p] = req[p]
  <2>1. CASE CompleteRead(r)
    <3>1. req'[r].pc = "status" /\ req[r].pc = "idle"
      BY <1>0, <2>1, OnlyOne DEF CompleteRead, Begin, Idle
    <3> QED BY <1>0, <2>1, <3>1, OnlyOne DEF CompleteRead, Begin, Recalculating
  <2>2. CASE CompleteStatus(r)
    <3>1. req'[r] = [req[r] EXCEPT !.pc = "insert"] /\ req[r].pc = "status"
      BY <1>0, <2>2, OnlyOne DEF CompleteStatus
    <3>2. req'[r].pc = "insert"
      BY <1>0, <3>1, SlotTyped
    <3> QED BY <1>0, <2>2, <3>1, <3>2, OnlyOne DEF CompleteStatus, Recalculating
  <2> QED BY <2>1, <2>2
<1>2. UNCHANGED <<points, score, unseen, raced>>
  BY DEF CompleteRead, Begin, CompleteStatus, tables, history, counts
<1> QED BY <1>1, <1>2 DEF ScoresGrounded, Current, Pending, Recalculating

(* Inserting events makes every score pending, unless it makes a race.     *)
LEMMA ScoresInsert ==
  ASSUME ReliabilityInv, NEW r \in Reqs, CompleteInsert(r)
  PROVE  ScoresGrounded'
<1>0. ReliabilityTypeOK
  BY DEF ReliabilityInv
<1>1. req'[r] = [pc |-> "read", todo |-> Users]
  BY <1>0, OnlyOne DEF CompleteInsert
<1>2. raced' \/ \A q \in Reqs : ~Recalculating(q)
  BY DEF CompleteInsert
<1>3. CASE \A q \in Reqs : ~Recalculating(q)
  <2>1. \A p \in Reqs \ {r} : ~Recalculating(p)'
    BY <1>0, <1>3, OnlyOne DEF CompleteInsert, Recalculating
  <2>2. \A u \in Users : Pending(r, u)'
    BY <1>1 DEF Pending
  <2>3. \A p \in Reqs : req'[p].pc # "write"
    BY <1>1, <2>1 DEF Recalculating
  <2> QED BY <2>1, <2>2, <2>3 DEF ScoresGrounded
<1> QED BY <1>2, <1>3 DEF ScoresGrounded

(* Reading a user's rows sees every confirmation so far.                   *)
LEMMA ScoresRead ==
  ASSUME ReliabilityInv, ScoresGrounded, NEW r \in Reqs, RecalculateRead(r)
  PROVE  ScoresGrounded'
<1>0. /\ points \in [Users -> Int] /\ unseen \in [Users -> Int]
      /\ ReliabilityTypeOK
  BY DEF ReliabilityInv, ReliabilityTypeOK, HistoryTypeOK
<1>1. SUFFICES ASSUME ~raced' PROVE ScoresGrounded'
  BY DEF ScoresGrounded
<1>2. UNCHANGED <<points, score>> /\ ~raced /\ req[r].pc = "read"
  BY <1>1 DEF RecalculateRead, tables
<1>3. PICK v \in req[r].todo :
        /\ Goto(r, [pc |-> "write", todo |-> req[r].todo \ {v}, user |-> v,
                    sum |-> points[v]])
        /\ unseen' = [unseen EXCEPT ![v] = 0]
  BY DEF RecalculateRead
<1>4. /\ req'[r] = [pc |-> "write", todo |-> req[r].todo \ {v}, user |-> v,
                    sum |-> points[v]]
      /\ \A p \in Reqs \ {r} : req'[p] = req[p]
  BY <1>0, <1>3, OnlyOne
<1>5. v \in Users
  BY <1>0, <1>2, <1>3, SlotTyped
<1>6. /\ \A u \in Users \ {v} : unseen'[u] = unseen[u]
      /\ points'[v] - unseen'[v] = points[v]
  BY <1>0, <1>2, <1>3, <1>5
<1>7. \A p, q \in Reqs : Recalculating(p)' /\ Recalculating(q)' => p = q
  BY <1>2, <1>4 DEF ScoresGrounded, Recalculating
<1>8. ASSUME NEW u \in Users
      PROVE  Current(u)' \/ \E p \in Reqs : Pending(p, u)'
  <2>1. CASE Pending(r, u)
    BY <1>2, <1>4, <2>1 DEF Pending
  <2>2. CASE u = v
    BY <1>4, <2>2 DEF Pending
  <2>3. CASE Current(u) /\ u # v
    BY <1>2, <1>6, <2>3 DEF Current
  <2>4. ASSUME NEW p \in Reqs \ {r}, Pending(p, u)
        PROVE  Pending(p, u)'
    BY <1>4, <2>4 DEF Pending
  <2> QED BY <1>2, <2>1, <2>2, <2>3, <2>4 DEF ScoresGrounded
<1>9. \A p \in Reqs : req'[p].pc = "write" => p = r
  BY <1>2, <1>4 DEF ScoresGrounded, Recalculating
<1>10. req'[r].sum = points'[req'[r].user] - unseen'[req'[r].user]
  BY <1>4, <1>6
<1> QED BY <1>7, <1>8, <1>9, <1>10 DEF ScoresGrounded

(* Writing what was read makes the user's score current.                   *)
LEMMA ScoresWrite ==
  ASSUME ReliabilityInv, ScoresGrounded, NEW r \in Reqs, RecalculateWrite(r)
  PROVE  ScoresGrounded'
<1>0. /\ score \in [Users -> 0 .. 100]
      /\ ReliabilityTypeOK
  BY DEF ReliabilityInv, ReliabilityTypeOK
<1>1. SUFFICES ASSUME ~raced' PROVE ScoresGrounded'
  BY DEF ScoresGrounded
<1>2. /\ UNCHANGED <<points, unseen>> /\ ~raced /\ req[r].pc = "write"
      /\ score' = [score EXCEPT ![req[r].user] = computeReliabilityScore(req[r].sum)]
  BY <1>1 DEF RecalculateWrite, history, counts
<1>3. /\ req'[r] = IF req[r].todo = {} THEN Idle
                   ELSE [pc |-> "read", todo |-> req[r].todo]
      /\ \A p \in Reqs \ {r} : req'[p] = req[p]
  BY <1>0, OnlyOne DEF RecalculateWrite
<1>4. req'[r].pc \in {"idle", "read"}
  BY <1>3 DEF Idle
<1>5. \A p, q \in Reqs : Recalculating(p)' /\ Recalculating(q)' => p = q
  BY <1>2, <1>3 DEF ScoresGrounded, Recalculating
<1>6. \A p \in Reqs : req'[p].pc # "write"
  BY <1>2, <1>3, <1>4 DEF ScoresGrounded, Recalculating
<1>7. req[r].user \in Users
  BY <1>0, <1>2, SlotTyped
<1>8. ASSUME NEW u \in Users
      PROVE  Current(u)' \/ \E p \in Reqs : Pending(p, u)'
  <2>1. CASE u = req[r].user
    <3>1. score'[u] = computeReliabilityScore(points[u] - unseen[u])
      BY <1>0, <1>2, <2>1 DEF ScoresGrounded
    <3> QED BY <1>2, <3>1 DEF Current
  <2>2. CASE u # req[r].user /\ Current(u)
    BY <1>0, <1>2, <2>2 DEF Current
  <2>3. CASE u # req[r].user /\ Pending(r, u)
    <3>1. u \in req[r].todo
      BY <2>3 DEF Pending
    <3>2. req'[r] = [pc |-> "read", todo |-> req[r].todo]
      BY <1>3, <3>1
    <3> QED BY <3>1, <3>2 DEF Pending
  <2>4. ASSUME NEW p \in Reqs \ {r}, Pending(p, u)
        PROVE  Pending(p, u)'
    BY <1>3, <2>4 DEF Pending
  <2> QED BY <1>2, <2>1, <2>2, <2>3, <2>4 DEF ScoresGrounded
<1> QED BY <1>5, <1>6, <1>8 DEF ScoresGrounded

(* Scores are only out of date while a completion is still on its way to   *)
(* them, or after two completions recalculated at the same time.           *)
THEOREM ScoresCurrent == Spec => []ScoreIsCurrent
<1>1. Init => ScoresGrounded
  <2> SUFFICES ASSUME Init PROVE ScoresGrounded
    OBVIOUS
  <2>1. \A r \in Reqs : req[r].pc = "idle"
    BY DEF Init, Idle
  <2>2. \A u \in Users : Current(u)
    <3>1. points \in [Users -> Int] /\ unseen = [u \in Users |-> 0]
      BY TypesInit DEF Init, ReliabilityInv, ReliabilityTypeOK
    <3>2. \A u \in Users : points[u] - unseen[u] = points[u]
      BY <3>1
    <3> QED BY <3>2 DEF Init, Current
  <2> QED BY <2>1, <2>2 DEF ScoresGrounded, Recalculating
<1>2. ReliabilityInv /\ ScoresGrounded /\ [Next]_vars => ScoresGrounded'
  <2>1. ASSUME ScoresGrounded, UNCHANGED vars PROVE ScoresGrounded'
    BY <2>1 DEF vars, tables, history, counts, ScoresGrounded, Current, Pending,
       Recalculating
  <2> QED BY <2>1, ScoresConfirm, ScoresWait, ScoresInsert, ScoresRead,
         ScoresWrite DEF Next, Complete
<1>3. ScoresGrounded => ScoreIsCurrent
  BY DEF ScoresGrounded, ScoreIsCurrent, Current, Pending, Recalculating
<1> QED BY <1>1, <1>2, <1>3, TypesInit, TypesStep, PTL DEF Spec
=============================================================================
