--------------------------- MODULE AccountsProofs ---------------------------
(***************************************************************************)
(* Proofs about Accounts, for any number of requests under way and any     *)
(* threshold.  AInv is inductive as it stands: what has to be argued is    *)
(* how many requests can be between the read of the counter and its        *)
(* increment.                                                              *)
(***************************************************************************)
EXTENDS Accounts, FiniteSetTheorems, TLAPS

AInv == AccountsTypeOK /\ OneAccountPerEmail /\ LockHolds

(* The requests that will still count a failure fit into the slots. *)
LEMMA GuessesFit ==
  /\ Cardinality(Slots) \in Nat
  /\ IsFiniteSet(Guessing) /\ Cardinality(Guessing) \in Nat
  /\ Cardinality(Guessing) <= Cardinality(Slots)
  BY FS_Subset, FS_CardinalityType, AccountsAssumption DEF Guessing

(* The same holds after a step. *)
LEMMA GuessesFitNext ==
  /\ Cardinality(Guessing') \in Nat
  /\ Cardinality(Guessing') <= Cardinality(Slots)
  BY FS_Subset, FS_CardinalityType, AccountsAssumption DEF Guessing

(* Initially nobody has failed and nothing is under way. *)
LEMMA InitAInv == Init => AInv
<1> SUFFICES ASSUME Init PROVE AInv
  OBVIOUS
<1>1. AccountsTypeOK /\ OneAccountPerEmail
  <2>1. expires \in BOOLEAN
    BY Zenon DEF Init
  <2>2. /\ users \in Nat /\ fails \in Nat /\ users <= 1
        /\ pc \in [Slots -> Steps]
    BY DEF Init, Steps
  <2> QED BY <2>1, <2>2 DEF AccountsTypeOK, OneAccountPerEmail
<1>2. LockHolds
  BY GuessesFit, AccountsAssumption DEF Init, LockHolds
<1> QED BY <1>1, <1>2 DEF AInv

(* Every variable keeps its domain, and the unique index its promise. *)
LEMMA TypeStep == AInv /\ [Next]_vars => AccountsTypeOK' /\ OneAccountPerEmail'
<1> SUFFICES ASSUME AInv, [Next]_vars
             PROVE  AccountsTypeOK' /\ OneAccountPerEmail'
  OBVIOUS
<1> USE DEF AInv, AccountsTypeOK, OneAccountPerEmail
<1>1. CASE UNCHANGED vars
  BY <1>1 DEF vars
<1>2. CASE WindowEnds
  BY <1>2 DEF WindowEnds
<1>3. ASSUME NEW s \in Slots,
             SignupRead(s) \/ SignupCreate(s) \/ LoginRead(s) \/ Verify(s)
      PROVE  AccountsTypeOK' /\ OneAccountPerEmail'
  BY <1>3 DEF SignupRead, SignupCreate, LoginRead, Verify, Goto, Steps
<1>4. ASSUME NEW s \in Slots, CountFailure(s) \/ ClearFailures(s)
      PROVE  AccountsTypeOK' /\ OneAccountPerEmail'
  <2>1. expires' \in BOOLEAN
    BY <1>4, Zenon DEF CountFailure, ClearFailures
  <2>2. /\ users' \in Nat /\ fails' \in Nat /\ users' <= 1
        /\ pc' \in [Slots -> Steps]
    BY <1>4 DEF CountFailure, ClearFailures, Goto, Steps
  <2> QED BY <2>1, <2>2
<1> QED BY <1>1, <1>2, <1>3, <1>4 DEF Next, Handle

(* A request may only start to guess below the threshold, and each failure *)
(* it counts takes one guess away.                                         *)
LEMMA LockStep == AInv /\ [Next]_vars => LockHolds'
<1> SUFFICES ASSUME AInv, [Next]_vars PROVE LockHolds'
  OBVIOUS
<1> USE GuessesFit, GuessesFitNext, AccountsAssumption
<1> USE DEF AInv, AccountsTypeOK, LockHolds
<1>0. AccountsTypeOK'
  BY TypeStep
<1>1. CASE Guessing' = Guessing /\ fails' = fails
  BY <1>1
<1>2. CASE fails' < LockoutThreshold
  BY <1>0, <1>2
<1>3. ASSUME NEW s \in Slots, CountFailure(s)
      PROVE  LockHolds'
  <2>1. s \in Guessing /\ Guessing' = Guessing \ {s} /\ fails' = fails + 1
    BY <1>3 DEF CountFailure, Goto, At, Guessing
  <2>2. Cardinality(Guessing') = Cardinality(Guessing) - 1
    BY <2>1, FS_RemoveElement
  <2> QED BY <2>1, <2>2
<1>4. ASSUME NEW s \in Slots, Verify(s)
      PROVE  LockHolds'
  <2>1. Guessing' \subseteq Guessing /\ fails' = fails
    BY <1>4 DEF Verify, Goto, At, Guessing
  <2>2. Cardinality(Guessing') <= Cardinality(Guessing)
    BY <2>1, FS_Subset
  <2> QED BY <2>1, <2>2
<1>5. ASSUME NEW s \in Slots, SignupRead(s) \/ SignupCreate(s)
      PROVE  Guessing' = Guessing /\ fails' = fails
  BY <1>5 DEF SignupRead, SignupCreate, Goto, At, Guessing
<1>6. ASSUME NEW s \in Slots, LoginRead(s) \/ ClearFailures(s)
      PROVE  fails' < LockoutThreshold
  BY <1>6 DEF LoginRead, ClearFailures
<1>7. WindowEnds => fails' < LockoutThreshold
  BY DEF WindowEnds
<1>8. UNCHANGED vars => Guessing' = Guessing /\ fails' = fails
  BY DEF vars, Guessing
<1> QED BY <1>1, <1>2, <1>3, <1>4, <1>5, <1>6, <1>7, <1>8 DEF Next, Handle

(* AInv holds in every reachable state. *)
THEOREM AccountsInvariance == Spec => []AInv
<1>1. AInv /\ [Next]_vars => AInv'
  BY TypeStep, LockStep DEF AInv
<1> QED BY <1>1, InitAInv, PTL DEF Spec

(* Every reachable state is well typed. *)
THEOREM AccountsTyped == Spec => []AccountsTypeOK
<1>1. AInv => AccountsTypeOK
  BY DEF AInv
<1> QED BY <1>1, AccountsInvariance, PTL

(* However many signups race, one account per email address comes of it. *)
THEOREM OneAccount == Spec => []OneAccountPerEmail
<1>1. AInv => OneAccountPerEmail
  BY DEF AInv
<1> QED BY <1>1, AccountsInvariance, PTL

(* A window sees fewer failures than the threshold and the requests that   *)
(* can be under way at once, for any number of either.                     *)
THEOREM LockBounds == Spec => []LockHolds
<1>1. AInv => LockHolds
  BY DEF AInv
<1> QED BY <1>1, AccountsInvariance, PTL
=============================================================================
