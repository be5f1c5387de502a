------------------------------ MODULE Accounts ------------------------------
(***************************************************************************)
(* Signing up and logging in with one email address (routes/auth.ts): the  *)
(* account's row with its unique email, and the counter in Redis that      *)
(* locks the address after failed logins.  A request is in a slot from the *)
(* read that lets it go on until its last write; hashing or verifying the  *)
(* password is the slow part in between.  Early refusals leave no trace.   *)
(* The tokens a login hands out are the subject of Sessions.               *)
(***************************************************************************)
EXTENDS Integers, FiniteSets

CONSTANTS
  Slots,           \* requests that can be under way at a time
  LockoutThreshold \* LOGIN_LOCKOUT_THRESHOLD

ASSUME AccountsAssumption == /\ IsFiniteSet(Slots)
                             /\ LockoutThreshold \in Nat \ {0}

VARIABLES
  users,   \* the User rows with this email
  fails,   \* the value of loginfail:<email>, 0 when there is no such key
  expires, \* the key has a time to live
  pc       \* where the request in each slot is

vars == <<users, fails, expires, pc>>

At(s, step) == pc[s] = step
Goto(s, step) == pc' = [pc EXCEPT ![s] = step]

Init == /\ users = 0 /\ fails = 0 /\ expires = FALSE
        /\ pc = [s \in Slots |-> "idle"]

(* POST /auth/signup: look for the email, hash the password, insert. *)
SignupRead(s) ==
  /\ At(s, "idle")
  /\ users = 0
  /\ Goto(s, "create")
  /\ UNCHANGED <<users, fails, expires>>

(* Faulty: trusts the findUnique of before the hash. *)
SignupCreateUnchecked(s) ==
  /\ At(s, "create")
  /\ users' = users + 1
  /\ Goto(s, "idle")
  /\ UNCHANGED <<fails, expires>>

(* The unique index refuses a second row: the reply is 500. *)
SignupCreate(s) ==
  /\ At(s, "create")
  /\ users' = IF users = 0 THEN 1 ELSE users
  /\ Goto(s, "idle")
  /\ UNCHANGED <<fails, expires>>

(* Faulty: one failure too late. *)
LoginReadLate(s) ==
  /\ At(s, "idle")
  /\ fails <= LockoutThreshold
  /\ Goto(s, "verify")
  /\ UNCHANGED <<users, fails, expires>>

(* POST /auth/login: 429 once the counter has reached the threshold. *)
LoginRead(s) ==
  /\ At(s, "idle")
  /\ fails < LockoutThreshold
  /\ Goto(s, "verify")
  /\ UNCHANGED <<users, fails, expires>>

(* verifyPassword, which only an existing account passes. *)
Verify(s) ==
  /\ At(s, "verify")
  /\ \/ Goto(s, "count")
     \/ users > 0 /\ Goto(s, "clear")
  /\ UNCHANGED <<users, fails, expires>>

(* Faulty: the increment without the time to live. *)
CountFailureOnly(s) ==
  /\ At(s, "count")
  /\ fails' = fails + 1
  /\ Goto(s, "idle")
  /\ UNCHANGED <<users, expires>>

(* multi().incr().expire(): both or neither, and the window starts anew. *)
CountFailure(s) ==
  /\ At(s, "count")
  /\ fails' = fails + 1 /\ expires' = TRUE
  /\ Goto(s, "idle")
  /\ UNCHANGED users

(* Faulty: takes one failure back instead of deleting the counter. *)
ClearOne(s) ==
  /\ At(s, "clear")
  /\ fails' = fails - 1 /\ expires' = (fails > 1)
  /\ Goto(s, "idle")
  /\ UNCHANGED users

(* A success deletes the counter, whoever's failures it holds. *)
ClearFailures(s) ==
  /\ At(s, "clear")
  /\ fails' = 0 /\ expires' = FALSE
  /\ Goto(s, "idle")
  /\ UNCHANGED users

(* LOGIN_LOCKOUT_WINDOW_SECONDS have passed since the last failure. *)
WindowEnds ==
  /\ expires
  /\ fails' = 0 /\ expires' = FALSE
  /\ UNCHANGED <<users, pc>>

Handle(s) == SignupCreate(s) \/ Verify(s) \/ CountFailure(s) \/ ClearFailures(s)

Next == \/ \E s \in Slots : SignupRead(s) \/ LoginRead(s) \/ Handle(s)
        \/ WindowEnds

Spec == Init /\ [][Next]_vars

(* Requests under way are served, and time passes. *)
FairSpec == Spec /\ WF_vars(WindowEnds) /\ \A s \in Slots : WF_vars(Handle(s))

-----------------------------------------------------------------------------
Steps == {"idle", "create", "verify", "count", "clear"}

(* A key in Redis holds a count of failures; every slot is at a step of a  *)
(* route.                                                                  *)
AccountsTypeOK == /\ users \in Nat /\ fails \in Nat /\ expires \in BOOLEAN
                  /\ pc \in [Slots -> Steps]

(* Two signups may both find the address free before either inserts: one   *)
(* account comes of it.                                                    *)
OneAccountPerEmail == users <= 1

(* The counter is read before the slow verification and incremented after  *)
(* it, so parallel logins slip past the threshold; but no more of them     *)
(* than can be under way at once, however logins, successes and expiring   *)
(* windows interleave.                                                     *)
Guessing == {s \in Slots : pc[s] \in {"verify", "count"}}
LockHolds == fails + Cardinality(Guessing)
               <= LockoutThreshold - 1 + Cardinality(Slots)

(* A locked address opens again by itself: no failure leaves a counter     *)
(* without a time to live.                                                 *)
LockEnds == fails >= LockoutThreshold ~> fails < LockoutThreshold
=============================================================================
