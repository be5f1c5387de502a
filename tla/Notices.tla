------------------------------ MODULE Notices ------------------------------
(***************************************************************************)
(* The push notifications of joins and claims, laid over GroupOrder: what  *)
(* a join remembers of the status it found, the calls of notify() a        *)
(* handler makes on its way out, and the jobs the push worker takes from   *)
(* the queue.  Delivery is best effort: an enqueue that fails is logged,   *)
(* a failed job is not tried again, and a user may have no phone           *)
(* registered, so past notify() a notice may be lost at every step.        *)
(* Requests do not die here, and no gateway is set up: both only matter    *)
(* to what GroupOrder alone is checked for.                                *)
(***************************************************************************)
EXTENDS GroupOrderProperties

VARIABLES
  was,         \* the status a create or join found, for each request
  announcing,  \* a join is about to read whom to tell of the crossing
  called,      \* notify() was called: <<user, title>>
  jobs         \* the jobs of the push queue

notices == <<was, announcing, called, jobs>>
noticeVars == <<vars, notices>>

Title == {"Minimum order reached!", "Pay your share"}

NoticesInit == /\ Init
               /\ was = [r \in Reqs |-> "ABSENT"]
               /\ announcing = FALSE /\ called = {} /\ jobs = {}

(* notify(): the handler does not wait for the enqueue, which may fail. *)
Notify(users, title) ==
  /\ called' = called \cup (users \X {title})
  /\ \E kept \in SUBSET (users \X {title}) : jobs' = jobs \cup kept

(* `const wasActive = group.status`; a create finds no group. *)
Remember(r) ==
  was' = [was EXCEPT ![r] = IF req[r] = Idle THEN status
                            ELSE IF req'[r] = Idle THEN "ABSENT" ELSE @]

(* Faulty: trusts the status in the row to be the one it changed. *)
OwnWriteOnly(r) == At(r, "recWrite") /\ was[r] = "OPEN"

(* The join ends with a row that is THRESHOLD_MET and was not before. *)
SawCrossing(r) ==
  /\ InStep(r, {"recItems", "recWrite"}) /\ req'[r] = Idle
  /\ was[r] = "OPEN"
  /\ req[r].seen = "THRESHOLD_MET"

Arriving(r) == Arrive(r) /\ Remember(r) /\ UNCHANGED <<announcing, called, jobs>>

(* Faulty: tells the members before the transaction that bills them. *)
TellsEarly(r) == At(r, "claimTx")

(* The claim's loop over its splits runs after its last awaited write. *)
TellsPayers(r) == At(r, "claimAudit")

Serving(r) ==
  /\ Serve(r) /\ Remember(r)
  /\ announcing' = (announcing \/ SawCrossing(r))
  /\ IF TellsPayers(r) THEN Notify(req[r].who, "Pay your share")
                       ELSE UNCHANGED <<called, jobs>>

(* notifyGroupMembers *)
Announce ==
  /\ announcing
  /\ announcing' = FALSE
  /\ Notify(members, "Minimum order reached!")
  /\ UNCHANGED <<vars, was>>

(* The push worker: sends to the user's phones, if any, or fails for good. *)
PushJob ==
  /\ \E job \in jobs : jobs' = jobs \ {job}
  /\ UNCHANGED <<vars, was, announcing, called>>

Sweeping == SweepRead \/ SweepWrite

NoticesNext ==
  \/ \E r \in Reqs : Arriving(r) \/ Serving(r)
  \/ Announce \/ PushJob
  \/ (Deadline \/ Sweeping) /\ UNCHANGED notices

NoticesSpec == NoticesInit /\ [][NoticesNext]_noticeVars

(* The event loop serves what it accepted, time passes, and BullMQ repeats *)
(* the sweep every 15 s and works off its queue.                           *)
NoticesFairness ==
  /\ \A r \in Reqs : WF_noticeVars(Serving(r))
  /\ WF_noticeVars(Announce) /\ WF_noticeVars(PushJob)
  /\ WF_noticeVars(Deadline /\ UNCHANGED notices)
  /\ WF_noticeVars(SweepRead /\ UNCHANGED notices)
  /\ WF_noticeVars(SweepWrite /\ UNCHANGED notices)

NoticesFairSpec == NoticesSpec /\ NoticesFairness

-----------------------------------------------------------------------------
Told(title) == {u \in Users : <<u, title>> \in called}
Crossed == announcing \/ Told("Minimum order reached!") # {}
Joining(r) == was[r] = "OPEN" /\ InStep(r, Recomputing)

(* addItemsAndRecompute: when joins together reach the minimum in time,    *)
(* the members are told, or a join that found the group OPEN has still to  *)
(* see it, whoever of the racing requests wrote the new status (a create   *)
(* may, and tells nobody).  A dispute raised meanwhile stops the joins'     *)
(* recomputes, and with them the announcement.                             *)
CrossingIsAnnounced ==
  /\ status = "THRESHOLD_MET" /\ ~due /\ raised = 0
  /\ \A a \in Amounts : a < Threshold
  => Crossed \/ \E r \in Reqs : Joining(r)

(* claim-coordinator: those who are asked to pay are those who owe, also   *)
(* when two claims race and one is rolled back, and nobody is left out     *)
(* once the claim is done.                                                 *)
PayersAreTold ==
  /\ Told("Pay your share") \subseteq Contributors
  /\ Claimed /\ (\A r \in Reqs : ~At(r, "claimAudit"))
       => Told("Pay your share") = Contributors
=============================================================================
