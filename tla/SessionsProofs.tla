--------------------------- MODULE SessionsProofs ---------------------------
(***************************************************************************)
(* Proofs about Sessions, for any number of devices, concurrent calls and  *)
(* tokens, with lost answers and killed apps.                              *)
(***************************************************************************)
EXTENDS Sessions, TLAPS

(* A call that has something to present to the server. *)
Presenting(c) ==
  call[c].pc \in {"find", "burn", "alarm", "lapse", "rotate", "logout"}

(* Whoever no longer waits for an answer belongs to a device that missed it. *)
GoneIsCut == \A c \in Slots : call[c].gone => Device(c) \in cut

(* No token is in the hands of two devices. *)
TokensArePrivate ==
  /\ \A b, c \in Slots : call[b].token = call[c].token /\ call[c].token # 0
                           => Device(b) = Device(c)
  /\ \A c \in Slots, d \in Devices :
       call[c].token = refreshKey[d] /\ call[c].token # 0 => Device(c) = d
  /\ \A d, e \in Devices :
       refreshKey[d] = refreshKey[e] /\ refreshKey[d] # 0 => d = e

(* A token about to be saved is known to nobody else and was never used. *)
SavedIsFresh ==
  \A c \in Slots : Saving(c) =>
    /\ call[c].token # 0 /\ call[c].token \notin replaced
    /\ \A b \in Slots : call[b].token = call[c].token => b = c
    /\ \A d \in Devices : refreshKey[d] # call[c].token

PresentedExists == \A c \in Slots : Presenting(c) => call[c].token # 0

SInv == /\ GoneIsCut /\ TokensArePrivate /\ SavedIsFresh /\ PresentedExists
        /\ KeptIsCurrent

-----------------------------------------------------------------------------
(* A slot belongs to a device. *)
LEMMA SlotDevice == ASSUME NEW c \in Slots PROVE Device(c) \in Devices
  BY DEF Slots, Device

(* Calls are made of typed parts. *)
LEMMA CallParts ==
  ASSUME SessionsTypeOK, NEW c \in Slots
  PROVE  /\ call[c] \in Call /\ call[c].gone \in BOOLEAN
         /\ call[c].kind \in Kind
         /\ call[c].bearer \in Tokens \cup {0}
         /\ call[c].token \in Tokens \cup {0}
  BY DEF SessionsTypeOK, Call

(* The free slot is typed. *)
LEMMA IdleCall == Idle \in Call
  BY DEF Idle, Call, Kind

-----------------------------------------------------------------------------
(* What the helpers do to a slot: field by field. *)

Others(c) == \A b \in Slots \ {c} : call'[b] = call[b]
Fields(q, pc, kind, bearer, token, gone) ==
  /\ q.pc = pc /\ q.kind = kind /\ q.bearer = bearer /\ q.token = token
  /\ q.gone = gone
Cleared(q) == q.bearer = 0 /\ q.token = 0 /\ q.gone = FALSE

(* Becomes touches one slot. *)
LEMMA BecomesStep ==
  ASSUME SessionsTypeOK, NEW c \in Slots, NEW q \in Call, Becomes(c, q)
  PROVE  call' \in [Slots -> Call] /\ call'[c] = q /\ Others(c)
  BY DEF SessionsTypeOK, Becomes, Others

(* A call that ends forgets its tokens. *)
LEMMA IdleStep ==
  ASSUME SessionsTypeOK, NEW c \in Slots, Becomes(c, Idle)
  PROVE  /\ call' \in [Slots -> Call] /\ Others(c)
         /\ call'[c].pc = "idle" /\ Cleared(call'[c])
<1>1. call'[c] = Idle /\ call' \in [Slots -> Call] /\ Others(c)
  BY BecomesStep, IdleCall
<1> QED BY <1>1 DEF Idle, Cleared

(* So does a call that goes on to clear the store. *)
LEMMA ClearingCall ==
  ASSUME NEW kind \in Kind
  PROVE  /\ Clearing(kind) \in Call /\ Clearing(kind).pc = "clearAccess"
         /\ Cleared(Clearing(kind))
  BY DEF Clearing, Idle, Call, Local, Kind, Cleared

(* A failed call ends, or goes on to clear the store. *)
LEMMA FailStep ==
  ASSUME SessionsTypeOK, NEW c \in Slots, Fail(c)
  PROVE  /\ call' \in [Slots -> Call] /\ Others(c)
         /\ call'[c].pc \in {"idle", "clearAccess"} /\ Cleared(call'[c])
<1>1. CASE call[c].kind = "me" /\ ~call[c].gone
  <2>1. Becomes(c, Clearing("me")) BY <1>1 DEF Fail
  <2> QED BY <2>1, BecomesStep, ClearingCall DEF Kind
<1>2. CASE ~(call[c].kind = "me" /\ ~call[c].gone)
  <2>1. Becomes(c, Idle) BY <1>2 DEF Fail
  <2> QED BY <2>1, IdleStep
<1> QED BY <1>1, <1>2

(* Goto keeps everything but the program counter. *)
LEMMA GotoStep ==
  ASSUME SessionsTypeOK, NEW c \in Slots, NEW pc \in Local \cup Remote,
         Goto(c, pc)
  PROVE  /\ call' \in [Slots -> Call] /\ Others(c)
         /\ Fields(call'[c], pc, call[c].kind, call[c].bearer, call[c].token,
                   call[c].gone)
<1>1. [call[c] EXCEPT !.pc = pc] \in Call
  BY CallParts DEF Call
<1>2. call' \in [Slots -> Call] /\ Others(c)
      /\ call'[c] = [call[c] EXCEPT !.pc = pc]
  BY <1>1, BecomesStep DEF Goto
<1> QED BY <1>2, CallParts DEF Call, Fields

(* An answer reaches the client only if it still waits. *)
LEMMA AnswerStep ==
  ASSUME SessionsTypeOK, NEW c \in Slots, NEW pc \in Local \cup Remote,
         NEW token \in Nat, Answer(c, pc, token)
  PROVE  /\ call' \in [Slots -> Call] /\ Others(c)
         /\ IF call[c].gone
            THEN call'[c].pc = "idle" /\ Cleared(call'[c])
            ELSE Fields(call'[c], pc, call[c].kind, call[c].bearer, token,
                        FALSE)
<1>1. CASE call[c].gone
  <2>1. Becomes(c, Idle) BY <1>1 DEF Answer
  <2> QED BY <1>1, <2>1, IdleStep
<1>2. CASE ~call[c].gone
  <2>1. [call[c] EXCEPT !.pc = pc, !.token = token] \in Call
    BY CallParts DEF Call
  <2>2. call' \in [Slots -> Call] /\ Others(c)
        /\ call'[c] = [call[c] EXCEPT !.pc = pc, !.token = token]
    BY <1>2, <2>1, BecomesStep DEF Answer
  <2> QED BY <1>2, <2>2, CallParts DEF Call, Fields
<1> QED BY <1>1, <1>2, CallParts

(* A call starts in a free slot with what it was given. *)
LEMMA StartStep ==
  ASSUME SessionsTypeOK, NEW c \in Slots, NEW pc \in Local \cup Remote,
         NEW kind \in Kind, NEW bearer \in Nat, NEW token \in Nat,
         Start(c, pc, kind, bearer, token)
  PROVE  /\ call[c] = Idle
         /\ call' \in [Slots -> Call] /\ Others(c)
         /\ Fields(call'[c], pc, kind, bearer, token, FALSE)
<1> DEFINE q == [Idle EXCEPT !.pc = pc, !.kind = kind, !.bearer = bearer,
                             !.token = token]
<1>1. q \in Call /\ Fields(q, pc, kind, bearer, token, FALSE)
  BY DEF Idle, Call, Fields
<1>2. call' \in [Slots -> Call] /\ Others(c) /\ call'[c] = q
  BY <1>1, BecomesStep DEF Start
<1> QED BY <1>1, <1>2 DEF Start, Free

-----------------------------------------------------------------------------
(* The types *)

(* The calls' part of the type invariant, after a step of one slot. *)
CallsTyped ==
  /\ call \in [Slots -> Call]
  /\ \A c \in Slots : {call[c].bearer, call[c].token} \subseteq Tokens \cup {0}

(* A step of one slot with issued tokens keeps all calls typed. *)
LEMMA SlotTyped ==
  ASSUME SessionsTypeOK, NEW c \in Slots, call' \in [Slots -> Call], Others(c),
         issued' \in {issued, issued + 1},
         call'[c].bearer \in Tokens' \cup {0},
         call'[c].token \in Tokens' \cup {0}
  PROVE  CallsTyped'
<1>1. Tokens \subseteq Tokens'
  BY DEF SessionsTypeOK, Tokens
<1>2. ASSUME NEW b \in Slots
      PROVE  {call'[b].bearer, call'[b].token} \subseteq Tokens' \cup {0}
  <2>1. CASE b = c BY <2>1
  <2>2. CASE b # c BY <1>1, <2>2, CallParts DEF Others
  <2> QED BY <2>1, <2>2
<1> QED BY <1>2 DEF CallsTyped

(* A fresh installation is typed. *)
LEMMA InitTyped == Init => SessionsTypeOK
<1> SUFFICES ASSUME Init PROVE SessionsTypeOK
  OBVIOUS
<1>1. \A c \in Slots : call[c] = Idle BY DEF Init
<1>2. call \in [Slots -> Call] BY IdleCall DEF Init
<1>3. \A c \in Slots : {call[c].bearer, call[c].token} \subseteq Tokens \cup {0}
  BY <1>1 DEF Idle
<1> QED BY <1>2, <1>3 DEF Init, SessionsTypeOK, Tokens

(* Starting a call keeps the types. *)
LEMMA StartTyped ==
  ASSUME SessionsTypeOK, NEW c \in Slots, Begin(c)
  PROVE  SessionsTypeOK'
<1>0. /\ Device(c) \in Devices
      /\ accessKey[Device(c)] \in Tokens \cup {0}
      /\ refreshKey[Device(c)] \in Tokens \cup {0}
      /\ Tokens \cup {0} \subseteq Nat
  BY SlotDevice DEF SessionsTypeOK, Tokens
<1>1. /\ UNCHANGED <<issued, revoked, replaced, lapsed, stale, store, alarms, cut>>
      /\ Tokens' = Tokens
  BY DEF Begin, StartApp, StartCall, StartLogin, StartLogout, rows, Tokens
<1>2. app' \in [Devices -> {"loading", "init", "in", "out"}]
  BY <1>0 DEF Begin, StartApp, StartCall, StartLogin, StartLogout,
              SessionsTypeOK
<1>3. CASE UNCHANGED call
  BY <1>1, <1>2, <1>3 DEF SessionsTypeOK, store
<1>4. ASSUME NEW pc \in Local \cup Remote, NEW kind \in Kind,
             NEW bearer \in Tokens \cup {0}, NEW token \in Tokens \cup {0},
             Start(c, pc, kind, bearer, token)
      PROVE  SessionsTypeOK'
  <2>1. CallsTyped'
    <3>1. /\ call' \in [Slots -> Call] /\ Others(c)
          /\ call'[c].bearer = bearer /\ call'[c].token = token
      BY <1>0, <1>4, StartStep DEF Fields
    <3> QED BY <1>1, <3>1, SlotTyped
  <2> QED BY <1>1, <1>2, <2>1 DEF SessionsTypeOK, CallsTyped, store
<1>5. ASSUME Becomes(c, Clearing("logout")) PROVE SessionsTypeOK'
  <2>1. "logout" \in Kind BY DEF Kind
  <2>2. CallsTyped'
    BY <1>1, <1>5, <2>1, ClearingCall, BecomesStep, SlotTyped DEF Cleared
  <2> QED BY <1>1, <1>2, <2>2 DEF SessionsTypeOK, CallsTyped, store
<1>6. CASE StartApp(c)
  <2>1. "served" \in Remote /\ "me" \in Kind BY DEF Remote, Kind
  <2> QED BY <1>0, <1>3, <1>4, <1>6, <2>1 DEF StartApp
<1>7. CASE StartCall(c)
  <2>1. "served" \in Remote /\ "api" \in Kind BY DEF Remote, Kind
  <2> QED BY <1>0, <1>4, <1>7, <2>1 DEF StartCall
<1>8. CASE StartLogin(c)
  <2>1. "login" \in Remote /\ "login" \in Kind BY DEF Remote, Kind
  <2> QED BY <1>4, <1>8, <2>1 DEF StartLogin
<1>9. CASE StartLogout(c)
  <2>1. "logout" \in Remote /\ "logout" \in Kind BY DEF Remote, Kind
  <2> QED BY <1>0, <1>4, <1>5, <1>9, <2>1 DEF StartLogout
<1> QED BY <1>6, <1>7, <1>8, <1>9 DEF Begin

(* A step of a call under way: what changes besides its slot is typed. *)
LEMMA ProceedTyped ==
  ASSUME SessionsTypeOK, SInv, NEW c \in Slots, Proceed(c)
  PROVE  SessionsTypeOK'
<1>0. /\ Device(c) \in Devices
      /\ accessKey[Device(c)] \in Tokens \cup {0}
      /\ refreshKey[Device(c)] \in Tokens \cup {0}
      /\ Tokens \cup {0} \subseteq Nat
      /\ issued \in Nat
  BY SlotDevice DEF SessionsTypeOK, Tokens
<1>p. /\ Presenting(c) => call[c].token \in Tokens
      /\ Saving(c) => call[c].token \in Tokens
  BY CallParts DEF SInv, PresentedExists, SavedIsFresh
(* What the slot may become, when nothing was issued. *)
<1>i. ASSUME Becomes(c, Idle), UNCHANGED issued PROVE CallsTyped'
  BY <1>i, IdleStep, SlotTyped DEF Cleared
<1>f. ASSUME Fail(c), UNCHANGED issued PROVE CallsTyped'
  BY <1>f, FailStep, SlotTyped DEF Cleared
<1>g. ASSUME NEW pc \in Local \cup Remote, Goto(c, pc), UNCHANGED issued
      PROVE CallsTyped'
  <2>1. Tokens' = Tokens BY <1>g DEF Tokens
  <2>2. /\ call' \in [Slots -> Call] /\ Others(c)
        /\ call'[c].bearer = call[c].bearer /\ call'[c].token = call[c].token
    BY <1>g, GotoStep DEF Fields
  <2> QED BY <1>g, <2>1, <2>2, CallParts, SlotTyped
<1>a. ASSUME NEW pc \in Local \cup Remote, NEW token \in Nat,
             Answer(c, pc, token), issued' \in {issued, issued + 1},
             token \in Tokens' \cup {0}
      PROVE CallsTyped'
  <2>1. Tokens \cup {0} \subseteq Tokens' \cup {0} BY <1>0, <1>a DEF Tokens
  <2>2. /\ call' \in [Slots -> Call] /\ Others(c)
        /\ \/ call'[c].bearer = 0 /\ call'[c].token = 0
           \/ call'[c].bearer = call[c].bearer /\ call'[c].token = token
    BY <1>a, AnswerStep DEF Fields, Cleared
  <2> QED BY <1>a, <2>1, <2>2, CallParts, SlotTyped
<1>pc. /\ {"readRefresh", "saveAccess", "saveRefresh", "resend",
            "clearAccess", "clearRefresh"} \subseteq Local \cup Remote
       /\ {"find", "burn", "alarm", "lapse", "rotate", "again"}
            \subseteq Local \cup Remote
  BY DEF Local, Remote
<1>1. CASE Served(c)
  <2>1. CallsTyped' BY <1>1, <1>i DEF Served, rows
  <2> QED BY <1>0, <1>1, <2>1
        DEF Served, SessionsTypeOK, CallsTyped, Tokens, rows, store
<1>2. CASE Unauthorized(c)
  <2>1. CallsTyped' BY <1>0, <1>2, <1>f, <1>a, <1>pc DEF Unauthorized, rows
  <2> QED BY <1>2, <2>1
        DEF Unauthorized, SessionsTypeOK, CallsTyped, Tokens, rows, store
<1>3. CASE Resend(c)
  <2>1. [call[c] EXCEPT !.pc = "again", !.bearer = accessKey[Device(c)]] \in Call
    BY <1>0, <1>pc, CallParts DEF Call
  <2>2. /\ call' \in [Slots -> Call] /\ Others(c)
        /\ call'[c] = [call[c] EXCEPT !.pc = "again",
                                      !.bearer = accessKey[Device(c)]]
    BY <1>3, <2>1, BecomesStep DEF Resend
  <2>3. /\ call'[c].token = call[c].token
        /\ call'[c].bearer = accessKey[Device(c)]
    BY <2>2, CallParts DEF Call
  <2>4. CallsTyped'
    <3>1. issued' = issued /\ Tokens' = Tokens
      BY <1>3 DEF Resend, rows, Tokens
    <3> QED BY <1>0, <2>2, <2>3, <3>1, CallParts, SlotTyped
  <2> QED BY <1>3, <2>4
        DEF Resend, SessionsTypeOK, CallsTyped, Tokens, rows, store
<1>4. CASE ReadRefreshToken(c)
  <2>1. CASE Fail(c)
    <3>1. CallsTyped' BY <1>4, <1>f, <2>1 DEF ReadRefreshToken, rows
    <3> QED BY <1>4, <3>1
          DEF ReadRefreshToken, SessionsTypeOK, CallsTyped, Tokens, rows, store
  <2>2. CASE Becomes(c, [call[c] EXCEPT !.pc = "find",
                                        !.token = refreshKey[Device(c)]])
    <3>1. [call[c] EXCEPT !.pc = "find", !.token = refreshKey[Device(c)]] \in Call
      BY <1>0, <1>pc, CallParts DEF Call
    <3>2. /\ call' \in [Slots -> Call] /\ Others(c)
          /\ call'[c] = [call[c] EXCEPT !.pc = "find",
                                        !.token = refreshKey[Device(c)]]
      BY <2>2, <3>1, BecomesStep
    <3>3. /\ call'[c].bearer = call[c].bearer
          /\ call'[c].token = refreshKey[Device(c)]
      BY <3>2, CallParts DEF Call
    <3>4. CallsTyped'
      <4>1. issued' = issued /\ Tokens' = Tokens
        BY <1>4 DEF ReadRefreshToken, rows, Tokens
      <4> QED BY <1>0, <3>2, <3>3, <4>1, CallParts, SlotTyped
    <3> QED BY <1>4, <3>4
          DEF ReadRefreshToken, SessionsTypeOK, CallsTyped, Tokens, rows, store
  <2> QED BY <1>4, <2>1, <2>2 DEF ReadRefreshToken
<1>5. CASE FindToken(c)
  <2>1. CallsTyped' BY <1>5, <1>g, <1>pc DEF FindToken, rows
  <2> QED BY <1>5, <2>1
        DEF FindToken, SessionsTypeOK, CallsTyped, Tokens, rows, store
<1>6. CASE Burn(c)
  <2>1. CallsTyped' BY <1>6, <1>g, <1>pc DEF Burn
  <2> QED BY <1>6, <2>1
        DEF Burn, RevokeAll, SessionsTypeOK, CallsTyped, Tokens, store
<1>7. CASE Alarm(c)
  <2>1. CallsTyped' BY <1>7, <1>f DEF Alarm, rows
  <2> QED BY <1>7, <1>p, <2>1
        DEF Alarm, At, Presenting, SessionsTypeOK, CallsTyped, Tokens, rows,
            store
<1>8. CASE RevokeLapsed(c)
  <2>1. CallsTyped' BY <1>8, <1>f DEF RevokeLapsed
  <2> QED BY <1>8, <1>p, <2>1
        DEF RevokeLapsed, At, Presenting, SessionsTypeOK, CallsTyped, Tokens,
            store
<1>9. CASE Rotate(c)
  <2>1. issued' = issued + 1 /\ issued + 1 \in Nat /\ issued + 1 \in Tokens'
        /\ Tokens \subseteq Tokens'
    BY <1>0, <1>9 DEF Rotate, Tokens
  <2>2. CallsTyped' BY <1>9, <1>a, <1>pc, <2>1 DEF Rotate
  <2> QED BY <1>9, <1>p, <2>1, <2>2
        DEF Rotate, At, Presenting, SessionsTypeOK, CallsTyped, store
<1>10. CASE SaveAccess(c)
  <2>1. CallsTyped' BY <1>10, <1>g, <1>pc DEF SaveAccess, rows
  <2> QED BY <1>10, <1>p, <2>1
        DEF SaveAccess, At, Saving, SessionsTypeOK, CallsTyped, Tokens, rows
<1>11. CASE SaveRefresh(c)
  <2>1. CallsTyped'
    BY <1>11, <1>g, <1>i, <1>pc DEF SaveRefresh, LoggedIn, rows
  <2> QED BY <1>0, <1>11, <1>p, <2>1
        DEF SaveRefresh, LoggedIn, At, Saving, SessionsTypeOK, CallsTyped,
            Tokens, rows
<1>12. CASE Login(c)
  <2>1. issued' = issued + 1 /\ issued + 1 \in Nat /\ issued + 1 \in Tokens'
        /\ Tokens \subseteq Tokens'
    BY <1>0, <1>12 DEF Login, Tokens
  <2>2. CallsTyped' BY <1>12, <1>a, <1>pc, <2>1 DEF Login
  <2> QED BY <1>12, <2>1, <2>2
        DEF Login, SessionsTypeOK, CallsTyped, store
<1>13. CASE RefuseLogin(c)
  <2>0. issued' = issued /\ Tokens' = Tokens
    BY <1>13 DEF RefuseLogin, rows, Tokens
  <2>1. CASE Becomes(c, Idle)
    <3>1. CallsTyped' BY <1>i, <2>0, <2>1
    <3> QED BY <1>13, <2>0, <3>1
          DEF RefuseLogin, SessionsTypeOK, CallsTyped, rows, store
  <2>2. CASE Becomes(c, [call[c] EXCEPT !.pc = "readRefresh",
                                        !.kind = "relogin"])
    <3>1. [call[c] EXCEPT !.pc = "readRefresh", !.kind = "relogin"] \in Call
      BY <1>pc, CallParts DEF Call, Kind
    <3>2. /\ call' \in [Slots -> Call] /\ Others(c)
          /\ call'[c] = [call[c] EXCEPT !.pc = "readRefresh",
                                        !.kind = "relogin"]
      BY <2>2, <3>1, BecomesStep
    <3>3. call'[c].bearer = call[c].bearer /\ call'[c].token = call[c].token
      BY <3>2, CallParts DEF Call
    <3>4. CallsTyped' BY <2>0, <3>2, <3>3, CallParts, SlotTyped
    <3> QED BY <1>13, <2>0, <3>4
          DEF RefuseLogin, SessionsTypeOK, CallsTyped, rows, store
  <2> QED BY <1>13, <2>1, <2>2, CallParts DEF RefuseLogin
<1>14. CASE Logout(c)
  <2>0. issued' = issued /\ Tokens' = Tokens
    BY <1>14 DEF Logout, Tokens
  <2>1. CallsTyped' BY <1>0, <1>14, <1>a, <1>pc, <2>0 DEF Logout
  <2> QED BY <1>14, <1>p, <2>0, <2>1
        DEF Logout, At, Presenting, SessionsTypeOK, CallsTyped, store
<1>15. CASE ClearAccess(c)
  <2>1. CallsTyped' BY <1>15, <1>g, <1>pc DEF ClearAccess, rows
  <2> QED BY <1>15, <2>1
        DEF ClearAccess, SessionsTypeOK, CallsTyped, Tokens, rows
<1>16. CASE ClearRefresh(c)
  <2>1. CallsTyped' BY <1>16, <1>i DEF ClearRefresh, rows
  <2> QED BY <1>0, <1>16, <2>1
        DEF ClearRefresh, SessionsTypeOK, CallsTyped, Tokens, rows
<1> QED BY <1>1, <1>2, <1>3, <1>4, <1>5, <1>6, <1>7, <1>8, <1>9, <1>10,
           <1>11, <1>12, <1>13, <1>14, <1>15, <1>16 DEF Proceed

(* Lost answers, killed apps and time. *)
LEMMA WorldTyped ==
  ASSUME SessionsTypeOK,
         \/ \E c \in Slots : Drop(c)
         \/ \E d \in Devices : Kill(d)
         \/ LogoutEverywhere \/ ExpireAccess \/ ExpireRefresh
         \/ UNCHANGED vars
  PROVE  SessionsTypeOK'
<1>1. ASSUME NEW c \in Slots, Drop(c) PROVE SessionsTypeOK'
  <2>0. /\ Device(c) \in Devices /\ issued' = issued /\ Tokens' = Tokens
        /\ 0 \in Tokens \cup {0}
    BY <1>1, SlotDevice DEF Drop, rows, Tokens
  <2>1. PICK left \in {Idle, [call[c] EXCEPT !.gone = TRUE]} :
          \/ Becomes(c, left)
          \/ /\ call[c].kind \in {"me", "logout"}
             /\ \E b \in Slots :
                  call' = [call EXCEPT ![c] = left,
                                       ![b] = Clearing(call[c].kind)]
    BY <1>1 DEF Drop
  <2>2. left \in Call /\ {left.bearer, left.token} \subseteq Tokens \cup {0}
    <3>1. CASE left = Idle BY <3>1, IdleCall DEF Idle
    <3>2. CASE left = [call[c] EXCEPT !.gone = TRUE]
      BY <3>2, CallParts DEF Call
    <3> QED BY <3>1, <3>2
  <2>3. CallsTyped'
    <3>1. CASE Becomes(c, left)
      BY <2>0, <2>2, <3>1, BecomesStep, SlotTyped
    <3>2. ASSUME call[c].kind \in {"me", "logout"}, NEW b \in Slots,
                 call' = [call EXCEPT ![c] = left,
                                      ![b] = Clearing(call[c].kind)]
          PROVE  CallsTyped'
      <4>1. /\ Clearing(call[c].kind) \in Call
            /\ Clearing(call[c].kind).bearer = 0
            /\ Clearing(call[c].kind).token = 0
        BY CallParts, ClearingCall DEF Cleared
      <4>2. /\ call' \in [Slots -> Call]
            /\ \A a \in Slots : \/ call'[a] = call[a] \/ call'[a] = left
                                \/ call'[a] = Clearing(call[c].kind)
        BY <2>2, <3>2, <4>1 DEF SessionsTypeOK
      <4> QED BY <2>0, <2>2, <4>1, <4>2, CallParts DEF CallsTyped
    <3> QED BY <2>1, <3>1, <3>2
  <2> QED BY <1>1, <2>0, <2>3
        DEF Drop, SessionsTypeOK, CallsTyped, rows, store
<1>2. ASSUME NEW d \in Devices, Kill(d) PROVE SessionsTypeOK'
  <2>0. issued' = issued /\ Tokens' = Tokens
    BY <1>2 DEF Kill, rows, Tokens
  <2>1. ASSUME NEW c \in Slots
        PROVE  /\ call'[c] \in Call
               /\ {call'[c].bearer, call'[c].token} \subseteq Tokens \cup {0}
    <3>1. \/ call'[c] = call[c] \/ call'[c] = Idle
          \/ call'[c] = [call[c] EXCEPT !.gone = TRUE]
      BY <1>2 DEF Kill
    <3>2. CASE call'[c] = call[c] BY <3>2, CallParts
    <3>3. CASE call'[c] = Idle BY <3>3, IdleCall DEF Idle
    <3>4. CASE call'[c] = [call[c] EXCEPT !.gone = TRUE]
      BY <3>4, CallParts DEF Call
    <3> QED BY <3>1, <3>2, <3>3, <3>4
  <2>2. call' = [c \in Slots |-> call'[c]]
    BY <1>2 DEF Kill
  <2>3. CallsTyped' BY <2>0, <2>1, <2>2 DEF CallsTyped
  <2> QED BY <1>2, <2>0, <2>3
        DEF Kill, SessionsTypeOK, CallsTyped, rows, store
<1>3. CASE LogoutEverywhere
  BY <1>3 DEF LogoutEverywhere, RevokeAll, SessionsTypeOK, Tokens, store
<1>4. CASE ExpireAccess
  BY <1>4 DEF ExpireAccess, SessionsTypeOK, Tokens, rows, store
<1>5. CASE ExpireRefresh
  BY <1>5 DEF ExpireRefresh, SessionsTypeOK, Tokens, store
<1>6. CASE UNCHANGED vars
  BY <1>6 DEF vars, SessionsTypeOK, Tokens, rows, store
<1> QED BY <1>1, <1>2, <1>3, <1>4, <1>5, <1>6

-----------------------------------------------------------------------------
(* The tokens *)

(* Before the first login nobody has a token. *)
LEMMA InitInv == Init => SInv
<1> SUFFICES ASSUME Init PROVE SInv
  OBVIOUS
<1>1. \A c \in Slots : /\ call[c].pc = "idle" /\ call[c].token = 0
                       /\ call[c].gone = FALSE
  BY DEF Init, Idle
<1> QED BY <1>1 DEF Init, SInv, GoneIsCut, TokensArePrivate, SavedIsFresh,
                    PresentedExists, KeptIsCurrent, Saving, Presenting

(* Most steps hand no token to anyone: a call keeps the one it has or      *)
(* drops it, a device keeps its refresh token or clears it, and whoever is *)
(* about to save one stays so unless the device is cut off.                *)
Quiet ==
  /\ \A c \in Slots :
       /\ call'[c].token \in {0, call[c].token}
       /\ Saving(c)' => Saving(c) /\ call'[c].token = call[c].token
       /\ Saving(c) => Saving(c)' \/ Device(c) \in cut'
       /\ call'[c].gone => Device(c) \in cut'
       /\ Presenting(c)' => call'[c].token # 0
  /\ \A d \in Devices : refreshKey'[d] \in {0, refreshKey[d]}
  /\ replaced' = replaced /\ cut \subseteq cut'

(* A quiet step preserves the token invariant. *)
LEMMA QuietSteps ==
  ASSUME SessionsTypeOK, SInv, Quiet
  PROVE  SInv'
<1>1. GoneIsCut' BY DEF Quiet, GoneIsCut
<1>2. TokensArePrivate'
  <2>1. ASSUME NEW b \in Slots, NEW c \in Slots,
               call'[b].token = call'[c].token, call'[c].token # 0
        PROVE  Device(b) = Device(c)
    BY <2>1 DEF Quiet, SInv, TokensArePrivate
  <2>2. ASSUME NEW c \in Slots, NEW d \in Devices,
               call'[c].token = refreshKey'[d], call'[c].token # 0
        PROVE  Device(c) = d
    BY <2>2 DEF Quiet, SInv, TokensArePrivate
  <2>3. ASSUME NEW d \in Devices, NEW e \in Devices,
               refreshKey'[d] = refreshKey'[e], refreshKey'[d] # 0
        PROVE  d = e
    BY <2>3 DEF Quiet, SInv, TokensArePrivate
  <2> QED BY <2>1, <2>2, <2>3 DEF TokensArePrivate
<1>3. SavedIsFresh'
  <2> SUFFICES ASSUME NEW c \in Slots, Saving(c)'
               PROVE  /\ call'[c].token # 0 /\ call'[c].token \notin replaced'
                      /\ \A b \in Slots : call'[b].token = call'[c].token
                                            => b = c
                      /\ \A d \in Devices : refreshKey'[d] # call'[c].token
    BY DEF SavedIsFresh
  <2>1. Saving(c) /\ call'[c].token = call[c].token
    BY DEF Quiet
  <2> QED BY <2>1 DEF Quiet, SInv, SavedIsFresh
<1>4. PresentedExists' BY DEF Quiet, PresentedExists
<1>5. KeptIsCurrent'
  <2> SUFFICES ASSUME NEW d \in Devices \ cut', refreshKey'[d] \in replaced'
               PROVE  \E c \in Slots : Device(c) = d /\ Saving(c)'
    BY DEF KeptIsCurrent
  <2>1. 0 \notin replaced BY DEF SessionsTypeOK, Tokens
  <2>2. refreshKey[d] \in replaced /\ d \in Devices \ cut
    BY <2>1 DEF Quiet
  <2> QED BY <2>2 DEF Quiet, SInv, KeptIsCurrent
<1> QED BY <1>1, <1>2, <1>3, <1>4, <1>5 DEF SInv

(* A step of one slot is quiet if it is quiet there. *)
LEMMA QuietSlot ==
  ASSUME SessionsTypeOK, SInv, NEW c \in Slots, Others(c),
         call'[c].token \in {0, call[c].token},
         Saving(c)' => Saving(c) /\ call'[c].token = call[c].token,
         Saving(c) => Saving(c)',
         call'[c].gone => call[c].gone,
         Presenting(c)' => call'[c].token # 0,
         \A d \in Devices : refreshKey'[d] \in {0, refreshKey[d]},
         UNCHANGED <<replaced, cut>>
  PROVE  Quiet
<1>1. \A b \in Slots \ {c} : call'[b] = call[b]
  BY DEF Others
<1> QED BY <1>1 DEF Quiet, SInv, GoneIsCut, PresentedExists, Saving,
                    Presenting

(* Taking and leaving a slot without a token. *)
LEMMA BeginQuiet ==
  ASSUME SessionsTypeOK, SInv, NEW c \in Slots,
         \/ StartApp(c) \/ StartCall(c) \/ StartLogin(c)
         \/ StartLogout(c) /\ refreshKey[Device(c)] = 0
  PROVE  Quiet
<1>0. accessKey[Device(c)] \in Nat
  BY SlotDevice DEF SessionsTypeOK, Tokens
<1>1. UNCHANGED <<refreshKey, replaced, cut>>
  BY DEF StartApp, StartCall, StartLogin, StartLogout, rows, store
<1>2. CASE UNCHANGED call
  BY <1>1, <1>2 DEF Quiet, SInv, GoneIsCut, PresentedExists, Saving, Presenting
<1>3. ASSUME NEW pc \in {"served", "login"}, NEW kind \in Kind,
             NEW bearer \in Nat, Start(c, pc, kind, bearer, 0)
      PROVE  Quiet
  <2>1. pc \in Local \cup Remote BY DEF Remote
  <2>2. /\ call[c] = Idle /\ Others(c)
        /\ call'[c].pc = pc /\ call'[c].token = 0 /\ call'[c].gone = FALSE
    BY <1>3, <2>1, StartStep DEF Fields
  <2>3. ~Saving(c) /\ ~Saving(c)' /\ ~Presenting(c)'
    BY <2>2 DEF Idle, Saving, Presenting
  <2> QED BY <1>1, <2>2, <2>3, QuietSlot
<1>4. ASSUME Free(c), Becomes(c, Clearing("logout")) PROVE Quiet
  <2>1. "logout" \in Kind BY DEF Kind
  <2>2. /\ Others(c) /\ call'[c].pc = "clearAccess" /\ Cleared(call'[c])
    BY <1>4, <2>1, ClearingCall, BecomesStep
  <2>3. ~Saving(c) /\ ~Saving(c)' /\ ~Presenting(c)'
    BY <1>4, <2>2 DEF Free, Idle, Saving, Presenting
  <2> QED BY <1>1, <2>2, <2>3, QuietSlot DEF Cleared
<1> QED BY <1>0, <1>2, <1>3, <1>4
        DEF StartApp, StartCall, StartLogin, StartLogout, Kind

(* Every step of a call is quiet but the four that move a token. *)
LEMMA ProceedQuiet ==
  ASSUME SessionsTypeOK, SInv, NEW c \in Slots,
         \/ Served(c) \/ Unauthorized(c) \/ Resend(c)
         \/ ReadRefreshToken(c) /\ Fail(c)
         \/ FindToken(c) \/ Burn(c) \/ Alarm(c) \/ RevokeLapsed(c)
         \/ SaveAccess(c) \/ RefuseLogin(c) \/ Logout(c) \/ ClearAccess(c)
         \/ ClearRefresh(c)
  PROVE  Quiet
<1>0. /\ UNCHANGED <<replaced, cut>>
      /\ \A d \in Devices : refreshKey'[d] \in {0, refreshKey[d]}
  BY DEF Served, Unauthorized, Resend, ReadRefreshToken, FindToken, Burn,
         Alarm, RevokeLapsed, SaveAccess, RefuseLogin, Logout, ClearAccess,
         ClearRefresh, rows, store, SessionsTypeOK
<1>p. Presenting(c) => call[c].token # 0
  BY DEF SInv, PresentedExists
<1>i. ASSUME Becomes(c, Idle), ~Saving(c) PROVE Quiet
  <2>1. Others(c) /\ call'[c].pc = "idle" /\ Cleared(call'[c])
    BY <1>i, IdleStep
  <2>2. ~Saving(c)' /\ ~Presenting(c)' BY <2>1 DEF Saving, Presenting
  <2> QED BY <1>0, <1>i, <2>1, <2>2, QuietSlot DEF Cleared
<1>f. ASSUME Fail(c), ~Saving(c) PROVE Quiet
  <2>1. /\ Others(c) /\ call'[c].pc \in {"idle", "clearAccess"}
        /\ Cleared(call'[c])
    BY <1>f, FailStep
  <2>2. ~Saving(c)' /\ ~Presenting(c)' BY <2>1 DEF Saving, Presenting
  <2> QED BY <1>0, <1>f, <2>1, <2>2, QuietSlot DEF Cleared
<1>g. ASSUME NEW pc \in {"burn", "lapse", "rotate", "alarm", "clearRefresh"},
             Goto(c, pc), ~Saving(c),
             pc # "clearRefresh" => Presenting(c)
      PROVE  Quiet
  <2>1. pc \in Local \cup Remote BY DEF Local, Remote
  <2>2. /\ Others(c) /\ call'[c].pc = pc /\ call'[c].token = call[c].token
        /\ call'[c].gone = call[c].gone
    BY <1>g, <2>1, GotoStep DEF Fields
  <2>3. ~Saving(c)' /\ (Presenting(c)' => Presenting(c))
    BY <1>g, <2>2 DEF Saving, Presenting
  <2> QED BY <1>0, <1>p, <1>g, <2>2, <2>3, QuietSlot
<1>a. ASSUME NEW pc \in {"readRefresh", "clearAccess"}, Answer(c, pc, 0),
             ~Saving(c)
      PROVE  Quiet
  <2>1. pc \in Local \cup Remote /\ 0 \in Nat BY DEF Local, Remote
  <2>2. /\ Others(c) /\ call'[c].pc \in {"idle", pc} /\ call'[c].token = 0
        /\ call'[c].gone = FALSE
    BY <1>a, <2>1, AnswerStep DEF Fields, Cleared
  <2>3. ~Saving(c)' /\ ~Presenting(c)' BY <2>2 DEF Saving, Presenting
  <2> QED BY <1>0, <1>a, <2>2, <2>3, QuietSlot
<1>1. CASE Served(c) BY <1>1, <1>i DEF Served, Saving
<1>2. CASE Unauthorized(c)
  BY <1>2, <1>a, <1>f DEF Unauthorized, At, Saving
<1>3. CASE Resend(c)
  <2>1. [call[c] EXCEPT !.pc = "again", !.bearer = accessKey[Device(c)]] \in Call
    <3>1. accessKey[Device(c)] \in Nat
      BY SlotDevice DEF SessionsTypeOK, Tokens
    <3> QED BY <3>1, CallParts DEF Call, Remote
  <2>2. /\ Others(c)
        /\ call'[c] = [call[c] EXCEPT !.pc = "again",
                                      !.bearer = accessKey[Device(c)]]
    BY <1>3, <2>1, BecomesStep DEF Resend
  <2>3. /\ call'[c].pc = "again" /\ call'[c].token = call[c].token
        /\ call'[c].gone = call[c].gone
    BY <2>2, CallParts DEF Call
  <2>4. ~Saving(c) /\ ~Saving(c)' /\ ~Presenting(c)'
    BY <1>3, <2>3 DEF Resend, At, Saving, Presenting
  <2> QED BY <1>0, <2>2, <2>3, <2>4, QuietSlot
<1>4. CASE ReadRefreshToken(c) /\ Fail(c)
  BY <1>4, <1>f DEF ReadRefreshToken, At, Saving
<1>5. CASE FindToken(c) BY <1>5, <1>g DEF FindToken, At, Saving, Presenting
<1>6. CASE Burn(c) BY <1>6, <1>g DEF Burn, At, Saving, Presenting
<1>7. CASE Alarm(c) BY <1>7, <1>f DEF Alarm, At, Saving
<1>8. CASE RevokeLapsed(c) BY <1>8, <1>f DEF RevokeLapsed, At, Saving
<1>9. CASE SaveAccess(c)
  <2>1. "saveRefresh" \in Local \cup Remote /\ Goto(c, "saveRefresh")
    BY <1>9 DEF Local, SaveAccess
  <2>2. /\ Others(c) /\ call'[c].pc = "saveRefresh"
        /\ call'[c].token = call[c].token /\ call'[c].gone = call[c].gone
    BY <2>1, GotoStep DEF Fields
  <2>3. Saving(c) /\ Saving(c)' /\ ~Presenting(c)'
    BY <1>9, <2>2 DEF SaveAccess, At, Saving, Presenting
  <2> QED BY <1>0, <2>2, <2>3, QuietSlot
<1>10. CASE RefuseLogin(c)
  <2>1. CASE call[c].gone
    BY <1>10, <1>i, <2>1 DEF RefuseLogin, At, Saving
  <2>2. CASE ~call[c].gone
    <3>1. [call[c] EXCEPT !.pc = "readRefresh", !.kind = "relogin"] \in Call
      BY CallParts DEF Call, Kind, Local
    <3>2. /\ Others(c)
          /\ call'[c] = [call[c] EXCEPT !.pc = "readRefresh",
                                        !.kind = "relogin"]
      BY <1>10, <2>2, <3>1, BecomesStep DEF RefuseLogin
    <3>3. /\ call'[c].pc = "readRefresh" /\ call'[c].token = call[c].token
          /\ call'[c].gone = call[c].gone
      BY <3>2, CallParts DEF Call
    <3>4. ~Saving(c) /\ ~Saving(c)' /\ ~Presenting(c)'
      BY <1>10, <3>3 DEF RefuseLogin, At, Saving, Presenting
    <3> QED BY <1>0, <3>2, <3>3, <3>4, QuietSlot
  <2> QED BY <2>1, <2>2
<1>11. CASE Logout(c) BY <1>11, <1>a DEF Logout, At, Saving
<1>12. CASE ClearAccess(c) BY <1>12, <1>g DEF ClearAccess, At, Saving
<1>13. CASE ClearRefresh(c) BY <1>13, <1>i DEF ClearRefresh, At, Saving
<1> QED BY <1>1, <1>2, <1>3, <1>4, <1>5, <1>6, <1>7, <1>8, <1>9, <1>10,
           <1>11, <1>12, <1>13

(* A lost answer, a killed app and time hand no token to anyone. *)
LEMMA WorldQuiet ==
  ASSUME SessionsTypeOK, SInv,
         \/ \E c \in Slots : Drop(c)
         \/ \E d \in Devices : Kill(d)
         \/ LogoutEverywhere \/ ExpireAccess \/ ExpireRefresh
         \/ UNCHANGED vars
  PROVE  Quiet
<1>1. ASSUME NEW c \in Slots, Drop(c) PROVE Quiet
  <2>1. /\ UNCHANGED <<refreshKey, replaced>>
        /\ cut' = cut \cup {Device(c)}
    BY <1>1 DEF Drop, rows, store
  <2>2. ~Saving(c) BY <1>1 DEF Drop, Remote, Saving
  <2>3. PICK left \in {Idle, [call[c] EXCEPT !.gone = TRUE]} :
          \/ Becomes(c, left)
          \/ /\ call[c].kind \in {"me", "logout"}
             /\ \E b \in Slots :
                  /\ Device(b) = Device(c) /\ Free(b)
                  /\ call' = [call EXCEPT ![c] = left,
                                          ![b] = Clearing(call[c].kind)]
    BY <1>1 DEF Drop
  <2>4. /\ left.token \in {0, call[c].token}
        /\ left.pc \in {"idle", call[c].pc}
        /\ Presenting(c) /\ left.pc # "idle" => left.token # 0
    <3>1. CASE left = Idle BY <3>1 DEF Idle
    <3>2. CASE left = [call[c] EXCEPT !.gone = TRUE]
      <4>1. left.token = call[c].token /\ left.pc = call[c].pc
        BY <3>2, CallParts DEF Call
      <4> QED BY <4>1 DEF SInv, PresentedExists
    <3> QED BY <3>1, <3>2
  <2>5. ASSUME NEW a \in Slots, call'[a] = call[a]
        PROVE  /\ call'[a].token \in {0, call[a].token}
               /\ Saving(a)' <=> Saving(a)
               /\ call'[a].gone => Device(a) \in cut'
               /\ Presenting(a)' => call'[a].token # 0
    BY <2>1, <2>5 DEF SInv, GoneIsCut, PresentedExists, Saving, Presenting
  <2>6. ASSUME call'[c] = left
        PROVE  /\ call'[c].token \in {0, call[c].token}
               /\ ~Saving(c)' /\ Device(c) \in cut'
               /\ Presenting(c)' => call'[c].token # 0
    BY <2>1, <2>2, <2>4, <2>6 DEF Saving, Presenting
  <2>7. CASE Becomes(c, left)
    <3>1. /\ call'[c] = left
          /\ \A a \in Slots \ {c} : call'[a] = call[a]
      BY <2>7 DEF Becomes, SessionsTypeOK
    <3> QED BY <2>1, <2>2, <2>5, <2>6, <3>1 DEF Quiet
  <2>8. ASSUME call[c].kind \in {"me", "logout"}, NEW b \in Slots,
               Device(b) = Device(c), Free(b),
               call' = [call EXCEPT ![c] = left,
                                    ![b] = Clearing(call[c].kind)]
        PROVE  Quiet
    <3>1. call'[b] = Clearing(call[c].kind)
          /\ \A a \in Slots \ {b} : call'[a] = IF a = c THEN left ELSE call[a]
      BY <2>8 DEF SessionsTypeOK
    <3>2. /\ call'[b].token = 0 /\ call'[b].gone = FALSE
          /\ ~Saving(b)' /\ ~Presenting(b)' /\ ~Saving(b)
      <4>1. /\ call'[b].pc = "clearAccess" /\ Cleared(call'[b])
        BY <3>1, CallParts, ClearingCall
      <4>2. call[b].pc = "idle" BY <2>8 DEF Free, Idle
      <4> QED BY <4>1, <4>2 DEF Cleared, Saving, Presenting
    <3>3. ASSUME NEW a \in Slots
          PROVE  /\ call'[a].token \in {0, call[a].token}
                 /\ Saving(a)' => Saving(a) /\ call'[a].token = call[a].token
                 /\ Saving(a) => Saving(a)' \/ Device(a) \in cut'
                 /\ call'[a].gone => Device(a) \in cut'
                 /\ Presenting(a)' => call'[a].token # 0
      <4>1. CASE a = b BY <3>2, <4>1
      <4>2. CASE a # b /\ a = c BY <2>6, <3>1, <4>2
      <4>3. CASE a # b /\ a # c
        <5>1. call'[a] = call[a] BY <3>1, <4>3
        <5> QED BY <2>5, <5>1
      <4> QED BY <4>1, <4>2, <4>3
    <3> QED BY <2>1, <3>3 DEF Quiet
  <2> QED BY <2>3, <2>7, <2>8
<1>2. ASSUME NEW d \in Devices, Kill(d) PROVE Quiet
  <2>1. UNCHANGED <<refreshKey, replaced>> /\ cut' = cut \cup {d}
    BY <1>2 DEF Kill, rows, store
  <2>2. ASSUME NEW c \in Slots
        PROVE  /\ call'[c].token \in {0, call[c].token}
               /\ Saving(c)' => Saving(c) /\ call'[c].token = call[c].token
               /\ Saving(c) => Saving(c)' \/ Device(c) \in cut'
               /\ call'[c].gone => Device(c) \in cut'
               /\ Presenting(c)' => call'[c].token # 0
    <3>1. CASE Device(c) # d
      <4>1. call'[c] = call[c] BY <1>2, <3>1 DEF Kill
      <4>2. Saving(c)' <=> Saving(c)
        BY <4>1 DEF Saving
      <4>3. call'[c].gone => Device(c) \in cut'
        BY <2>1, <4>1 DEF SInv, GoneIsCut
      <4>4. Presenting(c)' => call'[c].token # 0
        BY <4>1 DEF SInv, PresentedExists, Presenting
      <4> QED BY <4>1, <4>2, <4>3, <4>4
    <3>2. CASE Device(c) = d /\ call[c].pc \in Remote
      <4>1. call'[c] = [call[c] EXCEPT !.gone = TRUE]
        BY <1>2, <3>2 DEF Kill
      <4>2. call'[c].pc = call[c].pc /\ call'[c].token = call[c].token
        BY <4>1, CallParts DEF Call
      <4> QED BY <2>1, <3>2, <4>2 DEF SInv, PresentedExists, Saving,
                                      Presenting
    <3>3. CASE Device(c) = d /\ call[c].pc \notin Remote
      <4>1. call'[c] = Idle BY <1>2, <3>3 DEF Kill
      <4>2. /\ call'[c].pc = "idle" /\ call'[c].token = 0
        BY <4>1 DEF Idle
      <4> QED BY <2>1, <3>3, <4>2 DEF Saving, Presenting
    <3> QED BY <3>1, <3>2, <3>3
  <2> QED BY <2>1, <2>2 DEF Quiet
<1>3. ASSUME UNCHANGED <<call, refreshKey, replaced, cut>> PROVE Quiet
  BY <1>3 DEF Quiet, SInv, GoneIsCut, PresentedExists, Saving, Presenting
<1> QED BY <1>1, <1>2, <1>3
        DEF LogoutEverywhere, ExpireAccess, ExpireRefresh, vars, rows, store

(* A call takes the device's refresh token to the server. *)
LEMMA TakeToken ==
  ASSUME SessionsTypeOK, SInv, NEW c \in Slots, Others(c),
         call'[c].token = refreshKey[Device(c)], refreshKey[Device(c)] # 0,
         call'[c].gone => call[c].gone, ~Saving(c), ~Saving(c)',
         UNCHANGED <<refreshKey, replaced, cut>>
  PROVE  SInv'
<1>0. /\ \A b \in Slots \ {c} : call'[b] = call[b]
      /\ Device(c) \in Devices
  BY SlotDevice DEF Others
<1>1. GoneIsCut' BY <1>0 DEF SInv, GoneIsCut
<1>2. TokensArePrivate'
  <2>1. ASSUME NEW a \in Slots, NEW b \in Slots,
               call'[a].token = call'[b].token, call'[b].token # 0
        PROVE  Device(a) = Device(b)
    BY <1>0, <2>1 DEF SInv, TokensArePrivate
  <2>2. ASSUME NEW b \in Slots, NEW d \in Devices,
               call'[b].token = refreshKey'[d], call'[b].token # 0
        PROVE  Device(b) = d
    BY <1>0, <2>2 DEF SInv, TokensArePrivate
  <2>3. ASSUME NEW d \in Devices, NEW e \in Devices,
               refreshKey'[d] = refreshKey'[e], refreshKey'[d] # 0
        PROVE  d = e
    BY <2>3 DEF SInv, TokensArePrivate
  <2> QED BY <2>1, <2>2, <2>3 DEF TokensArePrivate
<1>3. SavedIsFresh'
  <2> SUFFICES ASSUME NEW a \in Slots, Saving(a)'
               PROVE  /\ call'[a].token # 0 /\ call'[a].token \notin replaced'
                      /\ \A b \in Slots : call'[b].token = call'[a].token
                                            => b = a
                      /\ \A d \in Devices : refreshKey'[d] # call'[a].token
    BY DEF SavedIsFresh
  <2>1. a # c /\ call'[a] = call[a] /\ Saving(a)
    BY <1>0 DEF Saving
  <2> QED BY <1>0, <2>1 DEF SInv, SavedIsFresh
<1>4. PresentedExists'
  BY <1>0 DEF SInv, PresentedExists, Presenting
<1>5. KeptIsCurrent'
  BY <1>0 DEF SInv, KeptIsCurrent, Saving
<1> QED BY <1>1, <1>2, <1>3, <1>4, <1>5 DEF SInv

(* The server issues a token, and may have it replace the one presented. *)
LEMMA IssueToken ==
  ASSUME SessionsTypeOK, SInv, NEW c \in Slots, Others(c), ~Saving(c),
         IF call[c].gone
         THEN call'[c].pc = "idle" /\ call'[c].token = 0 /\ ~call'[c].gone
         ELSE call'[c].pc = "saveAccess" /\ call'[c].token = issued + 1
              /\ ~call'[c].gone,
         \/ replaced' = replaced
         \/ Presenting(c) /\ replaced' = replaced \cup {call[c].token},
         UNCHANGED <<refreshKey, cut>>
  PROVE  SInv'
<1>0. /\ \A b \in Slots \ {c} : call'[b] = call[b]
      /\ Device(c) \in Devices
  BY SlotDevice DEF Others
<1>1. /\ issued + 1 \notin Tokens \cup {0}
      /\ replaced \subseteq Tokens
      /\ \A d \in Devices : refreshKey[d] \in Tokens \cup {0}
      /\ \A b \in Slots : call[b].token \in Tokens \cup {0}
  BY CallParts DEF SessionsTypeOK, Tokens
<1>2. replaced' \subseteq replaced \cup {call[c].token}
  OBVIOUS
<1>3. GoneIsCut' BY <1>0 DEF SInv, GoneIsCut
<1>4. call'[c].token \in {0, issued + 1} OBVIOUS
<1>5. TokensArePrivate'
  <2>1. ASSUME NEW a \in Slots, NEW b \in Slots,
               call'[a].token = call'[b].token, call'[b].token # 0
        PROVE  Device(a) = Device(b)
    BY <1>0, <1>1, <1>4, <2>1 DEF SInv, TokensArePrivate
  <2>2. ASSUME NEW b \in Slots, NEW d \in Devices,
               call'[b].token = refreshKey'[d], call'[b].token # 0
        PROVE  Device(b) = d
    BY <1>0, <1>1, <1>4, <2>2 DEF SInv, TokensArePrivate
  <2>3. ASSUME NEW d \in Devices, NEW e \in Devices,
               refreshKey'[d] = refreshKey'[e], refreshKey'[d] # 0
        PROVE  d = e
    BY <2>3 DEF SInv, TokensArePrivate
  <2> QED BY <2>1, <2>2, <2>3 DEF TokensArePrivate
<1>6. SavedIsFresh'
  <2> SUFFICES ASSUME NEW a \in Slots, Saving(a)'
               PROVE  /\ call'[a].token # 0 /\ call'[a].token \notin replaced'
                      /\ \A b \in Slots : call'[b].token = call'[a].token
                                            => b = a
                      /\ \A d \in Devices : refreshKey'[d] # call'[a].token
    BY DEF SavedIsFresh
  <2>1. CASE a = c
    <3>1. call'[c].token = issued + 1
      BY <2>1 DEF Saving
    <3>2. issued + 1 # 0 BY <1>1
    <3> QED BY <1>0, <1>1, <1>2, <2>1, <3>1, <3>2
  <2>2. CASE a # c
    <3>1. call'[a] = call[a] /\ Saving(a)
      BY <1>0, <2>2 DEF Saving
    <3>2. call[a].token # call[c].token
      BY <2>2, <3>1 DEF SInv, SavedIsFresh
    <3> QED BY <1>0, <1>1, <1>2, <1>4, <2>2, <3>1, <3>2 DEF SInv, SavedIsFresh
  <2> QED BY <2>1, <2>2
<1>7. PresentedExists'
  BY <1>0 DEF SInv, PresentedExists, Presenting
<1>8. KeptIsCurrent'
  <2> SUFFICES ASSUME NEW d \in Devices \ cut, refreshKey[d] \in replaced'
               PROVE  \E b \in Slots : Device(b) = d /\ Saving(b)'
    BY DEF KeptIsCurrent
  <2>1. CASE refreshKey[d] \in replaced
    <3>1. PICK b \in Slots : Device(b) = d /\ Saving(b)
      BY <2>1 DEF SInv, KeptIsCurrent
    <3>2. call'[b] = call[b] BY <1>0, <3>1
    <3> QED BY <3>1, <3>2 DEF Saving
  <2>2. CASE refreshKey[d] \notin replaced
    <3>1. refreshKey[d] = call[c].token /\ call[c].token # 0
      BY <2>2 DEF SInv, PresentedExists
    <3>2. Device(c) = d BY <3>1 DEF SInv, TokensArePrivate
    <3>3. ~call[c].gone BY <3>2 DEF SInv, GoneIsCut
    <3> QED BY <3>2, <3>3 DEF Saving
  <2> QED BY <2>1, <2>2
<1> QED BY <1>3, <1>5, <1>6, <1>7, <1>8 DEF SInv

(* The device saves the token its call was answered with. *)
LEMMA StoreToken ==
  ASSUME SessionsTypeOK, SInv, NEW c \in Slots, Others(c), Saving(c),
         call'[c].token \in {0, call[c].token}, ~Saving(c)', ~Presenting(c)',
         call'[c].gone => call[c].gone,
         refreshKey' = [refreshKey EXCEPT ![Device(c)] = call[c].token],
         UNCHANGED <<replaced, cut>>
  PROVE  SInv'
<1>0. /\ \A b \in Slots \ {c} : call'[b] = call[b]
      /\ Device(c) \in Devices
      /\ refreshKey'[Device(c)] = call[c].token
      /\ \A d \in Devices \ {Device(c)} : refreshKey'[d] = refreshKey[d]
  BY SlotDevice DEF Others, SessionsTypeOK
<1>1. /\ call[c].token # 0 /\ call[c].token \notin replaced
      /\ \A b \in Slots : call[b].token = call[c].token => b = c
      /\ \A d \in Devices : refreshKey[d] # call[c].token
  BY DEF SInv, SavedIsFresh
<1>2. \A b \in Slots : call'[b].token \in {0, call[b].token}
  BY <1>0
<1>3. GoneIsCut' BY <1>0 DEF SInv, GoneIsCut
<1>4. TokensArePrivate'
  <2>1. ASSUME NEW a \in Slots, NEW b \in Slots,
               call'[a].token = call'[b].token, call'[b].token # 0
        PROVE  Device(a) = Device(b)
    BY <1>2, <2>1 DEF SInv, TokensArePrivate
  <2>2. ASSUME NEW b \in Slots, NEW d \in Devices,
               call'[b].token = refreshKey'[d], call'[b].token # 0
        PROVE  Device(b) = d
    BY <1>0, <1>1, <1>2, <2>2 DEF SInv, TokensArePrivate
  <2>3. ASSUME NEW d \in Devices, NEW e \in Devices,
               refreshKey'[d] = refreshKey'[e], refreshKey'[d] # 0
        PROVE  d = e
    BY <1>0, <1>1, <2>3 DEF SInv, TokensArePrivate
  <2> QED BY <2>1, <2>2, <2>3 DEF TokensArePrivate
<1>5. SavedIsFresh'
  <2> SUFFICES ASSUME NEW a \in Slots, Saving(a)'
               PROVE  /\ call'[a].token # 0 /\ call'[a].token \notin replaced'
                      /\ \A b \in Slots : call'[b].token = call'[a].token
                                            => b = a
                      /\ \A d \in Devices : refreshKey'[d] # call'[a].token
    BY DEF SavedIsFresh
  <2>1. a # c /\ call'[a] = call[a] /\ Saving(a)
    BY <1>0 DEF Saving
  <2>2. call[a].token # call[c].token BY <1>1, <2>1
  <2> QED BY <1>0, <1>2, <2>1, <2>2 DEF SInv, SavedIsFresh
<1>6. PresentedExists'
  BY <1>0 DEF SInv, PresentedExists, Presenting
<1>7. KeptIsCurrent'
  <2> SUFFICES ASSUME NEW d \in Devices \ cut, refreshKey'[d] \in replaced
               PROVE  \E b \in Slots : Device(b) = d /\ Saving(b)'
    BY DEF KeptIsCurrent
  <2>1. d # Device(c) /\ refreshKey[d] \in replaced
    BY <1>0, <1>1
  <2>2. PICK b \in Slots : Device(b) = d /\ Saving(b)
    BY <2>1 DEF SInv, KeptIsCurrent
  <2>3. call'[b] = call[b] BY <1>0, <2>1, <2>2
  <2> QED BY <2>2, <2>3 DEF Saving
<1> QED BY <1>3, <1>4, <1>5, <1>6, <1>7 DEF SInv

(* A step of a call under way, quiet or not. *)
LEMMA ProceedInv ==
  ASSUME SessionsTypeOK, SInv, NEW c \in Slots, Proceed(c)
  PROVE  SInv'
<1>0. CASE \/ Served(c) \/ Unauthorized(c) \/ Resend(c)
           \/ ReadRefreshToken(c) /\ Fail(c)
           \/ FindToken(c) \/ Burn(c) \/ Alarm(c) \/ RevokeLapsed(c)
           \/ SaveAccess(c) \/ RefuseLogin(c) \/ Logout(c) \/ ClearAccess(c)
           \/ ClearRefresh(c)
  BY <1>0, ProceedQuiet, QuietSteps
<1>1. CASE ReadRefreshToken(c) /\ ~Fail(c)
  <2> DEFINE q == [call[c] EXCEPT !.pc = "find",
                                  !.token = refreshKey[Device(c)]]
  <2>1. /\ Becomes(c, q) /\ refreshKey[Device(c)] # 0
        /\ call[c].pc = "readRefresh"
        /\ UNCHANGED <<refreshKey, replaced, cut>>
    BY <1>1 DEF ReadRefreshToken, At, rows, store
  <2>2. refreshKey[Device(c)] \in Nat
    BY SlotDevice DEF SessionsTypeOK, Tokens
  <2>3. /\ q \in Call /\ q.pc = "find" /\ q.gone = call[c].gone
        /\ q.token = refreshKey[Device(c)]
    BY <2>2, CallParts DEF Call, Remote
  <2>4. call'[c] = q /\ Others(c)
    BY <2>1, <2>3, BecomesStep
  <2>5. ~Saving(c) /\ ~Saving(c)'
    BY <2>1, <2>3, <2>4 DEF Saving
  <2> QED BY <2>1, <2>3, <2>4, <2>5, TakeToken
<1>2. CASE Rotate(c) \/ Login(c)
  <2>1. /\ Answer(c, "saveAccess", issued + 1)
        /\ call[c].pc \in {"rotate", "login"}
        /\ \/ replaced' = replaced
           \/ /\ call[c].pc = "rotate"
              /\ replaced' = replaced \cup {call[c].token}
        /\ UNCHANGED <<refreshKey, cut>>
    BY <1>2 DEF Rotate, Login, At, store
  <2>2. "saveAccess" \in Local \cup Remote /\ issued + 1 \in Nat
    BY DEF Local, SessionsTypeOK
  <2>3. /\ Others(c)
        /\ IF call[c].gone
           THEN call'[c].pc = "idle" /\ call'[c].token = 0 /\ ~call'[c].gone
           ELSE call'[c].pc = "saveAccess" /\ call'[c].token = issued + 1
                /\ ~call'[c].gone
    BY <2>1, <2>2, AnswerStep DEF Fields, Cleared
  <2>4. ~Saving(c) BY <2>1 DEF Saving
  <2>5. \/ replaced' = replaced
        \/ Presenting(c) /\ replaced' = replaced \cup {call[c].token}
    BY <2>1 DEF Presenting
  <2> QED BY <2>1, <2>3, <2>4, <2>5, IssueToken
<1>3. CASE SaveRefresh(c)
  <2>1. /\ call[c].pc = "saveRefresh"
        /\ refreshKey' = [refreshKey EXCEPT ![Device(c)] = call[c].token]
        /\ UNCHANGED <<replaced, cut>>
        /\ Becomes(c, Idle) \/ Goto(c, "resend")
    BY <1>3 DEF SaveRefresh, LoggedIn, At, rows
  <2>2. "resend" \in Local \cup Remote BY DEF Local
  <2>3. /\ Others(c) /\ call'[c].pc \in {"idle", "resend"}
        /\ call'[c].token \in {0, call[c].token}
        /\ call'[c].gone => call[c].gone
    BY <2>1, <2>2, IdleStep, GotoStep DEF Cleared, Fields
  <2>4. Saving(c) /\ ~Saving(c)' /\ ~Presenting(c)'
    BY <2>1, <2>3 DEF Saving, Presenting
  <2> QED BY <2>1, <2>3, <2>4, StoreToken
<1> QED BY <1>0, <1>1, <1>2, <1>3 DEF Proceed

(* A call that starts; only a logout starts with a refresh token. *)
LEMMA BeginInv ==
  ASSUME SessionsTypeOK, SInv, NEW c \in Slots, Begin(c)
  PROVE  SInv'
<1>1. CASE \/ StartApp(c) \/ StartCall(c) \/ StartLogin(c)
           \/ StartLogout(c) /\ refreshKey[Device(c)] = 0
  BY <1>1, BeginQuiet, QuietSteps
<1>2. CASE StartLogout(c) /\ refreshKey[Device(c)] # 0
  <2>1. /\ Start(c, "logout", "logout", 0, refreshKey[Device(c)])
        /\ UNCHANGED <<refreshKey, replaced, cut>>
    BY <1>2 DEF StartLogout, rows, store
  <2>2. refreshKey[Device(c)] \in Nat
    BY SlotDevice DEF SessionsTypeOK, Tokens
  <2>3. "logout" \in Local \cup Remote /\ "logout" \in Kind /\ 0 \in Nat
    BY DEF Remote, Kind
  <2>4. /\ call[c] = Idle /\ Others(c) /\ call'[c].pc = "logout"
        /\ call'[c].token = refreshKey[Device(c)] /\ call'[c].gone = FALSE
    BY <2>1, <2>2, <2>3, StartStep DEF Fields
  <2>5. ~Saving(c) /\ ~Saving(c)'
    BY <2>4 DEF Idle, Saving
  <2> QED BY <1>2, <2>1, <2>4, <2>5, TakeToken
<1> QED BY <1>1, <1>2 DEF Begin

-----------------------------------------------------------------------------
(* Both invariants together are inductive. *)
LEMMA Inductive == Spec => [](SessionsTypeOK /\ SInv)
<1>1. Init => SessionsTypeOK /\ SInv
  BY InitTyped, InitInv
<1>2. SessionsTypeOK /\ SInv /\ [Next]_vars => (SessionsTypeOK /\ SInv)'
  <2> SUFFICES ASSUME SessionsTypeOK, SInv, [Next]_vars
               PROVE  SessionsTypeOK' /\ SInv'
    OBVIOUS
  <2>1. ASSUME NEW c \in Slots, Begin(c) PROVE SessionsTypeOK' /\ SInv'
    BY <2>1, StartTyped, BeginInv
  <2>2. ASSUME NEW c \in Slots, Proceed(c) PROVE SessionsTypeOK' /\ SInv'
    BY <2>2, ProceedTyped, ProceedInv
  <2>3. ASSUME \/ \E c \in Slots : Drop(c)
               \/ \E d \in Devices : Kill(d)
               \/ LogoutEverywhere \/ ExpireAccess \/ ExpireRefresh
               \/ UNCHANGED vars
        PROVE  SessionsTypeOK' /\ SInv'
    BY <2>3, WorldTyped, WorldQuiet, QuietSteps
  <2> QED BY <2>1, <2>2, <2>3 DEF Next
<1> QED BY <1>1, <1>2, PTL DEF Spec

(* Every reachable state of the token routes, the app and its store is     *)
(* typed: every token that anyone has was issued.                          *)
THEOREM SessionsTyped == Spec => []SessionsTypeOK
  BY Inductive, PTL

(* A device that missed no answer never stays behind with a replaced       *)
(* refresh token: for any number of devices and of concurrent refreshes.   *)
THEOREM KeptCurrent == Spec => []KeptIsCurrent
<1>1. SInv => KeptIsCurrent BY DEF SInv
<1> QED BY <1>1, Inductive, PTL
=============================================================================
