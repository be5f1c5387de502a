------------------------------ MODULE Sessions ------------------------------
(***************************************************************************)
(* The sessions of one account: the token routes of routes/auth.ts, and    *)
(* the app's request/tryRefresh, token store and auth store on each of the *)
(* user's devices.                                                         *)
(*                                                                         *)
(* Token n is the n-th pair issued: a refresh token with a database row    *)
(* and the access token that came with it.  0 stands for no token.  A call *)
(* of the app runs in a lane of its device, one await at a time, and takes *)
(* its request through the server; other lanes run in between.  Whoever    *)
(* stops waiting for an answer leaves the server's part running: the call  *)
(* is then "gone".                                                         *)
(*                                                                         *)
(* A definition marked "Faulty" is no part of the specification: it is the *)
(* definition after it with a plausible bug.                               *)
(***************************************************************************)
EXTENDS Integers

CONSTANTS
  Devices,    \* installations of the app that use this account
  Lanes,      \* calls a device has under way at the same time
  MaxTokens,  \* bound: no call or kill starts once this many were issued
  Lossy       \* connections drop and the app gets killed

ASSUME SessionAssumption == MaxTokens \in Nat /\ Lossy \in BOOLEAN

VARIABLES
  issued,      \* how many pairs were issued
  revoked,     \* RefreshToken.revoked
  replaced,    \* RefreshToken.replacedByHash is set
  lapsed,      \* RefreshToken.expiresAt lies in the past
  stale,       \* the access token's 15 minutes are over
  accessKey,   \* the access token in the device's secure store
  refreshKey,  \* the refresh token in the device's secure store
  app,         \* the auth store: loading (init not begun, or begun), a
               \* user, or none
  call,        \* the calls under way
  alarms,      \* tokens audited as refresh.reuse_detected
  cut          \* history: devices that ever missed an answer

rows   == <<issued, revoked, replaced, lapsed>>
store  == <<accessKey, refreshKey>>
vars   == <<rows, stale, store, app, call, alarms, cut>>

Tokens == 1 .. issued
Kind == {"api", "me", "login", "relogin", "logout"}
Local == {"readRefresh", "saveAccess", "saveRefresh", "resend",
          "clearAccess", "clearRefresh"}
Remote == {"served", "find", "burn", "alarm", "lapse", "rotate", "again",
           "login", "logout"}
Call == [pc : {"idle"} \cup Local \cup Remote, kind : Kind,
         bearer : Nat, token : Nat, gone : BOOLEAN]
Idle == [pc |-> "idle", kind |-> "api", bearer |-> 0, token |-> 0,
         gone |-> FALSE]
Slots == Devices \X Lanes

Device(c) == c[1]
Free(c) == call[c] = Idle
At(c, pc) == call[c].pc = pc
Becomes(c, q) == call' = [call EXCEPT ![c] = q]
Goto(c, pc) == Becomes(c, [call[c] EXCEPT !.pc = pc])
Start(c, pc, kind, bearer, token) ==
  Free(c) /\ Becomes(c, [Idle EXCEPT !.pc = pc, !.kind = kind,
                                     !.bearer = bearer, !.token = token])
(* The server answers; a client that is gone does not go on. *)
Answer(c, pc, token) ==
  Becomes(c, IF call[c].gone THEN Idle
             ELSE [call[c] EXCEPT !.pc = pc, !.token = token])
(* The request failed for good: init then clears the tokens. *)
Clearing(kind) == [Idle EXCEPT !.pc = "clearAccess", !.kind = kind]
Fail(c) == Becomes(c, IF call[c].kind = "me" /\ ~call[c].gone
                      THEN Clearing("me") ELSE Idle)

Init == /\ issued = 0 /\ revoked = {} /\ replaced = {} /\ lapsed = {}
        /\ stale = {}
        /\ accessKey = [d \in Devices |-> 0]
        /\ refreshKey = [d \in Devices |-> 0]
        /\ app = [d \in Devices |-> "loading"]
        /\ call = [c \in Slots |-> Idle]
        /\ alarms = {} /\ cut = {}

-----------------------------------------------------------------------------
(* The auth store and request(): what starts a call, and its first attempt *)
(* and its only retry.                                                     *)

StartApp(c) ==
  /\ app[Device(c)] = "loading"
  /\ \/ /\ accessKey[Device(c)] # 0
        /\ Start(c, "served", "me", accessKey[Device(c)], 0)
        /\ app' = [app EXCEPT ![Device(c)] = "init"]
     \/ /\ accessKey[Device(c)] = 0
        /\ app' = [app EXCEPT ![Device(c)] = "out"]
        /\ UNCHANGED call
  /\ UNCHANGED <<rows, stale, store, alarms, cut>>

StartCall(c) ==
  /\ issued < MaxTokens
  /\ app[Device(c)] = "in"
  /\ Start(c, "served", "api", accessKey[Device(c)], 0)
  /\ UNCHANGED <<rows, stale, store, app, alarms, cut>>

StartLogin(c) ==
  /\ issued < MaxTokens
  /\ app[Device(c)] = "out"
  /\ Start(c, "login", "login", 0, 0)
  /\ UNCHANGED <<rows, stale, store, app, alarms, cut>>

StartLogout(c) ==
  /\ app[Device(c)] = "in"
  /\ \/ /\ refreshKey[Device(c)] # 0
        /\ Start(c, "logout", "logout", 0, refreshKey[Device(c)])
     \/ /\ refreshKey[Device(c)] = 0
        /\ Free(c) /\ Becomes(c, Clearing("logout"))
  /\ UNCHANGED <<rows, stale, store, app, alarms, cut>>

Authentic(t) == t # 0 /\ t \notin stale
(* A login that was refused once is refused again. *)
Accepted(c) == Authentic(call[c].bearer) /\ call[c].kind # "relogin"

Served(c) ==
  /\ call[c].pc \in {"served", "again"} /\ Accepted(c)
  /\ Becomes(c, Idle)
  /\ app' = IF call[c].kind = "me" /\ ~call[c].gone
            THEN [app EXCEPT ![Device(c)] = "in"] ELSE app
  /\ UNCHANGED <<rows, stale, store, alarms, cut>>

Unauthorized(c) ==
  /\ ~Accepted(c)
  /\ \/ At(c, "served") /\ Answer(c, "readRefresh", 0)
     \/ At(c, "again") /\ Fail(c)
  /\ UNCHANGED <<rows, stale, store, app, alarms, cut>>

Resend(c) ==
  /\ At(c, "resend")
  /\ Becomes(c, [call[c] EXCEPT !.pc = "again",
                                !.bearer = accessKey[Device(c)]])
  /\ UNCHANGED <<rows, stale, store, app, alarms, cut>>

-----------------------------------------------------------------------------
(* tryRefresh and POST /auth/refresh. *)

ReadRefreshToken(c) ==
  /\ At(c, "readRefresh")
  /\ \/ /\ refreshKey[Device(c)] # 0
        /\ Becomes(c, [call[c] EXCEPT !.pc = "find",
                                      !.token = refreshKey[Device(c)]])
     \/ refreshKey[Device(c)] = 0 /\ Fail(c)
  /\ UNCHANGED <<rows, stale, store, app, alarms, cut>>

FindToken(c) ==
  /\ At(c, "find")
  /\ \/ call[c].token \in revoked /\ Goto(c, "burn")
     \/ call[c].token \in lapsed \ revoked /\ Goto(c, "lapse")
     \/ call[c].token \notin lapsed \cup revoked /\ Goto(c, "rotate")
  /\ UNCHANGED <<rows, stale, store, app, alarms, cut>>

(* updateMany: every token of the user that is not revoked. *)
RevokeAll == revoked' = Tokens

Burn(c) ==
  /\ At(c, "burn")
  /\ RevokeAll
  /\ Goto(c, "alarm")
  /\ UNCHANGED <<issued, replaced, lapsed, stale, store, app, alarms, cut>>

Alarm(c) ==
  /\ At(c, "alarm")
  /\ alarms' = alarms \cup {call[c].token}
  /\ Fail(c)
  /\ UNCHANGED <<rows, stale, store, app, cut>>

RevokeLapsed(c) ==
  /\ At(c, "lapse")
  /\ revoked' = revoked \cup {call[c].token}
  /\ Fail(c)
  /\ UNCHANGED <<issued, replaced, lapsed, stale, store, app, alarms, cut>>

(* Faulty: answers with a token that was never stored. *)
RotateUnstored(c) ==
  /\ At(c, "rotate")
  /\ revoked' = revoked \cup {call[c].token}
  /\ replaced' = replaced \cup {call[c].token}
  /\ Answer(c, "saveAccess", issued + 1)
  /\ UNCHANGED <<issued, lapsed, stale, store, app, alarms, cut>>

(* One transaction, whatever happened to the token since it was found. *)
Rotate(c) ==
  /\ At(c, "rotate")
  /\ revoked' = revoked \cup {call[c].token}
  /\ replaced' = replaced \cup {call[c].token}
  /\ issued' = issued + 1
  /\ Answer(c, "saveAccess", issued + 1)
  /\ UNCHANGED <<lapsed, stale, store, app, alarms, cut>>

SaveAccess(c) ==
  /\ At(c, "saveAccess")
  /\ accessKey' = [accessKey EXCEPT ![Device(c)] = call[c].token]
  /\ Goto(c, "saveRefresh")
  /\ UNCHANGED <<rows, stale, refreshKey, app, alarms, cut>>

LoggedIn(c) ==
  IF call[c].kind = "login"
  THEN Becomes(c, Idle) /\ app' = [app EXCEPT ![Device(c)] = "in"]
  ELSE Goto(c, "resend") /\ UNCHANGED app

(* Faulty: a refresh keeps the refresh token it used. *)
SaveLoginOnly(c) ==
  /\ At(c, "saveRefresh")
  /\ refreshKey' = IF call[c].kind = "login"
                   THEN [refreshKey EXCEPT ![Device(c)] = call[c].token]
                   ELSE refreshKey
  /\ LoggedIn(c)
  /\ UNCHANGED <<rows, stale, accessKey, alarms, cut>>

SaveRefresh(c) ==
  /\ At(c, "saveRefresh")
  /\ refreshKey' = [refreshKey EXCEPT ![Device(c)] = call[c].token]
  /\ LoggedIn(c)
  /\ UNCHANGED <<rows, stale, accessKey, alarms, cut>>

-----------------------------------------------------------------------------
(* POST /auth/login, /auth/logout and /auth/logout-everywhere. *)

Login(c) ==
  /\ At(c, "login")
  /\ issued' = issued + 1
  /\ Answer(c, "saveAccess", issued + 1)
  /\ UNCHANGED <<revoked, replaced, lapsed, stale, store, app, alarms, cut>>

(* A wrong password: 401, which request() takes for an expired token. *)
RefuseLogin(c) ==
  /\ At(c, "login")
  /\ Becomes(c, IF call[c].gone THEN Idle
                ELSE [call[c] EXCEPT !.pc = "readRefresh",
                                     !.kind = "relogin"])
  /\ UNCHANGED <<rows, stale, store, app, alarms, cut>>

Logout(c) ==
  /\ At(c, "logout")
  /\ revoked' = revoked \cup {call[c].token}
  /\ Answer(c, "clearAccess", 0)
  /\ UNCHANGED <<issued, replaced, lapsed, stale, store, app, alarms, cut>>

ClearAccess(c) ==
  /\ At(c, "clearAccess")
  /\ accessKey' = [accessKey EXCEPT ![Device(c)] = 0]
  /\ Goto(c, "clearRefresh")
  /\ UNCHANGED <<rows, stale, refreshKey, app, alarms, cut>>

(* Faulty: forgets to leave the loading state. *)
ClearRefreshOnly(c) ==
  /\ At(c, "clearRefresh")
  /\ refreshKey' = [refreshKey EXCEPT ![Device(c)] = 0]
  /\ Becomes(c, Idle)
  /\ UNCHANGED <<rows, stale, accessKey, app, alarms, cut>>

ClearRefresh(c) ==
  /\ At(c, "clearRefresh")
  /\ refreshKey' = [refreshKey EXCEPT ![Device(c)] = 0]
  /\ app' = [app EXCEPT ![Device(c)] = "out"]
  /\ Becomes(c, Idle)
  /\ UNCHANGED <<rows, stale, accessKey, alarms, cut>>

(* Any holder of an access token that is still valid; the app has no       *)
(* button for it.                                                          *)
LogoutEverywhere ==
  /\ \E t \in Tokens : Authentic(t)
  /\ RevokeAll
  /\ UNCHANGED <<issued, replaced, lapsed, stale, store, app, call, alarms, cut>>

-----------------------------------------------------------------------------
(* Time, dropped connections and the app's end. *)

ExpireAccess ==
  /\ \E t \in Tokens : stale' = stale \cup {t}
  /\ UNCHANGED <<rows, store, app, call, alarms, cut>>

ExpireRefresh ==
  /\ \E t \in stale : lapsed' = lapsed \cup {t}
  /\ UNCHANGED <<issued, revoked, replaced, stale, store, app, call, alarms,
                 cut>>

(* fetch throws; the server goes on or never got the request.  The call    *)
(* fails; after a failed me or logout the app goes on to clear its tokens. *)
Drop(c) ==
  /\ Lossy
  /\ call[c].pc \in Remote /\ ~call[c].gone
  /\ \E left \in {Idle, [call[c] EXCEPT !.gone = TRUE]} :
       \/ /\ call[c].kind \notin {"me", "logout"}
          /\ Becomes(c, left)
       \/ /\ call[c].kind \in {"me", "logout"}
          /\ \E b \in Slots :
               /\ Device(b) = Device(c) /\ Free(b)
               /\ call' = [call EXCEPT ![c] = left,
                                       ![b] = Clearing(call[c].kind)]
  /\ cut' = cut \cup {Device(c)}
  /\ UNCHANGED <<rows, stale, store, app, alarms>>

(* The user ends the app, or the system does. *)
Kill(d) ==
  /\ Lossy
  /\ issued < MaxTokens
  /\ app' = [app EXCEPT ![d] = "loading"]
  /\ call' = [c \in Slots |-> IF Device(c) # d THEN call[c]
                              ELSE IF call[c].pc \in Remote
                              THEN [call[c] EXCEPT !.gone = TRUE]
                              ELSE Idle]
  /\ cut' = cut \cup {d}
  /\ UNCHANGED <<rows, stale, store, alarms>>

-----------------------------------------------------------------------------
Begin(c) == StartApp(c) \/ StartCall(c) \/ StartLogin(c) \/ StartLogout(c)

Proceed(c) == \/ Served(c) \/ Unauthorized(c) \/ Resend(c)
              \/ ReadRefreshToken(c) \/ FindToken(c) \/ Burn(c) \/ Alarm(c)
              \/ RevokeLapsed(c) \/ Rotate(c) \/ SaveAccess(c)
              \/ SaveRefresh(c) \/ Login(c) \/ RefuseLogin(c)
              \/ Logout(c) \/ ClearAccess(c) \/ ClearRefresh(c)

Next == \/ \E c \in Slots : Begin(c) \/ Proceed(c) \/ Drop(c)
        \/ \E d \in Devices : Kill(d)
        \/ LogoutEverywhere \/ ExpireAccess \/ ExpireRefresh

Spec == Init /\ [][Next]_vars

(* Calls under way go on, and an app that is started runs init; nobody has *)
(* to tap anything.                                                        *)
Fairness == \A c \in Slots : WF_vars(Proceed(c)) /\ WF_vars(StartApp(c))

FairSpec == Spec /\ Fairness

-----------------------------------------------------------------------------
SessionsTypeOK ==
  /\ issued \in Nat
  /\ revoked \subseteq Tokens /\ replaced \subseteq Tokens
  /\ lapsed \subseteq Tokens /\ stale \subseteq Tokens
  /\ accessKey \in [Devices -> Tokens \cup {0}]
  /\ refreshKey \in [Devices -> Tokens \cup {0}]
  /\ app \in [Devices -> {"loading", "init", "in", "out"}]
  /\ call \in [Slots -> Call]
  /\ \A c \in Slots : {call[c].bearer, call[c].token} \subseteq Tokens \cup {0}
  /\ alarms \subseteq Tokens /\ cut \subseteq Devices

Saving(c) == call[c].pc \in {"saveAccess", "saveRefresh"}

(* A device that keeps a refresh token the server has already replaced is  *)
(* about to save a newer one, in whatever order concurrent refreshes save  *)
(* theirs; only a lost answer or a killed app leaves it behind.            *)
KeptIsCurrent ==
  \A d \in Devices \ cut :
    refreshKey[d] \in replaced =>
      \E c \in Slots : Device(c) = d /\ Saving(c)

(* However the last run of the app ended, and whatever the server says     *)
(* about the tokens it left, a started app reaches its home screen or the  *)
(* login screen.                                                           *)
AppSettles ==
  \A d \in Devices : \/ app[d] = "loading" ~> app[d] \in {"in", "out"}
                     \/ []<><<Kill(d)>>_vars

(* auth.ts:89-90: a token presented again after its rotation was stolen.   *)
(* In this module nobody but the user's own devices ever has a token.      *)
ReuseIsTheft == alarms \cap replaced = {}
=============================================================================
