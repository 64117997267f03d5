---------------------------- MODULE TokenRotation ----------------------------
(***************************************************************************)
(* Refresh-token rotation (server/routes/auth.ts, server/security.ts,      *)
(* src/services/api.ts) for ONE session, shared by the tabs of a browser.  *)
(* A token and its hash are one value: a number, in the order of           *)
(* generateSecureToken.  The session is in db.sessions (memory) and in     *)
(* user_sessions (PostgreSQL); the token also is in localStorage and in    *)
(* the ApiClient of each tab.                                              *)
(*                                                                         *)
(* A tab has one refresh in flight at most (refreshPromise).  Its request  *)
(* goes through                                                            *)
(*                                                                         *)
(*   "sent"      on its way to the server                                  *)
(*   "persist"   the handler has rotated the session in memory and awaits  *)
(*               updatePgSession                                           *)
(*   "register"  the await is over, the rotation is not yet registered     *)
(*   "granted", "denied", "failed"   the answer: tokens, 401, no answer    *)
(***************************************************************************)
EXTENDS Naturals, FiniteSets

CONSTANTS
    Tabs,             \* tabs of the browser
    NoToken,          \* no token, no session
    MaxToken,         \* bound: tokens generated
    MaxFailures,      \* bound: writes to PostgreSQL that fail
    MaxDisturbances   \* bound: lost messages, reloads, sign-outs, restarts

ASSUME TabAssumption == Tabs # {}
ASSUME TokenAssumption == MaxToken \in Nat \ {0} /\ NoToken \notin Nat
ASSUME BoundAssumption == MaxFailures \in Nat /\ MaxDisturbances \in Nat

VARIABLES
    session,   \* refreshTokenHash of the session in db.sessions
    row,       \* refresh_token of its row
    grace,     \* tokenRotationGraceMap: what a rotated token was rotated to
    issued,    \* the last token generated
    held,      \* refreshToken of each tab's ApiClient
    stored,    \* nexora_refresh_token in localStorage
    request,   \* the refresh of each tab
    failures, disturbances   \* what the bounds count

vars == <<session, row, grace, issued, held, stored, request, failures, disturbances>>
serverVars == <<session, row, grace, issued>>
browserVars == <<held, stored>>
boundVars == <<failures, disturbances>>

Tokens == 1..MaxToken
MaybeToken == Tokens \cup {NoToken}
Idle == [pc |-> "idle", old |-> NoToken, new |-> NoToken]
Requests == [pc : {"idle", "sent", "persist", "register", "granted", "denied", "failed"},
             old : MaybeToken, new : MaybeToken]

TypeOK ==
    /\ session \in MaybeToken
    /\ row \in Tokens
    /\ grace \in [Tokens -> MaybeToken]
    /\ issued \in Tokens
    /\ held \in [Tabs -> MaybeToken]
    /\ stored \in MaybeToken
    /\ request \in [Tabs -> Requests]
    /\ failures \in Nat /\ disturbances \in Nat

\* The user has logged in and opened the tabs.
Init ==
    /\ session = 1 /\ row = 1 /\ issued = 1
    /\ grace = [k \in Tokens |-> NoToken]
    /\ held = [t \in Tabs |-> 1]
    /\ stored = 1
    /\ request = [t \in Tabs |-> Idle]
    /\ failures = 0 /\ disturbances = 0

At(t, pc) == request[t].pc = pc
Rotating(t) == request[t].pc \in {"persist", "register"}
Becomes(t, pc, new) ==
    request' = [request EXCEPT ![t] = [pc |-> pc, old |-> @.old, new |-> new]]

-----------------------------------------------------------------------------
(* The tab *)

\* A request of the tab got 401: the access token has expired.
Send(t) ==
    /\ At(t, "idle")
    /\ held[t] # NoToken
    /\ request' = [request EXCEPT ![t] = [Idle EXCEPT !.pc = "sent", !.old = held[t]]]
    /\ UNCHANGED <<serverVars, browserVars, boundVars>>

\* Mutant of Granted: the new refresh token is not kept in the tab.
GrantedForgotten(t) ==
    /\ At(t, "granted")
    /\ request' = [request EXCEPT ![t] = Idle]
    /\ stored' = request[t].new
    /\ UNCHANGED <<serverVars, held, boundVars>>

\* setRefreshToken.
Granted(t) ==
    /\ At(t, "granted")
    /\ request' = [request EXCEPT ![t] = Idle]
    /\ held' = [held EXCEPT ![t] = request[t].new]
    /\ stored' = request[t].new
    /\ UNCHANGED <<serverVars, boundVars>>

\* clearSession: after a 401 and, just so, after a network error.
Rejected(t) ==
    /\ request[t].pc \in {"denied", "failed"}
    /\ request' = [request EXCEPT ![t] = Idle]
    /\ held' = [held EXCEPT ![t] = NoToken]
    /\ stored' = NoToken
    /\ UNCHANGED <<serverVars, boundVars>>

\* The user signs out in the tab, which clears in any case.  The session is
\* removed from memory unless the request is lost or the user has a more recent
\* session, which is then removed instead.  The row stays, marked inactive.
SignOut(t) ==
    /\ held[t] # NoToken
    /\ disturbances < MaxDisturbances
    /\ disturbances' = disturbances + 1
    /\ session' \in {session, NoToken}
    /\ held' = [held EXCEPT ![t] = NoToken]
    /\ stored' = NoToken
    /\ UNCHANGED <<row, grace, issued, request, failures>>

\* The session is removed from memory in another way: it has expired, the user
\* closed all sessions on another device, or an administrator suspended it.
Revoke ==
    /\ session # NoToken
    /\ disturbances < MaxDisturbances
    /\ disturbances' = disturbances + 1
    /\ session' = NoToken
    /\ UNCHANGED <<row, grace, issued, browserVars, request, failures>>

\* The page is loaded again: its ApiClient is built from localStorage.
Reload(t) ==
    /\ ~Rotating(t)
    /\ disturbances < MaxDisturbances
    /\ disturbances' = disturbances + 1
    /\ held' = [held EXCEPT ![t] = stored]
    /\ request' = [request EXCEPT ![t] = Idle]
    /\ UNCHANGED <<serverVars, stored, failures>>

\* The request or its answer is lost; fetch rejects.
Lose(t) ==
    /\ request[t].pc \in {"sent", "granted", "denied"}
    /\ disturbances < MaxDisturbances
    /\ disturbances' = disturbances + 1
    /\ Becomes(t, "failed", NoToken)
    /\ UNCHANGED <<serverVars, browserVars, failures>>

-----------------------------------------------------------------------------
(* POST /auth/refresh-token *)

\* The grace record of the token, if there is one; else the session with this
\* token, which is rotated in memory; else 401.
Lookup(t) ==
    /\ At(t, "sent")
    /\ LET old == request[t].old
       IN  \/ /\ grace[old] # NoToken
              /\ Becomes(t, "granted", grace[old])
              /\ UNCHANGED <<session, issued>>
           \/ /\ grace[old] = NoToken /\ session = old
              /\ issued < MaxToken
              /\ issued' = issued + 1
              /\ session' = issued + 1
              /\ Becomes(t, "persist", issued + 1)
           \/ /\ grace[old] = NoToken /\ session # old
              /\ Becomes(t, "denied", NoToken)
              /\ UNCHANGED <<session, issued>>
    /\ UNCHANGED <<row, grace, browserVars, boundVars>>

\* Mutant of Persist: the handler does not wait for the write.
PersistDetached(t) ==
    /\ At(t, "persist")
    /\ Becomes(t, "register", request[t].new)
    /\ UNCHANGED <<serverVars, browserVars, boundVars>>

\* updatePgSession; its catch swallows an error.
Persist(t) ==
    /\ At(t, "persist")
    /\ Becomes(t, "register", request[t].new)
    /\ \/ /\ row' = request[t].new
          /\ UNCHANGED failures
       \/ /\ failures < MaxFailures
          /\ failures' = failures + 1
          /\ UNCHANGED row
    /\ UNCHANGED <<session, grace, issued, browserVars, disturbances>>

\* Mutant of Register: the records that led to the old token now lead to the new.
RegisterChained(t) ==
    /\ At(t, "register")
    /\ grace' = [k \in Tokens |-> IF k = request[t].old \/ grace[k] = request[t].old
                                  THEN request[t].new ELSE grace[k]]
    /\ Becomes(t, "granted", request[t].new)
    /\ UNCHANGED <<session, row, issued, browserVars, boundVars>>

\* registerRotatedToken, and the answer.
Register(t) ==
    /\ At(t, "register")
    /\ grace' = [grace EXCEPT ![request[t].old] = request[t].new]
    /\ Becomes(t, "granted", request[t].new)
    /\ UNCHANGED <<session, row, issued, browserVars, boundVars>>

\* The 30 seconds of a grace record are over.
Expire(k) ==
    /\ grace[k] # NoToken
    /\ grace' = [grace EXCEPT ![k] = NoToken]
    /\ UNCHANGED <<session, row, issued, browserVars, request, boundVars>>

\* The process restarts: sessions are loaded from PostgreSQL, grace records
\* are gone, and the requests at the server end without an answer.
Restart ==
    /\ disturbances < MaxDisturbances
    /\ disturbances' = disturbances + 1
    /\ session' = row
    /\ grace' = [k \in Tokens |-> NoToken]
    /\ request' = [t \in Tabs |-> IF Rotating(t)
                                  THEN [Idle EXCEPT !.pc = "failed"] ELSE request[t]]
    /\ UNCHANGED <<row, issued, browserVars, failures>>

Next ==
    \/ \E t \in Tabs :
          \/ Send(t) \/ Granted(t) \/ Rejected(t)
          \/ SignOut(t) \/ Reload(t) \/ Lose(t)
          \/ Lookup(t) \/ Persist(t) \/ Register(t)
    \/ \E k \in Tokens : Expire(k)
    \/ Revoke
    \/ Restart

Spec == Init /\ [][Next]_vars

-----------------------------------------------------------------------------
(* Properties *)

\* Tokens that a client has, or has been sent, or would be answered from grace.
HandedOut ==
    ({held[t] : t \in Tabs} \cup {stored} \cup {grace[k] : k \in Tokens}
       \cup {request[t].new : t \in {u \in Tabs : At(u, "granted")}}) \ {NoToken}

\* The handler rotates in memory before its await, so two rotations of the
\* session are never in progress together: its writes to the row cannot be
\* applied out of order, whatever the tabs send and when grace ends.
OneRotation == \A t, u \in Tabs : Rotating(t) /\ Rotating(u) => t = u

\* The row is written before the answer leaves: a restart finds in PostgreSQL a
\* session at least as recent as any token a client has.
HandedOutIsDurable == failures = 0 => \A k \in HandedOut : k <= row

\* A token is exchanged for one successor: two tabs that refresh with the same
\* token are answered with the same one, across restarts and expired grace.
NoFork ==
    failures = 0 =>
        \A t, u \in Tabs :
            At(t, "granted") /\ At(u, "granted") /\ request[t].old = request[u].old
                => request[t].new = request[u].new

\* Tabs that only refresh, in any interleaving, never strand their session,
\* whatever PostgreSQL does: the token it expects is in one of them or on its
\* way, although a tab that loses the race against a rotation clears its own and
\* the common storage.
CurrentTokenHeld ==
    disturbances = 0 =>
        \E t \in Tabs :
           \/ held[t] = session
           \/ request[t].pc \in {"persist", "register", "granted"}
                 /\ request[t].new = session

-----------------------------------------------------------------------------
(* The inductive strengthening of the properties that are proved *)

\* What a request carries at each stage; a successor is younger than its token.
RequestInv ==
    \A t \in Tabs :
        /\ request[t].pc \in {"sent", "persist", "register", "granted"}
              => request[t].old \in Tokens
        /\ request[t].pc \in {"persist", "register", "granted"}
              => request[t].new \in Tokens /\ request[t].old < request[t].new

\* Nothing a client has, or may be answered, is younger than n.
HandedOutUpTo(n) ==
    /\ \A t \in Tabs : held[t] # NoToken => held[t] <= n
    /\ stored # NoToken => stored <= n
    /\ \A k \in Tokens : grace[k] # NoToken => grace[k] <= n
    /\ \A t \in Tabs : At(t, "granted") => request[t].new <= n
SentUpTo(n) == \A t \in Tabs : At(t, "sent") => request[t].old <= n

AgeInv ==
    /\ HandedOutUpTo(issued) /\ SentUpTo(issued) /\ row <= issued
    /\ session # NoToken => row <= session /\ session <= issued
    /\ \A k \in Tokens : grace[k] # NoToken => k < grace[k]

\* The token of a rotation in progress is the last one issued, and nobody else
\* has it: no request can find the session.
RotationInv ==
    /\ OneRotation
    /\ \A t \in Tabs : Rotating(t) =>
          /\ request[t].new = issued
          /\ session \in {issued, NoToken}
          /\ HandedOutUpTo(issued - 1) /\ SentUpTo(issued - 1)

DurableInv ==
    failures = 0 =>
        /\ HandedOutUpTo(row)
        /\ \A t \in Tabs : At(t, "register") => request[t].new <= row

\* The successor of a token in an answer agrees with the other answers, with
\* the grace record, and with the rotations in progress.
ForkInv ==
    failures = 0 =>
        /\ \A t \in Tabs : At(t, "granted")
              => grace[request[t].old] \in {NoToken, request[t].new}
        /\ \A t \in Tabs : Rotating(t)
              => /\ grace[request[t].old] = NoToken
                 /\ \A u \in Tabs : At(u, "granted") => request[u].old # request[t].old
        /\ NoFork

\* Tabs that only refresh: the session expects the last token issued, a tab
\* keeps the token it asked with until the answer, and a refused token is old.
HeldInv ==
    disturbances = 0 =>
        /\ session = issued
        /\ \A t \in Tabs :
              /\ ~At(t, "failed")
              /\ ~At(t, "idle") => held[t] = request[t].old
              /\ At(t, "denied") => request[t].old \in Tokens /\ request[t].old < issued

Inv == TypeOK /\ RequestInv /\ AgeInv /\ RotationInv /\ DurableInv /\ ForkInv
=============================================================================
