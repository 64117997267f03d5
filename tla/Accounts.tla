------------------------------ MODULE Accounts ------------------------------
(***************************************************************************)
(* ONE account: signing in, the lock of the account, its sessions, its     *)
(* password and its status (server/routes/auth.ts, security.ts, the user   *)
(* administration of admin.ts).                                            *)
(*                                                                         *)
(* The login handler awaits twice.  Between the check of the lock and the  *)
(* check of the password it asks PostgreSQL for the user ("select"); the   *)
(* session is in db.sessions before its INSERT is answered ("insert").     *)
(* Every other handler of auth.ts changes memory in one go.  A row of      *)
(* user_sessions is marked inactive at most, and the load at boot does not *)
(* look at the mark: a row is a session that comes back.                   *)
(*                                                                         *)
(* Locks are kept per identifier that is typed (e-mail or user name): this  *)
(* is the record of one.  Left out: the limit of requests per address,     *)
(* answers, audit entries.  Refreshing is the subject of TokenRotation.    *)
(***************************************************************************)
EXTENDS Naturals, FiniteSets

CONSTANTS
    Devices,       \* browsers that sign in to the account
    Admins,        \* status changes that may be in flight
    MaxAttempts,   \* MAX_LOGIN_ATTEMPTS
    MaxSessions,   \* bound: sessions opened
    MaxActs        \* bound: sign-outs, revocations, expiries, failures, restarts

ASSUME DeviceAssumption == IsFiniteSet(Devices) /\ Devices # {}
ASSUME AttemptAssumption == MaxAttempts \in Nat \ {0}
ASSUME BoundAssumption == MaxSessions \in Nat /\ MaxActs \in Nat

VARIABLES
    lock,       \* LockoutRecord: failedAttempts, and what lockedUntil says
    login,      \* the login request of each device
    sessions,   \* db.sessions
    rows,       \* user_sessions
    signed,     \* the session each device believes in; 0 when signed out
    opened,     \* sessions opened so far; they are numbered
    boot,       \* those opened before the process started
    password, passwordRow,   \* passwordHash, in memory and in users
    status, statusRow,       \* accountStatus and isActive, likewise
    resetToken, \* a passwordResetTokens entry that was not used
    admin,      \* the handlers of administrators
    guesses,    \* history: wrong passwords checked since the record was new
    epoch,      \* history: how often all sessions were revoked
    lost,       \* history: sign-ins and sign-outs whose other end did not hear of it
    mixed,      \* history: status changes overlapped, or one was not written
    acts        \* what the bound counts

authVars == <<lock, login, guesses>>
sessionVars == <<sessions, rows, signed, opened, boot, epoch, lost>>
userVars == <<password, passwordRow, status, statusRow, resetToken, admin, mixed>>
vars == <<authVars, sessionVars, userVars, acts>>

Session == [id : 0..MaxSessions, epoch : Nat]
NoSession == [id |-> 0, epoch |-> 0]
Idle == [pc |-> "idle", typed |-> 0, session |-> NoSession]
Statuses == {"Active", "Inactive"}
NewRecord == [fails |-> 0, state |-> "open"]
Resting == [pc |-> "idle", value |-> "Active"]

TypeOfAuth ==
    /\ lock \in [fails : Nat, state : {"open", "locked", "expired"}]
    /\ login \in [Devices -> [pc : {"idle", "select", "insert"}, typed : Nat, session : Session]]
    /\ guesses \in Nat
TypeOfSessions ==
    /\ sessions \in SUBSET Session /\ rows \in SUBSET Session
    /\ signed \in [Devices -> 0..MaxSessions]
    /\ opened \in 0..MaxSessions /\ boot \in 0..MaxSessions
    /\ epoch \in Nat /\ lost \in Nat
TypeOfUser ==
    /\ password \in Nat /\ passwordRow \in Nat
    /\ status \in Statuses /\ statusRow \in Statuses
    /\ admin \in [Admins -> [pc : {"idle", "member", "user"}, value : Statuses]]
TypeOfFlags == resetToken \in BOOLEAN /\ mixed \in BOOLEAN
TypeOK == TypeOfAuth /\ TypeOfSessions /\ TypeOfUser /\ TypeOfFlags /\ acts \in 0..MaxActs

Init ==
    /\ lock = NewRecord /\ guesses = 0
    /\ login = [d \in Devices |-> Idle]
    /\ sessions = {} /\ rows = {} /\ opened = 0 /\ boot = 0
    /\ signed = [d \in Devices |-> 0]
    /\ password = 1 /\ passwordRow = 1
    /\ status = "Active" /\ statusRow = "Active"
    /\ resetToken = FALSE
    /\ admin = [a \in Admins |-> Resting]
    /\ epoch = 0 /\ lost = 0 /\ mixed = FALSE /\ acts = 0

Act == acts < MaxActs /\ acts' = acts + 1
At(d, pc) == login[d].pc = pc
SignedIn(d) == signed[d] # 0
Selecting == {d \in Devices : At(d, "select")}
Opening == {d \in Devices : At(d, "insert")}

-----------------------------------------------------------------------------
(* The lock of the account *)

\* clearFailedLogins, unlockAccount.
ClearFailedLogins == lock' = NewRecord /\ guesses' = 0

\* Mutant of RecordFailedLogin: the counter starts again with every lock.
RecordFailedAnew ==
    /\ guesses' = guesses + 1
    /\ IF lock.state = "locked" THEN UNCHANGED lock
       ELSE lock' = IF lock.fails + 1 >= MaxAttempts THEN [fails |-> 0, state |-> "locked"]
                    ELSE [fails |-> lock.fails + 1, state |-> "open"]

\* recordFailedLogin; a record that is locked is not extended.
RecordFailedLogin ==
    /\ guesses' = guesses + 1
    /\ IF lock.state = "locked" THEN UNCHANGED lock
       ELSE lock' = [fails |-> lock.fails + 1,
                     state |-> IF lock.fails + 1 >= MaxAttempts THEN "locked" ELSE lock.state]

\* The time of the lock is over.
LockExpires ==
    /\ Act /\ lock.state = "locked" /\ lock' = [lock EXCEPT !.state = "expired"]
    /\ UNCHANGED <<login, guesses, sessionVars, userVars>>

\* POST /auth/unlock.
Unlock == Act /\ ClearFailedLogins /\ UNCHANGED <<login, sessionVars, userVars>>

-----------------------------------------------------------------------------
(* Signing in *)

\* POST /auth/login, up to its first await: the check of the lock, which forgets
\* a record that has expired.  The user types a password the account has or
\* had; 0 is one it never had.
Attempt(d, typed) ==
    /\ At(d, "idle") /\ ~SignedIn(d)
    /\ lock.state # "locked"
    /\ IF lock.state = "expired" THEN ClearFailedLogins ELSE UNCHANGED <<lock, guesses>>
    /\ login' = [login EXCEPT ![d] = [pc |-> "select", typed |-> typed, session |-> NoSession]]
    /\ UNCHANGED <<sessionVars, userVars, acts>>

\* A session for the device, in memory; the next await is its INSERT.
Open(d) ==
    LET s == [id |-> opened + 1, epoch |-> epoch] IN
    /\ opened < MaxSessions /\ opened' = opened + 1
    /\ sessions' = sessions \cup {s}
    /\ login' = [login EXCEPT ![d] = [pc |-> "insert", typed |-> 0, session |-> s]]

\* The SELECT was answered, or failed: the password, then the status, which
\* clears the record even when the account is not active.
CheckPassword(d) ==
    /\ At(d, "select")
    /\ \/ /\ login[d].typed # password /\ RecordFailedLogin
          /\ login' = [login EXCEPT ![d] = Idle] /\ UNCHANGED <<sessions, opened>>
       \/ /\ login[d].typed = password /\ status # "Active" /\ ClearFailedLogins
          /\ login' = [login EXCEPT ![d] = Idle] /\ UNCHANGED <<sessions, opened>>
       \/ /\ login[d].typed = password /\ status = "Active" /\ ClearFailedLogins
          /\ Open(d)
    /\ UNCHANGED <<rows, signed, boot, epoch, lost, userVars, acts>>

\* The answer reaches the device, or it does not.
Hears(d, s) ==
    /\ login' = [login EXCEPT ![d] = Idle]
    /\ \/ signed' = [signed EXCEPT ![d] = s.id] /\ UNCHANGED <<lost, acts>>
       \/ Act /\ lost' = lost + 1 /\ UNCHANGED signed

\* Mutant of Opened: the session is in memory when it is in the table.
OpenedAtLast(d) ==
    /\ At(d, "insert") /\ Hears(d, login[d].session)
    /\ rows' \in {rows, rows \cup {login[d].session}}
    /\ sessions' = sessions \cup {login[d].session}
    /\ UNCHANGED <<lock, guesses, opened, boot, epoch, userVars>>

\* The INSERT was answered, or failed, which is only logged.
Opened(d) ==
    /\ At(d, "insert") /\ Hears(d, login[d].session)
    /\ rows' \in {rows, rows \cup {login[d].session}}
    /\ UNCHANGED <<lock, guesses, sessions, opened, boot, epoch, userVars>>

\* POST /auth/firebase-login, /auth/switch-user: no lock, no status, no row.
SignInElsewhere(d) ==
    /\ At(d, "idle") /\ ~SignedIn(d) /\ opened < MaxSessions
    /\ opened' = opened + 1
    /\ sessions' = sessions \cup {[id |-> opened + 1, epoch |-> epoch]}
    /\ Hears(d, [id |-> opened + 1, epoch |-> epoch])
    /\ UNCHANGED <<lock, guesses, rows, boot, epoch, userVars>>

-----------------------------------------------------------------------------
(* Signing out *)

\* The last session of the user in db.sessions; those that were loaded have no order.
Latest(s) == s \in sessions /\ \A t \in sessions : t.id <= s.id \/ t.id <= boot

\* Mutant of SignOut: the request names no session, and no session is removed.
SignOutNone(d) ==
    /\ Act /\ SignedIn(d) /\ signed' = [signed EXCEPT ![d] = 0]
    /\ ClearFailedLogins /\ UNCHANGED <<sessions, lost>>
    /\ UNCHANGED <<login, rows, opened, boot, epoch, userVars>>

\* POST /auth/logout names no session: the latest of the user is removed,
\* and the lock.  The device forgets its own in any case.
SignOut(d) ==
    /\ Act /\ SignedIn(d) /\ signed' = [signed EXCEPT ![d] = 0]
    /\ \/ /\ ClearFailedLogins /\ UNCHANGED lost
          /\ IF sessions = {} THEN UNCHANGED sessions
             ELSE \E s \in sessions : Latest(s) /\ sessions' = sessions \ {s}
       \/ lost' = lost + 1 /\ UNCHANGED <<sessions, lock, guesses>>
    /\ UNCHANGED <<login, rows, opened, boot, epoch, userVars>>

\* A refresh is refused: the session is gone, or the account is not active, or
\* the session has expired, which removes it.
Refused(d) ==
    /\ SignedIn(d) /\ signed' = [signed EXCEPT ![d] = 0]
    /\ \/ /\ status # "Active" \/ \A s \in sessions : s.id # signed[d]
          /\ lost' = lost + 1 /\ UNCHANGED <<sessions, acts>>
       \/ /\ Act /\ UNCHANGED lost
          /\ \E s \in sessions : s.id = signed[d] /\ sessions' = sessions \ {s}
    /\ UNCHANGED <<authVars, rows, opened, boot, epoch, userVars>>

\* DELETE /auth/sessions/:sessionId, from a list that is on display.
RevokeOne(s) ==
    /\ Act /\ s \in sessions /\ (\E d \in Devices : SignedIn(d)) /\ status = "Active"
    /\ sessions' = sessions \ {s}
    /\ UNCHANGED <<authVars, rows, signed, opened, boot, epoch, lost, userVars>>

RevokeAll == sessions' = {} /\ epoch' = epoch + 1

\* POST /auth/logout-all.
LogoutAll ==
    /\ Act /\ (\E d \in Devices : SignedIn(d)) /\ status = "Active" /\ RevokeAll
    /\ UNCHANGED <<authVars, rows, signed, opened, boot, lost, userVars>>

-----------------------------------------------------------------------------
(* Passwords: only memory *)

\* POST /auth/forgot-password.
ForgotPassword ==
    /\ Act /\ resetToken' = TRUE
    /\ UNCHANGED <<authVars, sessionVars, password, passwordRow, status, statusRow, admin, mixed>>

\* POST /auth/reset-password.
ResetPassword ==
    /\ Act /\ resetToken /\ resetToken' = FALSE
    /\ password' = password + 1 /\ RevokeAll
    /\ UNCHANGED <<authVars, rows, signed, opened, boot, lost,
                   passwordRow, status, statusRow, admin, mixed>>

\* POST /auth/change-password, which leaves the sessions alone.
ChangePassword ==
    /\ Act /\ (\E d \in Devices : SignedIn(d)) /\ status = "Active"
    /\ password' = password + 1
    /\ UNCHANGED <<authVars, sessionVars, passwordRow, status, statusRow, resetToken, admin, mixed>>

-----------------------------------------------------------------------------
(* The status of the account, set by an administrator *)

adminRest == <<authVars, rows, signed, opened, boot, lost, password, passwordRow, resetToken>>
AdminAt(a, pc) == admin[a].pc = pc

\* The status in memory, and the sessions unless the account becomes active.
StatusBecomes(s) ==
    status' = s /\ IF s = "Active" THEN UNCHANGED <<sessions, epoch>> ELSE RevokeAll

AdminStarts(a, pc) ==
    /\ Act /\ AdminAt(a, "idle") /\ admin' = [admin EXCEPT ![a] = [pc |-> pc, value |-> status']]
    /\ mixed' = (mixed \/ \E b \in Admins : ~AdminAt(b, "idle"))
    /\ UNCHANGED <<adminRest, statusRow>>

\* handleStatusUpdate: memory, then the row of the membership.
SetStatus(a, s) == StatusBecomes(s) /\ AdminStarts(a, "member")

\* PUT and DELETE /admin/users/:id: memory, then the row of the user, with the
\* status even when only a name was changed.
UpdateUser(a) ==
    /\ (\E s \in Statuses : StatusBecomes(s)) \/ UNCHANGED <<status, sessions, epoch>>
    /\ AdminStarts(a, "user")

\* The membership is written: now the user, with the status of this moment.
MemberWritten(a) ==
    /\ AdminAt(a, "member")
    /\ admin' = [admin EXCEPT ![a] = [pc |-> "user", value |-> status]]
    /\ UNCHANGED <<adminRest, sessions, epoch, status, statusRow, mixed, acts>>

\* persistUserUpdate; its catch swallows an error.
UserWritten(a) ==
    /\ AdminAt(a, "user") /\ admin' = [admin EXCEPT ![a] = Resting]
    /\ \/ statusRow' = admin[a].value /\ UNCHANGED <<mixed, acts>>
       \/ Act /\ mixed' = TRUE /\ UNCHANGED statusRow
    /\ UNCHANGED <<adminRest, sessions, epoch, status>>

-----------------------------------------------------------------------------
(* The process ends and starts again: syncFromPostgres *)

\* What was on its way to the tables may have arrived or not.
Arriving == {login[d].session : d \in Opening}

Restart ==
    /\ Act
    /\ \E arrived \in SUBSET Arriving : rows' = rows \cup arrived
    /\ statusRow' \in {statusRow} \cup {admin[a].value : a \in {b \in Admins : AdminAt(b, "user")}}
    /\ sessions' = rows' /\ status' = statusRow' /\ password' = passwordRow
    /\ lock' = NewRecord /\ guesses' = 0
    /\ login' = [d \in Devices |-> Idle] /\ admin' = [a \in Admins |-> Resting]
    /\ resetToken' = FALSE /\ mixed' = FALSE
    /\ boot' = opened
    /\ UNCHANGED <<signed, opened, epoch, lost, passwordRow>>

-----------------------------------------------------------------------------
Next ==
    \/ \E d \in Devices :
        \/ \E typed \in 0..password : Attempt(d, typed)
        \/ CheckPassword(d) \/ Opened(d) \/ SignInElsewhere(d)
        \/ SignOut(d) \/ Refused(d)
    \/ \E s \in sessions : RevokeOne(s)
    \/ LogoutAll \/ ForgotPassword \/ ResetPassword \/ ChangePassword
    \/ \E a \in Admins :
        \/ \E s \in Statuses : SetStatus(a, s)
        \/ UpdateUser(a) \/ MemberWritten(a) \/ UserWritten(a)
    \/ LockExpires \/ Unlock \/ Restart

Spec == Init /\ [][Next]_vars

-----------------------------------------------------------------------------
(* Properties *)

\* Between two moments at which the record starts anew, no more wrong passwords
\* are checked than the limit and the requests that had passed the check of the
\* lock when it closed (security.ts: "5 attempts = 5 minutes lockout"): the check
\* and the count have an await between them.
GuessesBounded ==
    IF lock.state = "open" THEN guesses < MaxAttempts
    ELSE guesses + Cardinality(Selecting) <= MaxAttempts + Cardinality(Devices) - 1

\* A session opened since the process started was opened after the last
\* revocation of all sessions, even when the revocation came while the login
\* waited for PostgreSQL.
Recent == {s \in sessions : s.id > boot}
RevocationHolds == \A s \in Recent : s.epoch = epoch

\* Although signing out removes the latest session, which may be another
\* device's, no session is left over when every device has signed out: of those
\* opened since the start there are no more than devices that hold one, wait
\* for one, or lost one.
Holding == {d \in Devices : signed[d] > boot}
NoSessionLeft == Cardinality(Recent) <= Cardinality(Holding) + Cardinality(Opening) + lost

\* A status that one administrator set, and that was written, is the one the
\* next start will load.
StatusWritten == (~mixed /\ \A a \in Admins : AdminAt(a, "idle")) => statusRow = status

-----------------------------------------------------------------------------
(* What the invariants need to be inductive *)

\* While the record is open, it counts what was guessed.
LockInv == GuessesBounded /\ (lock.state = "open" => guesses = lock.fails)

SessionsFinite == IsFiniteSet(sessions) /\ IsFiniteSet(rows)
Numbered == boot <= opened /\ \A s \in sessions \cup rows \cup Arriving : s.id <= opened

\* A device that signs in has no session yet; the one it waits for is recent.
SigningIn ==
    \A d \in Devices : ~At(d, "idle") =>
        ~SignedIn(d) /\ (At(d, "insert") => login[d].session.id > boot)

\* One administrator at a time, who writes the status that is set.
StatusInv ==
    ~mixed =>
        /\ \A a, b \in Admins : ~AdminAt(a, "idle") /\ ~AdminAt(b, "idle") => a = b
        /\ \A a \in Admins : AdminAt(a, "user") => admin[a].value = status
        /\ (\A a \in Admins : AdminAt(a, "idle")) => statusRow = status

Inv == TypeOK /\ SessionsFinite /\ Numbered /\ SigningIn /\ LockInv /\ RevocationHolds /\ NoSessionLeft /\ StatusInv
=============================================================================
