--------------------------- MODULE AccountsProofs ---------------------------
(***************************************************************************)
(* What is proved about the sessions of an account (Accounts) and about    *)
(* the organization its user belongs to (Tenancy), for any number of       *)
(* devices, administrators, users, handlers, failing statements and        *)
(* restarts. The two specifications share no name; no theorem is about     *)
(* both.                                                                   *)
(*                                                                         *)
(* Accounts: Inv is inductive, conjunct by conjunct.  A step adds one      *)
(* session at most (GrowStep), so that the sessions stay finitely many and *)
(* the cardinalities of GuessesBounded and NoSessionLeft make sense.       *)
(*                                                                         *)
(* Tenancy: TenancyInv is inductive.  The handlers carry what their next   *)
(* statement needs (HandlerInv, ReferenceInv); alone, the one at work      *)
(* accounts for every difference between memory and the tables (AloneInv,  *)
(* TablesInv); OwnerInv and BarredInv say who owns the workspace and who   *)
(* stays out of it, and ClosingInv how an account is closed, two           *)
(* statements apart.  A step is about the organization or about the        *)
(* people, and leaves what the invariant says of the others alone          *)
(* (OrganizationFrame, PeopleFrame).                                       *)
(***************************************************************************)
EXTENDS Accounts, Tenancy, SequenceTheorems, FiniteSetTheorems, TLAPS

-----------------------------------------------------------------------------
(* Accounts *)

\* Every variable keeps its type.
LEMMA TypeStep == TypeOK /\ [Next]_vars => TypeOK'
<1> SUFFICES ASSUME TypeOK, [Next]_vars PROVE TypeOK'
  OBVIOUS
<1> USE DeviceAssumption, AttemptAssumption, BoundAssumption
<1>1. ASSUME NEW d \in Devices, NEW typed \in 0..password, Attempt(d, typed) PROVE TypeOK'
  <2>1. TypeOfAuth'
    BY <1>1 DEF TypeOK, TypeOfAuth, TypeOfSessions, Session, Attempt, ClearFailedLogins, sessionVars, userVars, At, Idle, SignedIn, NewRecord, NoSession, Resting
  <2>2. TypeOfSessions'
    BY <1>1 DEF TypeOK, TypeOfAuth, TypeOfSessions, Session, Attempt, ClearFailedLogins, sessionVars, userVars, At, Idle, SignedIn, NewRecord, NoSession, Resting
  <2>3. TypeOfUser' /\ (acts \in 0..MaxActs)'
    BY <1>1 DEF TypeOK, TypeOfUser, Statuses, Attempt, ClearFailedLogins, sessionVars, userVars, At, Idle, SignedIn, NewRecord, NoSession, Resting
  <2>4. TypeOfFlags'
    BY <1>1 DEF TypeOK, TypeOfFlags, Attempt, ClearFailedLogins, sessionVars, userVars, At, Idle, SignedIn, NewRecord, NoSession, Resting
  <2>5. QED
    BY <2>1, <2>2, <2>3, <2>4 DEF TypeOK
<1>2. ASSUME NEW d \in Devices, CheckPassword(d) PROVE TypeOK'
  <2>1. TypeOfAuth'
    BY <1>2 DEF TypeOK, TypeOfAuth, TypeOfSessions, Session, CheckPassword, RecordFailedLogin, ClearFailedLogins, Open, userVars, At, Idle, NewRecord, NoSession, Resting
  <2>2. TypeOfSessions'
    BY <1>2 DEF TypeOK, TypeOfAuth, TypeOfSessions, Session, CheckPassword, RecordFailedLogin, ClearFailedLogins, Open, userVars, At, Idle, NewRecord, NoSession, Resting
  <2>3. TypeOfUser' /\ (acts \in 0..MaxActs)'
    BY <1>2 DEF TypeOK, TypeOfUser, Statuses, CheckPassword, RecordFailedLogin, ClearFailedLogins, Open, userVars, At, Idle, NewRecord, NoSession, Resting
  <2>4. TypeOfFlags'
    BY <1>2 DEF TypeOK, TypeOfFlags, CheckPassword, RecordFailedLogin, ClearFailedLogins, Open, userVars, At, Idle, NewRecord, NoSession, Resting
  <2>5. QED
    BY <2>1, <2>2, <2>3, <2>4 DEF TypeOK
<1>3. ASSUME NEW d \in Devices, Opened(d) PROVE TypeOK'
  <2>1. TypeOfAuth'
    BY <1>3 DEF TypeOK, TypeOfAuth, TypeOfSessions, Session, Opened, Hears, Act, userVars, At, Idle, NewRecord, NoSession, Resting
  <2>2. TypeOfSessions'
    BY <1>3 DEF TypeOK, TypeOfAuth, TypeOfSessions, Session, Opened, Hears, Act, userVars, At, Idle, NewRecord, NoSession, Resting
  <2>3. TypeOfUser' /\ (acts \in 0..MaxActs)'
    BY <1>3 DEF TypeOK, TypeOfUser, Statuses, Opened, Hears, Act, userVars, At, Idle, NewRecord, NoSession, Resting
  <2>4. TypeOfFlags'
    BY <1>3 DEF TypeOK, TypeOfFlags, Opened, Hears, Act, userVars, At, Idle, NewRecord, NoSession, Resting
  <2>5. QED
    BY <2>1, <2>2, <2>3, <2>4 DEF TypeOK
<1>4. ASSUME NEW d \in Devices, SignInElsewhere(d) PROVE TypeOK'
  <2>1. TypeOfAuth'
    BY <1>4 DEF TypeOK, TypeOfAuth, TypeOfSessions, Session, SignInElsewhere, Hears, Act, userVars, At, Idle, SignedIn, NewRecord, NoSession, Resting
  <2>2. TypeOfSessions'
    BY <1>4 DEF TypeOK, TypeOfAuth, TypeOfSessions, Session, SignInElsewhere, Hears, Act, userVars, At, Idle, SignedIn, NewRecord, NoSession, Resting
  <2>3. TypeOfUser' /\ (acts \in 0..MaxActs)'
    BY <1>4 DEF TypeOK, TypeOfUser, Statuses, SignInElsewhere, Hears, Act, userVars, At, Idle, SignedIn, NewRecord, NoSession, Resting
  <2>4. TypeOfFlags'
    BY <1>4 DEF TypeOK, TypeOfFlags, SignInElsewhere, Hears, Act, userVars, At, Idle, SignedIn, NewRecord, NoSession, Resting
  <2>5. QED
    BY <2>1, <2>2, <2>3, <2>4 DEF TypeOK
<1>5. ASSUME NEW d \in Devices, SignOut(d) PROVE TypeOK'
  <2>1. TypeOfAuth'
    BY <1>5 DEF TypeOK, TypeOfAuth, TypeOfSessions, Session, SignOut, Act, ClearFailedLogins, Latest, userVars, SignedIn, NewRecord, Idle, NoSession, Resting
  <2>2. TypeOfSessions'
    BY <1>5 DEF TypeOK, TypeOfAuth, TypeOfSessions, Session, SignOut, Act, ClearFailedLogins, Latest, userVars, SignedIn, NewRecord, Idle, NoSession, Resting
  <2>3. TypeOfUser' /\ (acts \in 0..MaxActs)'
    BY <1>5 DEF TypeOK, TypeOfUser, Statuses, SignOut, Act, ClearFailedLogins, Latest, userVars, SignedIn, NewRecord, Idle, NoSession, Resting
  <2>4. TypeOfFlags'
    BY <1>5 DEF TypeOK, TypeOfFlags, SignOut, Act, ClearFailedLogins, Latest, userVars, SignedIn, NewRecord, Idle, NoSession, Resting
  <2>5. QED
    BY <2>1, <2>2, <2>3, <2>4 DEF TypeOK
<1>6. ASSUME NEW d \in Devices, Refused(d) PROVE TypeOK'
  <2>1. TypeOfAuth'
    BY <1>6 DEF TypeOK, TypeOfAuth, TypeOfSessions, Session, Refused, Act, authVars, userVars, SignedIn, NewRecord, Idle, NoSession, Resting
  <2>2. TypeOfSessions'
    BY <1>6 DEF TypeOK, TypeOfAuth, TypeOfSessions, Session, Refused, Act, authVars, userVars, SignedIn, NewRecord, Idle, NoSession, Resting
  <2>3. TypeOfUser' /\ (acts \in 0..MaxActs)'
    BY <1>6 DEF TypeOK, TypeOfUser, Statuses, Refused, Act, authVars, userVars, SignedIn, NewRecord, Idle, NoSession, Resting
  <2>4. TypeOfFlags'
    BY <1>6 DEF TypeOK, TypeOfFlags, Refused, Act, authVars, userVars, SignedIn, NewRecord, Idle, NoSession, Resting
  <2>5. QED
    BY <2>1, <2>2, <2>3, <2>4 DEF TypeOK
<1>7. ASSUME NEW s \in sessions, RevokeOne(s) PROVE TypeOK'
  <2>1. TypeOfAuth'
    BY <1>7 DEF TypeOK, TypeOfAuth, TypeOfSessions, Session, RevokeOne, Act, authVars, userVars
  <2>2. TypeOfSessions'
    BY <1>7 DEF TypeOK, TypeOfAuth, TypeOfSessions, Session, RevokeOne, Act, authVars, userVars
  <2>3. TypeOfUser' /\ (acts \in 0..MaxActs)'
    BY <1>7 DEF TypeOK, TypeOfUser, Statuses, RevokeOne, Act, authVars, userVars
  <2>4. TypeOfFlags'
    BY <1>7 DEF TypeOK, TypeOfFlags, RevokeOne, Act, authVars, userVars
  <2>5. QED
    BY <2>1, <2>2, <2>3, <2>4 DEF TypeOK
<1>8. ASSUME LogoutAll PROVE TypeOK'
  <2>1. TypeOfAuth'
    BY <1>8 DEF TypeOK, TypeOfAuth, TypeOfSessions, Session, LogoutAll, Act, RevokeAll, authVars, userVars
  <2>2. TypeOfSessions'
    BY <1>8 DEF TypeOK, TypeOfAuth, TypeOfSessions, Session, LogoutAll, Act, RevokeAll, authVars, userVars
  <2>3. TypeOfUser' /\ (acts \in 0..MaxActs)'
    BY <1>8 DEF TypeOK, TypeOfUser, Statuses, LogoutAll, Act, RevokeAll, authVars, userVars
  <2>4. TypeOfFlags'
    BY <1>8 DEF TypeOK, TypeOfFlags, LogoutAll, Act, RevokeAll, authVars, userVars
  <2>5. QED
    BY <2>1, <2>2, <2>3, <2>4 DEF TypeOK
<1>9. ASSUME ForgotPassword PROVE TypeOK'
  <2>1. TypeOfAuth'
    BY <1>9 DEF TypeOK, TypeOfAuth, TypeOfSessions, Session, ForgotPassword, Act, authVars, sessionVars
  <2>2. TypeOfSessions'
    BY <1>9 DEF TypeOK, TypeOfAuth, TypeOfSessions, Session, ForgotPassword, Act, authVars, sessionVars
  <2>3. TypeOfUser' /\ (acts \in 0..MaxActs)'
    BY <1>9 DEF TypeOK, TypeOfUser, Statuses, ForgotPassword, Act, authVars, sessionVars
  <2>4. TypeOfFlags'
    BY <1>9 DEF TypeOK, TypeOfFlags, ForgotPassword, Act, authVars, sessionVars
  <2>5. QED
    BY <2>1, <2>2, <2>3, <2>4 DEF TypeOK
<1>10. ASSUME ResetPassword PROVE TypeOK'
  <2>1. TypeOfAuth'
    BY <1>10 DEF TypeOK, TypeOfAuth, TypeOfSessions, Session, ResetPassword, Act, RevokeAll, authVars
  <2>2. TypeOfSessions'
    BY <1>10 DEF TypeOK, TypeOfAuth, TypeOfSessions, Session, ResetPassword, Act, RevokeAll, authVars
  <2>3. TypeOfUser' /\ (acts \in 0..MaxActs)'
    BY <1>10 DEF TypeOK, TypeOfUser, Statuses, ResetPassword, Act, RevokeAll, authVars
  <2>4. TypeOfFlags'
    BY <1>10 DEF TypeOK, TypeOfFlags, ResetPassword, Act, RevokeAll, authVars
  <2>5. QED
    BY <2>1, <2>2, <2>3, <2>4 DEF TypeOK
<1>11. ASSUME ChangePassword PROVE TypeOK'
  <2>1. TypeOfAuth'
    BY <1>11 DEF TypeOK, TypeOfAuth, TypeOfSessions, Session, ChangePassword, Act, authVars, sessionVars
  <2>2. TypeOfSessions'
    BY <1>11 DEF TypeOK, TypeOfAuth, TypeOfSessions, Session, ChangePassword, Act, authVars, sessionVars
  <2>3. TypeOfUser' /\ (acts \in 0..MaxActs)'
    BY <1>11 DEF TypeOK, TypeOfUser, Statuses, ChangePassword, Act, authVars, sessionVars
  <2>4. TypeOfFlags'
    BY <1>11 DEF TypeOK, TypeOfFlags, ChangePassword, Act, authVars, sessionVars
  <2>5. QED
    BY <2>1, <2>2, <2>3, <2>4 DEF TypeOK
<1>12. ASSUME NEW a \in Admins, NEW s \in Statuses, SetStatus(a, s) PROVE TypeOK'
  <2>1. TypeOfAuth'
    BY <1>12 DEF TypeOK, TypeOfAuth, TypeOfSessions, Session, SetStatus, StatusBecomes, AdminStarts, RevokeAll, Act, AdminAt, adminRest, authVars
  <2>2. TypeOfSessions'
    BY <1>12 DEF TypeOK, TypeOfAuth, TypeOfSessions, Session, SetStatus, StatusBecomes, AdminStarts, RevokeAll, Act, AdminAt, adminRest, authVars
  <2>3. TypeOfUser' /\ (acts \in 0..MaxActs)'
    BY <1>12 DEF TypeOK, TypeOfUser, Statuses, SetStatus, StatusBecomes, AdminStarts, RevokeAll, Act, AdminAt, adminRest, authVars
  <2>4. TypeOfFlags'
    BY <1>12 DEF TypeOK, TypeOfFlags, SetStatus, StatusBecomes, AdminStarts, RevokeAll, Act, AdminAt, adminRest, authVars
  <2>5. QED
    BY <2>1, <2>2, <2>3, <2>4 DEF TypeOK
<1>13. ASSUME NEW a \in Admins, UpdateUser(a) PROVE TypeOK'
  <2>1. TypeOfAuth'
    BY <1>13 DEF TypeOK, TypeOfAuth, TypeOfSessions, Session, UpdateUser, StatusBecomes, AdminStarts, RevokeAll, Act, AdminAt, adminRest, authVars
  <2>2. TypeOfSessions'
    BY <1>13 DEF TypeOK, TypeOfAuth, TypeOfSessions, Session, UpdateUser, StatusBecomes, AdminStarts, RevokeAll, Act, AdminAt, adminRest, authVars
  <2>3. TypeOfUser' /\ (acts \in 0..MaxActs)'
    BY <1>13 DEF TypeOK, TypeOfUser, Statuses, UpdateUser, StatusBecomes, AdminStarts, RevokeAll, Act, AdminAt, adminRest, authVars
  <2>4. TypeOfFlags'
    BY <1>13 DEF TypeOK, TypeOfFlags, UpdateUser, StatusBecomes, AdminStarts, RevokeAll, Act, AdminAt, adminRest, authVars
  <2>5. QED
    BY <2>1, <2>2, <2>3, <2>4 DEF TypeOK
<1>14. ASSUME NEW a \in Admins, MemberWritten(a) PROVE TypeOK'
  <2>1. TypeOfAuth'
    BY <1>14 DEF TypeOK, TypeOfAuth, TypeOfSessions, Session, MemberWritten, AdminAt, adminRest, authVars
  <2>2. TypeOfSessions'
    BY <1>14 DEF TypeOK, TypeOfAuth, TypeOfSessions, Session, MemberWritten, AdminAt, adminRest, authVars
  <2>3. TypeOfUser' /\ (acts \in 0..MaxActs)'
    BY <1>14 DEF TypeOK, TypeOfUser, Statuses, MemberWritten, AdminAt, adminRest, authVars
  <2>4. TypeOfFlags'
    BY <1>14 DEF TypeOK, TypeOfFlags, MemberWritten, AdminAt, adminRest, authVars
  <2>5. QED
    BY <2>1, <2>2, <2>3, <2>4 DEF TypeOK
<1>15. ASSUME NEW a \in Admins, UserWritten(a) PROVE TypeOK'
  <2>1. TypeOfAuth'
    BY <1>15 DEF TypeOK, TypeOfAuth, TypeOfSessions, Session, UserWritten, Act, AdminAt, Resting, adminRest, authVars, NewRecord, Idle, NoSession
  <2>2. TypeOfSessions'
    BY <1>15 DEF TypeOK, TypeOfAuth, TypeOfSessions, Session, UserWritten, Act, AdminAt, Resting, adminRest, authVars, NewRecord, Idle, NoSession
  <2>3. TypeOfUser' /\ (acts \in 0..MaxActs)'
    BY <1>15 DEF TypeOK, TypeOfUser, Statuses, UserWritten, Act, AdminAt, Resting, adminRest, authVars, NewRecord, Idle, NoSession
  <2>4. TypeOfFlags'
    BY <1>15 DEF TypeOK, TypeOfFlags, UserWritten, Act, AdminAt, Resting, adminRest, authVars, NewRecord, Idle, NoSession
  <2>5. QED
    BY <2>1, <2>2, <2>3, <2>4 DEF TypeOK
<1>16. ASSUME LockExpires PROVE TypeOK'
  <2>1. TypeOfAuth'
    BY <1>16 DEF TypeOK, TypeOfAuth, TypeOfSessions, Session, LockExpires, Act, sessionVars, userVars
  <2>2. TypeOfSessions'
    BY <1>16 DEF TypeOK, TypeOfAuth, TypeOfSessions, Session, LockExpires, Act, sessionVars, userVars
  <2>3. TypeOfUser' /\ (acts \in 0..MaxActs)'
    BY <1>16 DEF TypeOK, TypeOfUser, Statuses, LockExpires, Act, sessionVars, userVars
  <2>4. TypeOfFlags'
    BY <1>16 DEF TypeOK, TypeOfFlags, LockExpires, Act, sessionVars, userVars
  <2>5. QED
    BY <2>1, <2>2, <2>3, <2>4 DEF TypeOK
<1>17. ASSUME Unlock PROVE TypeOK'
  <2>1. TypeOfAuth'
    BY <1>17 DEF TypeOK, TypeOfAuth, TypeOfSessions, Session, Unlock, Act, ClearFailedLogins, sessionVars, userVars, NewRecord, Idle, NoSession, Resting
  <2>2. TypeOfSessions'
    BY <1>17 DEF TypeOK, TypeOfAuth, TypeOfSessions, Session, Unlock, Act, ClearFailedLogins, sessionVars, userVars, NewRecord, Idle, NoSession, Resting
  <2>3. TypeOfUser' /\ (acts \in 0..MaxActs)'
    BY <1>17 DEF TypeOK, TypeOfUser, Statuses, Unlock, Act, ClearFailedLogins, sessionVars, userVars, NewRecord, Idle, NoSession, Resting
  <2>4. TypeOfFlags'
    BY <1>17 DEF TypeOK, TypeOfFlags, Unlock, Act, ClearFailedLogins, sessionVars, userVars, NewRecord, Idle, NoSession, Resting
  <2>5. QED
    BY <2>1, <2>2, <2>3, <2>4 DEF TypeOK
<1>18. ASSUME Restart PROVE TypeOK'
  <2>1. TypeOfAuth'
    BY <1>18 DEF TypeOK, TypeOfAuth, TypeOfSessions, Session, Restart, Act, Arriving, Opening, NewRecord, Idle, NoSession, Resting, AdminAt, At
  <2>2. TypeOfSessions'
    BY <1>18 DEF TypeOK, TypeOfAuth, TypeOfSessions, Session, Restart, Act, Arriving, Opening, NewRecord, Idle, NoSession, Resting, AdminAt, At
  <2>3. TypeOfUser' /\ (acts \in 0..MaxActs)'
    BY <1>18 DEF TypeOK, TypeOfUser, Statuses, Restart, Act, Arriving, Opening, NewRecord, Idle, NoSession, Resting, AdminAt, At
  <2>4. TypeOfFlags'
    BY <1>18 DEF TypeOK, TypeOfFlags, Restart, Act, Arriving, Opening, NewRecord, Idle, NoSession, Resting, AdminAt, At
  <2>5. QED
    BY <2>1, <2>2, <2>3, <2>4 DEF TypeOK
<1>19. ASSUME UNCHANGED vars PROVE TypeOK'
  BY <1>19 DEF TypeOK, TypeOfAuth, TypeOfSessions, TypeOfUser, TypeOfFlags, vars, authVars, sessionVars, userVars
<1>20. QED
  BY <1>1, <1>2, <1>3, <1>4, <1>5, <1>6, <1>7, <1>8, <1>9, <1>10, <1>11, <1>12, <1>13, <1>14, <1>15, <1>16, <1>17, <1>18, <1>19 DEF Next

\* The initial states satisfy the invariant.
LEMMA InitInv == Init => Inv
<1> USE DeviceAssumption, AttemptAssumption, BoundAssumption
<1> SUFFICES ASSUME Init PROVE Inv
  OBVIOUS
<1>1. TypeOK
  <2>1. TypeOfAuth
    BY DEF Init, TypeOfAuth, Session, NewRecord, Idle, NoSession
  <2>2. TypeOfSessions
    BY DEF Init, TypeOfSessions
  <2>3. TypeOfUser /\ acts \in 0..MaxActs
    BY DEF Init, TypeOfUser, Statuses, Resting
  <2>4. TypeOfFlags
    BY DEF Init, TypeOfFlags
  <2>5. QED
    BY <2>1, <2>2, <2>3, <2>4 DEF TypeOK
<1>2. SessionsFinite /\ Numbered /\ SigningIn
  BY FS_EmptySet DEF Init, SessionsFinite, Numbered, SigningIn, Arriving, Opening, At, Idle
<1>3. LockInv
  BY DEF Init, LockInv, GuessesBounded, NewRecord
<1>4. RevocationHolds
  BY DEF Init, RevocationHolds, Recent
<1>5. NoSessionLeft
  <2>1. Recent = {} /\ Opening = {} /\ Holding = {} /\ lost = 0
    BY DEF Init, Recent, Opening, Holding, At, Idle
  <2>2. QED
    BY <2>1, FS_EmptySet DEF NoSessionLeft
<1>6. StatusInv
  BY DEF Init, StatusInv, AdminAt, Resting
<1>7. QED
  BY <1>1, <1>2, <1>3, <1>4, <1>5, <1>6 DEF Inv

\* What a step does to the sessions and the rows at most.
Grows ==
    /\ sessions' \subseteq sessions \/ \E x : sessions' = sessions \cup {x}
    /\ rows' \subseteq rows \/ \E x : rows' = rows \cup {x}

\* A step adds one session at most, unless it starts the process.
LEMMA GrowStep == TypeOK /\ [Next]_vars => (Grows \/ Restart)
<1> SUFFICES ASSUME TypeOK, [Next]_vars PROVE (Grows \/ Restart)
  OBVIOUS
<1> USE DeviceAssumption, AttemptAssumption, BoundAssumption
<1>1. ASSUME NEW d \in Devices, NEW typed \in 0..password, Attempt(d, typed) PROVE (Grows \/ Restart)
  BY <1>1 DEF Grows, Attempt, ClearFailedLogins, sessionVars, userVars, At, Idle, SignedIn
<1>2. ASSUME NEW d \in Devices, CheckPassword(d) PROVE (Grows \/ Restart)
  BY <1>2 DEF Grows, CheckPassword, RecordFailedLogin, ClearFailedLogins, Open, userVars, At, Idle
<1>3. ASSUME NEW d \in Devices, Opened(d) PROVE (Grows \/ Restart)
  BY <1>3 DEF Grows, Opened, Hears, Act, userVars, At, Idle
<1>4. ASSUME NEW d \in Devices, SignInElsewhere(d) PROVE (Grows \/ Restart)
  BY <1>4 DEF Grows, SignInElsewhere, Hears, Act, userVars, At, Idle, SignedIn
<1>5. ASSUME NEW d \in Devices, SignOut(d) PROVE (Grows \/ Restart)
  BY <1>5 DEF Grows, SignOut, Act, ClearFailedLogins, Latest, userVars, SignedIn
<1>6. ASSUME NEW d \in Devices, Refused(d) PROVE (Grows \/ Restart)
  BY <1>6 DEF Grows, Refused, Act, authVars, userVars, SignedIn
<1>7. ASSUME NEW s \in sessions, RevokeOne(s) PROVE (Grows \/ Restart)
  BY <1>7 DEF Grows, RevokeOne, Act, authVars, userVars
<1>8. ASSUME LogoutAll PROVE (Grows \/ Restart)
  BY <1>8 DEF Grows, LogoutAll, Act, RevokeAll, authVars, userVars
<1>9. ASSUME ForgotPassword PROVE (Grows \/ Restart)
  BY <1>9 DEF Grows, ForgotPassword, Act, authVars, sessionVars
<1>10. ASSUME ResetPassword PROVE (Grows \/ Restart)
  BY <1>10 DEF Grows, ResetPassword, Act, RevokeAll, authVars
<1>11. ASSUME ChangePassword PROVE (Grows \/ Restart)
  BY <1>11 DEF Grows, ChangePassword, Act, authVars, sessionVars
<1>12. ASSUME NEW a \in Admins, NEW s \in Statuses, SetStatus(a, s) PROVE (Grows \/ Restart)
  BY <1>12 DEF Grows, SetStatus, StatusBecomes, AdminStarts, RevokeAll, Act, AdminAt, adminRest, authVars
<1>13. ASSUME NEW a \in Admins, UpdateUser(a) PROVE (Grows \/ Restart)
  BY <1>13 DEF Grows, UpdateUser, StatusBecomes, AdminStarts, RevokeAll, Act, AdminAt, adminRest, authVars
<1>14. ASSUME NEW a \in Admins, MemberWritten(a) PROVE (Grows \/ Restart)
  BY <1>14 DEF Grows, MemberWritten, AdminAt, adminRest, authVars
<1>15. ASSUME NEW a \in Admins, UserWritten(a) PROVE (Grows \/ Restart)
  BY <1>15 DEF Grows, UserWritten, Act, AdminAt, Resting, adminRest, authVars
<1>16. ASSUME LockExpires PROVE (Grows \/ Restart)
  BY <1>16 DEF Grows, LockExpires, Act, sessionVars, userVars
<1>17. ASSUME Unlock PROVE (Grows \/ Restart)
  BY <1>17 DEF Grows, Unlock, Act, ClearFailedLogins, sessionVars, userVars
<1>18. ASSUME Restart PROVE (Grows \/ Restart)
  BY <1>18 DEF Grows, Restart, Act, Arriving, Opening, NewRecord, Idle, NoSession, Resting, AdminAt, At
<1>19. ASSUME UNCHANGED vars PROVE (Grows \/ Restart)
  BY <1>19 DEF Grows, vars, authVars, sessionVars, userVars
<1>20. QED
  BY <1>1, <1>2, <1>3, <1>4, <1>5, <1>6, <1>7, <1>8, <1>9, <1>10, <1>11, <1>12, <1>13, <1>14, <1>15, <1>16, <1>17, <1>18, <1>19 DEF Next

\* The sessions and their rows stay finitely many.
LEMMA FiniteStep == TypeOK /\ SessionsFinite /\ [Next]_vars => SessionsFinite'
<1> SUFFICES ASSUME TypeOK, SessionsFinite, [Next]_vars PROVE SessionsFinite'
  OBVIOUS
<1> USE DeviceAssumption
<1>1. CASE Grows
  BY <1>1, FS_Subset, FS_AddElement DEF Grows, SessionsFinite
<1>2. CASE Restart
  <2>1. PICK arrived \in SUBSET Arriving : rows' = rows \cup arrived
    BY <1>2 DEF Restart
  <2>2. IsFiniteSet(Opening)
    BY FS_Subset DEF Opening
  <2>3. IsFiniteSet(Arriving)
    <3> DEFINE f == [d \in Opening |-> login[d].session]
    <3>1. f \in Surjection(Opening, Arriving)
      BY DEF Surjection, Arriving
    <3>2. QED
      BY <2>2, <3>1, FS_Surjection
  <2>4. IsFiniteSet(rows')
    BY <2>1, <2>3, FS_Subset, FS_Union DEF SessionsFinite
  <2>5. QED
    BY <1>2, <2>4 DEF Restart, SessionsFinite
<1>3. QED
  BY <1>1, <1>2, GrowStep

\* No session has a number that was not given.
LEMMA NumberStep == TypeOK /\ Numbered /\ [Next]_vars => Numbered'
<1> SUFFICES ASSUME TypeOK /\ Numbered, [Next]_vars PROVE Numbered'
  OBVIOUS
<1> USE DeviceAssumption, AttemptAssumption, BoundAssumption
<1>1. ASSUME NEW d \in Devices, NEW typed \in 0..password, Attempt(d, typed) PROVE Numbered'
  BY <1>1 DEF TypeOK, TypeOfAuth, TypeOfSessions, Session, Numbered, Arriving, Opening, At, Attempt, ClearFailedLogins, sessionVars, userVars, At, Idle, SignedIn
<1>2. ASSUME NEW d \in Devices, CheckPassword(d) PROVE Numbered'
  <2>1. /\ rows' = rows /\ opened <= opened' /\ opened \in Nat /\ opened' \in Nat
        /\ sessions' = sessions \/ sessions' = sessions \cup {[id |-> opened', epoch |-> epoch]}
    BY <1>2 DEF TypeOK, TypeOfAuth, TypeOfSessions, CheckPassword, Open
  <2>2. \A e \in Devices : e # d => login'[e] = login[e]
    BY <1>2 DEF TypeOK, TypeOfAuth, CheckPassword, Open
  <2>0. login'[d].pc = "insert" => login'[d].session.id = opened'
    BY <1>2 DEF TypeOK, TypeOfAuth, CheckPassword, Open, Idle
  <2>3. ASSUME NEW e \in Devices, login'[e].pc = "insert" PROVE login'[e].session.id <= opened'
    <3>1. CASE e = d
      BY <2>0, <2>1, <2>3, <3>1
    <3>2. CASE e # d
      BY <2>1, <2>2, <2>3, <3>2 DEF TypeOK, TypeOfAuth, Session, Numbered, Arriving, Opening, At
    <3>3. QED
      BY <3>1, <3>2
  <2>4. QED
    BY <1>2, <2>1, <2>3 DEF TypeOK, TypeOfSessions, Session, Numbered, Arriving, Opening, At, CheckPassword
<1>3. ASSUME NEW d \in Devices, Opened(d) PROVE Numbered'
  BY <1>3 DEF TypeOK, TypeOfAuth, TypeOfSessions, Session, Numbered, Arriving, Opening, At, Opened, Hears, Act, userVars, At, Idle
<1>4. ASSUME NEW d \in Devices, SignInElsewhere(d) PROVE Numbered'
  BY <1>4 DEF TypeOK, TypeOfAuth, TypeOfSessions, Session, Numbered, Arriving, Opening, At, SignInElsewhere, Hears, Act, userVars, At, Idle, SignedIn
<1>5. ASSUME NEW d \in Devices, SignOut(d) PROVE Numbered'
  BY <1>5 DEF TypeOK, TypeOfAuth, TypeOfSessions, Session, Numbered, Arriving, Opening, At, SignOut, Act, ClearFailedLogins, Latest, userVars, SignedIn
<1>6. ASSUME NEW d \in Devices, Refused(d) PROVE Numbered'
  BY <1>6 DEF TypeOK, TypeOfAuth, TypeOfSessions, Session, Numbered, Arriving, Opening, At, Refused, Act, authVars, userVars, SignedIn
<1>7. ASSUME NEW s \in sessions, RevokeOne(s) PROVE Numbered'
  BY <1>7 DEF TypeOK, TypeOfAuth, TypeOfSessions, Session, Numbered, Arriving, Opening, At, RevokeOne, Act, authVars, userVars
<1>8. ASSUME LogoutAll PROVE Numbered'
  BY <1>8 DEF TypeOK, TypeOfAuth, TypeOfSessions, Session, Numbered, Arriving, Opening, At, LogoutAll, Act, RevokeAll, authVars, userVars
<1>9. ASSUME ForgotPassword PROVE Numbered'
  BY <1>9 DEF TypeOK, TypeOfAuth, TypeOfSessions, Session, Numbered, Arriving, Opening, At, ForgotPassword, Act, authVars, sessionVars
<1>10. ASSUME ResetPassword PROVE Numbered'
  BY <1>10 DEF TypeOK, TypeOfAuth, TypeOfSessions, Session, Numbered, Arriving, Opening, At, ResetPassword, Act, RevokeAll, authVars
<1>11. ASSUME ChangePassword PROVE Numbered'
  BY <1>11 DEF TypeOK, TypeOfAuth, TypeOfSessions, Session, Numbered, Arriving, Opening, At, ChangePassword, Act, authVars, sessionVars
<1>12. ASSUME NEW a \in Admins, NEW s \in Statuses, SetStatus(a, s) PROVE Numbered'
  BY <1>12 DEF TypeOK, TypeOfAuth, TypeOfSessions, Session, Numbered, Arriving, Opening, At, SetStatus, StatusBecomes, AdminStarts, RevokeAll, Act, AdminAt, adminRest, authVars
<1>13. ASSUME NEW a \in Admins, UpdateUser(a) PROVE Numbered'
  BY <1>13 DEF TypeOK, TypeOfAuth, TypeOfSessions, Session, Numbered, Arriving, Opening, At, UpdateUser, StatusBecomes, AdminStarts, RevokeAll, Act, AdminAt, adminRest, authVars
<1>14. ASSUME NEW a \in Admins, MemberWritten(a) PROVE Numbered'
  BY <1>14 DEF TypeOK, TypeOfAuth, TypeOfSessions, Session, Numbered, Arriving, Opening, At, MemberWritten, AdminAt, adminRest, authVars
<1>15. ASSUME NEW a \in Admins, UserWritten(a) PROVE Numbered'
  BY <1>15 DEF TypeOK, TypeOfAuth, TypeOfSessions, Session, Numbered, Arriving, Opening, At, UserWritten, Act, AdminAt, Resting, adminRest, authVars
<1>16. ASSUME LockExpires PROVE Numbered'
  BY <1>16 DEF TypeOK, TypeOfAuth, TypeOfSessions, Session, Numbered, Arriving, Opening, At, LockExpires, Act, sessionVars, userVars
<1>17. ASSUME Unlock PROVE Numbered'
  BY <1>17 DEF TypeOK, TypeOfAuth, TypeOfSessions, Session, Numbered, Arriving, Opening, At, Unlock, Act, ClearFailedLogins, sessionVars, userVars
<1>18. ASSUME Restart PROVE Numbered'
  BY <1>18 DEF TypeOK, TypeOfAuth, TypeOfSessions, Session, Numbered, Arriving, Opening, At, Restart, Act, Arriving, Opening, NewRecord, Idle, NoSession, Resting, AdminAt, At
<1>19. ASSUME UNCHANGED vars PROVE Numbered'
  BY <1>19 DEF TypeOK, TypeOfAuth, TypeOfSessions, Session, Numbered, Arriving, Opening, At, vars, authVars, sessionVars, userVars
<1>20. QED
  BY <1>1, <1>2, <1>3, <1>4, <1>5, <1>6, <1>7, <1>8, <1>9, <1>10, <1>11, <1>12, <1>13, <1>14, <1>15, <1>16, <1>17, <1>18, <1>19 DEF Next

\* A revocation of all sessions leaves none, and a start none that is recent.
LEMMA RevocationStep == TypeOK /\ Numbered /\ RevocationHolds /\ [Next]_vars => RevocationHolds'
<1> SUFFICES ASSUME TypeOK /\ Numbered /\ RevocationHolds, [Next]_vars PROVE RevocationHolds'
  OBVIOUS
<1> USE DeviceAssumption, AttemptAssumption, BoundAssumption
<1>1. ASSUME NEW d \in Devices, NEW typed \in 0..password, Attempt(d, typed) PROVE RevocationHolds'
  BY <1>1 DEF TypeOK, TypeOfAuth, TypeOfSessions, Session, Numbered, RevocationHolds, Recent, Attempt, ClearFailedLogins, sessionVars, userVars, At, Idle, SignedIn
<1>2. ASSUME NEW d \in Devices, CheckPassword(d) PROVE RevocationHolds'
  BY <1>2 DEF TypeOK, TypeOfAuth, TypeOfSessions, Session, Numbered, RevocationHolds, Recent, CheckPassword, RecordFailedLogin, ClearFailedLogins, Open, userVars, At, Idle
<1>3. ASSUME NEW d \in Devices, Opened(d) PROVE RevocationHolds'
  BY <1>3 DEF TypeOK, TypeOfAuth, TypeOfSessions, Session, Numbered, RevocationHolds, Recent, Opened, Hears, Act, userVars, At, Idle
<1>4. ASSUME NEW d \in Devices, SignInElsewhere(d) PROVE RevocationHolds'
  BY <1>4 DEF TypeOK, TypeOfAuth, TypeOfSessions, Session, Numbered, RevocationHolds, Recent, SignInElsewhere, Hears, Act, userVars, At, Idle, SignedIn
<1>5. ASSUME NEW d \in Devices, SignOut(d) PROVE RevocationHolds'
  BY <1>5 DEF TypeOK, TypeOfAuth, TypeOfSessions, Session, Numbered, RevocationHolds, Recent, SignOut, Act, ClearFailedLogins, Latest, userVars, SignedIn
<1>6. ASSUME NEW d \in Devices, Refused(d) PROVE RevocationHolds'
  BY <1>6 DEF TypeOK, TypeOfAuth, TypeOfSessions, Session, Numbered, RevocationHolds, Recent, Refused, Act, authVars, userVars, SignedIn
<1>7. ASSUME NEW s \in sessions, RevokeOne(s) PROVE RevocationHolds'
  BY <1>7 DEF TypeOK, TypeOfAuth, TypeOfSessions, Session, Numbered, RevocationHolds, Recent, RevokeOne, Act, authVars, userVars
<1>8. ASSUME LogoutAll PROVE RevocationHolds'
  BY <1>8 DEF TypeOK, TypeOfAuth, TypeOfSessions, Session, Numbered, RevocationHolds, Recent, LogoutAll, Act, RevokeAll, authVars, userVars
<1>9. ASSUME ForgotPassword PROVE RevocationHolds'
  BY <1>9 DEF TypeOK, TypeOfAuth, TypeOfSessions, Session, Numbered, RevocationHolds, Recent, ForgotPassword, Act, authVars, sessionVars
<1>10. ASSUME ResetPassword PROVE RevocationHolds'
  BY <1>10 DEF TypeOK, TypeOfAuth, TypeOfSessions, Session, Numbered, RevocationHolds, Recent, ResetPassword, Act, RevokeAll, authVars
<1>11. ASSUME ChangePassword PROVE RevocationHolds'
  BY <1>11 DEF TypeOK, TypeOfAuth, TypeOfSessions, Session, Numbered, RevocationHolds, Recent, ChangePassword, Act, authVars, sessionVars
<1>12. ASSUME NEW a \in Admins, NEW s \in Statuses, SetStatus(a, s) PROVE RevocationHolds'
  BY <1>12 DEF TypeOK, TypeOfAuth, TypeOfSessions, Session, Numbered, RevocationHolds, Recent, SetStatus, StatusBecomes, AdminStarts, RevokeAll, Act, AdminAt, adminRest, authVars
<1>13. ASSUME NEW a \in Admins, UpdateUser(a) PROVE RevocationHolds'
  BY <1>13 DEF TypeOK, TypeOfAuth, TypeOfSessions, Session, Numbered, RevocationHolds, Recent, UpdateUser, StatusBecomes, AdminStarts, RevokeAll, Act, AdminAt, adminRest, authVars
<1>14. ASSUME NEW a \in Admins, MemberWritten(a) PROVE RevocationHolds'
  BY <1>14 DEF TypeOK, TypeOfAuth, TypeOfSessions, Session, Numbered, RevocationHolds, Recent, MemberWritten, AdminAt, adminRest, authVars
<1>15. ASSUME NEW a \in Admins, UserWritten(a) PROVE RevocationHolds'
  BY <1>15 DEF TypeOK, TypeOfAuth, TypeOfSessions, Session, Numbered, RevocationHolds, Recent, UserWritten, Act, AdminAt, Resting, adminRest, authVars
<1>16. ASSUME LockExpires PROVE RevocationHolds'
  BY <1>16 DEF TypeOK, TypeOfAuth, TypeOfSessions, Session, Numbered, RevocationHolds, Recent, LockExpires, Act, sessionVars, userVars
<1>17. ASSUME Unlock PROVE RevocationHolds'
  BY <1>17 DEF TypeOK, TypeOfAuth, TypeOfSessions, Session, Numbered, RevocationHolds, Recent, Unlock, Act, ClearFailedLogins, sessionVars, userVars
<1>18. ASSUME Restart PROVE RevocationHolds'
  BY <1>18 DEF TypeOK, TypeOfAuth, TypeOfSessions, Session, Numbered, RevocationHolds, Recent, Restart, Act, Arriving, Opening, NewRecord, Idle, NoSession, Resting, AdminAt, At
<1>19. ASSUME UNCHANGED vars PROVE RevocationHolds'
  BY <1>19 DEF TypeOK, TypeOfAuth, TypeOfSessions, Session, Numbered, RevocationHolds, Recent, vars, authVars, sessionVars, userVars
<1>20. QED
  BY <1>1, <1>2, <1>3, <1>4, <1>5, <1>6, <1>7, <1>8, <1>9, <1>10, <1>11, <1>12, <1>13, <1>14, <1>15, <1>16, <1>17, <1>18, <1>19 DEF Next

\* One administrator at a time writes the status that is set.
LEMMA StatusStep == TypeOK /\ StatusInv /\ [Next]_vars => StatusInv'
<1> SUFFICES ASSUME TypeOK /\ StatusInv, [Next]_vars PROVE StatusInv'
  OBVIOUS
<1> USE DeviceAssumption, AttemptAssumption, BoundAssumption
<1>1. ASSUME NEW d \in Devices, NEW typed \in 0..password, Attempt(d, typed) PROVE StatusInv'
  BY <1>1 DEF TypeOK, TypeOfUser, Statuses, StatusInv, AdminAt, Attempt, ClearFailedLogins, sessionVars, userVars, At, Idle, SignedIn
<1>2. ASSUME NEW d \in Devices, CheckPassword(d) PROVE StatusInv'
  BY <1>2 DEF TypeOK, TypeOfUser, Statuses, StatusInv, AdminAt, CheckPassword, RecordFailedLogin, ClearFailedLogins, Open, userVars, At, Idle
<1>3. ASSUME NEW d \in Devices, Opened(d) PROVE StatusInv'
  BY <1>3 DEF TypeOK, TypeOfUser, Statuses, StatusInv, AdminAt, Opened, Hears, Act, userVars, At, Idle
<1>4. ASSUME NEW d \in Devices, SignInElsewhere(d) PROVE StatusInv'
  BY <1>4 DEF TypeOK, TypeOfUser, Statuses, StatusInv, AdminAt, SignInElsewhere, Hears, Act, userVars, At, Idle, SignedIn
<1>5. ASSUME NEW d \in Devices, SignOut(d) PROVE StatusInv'
  BY <1>5 DEF TypeOK, TypeOfUser, Statuses, StatusInv, AdminAt, SignOut, Act, ClearFailedLogins, Latest, userVars, SignedIn
<1>6. ASSUME NEW d \in Devices, Refused(d) PROVE StatusInv'
  BY <1>6 DEF TypeOK, TypeOfUser, Statuses, StatusInv, AdminAt, Refused, Act, authVars, userVars, SignedIn
<1>7. ASSUME NEW s \in sessions, RevokeOne(s) PROVE StatusInv'
  BY <1>7 DEF TypeOK, TypeOfUser, Statuses, StatusInv, AdminAt, RevokeOne, Act, authVars, userVars
<1>8. ASSUME LogoutAll PROVE StatusInv'
  BY <1>8 DEF TypeOK, TypeOfUser, Statuses, StatusInv, AdminAt, LogoutAll, Act, RevokeAll, authVars, userVars
<1>9. ASSUME ForgotPassword PROVE StatusInv'
  BY <1>9 DEF TypeOK, TypeOfUser, Statuses, StatusInv, AdminAt, ForgotPassword, Act, authVars, sessionVars
<1>10. ASSUME ResetPassword PROVE StatusInv'
  BY <1>10 DEF TypeOK, TypeOfUser, Statuses, StatusInv, AdminAt, ResetPassword, Act, RevokeAll, authVars
<1>11. ASSUME ChangePassword PROVE StatusInv'
  BY <1>11 DEF TypeOK, TypeOfUser, Statuses, StatusInv, AdminAt, ChangePassword, Act, authVars, sessionVars
<1>12. ASSUME NEW a \in Admins, NEW s \in Statuses, SetStatus(a, s) PROVE StatusInv'
  BY <1>12 DEF TypeOK, TypeOfUser, Statuses, StatusInv, AdminAt, SetStatus, StatusBecomes, AdminStarts, RevokeAll, Act, AdminAt, adminRest, authVars
<1>13. ASSUME NEW a \in Admins, UpdateUser(a) PROVE StatusInv'
  BY <1>13 DEF TypeOK, TypeOfUser, Statuses, StatusInv, AdminAt, UpdateUser, StatusBecomes, AdminStarts, RevokeAll, Act, AdminAt, adminRest, authVars
<1>14. ASSUME NEW a \in Admins, MemberWritten(a) PROVE StatusInv'
  BY <1>14 DEF TypeOK, TypeOfUser, Statuses, StatusInv, AdminAt, MemberWritten, AdminAt, adminRest, authVars
<1>15. ASSUME NEW a \in Admins, UserWritten(a) PROVE StatusInv'
  BY <1>15 DEF TypeOK, TypeOfUser, Statuses, StatusInv, AdminAt, UserWritten, Act, AdminAt, Resting, adminRest, authVars
<1>16. ASSUME LockExpires PROVE StatusInv'
  BY <1>16 DEF TypeOK, TypeOfUser, Statuses, StatusInv, AdminAt, LockExpires, Act, sessionVars, userVars
<1>17. ASSUME Unlock PROVE StatusInv'
  BY <1>17 DEF TypeOK, TypeOfUser, Statuses, StatusInv, AdminAt, Unlock, Act, ClearFailedLogins, sessionVars, userVars
<1>18. ASSUME Restart PROVE StatusInv'
  BY <1>18 DEF TypeOK, TypeOfUser, Statuses, StatusInv, AdminAt, Restart, Act, Arriving, Opening, NewRecord, Idle, NoSession, Resting, AdminAt, At
<1>19. ASSUME UNCHANGED vars PROVE StatusInv'
  BY <1>19 DEF TypeOK, TypeOfUser, Statuses, StatusInv, AdminAt, vars, authVars, sessionVars, userVars
<1>20. QED
  BY <1>1, <1>2, <1>3, <1>4, <1>5, <1>6, <1>7, <1>8, <1>9, <1>10, <1>11, <1>12, <1>13, <1>14, <1>15, <1>16, <1>17, <1>18, <1>19 DEF Next

\* Requests that wait for PostgreSQL are no more than the devices; when one is
\* answered, they are fewer.
LEMMA SelectingFacts ==
    ASSUME TypeOK
    PROVE  /\ IsFiniteSet(Selecting) /\ Cardinality(Selecting) \in Nat /\ Cardinality(Devices) \in Nat
           /\ \A d \in Selecting :
                /\ Cardinality(Selecting \ {d}) = Cardinality(Selecting) - 1
                /\ Cardinality(Selecting) <= Cardinality(Devices)
<1> USE DeviceAssumption
<1>1. Selecting \subseteq Devices
  BY DEF Selecting
<1>2. IsFiniteSet(Selecting) /\ Cardinality(Selecting) <= Cardinality(Devices)
  BY <1>1, FS_Subset
<1>3. QED
  BY <1>2, FS_CardinalityType, FS_RemoveElement

\* The count of the record and the requests behind the check of the lock.
LEMMA LockStep == TypeOK /\ LockInv /\ [Next]_vars => LockInv'
<1> SUFFICES ASSUME TypeOK /\ LockInv, [Next]_vars PROVE LockInv'
  OBVIOUS
<1> USE DeviceAssumption, AttemptAssumption, BoundAssumption
<1>1. ASSUME NEW d \in Devices, NEW typed \in 0..password, Attempt(d, typed) PROVE LockInv'
  BY <1>1 DEF TypeOK, TypeOfAuth, LockInv, GuessesBounded, Selecting, Attempt, ClearFailedLogins, sessionVars, userVars, At, Idle, SignedIn, NewRecord
<1>2. ASSUME NEW d \in Devices, CheckPassword(d) PROVE LockInv'
  <2>0. PICK x : x.pc # "select" /\ login' = [login EXCEPT ![d] = x]
    BY <1>2 DEF CheckPassword, Open, Idle
  <2>1. /\ Selecting' = Selecting \ {d} /\ d \in Selecting
    BY <1>2, <2>0 DEF TypeOK, TypeOfAuth, Selecting, At, CheckPassword
  <2>2. /\ Cardinality(Selecting') = Cardinality(Selecting) - 1
        /\ Cardinality(Selecting) \in Nat /\ Cardinality(Devices) \in Nat
        /\ Cardinality(Selecting) <= Cardinality(Devices)
    BY <2>1, SelectingFacts
  <2>3. QED
    BY <1>2, <2>2 DEF TypeOK, TypeOfAuth, LockInv, GuessesBounded, CheckPassword, RecordFailedLogin, ClearFailedLogins, NewRecord
<1>3. ASSUME NEW d \in Devices, Opened(d) PROVE LockInv'
  BY <1>3 DEF TypeOK, TypeOfAuth, LockInv, GuessesBounded, Selecting, Opened, Hears, Act, userVars, At, Idle
<1>4. ASSUME NEW d \in Devices, SignInElsewhere(d) PROVE LockInv'
  BY <1>4 DEF TypeOK, TypeOfAuth, LockInv, GuessesBounded, Selecting, SignInElsewhere, Hears, Act, userVars, At, Idle, SignedIn
<1>5. ASSUME NEW d \in Devices, SignOut(d) PROVE LockInv'
  BY <1>5 DEF TypeOK, TypeOfAuth, LockInv, GuessesBounded, Selecting, SignOut, Act, ClearFailedLogins, Latest, userVars, SignedIn, NewRecord, At
<1>6. ASSUME NEW d \in Devices, Refused(d) PROVE LockInv'
  BY <1>6 DEF TypeOK, TypeOfAuth, LockInv, GuessesBounded, Selecting, Refused, Act, authVars, userVars, SignedIn, At
<1>7. ASSUME NEW s \in sessions, RevokeOne(s) PROVE LockInv'
  BY <1>7 DEF TypeOK, TypeOfAuth, LockInv, GuessesBounded, Selecting, RevokeOne, Act, authVars, userVars, At
<1>8. ASSUME LogoutAll PROVE LockInv'
  BY <1>8 DEF TypeOK, TypeOfAuth, LockInv, GuessesBounded, Selecting, LogoutAll, Act, RevokeAll, authVars, userVars, At
<1>9. ASSUME ForgotPassword PROVE LockInv'
  BY <1>9 DEF TypeOK, TypeOfAuth, LockInv, GuessesBounded, Selecting, ForgotPassword, Act, authVars, sessionVars, At
<1>10. ASSUME ResetPassword PROVE LockInv'
  BY <1>10 DEF TypeOK, TypeOfAuth, LockInv, GuessesBounded, Selecting, ResetPassword, Act, RevokeAll, authVars, At
<1>11. ASSUME ChangePassword PROVE LockInv'
  BY <1>11 DEF TypeOK, TypeOfAuth, LockInv, GuessesBounded, Selecting, ChangePassword, Act, authVars, sessionVars, At
<1>12. ASSUME NEW a \in Admins, NEW s \in Statuses, SetStatus(a, s) PROVE LockInv'
  BY <1>12 DEF TypeOK, TypeOfAuth, LockInv, GuessesBounded, Selecting, SetStatus, StatusBecomes, AdminStarts, RevokeAll, Act, AdminAt, adminRest, authVars, At
<1>13. ASSUME NEW a \in Admins, UpdateUser(a) PROVE LockInv'
  BY <1>13 DEF TypeOK, TypeOfAuth, LockInv, GuessesBounded, Selecting, UpdateUser, StatusBecomes, AdminStarts, RevokeAll, Act, AdminAt, adminRest, authVars, At
<1>14. ASSUME NEW a \in Admins, MemberWritten(a) PROVE LockInv'
  BY <1>14 DEF TypeOK, TypeOfAuth, LockInv, GuessesBounded, Selecting, MemberWritten, AdminAt, adminRest, authVars, At
<1>15. ASSUME NEW a \in Admins, UserWritten(a) PROVE LockInv'
  BY <1>15 DEF TypeOK, TypeOfAuth, LockInv, GuessesBounded, Selecting, UserWritten, Act, AdminAt, Resting, adminRest, authVars, At
<1>16. ASSUME LockExpires PROVE LockInv'
  BY <1>16 DEF TypeOK, TypeOfAuth, LockInv, GuessesBounded, Selecting, LockExpires, Act, sessionVars, userVars, At
<1>17. ASSUME Unlock PROVE LockInv'
  BY <1>17 DEF TypeOK, TypeOfAuth, LockInv, GuessesBounded, Selecting, Unlock, Act, ClearFailedLogins, sessionVars, userVars, NewRecord, At
<1>18. ASSUME Restart PROVE LockInv'
  BY <1>18 DEF TypeOK, TypeOfAuth, LockInv, GuessesBounded, Selecting, Restart, Act, Arriving, Opening, NewRecord, Idle, NoSession, Resting, AdminAt, At
<1>19. ASSUME UNCHANGED vars PROVE LockInv'
  BY <1>19 DEF TypeOK, TypeOfAuth, LockInv, GuessesBounded, Selecting, vars, authVars, sessionVars, userVars, At
<1>20. QED
  BY <1>1, <1>2, <1>3, <1>4, <1>5, <1>6, <1>7, <1>8, <1>9, <1>10, <1>11, <1>12, <1>13, <1>14, <1>15, <1>16, <1>17, <1>18, <1>19 DEF Next

\* A device that signs in has no session yet.
LEMMA SigningInStep == TypeOK /\ Numbered /\ SigningIn /\ [Next]_vars => SigningIn'
<1> SUFFICES ASSUME TypeOK /\ Numbered /\ SigningIn, [Next]_vars PROVE SigningIn'
  OBVIOUS
<1> USE DeviceAssumption, AttemptAssumption, BoundAssumption
<1>1. ASSUME NEW d \in Devices, NEW typed \in 0..password, Attempt(d, typed) PROVE SigningIn'
  BY <1>1 DEF TypeOK, TypeOfAuth, TypeOfSessions, Session, Numbered, SigningIn, SignedIn, At, Attempt, ClearFailedLogins, sessionVars, userVars, At, Idle, SignedIn
<1>2. ASSUME NEW d \in Devices, CheckPassword(d) PROVE SigningIn'
  BY <1>2 DEF TypeOK, TypeOfAuth, TypeOfSessions, Session, Numbered, SigningIn, SignedIn, At, CheckPassword, RecordFailedLogin, ClearFailedLogins, Open, userVars, At, Idle
<1>3. ASSUME NEW d \in Devices, Opened(d) PROVE SigningIn'
  BY <1>3 DEF TypeOK, TypeOfAuth, TypeOfSessions, Session, Numbered, SigningIn, SignedIn, At, Opened, Hears, Act, userVars, At, Idle
<1>4. ASSUME NEW d \in Devices, SignInElsewhere(d) PROVE SigningIn'
  BY <1>4 DEF TypeOK, TypeOfAuth, TypeOfSessions, Session, Numbered, SigningIn, SignedIn, At, SignInElsewhere, Hears, Act, userVars, At, Idle, SignedIn
<1>5. ASSUME NEW d \in Devices, SignOut(d) PROVE SigningIn'
  BY <1>5 DEF TypeOK, TypeOfAuth, TypeOfSessions, Session, Numbered, SigningIn, SignedIn, At, SignOut, Act, ClearFailedLogins, Latest, userVars, SignedIn
<1>6. ASSUME NEW d \in Devices, Refused(d) PROVE SigningIn'
  BY <1>6 DEF TypeOK, TypeOfAuth, TypeOfSessions, Session, Numbered, SigningIn, SignedIn, At, Refused, Act, authVars, userVars, SignedIn
<1>7. ASSUME NEW s \in sessions, RevokeOne(s) PROVE SigningIn'
  BY <1>7 DEF TypeOK, TypeOfAuth, TypeOfSessions, Session, Numbered, SigningIn, SignedIn, At, RevokeOne, Act, authVars, userVars
<1>8. ASSUME LogoutAll PROVE SigningIn'
  BY <1>8 DEF TypeOK, TypeOfAuth, TypeOfSessions, Session, Numbered, SigningIn, SignedIn, At, LogoutAll, Act, RevokeAll, authVars, userVars
<1>9. ASSUME ForgotPassword PROVE SigningIn'
  BY <1>9 DEF TypeOK, TypeOfAuth, TypeOfSessions, Session, Numbered, SigningIn, SignedIn, At, ForgotPassword, Act, authVars, sessionVars
<1>10. ASSUME ResetPassword PROVE SigningIn'
  BY <1>10 DEF TypeOK, TypeOfAuth, TypeOfSessions, Session, Numbered, SigningIn, SignedIn, At, ResetPassword, Act, RevokeAll, authVars
<1>11. ASSUME ChangePassword PROVE SigningIn'
  BY <1>11 DEF TypeOK, TypeOfAuth, TypeOfSessions, Session, Numbered, SigningIn, SignedIn, At, ChangePassword, Act, authVars, sessionVars
<1>12. ASSUME NEW a \in Admins, NEW s \in Statuses, SetStatus(a, s) PROVE SigningIn'
  BY <1>12 DEF TypeOK, TypeOfAuth, TypeOfSessions, Session, Numbered, SigningIn, SignedIn, At, SetStatus, StatusBecomes, AdminStarts, RevokeAll, Act, AdminAt, adminRest, authVars
<1>13. ASSUME NEW a \in Admins, UpdateUser(a) PROVE SigningIn'
  BY <1>13 DEF TypeOK, TypeOfAuth, TypeOfSessions, Session, Numbered, SigningIn, SignedIn, At, UpdateUser, StatusBecomes, AdminStarts, RevokeAll, Act, AdminAt, adminRest, authVars
<1>14. ASSUME NEW a \in Admins, MemberWritten(a) PROVE SigningIn'
  BY <1>14 DEF TypeOK, TypeOfAuth, TypeOfSessions, Session, Numbered, SigningIn, SignedIn, At, MemberWritten, AdminAt, adminRest, authVars
<1>15. ASSUME NEW a \in Admins, UserWritten(a) PROVE SigningIn'
  BY <1>15 DEF TypeOK, TypeOfAuth, TypeOfSessions, Session, Numbered, SigningIn, SignedIn, At, UserWritten, Act, AdminAt, Resting, adminRest, authVars
<1>16. ASSUME LockExpires PROVE SigningIn'
  BY <1>16 DEF TypeOK, TypeOfAuth, TypeOfSessions, Session, Numbered, SigningIn, SignedIn, At, LockExpires, Act, sessionVars, userVars
<1>17. ASSUME Unlock PROVE SigningIn'
  BY <1>17 DEF TypeOK, TypeOfAuth, TypeOfSessions, Session, Numbered, SigningIn, SignedIn, At, Unlock, Act, ClearFailedLogins, sessionVars, userVars
<1>18. ASSUME Restart PROVE SigningIn'
  BY <1>18 DEF TypeOK, TypeOfAuth, TypeOfSessions, Session, Numbered, SigningIn, SignedIn, At, Restart, Act, Arriving, Opening, NewRecord, Idle, NoSession, Resting, AdminAt, At
<1>19. ASSUME UNCHANGED vars PROVE SigningIn'
  BY <1>19 DEF TypeOK, TypeOfAuth, TypeOfSessions, Session, Numbered, SigningIn, SignedIn, At, vars, authVars, sessionVars, userVars
<1>20. QED
  BY <1>1, <1>2, <1>3, <1>4, <1>5, <1>6, <1>7, <1>8, <1>9, <1>10, <1>11, <1>12, <1>13, <1>14, <1>15, <1>16, <1>17, <1>18, <1>19 DEF Next

\* The sets that NoSessionLeft counts are finite.
LEMMA CountFacts ==
    ASSUME TypeOK, SessionsFinite
    PROVE  /\ IsFiniteSet(Recent) /\ IsFiniteSet(Holding) /\ IsFiniteSet(Opening)
           /\ Cardinality(Recent) \in Nat /\ Cardinality(Holding) \in Nat /\ Cardinality(Opening) \in Nat
<1> USE DeviceAssumption
<1>1. IsFiniteSet(Recent) /\ IsFiniteSet(Holding) /\ IsFiniteSet(Opening)
  BY FS_Subset DEF SessionsFinite, Recent, Holding, Opening
<1>2. QED
  BY <1>1, FS_CardinalityType

\* What the steps of NoSessionLeft have in common: a set that gains, loses or
\* keeps one element.
LEMMA Count ==
    ASSUME NEW S, IsFiniteSet(S), NEW x
    PROVE  /\ Cardinality(S) \in Nat /\ Cardinality(S \cup {x}) \in Nat /\ Cardinality(S \ {x}) \in Nat
           /\ Cardinality(S \cup {x}) <= Cardinality(S) + 1
           /\ x \notin S => Cardinality(S \cup {x}) = Cardinality(S) + 1
           /\ x \in S => Cardinality(S \ {x}) = Cardinality(S) - 1
           /\ Cardinality(S \ {x}) <= Cardinality(S)
           /\ Cardinality(S \ {x}) >= Cardinality(S) - 1
<1>1. Cardinality(S) \in Nat /\ IsFiniteSet(S \cup {x}) /\ IsFiniteSet(S \ {x})
  BY FS_AddElement, FS_RemoveElement, FS_CardinalityType
<1>2. Cardinality(S \cup {x}) \in Nat /\ Cardinality(S \ {x}) \in Nat
  BY <1>1, FS_CardinalityType
<1>3. Cardinality(S \cup {x}) = IF x \in S THEN Cardinality(S) ELSE Cardinality(S) + 1
  BY FS_AddElement
<1>4. Cardinality(S \ {x}) = IF x \in S THEN Cardinality(S) - 1 ELSE Cardinality(S)
  BY FS_RemoveElement
<1>5. QED
  BY <1>1, <1>2, <1>3, <1>4

\* Signing out takes a recent session away when there is one.
LEMMA NoSessionStep == TypeOK /\ SessionsFinite /\ Numbered /\ SigningIn /\ NoSessionLeft /\ [Next]_vars => NoSessionLeft'
<1> SUFFICES ASSUME TypeOK /\ SessionsFinite /\ Numbered /\ SigningIn /\ NoSessionLeft, [Next]_vars PROVE NoSessionLeft'
  OBVIOUS
<1> USE DeviceAssumption, AttemptAssumption, BoundAssumption
<1>1. ASSUME NEW d \in Devices, NEW typed \in 0..password, Attempt(d, typed) PROVE NoSessionLeft'
  <2>1. Recent' = Recent /\ Holding' = Holding /\ Opening' = Opening /\ lost' = lost
    BY <1>1 DEF TypeOK, TypeOfAuth, TypeOfSessions, Recent, Holding, Opening, Attempt, ClearFailedLogins, sessionVars, userVars, At, Idle, SignedIn
  <2>2. QED
    BY <2>1 DEF NoSessionLeft
<1>2. ASSUME NEW d \in Devices, CheckPassword(d) PROVE NoSessionLeft'
  <2>1. /\ d \notin Opening /\ Holding' = Holding /\ lost' = lost
        /\ \/ Recent' = Recent /\ Opening' = Opening
           \/ Recent' = Recent \cup {[id |-> opened + 1, epoch |-> epoch]} /\ Opening' = Opening \cup {d}
    <3>1. d \notin Opening /\ Holding' = Holding /\ lost' = lost
      BY <1>2 DEF CheckPassword, Opening, Holding, At
    <3>2. CASE opened' = opened + 1
      <4>1. /\ sessions' = sessions \cup {[id |-> opened + 1, epoch |-> epoch]}
            /\ login' = [login EXCEPT ![d] = [pc |-> "insert", typed |-> 0,
                                             session |-> [id |-> opened + 1, epoch |-> epoch]]]
        BY <1>2, <3>2 DEF CheckPassword, Open, TypeOK, TypeOfSessions
      <4>2. Recent' = Recent \cup {[id |-> opened + 1, epoch |-> epoch]}
        BY <1>2, <4>1 DEF CheckPassword, Recent, Numbered, TypeOK, TypeOfSessions
      <4>3. Opening' = Opening \cup {d}
        BY <4>1 DEF Opening, At, TypeOK, TypeOfAuth
      <4>4. QED
        BY <3>1, <4>2, <4>3
    <3>3. CASE opened' # opened + 1
      <4>1. sessions' = sessions /\ login' = [login EXCEPT ![d] = Idle]
        BY <1>2, <3>3 DEF CheckPassword, Open
      <4>2. Opening' = Opening
        BY <1>2, <4>1 DEF Opening, At, Idle, TypeOK, TypeOfAuth, CheckPassword
      <4>3. QED
        BY <1>2, <3>1, <4>1, <4>2 DEF Recent, CheckPassword
    <3>4. QED
      BY <3>2, <3>3
  <2>2. Cardinality(Opening \cup {d}) = Cardinality(Opening) + 1
    BY <2>1, CountFacts, Count
  <2>3. \A x : Cardinality(Recent \cup {x}) <= Cardinality(Recent) + 1 /\ Cardinality(Recent \cup {x}) \in Nat
    BY CountFacts, Count
  <2>4. /\ Cardinality(Recent) <= Cardinality(Holding) + Cardinality(Opening) + lost /\ lost \in Nat
        /\ Cardinality(Recent) \in Nat /\ Cardinality(Holding) \in Nat /\ Cardinality(Opening) \in Nat
    BY CountFacts DEF NoSessionLeft, TypeOK, TypeOfSessions
  <2>5. CASE Recent' = Recent /\ Opening' = Opening
    BY <2>1, <2>5 DEF NoSessionLeft
  <2>6. CASE Recent' = Recent \cup {[id |-> opened + 1, epoch |-> epoch]} /\ Opening' = Opening \cup {d}
    <3>1. Cardinality(Recent') <= Cardinality(Recent) + 1 /\ Cardinality(Recent') \in Nat
      BY <2>3, <2>6
    <3>2. Cardinality(Opening') = Cardinality(Opening) + 1 /\ Cardinality(Holding') = Cardinality(Holding)
      BY <2>1, <2>2, <2>6
    <3>3. QED
      BY <2>1, <2>4, <3>1, <3>2 DEF NoSessionLeft
  <2>7. QED
    BY <2>1, <2>5, <2>6
<1>3. ASSUME NEW d \in Devices, Opened(d) PROVE NoSessionLeft'
  <2>1. /\ d \in Opening /\ Opening' = Opening \ {d} /\ Recent' = Recent /\ d \notin Holding
        /\ login[d].session.id > boot
    BY <1>3 DEF TypeOK, TypeOfAuth, TypeOfSessions, SigningIn, SignedIn, Recent, Holding, Opening, Opened, Hears, At, Idle
  <2>2. \/ Holding' = Holding \cup {d} /\ lost' = lost
        \/ Holding' = Holding /\ lost' = lost + 1
    BY <1>3, <2>1 DEF TypeOK, TypeOfSessions, Holding, Opened, Hears
  <2>3. /\ Cardinality(Opening \ {d}) = Cardinality(Opening) - 1
        /\ Cardinality(Holding \cup {d}) = Cardinality(Holding) + 1
    BY <2>1, CountFacts, Count
  <2>4. /\ Cardinality(Recent') = Cardinality(Recent) /\ Cardinality(Opening') = Cardinality(Opening) - 1
        /\ \/ Cardinality(Holding') = Cardinality(Holding) + 1 /\ lost' = lost
           \/ Cardinality(Holding') = Cardinality(Holding) /\ lost' = lost + 1
    BY <2>1, <2>2, <2>3
  <2>5. QED
    BY <2>4, CountFacts DEF NoSessionLeft, TypeOK, TypeOfSessions
<1>4. ASSUME NEW d \in Devices, SignInElsewhere(d) PROVE NoSessionLeft'
  <2>1. /\ Opening' = Opening /\ d \notin Holding
        /\ Recent' = Recent \cup {[id |-> opened + 1, epoch |-> epoch]}
    BY <1>4 DEF TypeOK, TypeOfAuth, TypeOfSessions, Numbered, SignedIn, Recent, Holding, Opening, SignInElsewhere, Hears, At, Idle
  <2>2. \/ Holding' = Holding \cup {d} /\ lost' = lost
        \/ Holding' = Holding /\ lost' = lost + 1
    BY <1>4, <2>1 DEF TypeOK, TypeOfSessions, Numbered, Holding, SignInElsewhere, Hears
  <2>3. Cardinality(Holding \cup {d}) = Cardinality(Holding) + 1
    BY <2>1, CountFacts, Count
  <2>4. \A x : Cardinality(Recent \cup {x}) <= Cardinality(Recent) + 1 /\ Cardinality(Recent \cup {x}) \in Nat
    BY CountFacts, Count
  <2>5. /\ Cardinality(Recent') <= Cardinality(Recent) + 1 /\ Cardinality(Recent') \in Nat
        /\ Cardinality(Opening') = Cardinality(Opening)
        /\ \/ Cardinality(Holding') = Cardinality(Holding) + 1 /\ lost' = lost
           \/ Cardinality(Holding') = Cardinality(Holding) /\ lost' = lost + 1
    BY <2>1, <2>2, <2>3, <2>4
  <2>6. QED
    BY <2>5, CountFacts DEF NoSessionLeft, TypeOK, TypeOfSessions
<1>5. ASSUME NEW d \in Devices, SignOut(d) PROVE NoSessionLeft'
  <2>1. /\ Opening' = Opening /\ Holding' = Holding \ {d}
        /\ Cardinality(Holding') <= Cardinality(Holding) /\ Cardinality(Holding') \in Nat
        /\ Cardinality(Holding') >= Cardinality(Holding) - 1
    <3>1. Opening' = Opening /\ Holding' = Holding \ {d}
      BY <1>5 DEF TypeOK, TypeOfSessions, Holding, Opening, SignOut, At
    <3>2. QED
      BY <3>1, CountFacts, Count
  <2>2. CASE lost' = lost + 1
    <3>1. Recent' = Recent
      BY <1>5, <2>2 DEF SignOut, Recent, TypeOK, TypeOfSessions
    <3>2. QED
      BY <2>1, <2>2, <3>1, CountFacts DEF NoSessionLeft, TypeOK, TypeOfSessions
  <2>3. CASE lost' = lost
    <3>1. CASE Recent = {}
      <4>1. Recent' = {}
        BY <1>5, <3>1 DEF SignOut, Recent
      <4>2. QED
        BY <2>1, <2>3, <4>1, CountFacts, FS_EmptySet DEF NoSessionLeft, TypeOK, TypeOfSessions
    <3>2. CASE Recent # {}
      <4>1. sessions # {} /\ lost' # lost + 1
        BY <2>3, <3>2 DEF Recent, TypeOK, TypeOfSessions
      <4>2. PICK s \in sessions : Latest(s) /\ sessions' = sessions \ {s}
        BY <1>5, <4>1 DEF SignOut
      <4>3. s \in Recent /\ Recent' = Recent \ {s}
        BY <1>5, <3>2, <4>2 DEF SignOut, Latest, Recent, TypeOK, TypeOfSessions, Session
      <4>4. QED
        BY <2>1, <2>3, <4>3, CountFacts, Count DEF NoSessionLeft, TypeOK, TypeOfSessions
    <3>3. QED
      BY <3>1, <3>2
  <2>4. QED
    BY <1>5, <2>2, <2>3 DEF SignOut
<1>6. ASSUME NEW d \in Devices, Refused(d) PROVE NoSessionLeft'
  <2>1. Opening' = Opening /\ Holding' = Holding \ {d}
    BY <1>6 DEF TypeOK, TypeOfSessions, Holding, Opening, Refused, authVars, At
  <2>2. CASE lost' = lost + 1 /\ sessions' = sessions
    <3>1. Recent' = Recent
      BY <1>6, <2>2 DEF Refused, Recent
    <3>2. Cardinality(Holding') >= Cardinality(Holding) - 1 /\ Cardinality(Holding') \in Nat
      BY <2>1, CountFacts, Count
    <3>3. QED
      BY <2>1, <2>2, <3>1, <3>2, CountFacts DEF NoSessionLeft, TypeOK, TypeOfSessions
  <2>3. CASE lost' = lost /\ \E s \in sessions : s.id = signed[d] /\ sessions' = sessions \ {s}
    <3>1. PICK s \in sessions : s.id = signed[d] /\ sessions' = sessions \ {s}
      BY <2>3
    <3>2. Recent' = Recent \ {s} /\ (s \in Recent <=> d \in Holding)
      BY <1>6, <3>1 DEF Refused, Recent, Holding
    <3>3. CASE d \in Holding
      BY <2>1, <2>3, <3>2, <3>3, CountFacts, Count DEF NoSessionLeft, TypeOK, TypeOfSessions
    <3>4. CASE d \notin Holding
      <4>1. Holding' = Holding /\ Recent' = Recent
        BY <2>1, <3>2, <3>4
      <4>2. QED
        BY <2>1, <2>3, <4>1 DEF NoSessionLeft
    <3>5. QED
      BY <3>3, <3>4
  <2>4. QED
    BY <1>6, <2>2, <2>3 DEF Refused
<1>7. ASSUME NEW s \in sessions, RevokeOne(s) PROVE NoSessionLeft'
  <2>1. Recent' \subseteq Recent /\ Holding' = Holding /\ Opening' = Opening /\ lost' = lost
    BY <1>7 DEF TypeOK, TypeOfAuth, TypeOfSessions, Recent, Holding, Opening, RevokeOne, Act, authVars, userVars, At
  <2>2. Cardinality(Recent') <= Cardinality(Recent) /\ Cardinality(Recent') \in Nat
    BY <2>1, CountFacts, FS_Subset, FS_CardinalityType
  <2>3. QED
    BY <2>1, <2>2, CountFacts DEF NoSessionLeft, TypeOK, TypeOfSessions
<1>8. ASSUME LogoutAll PROVE NoSessionLeft'
  <2>1. Recent' \subseteq Recent /\ Holding' = Holding /\ Opening' = Opening /\ lost' = lost
    BY <1>8 DEF TypeOK, TypeOfAuth, TypeOfSessions, Recent, Holding, Opening, LogoutAll, Act, RevokeAll, authVars, userVars, At
  <2>2. Cardinality(Recent') <= Cardinality(Recent) /\ Cardinality(Recent') \in Nat
    BY <2>1, CountFacts, FS_Subset, FS_CardinalityType
  <2>3. QED
    BY <2>1, <2>2, CountFacts DEF NoSessionLeft, TypeOK, TypeOfSessions
<1>9. ASSUME ForgotPassword PROVE NoSessionLeft'
  <2>1. Recent' = Recent /\ Holding' = Holding /\ Opening' = Opening /\ lost' = lost
    BY <1>9 DEF TypeOK, TypeOfAuth, TypeOfSessions, Recent, Holding, Opening, ForgotPassword, Act, authVars, sessionVars, At
  <2>2. QED
    BY <2>1 DEF NoSessionLeft
<1>10. ASSUME ResetPassword PROVE NoSessionLeft'
  <2>1. Recent' \subseteq Recent /\ Holding' = Holding /\ Opening' = Opening /\ lost' = lost
    BY <1>10 DEF TypeOK, TypeOfAuth, TypeOfSessions, Recent, Holding, Opening, ResetPassword, Act, RevokeAll, authVars, At
  <2>2. Cardinality(Recent') <= Cardinality(Recent) /\ Cardinality(Recent') \in Nat
    BY <2>1, CountFacts, FS_Subset, FS_CardinalityType
  <2>3. QED
    BY <2>1, <2>2, CountFacts DEF NoSessionLeft, TypeOK, TypeOfSessions
<1>11. ASSUME ChangePassword PROVE NoSessionLeft'
  <2>1. Recent' = Recent /\ Holding' = Holding /\ Opening' = Opening /\ lost' = lost
    BY <1>11 DEF TypeOK, TypeOfAuth, TypeOfSessions, Recent, Holding, Opening, ChangePassword, Act, authVars, sessionVars, At
  <2>2. QED
    BY <2>1 DEF NoSessionLeft
<1>12. ASSUME NEW a \in Admins, NEW s \in Statuses, SetStatus(a, s) PROVE NoSessionLeft'
  <2>1. Recent' \subseteq Recent /\ Holding' = Holding /\ Opening' = Opening /\ lost' = lost
    BY <1>12 DEF TypeOK, TypeOfAuth, TypeOfSessions, Recent, Holding, Opening, SetStatus, StatusBecomes, AdminStarts, RevokeAll, Act, AdminAt, adminRest, authVars, At
  <2>2. Cardinality(Recent') <= Cardinality(Recent) /\ Cardinality(Recent') \in Nat
    BY <2>1, CountFacts, FS_Subset, FS_CardinalityType
  <2>3. QED
    BY <2>1, <2>2, CountFacts DEF NoSessionLeft, TypeOK, TypeOfSessions
<1>13. ASSUME NEW a \in Admins, UpdateUser(a) PROVE NoSessionLeft'
  <2>1. Recent' \subseteq Recent /\ Holding' = Holding /\ Opening' = Opening /\ lost' = lost
    BY <1>13 DEF TypeOK, TypeOfAuth, TypeOfSessions, Recent, Holding, Opening, UpdateUser, StatusBecomes, AdminStarts, RevokeAll, Act, AdminAt, adminRest, authVars, At
  <2>2. Cardinality(Recent') <= Cardinality(Recent) /\ Cardinality(Recent') \in Nat
    BY <2>1, CountFacts, FS_Subset, FS_CardinalityType
  <2>3. QED
    BY <2>1, <2>2, CountFacts DEF NoSessionLeft, TypeOK, TypeOfSessions
<1>14. ASSUME NEW a \in Admins, MemberWritten(a) PROVE NoSessionLeft'
  <2>1. Recent' = Recent /\ Holding' = Holding /\ Opening' = Opening /\ lost' = lost
    BY <1>14 DEF TypeOK, TypeOfAuth, TypeOfSessions, Recent, Holding, Opening, MemberWritten, AdminAt, adminRest, authVars, At
  <2>2. QED
    BY <2>1 DEF NoSessionLeft
<1>15. ASSUME NEW a \in Admins, UserWritten(a) PROVE NoSessionLeft'
  <2>1. Recent' = Recent /\ Holding' = Holding /\ Opening' = Opening /\ lost' = lost
    BY <1>15 DEF TypeOK, TypeOfAuth, TypeOfSessions, Recent, Holding, Opening, UserWritten, Act, AdminAt, Resting, adminRest, authVars, At
  <2>2. QED
    BY <2>1 DEF NoSessionLeft
<1>16. ASSUME LockExpires PROVE NoSessionLeft'
  <2>1. Recent' = Recent /\ Holding' = Holding /\ Opening' = Opening /\ lost' = lost
    BY <1>16 DEF TypeOK, TypeOfAuth, TypeOfSessions, Recent, Holding, Opening, LockExpires, Act, sessionVars, userVars, At
  <2>2. QED
    BY <2>1 DEF NoSessionLeft
<1>17. ASSUME Unlock PROVE NoSessionLeft'
  <2>1. Recent' = Recent /\ Holding' = Holding /\ Opening' = Opening /\ lost' = lost
    BY <1>17 DEF TypeOK, TypeOfAuth, TypeOfSessions, Recent, Holding, Opening, Unlock, Act, ClearFailedLogins, sessionVars, userVars, At
  <2>2. QED
    BY <2>1 DEF NoSessionLeft
<1>18. ASSUME Restart PROVE NoSessionLeft'
  <2>1. sessions' \subseteq Session /\ opened \in Nat /\ \A s \in sessions' : s.id <= opened
    BY <1>18, TypeStep DEF Restart, Numbered, TypeOK, TypeOfSessions
  <2>2. Recent' = {}
    BY <1>18, <2>1 DEF Restart, Recent, Session
  <2>3. Opening' = {}
    BY <1>18 DEF Restart, Opening, At, Idle
  <2>4. Cardinality(Holding') \in Nat
    BY DeviceAssumption, FS_Subset, FS_CardinalityType DEF Holding
  <2>5. QED
    BY <1>18, <2>2, <2>3, <2>4, FS_EmptySet DEF NoSessionLeft, TypeOK, TypeOfSessions, Restart
<1>19. ASSUME UNCHANGED vars PROVE NoSessionLeft'
  BY <1>19 DEF TypeOK, TypeOfAuth, TypeOfSessions, Recent, Holding, Opening, NoSessionLeft, vars, authVars, sessionVars, userVars, At
<1>20. QED
  BY <1>1, <1>2, <1>3, <1>4, <1>5, <1>6, <1>7, <1>8, <1>9, <1>10, <1>11, <1>12, <1>13, <1>14, <1>15, <1>16, <1>17, <1>18, <1>19 DEF Next

\* Inv is inductive.
LEMMA InvStep == Inv /\ [Next]_vars => Inv'
  BY TypeStep, FiniteStep, NumberStep, SigningInStep, LockStep, RevocationStep, NoSessionStep, StatusStep DEF Inv

THEOREM Invariance == Spec => []Inv
  BY InitInv, InvStep, PTL DEF Spec

\* The types of the model.
THEOREM TypeCorrect == Spec => []TypeOK
<1>1. Inv => TypeOK
  BY DEF Inv
<1>2. QED
  BY <1>1, Invariance, PTL

\* The lock limits what can be guessed, although requests that passed its check
\* are still to be answered when it closes.
THEOREM GuessesAreBounded == Spec => []GuessesBounded
<1>1. Inv => GuessesBounded
  BY DEF Inv, LockInv
<1>2. QED
  BY <1>1, Invariance, PTL

\* No login that waits for PostgreSQL brings a session through a revocation.
THEOREM RevocationIsComplete == Spec => []RevocationHolds
<1>1. Inv => RevocationHolds
  BY DEF Inv
<1>2. QED
  BY <1>1, Invariance, PTL

\* However the devices take turns in signing out, none of the sessions is left.
THEOREM SignOutsSuffice == Spec => []NoSessionLeft
<1>1. Inv => NoSessionLeft
  BY DEF Inv
<1>2. QED
  BY <1>1, Invariance, PTL

\* What one administrator set is what the next start loads.
THEOREM StatusIsWritten == Spec => []StatusWritten
<1>1. Inv => StatusWritten
  BY DEF Inv, StatusInv, StatusWritten
<1>2. QED
  BY <1>1, Invariance, PTL

-----------------------------------------------------------------------------
(* Tenancy: tables and their changes *)

\* The organization and what belongs to it; the people.
OrganizationKept(m, n) ==
    m.org = n.org /\ m.tenant = n.tenant /\ m.workspace = n.workspace /\ m.joined = n.joined /\ m.home = n.home
PeopleKept(m, n) == m.members = n.members /\ m.role = n.role /\ m.active = n.active

\* One column of a table changes.
WithOrg(m, v) == [m EXCEPT !.org = v]
WithTenant(m, v) == [m EXCEPT !.tenant = v]
WithWorkspace(m, v) == [m EXCEPT !.workspace = v]
WithMembership(m, u, i, v) == [m EXCEPT !.joined[u][i] = v]
WithMemberships(m, f) == [m EXCEPT !.joined = f]
WithHome(m, u) == [m EXCEPT !.home[u] = TRUE]
WithRecords(m, u, q) == [m EXCEPT !.members[u] = q]
WithRole(m, u, r) == [m EXCEPT !.role[u] = r]
WithActive(m, u, a) == [m EXCEPT !.active[u] = a]

\* The status of the organization changes: still a store, the other columns as before.
LEMMA StoreOrg ==
  ASSUME NEW m \in Store, NEW v \in OrgStatuses
  PROVE  LET n == WithOrg(m, v)
         IN  /\ n \in Store /\ PeopleKept(n, m) /\ n.org = v
             /\ n.tenant = m.tenant /\ n.workspace = m.workspace /\ n.joined = m.joined /\ n.home = m.home
BY DEF Store, PeopleKept, WithOrg

\* The same for the tenant.
LEMMA StoreTenant ==
  ASSUME NEW m \in Store, NEW v \in BOOLEAN
  PROVE  LET n == WithTenant(m, v)
         IN  /\ n \in Store /\ PeopleKept(n, m) /\ n.tenant = v
             /\ n.org = m.org /\ n.workspace = m.workspace /\ n.joined = m.joined /\ n.home = m.home
BY DEF Store, PeopleKept, WithTenant

\* The same for the workspace.
LEMMA StoreWorkspace ==
  ASSUME NEW m \in Store, NEW v \in BOOLEAN
  PROVE  LET n == WithWorkspace(m, v)
         IN  /\ n \in Store /\ PeopleKept(n, m) /\ n.workspace = v
             /\ n.org = m.org /\ n.tenant = m.tenant /\ n.joined = m.joined /\ n.home = m.home
BY DEF Store, PeopleKept, WithWorkspace

\* The same for one membership of the organization.
LEMMA StoreMembership ==
  ASSUME NEW m \in Store, NEW u \in Users, NEW i \in Ids, NEW v \in OrgStatuses
  PROVE  LET n == WithMembership(m, u, i, v)
         IN  /\ n \in Store /\ PeopleKept(n, m)
             /\ n.joined[u][i] = v /\ (\A j \in Ids \ {i} : n.joined[u][j] = m.joined[u][j])
             /\ \A w \in Users \ {u} : n.joined[w] = m.joined[w]
             /\ n.org = m.org /\ n.tenant = m.tenant /\ n.workspace = m.workspace /\ n.home = m.home
BY DEF Store, PeopleKept, WithMembership

\* The same for all memberships at once, as the boot leaves them.
LEMMA StoreMemberships ==
  ASSUME NEW m \in Store, NEW f \in [Users -> [Ids -> OrgStatuses]]
  PROVE  LET n == WithMemberships(m, f)
         IN  /\ n \in Store /\ PeopleKept(n, m) /\ n.joined = f
             /\ n.org = m.org /\ n.tenant = m.tenant /\ n.workspace = m.workspace /\ n.home = m.home
BY DEF Store, PeopleKept, WithMemberships

\* The same for the tenant of an account.
LEMMA StoreHome ==
  ASSUME NEW m \in Store, NEW u \in Users
  PROVE  LET n == WithHome(m, u)
         IN  /\ n \in Store /\ PeopleKept(n, m) /\ n.home = [m.home EXCEPT ![u] = TRUE]
             /\ n.org = m.org /\ n.tenant = m.tenant /\ n.workspace = m.workspace /\ n.joined = m.joined
BY DEF Store, PeopleKept, WithHome

\* The same for the records of a member.
LEMMA StoreRecords ==
  ASSUME NEW m \in Store, NEW u \in Users, NEW q \in Seq(Record)
  PROVE  LET n == WithRecords(m, u, q)
         IN  /\ n \in Store /\ OrganizationKept(n, m) /\ n.role = m.role /\ n.active = m.active
             /\ n.members[u] = q /\ \A v \in Users \ {u} : n.members[v] = m.members[v]
BY DEF Store, OrganizationKept, WithRecords

\* The same for the role of an account.
LEMMA StoreRole ==
  ASSUME NEW m \in Store, NEW u \in Users, NEW r \in Roles
  PROVE  LET n == WithRole(m, u, r)
         IN  /\ n \in Store /\ OrganizationKept(n, m) /\ n.members = m.members /\ n.active = m.active
             /\ n.role[u] = r /\ \A v \in Users \ {u} : n.role[v] = m.role[v]
BY DEF Store, OrganizationKept, WithRole

\* The same for the state of an account.
LEMMA StoreActive ==
  ASSUME NEW m \in Store, NEW u \in Users, NEW a \in BOOLEAN
  PROVE  LET n == WithActive(m, u, a)
         IN  /\ n \in Store /\ OrganizationKept(n, m) /\ n.members = m.members /\ n.role = m.role
             /\ n.active[u] = a /\ \A v \in Users \ {u} : n.active[v] = m.active[v]
BY DEF Store, OrganizationKept, WithActive

\* The columns have their types.
LEMMA StoreTypes ==
  ASSUME NEW m \in Store
  PROVE  /\ m.org \in OrgStatuses /\ m.tenant \in BOOLEAN /\ m.workspace \in BOOLEAN
         /\ m.joined \in [Users -> [Ids -> OrgStatuses]] /\ m.home \in [Users -> BOOLEAN]
         /\ m.members \in [Users -> Seq(Record)] /\ m.role \in [Users -> Roles] /\ m.active \in [Users -> BOOLEAN]
BY DEF Store

\* The first record of a member gets a status or a role, all of them are written.
WithStatus(q, v) == [q EXCEPT ![1].status = v]
WithRank(q, r) == [q EXCEPT ![1].role = r]
Rewritten(q, v) == [i \in DOMAIN q |-> Written(q[i], v)]

\* Rewriting one record, as the UPDATE does, keeps the records of a member records.
LEMMA RecordsWritten ==
  ASSUME NEW q \in Seq(Record)
  PROVE  /\ \A v \in {"Active", "Suspended"} : q # <<>> =>
              /\ WithStatus(q, v) \in Seq(Record) /\ Len(WithStatus(q, v)) = Len(q)
              /\ WithStatus(q, v)[1].status = v /\ WithStatus(q, v)[1].role = q[1].role
              /\ WithStatus(q, v)[1] = Written(q[1], v)
         /\ \A r \in Roles : q # <<>> =>
              /\ WithRank(q, r) \in Seq(Record) /\ Len(WithRank(q, r)) = Len(q)
              /\ WithRank(q, r)[1].role = r /\ WithRank(q, r)[1].status = q[1].status
              /\ WithRank(q, r)[1] = Written(q[1], r)
         /\ \A v \in Roles \cup {"Active", "Suspended", "Removed"} :
              /\ Rewritten(q, v) \in Seq(Record) /\ Len(Rewritten(q, v)) = Len(q)
              /\ q # <<>> => Rewritten(q, v)[1] = Written(q[1], v)
              /\ \A i \in 1..Len(q) : Rewritten(q, v)[i].status = IF v \in Roles THEN q[i].status ELSE v
<1>1. ASSUME NEW v \in {"Active", "Suspended"}, q # <<>>
      PROVE  /\ WithStatus(q, v) \in Seq(Record) /\ Len(WithStatus(q, v)) = Len(q)
             /\ WithStatus(q, v)[1].status = v /\ WithStatus(q, v)[1].role = q[1].role
             /\ WithStatus(q, v)[1] = Written(q[1], v)
  <2>1. q[1] \in Record /\ 1 \in 1..Len(q)
    BY <1>1
  <2>2. [q[1] EXCEPT !.status = v] \in Record
    BY <2>1 DEF Record
  <2>3. WithStatus(q, v) = [q EXCEPT ![1] = [q[1] EXCEPT !.status = v]]
    BY DEF WithStatus
  <2>4. /\ WithStatus(q, v) \in Seq(Record) /\ Len(WithStatus(q, v)) = Len(q)
        /\ WithStatus(q, v)[1] = [q[1] EXCEPT !.status = v]
    BY <2>1, <2>2, <2>3
  <2>5. [q[1] EXCEPT !.status = v].status = v /\ [q[1] EXCEPT !.status = v].role = q[1].role
    BY <2>1 DEF Record
  <2>6. Written(q[1], v) = [q[1] EXCEPT !.status = v]
    BY DEF Written, Roles
  <2>7. QED
    BY <2>4, <2>5, <2>6
<1>2. ASSUME NEW r \in Roles, q # <<>>
      PROVE  /\ WithRank(q, r) \in Seq(Record) /\ Len(WithRank(q, r)) = Len(q)
             /\ WithRank(q, r)[1].role = r /\ WithRank(q, r)[1].status = q[1].status
             /\ WithRank(q, r)[1] = Written(q[1], r)
  <2>1. q[1] \in Record /\ 1 \in 1..Len(q)
    BY <1>2
  <2>2. [q[1] EXCEPT !.role = r] \in Record
    BY <2>1 DEF Record
  <2>3. WithRank(q, r) = [q EXCEPT ![1] = [q[1] EXCEPT !.role = r]]
    BY DEF WithRank
  <2>4. /\ WithRank(q, r) \in Seq(Record) /\ Len(WithRank(q, r)) = Len(q)
        /\ WithRank(q, r)[1] = [q[1] EXCEPT !.role = r]
    BY <2>1, <2>2, <2>3
  <2>5. [q[1] EXCEPT !.role = r].role = r /\ [q[1] EXCEPT !.role = r].status = q[1].status
    BY <2>1 DEF Record
  <2>6. Written(q[1], r) = [q[1] EXCEPT !.role = r]
    BY DEF Written
  <2>7. QED
    BY <2>4, <2>5, <2>6
<1>3. ASSUME NEW v \in Roles \cup {"Active", "Suspended", "Removed"}
      PROVE  /\ Rewritten(q, v) \in Seq(Record) /\ Len(Rewritten(q, v)) = Len(q)
             /\ q # <<>> => Rewritten(q, v)[1] = Written(q[1], v)
             /\ \A i \in 1..Len(q) : Rewritten(q, v)[i].status = IF v \in Roles THEN q[i].status ELSE v
  <2>1. \A x \in Record : /\ Written(x, v) \in Record
                          /\ Written(x, v).status = IF v \in Roles THEN x.status ELSE v
    BY DEF Written, Record
  <2>2. \A i \in 1..Len(q) : q[i] \in Record
    OBVIOUS
  <2>3. Rewritten(q, v) = [i \in 1..Len(q) |-> Written(q[i], v)]
    BY DEF Rewritten
  <2>4. Rewritten(q, v) \in Seq(Record) /\ Len(Rewritten(q, v)) = Len(q)
    BY <2>1, <2>2, <2>3
  <2>5. \A i \in 1..Len(q) : Rewritten(q, v)[i] = Written(q[i], v)
    BY <2>3
  <2>6. q # <<>> => 1 \in 1..Len(q)
    OBVIOUS
  <2>7. QED
    BY <2>1, <2>2, <2>4, <2>5, <2>6
<1>4. QED
  BY <1>1, <1>2, <1>3


-----------------------------------------------------------------------------
(* Tenancy: handlers *)

\* A handler that starts is alone unless the process is marked.
LEMMA EnterFacts ==
  ASSUME TenancyInv, NEW s \in Slots, NEW rec \in Handler, rec.pc # "idle", Enter(s, rec)
  PROVE  /\ h[s] = NoRequest /\ h'[s] = rec /\ (\A t \in Slots \ {s} : h'[t] = h[t]) /\ h' \in [Slots -> Handler]
         /\ row' = row /\ landing' = landing /\ unsaved' = unsaved /\ missed' = missed
         /\ faults' = faults /\ boots' = boots /\ arrivals' \in 0..MaxArrivals
         /\ overlapped' \in BOOLEAN /\ (overlapped => overlapped') /\ unsure' = (unsure \/ overlapped')
         /\ ~overlapped' => ~overlapped /\ (\A u \in Users : landing[u] = {}) /\ \A t \in Slots : h[t] = NoRequest
         /\ AloneInv'
<1>1. /\ h[s].pc = "idle" /\ arrivals < MaxArrivals /\ arrivals' = arrivals + 1 /\ faults' = faults /\ boots' = boots
      /\ h' = [h EXCEPT ![s] = rec] /\ overlapped' = (overlapped \/ Busy # {} \/ \E u \in Users : landing[u] # {})
      /\ unsure' = (unsure \/ overlapped') /\ row' = row /\ landing' = landing /\ unsaved' = unsaved
      /\ missed' = missed
  BY DEF Enter, Free, Arrive, Overlap
<1>2. h \in [Slots -> Handler] /\ arrivals \in 0..MaxArrivals
  BY DEF TenancyInv, TenancyTypeOK
<1>3. h[s] = NoRequest /\ h'[s] = rec /\ (\A t \in Slots \ {s} : h'[t] = h[t]) /\ h' \in [Slots -> Handler]
  BY <1>1, <1>2 DEF TenancyInv, HandlerInv, Carries, Awaits
<1>4. arrivals' \in 0..MaxArrivals
  BY <1>1, <1>2, TenancyBoundAssumption
<1>5. ~overlapped' => ~overlapped /\ (\A u \in Users : landing[u] = {}) /\ \A t \in Slots : h[t] = NoRequest
  BY <1>1 DEF Busy, TenancyInv, HandlerInv, Carries, Awaits
<1>6. AloneInv'
  BY <1>1, <1>3, <1>5 DEF AloneInv, Busy, NoRequest
<1>7. overlapped' \in BOOLEAN /\ (overlapped => overlapped')
  BY <1>1
<1>8. QED
  BY <1>1, <1>3, <1>4, <1>5, <1>6, <1>7

\* The answer to a statement reaches its handler, the only one unless the
\* process is marked.
LEMMA AnswerFacts ==
  ASSUME TenancyInv, NEW s \in Slots, h[s].pc # "idle", \A t \in Slots \ {s} : h'[t] = h[t], Done \/ Failed
  PROVE  /\ landing' = landing /\ unsaved' = unsaved /\ overlapped' = overlapped /\ boots' = boots /\ arrivals' = arrivals
         /\ faults' \in 0..MaxFaults /\ faults <= faults' /\ (missed => missed') /\ missed' \in BOOLEAN
         /\ unsure' \in BOOLEAN /\ (~unsure' => ~unsure /\ ~overlapped' /\ ~missed')
         /\ missed' => faults' >= 1
         /\ ~overlapped => (\A u \in Users : landing[u] = {}) /\ \A t \in Slots \ {s} : h[t] = NoRequest
         /\ AloneInv'
         /\ Failed => row' = row /\ missed' /\ faults' = faults + 1
         /\ Done => missed' = missed /\ faults' = faults
<1>1. /\ landing' = landing /\ unsaved' = unsaved /\ overlapped' = overlapped /\ boots' = boots /\ arrivals' = arrivals
      /\ Failed => row' = row /\ missed' = TRUE /\ unsure' = TRUE /\ faults < MaxFaults /\ faults' = faults + 1
      /\ Done => missed' = missed /\ unsure' = unsure /\ faults' = faults
  BY DEF Done, Failed
<1>2. faults \in 0..MaxFaults /\ missed \in BOOLEAN /\ unsure \in BOOLEAN /\ (missed => faults >= 1)
      /\ (~unsure => ~overlapped /\ ~missed)
  BY DEF TenancyInv, TenancyTypeOK, ReferenceInv, OwnerInv
<1>3. /\ faults' \in 0..MaxFaults /\ faults <= faults' /\ (missed => missed') /\ missed' \in BOOLEAN
      /\ unsure' \in BOOLEAN /\ (~unsure' => ~unsure /\ ~overlapped' /\ ~missed') /\ (missed' => faults' >= 1)
  <2>1. faults \in Nat /\ MaxFaults \in Nat /\ faults <= MaxFaults
    BY <1>2, TenancyBoundAssumption
  <2>2. CASE Done
    <3>1. missed' = missed /\ unsure' = unsure /\ faults' = faults /\ overlapped' = overlapped
      BY <1>1, <2>2
    <3>2. QED
      BY <1>2, <2>1, <3>1
  <2>3. CASE Failed
    <3>1. missed' = TRUE /\ unsure' = TRUE /\ faults' = faults + 1 /\ faults < MaxFaults
      BY <1>1, <2>3
    <3>2. faults' \in 0..MaxFaults /\ faults <= faults' /\ faults' >= 1
      BY <2>1, <3>1
    <3>3. QED
      BY <3>1, <3>2
  <2>4. QED
    BY <2>2, <2>3
<1>4. ~overlapped => (\A u \in Users : landing[u] = {}) /\ \A t \in Slots \ {s} : h[t] = NoRequest
  BY DEF TenancyInv, AloneInv, HandlerInv, Carries, Busy, Awaits
<1>5. AloneInv'
  <2>1. SUFFICES ASSUME ~overlapped PROVE (\A t \in Busy' : t = s) /\ \A u \in Users : landing[u] = {}
    BY <1>1, <1>4 DEF AloneInv
  <2>2. \A t \in Slots \ {s} : h'[t].pc = "idle"
    BY <1>4, <2>1 DEF NoRequest
  <2>3. QED
    BY <1>4, <2>1, <2>2 DEF Busy
<1>6. QED
  BY <1>1, <1>3, <1>4, <1>5

\* When nobody works in an unmarked process, the tables know what memory knows.
QuietAgree ==
    /\ mem.org = row.org /\ (mem.workspace => row.workspace)
    /\ \A u \in Users : (\E i \in Ids : mem.joined[u][i] = "none") => \A i \in Ids : mem.joined[u][i] = row.joined[u][i]
    /\ \A u \in Users \ unsaved :
          /\ mem.role[u] = row.role[u] /\ mem.active[u] = row.active[u]
          /\ Len(mem.members[u]) = 1 => mem.members[u] = row.members[u]
    /\ \A u \in Users : mem.members[u] # <<>> => row.members[u] # <<>>

\* When nothing is on its way, agreement of the tables is agreement of their columns.
LEMMA QuietTables ==
  ASSUME TenancyInv, ~overlapped, ~missed, \A u \in Users : landing[u] = {}, \A t \in Slots : h[t] = NoRequest
  PROVE  QuietAgree
<1>1. OrganizationAgrees /\ WorkspaceAgrees /\ MembershipsAgree /\ AccountsAgree /\ MembersAgree
  BY DEF TenancyInv, TablesInv
<1>2. \A t \in Slots : h[t].pc = "idle"
  BY DEF NoRequest
<1>3. mem.org = row.org /\ (mem.workspace => row.workspace)
  BY <1>1, <1>2 DEF OrganizationAgrees, WorkspaceAgrees, Awaits
<1>4. \A u \in Users : (\E i \in Ids : mem.joined[u][i] = "none") => \A i \in Ids : mem.joined[u][i] = row.joined[u][i]
  BY <1>1, <1>2 DEF MembershipsAgree, Awaits
<1>5. \A u \in Users \ unsaved : mem.role[u] = row.role[u] /\ mem.active[u] = row.active[u]
  BY <1>1, <1>2 DEF AccountsAgree, Of
<1>6. \A u \in Users \ unsaved : Len(mem.members[u]) = 1 => mem.members[u] = row.members[u]
  BY <1>1, <1>2 DEF MembersAgree, Of, Awaits
<1>7. \A u \in Users : mem.members[u] # <<>> => row.members[u] # <<>>
  BY <1>1, <1>2 DEF MembersAgree, Awaits
<1>8. QED
  BY <1>3, <1>4, <1>5, <1>6, <1>7 DEF QuietAgree

-----------------------------------------------------------------------------
(* What a step leaves alone *)

PeopleStages == {"member", "user", "close", "purge", "owner"}
OrganizationStages == {"organization", "tenant", "membership", "workspace", "owner", "read", "switch", "remove"}

\* A handler of the organization does not touch people.
OrganizationOnly(s) ==
    /\ PeopleKept(mem', mem) /\ PeopleKept(row', row)
    /\ landing' = landing /\ unsaved' = unsaved /\ barred' = barred
    /\ h[s].pc \notin PeopleStages \cup {"workspace"} /\ h'[s].pc \notin PeopleStages
    /\ \A t \in Slots \ {s} : h'[t] = h[t]
    /\ h'[s].pc # "idle" /\ h'[s].kind = "create" => (h[s].pc # "idle" /\ h[s].kind = "create") \/ row.org = "none"
    /\ mem'.workspace = mem.workspace \/ h'[s].pc = "workspace"
    /\ (overlapped => overlapped') /\ (missed => missed') /\ faults \in Nat /\ faults' \in Nat /\ faults <= faults'
    /\ ~unsure' => ~unsure /\ ~overlapped' /\ ~missed'
    /\ stripped' = (stripped \/ Twice')

\* A step of a request about the organization keeps what the invariant says of the people.
LEMMA OrganizationFrame ==
  ASSUME TenancyInv, NEW s \in Slots, OrganizationOnly(s)
  PROVE  /\ ~overlapped' /\ ~missed' => AccountsAgree' /\ MembersAgree'
         /\ OwnerInv' /\ BarredInv' /\ ClosingInv'
<1> USE DEF OrganizationOnly, PeopleKept, PeopleStages
<1>1. /\ mem'.members = mem.members /\ mem'.role = mem.role /\ mem'.active = mem.active
      /\ row'.members = row.members /\ row'.role = row.role /\ row'.active = row.active
  OBVIOUS
<1>2. \A t \in Slots, u \in Users : \A P \in SUBSET PeopleStages :
         (Of(t, u, P) <=> Of(t, u, P)') /\ (Of(t, u, P) => h'[t] = h[t])
  BY DEF Of
<1>3. \A t \in Slots : Awaits(t, "owner") <=> Awaits(t, "owner")'
  BY DEF Awaits
<1>4. \A u \in Users : (IsMember(u)' <=> IsMember(u)) /\ First(u)' = First(u)
  BY <1>1 DEF IsMember, First
<1>5. ASSUME ~overlapped', ~missed' PROVE AccountsAgree' /\ MembersAgree'
  <2>1. AccountsAgree /\ MembersAgree
    BY <1>5 DEF TenancyInv, TablesInv
  <2>2. AccountsAgree'
    BY <1>1, <1>2, <2>1 DEF AccountsAgree
  <2>3. MembersAgree'
    BY <1>1, <1>2, <1>3, <2>1 DEF MembersAgree
  <2>4. QED
    BY <2>2, <2>3
<1>6. OwnerInv'
  <2>1. HasOwner' <=> HasOwner
    BY <1>1, <1>4 DEF HasOwner
  <2>2. ~stripped' => ~stripped
    OBVIOUS
  <2>3. mem'.workspace /\ (\A t \in Slots : ~Awaits(t, "workspace")') => mem.workspace /\ \A t \in Slots : ~Awaits(t, "workspace")
    BY DEF Awaits
  <2>4. QED
    BY <1>1, <2>1, <2>2, <2>3 DEF TenancyInv, OwnerInv
<1>7. BarredInv'
  <2>1. SUFFICES ASSUME faults' <= 1, NEW u \in barred
                 PROVE  /\ landing[u] = {}
                        /\ \A t \in Slots : Of(t, u, {"member"})' => h'[t].value # "Active" /\ h'[t].rest # "open"
                        /\ ShutOut(u)' \/ SilentOut(u)'
    BY DEF BarredInv
  <2>2. faults <= 1 /\ u \in Users
    BY <2>1 DEF TenancyInv, TenancyTypeOK
  <2>3. /\ landing[u] = {} /\ (ShutOut(u) \/ SilentOut(u))
        /\ \A t \in Slots : Of(t, u, {"member"}) => h[t].value # "Active" /\ h[t].rest # "open"
    BY <2>1, <2>2 DEF TenancyInv, BarredInv
  <2>4. ShutOut(u) => ShutOut(u)'
    BY <1>1, <1>2, <2>2 DEF ShutOut
  <2>5. SilentOut(u) => SilentOut(u)'
    <3>1. SUFFICES ASSUME SilentOut(u) PROVE SilentOut(u)'
      OBVIOUS
    <3>2. row.org # "none"
      BY <2>2, <3>1 DEF SilentOut, TenancyInv, ReferenceInv
    <3>3. \A t \in Busy' : h'[t].kind # "create"
      BY <3>1, <3>2 DEF SilentOut, Busy
    <3>4. QED
      BY <1>1, <1>4, <2>2, <3>1, <3>3 DEF SilentOut
  <2>6. ASSUME NEW t \in Slots, Of(t, u, {"member"})' PROVE h'[t].value # "Active" /\ h'[t].rest # "open"
    <3>1. Of(t, u, {"member"}) /\ h'[t] = h[t]
      BY <2>6 DEF Of
    <3>2. QED
      BY <2>3, <3>1
  <2>7. QED
    BY <2>3, <2>4, <2>5, <2>6 DEF Of
<1>8. ClosingInv'
  <2>1. SUFFICES ASSUME ~overlapped' PROVE ClosingInv'
    BY DEF ClosingInv
  <2>2. ~overlapped /\ (faults' = 0 => faults = 0)
    BY <2>1
  <2>3. \A t \in Slots : h'[t].pc \in {"member", "user", "close", "purge"} => h'[t] = h[t]
    OBVIOUS
  <2>4. \A t \in Slots : h[t].user \in Users
    BY DEF TenancyInv, TenancyTypeOK, Handler
  <2>5. QED
    BY <1>1, <1>4, <2>2, <2>3, <2>4 DEF TenancyInv, ClosingInv, Awaits
<1>9. QED
  BY <1>5, <1>6, <1>7, <1>8

\* What is done about people does not touch the organization.
PeopleOnly ==
    /\ OrganizationKept(mem', mem) /\ OrganizationKept(row', row)
    /\ \A t \in Slots : h'[t] = h[t] \/ (h[t].pc \notin OrganizationStages /\ h'[t].pc \notin OrganizationStages)
    /\ (overlapped => overlapped') /\ (missed => missed')

\* A step about the people keeps what memory and the tables agree on about the organization.
LEMMA PeopleFrame ==
  ASSUME TenancyInv, PeopleOnly, ~overlapped', ~missed'
  PROVE  OrganizationAgrees' /\ WorkspaceAgrees' /\ MembershipsAgree'
<1> USE DEF PeopleOnly, OrganizationKept, OrganizationStages
<1>1. OrganizationAgrees /\ WorkspaceAgrees /\ MembershipsAgree
  BY DEF TenancyInv, TablesInv
<1>2. \A t \in Slots : h'[t].pc \in OrganizationStages \/ h[t].pc \in OrganizationStages => h'[t] = h[t]
  OBVIOUS
<1>3. OrganizationAgrees'
  BY <1>1, <1>2 DEF OrganizationAgrees, Awaits
<1>4. WorkspaceAgrees'
  BY <1>1, <1>2 DEF WorkspaceAgrees, Awaits
<1>5. MembershipsAgree'
  BY <1>1, <1>2 DEF MembershipsAgree, Awaits
<1>6. QED
  BY <1>3, <1>4, <1>5

\* A request about the organization enters.
LEMMA OrganizationEnters ==
  ASSUME TenancyInv, NEW s \in Slots, NEW rec \in Handler, Enter(s, rec),
         rec.pc \in {"organization", "membership", "read", "remove"},
         rec.pc = "organization" => rec.kind \in {"create", "update"} /\ rec.value \in {"Active", "INACTIVE"},
         rec.pc = "read" => rec.kind \in {"switch", "add"} /\ rec.value \in OrgStatuses,
         rec.pc \in {"membership", "remove"} => rec.kind = "add",
         rec.kind = "create" => row.org = "none" /\ rec.user = Founder /\ rec.id = "granted",
         mem' \in Store, PeopleKept(mem', mem), mem'.workspace = mem.workspace, mem'.home = mem.home,
         ~overlapped' /\ ~missed' => OrganizationAgrees' /\ WorkspaceAgrees' /\ MembershipsAgree',
         barred' = barred, stripped' = (stripped \/ Twice')
  PROVE  TenancyInv'
<1>1. /\ h[s] = NoRequest /\ h'[s] = rec /\ (\A t \in Slots \ {s} : h'[t] = h[t]) /\ h' \in [Slots -> Handler]
      /\ row' = row /\ landing' = landing /\ unsaved' = unsaved /\ missed' = missed
      /\ faults' = faults /\ boots' = boots /\ arrivals' \in 0..MaxArrivals
      /\ overlapped' \in BOOLEAN /\ (overlapped => overlapped') /\ unsure' = (unsure \/ overlapped')
      /\ AloneInv'
  BY EnterFacts
<1>2. /\ row \in Store /\ landing \in [Users -> SUBSET Record] /\ unsaved \subseteq Users /\ barred \subseteq Users
      /\ {missed, unsure, stripped} \subseteq BOOLEAN /\ faults \in 0..MaxFaults /\ boots \in 0..MaxBoots
      /\ (~unsure => ~overlapped /\ ~missed)
  BY DEF TenancyInv, TenancyTypeOK, OwnerInv
<1>3. TenancyTypeOK'
  BY <1>1, <1>2 DEF TenancyTypeOK, Twice
<1>4. HandlerInv'
  <2>1. Carries(s)'
    BY <1>1 DEF Carries, Awaits
  <2>2. ASSUME NEW t \in Slots \ {s} PROVE Carries(t)'
    BY <1>1 DEF Carries, Awaits, TenancyInv, HandlerInv
  <2>3. QED
    BY <2>1, <2>2 DEF HandlerInv
<1>5. ReferenceInv'
  BY <1>1 DEF TenancyInv, ReferenceInv
<1>6. OrganizationOnly(s)
  <2>1. PeopleKept(row', row)
    BY <1>1 DEF PeopleKept
  <2>2. h[s].pc = "idle"
    BY <1>1 DEF NoRequest
  <2>3. faults \in Nat /\ faults' \in Nat /\ faults <= faults'
    BY <1>1, <1>2
  <2>4. ~unsure' => ~unsure /\ ~overlapped' /\ ~missed'
    BY <1>1, <1>2
  <2>5. QED
    BY <1>1, <2>1, <2>2, <2>3, <2>4 DEF OrganizationOnly, PeopleStages
<1>7. /\ ~overlapped' /\ ~missed' => AccountsAgree' /\ MembersAgree'
      /\ OwnerInv' /\ BarredInv' /\ ClosingInv'
  BY <1>6, OrganizationFrame
<1>8. TablesInv'
  BY <1>7 DEF TablesInv
<1>9. QED
  BY <1>1, <1>3, <1>4, <1>5, <1>7, <1>8 DEF TenancyInv

\* A statement about the organization is answered.
LEMMA OrganizationAnswers ==
  ASSUME TenancyInv, NEW s \in Slots, Done \/ Failed, \A t \in Slots \ {s} : h'[t] = h[t], h' \in [Slots -> Handler],
         h[s].pc \in {"organization", "tenant", "membership", "read", "switch", "remove"},
         h'[s].pc \in {"idle", "tenant", "membership", "workspace", "switch"}, Carries(s)',
         h'[s].pc # "idle" /\ h'[s].kind = "create" => h[s].kind = "create",
         mem' \in Store, row' \in Store, PeopleKept(mem', mem), PeopleKept(row', row),
         mem.home = row.home => mem'.home = row'.home,
         row.org # "none" => row'.org # "none", row'.tenant => row.tenant \/ row'.org # "none",
         row.tenant => row'.tenant, row'.workspace = row.workspace,
         mem'.workspace = mem.workspace \/ (mem'.workspace /\ h'[s].pc = "workspace"),
         Done /\ ~overlapped /\ ~missed => OrganizationAgrees' /\ WorkspaceAgrees' /\ MembershipsAgree',
         barred' = barred, stripped' = (stripped \/ Twice')
  PROVE  TenancyInv'
<1>1. h[s].pc # "idle"
  OBVIOUS
<1>2. /\ landing' = landing /\ unsaved' = unsaved /\ overlapped' = overlapped /\ boots' = boots /\ arrivals' = arrivals
      /\ faults' \in 0..MaxFaults /\ faults <= faults' /\ (missed => missed') /\ missed' \in BOOLEAN
      /\ unsure' \in BOOLEAN /\ (~unsure' => ~unsure /\ ~overlapped' /\ ~missed')
      /\ missed' => faults' >= 1
      /\ AloneInv'
      /\ Failed => missed'
  BY <1>1, AnswerFacts
<1>3. /\ landing \in [Users -> SUBSET Record] /\ unsaved \subseteq Users /\ barred \subseteq Users
      /\ overlapped \in BOOLEAN /\ stripped \in BOOLEAN
      /\ faults \in 0..MaxFaults /\ boots \in 0..MaxBoots /\ arrivals \in 0..MaxArrivals
  BY DEF TenancyInv, TenancyTypeOK
<1>4. TenancyTypeOK'
  BY <1>2, <1>3 DEF TenancyTypeOK, Twice
<1>5. mem.workspace => mem'.workspace
  OBVIOUS
<1>6. HandlerInv'
  <2>1. ASSUME NEW t \in Slots \ {s} PROVE Carries(t)'
    BY <1>5 DEF Carries, Awaits, TenancyInv, HandlerInv
  <2>2. QED
    BY <2>1 DEF HandlerInv
<1>7. ReferenceInv'
  BY <1>2, <1>5 DEF TenancyInv, ReferenceInv, PeopleKept
<1>8. OrganizationOnly(s)
  <2>1. faults \in Nat /\ faults' \in Nat /\ faults <= faults'
    BY <1>2, <1>3
  <2>2. QED
    BY <1>1, <1>2, <2>1 DEF OrganizationOnly, PeopleStages
<1>9. /\ ~overlapped' /\ ~missed' => AccountsAgree' /\ MembersAgree'
      /\ OwnerInv' /\ BarredInv' /\ ClosingInv'
  BY <1>8, OrganizationFrame
<1>10. TablesInv'
  BY <1>2, <1>9 DEF TablesInv
<1>11. QED
  BY <1>2, <1>4, <1>6, <1>7, <1>9, <1>10 DEF TenancyInv

\* What a request finds in a process that stays unmarked.
LEMMA EnterQuiet ==
  ASSUME TenancyInv, NEW s \in Slots, NEW rec \in Handler, rec.pc # "idle", Enter(s, rec), ~overlapped', ~missed'
  PROVE  /\ QuietAgree /\ row' = row /\ unsaved' = unsaved /\ landing' = landing
         /\ h'[s] = rec /\ \A t \in Slots \ {s} : h'[t] = NoRequest
<1>1. /\ missed' = missed /\ row' = row /\ unsaved' = unsaved /\ landing' = landing
      /\ h'[s] = rec /\ (\A t \in Slots \ {s} : h'[t] = h[t])
      /\ ~overlapped /\ (\A u \in Users : landing[u] = {}) /\ \A t \in Slots : h[t] = NoRequest
  BY EnterFacts
<1>2. QED
  BY <1>1, QuietTables

-----------------------------------------------------------------------------
(* The organization *)

\* POST /organizations.
LEMMA CreateStep ==
  ASSUME TenancyInv, NEW s \in Slots, Create(s), stripped' = (stripped \/ Twice')
  PROVE  TenancyInv'
<1> DEFINE rec == [NoRequest EXCEPT !.pc = "organization", !.value = "Active"]
<1>1. Enter(s, rec) /\ mem' = WithOrg(mem, "Active") /\ row.org = "none" /\ barred' = barred
  BY DEF Create, WithOrg
<1>2. rec \in Handler /\ rec.pc = "organization" /\ rec.kind = "create" /\ rec.value = "Active"
      /\ rec.user = Founder /\ rec.id = "granted"
  BY FounderAssumption DEF Handler, NoRequest, OrgStatuses, Roles, Ids
<1> HIDE DEF rec
<1>3. /\ mem' \in Store /\ PeopleKept(mem', mem) /\ mem'.org = "Active" /\ mem'.tenant = mem.tenant
      /\ mem'.workspace = mem.workspace /\ mem'.joined = mem.joined /\ mem'.home = mem.home
  BY <1>1, StoreOrg DEF TenancyInv, TenancyTypeOK, OrgStatuses
<1>4. ASSUME ~overlapped', ~missed' PROVE OrganizationAgrees' /\ WorkspaceAgrees' /\ MembershipsAgree'
  <2>1. QuietAgree /\ row' = row /\ h'[s] = rec /\ \A t \in Slots \ {s} : h'[t] = NoRequest
    BY <1>1, <1>2, <1>4, EnterQuiet
  <2>2. \A t \in Slots \ {s} : h'[t].pc = "idle"
    BY <2>1 DEF NoRequest
  <2>3. OrganizationAgrees'
    BY <1>2, <1>3, <2>1, <2>2 DEF OrganizationAgrees, Awaits
  <2>4. ~row.workspace
    BY <1>1 DEF TenancyInv, ReferenceInv
  <2>5. WorkspaceAgrees'
    BY <1>2, <1>3, <2>1, <2>2, <2>4 DEF WorkspaceAgrees, Awaits, QuietAgree
  <2>6. MembershipsAgree'
    BY <1>2, <1>3, <2>1, <2>2 DEF MembershipsAgree, Awaits, QuietAgree
  <2>7. QED
    BY <2>3, <2>5, <2>6
<1>5. QED
  BY <1>1, <1>2, <1>3, <1>4, OrganizationEnters

\* PATCH and DELETE.
LEMMA UpdateOrganizationStep ==
  ASSUME TenancyInv, NEW s \in Slots, NEW v \in {"keep", "Active", "INACTIVE"}, UpdateOrganization(s, v),
         stripped' = (stripped \/ Twice')
  PROVE  TenancyInv'
<1> DEFINE w == IF v = "keep" THEN mem.org ELSE v
           rec == [NoRequest EXCEPT !.pc = "organization", !.kind = "update", !.value = mem'.org]
<1>1. Enter(s, rec) /\ mem' = WithOrg(mem, w) /\ mem.org # "none" /\ barred' = barred
  BY DEF UpdateOrganization, WithOrg
<1>2. w \in {"Active", "INACTIVE"}
  BY <1>1 DEF TenancyInv, TenancyTypeOK, Store, OrgStatuses
<1> HIDE DEF w
<1>3. /\ mem' \in Store /\ PeopleKept(mem', mem) /\ mem'.org = w /\ mem'.tenant = mem.tenant
      /\ mem'.workspace = mem.workspace /\ mem'.joined = mem.joined /\ mem'.home = mem.home
  BY <1>1, <1>2, StoreOrg DEF TenancyInv, TenancyTypeOK, OrgStatuses
<1>4. rec \in Handler /\ rec.pc = "organization" /\ rec.kind = "update" /\ rec.value = w
  BY <1>2, <1>3, FounderAssumption DEF Handler, NoRequest, OrgStatuses, Roles, Ids
<1> HIDE DEF rec
<1>5. ASSUME ~overlapped', ~missed' PROVE OrganizationAgrees' /\ WorkspaceAgrees' /\ MembershipsAgree'
  <2>1. QuietAgree /\ row' = row /\ h'[s] = rec /\ \A t \in Slots \ {s} : h'[t] = NoRequest
    BY <1>1, <1>4, <1>5, EnterQuiet
  <2>2. \A t \in Slots \ {s} : h'[t].pc = "idle"
    BY <2>1 DEF NoRequest
  <2>3. OrganizationAgrees'
    BY <1>4, <1>3, <2>1, <2>2 DEF OrganizationAgrees, Awaits
  <2>4. WorkspaceAgrees'
    BY <1>4, <1>3, <2>1, <2>2 DEF WorkspaceAgrees, Awaits, QuietAgree
  <2>5. MembershipsAgree'
    BY <1>4, <1>3, <2>1, <2>2 DEF MembershipsAgree, Awaits, QuietAgree
  <2>6. QED
    BY <2>3, <2>4, <2>5
<1>6. QED
  BY <1>1, <1>2, <1>3, <1>4, <1>5, OrganizationEnters

\* What reads the organization, or removes a membership, changes nothing yet.
LEMMA AskStep ==
  ASSUME TenancyInv, NEW s \in Slots, NEW u \in Users, NEW k \in {"switch", "add"},
         Ask(s, k, u) \/ Remove(s, u), stripped' = (stripped \/ Twice')
  PROVE  TenancyInv'
<1>1. PICK rec \in Handler :
        /\ Enter(s, rec) /\ rec.kind \in {"switch", "add"} /\ rec.pc \in {"read", "remove"}
        /\ rec.pc = "read" => rec.value = row.org
        /\ rec.pc = "remove" => rec.kind = "add"
  <2>1. CASE Ask(s, k, u)
    <3> DEFINE rec == [NoRequest EXCEPT !.pc = "read", !.kind = k, !.user = u, !.value = row.org]
    <3>1. Enter(s, rec)
      BY <2>1 DEF Ask
    <3>2. row.org \in OrgStatuses
      BY DEF TenancyInv, TenancyTypeOK, Store
    <3>3. rec \in Handler /\ rec.kind = k /\ rec.pc = "read" /\ rec.value = row.org
      BY <3>2 DEF Handler, NoRequest, Ids
    <3> HIDE DEF rec
    <3>4. QED
      BY <3>1, <3>3
  <2>2. CASE Remove(s, u)
    <3> DEFINE rec == [NoRequest EXCEPT !.pc = "remove", !.kind = "add", !.user = u]
    <3>1. Enter(s, rec)
      BY <2>2 DEF Remove
    <3>2. rec \in Handler /\ rec.kind = "add" /\ rec.pc = "remove"
      BY DEF Handler, NoRequest, Ids
    <3> HIDE DEF rec
    <3>3. QED
      BY <3>1, <3>2
  <2>3. QED
    BY <2>1, <2>2
<1>2. mem' = mem /\ barred' = barred
  BY DEF Ask, Remove
<1>3. mem' \in Store /\ PeopleKept(mem', mem) /\ row.org \in OrgStatuses
  BY <1>2 DEF TenancyInv, TenancyTypeOK, Store, PeopleKept
<1>4. ASSUME ~overlapped', ~missed' PROVE OrganizationAgrees' /\ WorkspaceAgrees' /\ MembershipsAgree'
  <2>1. QuietAgree /\ row' = row /\ h'[s] = rec /\ \A t \in Slots \ {s} : h'[t] = NoRequest
    BY <1>1, <1>4, EnterQuiet
  <2>2. \A t \in Slots \ {s} : h'[t].pc = "idle"
    BY <2>1 DEF NoRequest
  <2>3. OrganizationAgrees'
    BY <1>1, <1>2, <2>1, <2>2 DEF OrganizationAgrees, Awaits, QuietAgree
  <2>4. WorkspaceAgrees'
    BY <1>1, <1>2, <2>1, <2>2 DEF WorkspaceAgrees, Awaits, QuietAgree
  <2>5. MembershipsAgree'
    BY <1>1, <1>2, <2>1, <2>2 DEF MembershipsAgree, Awaits, QuietAgree
  <2>6. QED
    BY <2>3, <2>4, <2>5
<1>5. QED
  BY <1>1, <1>2, <1>3, <1>4, OrganizationEnters

\* admin.ts, POST /users/:id/organizations.
LEMMA AssignStep ==
  ASSUME TenancyInv, NEW s \in Slots, NEW u \in Users, Assign(s, u), stripped' = (stripped \/ Twice')
  PROVE  TenancyInv'
<1> DEFINE i == Membership(u)
           rec == [NoRequest EXCEPT !.pc = "membership", !.kind = "add", !.user = u, !.id = i]
<1>1. Enter(s, rec) /\ mem' = WithMembership(mem, u, i, "Active") /\ mem.org = "Active" /\ barred' = barred
  BY DEF Assign, WithMembership
<1>2. i \in Ids
  BY DEF Membership, Oldest, Ids
<1>3. rec \in Handler /\ rec.pc = "membership" /\ rec.kind = "add" /\ rec.user = u /\ rec.id = i
  BY <1>2 DEF Handler, NoRequest
<1> HIDE DEF rec, i
<1>4. /\ mem' \in Store /\ PeopleKept(mem', mem) /\ mem'.org = mem.org /\ mem'.tenant = mem.tenant
      /\ mem'.workspace = mem.workspace /\ mem'.home = mem.home
  BY <1>1, <1>2, StoreMembership DEF TenancyInv, TenancyTypeOK, OrgStatuses
<1>6. /\ mem'.joined[u][i] = "Active" /\ \A j \in Ids \ {i} : mem'.joined[u][j] = mem.joined[u][j]
      /\ \A v \in Users \ {u} : mem'.joined[v] = mem.joined[v]
  <2>1. mem \in Store /\ "Active" \in OrgStatuses
    BY DEF TenancyInv, TenancyTypeOK, OrgStatuses
  <2> DEFINE n == WithMembership(mem, u, i, "Active")
  <2>2. /\ n.joined[u][i] = "Active" /\ \A j \in Ids \ {i} : n.joined[u][j] = mem.joined[u][j]
        /\ \A v \in Users \ {u} : n.joined[v] = mem.joined[v]
    BY <1>2, <2>1, StoreMembership
  <2> HIDE DEF n
  <2>3. QED
    BY <1>1, <2>2 DEF n
<1>7. ASSUME ~overlapped', ~missed' PROVE OrganizationAgrees' /\ WorkspaceAgrees' /\ MembershipsAgree'
  <2>1. QuietAgree /\ row' = row /\ h'[s] = rec /\ \A t \in Slots \ {s} : h'[t] = NoRequest
    BY <1>1, <1>3, <1>7, EnterQuiet
  <2>2. \A t \in Slots \ {s} : h'[t].pc = "idle"
    BY <2>1 DEF NoRequest
  <2>3. OrganizationAgrees'
    BY <1>3, <1>4, <2>1, <2>2 DEF OrganizationAgrees, Awaits, QuietAgree
  <2>4. WorkspaceAgrees'
    BY <1>3, <1>4, <2>1, <2>2 DEF WorkspaceAgrees, Awaits, QuietAgree
  <2>5. row.org # "none"
    BY <1>1, <2>1 DEF QuietAgree
  <2>6. \A v \in Users : (\E j \in Ids : mem'.joined[v][j] = "none") =>
           \A j \in Ids : mem'.joined[v][j] = row.joined[v][j] \/ (v = u /\ j = i)
    BY <1>6, <2>1 DEF QuietAgree
  <2>7. MembershipsAgree'
    BY <1>3, <1>6, <2>1, <2>2, <2>5, <2>6 DEF MembershipsAgree, Awaits
  <2>8. QED
    BY <2>3, <2>4, <2>7
<1>8. QED
  BY <1>1, <1>3, <1>4, <1>7, OrganizationEnters

\* A statement is not both refused and done.
LEMMA FailedFacts ==
  ASSUME TenancyInv, Failed
  PROVE  row' = row /\ ~Done
<1>1. row' = row /\ faults' = faults + 1
  BY DEF Failed
<1>2. faults \in 0..MaxFaults
  BY DEF TenancyInv, TenancyTypeOK
<1>3. Done => faults' = faults
  BY DEF Done
<1>4. faults \in Nat /\ faults + 1 # faults
  BY <1>2
<1>5. QED
  BY <1>1, <1>3, <1>4

\* The handler of an answered statement, alone unless the process is marked.
LEMMA AnswerQuiet ==
  ASSUME TenancyInv, NEW s \in Slots, h[s].pc # "idle", \A t \in Slots \ {s} : h'[t] = h[t], ~overlapped, ~missed
  PROVE  /\ OrganizationAgrees /\ WorkspaceAgrees /\ MembershipsAgree /\ AccountsAgree /\ MembersAgree
         /\ \A t \in Slots \ {s} : h[t].pc = "idle" /\ h'[t].pc = "idle"
         /\ \A u \in Users : landing[u] = {}
<1>1. \A t \in Slots \ {s} : h[t].pc = "idle"
  BY DEF TenancyInv, AloneInv, Busy
<1>2. QED
  BY <1>1 DEF TenancyInv, TablesInv, AloneInv, Busy

\* What follows persistOrganization.
LEMMA FoundingFacts ==
  ASSUME TenancyInv, NEW s \in Slots, h[s].pc \in {"organization", "tenant"}, Founding(s)
  PROVE  /\ h' \in [Slots -> Handler] /\ (\A t \in Slots \ {s} : h'[t] = h[t])
         /\ mem' \in Store /\ PeopleKept(mem', mem) /\ mem'.org = mem.org /\ mem'.workspace = mem.workspace
         /\ mem'.home = mem.home
         /\ \A u \in Users, i \in Ids :
               mem'.joined[u][i] = IF h[s].kind = "create" /\ u = Founder /\ i = "granted" THEN "Active"
                                   ELSE mem.joined[u][i]
         /\ IF h[s].kind = "create"
            THEN h'[s].pc = "membership" /\ h'[s].kind = "create" /\ h'[s].user = Founder /\ h'[s].id = "granted"
            ELSE h'[s] = NoRequest
         /\ Carries(s)'
<1>1. h \in [Slots -> Handler] /\ mem \in Store /\ Carries(s)
  BY DEF TenancyInv, TenancyTypeOK, HandlerInv
<1>2. h[s] \in Handler
  BY <1>1
<1>3. "Active" \in OrgStatuses /\ "granted" \in Ids /\ Founder \in Users /\ NoRequest \in Handler /\ NoRequest.pc = "idle"
  BY FounderAssumption DEF OrgStatuses, Ids, Handler, NoRequest
<1>4. CASE h[s].kind = "create"
  <2> DEFINE rec == [h[s] EXCEPT !.pc = "membership"]
             n == WithMembership(mem, Founder, "granted", "Active")
  <2>1. mem' = n /\ h' = [h EXCEPT ![s] = rec]
    BY <1>1, <1>4 DEF Founding, Advance, WithMembership
  <2>2. rec \in Handler /\ rec.pc = "membership" /\ rec.kind = "create" /\ rec.user = h[s].user /\ rec.id = h[s].id
    BY <1>2, <1>4 DEF Handler
  <2>3. /\ n \in Store /\ PeopleKept(n, mem) /\ n.org = mem.org /\ n.workspace = mem.workspace /\ n.home = mem.home
        /\ n.joined[Founder]["granted"] = "Active"
        /\ \A j \in Ids \ {"granted"} : n.joined[Founder][j] = mem.joined[Founder][j]
        /\ \A v \in Users \ {Founder} : n.joined[v] = mem.joined[v]
    BY <1>1, <1>3, StoreMembership
  <2> HIDE DEF rec, n
  <2>4. h' \in [Slots -> Handler] /\ h'[s] = rec /\ \A t \in Slots \ {s} : h'[t] = h[t]
    BY <1>1, <2>1, <2>2
  <2>5. rec.user = Founder /\ rec.id = "granted"
    BY <1>1, <1>4, <2>2 DEF Carries
  <2>6. Carries(s)'
    BY <2>2, <2>4, <2>5 DEF Carries, Awaits
  <2>7. \A u \in Users, i \in Ids : n.joined[u][i] = IF u = Founder /\ i = "granted" THEN "Active" ELSE mem.joined[u][i]
    BY <2>3
  <2>8. QED
    BY <1>4, <2>1, <2>2, <2>3, <2>4, <2>5, <2>6, <2>7
<1>5. CASE h[s].kind # "create"
  <2>1. mem' = mem /\ h' = [h EXCEPT ![s] = NoRequest]
    BY <1>5 DEF Founding, Finish
  <2>2. h' \in [Slots -> Handler] /\ h'[s] = NoRequest /\ \A t \in Slots \ {s} : h'[t] = h[t]
    BY <1>1, <1>3, <2>1
  <2>3. Carries(s)'
    BY <2>2 DEF Carries, Awaits, NoRequest
  <2>4. QED
    BY <1>1, <1>5, <2>1, <2>2, <2>3 DEF PeopleKept
<1>6. QED
  BY <1>4, <1>5

\* persistOrganization.
LEMMA OrganizationRowStep ==
  ASSUME TenancyInv, NEW s \in Slots, OrganizationRow(s), stripped' = (stripped \/ Twice')
  PROVE  TenancyInv'
<1>1. h[s].pc = "organization" /\ barred' = barred /\ Carries(s) /\ h \in [Slots -> Handler]
      /\ row \in Store /\ mem \in Store
  BY DEF OrganizationRow, TenancyInv, TenancyTypeOK, HandlerInv
<1>2. CASE Failed /\ Founding(s)
  <2>1. row' = row /\ ~Done
    BY <1>2, FailedFacts
  <2>2. PeopleKept(row', row)
    BY <2>1 DEF PeopleKept
  <2> DEFINE Goes == h'[s].pc \in {"idle", "membership"} /\ (h'[s].pc # "idle" => h[s].kind = "create")
  <2>3. /\ h' \in [Slots -> Handler] /\ (\A t \in Slots \ {s} : h'[t] = h[t])
        /\ mem' \in Store /\ PeopleKept(mem', mem) /\ mem'.workspace = mem.workspace
        /\ mem'.home = mem.home /\ Goes /\ Carries(s)'
    BY <1>1, <1>2, FoundingFacts DEF NoRequest
  <2>4. QED
    BY <1>1, <1>2, <2>1, <2>2, <2>3, OrganizationAnswers
<1>3. CASE row' = [row EXCEPT !.org = h[s].value] /\ Done /\ Advance(s, "tenant") /\ UNCHANGED mem
  <2> DEFINE rec == [h[s] EXCEPT !.pc = "tenant"]
             n == WithOrg(row, h[s].value)
  <2>1. h' = [h EXCEPT ![s] = rec] /\ row' = n /\ mem' = mem
    BY <1>1, <1>3 DEF Advance, WithOrg
  <2>2. h[s].kind \in {"create", "update"} /\ h[s].value \in {"Active", "INACTIVE"}
    BY <1>1 DEF Carries, Awaits
  <2>3. /\ n \in Store /\ PeopleKept(n, row) /\ n.org = h[s].value
        /\ n.tenant = row.tenant /\ n.workspace = row.workspace /\ n.joined = row.joined /\ n.home = row.home
    BY <1>1, <2>2, StoreOrg DEF OrgStatuses
  <2>4. rec \in Handler /\ rec.pc = "tenant" /\ rec.kind = h[s].kind /\ rec.user = h[s].user /\ rec.id = h[s].id
    BY <1>1 DEF Handler
  <2> HIDE DEF rec, n
  <2>5. h' \in [Slots -> Handler] /\ h'[s] = rec /\ \A t \in Slots \ {s} : h'[t] = h[t]
    BY <1>1, <2>1, <2>4
  <2>6. Carries(s)'
    BY <1>1, <2>1, <2>2, <2>3, <2>4, <2>5 DEF Carries, Awaits
  <2>7. ASSUME ~overlapped, ~missed PROVE OrganizationAgrees' /\ WorkspaceAgrees' /\ MembershipsAgree'
    <3>1. /\ OrganizationAgrees /\ WorkspaceAgrees /\ MembershipsAgree
          /\ \A t \in Slots \ {s} : h[t].pc = "idle" /\ h'[t].pc = "idle"
      BY <1>1, <2>5, <2>7, AnswerQuiet
    <3>2. OrganizationAgrees'
      BY <1>1, <2>1, <2>3, <2>4, <2>5, <3>1 DEF OrganizationAgrees, Awaits
    <3>3. WorkspaceAgrees'
      BY <1>1, <2>1, <2>3, <2>4, <2>5, <3>1 DEF WorkspaceAgrees, Awaits
    <3>4. MembershipsAgree'
      BY <1>1, <2>1, <2>3, <2>4, <2>5, <3>1 DEF MembershipsAgree, Awaits
    <3>5. QED
      BY <3>2, <3>3, <3>4
  <2>8. PeopleKept(mem', mem)
    BY <2>1 DEF PeopleKept
  <2>9. QED
    BY <1>1, <1>3, <2>1, <2>2, <2>3, <2>4, <2>5, <2>6, <2>7, <2>8, OrganizationAnswers
<1>4. QED
  BY <1>2, <1>3 DEF OrganizationRow

\* Its second statement.
LEMMA TenantRowStep ==
  ASSUME TenancyInv, NEW s \in Slots, TenantRow(s), stripped' = (stripped \/ Twice')
  PROVE  TenancyInv'
<1>1. h[s].pc = "tenant" /\ barred' = barred /\ Carries(s) /\ h \in [Slots -> Handler]
      /\ row \in Store /\ mem \in Store /\ Founding(s)
  BY DEF TenantRow, TenancyInv, TenancyTypeOK, HandlerInv
<1> DEFINE Goes == h'[s].pc \in {"idle", "membership"} /\ (h'[s].pc # "idle" => h[s].kind = "create")
<1>2. /\ h' \in [Slots -> Handler] /\ (\A t \in Slots \ {s} : h'[t] = h[t])
      /\ mem' \in Store /\ PeopleKept(mem', mem) /\ mem'.workspace = mem.workspace
      /\ mem'.home = mem.home /\ Goes /\ Carries(s)'
  BY <1>1, FoundingFacts DEF NoRequest
<1>3. CASE Failed
  <2>1. row' = row /\ ~Done
    BY <1>3, FailedFacts
  <2>2. PeopleKept(row', row)
    BY <2>1 DEF PeopleKept
  <2>3. QED
    BY <1>1, <1>2, <1>3, <2>1, <2>2, OrganizationAnswers
<1>4. CASE row' = [row EXCEPT !.tenant = TRUE] /\ Done
  <2> DEFINE n == WithTenant(row, TRUE)
  <2>1. row' = n
    BY <1>4 DEF WithTenant
  <2>2. /\ n \in Store /\ PeopleKept(n, row) /\ n.tenant = TRUE
        /\ n.org = row.org /\ n.workspace = row.workspace /\ n.joined = row.joined /\ n.home = row.home
    BY <1>1, StoreTenant
  <2> HIDE DEF n
  <2>3. row.org # "none"
    BY <1>1 DEF Carries, Awaits
  <2>4. ASSUME ~overlapped, ~missed PROVE OrganizationAgrees' /\ WorkspaceAgrees' /\ MembershipsAgree'
    <3>1. /\ OrganizationAgrees /\ WorkspaceAgrees /\ MembershipsAgree
          /\ \A t \in Slots \ {s} : h[t].pc = "idle" /\ h'[t].pc = "idle"
      BY <1>1, <1>2, <2>4, AnswerQuiet
    <3>2. /\ mem'.org = mem.org
          /\ \A u \in Users, i \in Ids :
               mem'.joined[u][i] = IF h[s].kind = "create" /\ u = Founder /\ i = "granted" THEN "Active"
                                   ELSE mem.joined[u][i]
          /\ IF h[s].kind = "create"
             THEN h'[s].pc = "membership" /\ h'[s].kind = "create" /\ h'[s].user = Founder /\ h'[s].id = "granted"
             ELSE h'[s] = NoRequest
      BY <1>1, FoundingFacts
    <3>3. OrganizationAgrees'
      BY <1>1, <1>2, <2>1, <2>2, <3>1, <3>2 DEF OrganizationAgrees, Awaits
    <3>4. WorkspaceAgrees'
      BY <1>1, <1>2, <2>1, <2>2, <3>1, <3>2 DEF WorkspaceAgrees, Awaits, NoRequest
    <3>5. MembershipsAgree'
      <4>1. \A t \in Slots : ~Awaits(t, "membership")
        BY <1>1, <3>1 DEF Awaits
      <4>2. \A u \in Users : (\E i \in Ids : mem'.joined[u][i] = "none") => \E i \in Ids : mem.joined[u][i] = "none"
        BY <3>2
      <4>3. \A u \in Users : (\E i \in Ids : mem'.joined[u][i] = "none") =>
               \A i \in Ids : mem.joined[u][i] = row'.joined[u][i]
        BY <2>1, <2>2, <3>1, <4>1, <4>2 DEF MembershipsAgree
      <4>4. CASE h[s].kind = "create"
        <5>1. "granted" \in Ids /\ Founder \in Users
          BY FounderAssumption DEF Ids
        <5>2. QED
          BY <1>1, <1>2, <2>1, <2>2, <2>3, <3>1, <3>2, <4>3, <4>4, <5>1 DEF MembershipsAgree, Awaits
      <4>5. CASE h[s].kind # "create"
        <5>1. \A t \in Slots : ~Awaits(t, "membership")'
          BY <3>1, <3>2, <4>5 DEF Awaits, NoRequest
        <5>2. QED
          BY <3>2, <4>3, <4>5, <5>1 DEF MembershipsAgree
      <4>6. QED
        BY <4>4, <4>5
    <3>6. QED
      BY <3>3, <3>4, <3>5
  <2>5. QED
    BY <1>1, <1>2, <1>4, <2>1, <2>2, <2>3, <2>4, OrganizationAnswers
<1>5. QED
  BY <1>3, <1>4 DEF TenantRow

\* persistOrganizationMember.
LEMMA MembershipRowStep ==
  ASSUME TenancyInv, NEW s \in Slots, MembershipRow(s), stripped' = (stripped \/ Twice')
  PROVE  TenancyInv'
<1> DEFINE u == h[s].user
           i == h[s].id
           n == WithMembership(row, u, i, "Active")
           fits == row.org # "none" /\ \A j \in Ids \ {i} : row.joined[u][j] # "Active"
<1>1. h[s].pc = "membership" /\ barred' = barred /\ Carries(s) /\ h \in [Slots -> Handler] /\ h[s] \in Handler
      /\ row \in Store /\ mem \in Store /\ u \in Users /\ i \in Ids /\ NoRequest \in Handler
  BY FounderAssumption DEF MembershipRow, TenancyInv, TenancyTypeOK, HandlerInv, Handler, NoRequest, Ids
<1>2. /\ n \in Store /\ PeopleKept(n, row) /\ n.joined[u][i] = "Active"
      /\ (\A j \in Ids \ {i} : n.joined[u][j] = row.joined[u][j]) /\ (\A w \in Users \ {u} : n.joined[w] = row.joined[w])
      /\ n.org = row.org /\ n.tenant = row.tenant /\ n.workspace = row.workspace /\ n.home = row.home
  <2>1. "Active" \in OrgStatuses
    BY DEF OrgStatuses
  <2>2. QED
    BY <1>1, <2>1, StoreMembership
<1>3. \/ Failed /\ row' = row /\ ~Done
      \/ Done /\ row' = IF fits THEN n ELSE row
  BY FailedFacts DEF MembershipRow, WithMembership
<1>4. /\ row' \in Store /\ PeopleKept(row', row) /\ row'.org = row.org /\ row'.tenant = row.tenant
      /\ row'.workspace = row.workspace /\ row'.home = row.home
  BY <1>1, <1>2, <1>3 DEF PeopleKept
<1>5. h[s].kind \in {"create", "add"}
  BY <1>1 DEF Carries, Awaits
<1> DEFINE ws == WithWorkspace(mem, TRUE)
           rec == IF h[s].kind = "create" THEN [h[s] EXCEPT !.pc = "workspace"] ELSE NoRequest
<1>6. /\ h' = [h EXCEPT ![s] = rec] /\ mem' = IF h[s].kind = "create" THEN ws ELSE mem
      /\ rec \in Handler /\ IF h[s].kind = "create" THEN rec.pc = "workspace" /\ rec.kind = "create"
                            /\ rec.user = h[s].user /\ rec.id = h[s].id ELSE rec = NoRequest /\ rec.pc = "idle"
  BY <1>1, <1>5 DEF MembershipRow, Advance, Finish, WithWorkspace, Handler, NoRequest
<1>7. /\ ws \in Store /\ PeopleKept(ws, mem) /\ ws.workspace = TRUE
      /\ ws.org = mem.org /\ ws.tenant = mem.tenant /\ ws.joined = mem.joined /\ ws.home = mem.home
  BY <1>1, StoreWorkspace
<1> HIDE DEF n, fits, rec, ws
<1>8. h' \in [Slots -> Handler] /\ h'[s] = rec /\ \A t \in Slots \ {s} : h'[t] = h[t]
  BY <1>1, <1>6
<1>9. /\ mem' \in Store /\ PeopleKept(mem', mem) /\ mem'.org = mem.org /\ mem'.joined = mem.joined /\ mem'.home = mem.home
      /\ mem'.workspace = mem.workspace \/ (mem'.workspace /\ h'[s].pc = "workspace")
  BY <1>1, <1>6, <1>7, <1>8 DEF PeopleKept
<1>10. Carries(s)'
  <2>1. CASE h[s].kind = "create"
    <3>1. h'[s].pc = "workspace" /\ h'[s].kind = "create" /\ h'[s].user = Founder /\ h'[s].id = "granted"
      BY <1>1, <1>6, <1>8, <2>1 DEF Carries
    <3>2. mem'.workspace
      BY <1>6, <1>7, <2>1
    <3>3. QED
      BY <3>1, <3>2 DEF Carries, Awaits
  <2>2. CASE h[s].kind # "create"
    <3>1. h'[s] = NoRequest
      BY <1>6, <1>8, <2>2
    <3>2. QED
      BY <3>1 DEF Carries, Awaits, NoRequest
  <2>3. QED
    BY <2>1, <2>2
<1>11. ASSUME Done, ~overlapped, ~missed PROVE OrganizationAgrees' /\ WorkspaceAgrees' /\ MembershipsAgree'
  <2>1. /\ OrganizationAgrees /\ WorkspaceAgrees /\ MembershipsAgree
        /\ \A t \in Slots \ {s} : h[t].pc = "idle" /\ h'[t].pc = "idle"
    BY <1>1, <1>8, <1>11, AnswerQuiet
  <2>2. OrganizationAgrees'
    BY <1>1, <1>4, <1>6, <1>8, <1>9, <2>1 DEF OrganizationAgrees, Awaits
  <2>3. WorkspaceAgrees'
    BY <1>1, <1>4, <1>5, <1>6, <1>7, <1>8, <1>9, <2>1 DEF WorkspaceAgrees, Awaits
  <2>4. MembershipsAgree'
    <3>1. \A t \in Slots : ~Awaits(t, "membership")'
      BY <1>6, <1>8, <2>1 DEF Awaits
    <3>2. row.org # "none" /\ mem.joined[u][i] = "Active"
      BY <1>1, <2>1 DEF MembershipsAgree, Awaits
    <3>3. ASSUME NEW v \in Users, NEW j \in Ids, mem.joined[v][j] = "none", NEW k \in Ids
          PROVE  mem.joined[v][k] = row'.joined[v][k]
      <4>1. mem.joined[v][k] = row.joined[v][k] \/ (v = u /\ k = i)
        BY <1>1, <2>1, <3>3 DEF MembershipsAgree, Awaits
      <4>2. CASE v # u
        BY <1>2, <1>3, <1>11, <4>1, <4>2
      <4>3. CASE v = u
        <5>1. j # i /\ row.joined[u][j] = "none"
          BY <1>1, <2>1, <3>2, <3>3, <4>3 DEF MembershipsAgree, Awaits
        <5>2. \A l \in Ids \ {i} : l = j
          BY <1>1, <5>1 DEF Ids
        <5>3. fits
          BY <3>2, <5>1, <5>2 DEF fits
        <5>4. row' = n
          BY <1>3, <1>11, <5>3
        <5>5. QED
          BY <1>2, <3>2, <4>1, <4>3, <5>4
      <4>4. QED
        BY <4>2, <4>3
    <3>4. QED
      BY <1>9, <3>1, <3>3 DEF MembershipsAgree
  <2>5. QED
    BY <2>2, <2>3, <2>4
<1> DEFINE Goes == h'[s].pc \in {"idle", "workspace"} /\ (h'[s].pc # "idle" => h[s].kind = "create")
<1>12. Goes /\ (Done \/ Failed)
  BY <1>3, <1>6, <1>8
<1>13. QED
  BY <1>1, <1>4, <1>8, <1>9, <1>10, <1>11, <1>12, OrganizationAnswers

\* The UPDATE of a switch.
LEMMA SwitchRowStep ==
  ASSUME TenancyInv, NEW s \in Slots, SwitchRow(s), stripped' = (stripped \/ Twice')
  PROVE  TenancyInv'
<1> DEFINE u == h[s].user
           m == WithHome(mem, u)
           n == WithHome(row, u)
<1>1. h[s].pc = "switch" /\ barred' = barred /\ h \in [Slots -> Handler]
      /\ row \in Store /\ mem \in Store /\ u \in Users /\ NoRequest \in Handler
  BY FounderAssumption DEF SwitchRow, TenancyInv, TenancyTypeOK, Handler, NoRequest, Ids
<1>2. mem' = m /\ row' = n /\ Done /\ h' = [h EXCEPT ![s] = NoRequest]
  BY DEF SwitchRow, WithHome, Finish
<1>3. /\ m \in Store /\ PeopleKept(m, mem) /\ m.home = [mem.home EXCEPT ![u] = TRUE]
      /\ m.org = mem.org /\ m.tenant = mem.tenant /\ m.workspace = mem.workspace /\ m.joined = mem.joined
      /\ n \in Store /\ PeopleKept(n, row) /\ n.home = [row.home EXCEPT ![u] = TRUE]
      /\ n.org = row.org /\ n.tenant = row.tenant /\ n.workspace = row.workspace /\ n.joined = row.joined
  BY <1>1, StoreHome
<1> HIDE DEF m, n
<1>4. h' \in [Slots -> Handler] /\ h'[s] = NoRequest /\ (\A t \in Slots \ {s} : h'[t] = h[t]) /\ NoRequest.pc = "idle"
  BY <1>1, <1>2 DEF NoRequest
<1>5. Carries(s)'
  BY <1>4 DEF Carries, Awaits, NoRequest
<1>6. ASSUME ~overlapped, ~missed PROVE OrganizationAgrees' /\ WorkspaceAgrees' /\ MembershipsAgree'
  <2>1. /\ OrganizationAgrees /\ WorkspaceAgrees /\ MembershipsAgree
        /\ \A t \in Slots \ {s} : h[t].pc = "idle" /\ h'[t].pc = "idle"
    BY <1>1, <1>4, <1>6, AnswerQuiet
  <2>2. OrganizationAgrees'
    BY <1>1, <1>2, <1>3, <1>4, <2>1 DEF OrganizationAgrees, Awaits
  <2>3. WorkspaceAgrees'
    BY <1>1, <1>2, <1>3, <1>4, <2>1 DEF WorkspaceAgrees, Awaits
  <2>4. MembershipsAgree'
    BY <1>1, <1>2, <1>3, <1>4, <2>1 DEF MembershipsAgree, Awaits
  <2>5. QED
    BY <2>2, <2>3, <2>4
<1>7. mem.home = row.home => mem'.home = row'.home
  BY <1>2, <1>3
<1>8. QED
  BY <1>1, <1>2, <1>3, <1>4, <1>5, <1>6, <1>7, OrganizationAnswers

\* removeOrganizationMember.
LEMMA RemoveRowStep ==
  ASSUME TenancyInv, NEW s \in Slots, RemoveRow(s), stripped' = (stripped \/ Twice')
  PROVE  TenancyInv'
<1> DEFINE u == h[s].user
           m == WithMembership(mem, u, Oldest(u), "INACTIVE")
           n == WithMemberships(row, [row.joined EXCEPT ![u] = Deactivated(@)])
<1>1. h[s].pc = "remove" /\ barred' = barred /\ h \in [Slots -> Handler]
      /\ row \in Store /\ mem \in Store /\ u \in Users /\ NoRequest \in Handler
  BY FounderAssumption DEF RemoveRow, TenancyInv, TenancyTypeOK, Handler, NoRequest, Ids
<1>2. /\ h' = [h EXCEPT ![s] = NoRequest]
      /\ \/ Failed /\ mem' = mem
         \/ Done /\ row' = n /\ mem' = IF Joined(u) THEN m ELSE mem
  BY DEF RemoveRow, WithMembership, WithMemberships, Finish
<1>3. Oldest(u) \in Ids
  BY DEF Oldest, Ids
<1>4. /\ m \in Store /\ PeopleKept(m, mem) /\ m.joined[u][Oldest(u)] = "INACTIVE"
      /\ (\A j \in Ids \ {Oldest(u)} : m.joined[u][j] = mem.joined[u][j])
      /\ (\A w \in Users \ {u} : m.joined[w] = mem.joined[w])
      /\ m.org = mem.org /\ m.tenant = mem.tenant /\ m.workspace = mem.workspace /\ m.home = mem.home
  <2>1. "INACTIVE" \in OrgStatuses
    BY DEF OrgStatuses
  <2>2. QED
    BY <1>1, <1>3, <2>1, StoreMembership
<1>5. row.joined \in [Users -> [Ids -> OrgStatuses]]
  BY <1>1 DEF Store
<1>6. Deactivated(row.joined[u]) \in [Ids -> OrgStatuses]
  BY <1>1, <1>5 DEF Deactivated, OrgStatuses
<1> DEFINE f == [row.joined EXCEPT ![u] = Deactivated(@)]
<1>7. f \in [Users -> [Ids -> OrgStatuses]] /\ f[u] = Deactivated(row.joined[u]) /\ \A w \in Users \ {u} : f[w] = row.joined[w]
  BY <1>1, <1>5, <1>6
<1> HIDE DEF f
<1>8. n = WithMemberships(row, f)
  BY DEF f
<1> HIDE DEF n
<1>9. /\ n \in Store /\ PeopleKept(n, row) /\ n.joined = f
      /\ n.org = row.org /\ n.tenant = row.tenant /\ n.workspace = row.workspace /\ n.home = row.home
  BY <1>1, <1>7, <1>8, StoreMemberships
<1> HIDE DEF m
<1>10. h' \in [Slots -> Handler] /\ h'[s] = NoRequest /\ (\A t \in Slots \ {s} : h'[t] = h[t]) /\ NoRequest.pc = "idle"
  BY <1>1, <1>2 DEF NoRequest
<1>11. Carries(s)'
  BY <1>10 DEF Carries, Awaits, NoRequest
<1>12. CASE Failed /\ mem' = mem
  <2>1. row' = row /\ ~Done
    BY <1>12, FailedFacts
  <2>2. PeopleKept(row', row) /\ PeopleKept(mem', mem)
    BY <1>12, <2>1 DEF PeopleKept
  <2>3. QED
    BY <1>1, <1>10, <1>11, <1>12, <2>1, <2>2, OrganizationAnswers
<1>13. CASE Done /\ row' = n /\ mem' = IF Joined(u) THEN m ELSE mem
  <2>1. /\ mem' \in Store /\ PeopleKept(mem', mem) /\ mem'.org = mem.org /\ mem'.workspace = mem.workspace
        /\ mem'.home = mem.home /\ \A w \in Users \ {u} : mem'.joined[w] = mem.joined[w]
    BY <1>1, <1>4, <1>13 DEF PeopleKept
  <2>2. ASSUME ~overlapped, ~missed PROVE OrganizationAgrees' /\ WorkspaceAgrees' /\ MembershipsAgree'
    <3>1. /\ OrganizationAgrees /\ WorkspaceAgrees /\ MembershipsAgree
          /\ \A t \in Slots \ {s} : h[t].pc = "idle" /\ h'[t].pc = "idle"
      BY <1>1, <1>10, <2>2, AnswerQuiet
    <3>2. OrganizationAgrees'
      BY <1>1, <1>9, <1>10, <1>13, <2>1, <3>1 DEF OrganizationAgrees, Awaits
    <3>3. WorkspaceAgrees'
      BY <1>1, <1>9, <1>10, <1>13, <2>1, <3>1 DEF WorkspaceAgrees, Awaits
    <3>4. \A t \in Slots : ~Awaits(t, "membership") /\ ~Awaits(t, "membership")'
      BY <1>1, <1>10, <3>1 DEF Awaits
    <3>5. ASSUME NEW v \in Users, NEW j \in Ids, mem'.joined[v][j] = "none", NEW k \in Ids
          PROVE  mem'.joined[v][k] = row'.joined[v][k]
      <4>1. CASE v # u
        BY <1>7, <1>9, <1>13, <2>1, <3>1, <3>4, <3>5, <4>1 DEF MembershipsAgree
      <4>2. CASE v = u /\ Joined(u)
        <5>1. j # Oldest(u) /\ mem.joined[u][j] = "none"
          BY <1>4, <1>13, <3>5, <4>2
        <5>2. \A l \in Ids : mem.joined[u][l] = row.joined[u][l]
          BY <1>1, <3>1, <3>4, <5>1 DEF MembershipsAgree
        <5>3. mem.joined[u][Oldest(u)] # "none"
          BY <4>2 DEF Joined, Oldest, Ids
        <5>4. k = Oldest(u) \/ k = j
          BY <1>3, <5>1 DEF Ids
        <5>5. row'.joined[u][k] = IF row.joined[u][k] = "none" THEN "none" ELSE "INACTIVE"
          BY <1>7, <1>9, <1>13 DEF Deactivated
        <5>6. QED
          BY <1>4, <1>13, <4>2, <5>1, <5>2, <5>3, <5>4, <5>5
      <4>3. CASE v = u /\ ~Joined(u)
        <5>1. \A l \in Ids : mem.joined[u][l] = "none"
          BY <4>3 DEF Joined
        <5>2. \A l \in Ids : mem.joined[u][l] = row.joined[u][l]
          BY <1>1, <3>1, <3>4, <3>5, <5>1 DEF MembershipsAgree
        <5>3. row'.joined[u][k] = IF row.joined[u][k] = "none" THEN "none" ELSE "INACTIVE"
          BY <1>7, <1>9, <1>13 DEF Deactivated
        <5>4. QED
          BY <1>13, <4>3, <5>1, <5>2, <5>3
      <4>4. QED
        BY <4>1, <4>2, <4>3
    <3>6. MembershipsAgree'
      BY <3>4, <3>5 DEF MembershipsAgree
    <3>7. QED
      BY <3>2, <3>3, <3>6
  <2>3. QED
    BY <1>1, <1>9, <1>10, <1>11, <1>13, <2>1, <2>2, OrganizationAnswers
<1>14. QED
  BY <1>2, <1>12, <1>13

\* The answer to a question about the organization is believed.
LEMMA AnswerStep ==
  ASSUME TenancyInv, NEW s \in Slots, Answer(s), stripped' = (stripped \/ Twice')
  PROVE  TenancyInv'
<1> DEFINE u == h[s].user
           read == IF h[s].value = "none" THEN mem.org ELSE h[s].value
           i == Membership(u)
<1>1. h[s].pc = "read" /\ barred' = barred /\ Carries(s) /\ h \in [Slots -> Handler] /\ h[s] \in Handler
      /\ row \in Store /\ mem \in Store /\ u \in Users /\ NoRequest \in Handler /\ NoRequest.pc = "idle"
  BY FounderAssumption DEF Answer, TenancyInv, TenancyTypeOK, HandlerInv, Handler, NoRequest, Ids
<1>2. i \in Ids /\ "Active" \in OrgStatuses
  BY DEF Membership, Oldest, Ids, OrgStatuses
<1>3. h[s].kind \in {"switch", "add"} /\ h[s].value \in OrgStatuses /\ mem.org \in OrgStatuses
  BY <1>1 DEF Carries, Awaits, Store
<1>4. PICK o \in {read, mem.org} :
        /\ (o = read /\ Done /\ row' = row) \/ (o = mem.org /\ Failed)
        /\ \/ mem' = WithOrg(mem, o) /\ h' = [h EXCEPT ![s] = NoRequest]
           \/ mem' = WithOrg(mem, o) /\ h[s].kind = "switch" /\ h' = [h EXCEPT ![s] = [@ EXCEPT !.pc = "switch"]]
           \/ /\ o = "Active" /\ h[s].kind = "add"
              /\ mem' = WithMembership(WithOrg(mem, o), u, i, "Active")
              /\ h' = [h EXCEPT ![s] = [@ EXCEPT !.pc = "membership", !.id = i]]
  BY <1>1 DEF Answer, WithOrg, WithMembership, Finish, Advance
<1>5. o \in OrgStatuses
  BY <1>3
<1>6. row' = row /\ (Done \/ Failed) /\ (Done => o = read)
  BY <1>4, FailedFacts
<1>7. PeopleKept(row', row)
  BY <1>6 DEF PeopleKept
<1> DEFINE m == WithOrg(mem, o)
           n == WithMembership(m, u, i, "Active")
<1>8. /\ m \in Store /\ PeopleKept(m, mem) /\ m.org = o /\ m.tenant = mem.tenant
      /\ m.workspace = mem.workspace /\ m.joined = mem.joined /\ m.home = mem.home
  BY <1>1, <1>5, StoreOrg
<1> HIDE DEF m
<1>9. /\ n \in Store /\ PeopleKept(n, m) /\ n.joined[u][i] = "Active"
      /\ (\A j \in Ids \ {i} : n.joined[u][j] = m.joined[u][j]) /\ (\A w \in Users \ {u} : n.joined[w] = m.joined[w])
      /\ n.org = m.org /\ n.tenant = m.tenant /\ n.workspace = m.workspace /\ n.home = m.home
  BY <1>1, <1>2, <1>8, StoreMembership
<1> HIDE DEF n
<1> DEFINE Adds == /\ mem.org = "Active" \/ o # mem.org
                   /\ h'[s].pc = "membership" /\ h'[s].user = u /\ h'[s].id = i /\ mem' = n
<1>10. /\ h' \in [Slots -> Handler] /\ (\A t \in Slots \ {s} : h'[t] = h[t])
       /\ h'[s].pc \in {"idle", "switch", "membership"} /\ (h'[s].pc # "idle" => h'[s].kind = h[s].kind)
       /\ (h'[s].pc = "idle" => h'[s] = NoRequest) /\ (h'[s].pc = "switch" => h[s].kind = "switch")
       /\ (h'[s].pc = "membership" => h[s].kind = "add")
       /\ (h'[s].pc # "membership" /\ mem' = m) \/ Adds
  <2>1. CASE mem' = m /\ h' = [h EXCEPT ![s] = NoRequest]
    <3>1. h' \in [Slots -> Handler] /\ h'[s] = NoRequest /\ \A t \in Slots \ {s} : h'[t] = h[t]
      BY <1>1, <2>1
    <3>2. QED
      BY <1>1, <2>1, <3>1
  <2>2. CASE mem' = m /\ h[s].kind = "switch" /\ h' = [h EXCEPT ![s] = [@ EXCEPT !.pc = "switch"]]
    <3> DEFINE rec == [h[s] EXCEPT !.pc = "switch"]
    <3>1. rec \in Handler /\ rec.pc = "switch" /\ rec.kind = h[s].kind
      BY <1>1 DEF Handler
    <3>2. h' = [h EXCEPT ![s] = rec]
      BY <2>2
    <3> HIDE DEF rec
    <3>3. h' \in [Slots -> Handler] /\ h'[s] = rec /\ \A t \in Slots \ {s} : h'[t] = h[t]
      BY <1>1, <3>1, <3>2
    <3>4. QED
      BY <2>2, <3>1, <3>3
  <2>3. CASE /\ o = "Active" /\ h[s].kind = "add" /\ mem' = n
             /\ h' = [h EXCEPT ![s] = [@ EXCEPT !.pc = "membership", !.id = i]]
    <3> DEFINE rec == [h[s] EXCEPT !.pc = "membership", !.id = i]
    <3>1. rec \in Handler /\ rec.pc = "membership" /\ rec.kind = h[s].kind /\ rec.user = u /\ rec.id = i
      BY <1>1, <1>2 DEF Handler
    <3>2. h' = [h EXCEPT ![s] = rec]
      BY <2>3
    <3> HIDE DEF rec
    <3>3. h' \in [Slots -> Handler] /\ h'[s] = rec /\ \A t \in Slots \ {s} : h'[t] = h[t]
      BY <1>1, <3>1, <3>2
    <3>4. QED
      BY <2>3, <3>1, <3>3
  <2>4. QED
    BY <1>4, <2>1, <2>2, <2>3 DEF m, n
<1>11. Carries(s)'
  <2>1. CASE h'[s].pc = "idle"
    BY <1>10, <2>1 DEF Carries, Awaits, NoRequest
  <2>2. CASE h'[s].pc # "idle"
    BY <1>3, <1>10, <2>2 DEF Carries, Awaits
  <2>3. QED
    BY <2>1, <2>2
<1>12. /\ mem' \in Store /\ PeopleKept(mem', mem) /\ mem'.org = o /\ mem'.workspace = mem.workspace
       /\ mem'.home = mem.home /\ mem'.tenant = mem.tenant
  BY <1>8, <1>9, <1>10 DEF PeopleKept
<1>13. ASSUME Done, ~overlapped, ~missed PROVE OrganizationAgrees' /\ WorkspaceAgrees' /\ MembershipsAgree'
  <2>1. /\ OrganizationAgrees /\ WorkspaceAgrees /\ MembershipsAgree
        /\ \A t \in Slots \ {s} : h[t].pc = "idle" /\ h'[t].pc = "idle"
    BY <1>1, <1>10, <1>13, AnswerQuiet
  <2>2. mem.org = row.org /\ o = mem.org
    BY <1>1, <1>6, <1>13, <2>1 DEF OrganizationAgrees, Awaits
  <2>3. OrganizationAgrees'
    BY <1>1, <1>6, <1>10, <1>12, <2>1, <2>2 DEF OrganizationAgrees, Awaits
  <2>4. WorkspaceAgrees'
    BY <1>1, <1>3, <1>6, <1>10, <1>12, <2>1 DEF WorkspaceAgrees, Awaits
  <2>5. MembershipsAgree'
    <3>1. \A v \in Users : (\E j \in Ids : mem.joined[v][j] = "none") => \A j \in Ids : mem.joined[v][j] = row.joined[v][j]
      BY <1>1, <2>1 DEF MembershipsAgree, Awaits
    <3>2. CASE h'[s].pc # "membership" /\ mem' = m
      <4>1. \A t \in Slots : ~Awaits(t, "membership")'
        BY <2>1, <3>2 DEF Awaits
      <4>2. QED
        BY <1>6, <1>8, <3>1, <3>2, <4>1 DEF MembershipsAgree
    <3>3. CASE Adds
      <4>1. row.org # "none"
        BY <2>2, <3>3
      <4>2. \A v \in Users : (\E j \in Ids : mem'.joined[v][j] = "none") =>
               \A j \in Ids : mem'.joined[v][j] = row.joined[v][j] \/ (v = u /\ j = i)
        BY <1>2, <1>8, <1>9, <3>1, <3>3
      <4>3. QED
        BY <1>1, <1>6, <1>9, <2>1, <3>3, <4>1, <4>2 DEF MembershipsAgree, Awaits
    <3>4. QED
      BY <1>10, <3>2, <3>3
  <2>6. QED
    BY <2>3, <2>4, <2>5
<1>14. QED
  BY <1>1, <1>3, <1>6, <1>7, <1>10, <1>11, <1>12, <1>13, OrganizationAnswers

-----------------------------------------------------------------------------
(* The administration of users *)

\* What persistWorkspaceMemberUpdate writes into a record.
LEMMA WrittenFacts ==
  ASSUME NEW x \in Record, NEW v \in Roles \cup {"Active", "Suspended", "Removed"}
  PROVE  Written(x, v) \in Record /\ Written(x, v).status = IF v \in Roles THEN x.status ELSE v
BY DEF Written, Record

\* What an administrator does to user u before the first await of the request.
ChangesUser(s, u, rec) ==
    /\ Enter(s, rec) /\ rec.user = u /\ rec.kind # "create"
    /\ mem' \in Store /\ OrganizationKept(mem', mem)
    /\ \A v \in Users \ {u} : /\ mem'.members[v] = mem.members[v] /\ mem'.role[v] = mem.role[v]
                              /\ mem'.active[v] = mem.active[v]
    /\ barred' \subseteq barred /\ stripped' = (stripped \/ ~HasOwner')
    /\ u \in barred' => (mem'.active[u] => mem.active[u])
    /\ \/ /\ rec.pc = "member" /\ mem.members[u] # <<>> /\ mem'.members[u] # <<>>
          /\ Len(mem'.members[u]) = Len(mem.members[u])
          /\ mem'.members[u][1] = Written(mem.members[u][1], rec.value)
          /\ \/ /\ rec.kind = "status" /\ rec.value \in {"Active", "Suspended"} /\ rec.rest = "keep"
                /\ mem'.role[u] = mem.role[u] /\ (mem'.active[u] <=> rec.value = "Active")
             \/ /\ (rec.kind = "role" /\ rec.rest = "keep") \/ rec.kind = "edit"
                /\ rec.value \in Roles /\ rec.value = mem'.role[u] /\ mem'.active[u] = mem.active[u]
          /\ u \in barred' => rec.value # "Active" /\ rec.rest # "open"
       \/ /\ rec.pc = "user" /\ mem'.members[u] = mem.members[u]
          /\ rec.kind \in {"role", "edit"} \/ (rec.kind = "status" /\ mem.members[u] = <<>>)
          /\ IF rec.value = "keep" THEN mem'.role[u] = mem.role[u] ELSE rec.value = mem'.role[u]
          /\ IF rec.rest = "keep" THEN mem'.active[u] = mem.active[u] ELSE rec.rest = Lock(mem'.active[u])
       \/ /\ rec.pc = "close" /\ rec.kind = "delete" /\ mem'.members[u] = <<>>
          /\ ~mem'.active[u] /\ mem'.role[u] = mem.role[u]

\* The tables, when the process stays unmarked.
LEMMA ChangeTables ==
  ASSUME TenancyInv, NEW s \in Slots, NEW u \in Users, NEW rec \in Handler, ChangesUser(s, u, rec), ~overlapped', ~missed'
  PROVE  AccountsAgree' /\ MembersAgree'
<1>1. rec.pc \in {"member", "user", "close"} /\ Enter(s, rec) /\ rec.user = u
  BY DEF ChangesUser
<1>2. /\ QuietAgree /\ row' = row /\ unsaved' = unsaved /\ landing' = landing
      /\ h'[s] = rec /\ \A t \in Slots \ {s} : h'[t] = NoRequest
      /\ \A v \in Users : landing[v] = {}
  BY <1>1, EnterQuiet, EnterFacts
<1>3. \A t \in Slots \ {s} : h'[t].pc = "idle"
  BY <1>2 DEF NoRequest
<1>4. /\ \A t \in Slots : ~Awaits(t, "owner")'
      /\ \A t \in Slots, v \in Users : h'[t].user = v /\ h'[t].pc # "idle" => t = s /\ v = u
  BY <1>1, <1>2, <1>3 DEF Awaits
<1>5. \A v \in Users \ {u} : /\ mem'.members[v] = mem.members[v] /\ mem'.role[v] = mem.role[v]
                              /\ mem'.active[v] = mem.active[v]
  BY DEF ChangesUser
<1>6. AccountsAgree'
  <2>1. SUFFICES ASSUME NEW v \in Users \ unsaved
        PROVE  /\ (\A t \in Slots : ~Of(t, v, {"member", "user"})') => mem'.role[v] = row.role[v]
               /\ (\A t \in Slots : ~Of(t, v, {"member", "user", "close"})') => mem'.active[v] = row.active[v]
               /\ \A t \in Slots : Of(t, v, {"member"})' =>
                     IF h'[t].kind = "status" THEN mem'.role[v] = row.role[v]
                     ELSE h'[t].value = mem'.role[v] /\ mem'.active[v] = row.active[v]
               /\ \A t \in Slots : Of(t, v, {"user"})' =>
                     /\ IF h'[t].value = "keep" THEN mem'.role[v] = row.role[v] ELSE h'[t].value = mem'.role[v]
                     /\ IF h'[t].rest = "keep" THEN mem'.active[v] = row.active[v] ELSE h'[t].rest = Lock(mem'.active[v])
    BY <1>2 DEF AccountsAgree, Of
  <2>2. mem.role[v] = row.role[v] /\ mem.active[v] = row.active[v]
    BY <1>2, <2>1 DEF QuietAgree
  <2>3. CASE v # u
    BY <1>4, <1>5, <2>2, <2>3 DEF Of
  <2>4. CASE v = u
    <3>1. \A t \in Slots : h'[t].pc # "idle" => t = s
      BY <1>3
    <3>2. CASE rec.pc = "member"
      BY <1>1, <1>2, <2>2, <2>4, <3>1, <3>2 DEF ChangesUser, Of
    <3>3. CASE rec.pc = "user"
      BY <1>1, <1>2, <2>2, <2>4, <3>1, <3>3 DEF ChangesUser, Of
    <3>4. CASE rec.pc = "close"
      BY <1>1, <1>2, <2>2, <2>4, <3>1, <3>4 DEF ChangesUser, Of
    <3>5. QED
      BY <1>1, <3>2, <3>3, <3>4
  <2>5. QED
    BY <2>3, <2>4
<1>7. MembersAgree'
  <2>1. ASSUME NEW v \in Users \ unsaved, Len(mem'.members[v]) = 1
        PROVE  \/ /\ Len(row.members[v]) = 1
                  /\ h'[s].user = v /\ h'[s].pc = "member"
                  /\ mem'.members[v][1] = Written(row.members[v][1], h'[s].value)
               \/ mem'.members[v] = row.members[v] /\ ~(h'[s].user = v /\ h'[s].pc = "member")
    <3>1. Len(mem.members[v]) = 1 => mem.members[v] = row.members[v]
      BY <1>2 DEF QuietAgree
    <3>2. CASE v # u
      BY <1>1, <1>2, <1>5, <2>1, <3>1, <3>2
    <3>3. CASE v = u
      BY <1>1, <1>2, <2>1, <3>1, <3>3 DEF ChangesUser
    <3>4. QED
      BY <3>2, <3>3
  <2>2. \A v \in Users : mem'.members[v] # <<>> => row.members[v] # <<>>
    <3>1. \A v \in Users : mem'.members[v] # <<>> => mem.members[v] # <<>>
      BY <1>5 DEF ChangesUser
    <3>2. QED
      BY <1>2, <3>1 DEF QuietAgree
  <2>3. \A v \in Users, t \in Slots : Of(t, v, {"member"})' <=> t = s /\ h'[s].user = v /\ h'[s].pc = "member"
    BY <1>3 DEF Of
  <2>4. QED
    BY <1>2, <1>4, <2>1, <2>2, <2>3 DEF MembersAgree, Of
<1>8. QED
  BY <1>6, <1>7

\* The doors of those whose account was closed stay shut.
LEMMA ChangeBars ==
  ASSUME TenancyInv, NEW s \in Slots, NEW u \in Users, NEW rec \in Handler, ChangesUser(s, u, rec)
  PROVE  BarredInv'
<1>1. rec.pc \in {"member", "user", "close"} /\ Enter(s, rec) /\ rec.user = u /\ rec.kind # "create"
  BY DEF ChangesUser
<1>2. /\ h[s] = NoRequest /\ h'[s] = rec /\ (\A t \in Slots \ {s} : h'[t] = h[t])
      /\ row' = row /\ landing' = landing /\ faults' = faults
  BY <1>1, EnterFacts
<1>3. SUFFICES ASSUME faults <= 1, NEW v \in barred'
               PROVE  /\ landing[v] = {}
                      /\ \A t \in Slots : Of(t, v, {"member"})' => h'[t].value # "Active" /\ h'[t].rest # "open"
                      /\ ShutOut(v)' \/ SilentOut(v)'
  BY <1>2 DEF BarredInv, Of
<1>4. v \in barred /\ v \in Users
  BY <1>3 DEF ChangesUser, TenancyInv, TenancyTypeOK
<1>5. /\ landing[v] = {} /\ (ShutOut(v) \/ SilentOut(v))
      /\ \A t \in Slots : Of(t, v, {"member"}) => h[t].value # "Active" /\ h[t].rest # "open"
  BY <1>3, <1>4 DEF TenancyInv, BarredInv
<1>6. ASSUME NEW t \in Slots, Of(t, v, {"member"})' PROVE h'[t].value # "Active" /\ h'[t].rest # "open"
  <2>1. CASE t = s
    BY <1>1, <1>2, <1>3, <1>6, <2>1 DEF Of, ChangesUser
  <2>2. CASE t # s
    BY <1>2, <1>5, <1>6, <2>2 DEF Of
  <2>3. QED
    BY <2>1, <2>2
<1>7. /\ mem'.active[v] => mem.active[v]
      /\ mem \in Store /\ mem' \in Store
  <2>1. CASE v = u
    BY <1>3, <2>1 DEF ChangesUser, TenancyInv, TenancyTypeOK
  <2>2. CASE v # u
    BY <1>4, <2>2 DEF ChangesUser, TenancyInv, TenancyTypeOK
  <2>3. QED
    BY <2>1, <2>2
<1>8. ASSUME ShutOut(v) PROVE ShutOut(v)'
  <2>1. ~mem'.active[v] /\ ~row'.active[v]
    BY <1>2, <1>7, <1>8 DEF ShutOut
  <2>2. ASSUME NEW t \in Slots, h'[t].user = v, h'[t].pc = "user" PROVE h'[t].rest # "open"
    <3>1. CASE t = s
      BY <1>1, <1>2, <2>1, <2>2, <3>1 DEF ChangesUser, Lock
    <3>2. CASE t # s
      BY <1>2, <1>8, <2>2, <3>2 DEF ShutOut, Of
    <3>3. QED
      BY <3>1, <3>2
  <2>3. QED
    BY <2>1, <2>2 DEF ShutOut, Of
<1>9. ASSUME SilentOut(v) PROVE SilentOut(v)'
  <2>1. row'.members[v] # <<>> /\ Silent(row'.members[v])
    BY <1>2, <1>9 DEF SilentOut
  <2>2. \A t \in Busy' : h'[t].kind # "create"
    BY <1>1, <1>2, <1>9 DEF SilentOut, Busy
  <2>3. ASSUME mem'.active[v] PROVE mem'.members[v] # <<>> /\ Head(mem'.members[v]).status # "Active"
    <3>1. mem.members[v] # <<>> /\ Head(mem.members[v]).status # "Active"
      BY <1>7, <1>9, <2>3 DEF SilentOut, IsMember, First
    <3>2. CASE mem'.members[v] = mem.members[v]
      BY <3>1, <3>2
    <3>3. CASE mem'.members[v] # mem.members[v]
      <4>1. v = u /\ rec.pc = "member"
        BY <1>4, <2>3, <3>3 DEF ChangesUser
      <4>2. /\ mem'.members[v] # <<>> /\ mem'.members[v][1] = Written(mem.members[v][1], rec.value)
            /\ rec.value \in Roles \cup {"Suspended"}
        BY <1>3, <4>1 DEF ChangesUser
      <4>3. mem.members[v] \in Seq(Record) /\ mem'.members[v] \in Seq(Record)
        BY <1>4, <1>7, StoreTypes
      <4>4. mem.members[v][1] \in Record /\ Head(mem.members[v]) = mem.members[v][1]
            /\ Head(mem'.members[v]) = mem'.members[v][1]
        BY <3>1, <4>2, <4>3
      <4>5. QED
        BY <3>1, <4>2, <4>4, WrittenFacts
    <3>4. QED
      BY <3>2, <3>3
  <2>4. QED
    BY <2>1, <2>2, <2>3 DEF SilentOut, IsMember, First
<1>10. QED
  BY <1>5, <1>6, <1>8, <1>9 DEF Of

\* An administrator's request enters.
LEMMA PeopleEnters ==
  ASSUME TenancyInv, NEW s \in Slots, NEW u \in Users, NEW rec \in Handler, ChangesUser(s, u, rec), Carries(s)'
  PROVE  TenancyInv'
<1>1. rec.pc \in {"member", "user", "close"} /\ Enter(s, rec) /\ rec.user = u /\ rec.kind # "create"
      /\ mem' \in Store /\ OrganizationKept(mem', mem) /\ barred' \subseteq barred
      /\ stripped' = (stripped \/ ~HasOwner')
  BY DEF ChangesUser
<1>2. /\ h[s] = NoRequest /\ h'[s] = rec /\ (\A t \in Slots \ {s} : h'[t] = h[t]) /\ h' \in [Slots -> Handler]
      /\ row' = row /\ landing' = landing /\ unsaved' = unsaved /\ missed' = missed
      /\ faults' = faults /\ boots' = boots /\ arrivals' \in 0..MaxArrivals
      /\ overlapped' \in BOOLEAN /\ (overlapped => overlapped') /\ unsure' = (unsure \/ overlapped')
      /\ ~overlapped' => ~overlapped /\ (\A v \in Users : landing[v] = {}) /\ \A t \in Slots : h[t] = NoRequest
      /\ AloneInv'
  BY <1>1, EnterFacts
<1>3. /\ mem \in Store /\ row \in Store /\ landing \in [Users -> SUBSET Record] /\ unsaved \subseteq Users
      /\ barred \subseteq Users
      /\ {missed, unsure, stripped} \subseteq BOOLEAN /\ faults \in 0..MaxFaults /\ boots \in 0..MaxBoots
      /\ (~unsure => ~overlapped /\ ~missed)
  BY DEF TenancyInv, TenancyTypeOK, OwnerInv
<1>4. TenancyTypeOK'
  BY <1>1, <1>2, <1>3 DEF TenancyTypeOK, HasOwner
<1>5. HandlerInv'
  <2>1. ASSUME NEW t \in Slots \ {s} PROVE Carries(t)'
    BY <1>1, <1>2 DEF Carries, Awaits, TenancyInv, HandlerInv, OrganizationKept
  <2>2. QED
    BY <2>1 DEF HandlerInv
<1>6. ReferenceInv'
  BY <1>1, <1>2 DEF TenancyInv, ReferenceInv, OrganizationKept
<1>7. TablesInv'
  <2>1. PeopleOnly
    <3>1. OrganizationKept(row', row)
      BY <1>2 DEF OrganizationKept
    <3>2. \A t \in Slots : h'[t] = h[t] \/ (h[t].pc \notin OrganizationStages /\ h'[t].pc \notin OrganizationStages)
      BY <1>1, <1>2 DEF OrganizationStages, NoRequest
    <3>3. QED
      BY <1>1, <1>2, <3>1, <3>2 DEF PeopleOnly
  <2>2. QED
    BY <2>1, PeopleFrame, ChangeTables DEF TablesInv
<1>8. OwnerInv'
  <2>1. ASSUME ~stripped', NEW v \in Users PROVE Len(mem'.members[v]) <= 1
    <3>1. Len(mem.members[v]) <= 1
      BY <1>1, <2>1 DEF TenancyInv, OwnerInv
    <3>2. mem'.members[v] = <<>> \/ Len(mem'.members[v]) = Len(mem.members[v])
      BY DEF ChangesUser
    <3>3. QED
      BY <3>1, <3>2
  <2>2. ~stripped' => HasOwner'
    BY <1>1
  <2>3. ASSUME ~unsure'
        PROVE  /\ ~overlapped' /\ ~missed'
               /\ \A v \in unsaved' : Len(row'.members[v]) >= 2 \/ (landing'[v] # {} /\ row'.members[v] # <<>>)
    BY <1>2, <2>3 DEF TenancyInv, OwnerInv
  <2>4. QED
    BY <2>1, <2>2, <2>3 DEF OwnerInv
<1>9. BarredInv'
  BY ChangeBars
<1>10. ClosingInv'
  <2>1. SUFFICES ASSUME ~overlapped' PROVE ClosingInv'
    BY DEF ClosingInv
  <2>2. \A t \in Slots \ {s} : h'[t].pc = "idle"
    BY <1>2, <2>1 DEF NoRequest
  <2>3. /\ rec.pc = "member" => mem'.members[u] # <<>>
        /\ rec.kind = "status" /\ rec.pc = "member" =>
              IF rec.value = "Suspended" THEN ~mem'.active[u] /\ Head(mem'.members[u]).status # "Active"
              ELSE mem'.active[u]
        /\ ~(rec.kind = "status" /\ rec.pc = "user" /\ mem'.members[u] # <<>>)
        /\ rec.pc = "close" => ~mem'.active[u] /\ mem'.members[u] = <<>>
    <3>1. CASE rec.pc = "member"
      <4>1. mem.members[u] \in Seq(Record) /\ mem'.members[u] \in Seq(Record)
        BY <1>1, <1>3, StoreTypes
      <4>2. /\ mem.members[u] # <<>> /\ mem'.members[u] # <<>>
            /\ mem'.members[u][1] = Written(mem.members[u][1], rec.value)
        BY <3>1 DEF ChangesUser
      <4>3. mem.members[u][1] \in Record /\ Head(mem'.members[u]) = mem'.members[u][1]
        BY <4>1, <4>2
      <4>4. rec.kind = "status" => rec.value \in {"Active", "Suspended"} /\ (mem'.active[u] <=> rec.value = "Active")
        BY <3>1 DEF ChangesUser
      <4>5. rec.value = "Suspended" => Head(mem'.members[u]).status = "Suspended"
        BY <4>2, <4>3, WrittenFacts DEF Roles
      <4>6. QED
        BY <3>1, <4>2, <4>4, <4>5
    <3>2. CASE rec.pc = "user"
      BY <3>2 DEF ChangesUser
    <3>3. CASE rec.pc = "close"
      BY <3>3 DEF ChangesUser
    <3>4. QED
      BY <1>1, <3>1, <3>2, <3>3
  <2>4. QED
    BY <1>1, <1>2, <2>2, <2>3 DEF ClosingInv, Awaits, IsMember, First
<1>11. QED
  BY <1>2, <1>4, <1>5, <1>6, <1>7, <1>8, <1>9, <1>10 DEF TenancyInv

\* The first record of a user gets a rank, and the account its role.
LEMMA RankFacts ==
  ASSUME TenancyInv, NEW u \in Users, NEW r \in Roles, IsMember(u)
  PROVE  LET n == WithRecords(WithRole(mem, u, r), u, WithRank(mem.members[u], r)) IN
         /\ n \in Store /\ OrganizationKept(n, mem) /\ n.active = mem.active /\ n.role[u] = r
         /\ mem.members[u] # <<>> /\ n.members[u] # <<>> /\ Len(n.members[u]) = Len(mem.members[u])
         /\ n.members[u][1] = Written(mem.members[u][1], r)
         /\ n.members[u][1].status = mem.members[u][1].status /\ n.members[u][1].role = r
         /\ \A v \in Users \ {u} : n.members[v] = mem.members[v] /\ n.role[v] = mem.role[v]
<1> DEFINE m == WithRole(mem, u, r)
           q == WithRank(mem.members[u], r)
           n == WithRecords(m, u, q)
<1>1. mem \in Store /\ mem.members[u] \in Seq(Record) /\ mem.members[u] # <<>>
  BY StoreTypes DEF TenancyInv, TenancyTypeOK, IsMember
<1>2. /\ m \in Store /\ OrganizationKept(m, mem) /\ m.members = mem.members /\ m.active = mem.active
      /\ m.role[u] = r /\ \A v \in Users \ {u} : m.role[v] = mem.role[v]
  BY <1>1, StoreRole
<1>3. /\ q \in Seq(Record) /\ Len(q) = Len(mem.members[u]) /\ q[1] = Written(mem.members[u][1], r)
      /\ q[1].role = r /\ q[1].status = mem.members[u][1].status
  <2>1. \A p \in Roles : mem.members[u] # <<>> =>
           LET w == WithRank(mem.members[u], p) IN
           /\ w \in Seq(Record) /\ Len(w) = Len(mem.members[u])
           /\ w[1].role = p /\ w[1].status = mem.members[u][1].status
           /\ w[1] = Written(mem.members[u][1], p)
    BY <1>1, RecordsWritten
  <2> HIDE DEF q
  <2>2. QED
    BY <1>1, <2>1 DEF q
<1> HIDE DEF m, q
<1>4. /\ n \in Store /\ OrganizationKept(n, m) /\ n.role = m.role /\ n.active = m.active
      /\ n.members[u] = q /\ \A v \in Users \ {u} : n.members[v] = m.members[v]
  BY <1>2, <1>3, StoreRecords
<1>5. q # <<>>
  BY <1>1, <1>3
<1> HIDE DEF n
<1>6. OrganizationKept(n, mem)
  BY <1>2, <1>4 DEF OrganizationKept
<1>7. QED
  BY <1>1, <1>2, <1>3, <1>4, <1>5, <1>6 DEF n, m, q

\* PUT and PATCH /users/:id/standing.
LEMMA UpdateStatusStep ==
  ASSUME TenancyInv, NEW s \in Slots, NEW u \in Users, NEW open \in BOOLEAN, UpdateStatus(s, u, open),
         stripped' = (stripped \/ ~HasOwner')
  PROVE  TenancyInv'
<1> DEFINE standing == IF open THEN "Active" ELSE "Suspended"
           m == WithActive(mem, u, open)
           q == WithStatus(mem.members[u], standing)
           n == WithRecords(m, u, q)
           rec == [NoRequest EXCEPT !.kind = "status", !.user = u,
                         !.pc = IF IsMember(u) THEN "member" ELSE "user",
                         !.value = IF IsMember(u) THEN standing ELSE "keep",
                         !.rest = IF IsMember(u) THEN "keep" ELSE Lock(open)]
<1>1. mem \in Store /\ mem.members[u] \in Seq(Record)
  BY StoreTypes DEF TenancyInv, TenancyTypeOK
<1>2. /\ m \in Store /\ OrganizationKept(m, mem) /\ m.members = mem.members /\ m.role = mem.role
      /\ m.active[u] = open /\ \A v \in Users \ {u} : m.active[v] = mem.active[v]
  BY <1>1, StoreActive
<1>3. /\ Enter(s, rec) /\ mem' = IF IsMember(u) THEN n ELSE m
      /\ barred' = IF open THEN barred \ {u} ELSE barred
  BY DEF UpdateStatus, WithActive, WithRecords, WithStatus
<1>4. standing \in {"Active", "Suspended"} /\ (standing = "Active" <=> open)
  OBVIOUS
<1>5. IsMember(u) => /\ q \in Seq(Record) /\ Len(q) = Len(mem.members[u]) /\ q[1] = Written(mem.members[u][1], standing)
                     /\ mem.members[u] # <<>> /\ q # <<>>
  BY <1>1, <1>4, RecordsWritten DEF IsMember
<1> HIDE DEF m, q
<1>6. IsMember(u) => /\ n \in Store /\ OrganizationKept(n, m) /\ n.role = m.role /\ n.active = m.active
                     /\ n.members[u] = q /\ \A v \in Users \ {u} : n.members[v] = m.members[v]
  BY <1>2, <1>5, StoreRecords
<1>7. /\ rec \in Handler /\ rec.user = u /\ rec.kind = "status"
      /\ IF IsMember(u) THEN rec.pc = "member" /\ rec.value = standing /\ rec.rest = "keep"
         ELSE rec.pc = "user" /\ rec.value = "keep" /\ rec.rest = Lock(open)
  <2>1. Lock(open) \in {"open", "shut"}
    BY DEF Lock
  <2>2. QED
    BY <1>4, <2>1, FounderAssumption DEF Handler, NoRequest, OrgStatuses, Ids
<1> HIDE DEF rec, n, standing
<1>8. h'[s] = rec
  BY <1>3, <1>7, EnterFacts
<1>9. ChangesUser(s, u, rec)
  <2>1. barred' \subseteq barred /\ (u \in barred' => ~open)
    BY <1>3
  <2>2. CASE IsMember(u)
    <3>1. /\ mem' = n /\ n \in Store /\ n.members[u] = q /\ n.active[u] = open /\ n.role = mem.role
          /\ \A v \in Users \ {u} : n.members[v] = mem.members[v] /\ n.active[v] = mem.active[v]
      BY <1>2, <1>3, <1>6, <2>2
    <3>2. OrganizationKept(mem', mem)
      BY <1>2, <1>6, <2>2, <3>1 DEF OrganizationKept
    <3>3. QED
      BY <1>3, <1>4, <1>5, <1>7, <2>1, <2>2, <3>1, <3>2 DEF ChangesUser
  <2>3. CASE ~IsMember(u)
    <3>1. mem' = m /\ mem.members[u] = <<>> /\ Lock(open) # "keep"
      BY <1>3, <2>3 DEF IsMember, Lock
    <3>2. QED
      BY <1>2, <1>3, <1>7, <2>1, <2>3, <3>1,
         stripped' = (stripped \/ ~HasOwner') DEF ChangesUser
  <2>4. QED
    BY <2>2, <2>3
<1>10. Carries(s)'
  BY <1>4, <1>7, <1>8 DEF Carries, Awaits, Roles
<1>11. QED
  BY <1>7, <1>9, <1>10, PeopleEnters

\* PUT /users/:id/role.
LEMMA UpdateRoleStep ==
  ASSUME TenancyInv, NEW s \in Slots, NEW u \in Users, NEW r \in Roles, UpdateRole(s, u, r),
         stripped' = (stripped \/ ~HasOwner')
  PROVE  TenancyInv'
<1> DEFINE m == WithRole(mem, u, r)
           n == WithRecords(m, u, WithRank(mem.members[u], r))
           rec == [NoRequest EXCEPT !.pc = IF IsMember(u) THEN "member" ELSE "user",
                         !.kind = "role", !.user = u, !.value = r]
<1>1. mem \in Store
  BY DEF TenancyInv, TenancyTypeOK
<1>2. /\ m \in Store /\ OrganizationKept(m, mem) /\ m.members = mem.members /\ m.active = mem.active
      /\ m.role[u] = r /\ \A v \in Users \ {u} : m.role[v] = mem.role[v]
  BY <1>1, StoreRole
<1>3. Enter(s, rec) /\ (mem' = IF IsMember(u) THEN n ELSE m) /\ barred' = barred
  BY DEF UpdateRole, WithRole, WithRecords, WithRank
<1>4. IsMember(u) =>
         /\ n \in Store /\ OrganizationKept(n, mem) /\ n.active = mem.active /\ n.role[u] = r
         /\ mem.members[u] # <<>> /\ n.members[u] # <<>> /\ Len(n.members[u]) = Len(mem.members[u])
         /\ n.members[u][1] = Written(mem.members[u][1], r)
         /\ \A v \in Users \ {u} : n.members[v] = mem.members[v] /\ n.role[v] = mem.role[v]
  BY RankFacts
<1>5. /\ rec \in Handler /\ rec.user = u /\ rec.kind = "role" /\ rec.value = r /\ rec.rest = "keep"
      /\ rec.pc = IF IsMember(u) THEN "member" ELSE "user"
  BY FounderAssumption DEF Handler, NoRequest, OrgStatuses, Ids
<1>6. r # "keep" /\ r # "Active"
  BY DEF Roles
<1> HIDE DEF rec, n, m
<1>7. h'[s] = rec
  BY <1>3, <1>5, EnterFacts
<1>8. ChangesUser(s, u, rec)
  <2>1. CASE IsMember(u)
    BY <1>3, <1>4, <1>5, <1>6, <2>1 DEF ChangesUser
  <2>2. CASE ~IsMember(u)
    BY <1>2, <1>3, <1>5, <1>6, <2>2 DEF ChangesUser
  <2>3. QED
    BY <2>1, <2>2
<1>9. Carries(s)'
  BY <1>5, <1>7 DEF Carries, Awaits
<1>10. QED
  BY <1>5, <1>8, <1>9, PeopleEnters

\* DELETE /users/:id.
LEMMA DeleteUserStep ==
  ASSUME TenancyInv, NEW s \in Slots, NEW u \in Users, DeleteUser(s, u), stripped' = (stripped \/ ~HasOwner')
  PROVE  TenancyInv'
<1> DEFINE m == WithRecords(mem, u, <<>>)
           n == WithActive(m, u, FALSE)
           rec == [NoRequest EXCEPT !.pc = "close", !.kind = "delete", !.user = u]
<1>1. mem \in Store /\ <<>> \in Seq(Record)
  BY DEF TenancyInv, TenancyTypeOK
<1>2. /\ m \in Store /\ OrganizationKept(m, mem) /\ m.role = mem.role /\ m.active = mem.active
      /\ m.members[u] = <<>> /\ \A v \in Users \ {u} : m.members[v] = mem.members[v]
  BY <1>1, StoreRecords
<1>3. Enter(s, rec) /\ mem' = n /\ barred' = barred
  BY DEF DeleteUser, WithActive, WithRecords
<1> HIDE DEF m
<1>4. /\ n \in Store /\ OrganizationKept(n, m) /\ n.members = m.members /\ n.role = m.role
      /\ n.active[u] = FALSE /\ \A v \in Users \ {u} : n.active[v] = m.active[v]
  BY <1>2, StoreActive
<1>5. rec \in Handler /\ rec.user = u /\ rec.kind = "delete" /\ rec.pc = "close"
  BY DEF Handler, NoRequest, Ids
<1> HIDE DEF rec, n
<1>6. h'[s] = rec
  BY <1>3, <1>5, EnterFacts
<1>7. OrganizationKept(mem', mem)
  BY <1>2, <1>3, <1>4 DEF OrganizationKept
<1>8. ChangesUser(s, u, rec)
  BY <1>2, <1>3, <1>4, <1>5, <1>7 DEF ChangesUser
<1>9. Carries(s)'
  BY <1>5, <1>6 DEF Carries, Awaits
<1>10. QED
  BY <1>5, <1>8, <1>9, PeopleEnters

\* What an edit of a person's account does to a store, as one relation.
OpensOnly(o, m, u, a) ==
    /\ o \in Store /\ OrganizationKept(o, m) /\ o.members = m.members /\ o.role = m.role
    /\ (a = "keep" => o = m) /\ (a = "open" => o.active[u]) /\ (a = "shut" => ~o.active[u])
    /\ \A v \in Users \ {u} : o.active[v] = m.active[v]

\* An edit of a person changes the state of that account, if anything.
LEMMA OpenedFacts ==
  ASSUME NEW m \in Store, NEW u \in Users, NEW a \in {"keep", "open", "shut"}
  PROVE  OpensOnly(SetOpen(m, u, a), m, u, a)
<1>1. CASE a = "keep"
  BY <1>1 DEF SetOpen, OrganizationKept, OpensOnly
<1>2. CASE a # "keep"
  <2> DEFINE b == a = "open"
             n == WithActive(m, u, b)
  <2>1. SetOpen(m, u, a) = n
    BY <1>2 DEF SetOpen, WithActive
  <2>2. b \in BOOLEAN /\ (b <=> a = "open")
    OBVIOUS
  <2> HIDE DEF b
  <2>3. /\ n \in Store /\ OrganizationKept(n, m) /\ n.members = m.members /\ n.role = m.role
        /\ n.active[u] = b /\ \A v \in Users \ {u} : n.active[v] = m.active[v]
    BY <2>2, StoreActive
  <2> HIDE DEF n
  <2>4. QED
    BY <1>2, <2>1, <2>2, <2>3 DEF OpensOnly
<1>3. QED
  BY <1>1, <1>2

\* The same for every store, user and status change.
LEMMA OpenedEach ==
  \A m \in Store, u \in Users, a \in {"keep", "open", "shut"} :
     OpensOnly(SetOpen(m, u, a), m, u, a)
BY OpenedFacts

\* PUT /users/:id.
LEMMA EditUserStep ==
  ASSUME TenancyInv, NEW s \in Slots, NEW u \in Users, NEW r \in Roles \cup {"keep"}, NEW a \in {"keep", "open", "shut"},
         EditUser(s, u, r, a), stripped' = (stripped \/ ~HasOwner')
  PROVE  TenancyInv'
<1> DEFINE waits == r # "keep" /\ IsMember(u)
           named == IF r = "keep" THEN mem ELSE WithRole(mem, u, r)
           n == WithRecords(WithRole(mem, u, r), u, WithRank(mem.members[u], r))
           rec == [NoRequest EXCEPT !.pc = IF waits THEN "member" ELSE "user", !.kind = "edit", !.user = u,
                         !.value = mem'.role[u], !.rest = IF waits THEN a ELSE Lock(mem'.active[u])]
<1>1. mem \in Store /\ "keep" \notin Roles /\ "Active" \notin Roles
  BY DEF TenancyInv, TenancyTypeOK, Roles
<1>2. /\ named \in Store /\ OrganizationKept(named, mem) /\ named.members = mem.members /\ named.active = mem.active
      /\ (\A v \in Users \ {u} : named.role[v] = mem.role[v])
  <2>1. CASE r = "keep"
    BY <1>1, <2>1 DEF OrganizationKept
  <2>2. CASE r # "keep"
    BY <1>1, <2>2, StoreRole
  <2>3. QED
    BY <2>1, <2>2
<1>3. Enter(s, rec) /\ (mem' = IF waits THEN n ELSE SetOpen(named, u, a))
      /\ barred' = IF a = "open" THEN barred \ {u} ELSE barred
  BY DEF EditUser, WithRole, WithRecords, WithRank
<1> HIDE DEF named
<1>4. waits => /\ n \in Store /\ OrganizationKept(n, mem) /\ n.active = mem.active /\ n.role[u] = r
               /\ mem.members[u] # <<>> /\ n.members[u] # <<>> /\ Len(n.members[u]) = Len(mem.members[u])
               /\ n.members[u][1] = Written(mem.members[u][1], r)
               /\ \A v \in Users \ {u} : n.members[v] = mem.members[v] /\ n.role[v] = mem.role[v]
  BY RankFacts
<1> HIDE DEF n
<1>5. ~waits => /\ mem' \in Store /\ OrganizationKept(mem', named) /\ mem'.members = named.members /\ mem'.role = named.role
                /\ (a = "keep" => mem'.active[u] = named.active[u]) /\ (a = "shut" => ~mem'.active[u])
                /\ \A v \in Users \ {u} : mem'.active[v] = named.active[v]
  <2>1. PICK m \in Store : m = named
    BY <1>2
  <2>2. ~waits => mem' = SetOpen(m, u, a)
    BY <1>3, <2>1
  <2>3. OpensOnly(SetOpen(m, u, a), m, u, a)
    BY OpenedEach
  <2>4. QED
    BY <2>1, <2>2, <2>3 DEF OpensOnly
<1>6. mem' \in Store /\ mem'.role[u] \in Roles
  <2>1. mem' \in Store
    BY <1>3, <1>4, <1>5
  <2>2. QED
    BY <2>1, StoreTypes
<1>7. /\ rec \in Handler /\ rec.user = u /\ rec.kind = "edit" /\ rec.value = mem'.role[u]
      /\ IF waits THEN rec.pc = "member" /\ rec.rest = a ELSE rec.pc = "user" /\ rec.rest = Lock(mem'.active[u])
  <2>1. Lock(mem'.active[u]) \in {"open", "shut"}
    BY DEF Lock
  <2>2. QED
    BY <1>6, <2>1, FounderAssumption DEF Handler, NoRequest, OrgStatuses, Ids
<1> HIDE DEF rec
<1>8. h'[s] = rec
  BY <1>3, <1>7, EnterFacts
<1>9. barred' \subseteq barred /\ (u \in barred' => a # "open")
  BY <1>3
<1>10. ChangesUser(s, u, rec)
  <2>1. CASE waits
    <3>1. rec.value = r /\ rec.value \in Roles
      BY <1>3, <1>4, <1>7, <2>1
    <3>2. QED
      BY <1>1, <1>3, <1>4, <1>7, <1>9, <2>1, <3>1 DEF ChangesUser
  <2>2. CASE ~waits
    <3>1. OrganizationKept(mem', mem)
      BY <1>2, <1>5, <2>2 DEF OrganizationKept
    <3>2. mem'.active[u] => mem.active[u] \/ a = "open"
      BY <1>2, <1>5, <2>2
    <3>3. Lock(mem'.active[u]) # "keep" /\ rec.value # "keep"
      BY <1>1, <1>6, <1>7 DEF Lock
    <3>4. QED
      BY <1>2, <1>3, <1>5, <1>7, <1>9, <2>2, <3>1, <3>2, <3>3 DEF ChangesUser
  <2>3. QED
    BY <2>1, <2>2
<1>11. Carries(s)'
  BY <1>6, <1>7, <1>8 DEF Carries, Awaits
<1>12. QED
  BY <1>7, <1>10, <1>11, PeopleEnters

\* What an administrator's handler finds in an unmarked process.
LEMMA PeopleQuiet ==
  ASSUME TenancyInv, NEW s \in Slots, h[s].pc \in {"member", "user", "close", "purge"},
         \A t \in Slots \ {s} : h'[t] = h[t], ~overlapped, ~missed
  PROVE  /\ \A v \in Users \ unsaved : Len(mem.members[v]) = 1 =>
              IF v = h[s].user /\ h[s].pc = "member"
              THEN Len(row.members[v]) = 1 /\ mem.members[v][1] = Written(row.members[v][1], h[s].value)
              ELSE mem.members[v] = row.members[v]
         /\ \A v \in Users : mem.members[v] # <<>> => row.members[v] # <<>>
         /\ \A v \in Users \ unsaved : v # h[s].user => mem.role[v] = row.role[v] /\ mem.active[v] = row.active[v]
         /\ \A t \in Slots \ {s} : h[t].pc = "idle" /\ h'[t].pc = "idle"
         /\ \A v \in Users : landing[v] = {}
         /\ AccountsAgree
<1>1. /\ AccountsAgree /\ MembersAgree
      /\ \A t \in Slots \ {s} : h[t].pc = "idle" /\ h'[t].pc = "idle"
      /\ \A v \in Users : landing[v] = {}
  BY AnswerQuiet
<1>2. \A t \in Slots : ~Awaits(t, "owner")
  BY <1>1 DEF Awaits
<1>3. \A t \in Slots, v \in Users : Of(t, v, {"member"}) => t = s /\ v = h[s].user /\ h[s].pc = "member"
  BY <1>1 DEF Of
<1>4. \A v \in Users \ unsaved : Len(mem.members[v]) = 1 =>
              IF v = h[s].user /\ h[s].pc = "member"
              THEN Len(row.members[v]) = 1 /\ mem.members[v][1] = Written(row.members[v][1], h[s].value)
              ELSE mem.members[v] = row.members[v]
  <2>1. SUFFICES ASSUME NEW v \in Users \ unsaved, Len(mem.members[v]) = 1
        PROVE  IF v = h[s].user /\ h[s].pc = "member"
               THEN Len(row.members[v]) = 1 /\ mem.members[v][1] = Written(row.members[v][1], h[s].value)
               ELSE mem.members[v] = row.members[v]
    OBVIOUS
  <2>2. \/ /\ Len(row.members[v]) = 1
           /\ \E t \in Slots : Of(t, v, {"member"}) /\ mem.members[v][1] = Written(row.members[v][1], h[t].value)
        \/ mem.members[v] = row.members[v] /\ \A t \in Slots : ~Of(t, v, {"member"})
    BY <1>1, <1>2, <2>1 DEF MembersAgree
  <2>3. v = h[s].user /\ h[s].pc = "member" => Of(s, v, {"member"})
    BY DEF Of
  <2>4. QED
    BY <1>3, <2>2, <2>3
<1>5. \A v \in Users : mem.members[v] # <<>> => row.members[v] # <<>>
  BY <1>1, <1>2 DEF MembersAgree
<1>6. \A v \in Users \ unsaved : v # h[s].user => mem.role[v] = row.role[v] /\ mem.active[v] = row.active[v]
  BY <1>1 DEF AccountsAgree, Of
<1>7. QED
  BY <1>1, <1>4, <1>5, <1>6

\* A door that is shut stays shut while a statement of an administrator is answered.
LEMMA BarsStay ==
  ASSUME TenancyInv, NEW s \in Slots, NEW v \in barred, faults <= 1, \A t \in Slots \ {s} : h'[t] = h[t],
         mem'.members = mem.members, mem'.active[v] => mem.active[v], row'.active[v] => row.active[v],
         h'[s].user = v /\ h'[s].pc = "user" => h'[s].rest # "open",
         h'[s].pc # "idle" => h'[s].kind # "create",
         row.members[v] # <<>> => row'.members[v] # <<>>, Silent(row.members[v]) => Silent(row'.members[v])
  PROVE  (ShutOut(v) \/ SilentOut(v))'
<1>1. ShutOut(v) \/ SilentOut(v)
  BY DEF TenancyInv, BarredInv
<1>2. ASSUME ShutOut(v) PROVE ShutOut(v)'
  <2>1. \A t \in Slots : h'[t].user = v /\ h'[t].pc = "user" => h'[t].rest # "open"
    BY <1>2 DEF ShutOut, Of
  <2>2. QED
    BY <1>2, <2>1 DEF ShutOut, Of
<1>3. ASSUME SilentOut(v) PROVE SilentOut(v)'
  <2>1. \A t \in Busy' : h'[t].kind # "create"
    BY <1>3 DEF SilentOut, Busy
  <2>2. QED
    BY <1>3, <2>1 DEF SilentOut, IsMember, First
<1>4. QED
  BY <1>1, <1>2, <1>3

\* A statement of an administrator is answered.
LEMMA PeopleAnswers ==
  ASSUME TenancyInv, NEW s \in Slots, Done \/ Failed, \A t \in Slots \ {s} : h'[t] = h[t], h' \in [Slots -> Handler],
         h[s].pc \in {"member", "user", "close", "purge"}, h'[s].pc \in {"idle", "user", "purge"}, Carries(s)',
         mem' \in Store, row' \in Store, OrganizationKept(mem', mem), OrganizationKept(row', row),
         mem'.members = mem.members, \A v \in Users : Len(row'.members[v]) = Len(row.members[v]),
         Done /\ ~overlapped /\ ~missed => AccountsAgree',
         Done /\ ~overlapped /\ ~missed =>
            \A v \in Users \ unsaved : Len(mem.members[v]) = 1 => mem.members[v] = row'.members[v],
         barred' \subseteq Users, \A v \in barred' : v \in barred \/ ~overlapped,
         \A v \in barred' : faults' <= 1 => (ShutOut(v) \/ SilentOut(v))',
         ClosingInv', stripped' = (stripped \/ Twice')
  PROVE  TenancyInv'
<1>1. /\ landing' = landing /\ unsaved' = unsaved /\ overlapped' = overlapped /\ boots' = boots /\ arrivals' = arrivals
      /\ faults' \in 0..MaxFaults /\ faults <= faults' /\ (missed => missed') /\ missed' \in BOOLEAN
      /\ unsure' \in BOOLEAN /\ (~unsure' => ~unsure /\ ~overlapped' /\ ~missed')
      /\ missed' => faults' >= 1
      /\ ~overlapped => (\A u \in Users : landing[u] = {}) /\ \A t \in Slots \ {s} : h[t] = NoRequest
      /\ AloneInv'
      /\ Failed => missed'
  BY AnswerFacts
<1>2. /\ landing \in [Users -> SUBSET Record] /\ unsaved \subseteq Users /\ row \in Store /\ mem \in Store
      /\ overlapped \in BOOLEAN /\ stripped \in BOOLEAN /\ barred \subseteq Users
      /\ faults \in 0..MaxFaults /\ boots \in 0..MaxBoots /\ arrivals \in 0..MaxArrivals
  BY DEF TenancyInv, TenancyTypeOK
<1>3. TenancyTypeOK'
  BY <1>1, <1>2 DEF TenancyTypeOK, Twice
<1>4. HandlerInv'
  <2>1. ASSUME NEW t \in Slots \ {s} PROVE Carries(t)'
    BY DEF Carries, Awaits, TenancyInv, HandlerInv, OrganizationKept
  <2>2. QED
    BY <2>1 DEF HandlerInv
<1>5. \A v \in Users : row'.members[v] # <<>> <=> row.members[v] # <<>>
  <2>1. ASSUME NEW v \in Users PROVE row'.members[v] # <<>> <=> row.members[v] # <<>>
    <3>1. row'.members[v] \in Seq(Record) /\ row.members[v] \in Seq(Record)
      BY <1>2, StoreTypes
    <3>2. QED
      BY <3>1
  <2>2. QED
    BY <2>1
<1>6. ReferenceInv'
  BY <1>1, <1>5 DEF TenancyInv, ReferenceInv, OrganizationKept
<1>7. ASSUME ~overlapped', ~missed' PROVE MembersAgree'
  <2>1. ~overlapped /\ ~missed /\ Done
    BY <1>1, <1>7
  <2>2. /\ \A v \in Users : mem.members[v] # <<>> => row.members[v] # <<>>
        /\ \A t \in Slots \ {s} : h'[t].pc = "idle"
        /\ \A v \in Users : landing[v] = {}
    BY <2>1, PeopleQuiet
  <2>3. \A t \in Slots : h'[t].pc \notin {"owner", "member"}
    BY <2>2
  <2>4. QED
    BY <1>1, <1>5, <2>1, <2>2, <2>3 DEF MembersAgree, Of, Awaits
<1>8. TablesInv'
  <2>1. PeopleOnly
    BY <1>1 DEF PeopleOnly, OrganizationStages
  <2>2. QED
    BY <1>1, <1>7, <2>1, PeopleFrame DEF TablesInv
<1>9. OwnerInv'
  <2>1. HasOwner' <=> HasOwner
    BY DEF HasOwner, IsMember, First
  <2>2. mem'.workspace /\ (\A t \in Slots : ~Awaits(t, "workspace")') => mem.workspace /\ \A t \in Slots : ~Awaits(t, "workspace")
    BY DEF Awaits, OrganizationKept
  <2>3. ~stripped' => ~stripped
    OBVIOUS
  <2>4. ASSUME ~unsure'
        PROVE  /\ ~overlapped' /\ ~missed'
               /\ \A v \in unsaved : Len(row'.members[v]) >= 2 \/ (landing[v] # {} /\ row'.members[v] # <<>>)
    <3>1. ~unsure /\ ~overlapped' /\ ~missed'
      BY <1>1, <2>4
    <3>2. \A v \in unsaved : Len(row.members[v]) >= 2 \/ (landing[v] # {} /\ row.members[v] # <<>>)
      BY <3>1 DEF TenancyInv, OwnerInv
    <3>3. QED
      BY <1>2, <1>5, <3>1, <3>2
  <2>5. /\ ~stripped => \A v \in Users : Len(mem.members[v]) <= 1
        /\ ~stripped /\ mem.workspace /\ (\A t \in Slots : ~Awaits(t, "workspace")) => HasOwner
    BY DEF TenancyInv, OwnerInv
  <2>6. QED
    BY <1>1, <2>1, <2>2, <2>3, <2>4, <2>5 DEF OwnerInv
<1>10. BarredInv'
  <2>1. SUFFICES ASSUME faults' <= 1, NEW v \in barred'
                 PROVE  /\ landing[v] = {}
                        /\ \A t \in Slots : Of(t, v, {"member"})' => h'[t].value # "Active" /\ h'[t].rest # "open"
    BY <1>1 DEF BarredInv, Of
  <2>2. faults <= 1
    BY <1>1, <1>2, <2>1
  <2>3. CASE ~overlapped
    <3>1. \A t \in Slots : h'[t].pc # "member"
      BY <1>1, <2>3 DEF NoRequest
    <3>2. QED
      BY <1>1, <2>1, <2>3, <3>1 DEF Of
  <2>4. CASE v \in barred
    <3>1. /\ landing[v] = {}
          /\ \A t \in Slots : Of(t, v, {"member"}) => h[t].value # "Active" /\ h[t].rest # "open"
      BY <2>2, <2>4 DEF TenancyInv, BarredInv
    <3>2. QED
      BY <3>1 DEF Of
  <2>5. QED
    BY <2>1, <2>3, <2>4
<1>11. QED
  BY <1>1, <1>3, <1>4, <1>6, <1>8, <1>9, <1>10 DEF TenancyInv

\* The second statement of a deletion, and its end.
LEMMA CloseRowStep ==
  ASSUME TenancyInv, NEW s \in Slots, CloseRow(s), stripped' = (stripped \/ Twice')
  PROVE  TenancyInv'
<1> DEFINE u == h[s].user
           n == WithActive(row, u, FALSE)
           rec == [h[s] EXCEPT !.pc = "purge"]
<1>1. h[s].pc = "close" /\ barred' = barred /\ barred \subseteq Users /\ Carries(s) /\ h \in [Slots -> Handler]
      /\ h[s] \in Handler /\ row \in Store /\ mem \in Store /\ u \in Users /\ mem' = mem /\ h' = [h EXCEPT ![s] = rec]
      /\ h[s].kind = "delete"
  BY DEF CloseRow, Advance, TenancyInv, TenancyTypeOK, HandlerInv, Handler, Carries, Awaits
<1>2. /\ n \in Store /\ OrganizationKept(n, row) /\ n.members = row.members /\ n.role = row.role
      /\ n.active[u] = FALSE /\ \A v \in Users \ {u} : n.active[v] = row.active[v]
  <2>1. \A v \in Users : LET m == WithActive(row, v, FALSE)
                         IN  /\ m \in Store /\ OrganizationKept(m, row) /\ m.members = row.members /\ m.role = row.role
                             /\ m.active[v] = FALSE /\ \A w \in Users \ {v} : m.active[w] = row.active[w]
    BY <1>1, StoreActive
  <2>2. QED
    BY <1>1, <2>1
<1>3. (Failed /\ row' = row /\ ~Done) \/ (Done /\ row' = n)
  BY FailedFacts DEF CloseRow, WithActive
<1>4. rec \in Handler /\ rec.pc = "purge" /\ rec.kind = "delete" /\ rec.user = u
  BY <1>1 DEF Handler
<1> HIDE DEF n, rec
<1>5. h' \in [Slots -> Handler] /\ h'[s] = rec /\ \A t \in Slots \ {s} : h'[t] = h[t]
  BY <1>1, <1>4
<1>6. Carries(s)'
  BY <1>4, <1>5 DEF Carries, Awaits
<1>7. /\ mem' \in Store /\ row' \in Store /\ OrganizationKept(mem', mem) /\ OrganizationKept(row', row)
      /\ row'.members = row.members /\ row'.role = row.role
      /\ \A v \in Users : row'.active[v] => row.active[v]
  BY <1>1, <1>2, <1>3 DEF OrganizationKept
<1>8. ~overlapped => ~mem.active[u] /\ ~IsMember(u)
  BY <1>1 DEF TenancyInv, ClosingInv
<1>9. ASSUME Done, ~overlapped, ~missed
      PROVE  AccountsAgree' /\ \A v \in Users \ unsaved : Len(mem.members[v]) = 1 => mem.members[v] = row'.members[v]
  <2>1. /\ \A v \in Users \ unsaved : Len(mem.members[v]) = 1 => mem.members[v] = row.members[v]
        /\ \A v \in Users \ unsaved : v # u => mem.role[v] = row.role[v] /\ mem.active[v] = row.active[v]
        /\ \A t \in Slots \ {s} : h[t].pc = "idle" /\ h'[t].pc = "idle"
        /\ AccountsAgree
    BY <1>1, <1>5, <1>9, PeopleQuiet
  <2>2. u \notin unsaved => mem.role[u] = row.role[u]
    BY <1>1, <2>1 DEF AccountsAgree, Of
  <2>3. \A v \in Users \ unsaved : mem.role[v] = row'.role[v] /\ mem.active[v] = row'.active[v]
    <3>1. row' = n
      BY <1>3, <1>9
    <3>2. mem.active[u] = FALSE
      BY <1>1, <1>8, <1>9, StoreTypes
    <3>3. QED
      BY <1>1, <1>2, <2>1, <2>2, <3>1, <3>2
  <2>4. \A t \in Slots : h'[t].pc \notin {"member", "user"}
    BY <1>4, <1>5, <2>1
  <2>5. unsaved' = unsaved
    BY <1>9 DEF Done
  <2>6. QED
    BY <1>1, <1>7, <2>1, <2>3, <2>4, <2>5 DEF AccountsAgree, Of
<1>10. ClosingInv'
  <2>1. SUFFICES ASSUME ~overlapped' PROVE ClosingInv'
    BY DEF ClosingInv
  <2>2. /\ overlapped' = overlapped /\ \A t \in Slots \ {s} : h'[t].pc = "idle"
        /\ Failed => missed' /\ faults' >= 1
        /\ Done => faults' = faults
    <3>1. /\ overlapped' = overlapped /\ (~overlapped => \A t \in Slots \ {s} : h[t] = NoRequest)
          /\ Failed => missed'
          /\ missed' => faults' >= 1
          /\ Done => faults' = faults
      BY <1>1, <1>3, <1>5, AnswerFacts
    <3>2. QED
      BY <1>5, <2>1, <3>1 DEF NoRequest
  <2>3. faults' = 0 => ~row'.active[u]
    BY <1>2, <1>3, <2>2
  <2>4. QED
    BY <1>1, <1>4, <1>5, <1>8, <2>1, <2>2, <2>3 DEF ClosingInv, Awaits, IsMember
<1>11. ASSUME NEW v \in barred', faults' <= 1 PROVE (ShutOut(v) \/ SilentOut(v))'
  <2>1. faults <= 1 /\ v \in Users /\ v \in barred
    <3>1. faults \in 0..MaxFaults /\ faults' \in 0..MaxFaults /\ faults <= faults'
      BY <1>1, <1>3, <1>5, AnswerFacts DEF TenancyInv, TenancyTypeOK
    <3>2. QED
      BY <1>1, <1>11, <3>1, TenancyBoundAssumption
  <2>2. QED
    BY <1>1, <1>4, <1>5, <1>7, <2>1, BarsStay
<1> DEFINE Goes == h'[s].pc = "purge"
<1>12. Goes /\ (Done \/ Failed)
  BY <1>3, <1>4, <1>5
<1>13. QED
  BY <1>1, <1>5, <1>6, <1>7, <1>9, <1>10, <1>11, <1>12, PeopleAnswers

\* DELETE /admin/users/:id: the rows of the member become Removed.
LEMMA PurgeRowStep ==
  ASSUME TenancyInv, NEW s \in Slots, PurgeRow(s), stripped' = (stripped \/ Twice')
  PROVE  TenancyInv'
<1> DEFINE u == h[s].user
           q == Rewritten(row.members[u], "Removed")
           n == WithRecords(row, u, q)
<1>1. h[s].pc = "purge" /\ barred \subseteq Users /\ h \in [Slots -> Handler] /\ NoRequest \in Handler /\ NoRequest.pc = "idle"
      /\ row \in Store /\ mem \in Store /\ u \in Users /\ mem' = mem /\ h' = [h EXCEPT ![s] = NoRequest]
      /\ barred' = IF overlapped \/ row.members[u] = <<>> THEN barred ELSE barred \cup {u}
  BY FounderAssumption DEF PurgeRow, Finish, TenancyInv, TenancyTypeOK, Handler, NoRequest, Ids
<1>2. /\ q \in Seq(Record) /\ Len(q) = Len(row.members[u]) /\ Silent(q)
  <2>1. row.members[u] \in Seq(Record)
    BY <1>1, StoreTypes
  <2>2. \A p \in Seq(Record) : LET r == Rewritten(p, "Removed")
           IN  r \in Seq(Record) /\ Len(r) = Len(p) /\ \A i \in 1..Len(p) : r[i].status = "Removed"
    BY RecordsWritten DEF Roles
  <2>3. q \in Seq(Record) /\ Len(q) = Len(row.members[u]) /\ \A i \in 1..Len(row.members[u]) : q[i].status = "Removed"
    BY <2>1, <2>2
  <2> HIDE DEF q
  <2>4. DOMAIN q = 1..Len(row.members[u])
    BY <2>3
  <2>5. QED
    BY <2>3, <2>4 DEF Silent
<1>3. (Failed /\ row' = row /\ ~Done) \/ (Done /\ row' = n)
  BY FailedFacts DEF PurgeRow, WithRecords, Rewritten
<1> HIDE DEF q
<1>4. /\ n \in Store /\ OrganizationKept(n, row) /\ n.role = row.role /\ n.active = row.active
      /\ n.members[u] = q /\ \A v \in Users \ {u} : n.members[v] = row.members[v]
  <2>1. \A v \in Users : LET m == WithRecords(row, v, q)
                         IN  /\ m \in Store /\ OrganizationKept(m, row) /\ m.role = row.role /\ m.active = row.active
                             /\ m.members[v] = q /\ \A w \in Users \ {v} : m.members[w] = row.members[w]
    BY <1>1, <1>2, StoreRecords
  <2>2. QED
    BY <1>1, <2>1
<1> HIDE DEF n
<1>5. h' \in [Slots -> Handler] /\ h'[s] = NoRequest /\ \A t \in Slots \ {s} : h'[t] = h[t]
  BY <1>1
<1>6. Carries(s)'
  BY <1>5 DEF Carries, Awaits, NoRequest
<1>7. /\ mem' \in Store /\ row' \in Store /\ OrganizationKept(mem', mem) /\ OrganizationKept(row', row)
      /\ row'.role = row.role /\ row'.active = row.active
      /\ \A v \in Users \ {u} : row'.members[v] = row.members[v]
      /\ \A v \in Users : Len(row'.members[v]) = Len(row.members[v])
  BY <1>1, <1>2, <1>3, <1>4 DEF OrganizationKept
<1>8. /\ ~overlapped => ~mem.active[u] /\ ~IsMember(u)
      /\ ~overlapped /\ faults = 0 => ~row.active[u]
  BY <1>1 DEF TenancyInv, ClosingInv, Awaits
<1>9. ASSUME Done, ~overlapped, ~missed
      PROVE  AccountsAgree' /\ \A v \in Users \ unsaved : Len(mem.members[v]) = 1 => mem.members[v] = row'.members[v]
  <2>1. /\ \A v \in Users \ unsaved : Len(mem.members[v]) = 1 => mem.members[v] = row.members[v]
        /\ \A v \in Users \ unsaved : v # u => mem.role[v] = row.role[v] /\ mem.active[v] = row.active[v]
        /\ \A t \in Slots \ {s} : h[t].pc = "idle" /\ h'[t].pc = "idle"
        /\ AccountsAgree
    BY <1>1, <1>5, <1>9, PeopleQuiet
  <2>2. u \notin unsaved => mem.role[u] = row.role[u] /\ mem.active[u] = row.active[u]
    BY <1>1, <2>1 DEF AccountsAgree, Of
  <2>3. \A t \in Slots : h'[t].pc = "idle"
    BY <1>1, <1>5, <2>1
  <2>4. unsaved' = unsaved
    BY <1>9 DEF Done
  <2>5. AccountsAgree'
    BY <1>1, <1>7, <2>1, <2>2, <2>3, <2>4 DEF AccountsAgree, Of
  <2>6. Len(mem.members[u]) # 1
    <3>1. mem.members[u] = <<>>
      BY <1>8, <1>9 DEF IsMember
    <3>2. QED
      BY <3>1
  <2>7. QED
    BY <1>7, <2>1, <2>5, <2>6
<1>10. /\ faults \in Nat /\ faults' \in Nat /\ faults <= faults' /\ overlapped' = overlapped
       /\ Failed => faults' = faults + 1
       /\ ~overlapped => \A t \in Slots : h'[t].pc = "idle"
  <2>1. /\ faults' \in 0..MaxFaults /\ faults <= faults' /\ overlapped' = overlapped
        /\ Failed => faults' = faults + 1
        /\ ~overlapped => \A t \in Slots \ {s} : h[t] = NoRequest
    BY <1>1, <1>3, <1>5, AnswerFacts
  <2>2. faults \in 0..MaxFaults
    BY DEF TenancyInv, TenancyTypeOK
  <2>3. QED
    BY <1>1, <1>5, <2>1, <2>2
<1>11. ClosingInv'
  BY <1>10 DEF ClosingInv, Awaits
<1>12. ASSUME NEW v \in barred', faults' <= 1 PROVE (ShutOut(v) \/ SilentOut(v))'
  <2>1. CASE v \in barred
    <3>1. faults <= 1 /\ v \in Users
      BY <1>1, <1>10, <1>12, <2>1
    <3>2. /\ row.members[v] # <<>> => row'.members[v] # <<>>
          /\ Silent(row.members[v]) => Silent(row'.members[v])
      <4>1. CASE v # u
        BY <1>7, <3>1, <4>1
      <4>2. CASE v = u
        <5>1. row.members[u] \in Seq(Record)
          BY <1>1, StoreTypes
        <5>2. row.members[u] # <<>> => q # <<>>
          BY <1>2, <5>1
        <5>3. QED
          BY <1>2, <1>3, <1>4, <4>2, <5>2
      <4>3. QED
        BY <4>1, <4>2
    <3>3. QED
      BY <1>1, <1>5, <1>7, <2>1, <3>1, <3>2, BarsStay
  <2>2. CASE v \notin barred
    <3>1. v = u /\ ~overlapped /\ row.members[u] # <<>> /\ ~mem.active[u]
      BY <1>1, <1>8, <1>12, <2>2
    <3>2. \A t \in Slots : h'[t].pc = "idle"
      BY <1>10, <3>1
    <3>3. CASE Failed /\ row' = row
      <4>1. ~row'.active[u]
        BY <1>8, <1>10, <1>12, <3>1, <3>3
      <4>2. QED
        BY <1>1, <3>1, <3>2, <4>1 DEF ShutOut, Of
    <3>4. CASE row' = n
      <4>1. row.members[u] \in Seq(Record)
        BY <1>1, StoreTypes
      <4>2. row'.members[u] # <<>> /\ Silent(row'.members[u])
        BY <1>2, <1>4, <3>1, <3>4, <4>1
      <4>3. QED
        BY <1>1, <3>1, <3>2, <4>2 DEF SilentOut, Busy
    <3>5. QED
      BY <1>3, <3>3, <3>4
  <2>3. QED
    BY <2>1, <2>2
<1> DEFINE Goes == h'[s].pc = "idle"
<1>13. Goes /\ (Done \/ Failed) /\ barred' \subseteq Users /\ \A v \in barred' : v \in barred \/ ~overlapped
  BY <1>1, <1>3, <1>5
<1>14. QED
  BY <1>1, <1>5, <1>6, <1>7, <1>9, <1>11, <1>12, <1>13, PeopleAnswers

\* persistUserUpdate.
LEMMA UserRowStep ==
  ASSUME TenancyInv, NEW s \in Slots, UserRow(s), stripped' = (stripped \/ Twice')
  PROVE  TenancyInv'
<1> DEFINE u == h[s].user
           a == h[s].rest
           named == IF h[s].value = "keep" THEN row ELSE WithRole(row, u, h[s].value)
           n == SetOpen(named, u, a)
<1>1. h[s].pc = "user" /\ barred \subseteq Users /\ h \in [Slots -> Handler] /\ NoRequest \in Handler /\ NoRequest.pc = "idle"
      /\ row \in Store /\ mem \in Store /\ u \in Users /\ mem' = mem /\ h' = [h EXCEPT ![s] = NoRequest]
      /\ a \in {"keep", "open", "shut"} /\ h[s].value \in Roles \cup {"keep"}
      /\ barred' = IF h[s].kind = "status" /\ a = "shut" /\ IsMember(u) /\ ~overlapped THEN barred \cup {u} ELSE barred
  BY FounderAssumption DEF UserRow, Finish, TenancyInv, TenancyTypeOK, HandlerInv, Carries, Awaits, Handler, NoRequest, Ids
<1>2. /\ named \in Store /\ OrganizationKept(named, row) /\ named.members = row.members /\ named.active = row.active
      /\ named.role[u] = IF h[s].value = "keep" THEN row.role[u] ELSE h[s].value
      /\ \A v \in Users \ {u} : named.role[v] = row.role[v]
  <2>1. \A v \in Users, r \in Roles :
           LET m == WithRole(row, v, r)
           IN  /\ m \in Store /\ OrganizationKept(m, row) /\ m.members = row.members /\ m.active = row.active
               /\ m.role[v] = r /\ \A w \in Users \ {v} : m.role[w] = row.role[w]
    BY <1>1, StoreRole
  <2>2. CASE h[s].value = "keep"
    BY <1>1, <2>2 DEF OrganizationKept
  <2>3. CASE h[s].value # "keep"
    BY <1>1, <2>1, <2>3
  <2>4. QED
    BY <2>2, <2>3
<1>3. (Failed /\ row' = row /\ ~Done) \/ (Done /\ row' = n)
  BY FailedFacts DEF UserRow, WithRole
<1> HIDE DEF named
<1>4. /\ n \in Store /\ OrganizationKept(n, row) /\ n.members = row.members /\ n.role = named.role
      /\ (a = "keep" => n.active = row.active) /\ (a = "open" => n.active[u]) /\ (a = "shut" => ~n.active[u])
      /\ \A v \in Users \ {u} : n.active[v] = row.active[v]
  <2>1. PICK m \in Store, v \in Users, b \in {"keep", "open", "shut"} : m = named /\ v = u /\ b = a
    BY <1>1, <1>2
  <2> HIDE DEF n, u, a
  <2>2. OpensOnly(SetOpen(m, v, b), m, v, b)
    BY OpenedEach
  <2>3. n = SetOpen(m, v, b)
    BY <2>1 DEF n, u, a
  <2>4. OrganizationKept(n, row)
    BY <1>2, <2>1, <2>2, <2>3 DEF OrganizationKept, OpensOnly
  <2>5. QED
    BY <1>2, <2>1, <2>2, <2>3, <2>4 DEF OpensOnly
<1> HIDE DEF n
<1>5. h' \in [Slots -> Handler] /\ h'[s] = NoRequest /\ \A t \in Slots \ {s} : h'[t] = h[t]
  BY <1>1
<1>6. Carries(s)'
  BY <1>5 DEF Carries, Awaits, NoRequest
<1>7. /\ mem' \in Store /\ row' \in Store /\ OrganizationKept(mem', mem) /\ OrganizationKept(row', row)
      /\ row'.members = row.members
  BY <1>1, <1>3, <1>4 DEF OrganizationKept
<1>8. h[s].kind = "status" /\ a = "shut" /\ IsMember(u) /\ ~overlapped =>
         /\ ~mem.active[u]
         /\ faults = 0 => row.members[u] # <<>> /\ Silent(row.members[u])
  BY <1>1 DEF TenancyInv, ClosingInv, Awaits
<1>9. ASSUME Done, ~overlapped, ~missed
      PROVE  AccountsAgree' /\ \A v \in Users \ unsaved : Len(mem.members[v]) = 1 => mem.members[v] = row'.members[v]
  <2>1. /\ \A v \in Users \ unsaved : Len(mem.members[v]) = 1 => mem.members[v] = row.members[v]
        /\ \A v \in Users \ unsaved : v # u => mem.role[v] = row.role[v] /\ mem.active[v] = row.active[v]
        /\ \A t \in Slots \ {s} : h[t].pc = "idle" /\ h'[t].pc = "idle"
        /\ AccountsAgree
    BY <1>1, <1>5, <1>9, PeopleQuiet
  <2>2. u \notin unsaved =>
           /\ IF h[s].value = "keep" THEN mem.role[u] = row.role[u] ELSE h[s].value = mem.role[u]
           /\ IF a = "keep" THEN mem.active[u] = row.active[u] ELSE a = Lock(mem.active[u])
    <3>1. Of(s, u, {"user"})
      BY <1>1 DEF Of
    <3>2. QED
      BY <1>1, <2>1, <3>1 DEF AccountsAgree
  <2>3. row' = n
    BY <1>3, <1>9
  <2>4. \A v \in Users \ unsaved : mem.role[v] = row'.role[v] /\ mem.active[v] = row'.active[v]
    <3>1. mem.active[u] \in BOOLEAN /\ n.active[u] \in BOOLEAN
      BY <1>1, <1>4, StoreTypes
    <3>2. u \notin unsaved => mem.active[u] = n.active[u]
      <4>1. CASE a = "keep"
        BY <1>4, <2>2, <4>1
      <4>2. CASE a # "keep"
        <5>1. u \notin unsaved => (mem.active[u] <=> n.active[u])
          BY <1>1, <1>4, <2>2, <4>2 DEF Lock
        <5>2. QED
          BY <3>1, <5>1
      <4>3. QED
        BY <4>1, <4>2
    <3>3. u \notin unsaved => mem.role[u] = n.role[u]
      BY <1>2, <1>4, <2>2
    <3>4. QED
      BY <1>2, <1>4, <2>1, <2>3, <3>2, <3>3
  <2>5. \A t \in Slots : h'[t].pc = "idle"
    BY <1>1, <1>5, <2>1
  <2>6. unsaved' = unsaved
    BY <1>9 DEF Done
  <2>7. QED
    BY <1>1, <1>7, <2>1, <2>4, <2>5, <2>6 DEF AccountsAgree, Of
<1>10. /\ faults \in Nat /\ faults' \in Nat /\ faults <= faults' /\ overlapped' = overlapped
       /\ Failed => faults' = faults + 1
       /\ ~overlapped => \A t \in Slots : h'[t].pc = "idle"
  <2>1. /\ faults' \in 0..MaxFaults /\ faults <= faults' /\ overlapped' = overlapped
        /\ Failed => faults' = faults + 1
        /\ ~overlapped => \A t \in Slots \ {s} : h[t] = NoRequest
    BY <1>1, <1>3, <1>5, AnswerFacts
  <2>2. faults \in 0..MaxFaults
    BY DEF TenancyInv, TenancyTypeOK
  <2>3. QED
    BY <1>1, <1>5, <2>1, <2>2
<1>11. ClosingInv'
  BY <1>10 DEF ClosingInv, Awaits
<1>12. ASSUME NEW v \in barred', faults' <= 1 PROVE (ShutOut(v) \/ SilentOut(v))'
  <2>1. CASE v \in barred
    <3>1. faults <= 1 /\ v \in Users
      BY <1>1, <1>10, <1>12, <2>1
    <3>2. CASE row'.active[v] => row.active[v]
      BY <1>1, <1>5, <1>7, <2>1, <3>1, <3>2, BarsStay
    <3>3. CASE ~(row'.active[v] => row.active[v])
      <4>1. v = u /\ a = "open"
        BY <1>1, <1>3, <1>4, <3>1, <3>3
      <4>2. ~ShutOut(v)
        BY <1>1, <4>1 DEF ShutOut, Of
      <4>3. SilentOut(v)
        BY <2>1, <3>1, <4>2 DEF TenancyInv, BarredInv
      <4>4. \A t \in Slots : h'[t].pc # "idle" => h'[t] = h[t]
        BY <1>1, <1>5
      <4>5. QED
        BY <1>1, <1>7, <4>3, <4>4 DEF SilentOut, Busy, IsMember, First
    <3>4. QED
      BY <3>2, <3>3
  <2>2. CASE v \notin barred
    <3>1. v = u /\ ~overlapped /\ a = "shut" /\ ~mem.active[u]
          /\ (faults = 0 => row.members[u] # <<>> /\ Silent(row.members[u]))
      BY <1>1, <1>8, <1>12, <2>2
    <3>2. \A t \in Slots : h'[t].pc = "idle"
      BY <1>10, <3>1
    <3>3. CASE Failed
      <4>1. row'.members[u] # <<>> /\ Silent(row'.members[u])
        BY <1>7, <1>10, <1>12, <3>1, <3>3
      <4>2. QED
        BY <1>1, <3>1, <3>2, <4>1 DEF SilentOut, Busy
    <3>4. CASE row' = n
      BY <1>1, <1>4, <3>1, <3>2, <3>4 DEF ShutOut, Of
    <3>5. QED
      BY <1>3, <3>3, <3>4
  <2>3. QED
    BY <2>1, <2>2
<1> DEFINE Goes == h'[s].pc = "idle"
<1>13. Goes /\ (Done \/ Failed) /\ barred' \subseteq Users /\ \A v \in barred' : v \in barred \/ ~overlapped
  BY <1>1, <1>3, <1>5
<1>14. QED
  BY <1>1, <1>5, <1>6, <1>7, <1>9, <1>11, <1>12, <1>13, PeopleAnswers

\* persistWorkspaceMemberUpdate.
LEMMA MemberRowStep ==
  ASSUME TenancyInv, NEW s \in Slots, MemberRow(s), stripped' = (stripped \/ Twice')
  PROVE  TenancyInv'
<1> DEFINE u == h[s].user
           k == h[s].kind
           x == h[s].value
           a == h[s].rest
           q == Rewritten(row.members[u], x)
           n == WithRecords(row, u, q)
           rec == [h[s] EXCEPT !.pc = "user",
                     !.value = CASE k = "status" -> "keep" [] k = "role" -> x [] k = "edit" -> mem.role[u],
                     !.rest = IF k = "role" THEN "keep" ELSE Lock(mem'.active[u])]
<1>1. /\ h[s].pc = "member" /\ barred' = barred /\ barred \subseteq Users /\ h \in [Slots -> Handler] /\ h[s] \in Handler
      /\ row \in Store /\ mem \in Store /\ u \in Users /\ a \in {"keep", "open", "shut"}
      /\ k \in {"status", "role", "edit"} /\ (k = "status" => x \in {"Active", "Suspended"})
      /\ (k # "status" => x \in Roles) /\ (k # "edit" => a = "keep")
  BY DEF MemberRow, TenancyInv, TenancyTypeOK, HandlerInv, Carries, Awaits, Handler
<1>2. /\ h' = [h EXCEPT ![s] = rec]
      /\ mem' = IF k = "edit" THEN SetOpen(mem, u, a) ELSE mem
  <2>1. h' = [h EXCEPT ![s].pc = "user",
                ![s].value = CASE k = "status" -> "keep" [] k = "role" -> x [] k = "edit" -> mem.role[u],
                ![s].rest = IF k = "role" THEN "keep" ELSE Lock(mem'.active[u])]
    BY DEF MemberRow
  <2> DEFINE y == CASE k = "status" -> "keep" [] k = "role" -> x [] k = "edit" -> mem.role[u]
             b == IF k = "role" THEN "keep" ELSE Lock(mem'.active[u])
  <2>2. h' = [h EXCEPT ![s].pc = "user", ![s].value = y, ![s].rest = b]
    BY <2>1
  <2>3. rec = [h[s] EXCEPT !.pc = "user", !.value = y, !.rest = b]
    OBVIOUS
  <2> HIDE DEF rec, y, b
  <2>4. h' = [h EXCEPT ![s] = rec]
    BY <1>1, <2>2, <2>3 DEF Handler
  <2>5. QED
    BY <2>4 DEF MemberRow
<1>3. /\ q \in Seq(Record) /\ Len(q) = Len(row.members[u])
      /\ row.members[u] \in Seq(Record)
      /\ row.members[u] # <<>> => q[1] = Written(row.members[u][1], x)
      /\ x = "Suspended" => Silent(q)
      /\ x # "Active" /\ Silent(row.members[u]) => Silent(q)
  <2>1. row.members[u] \in Seq(Record)
    BY <1>1, StoreTypes
  <2>2. \A p \in Seq(Record) : \A y \in Roles \cup {"Active", "Suspended", "Removed"} :
           /\ Rewritten(p, y) \in Seq(Record) /\ Len(Rewritten(p, y)) = Len(p)
           /\ p # <<>> => Rewritten(p, y)[1] = Written(p[1], y)
           /\ \A i \in 1..Len(p) : Rewritten(p, y)[i].status = IF y \in Roles THEN p[i].status ELSE y
    BY RecordsWritten
  <2>3. /\ q \in Seq(Record) /\ Len(q) = Len(row.members[u])
        /\ (row.members[u] # <<>> => q[1] = Written(row.members[u][1], x))
        /\ \A i \in 1..Len(row.members[u]) : q[i].status = IF x \in Roles THEN row.members[u][i].status ELSE x
    BY <1>1, <2>1, <2>2
  <2> HIDE DEF q
  <2>4. DOMAIN q = 1..Len(row.members[u]) /\ DOMAIN row.members[u] = 1..Len(row.members[u])
    BY <2>1, <2>3
  <2>5. x = "Suspended" => x \notin Roles
    BY DEF Roles
  <2>6. QED
    BY <1>1, <2>1, <2>3, <2>4, <2>5 DEF Silent
<1>4. (Failed /\ row' = row /\ ~Done) \/ (Done /\ row' = n)
  BY FailedFacts DEF MemberRow, WithRecords, Rewritten
<1> HIDE DEF q
<1>5. /\ n \in Store /\ OrganizationKept(n, row) /\ n.role = row.role /\ n.active = row.active
      /\ n.members[u] = q /\ \A v \in Users \ {u} : n.members[v] = row.members[v]
  <2>1. \A v \in Users : LET m == WithRecords(row, v, q)
                         IN  /\ m \in Store /\ OrganizationKept(m, row) /\ m.role = row.role /\ m.active = row.active
                             /\ m.members[v] = q /\ \A w \in Users \ {v} : m.members[w] = row.members[w]
    BY <1>1, <1>3, StoreRecords
  <2>2. QED
    BY <1>1, <2>1
<1> HIDE DEF n
<1>6. /\ mem' \in Store /\ OrganizationKept(mem', mem) /\ mem'.members = mem.members /\ mem'.role = mem.role
      /\ (a = "keep" => mem'.active[u] = mem.active[u]) /\ (a = "shut" => ~mem'.active[u])
      /\ \A v \in Users \ {u} : mem'.active[v] = mem.active[v]
  <2>1. CASE k = "edit"
    <3>1. \A y \in Users, c \in {"keep", "open", "shut"} : OpensOnly(SetOpen(mem, y, c), mem, y, c)
      BY <1>1, OpenedEach
    <3>2. QED
      BY <1>1, <1>2, <2>1, <3>1 DEF OpensOnly
  <2>2. CASE k # "edit"
    BY <1>1, <1>2, <2>2 DEF OrganizationKept
  <2>3. QED
    BY <2>1, <2>2
<1>7. /\ rec \in Handler /\ rec.pc = "user" /\ rec.kind = k /\ rec.user = u
      /\ rec.value = (CASE k = "status" -> "keep" [] k = "role" -> x [] k = "edit" -> mem.role[u])
      /\ rec.rest = IF k = "role" THEN "keep" ELSE Lock(mem'.active[u])
  <2>1. Lock(mem'.active[u]) \in {"open", "shut"} /\ mem.role[u] \in Roles
    BY <1>1, StoreTypes DEF Lock
  <2> DEFINE y == CASE k = "status" -> "keep" [] k = "role" -> x [] k = "edit" -> mem.role[u]
             b == IF k = "role" THEN "keep" ELSE Lock(mem'.active[u])
  <2>2. y \in Roles \cup {"keep"} /\ b \in {"keep", "open", "shut"}
    BY <1>1, <2>1
  <2>3. rec = [h[s] EXCEPT !.pc = "user", !.value = y, !.rest = b]
    OBVIOUS
  <2> HIDE DEF rec, y, b
  <2>4. rec \in Handler /\ rec.pc = "user" /\ rec.kind = k /\ rec.user = u /\ rec.value = y /\ rec.rest = b
    BY <1>1, <2>2, <2>3 DEF Handler
  <2>5. QED
    BY <2>4 DEF y, b
<1> HIDE DEF rec
<1>8. h' \in [Slots -> Handler] /\ h'[s] = rec /\ \A t \in Slots \ {s} : h'[t] = h[t]
  BY <1>1, <1>2, <1>7
<1>9. rec.value \in Roles \cup {"keep"}
  BY <1>1, <1>7, StoreTypes
<1>10. Carries(s)'
  BY <1>1, <1>7, <1>8, <1>9 DEF Carries, Awaits
<1>11. /\ row' \in Store /\ OrganizationKept(row', row) /\ row'.role = row.role /\ row'.active = row.active
       /\ \A v \in Users \ {u} : row'.members[v] = row.members[v]
       /\ \A v \in Users : Len(row'.members[v]) = Len(row.members[v])
  BY <1>1, <1>3, <1>4, <1>5 DEF OrganizationKept
<1>12. ASSUME Done, ~overlapped, ~missed
       PROVE  AccountsAgree' /\ \A v \in Users \ unsaved : Len(mem.members[v]) = 1 => mem.members[v] = row'.members[v]
  <2>1. /\ \A v \in Users \ unsaved : Len(mem.members[v]) = 1 =>
              IF v = u THEN Len(row.members[v]) = 1 /\ mem.members[v][1] = Written(row.members[v][1], x)
              ELSE mem.members[v] = row.members[v]
        /\ \A v \in Users \ unsaved : v # u => mem.role[v] = row.role[v] /\ mem.active[v] = row.active[v]
        /\ \A t \in Slots \ {s} : h[t].pc = "idle" /\ h'[t].pc = "idle"
        /\ AccountsAgree
    BY <1>1, <1>8, <1>12, PeopleQuiet
  <2>2. u \notin unsaved =>
           IF k = "status" THEN mem.role[u] = row.role[u] ELSE x = mem.role[u] /\ mem.active[u] = row.active[u]
    <3>1. Of(s, u, {"member"})
      BY <1>1 DEF Of
    <3>2. QED
      BY <1>1, <2>1, <3>1 DEF AccountsAgree
  <2>3. row' = n /\ unsaved' = unsaved
    BY <1>4, <1>12 DEF Done
  <2>4. ASSUME NEW v \in Users \ unsaved
        PROVE  /\ (\A t \in Slots : ~Of(t, v, {"member", "user"})') => mem'.role[v] = row'.role[v]
               /\ (\A t \in Slots : ~Of(t, v, {"member", "user", "close"})') => mem'.active[v] = row'.active[v]
               /\ \A t \in Slots : ~Of(t, v, {"member"})'
               /\ \A t \in Slots : Of(t, v, {"user"})' =>
                     /\ IF h'[t].value = "keep" THEN mem'.role[v] = row'.role[v] ELSE h'[t].value = mem'.role[v]
                     /\ IF h'[t].rest = "keep" THEN mem'.active[v] = row'.active[v] ELSE h'[t].rest = Lock(mem'.active[v])
    <3>1. CASE v # u
      BY <1>6, <1>7, <1>8, <1>11, <2>1, <3>1 DEF Of
    <3>2. CASE v = u
      <4>1. Of(s, u, {"member", "user"})' /\ Of(s, u, {"member", "user", "close"})'
        BY <1>7, <1>8 DEF Of
      <4>2. \A t \in Slots : Of(t, v, {"user"})' => t = s
        BY <1>7, <1>8, <2>1 DEF Of
      <4>3. \A t \in Slots : ~Of(t, v, {"member"})'
        BY <1>7, <1>8, <2>1 DEF Of
      <4>4. IF rec.value = "keep" THEN mem'.role[u] = row'.role[u] ELSE rec.value = mem'.role[u]
        <5>1. mem.role[u] \in Roles /\ "keep" \notin Roles
          BY <1>1, StoreTypes DEF Roles
        <5>2. CASE k = "status"
          BY <1>6, <1>7, <1>11, <2>2, <2>4, <3>2, <5>2
        <5>3. CASE k # "status"
          <6>1. rec.value = mem.role[u]
            BY <1>1, <1>7, <2>2, <2>4, <3>2, <5>3
          <6>2. QED
            BY <1>6, <5>1, <6>1
        <5>4. QED
          BY <5>2, <5>3
      <4>5. IF rec.rest = "keep" THEN mem'.active[u] = row'.active[u] ELSE rec.rest = Lock(mem'.active[u])
        <5>1. Lock(mem'.active[u]) # "keep"
          BY DEF Lock
        <5>2. k = "role" => mem'.active[u] = row'.active[u]
          BY <1>1, <1>6, <1>11, <2>2, <2>4, <3>2
        <5>3. QED
          BY <1>7, <5>1, <5>2
      <4>6. QED
        <5>1. ASSUME NEW t \in Slots, Of(t, v, {"user"})'
              PROVE  /\ IF h'[t].value = "keep" THEN mem'.role[v] = row'.role[v] ELSE h'[t].value = mem'.role[v]
                     /\ IF h'[t].rest = "keep" THEN mem'.active[v] = row'.active[v] ELSE h'[t].rest = Lock(mem'.active[v])
          <6>1. t = s /\ h'[t] = rec
            BY <1>8, <4>2, <5>1
          <6>2. QED
            BY <3>2, <4>4, <4>5, <6>1
        <5>2. \E t \in Slots : h'[t].user = v /\ h'[t].pc \in {"member", "user"} /\ h'[t].pc \in {"member", "user", "close"}
          BY <1>7, <1>8, <3>2
        <5>3. QED
          BY <4>3, <5>1, <5>2 DEF Of
    <3>3. QED
      BY <3>1, <3>2
  <2>5. AccountsAgree'
    BY <2>3, <2>4 DEF AccountsAgree, Of
  <2>6. ASSUME NEW v \in Users \ unsaved, Len(mem.members[v]) = 1 PROVE mem.members[v] = row'.members[v]
    <3>1. CASE v # u
      BY <1>11, <2>1, <2>6, <3>1
    <3>2. CASE v = u
      <4>1. Len(row.members[u]) = 1 /\ mem.members[u][1] = Written(row.members[u][1], x)
        BY <2>1, <2>6, <3>2
      <4>2. mem.members[u] \in Seq(Record) /\ row.members[u] # <<>>
        BY <1>1, <1>3, <4>1, StoreTypes
      <4>3. q[1] = mem.members[u][1] /\ Len(q) = 1 /\ Len(mem.members[u]) = 1
        BY <1>3, <2>6, <3>2, <4>1, <4>2
      <4>4. q = mem.members[u]
        BY <1>3, <4>2, <4>3
      <4>5. QED
        BY <1>5, <2>3, <3>2, <4>4
    <3>3. QED
      BY <3>1, <3>2
  <2>7. QED
    BY <2>5, <2>6
<1>13. /\ faults \in Nat /\ faults' \in Nat /\ faults <= faults' /\ overlapped' = overlapped
       /\ Failed => faults' = faults + 1
       /\ ~overlapped => \A t \in Slots \ {s} : h[t].pc = "idle" /\ h'[t].pc = "idle"
       /\ ~overlapped => \A v \in Users : landing[v] = {}
  <2>1. /\ faults' \in 0..MaxFaults /\ faults <= faults' /\ overlapped' = overlapped
        /\ Failed => faults' = faults + 1
        /\ ~overlapped => (\A v \in Users : landing[v] = {}) /\ \A t \in Slots \ {s} : h[t] = NoRequest
    BY <1>1, <1>4, <1>8, AnswerFacts
  <2>2. faults \in 0..MaxFaults
    BY DEF TenancyInv, TenancyTypeOK
  <2>3. QED
    BY <1>8, <2>1, <2>2 DEF NoRequest
<1>14. ClosingInv'
  <2>1. SUFFICES ASSUME ~overlapped, k = "status", rec.rest = "shut", IsMember(u)
                 PROVE  /\ ~mem'.active[u]
                        /\ faults' = 0 => row'.members[u] # <<>> /\ Silent(row'.members[u])
    <3>1. SUFFICES ASSUME ~overlapped' PROVE ClosingInv'
      BY DEF ClosingInv
    <3>2. QED
      BY <1>6, <1>7, <1>8, <1>13, <3>1 DEF ClosingInv, Awaits, IsMember
  <2>2. mem' = mem /\ ~mem.active[u]
    BY <1>2, <1>7, <2>1 DEF Lock
  <2>3. ASSUME faults' = 0 PROVE row'.members[u] # <<>> /\ Silent(row'.members[u])
    <3>1. faults = 0 /\ Done /\ row' = n
      BY <1>4, <1>13, <2>3
    <3>2. ~missed
      BY <3>1 DEF TenancyInv, ReferenceInv
    <3>3. x = "Suspended"
      <4>1. IF x = "Suspended" THEN ~mem.active[u] /\ First(u).status # "Active" ELSE mem.active[u]
        BY <1>1, <2>1 DEF TenancyInv, ClosingInv, Awaits
      <4>2. QED
        BY <2>2, <4>1
    <3>4. row.members[u] # <<>>
      BY <1>1, <1>8, <2>1, <3>2, PeopleQuiet DEF IsMember
    <3>5. q # <<>>
      BY <1>3, <3>4
    <3>6. QED
      BY <1>3, <1>5, <3>1, <3>3, <3>5
  <2>4. QED
    BY <2>2, <2>3
<1>15. ASSUME NEW v \in barred', faults' <= 1 PROVE (ShutOut(v) \/ SilentOut(v))'
  <2>1. faults <= 1 /\ v \in Users /\ v \in barred
    BY <1>1, <1>13, <1>15
  <2>2. v = u => x # "Active" /\ a # "open"
    BY <1>1, <2>1 DEF TenancyInv, BarredInv, Of
  <2>3. mem'.active[v] => mem.active[v]
    BY <1>1, <1>6, <2>1, <2>2
  <2>4. /\ row.members[v] # <<>> => row'.members[v] # <<>>
        /\ Silent(row.members[v]) => Silent(row'.members[v])
    <3>1. CASE v # u
      BY <1>11, <2>1, <3>1
    <3>2. CASE v = u
      <4>1. row.members[u] # <<>> => q # <<>>
        BY <1>3
      <4>2. QED
        BY <1>3, <1>4, <1>5, <2>2, <3>2, <4>1
    <3>3. QED
      BY <3>1, <3>2
  <2>5. CASE mem'.active[u] /\ v = u
    <3>1. SilentOut(v)
      BY <2>1, <2>3, <2>5 DEF TenancyInv, BarredInv, ShutOut
    <3>2. \A t \in Slots : h'[t].pc # "idle" => h'[t].kind # "create"
      BY <1>1, <1>7, <1>8, <3>1 DEF SilentOut, Busy
    <3>3. QED
      BY <1>6, <2>3, <2>4, <3>1, <3>2 DEF SilentOut, Busy, IsMember, First
  <2>6. CASE ~(mem'.active[u] /\ v = u)
    <3>1. h'[s].user = v /\ h'[s].pc = "user" => h'[s].rest # "open"
      BY <1>7, <1>8, <2>6 DEF Lock
    <3>2. h'[s].kind # "create"
      BY <1>1, <1>7, <1>8
    <3>3. row'.active[v] => row.active[v]
      BY <1>11
    <3>4. QED
      BY <1>6, <1>8, <2>1, <2>3, <2>4, <3>1, <3>2, <3>3, BarsStay
  <2>7. QED
    BY <2>5, <2>6
<1> DEFINE Goes == h'[s].pc = "user"
<1>16. Goes /\ (Done \/ Failed)
  BY <1>4, <1>7, <1>8
<1>17. QED
  BY <1>1, <1>6, <1>8, <1>10, <1>11, <1>12, <1>14, <1>15, <1>16, PeopleAnswers

-----------------------------------------------------------------------------
(* The workspace of a new organization *)

\* A record is added to a member's.
LEMMA AddedRecord ==
  ASSUME NEW p \in Seq(Record), NEW x \in Record
  PROVE  LET q == Append(p, x)
         IN  /\ q \in Seq(Record) /\ q # <<>> /\ Len(q) = Len(p) + 1 /\ Len(p) \in Nat
             /\ (p = <<>> => q = <<x>>) /\ (Len(q) <= 1 => p = <<>>)
<1>1. Append(p, x) \in Seq(Record) /\ Len(Append(p, x)) = Len(p) + 1 /\ Len(p) \in Nat
  OBVIOUS
<1>2. Append(p, x) # <<>>
  BY <1>1
<1>3. p = <<>> => Append(p, x) = <<x>>
  OBVIOUS
<1>4. Len(Append(p, x)) <= 1 => p = <<>>
  <2>1. Len(Append(p, x)) <= 1 => Len(p) = 0
    BY <1>1
  <2>2. QED
    BY <2>1
<1>5. QED
  BY <1>1, <1>2, <1>3, <1>4

\* A handler that founds keeps no door but those the accounts shut.
LEMMA FoundingBars ==
  ASSUME TenancyInv, NEW s \in Slots, Done \/ Failed, \A t \in Slots \ {s} : h'[t] = h[t],
         h[s].pc \in {"workspace", "owner"}, h'[s].pc \in {"idle", "owner"}, mem'.active = mem.active,
         row'.active = row.active, barred' = barred
  PROVE  BarredInv' /\ ClosingInv'
<1>1. /\ h[s].kind = "create" /\ h[s].pc # "idle" /\ (h'[s].pc \in {"idle", "owner"})
  BY DEF TenancyInv, HandlerInv, Carries
<1>2. /\ landing' = landing /\ overlapped' = overlapped /\ faults' \in 0..MaxFaults /\ faults <= faults'
      /\ ~overlapped => \A t \in Slots \ {s} : h[t] = NoRequest
  BY <1>1, AnswerFacts
<1>3. BarredInv'
  <2>1. SUFFICES ASSUME faults' <= 1, NEW v \in barred
                 PROVE  /\ landing[v] = {}
                        /\ \A t \in Slots : Of(t, v, {"member"})' => h'[t].value # "Active" /\ h'[t].rest # "open"
                        /\ ShutOut(v)'
    BY <1>2 DEF BarredInv, Of
  <2>2. faults \in 0..MaxFaults /\ v \in Users
    BY <2>1 DEF TenancyInv, TenancyTypeOK
  <2>3. faults <= 1
    BY <1>2, <2>1, <2>2, TenancyBoundAssumption
  <2>4. /\ landing[v] = {} /\ (ShutOut(v) \/ SilentOut(v))
        /\ \A t \in Slots : Of(t, v, {"member"}) => h[t].value # "Active" /\ h[t].rest # "open"
    BY <2>1, <2>3 DEF TenancyInv, BarredInv
  <2>5. ShutOut(v)
    BY <1>1, <2>4 DEF SilentOut, Busy
  <2>6. \A t \in Slots : h'[t].pc \in {"member", "user"} => h'[t] = h[t]
    OBVIOUS
  <2>7. ShutOut(v)'
    BY <2>5, <2>6 DEF ShutOut, Of
  <2>8. QED
    BY <2>4, <2>6, <2>7 DEF Of
<1>4. ClosingInv'
  <2>1. SUFFICES ASSUME ~overlapped' PROVE ClosingInv'
    BY DEF ClosingInv
  <2>2. \A t \in Slots : h'[t].pc \in {"idle", "owner"}
    BY <1>1, <1>2, <2>1 DEF NoRequest
  <2>3. QED
    BY <2>2 DEF ClosingInv, Awaits
<1>5. QED
  BY <1>3, <1>4

\* persistWorkspace.
LEMMA WorkspaceRowStep ==
  ASSUME TenancyInv, NEW s \in Slots, WorkspaceRow(s), stripped' = (stripped \/ Twice')
  PROVE  TenancyInv'
<1> DEFINE q == Append(mem.members[Founder], OwnerRecord)
           m == WithRecords(mem, Founder, q)
           n == WithWorkspace(row, row.tenant)
           rec == [h[s] EXCEPT !.pc = "owner"]
<1>1. /\ h[s].pc = "workspace" /\ barred' = barred /\ barred \subseteq Users /\ h \in [Slots -> Handler]
      /\ h[s] \in Handler /\ row \in Store /\ mem \in Store /\ Founder \in Users
      /\ h[s].kind = "create" /\ h[s].user = Founder /\ h[s].id = "granted" /\ mem.workspace
      /\ h' = [h EXCEPT ![s] = rec] /\ mem' = m
  BY FounderAssumption DEF WorkspaceRow, Advance, WithRecords, TenancyInv, TenancyTypeOK, HandlerInv, Carries, Awaits
<1>2. (Failed /\ row' = row /\ ~Done) \/ (Done /\ row' = n)
  BY FailedFacts DEF WorkspaceRow, WithWorkspace
<1>3. /\ q \in Seq(Record) /\ q # <<>> /\ Len(q) = Len(mem.members[Founder]) + 1
      /\ (mem.members[Founder] = <<>> => q = <<OwnerRecord>>) /\ (Len(q) <= 1 => mem.members[Founder] = <<>>)
  <2>1. OwnerRecord \in Record /\ mem.members[Founder] \in Seq(Record)
    BY <1>1, StoreTypes DEF OwnerRecord, Record, Roles
  <2>2. QED
    BY <2>1, AddedRecord
<1> HIDE DEF q
<1>4. /\ m \in Store /\ OrganizationKept(m, mem) /\ m.role = mem.role /\ m.active = mem.active
      /\ m.members[Founder] = q /\ \A v \in Users \ {Founder} : m.members[v] = mem.members[v]
  BY <1>1, <1>3, StoreRecords
<1>5. /\ n \in Store /\ PeopleKept(n, row) /\ n.workspace = row.tenant
      /\ n.org = row.org /\ n.tenant = row.tenant /\ n.joined = row.joined /\ n.home = row.home
  <2>1. \A v \in BOOLEAN : LET w == WithWorkspace(row, v)
           IN  /\ w \in Store /\ PeopleKept(w, row) /\ w.workspace = v
               /\ w.org = row.org /\ w.tenant = row.tenant /\ w.joined = row.joined /\ w.home = row.home
    BY <1>1, StoreWorkspace
  <2>2. row.tenant \in BOOLEAN
    BY <1>1, StoreTypes
  <2>3. QED
    BY <2>1, <2>2
<1>6. rec \in Handler /\ rec.pc = "owner" /\ rec.kind = "create" /\ rec.user = Founder /\ rec.id = "granted"
  BY <1>1 DEF Handler
<1> HIDE DEF m, n, rec
<1>7. h' \in [Slots -> Handler] /\ h'[s] = rec /\ \A t \in Slots \ {s} : h'[t] = h[t]
  BY <1>1, <1>6
<1>8. /\ row' \in Store /\ PeopleKept(row', row) /\ row'.org = row.org /\ row'.tenant = row.tenant
      /\ row'.joined = row.joined /\ row'.home = row.home
  BY <1>1, <1>2, <1>5 DEF PeopleKept
<1>9. /\ landing' = landing /\ unsaved' = unsaved /\ overlapped' = overlapped /\ boots' = boots /\ arrivals' = arrivals
      /\ faults' \in 0..MaxFaults /\ faults <= faults' /\ (missed => missed') /\ missed' \in BOOLEAN
      /\ unsure' \in BOOLEAN /\ (~unsure' => ~unsure /\ ~overlapped' /\ ~missed')
      /\ missed' => faults' >= 1
      /\ AloneInv'
      /\ Failed => missed'
  BY <1>1, <1>2, <1>7, AnswerFacts
<1>10. /\ landing \in [Users -> SUBSET Record] /\ unsaved \subseteq Users
       /\ overlapped \in BOOLEAN /\ stripped \in BOOLEAN
       /\ faults \in 0..MaxFaults /\ boots \in 0..MaxBoots /\ arrivals \in 0..MaxArrivals
  BY DEF TenancyInv, TenancyTypeOK
<1>11. TenancyTypeOK'
  BY <1>1, <1>4, <1>7, <1>8, <1>9, <1>10 DEF TenancyTypeOK, Twice
<1>12. mem'.workspace = mem.workspace /\ mem'.org = mem.org /\ mem'.joined = mem.joined /\ mem'.home = mem.home
       /\ mem'.role = mem.role /\ mem'.active = mem.active
  BY <1>1, <1>4 DEF OrganizationKept
<1>13. HandlerInv'
  <2>1. Carries(s)'
    BY <1>1, <1>6, <1>7, <1>12 DEF Carries, Awaits
  <2>2. ASSUME NEW t \in Slots \ {s} PROVE Carries(t)'
    BY <1>7, <1>8, <1>12 DEF Carries, Awaits, TenancyInv, HandlerInv
  <2>3. QED
    BY <2>1, <2>2 DEF HandlerInv
<1>14. ReferenceInv'
  <2>1. /\ row.tenant => row.org # "none"
        /\ row.workspace => row.tenant
        /\ \A v \in Users : row.members[v] # <<>> => row.workspace
        /\ mem.home = row.home
        /\ \A v \in Users : landing[v] = {} \/ (mem.workspace /\ \E x \in Record : landing[v] = {x})
    BY DEF TenancyInv, ReferenceInv
  <2>2. row'.workspace = row.workspace \/ row'.workspace = row.tenant
    BY <1>2, <1>5
  <2>3. QED
    BY <1>1, <1>8, <1>9, <1>12, <2>1, <2>2 DEF ReferenceInv, PeopleKept
<1>15. TablesInv'
  <2>1. SUFFICES ASSUME ~overlapped', ~missed'
                 PROVE  OrganizationAgrees' /\ WorkspaceAgrees' /\ MembershipsAgree' /\ AccountsAgree' /\ MembersAgree'
    BY DEF TablesInv
  <2>2. ~overlapped /\ ~missed /\ Done /\ row' = n
    BY <1>2, <1>9, <2>1
  <2>3. /\ OrganizationAgrees /\ WorkspaceAgrees /\ MembershipsAgree /\ AccountsAgree /\ MembersAgree
        /\ \A t \in Slots \ {s} : h[t].pc = "idle" /\ h'[t].pc = "idle"
        /\ \A v \in Users : landing[v] = {}
    BY <1>1, <1>7, <2>2, AnswerQuiet
  <2>4. \A t \in Slots : h[t].pc \in {"idle", "workspace"} /\ h'[t].pc \in {"idle", "owner"}
    BY <1>1, <1>6, <1>7, <2>3
  <2>5. OrganizationAgrees'
    BY <1>8, <1>12, <2>3, <2>4 DEF OrganizationAgrees, Awaits
  <2>6. WorkspaceAgrees'
    BY <1>1, <1>5, <2>2, <2>3, <2>4 DEF WorkspaceAgrees, Awaits
  <2>7. MembershipsAgree'
    BY <1>8, <1>12, <2>3, <2>4 DEF MembershipsAgree, Awaits
  <2>8. AccountsAgree'
    BY <1>8, <1>9, <1>12, <2>3, <2>4 DEF AccountsAgree, Of, PeopleKept
  <2>9. \A v \in Users : row.members[v] = <<>> /\ mem.members[v] = <<>>
    <3>1. \A v \in Users : row.members[v] = <<>>
      BY <1>1, <2>3 DEF WorkspaceAgrees, TenancyInv, ReferenceInv
    <3>2. QED
      BY <2>3, <2>4, <3>1 DEF MembersAgree, Awaits
  <2>10. mem'.members[Founder] = <<OwnerRecord>> /\ \A v \in Users \ {Founder} : mem'.members[v] = <<>>
    BY <1>1, <1>3, <1>4, <2>9
  <2>11. mem'.members[Founder][1] = OwnerRecord /\ \A v \in Users \ {Founder} : Len(mem'.members[v]) # 1
    BY <2>10
  <2>12. row'.members[Founder] = <<>> /\ Awaits(s, "owner")'
    BY <1>1, <1>6, <1>7, <1>8, <2>9 DEF Awaits, PeopleKept
  <2>13. MembersAgree'
    BY <2>10, <2>11, <2>12 DEF MembersAgree
  <2>14. QED
    BY <2>5, <2>6, <2>7, <2>8, <2>13
<1>16. OwnerInv'
  <2>1. ASSUME ~stripped' PROVE HasOwner' /\ \A v \in Users : Len(mem'.members[v]) <= 1
    <3>1. \A v \in Users : Len(mem'.members[v]) <= 1
      <4>1. \A v \in Users : mem'.members[v] \in Seq(Record)
        BY <1>1, <1>4, StoreTypes
      <4>2. \A v \in Users : ~(Len(mem'.members[v]) > 1)
        BY <2>1 DEF Twice
      <4>3. QED
        BY <4>1, <4>2
    <3>2. mem'.members[Founder] = <<OwnerRecord>>
      BY <1>1, <1>3, <1>4, <3>1
    <3>3. mem'.members[Founder] # <<>> /\ Head(mem'.members[Founder]) = OwnerRecord
      BY <3>2
    <3>4. QED
      BY <1>1, <3>1, <3>3 DEF HasOwner, IsMember, First, InForce, OwnerRecord
  <2>2. ASSUME ~unsure'
        PROVE  /\ ~overlapped' /\ ~missed'
               /\ \A v \in unsaved' : Len(row'.members[v]) >= 2 \/ (landing'[v] # {} /\ row'.members[v] # <<>>)
    BY <1>8, <1>9, <2>2 DEF TenancyInv, OwnerInv, PeopleKept
  <2>3. QED
    BY <2>1, <2>2 DEF OwnerInv
<1>17. BarredInv' /\ ClosingInv'
  BY <1>1, <1>2, <1>6, <1>7, <1>8, <1>12, FoundingBars DEF PeopleKept
<1>18. QED
  BY <1>9, <1>11, <1>13, <1>14, <1>15, <1>16, <1>17 DEF TenancyInv

\* The founder's membership is written.
LEMMA OwnerRowStep ==
  ASSUME TenancyInv, NEW s \in Slots, OwnerRow(s), stripped' = (stripped \/ Twice')
  PROVE  TenancyInv'
<1> DEFINE q == Append(row.members[Founder], OwnerRecord)
           n == WithRecords(row, Founder, q)
<1>1. /\ h[s].pc = "owner" /\ barred' = barred /\ barred \subseteq Users /\ h \in [Slots -> Handler]
      /\ row \in Store /\ mem \in Store /\ Founder \in Users /\ NoRequest \in Handler /\ NoRequest.pc = "idle"
      /\ h[s].kind = "create" /\ h[s].user = Founder /\ mem.workspace
      /\ h' = [h EXCEPT ![s] = NoRequest] /\ mem' = mem
  BY FounderAssumption DEF OwnerRow, Finish, TenancyInv, TenancyTypeOK, HandlerInv, Carries, Awaits, Handler, NoRequest, Ids
<1>2. (Failed /\ row' = row /\ ~Done) \/ (Done /\ row' = IF row.workspace THEN n ELSE row)
  BY FailedFacts DEF OwnerRow, WithRecords
<1>3. /\ q \in Seq(Record) /\ q # <<>> /\ Len(q) = Len(row.members[Founder]) + 1
      /\ Len(row.members[Founder]) \in Nat
      /\ (row.members[Founder] = <<>> => q = <<OwnerRecord>>)
  <2>1. OwnerRecord \in Record /\ row.members[Founder] \in Seq(Record)
    BY <1>1, StoreTypes DEF OwnerRecord, Record, Roles
  <2>2. QED
    BY <2>1, AddedRecord
<1> HIDE DEF q
<1>4. /\ n \in Store /\ OrganizationKept(n, row) /\ n.role = row.role /\ n.active = row.active
      /\ n.members[Founder] = q /\ \A v \in Users \ {Founder} : n.members[v] = row.members[v]
  BY <1>1, <1>3, StoreRecords
<1> HIDE DEF n
<1>5. h' \in [Slots -> Handler] /\ h'[s] = NoRequest /\ \A t \in Slots \ {s} : h'[t] = h[t]
  BY <1>1
<1>6. /\ row' \in Store /\ OrganizationKept(row', row) /\ row'.role = row.role /\ row'.active = row.active
      /\ \A v \in Users \ {Founder} : row'.members[v] = row.members[v]
      /\ row'.members[Founder] = row.members[Founder] \/ (row.workspace /\ row'.members[Founder] = q)
  BY <1>1, <1>2, <1>4 DEF OrganizationKept
<1>7. /\ landing' = landing /\ unsaved' = unsaved /\ overlapped' = overlapped /\ boots' = boots /\ arrivals' = arrivals
      /\ faults' \in 0..MaxFaults /\ faults <= faults' /\ (missed => missed') /\ missed' \in BOOLEAN
      /\ unsure' \in BOOLEAN /\ (~unsure' => ~unsure /\ ~overlapped' /\ ~missed')
      /\ missed' => faults' >= 1
      /\ AloneInv'
      /\ Failed => missed'
  BY <1>1, <1>2, <1>5, AnswerFacts
<1>8. /\ landing \in [Users -> SUBSET Record] /\ unsaved \subseteq Users
      /\ overlapped \in BOOLEAN /\ stripped \in BOOLEAN
      /\ faults \in 0..MaxFaults /\ boots \in 0..MaxBoots /\ arrivals \in 0..MaxArrivals
  BY DEF TenancyInv, TenancyTypeOK
<1>9. TenancyTypeOK'
  BY <1>1, <1>5, <1>6, <1>7, <1>8 DEF TenancyTypeOK, Twice
<1>10. HandlerInv'
  <2>1. Carries(s)'
    BY <1>5 DEF Carries, Awaits, NoRequest
  <2>2. ASSUME NEW t \in Slots \ {s} PROVE Carries(t)'
    BY <1>1, <1>5, <1>6 DEF Carries, Awaits, TenancyInv, HandlerInv, OrganizationKept
  <2>3. QED
    BY <2>1, <2>2 DEF HandlerInv
<1>11. ReferenceInv'
  <2>1. /\ row.tenant => row.org # "none"
        /\ row.workspace => row.tenant /\ mem.workspace
        /\ \A v \in Users : row.members[v] # <<>> => row.workspace
        /\ mem.home = row.home
        /\ \A v \in Users : landing[v] = {} \/ (mem.workspace /\ \E x \in Record : landing[v] = {x})
    BY DEF TenancyInv, ReferenceInv
  <2>2. \A v \in Users : row'.members[v] # <<>> => row.workspace
    BY <1>6, <2>1
  <2>3. QED
    BY <1>1, <1>6, <1>7, <2>1, <2>2 DEF ReferenceInv, OrganizationKept
<1>12. TablesInv'
  <2>1. SUFFICES ASSUME ~overlapped', ~missed'
                 PROVE  OrganizationAgrees' /\ WorkspaceAgrees' /\ MembershipsAgree' /\ AccountsAgree' /\ MembersAgree'
    BY DEF TablesInv
  <2>2. ~overlapped /\ ~missed /\ Done
    BY <1>2, <1>7, <2>1
  <2>3. /\ OrganizationAgrees /\ WorkspaceAgrees /\ MembershipsAgree /\ AccountsAgree /\ MembersAgree
        /\ \A t \in Slots \ {s} : h[t].pc = "idle" /\ h'[t].pc = "idle"
        /\ \A v \in Users : landing[v] = {}
    BY <1>1, <1>5, <2>2, AnswerQuiet
  <2>4. \A t \in Slots : h[t].pc \in {"idle", "owner"} /\ h'[t].pc = "idle"
    BY <1>1, <1>5, <2>3
  <2>5. OrganizationAgrees'
    BY <1>1, <1>6, <2>3, <2>4 DEF OrganizationAgrees, Awaits, OrganizationKept
  <2>6. WorkspaceAgrees'
    BY <1>1, <1>6, <2>3, <2>4 DEF WorkspaceAgrees, Awaits, OrganizationKept
  <2>7. MembershipsAgree'
    BY <1>1, <1>6, <2>3, <2>4 DEF MembershipsAgree, Awaits, OrganizationKept
  <2>8. AccountsAgree'
    BY <1>1, <1>6, <1>7, <2>3, <2>4 DEF AccountsAgree, Of
  <2>9. row.workspace
    BY <1>1, <2>3, <2>4 DEF WorkspaceAgrees, Awaits
  <2>10. row'.members[Founder] = q
    BY <1>2, <1>4, <2>2, <2>9
  <2>11. ASSUME NEW v \in Users \ unsaved, Len(mem.members[v]) = 1 PROVE mem.members[v] = row'.members[v]
    <3>1. \A t \in Slots : ~Of(t, v, {"member"})
      BY <2>4 DEF Of
    <3>2. CASE v # Founder
      <4>1. mem.members[v] = row.members[v]
        BY <2>3, <2>11, <3>1, <3>2 DEF MembersAgree
      <4>2. QED
        BY <1>6, <3>2, <4>1
    <3>3. CASE v = Founder
      <4>1. row.members[Founder] = <<>> /\ mem.members[Founder][1] = OwnerRecord
        <5>1. Awaits(s, "owner")
          BY <1>1 DEF Awaits
        <5>2. QED
          BY <2>3, <2>11, <3>1, <3>3, <5>1 DEF MembersAgree
      <4>2. mem.members[Founder] \in Seq(Record) /\ Len(mem.members[Founder]) = 1
        BY <1>1, <2>11, <3>3, StoreTypes
      <4>3. mem.members[Founder] = <<OwnerRecord>>
        BY <4>1, <4>2
      <4>4. QED
        BY <1>3, <2>10, <3>3, <4>1, <4>3
    <3>4. QED
      BY <3>2, <3>3
  <2>12. \A v \in Users : mem.members[v] # <<>> => row'.members[v] # <<>>
    <3>1. \A v \in Users \ {Founder} : mem.members[v] # <<>> => row.members[v] # <<>>
      BY <2>3 DEF MembersAgree
    <3>2. QED
      BY <1>3, <1>6, <2>10, <3>1
  <2>13. MembersAgree'
    BY <1>1, <1>7, <2>3, <2>4, <2>11, <2>12 DEF MembersAgree, Of, Awaits
  <2>14. QED
    BY <2>5, <2>6, <2>7, <2>8, <2>13
<1>13. OwnerInv'
  <2>1. \A v \in Users : /\ Len(row'.members[v]) \in Nat /\ Len(row.members[v]) \in Nat
                         /\ Len(row'.members[v]) >= Len(row.members[v])
                         /\ row.members[v] # <<>> => row'.members[v] # <<>>
    <3>1. \A v \in Users : Len(row'.members[v]) \in Nat /\ Len(row.members[v]) \in Nat
      <4>1. \A v \in Users : row'.members[v] \in Seq(Record) /\ row.members[v] \in Seq(Record)
        BY <1>1, <1>6, StoreTypes
      <4>2. QED
        BY <4>1
    <3>2. QED
      BY <1>3, <1>6, <3>1
  <2>2. ASSUME ~unsure'
        PROVE  /\ ~overlapped' /\ ~missed'
               /\ \A v \in unsaved : Len(row'.members[v]) >= 2 \/ (landing[v] # {} /\ row'.members[v] # <<>>)
    <3>1. ~overlapped' /\ ~missed' /\ \A v \in unsaved : Len(row.members[v]) >= 2 \/ (landing[v] # {} /\ row.members[v] # <<>>)
      BY <1>7, <2>2 DEF TenancyInv, OwnerInv
    <3>2. QED
      BY <1>8, <2>1, <3>1
  <2>3. HasOwner' <=> HasOwner
    BY <1>1 DEF HasOwner, IsMember, First
  <2>4. (\A t \in Slots : ~Awaits(t, "workspace")') => \A t \in Slots : ~Awaits(t, "workspace")
    BY <1>1, <1>5 DEF Awaits
  <2>5. /\ ~stripped => \A v \in Users : Len(mem.members[v]) <= 1
        /\ ~stripped /\ mem.workspace /\ (\A t \in Slots : ~Awaits(t, "workspace")) => HasOwner
    BY DEF TenancyInv, OwnerInv
  <2>6. QED
    BY <1>1, <1>7, <2>2, <2>3, <2>4, <2>5 DEF OwnerInv
<1>14. BarredInv' /\ ClosingInv'
  BY <1>1, <1>2, <1>5, <1>6, FoundingBars
<1>15. QED
  BY <1>7, <1>9, <1>10, <1>11, <1>12, <1>13, <1>14 DEF TenancyInv

-----------------------------------------------------------------------------
(* The workspace in memory *)

\* With one record each, an owner who is not the last leaves another one.
LEMMA AnotherOwner ==
  ASSUME TenancyInv, NEW u \in Users, ~(OwnerCount <= 1), \A v \in Users : Len(mem.members[v]) <= 1
  PROVE  \E v \in Users \ {u} : IsMember(v) /\ InForce(First(v))
<1>1. SUFFICES ASSUME \A v \in Users \ {u} : ~(IsMember(v) /\ InForce(First(v)))
               PROVE  OwnerCount <= 1
  OBVIOUS
<1>2. Owners \subseteq {<<u, 1>>}
  <2>1. SUFFICES ASSUME NEW o \in Owners PROVE o = <<u, 1>>
    OBVIOUS
  <2>2. PICK v \in Users : \E i \in DOMAIN mem.members[v] : InForce(mem.members[v][i]) /\ o = <<v, i>>
    BY <2>1 DEF Owners
  <2>3. PICK i \in DOMAIN mem.members[v] : InForce(mem.members[v][i]) /\ o = <<v, i>>
    BY <2>2
  <2>4. mem.members[v] \in Seq(Record) /\ Len(mem.members[v]) <= 1
    BY StoreTypes DEF TenancyInv, TenancyTypeOK
  <2>5. i \in 1..Len(mem.members[v]) /\ i = 1 /\ mem.members[v] # <<>> /\ Head(mem.members[v]) = mem.members[v][1]
    BY <2>3, <2>4
  <2>6. IsMember(v) /\ InForce(First(v))
    BY <2>3, <2>5 DEF IsMember, First
  <2>7. QED
    BY <1>1, <2>3, <2>5, <2>6
<1>3. IsFiniteSet({<<u, 1>>}) /\ Cardinality({<<u, 1>>}) = 1
  BY FS_Singleton
<1>4. IsFiniteSet(Owners) /\ Cardinality(Owners) <= Cardinality({<<u, 1>>})
  BY <1>2, <1>3, FS_Subset
<1>5. Cardinality(Owners) \in Nat
  BY <1>4, FS_CardinalityType
<1>6. QED
  BY <1>3, <1>4, <1>5 DEF OwnerCount

\* What the routes of the workspace do to user u, in memory only.
MemoryChanges(u) ==
    /\ InMemoryOnly(u) /\ mem' \in Store /\ OrganizationKept(mem', mem) /\ mem'.active = mem.active
    /\ \A v \in Users \ {u} : mem'.members[v] = mem.members[v] /\ mem'.role[v] = mem.role[v]
    /\ mem'.members[u] # <<>> => mem.members[u] # <<>>
    /\ barred' \subseteq barred
    /\ u \in barred' => /\ mem.members[u] # <<>> /\ mem'.members[u] # <<>>
                        /\ Head(mem'.members[u]).status = Head(mem.members[u]).status
    /\ HasOwner /\ (\A v \in Users : Len(mem.members[v]) <= 1) => HasOwner'
    /\ stripped' = (stripped \/ Twice')

\* The workspaces routes write memory only: the handlers and the tables stay.
LEMMA MemoryStep ==
  ASSUME TenancyInv, NEW u \in Users, MemoryChanges(u)
  PROVE  TenancyInv'
<1>1. /\ mem' \in Store /\ OrganizationKept(mem', mem) /\ mem'.active = mem.active
      /\ \A v \in Users \ {u} : mem'.members[v] = mem.members[v] /\ mem'.role[v] = mem.role[v]
      /\ mem'.members[u] # <<>> => mem.members[u] # <<>>
      /\ barred' \subseteq barred /\ stripped' = (stripped \/ Twice')
      /\ unsaved' = unsaved \cup {u} /\ unsure' = TRUE
      /\ row' = row /\ h' = h /\ landing' = landing /\ missed' = missed
      /\ faults' = faults /\ boots' = boots /\ arrivals' = arrivals + 1 /\ arrivals < MaxArrivals
      /\ overlapped' = (overlapped \/ Busy # {} \/ \E v \in Users : landing[v] # {})
  BY DEF MemoryChanges, InMemoryOnly, Arrive, Overlap
<1>2. /\ mem \in Store /\ row \in Store /\ h \in [Slots -> Handler] /\ landing \in [Users -> SUBSET Record]
      /\ unsaved \subseteq Users /\ barred \subseteq Users /\ {missed, stripped} \subseteq BOOLEAN
      /\ faults \in 0..MaxFaults /\ boots \in 0..MaxBoots /\ arrivals \in 0..MaxArrivals
  BY DEF TenancyInv, TenancyTypeOK
<1>3. arrivals' \in 0..MaxArrivals
  BY <1>1, <1>2, TenancyBoundAssumption
<1>4. TenancyTypeOK'
  BY <1>1, <1>2, <1>3 DEF TenancyTypeOK, Twice
<1>5. HandlerInv'
  <2>1. ASSUME NEW t \in Slots PROVE Carries(t)'
    BY <1>1 DEF Carries, Awaits, TenancyInv, HandlerInv, OrganizationKept
  <2>2. QED
    BY <2>1 DEF HandlerInv
<1>6. ReferenceInv'
  BY <1>1 DEF TenancyInv, ReferenceInv, OrganizationKept
<1>7. ~overlapped' => ~overlapped /\ (\A t \in Slots : h'[t].pc = "idle") /\ \A v \in Users : landing'[v] = {}
  BY <1>1 DEF Busy
<1>8. AloneInv'
  BY <1>7 DEF AloneInv, Busy
<1>9. TablesInv'
  <2>1. SUFFICES ASSUME ~overlapped', ~missed'
                 PROVE  OrganizationAgrees' /\ WorkspaceAgrees' /\ MembershipsAgree' /\ AccountsAgree' /\ MembersAgree'
    BY DEF TablesInv
  <2>2. /\ OrganizationAgrees /\ WorkspaceAgrees /\ MembershipsAgree /\ AccountsAgree /\ MembersAgree
    BY <1>1, <1>7, <2>1 DEF TenancyInv, TablesInv
  <2>3. OrganizationAgrees'
    BY <1>1, <2>2 DEF OrganizationAgrees, Awaits, OrganizationKept
  <2>4. WorkspaceAgrees'
    BY <1>1, <2>2 DEF WorkspaceAgrees, Awaits, OrganizationKept
  <2>5. MembershipsAgree'
    BY <1>1, <2>2 DEF MembershipsAgree, Awaits, OrganizationKept
  <2>6. AccountsAgree'
    BY <1>1, <2>2 DEF AccountsAgree, Of
  <2>7. MembersAgree'
    BY <1>1, <2>2 DEF MembersAgree, Of, Awaits
  <2>8. QED
    BY <2>3, <2>4, <2>5, <2>6, <2>7
<1>10. OwnerInv'
  <2>1. ASSUME ~stripped'
        PROVE  /\ \A v \in Users : Len(mem'.members[v]) <= 1
               /\ mem'.workspace /\ (\A t \in Slots : ~Awaits(t, "workspace")') => HasOwner'
    <3>1. \A v \in Users : Len(mem'.members[v]) <= 1
      <4>1. \A v \in Users : mem'.members[v] \in Seq(Record)
        BY <1>1, StoreTypes
      <4>2. \A v \in Users : ~(Len(mem'.members[v]) > 1)
        BY <1>1, <2>1 DEF Twice
      <4>3. QED
        BY <4>1, <4>2
    <3>2. /\ \A v \in Users : Len(mem.members[v]) <= 1
          /\ mem.workspace /\ (\A t \in Slots : ~Awaits(t, "workspace")) => HasOwner
      BY <1>1, <2>1 DEF TenancyInv, OwnerInv
    <3>3. mem'.workspace /\ (\A t \in Slots : ~Awaits(t, "workspace")') => HasOwner
      BY <1>1, <3>2 DEF Awaits, OrganizationKept
    <3>4. QED
      BY <3>1, <3>2, <3>3 DEF MemoryChanges
  <2>2. QED
    BY <1>1, <2>1 DEF OwnerInv
<1>11. BarredInv'
  <2>1. SUFFICES ASSUME faults <= 1, NEW v \in barred'
                 PROVE  /\ landing[v] = {}
                        /\ \A t \in Slots : Of(t, v, {"member"}) => h[t].value # "Active" /\ h[t].rest # "open"
                        /\ ShutOut(v)' \/ SilentOut(v)'
    BY <1>1 DEF BarredInv, Of
  <2>2. v \in barred /\ v \in Users
    BY <1>1, <1>2, <2>1
  <2>3. /\ landing[v] = {} /\ (ShutOut(v) \/ SilentOut(v))
        /\ \A t \in Slots : Of(t, v, {"member"}) => h[t].value # "Active" /\ h[t].rest # "open"
    BY <2>1, <2>2 DEF TenancyInv, BarredInv
  <2>4. ShutOut(v) => ShutOut(v)'
    BY <1>1 DEF ShutOut, Of
  <2>5. ASSUME SilentOut(v) PROVE SilentOut(v)'
    <3>1. mem'.active[v] => mem'.members[v] # <<>> /\ Head(mem'.members[v]).status # "Active"
      <4>1. mem'.active[v] => mem.members[v] # <<>> /\ Head(mem.members[v]).status # "Active"
        BY <1>1, <2>5 DEF SilentOut, IsMember, First
      <4>2. CASE v = u
        BY <2>1, <4>1, <4>2 DEF MemoryChanges
      <4>3. CASE v # u
        BY <1>1, <2>2, <4>1, <4>3
      <4>4. QED
        BY <4>2, <4>3
    <3>2. \A t \in Busy' : h'[t].kind # "create"
      BY <1>1, <2>5 DEF SilentOut, Busy
    <3>3. QED
      BY <1>1, <2>5, <3>1, <3>2 DEF SilentOut, IsMember, First
  <2>6. QED
    BY <2>3, <2>4, <2>5
<1>12. ClosingInv'
  BY <1>7 DEF ClosingInv, Awaits
<1>13. QED
  BY <1>4, <1>5, <1>6, <1>8, <1>9, <1>10, <1>11, <1>12 DEF TenancyInv

\* PUT /workspaces/members/:userId/role.
LEMMA SetRoleStep ==
  ASSUME TenancyInv, NEW u \in Users, NEW r \in Roles, SetRole(u, r), stripped' = (stripped \/ Twice')
  PROVE  TenancyInv'
<1> DEFINE n == WithRecords(WithRole(mem, u, r), u, WithRank(mem.members[u], r))
<1>1. InMemoryOnly(u) /\ barred' = barred /\ IsMember(u) /\ (r # "Owner" => ~LastOwner(u)) /\ mem \in Store
  BY DEF SetRole, TenancyInv, TenancyTypeOK
<1>2. mem' = n
  <2>1. mem' = [mem EXCEPT !.members[u][1].role = r, !.role[u] = r]
    BY DEF SetRole
  <2>2. QED
    BY <1>1, <2>1 DEF WithRecords, WithRole, WithRank, Store
<1>3. /\ n \in Store /\ OrganizationKept(n, mem) /\ n.active = mem.active
      /\ mem.members[u] # <<>> /\ n.members[u] # <<>>
      /\ n.members[u][1].status = mem.members[u][1].status /\ n.members[u][1].role = r
      /\ \A v \in Users \ {u} : n.members[v] = mem.members[v] /\ n.role[v] = mem.role[v]
  BY <1>1, RankFacts
<1> HIDE DEF n
<1>4. Head(mem'.members[u]) = mem'.members[u][1] /\ Head(mem.members[u]) = mem.members[u][1]
  <2>1. mem'.members[u] \in Seq(Record) /\ mem.members[u] \in Seq(Record)
    BY <1>1, <1>2, <1>3, StoreTypes
  <2>2. QED
    BY <1>2, <1>3, <2>1
<1>5. ASSUME HasOwner, \A v \in Users : Len(mem.members[v]) <= 1 PROVE HasOwner'
  <2>1. PICK w \in Users : IsMember(w) /\ InForce(First(w))
    BY <1>5 DEF HasOwner
  <2>2. \A v \in Users \ {u} : IsMember(v) /\ InForce(First(v)) => HasOwner'
    BY <1>2, <1>3 DEF HasOwner, IsMember, First
  <2>3. CASE w # u
    BY <2>1, <2>2, <2>3
  <2>4. CASE w = u /\ r = "Owner"
    <3>1. mem'.members[u] # <<>> /\ InForce(Head(mem'.members[u]))
      BY <1>2, <1>3, <1>4, <2>1, <2>4 DEF InForce, First
    <3>2. QED
      BY <3>1 DEF HasOwner, IsMember, First
  <2>5. CASE w = u /\ r # "Owner"
    <3>1. ~(OwnerCount <= 1)
      BY <1>1, <2>1, <2>5 DEF LastOwner, InForce
    <3>2. QED
      BY <1>5, <2>2, <3>1, AnotherOwner
  <2>6. QED
    BY <2>3, <2>4, <2>5
<1>6. MemoryChanges(u)
  BY <1>1, <1>2, <1>3, <1>4, <1>5 DEF MemoryChanges
<1>7. QED
  BY <1>6, MemoryStep

\* DELETE /workspaces/members/:userId.
LEMMA RemoveMemberStep ==
  ASSUME TenancyInv, NEW u \in Users, RemoveMember(u), stripped' = (stripped \/ Twice')
  PROVE  TenancyInv'
<1> DEFINE q == Tail(mem.members[u])
           n == WithRecords(mem, u, q)
<1>1. /\ InMemoryOnly(u) /\ barred' = barred \ {u} /\ IsMember(u) /\ ~LastOwner(u) /\ mem \in Store
      /\ mem' = n
  BY DEF RemoveMember, TenancyInv, TenancyTypeOK, WithRecords
<1>2. q \in Seq(Record) /\ mem.members[u] # <<>>
  <2>1. mem.members[u] \in Seq(Record) /\ mem.members[u] # <<>>
    BY <1>1, StoreTypes DEF IsMember
  <2>2. QED
    BY <2>1
<1> HIDE DEF q
<1>3. /\ n \in Store /\ OrganizationKept(n, mem) /\ n.role = mem.role /\ n.active = mem.active
      /\ \A v \in Users \ {u} : n.members[v] = mem.members[v]
  BY <1>1, <1>2, StoreRecords
<1> HIDE DEF n
<1>4. ASSUME HasOwner, \A v \in Users : Len(mem.members[v]) <= 1 PROVE HasOwner'
  <2>1. PICK w \in Users : IsMember(w) /\ InForce(First(w))
    BY <1>4 DEF HasOwner
  <2>2. \A v \in Users \ {u} : IsMember(v) /\ InForce(First(v)) => HasOwner'
    BY <1>1, <1>3 DEF HasOwner, IsMember, First
  <2>3. CASE w # u
    BY <2>1, <2>2, <2>3
  <2>4. CASE w = u
    <3>1. ~(OwnerCount <= 1)
      BY <1>1, <2>1, <2>4 DEF LastOwner, InForce
    <3>2. QED
      BY <1>4, <2>2, <3>1, AnotherOwner
  <2>5. QED
    BY <2>3, <2>4
<1>5. MemoryChanges(u)
  BY <1>1, <1>2, <1>3, <1>4 DEF MemoryChanges
<1>6. QED
  BY <1>5, MemoryStep

\* authenticate makes a member.
LEMMA AssociateStep ==
  ASSUME TenancyInv, NEW u \in Users, Associate(u), stripped' = (stripped \/ Twice')
  PROVE  TenancyInv'
<1> DEFINE m == [role |-> mem.role[u], status |-> "Active"]
           q == <<m>>
           n == WithRecords(mem, u, q)
<1>1. /\ Admitted(u) /\ ~IsMember(u) /\ landing[u] = {} /\ mem' = n /\ landing' = [landing EXCEPT ![u] = {m}]
      /\ overlapped' = (overlapped \/ Busy # {}) /\ unsure' = (unsure \/ overlapped')
      /\ unsaved' = IF row.members[u] = <<>> THEN unsaved ELSE unsaved \cup {u}
      /\ row' = row /\ h' = h /\ missed' = missed /\ barred' = barred /\ faults' = faults /\ boots' = boots
      /\ arrivals' = arrivals
  BY DEF Associate, WithRecords
<1>2. /\ mem \in Store /\ row \in Store /\ h \in [Slots -> Handler] /\ landing \in [Users -> SUBSET Record]
      /\ unsaved \subseteq Users /\ barred \subseteq Users /\ {overlapped, missed, unsure, stripped} \subseteq BOOLEAN
      /\ faults \in 0..MaxFaults /\ boots \in 0..MaxBoots /\ arrivals \in 0..MaxArrivals
  BY DEF TenancyInv, TenancyTypeOK
<1>3. m \in Record
  BY <1>2, StoreTypes DEF Record
<1> HIDE DEF m
<1>4. q \in Seq(Record) /\ Len(q) = 1 /\ q[1] = m /\ q # <<>>
  BY <1>3
<1> HIDE DEF q
<1>5. /\ n \in Store /\ OrganizationKept(n, mem) /\ n.role = mem.role /\ n.active = mem.active
      /\ n.members[u] = q /\ \A v \in Users \ {u} : n.members[v] = mem.members[v]
  BY <1>2, <1>4, StoreRecords
<1> HIDE DEF n
<1>6. /\ landing' \in [Users -> SUBSET Record] /\ landing'[u] = {m}
      /\ \A v \in Users \ {u} : landing'[v] = landing[v]
  BY <1>1, <1>2, <1>3
<1>7. TenancyTypeOK'
  BY <1>1, <1>2, <1>5, <1>6 DEF TenancyTypeOK, Twice
<1>8. HandlerInv'
  <2>1. ASSUME NEW t \in Slots PROVE Carries(t)'
    BY <1>1, <1>5 DEF Carries, Awaits, TenancyInv, HandlerInv, OrganizationKept
  <2>2. QED
    BY <2>1 DEF HandlerInv
<1>9. ReferenceInv'
  <2>1. mem'.workspace /\ mem'.home = mem.home /\ mem.workspace
    BY <1>1, <1>5 DEF OrganizationKept, Admitted
  <2>2. \A v \in Users : landing'[v] = {} \/ \E x \in Record : landing'[v] = {x}
    BY <1>3, <1>6 DEF TenancyInv, ReferenceInv
  <2>3. QED
    BY <1>1, <2>1, <2>2 DEF TenancyInv, ReferenceInv
<1>10. ~overlapped' => ~overlapped /\ \A t \in Slots : h'[t].pc = "idle"
  BY <1>1 DEF Busy
<1>11. AloneInv'
  BY <1>10 DEF AloneInv, Busy
<1>12. TablesInv'
  <2>1. SUFFICES ASSUME ~overlapped', ~missed'
                 PROVE  OrganizationAgrees' /\ WorkspaceAgrees' /\ MembershipsAgree' /\ AccountsAgree' /\ MembersAgree'
    BY DEF TablesInv
  <2>2. /\ OrganizationAgrees /\ WorkspaceAgrees /\ MembershipsAgree /\ AccountsAgree /\ MembersAgree
    BY <1>1, <1>10, <2>1 DEF TenancyInv, TablesInv
  <2>3. OrganizationAgrees'
    BY <1>1, <1>5, <2>2 DEF OrganizationAgrees, Awaits, OrganizationKept
  <2>4. WorkspaceAgrees'
    BY <1>1, <1>5, <2>2 DEF WorkspaceAgrees, Awaits, OrganizationKept
  <2>5. MembershipsAgree'
    BY <1>1, <1>5, <2>2 DEF MembershipsAgree, Awaits, OrganizationKept
  <2>6. AccountsAgree'
    BY <1>1, <1>5, <2>2 DEF AccountsAgree, Of
  <2>7. MembersAgree'
    <3>1. u \notin unsaved' => row'.members[u] = <<>> /\ landing'[u] = {mem'.members[u][1]}
      BY <1>1, <1>4, <1>5, <1>6
    <3>2. landing'[u] # {}
      BY <1>6
    <3>3. unsaved \subseteq unsaved'
      BY <1>1
    <3>4. \A v \in Users \ {u} : mem'.members[v] = mem.members[v] /\ landing'[v] = landing[v]
      BY <1>1, <1>5, <1>6
    <3>5. row' = row /\ h' = h
      BY <1>1
    <3>6. \A v \in Users : mem'.members[v] # <<>> =>
             row'.members[v] # <<>> \/ landing'[v] # {} \/ (v = Founder /\ \E t \in Slots : Awaits(t, "owner")')
      BY <2>2, <3>2, <3>4, <3>5 DEF MembersAgree, Awaits
    <3>7. QED
      BY <2>2, <3>1, <3>3, <3>4, <3>5, <3>6 DEF MembersAgree, Of, Awaits
  <2>8. QED
    BY <2>3, <2>4, <2>5, <2>6, <2>7
<1>13. OwnerInv'
  <2>1. ASSUME ~stripped'
        PROVE  /\ \A v \in Users : Len(mem'.members[v]) <= 1
               /\ mem'.workspace /\ (\A t \in Slots : ~Awaits(t, "workspace")') => HasOwner'
    <3>1. \A v \in Users : Len(mem'.members[v]) <= 1
      <4>1. \A v \in Users : mem'.members[v] \in Seq(Record)
        BY <1>1, <1>5, StoreTypes
      <4>2. \A v \in Users : ~(Len(mem'.members[v]) > 1)
        BY <2>1 DEF Twice
      <4>3. QED
        BY <4>1, <4>2
    <3>2. HasOwner => HasOwner'
      BY <1>1, <1>5 DEF HasOwner, IsMember, First
    <3>3. mem.workspace /\ (\A t \in Slots : ~Awaits(t, "workspace")) => HasOwner
      BY <2>1 DEF TenancyInv, OwnerInv
    <3>4. QED
      BY <1>1, <1>5, <3>1, <3>2, <3>3 DEF Awaits, OrganizationKept
  <2>2. ASSUME ~unsure'
        PROVE  /\ ~overlapped' /\ ~missed'
               /\ \A v \in unsaved' : Len(row'.members[v]) >= 2 \/ (landing'[v] # {} /\ row'.members[v] # <<>>)
    <3>1. /\ ~overlapped' /\ ~missed
          /\ \A v \in unsaved : Len(row.members[v]) >= 2 \/ (landing[v] # {} /\ row.members[v] # <<>>)
      BY <1>1, <2>2 DEF TenancyInv, OwnerInv
    <3>2. ASSUME NEW v \in unsaved' PROVE Len(row'.members[v]) >= 2 \/ (landing'[v] # {} /\ row'.members[v] # <<>>)
      <4>1. CASE v = u
        BY <1>1, <1>6, <3>1, <3>2, <4>1
      <4>2. CASE v # u
        BY <1>1, <1>2, <1>6, <3>1, <3>2, <4>2
      <4>3. QED
        BY <4>1, <4>2
    <3>3. QED
      BY <1>1, <3>1, <3>2
  <2>3. QED
    BY <2>1, <2>2 DEF OwnerInv
<1>14. BarredInv'
  <2>1. SUFFICES ASSUME faults <= 1, NEW v \in barred
                 PROVE  /\ landing'[v] = {}
                        /\ \A t \in Slots : Of(t, v, {"member"}) => h[t].value # "Active" /\ h[t].rest # "open"
                        /\ ShutOut(v)' \/ SilentOut(v)'
    BY <1>1 DEF BarredInv, Of
  <2>2. /\ v \in Users /\ landing[v] = {} /\ (ShutOut(v) \/ SilentOut(v))
        /\ \A t \in Slots : Of(t, v, {"member"}) => h[t].value # "Active" /\ h[t].rest # "open"
    BY <1>2, <2>1 DEF TenancyInv, BarredInv
  <2>3. v # u
    BY <1>1, <2>2 DEF Admitted, ShutOut, SilentOut
  <2>4. ShutOut(v) => ShutOut(v)'
    BY <1>1, <1>5 DEF ShutOut, Of
  <2>5. SilentOut(v) => SilentOut(v)'
    BY <1>1, <1>5, <2>2, <2>3 DEF SilentOut, Busy, IsMember, First
  <2>6. QED
    BY <1>6, <2>2, <2>3, <2>4, <2>5
<1>15. ClosingInv'
  BY <1>10 DEF ClosingInv, Awaits
<1>16. QED
  BY <1>7, <1>8, <1>9, <1>11, <1>12, <1>13, <1>14, <1>15 DEF TenancyInv

\* Its INSERT is answered.
LEMMA LandedStep ==
  ASSUME TenancyInv, NEW u \in Users, Landed(u), stripped' = (stripped \/ Twice')
  PROVE  TenancyInv'
<1>1. PICK m \in landing[u] :
        /\ landing' = [landing EXCEPT ![u] = {}]
        /\ \/ /\ row' = IF row.workspace THEN WithRecords(row, u, Append(row.members[u], m)) ELSE row
              /\ faults' = faults /\ missed' = missed /\ unsure' = unsure
           \/ /\ faults < MaxFaults /\ faults' = faults + 1 /\ missed' = TRUE /\ unsure' = TRUE
              /\ row' = row
        /\ mem' = mem /\ h' = h /\ unsaved' = unsaved /\ overlapped' = overlapped /\ barred' = barred
        /\ boots' = boots /\ arrivals' = arrivals
  BY DEF Landed, WithRecords
<1>2. /\ mem \in Store /\ row \in Store /\ h \in [Slots -> Handler] /\ landing \in [Users -> SUBSET Record]
      /\ unsaved \subseteq Users /\ barred \subseteq Users /\ overlapped \in BOOLEAN /\ missed \in BOOLEAN
      /\ unsure \in BOOLEAN /\ stripped \in BOOLEAN
      /\ faults \in 0..MaxFaults /\ boots \in 0..MaxBoots /\ arrivals \in 0..MaxArrivals
  BY DEF TenancyInv, TenancyTypeOK
<1>3. m \in Record /\ landing[u] = {m} /\ mem.workspace
  BY <1>1, <1>2 DEF TenancyInv, ReferenceInv
<1> DEFINE q == Append(row.members[u], m)
           n == WithRecords(row, u, q)
<1>4. /\ q \in Seq(Record) /\ q # <<>> /\ Len(q) = Len(row.members[u]) + 1 /\ Len(row.members[u]) \in Nat
      /\ (row.members[u] = <<>> => q = <<m>>) /\ row.members[u] \in Seq(Record)
  <2>1. row.members[u] \in Seq(Record)
    BY <1>2, StoreTypes
  <2>2. QED
    BY <1>3, <2>1, AddedRecord
<1> HIDE DEF q
<1>5. /\ n \in Store /\ OrganizationKept(n, row) /\ n.role = row.role /\ n.active = row.active
      /\ n.members[u] = q /\ \A v \in Users \ {u} : n.members[v] = row.members[v]
  BY <1>2, <1>4, StoreRecords
<1>6. \/ row' = IF row.workspace THEN n ELSE row
      \/ row' = row
  BY <1>1 DEF q
<1>7. ~missed' => row' = IF row.workspace THEN n ELSE row
  BY <1>1 DEF q
<1> HIDE DEF n
<1>8. /\ row' \in Store /\ OrganizationKept(row', row) /\ row'.role = row.role /\ row'.active = row.active
      /\ \A v \in Users \ {u} : row'.members[v] = row.members[v]
      /\ row'.members[u] = row.members[u] \/ (row.workspace /\ row'.members[u] = q)
  BY <1>2, <1>5, <1>6 DEF OrganizationKept
<1>9. /\ landing' \in [Users -> SUBSET Record] /\ landing'[u] = {} /\ \A v \in Users \ {u} : landing'[v] = landing[v]
  BY <1>1, <1>2
<1>10. /\ faults' \in 0..MaxFaults /\ faults <= faults' /\ missed' \in BOOLEAN /\ (missed => missed')
       /\ missed' => faults' >= 1
       /\ unsure' \in BOOLEAN /\ (~unsure' => ~unsure /\ ~overlapped' /\ ~missed')
  <2>1. /\ faults \in Nat /\ MaxFaults \in Nat /\ faults <= MaxFaults
        /\ (missed => faults >= 1) /\ (~unsure => ~overlapped /\ ~missed)
    BY <1>2, TenancyBoundAssumption DEF TenancyInv, ReferenceInv, OwnerInv
  <2>2. CASE faults' = faults /\ missed' = missed /\ unsure' = unsure
    BY <1>1, <1>2, <2>1, <2>2
  <2>3. CASE faults < MaxFaults /\ faults' = faults + 1 /\ missed' = TRUE /\ unsure' = TRUE
    <3>1. faults' \in 0..MaxFaults /\ faults <= faults' /\ faults' >= 1
      BY <2>1, <2>3
    <3>2. QED
      BY <2>3, <3>1
  <2>4. QED
    BY <1>1, <2>2, <2>3
<1>11. TenancyTypeOK'
  BY <1>1, <1>2, <1>8, <1>9, <1>10 DEF TenancyTypeOK, Twice
<1>12. HandlerInv'
  <2>1. ASSUME NEW t \in Slots PROVE Carries(t)'
    BY <1>1, <1>8 DEF Carries, Awaits, TenancyInv, HandlerInv, OrganizationKept
  <2>2. QED
    BY <2>1 DEF HandlerInv
<1>13. ReferenceInv'
  <2>1. /\ row.tenant => row.org # "none"
        /\ row.workspace => row.tenant /\ mem.workspace
        /\ \A v \in Users : row.members[v] # <<>> => row.workspace
        /\ mem.home = row.home
        /\ \A v \in Users : landing[v] = {} \/ \E x \in Record : landing[v] = {x}
    BY DEF TenancyInv, ReferenceInv
  <2>2. \A v \in Users : row'.members[v] # <<>> => row.workspace
    BY <1>8, <2>1
  <2>3. \A v \in Users : landing'[v] = {} \/ \E x \in Record : landing'[v] = {x}
    BY <1>9, <2>1
  <2>4. QED
    BY <1>1, <1>3, <1>8, <1>10, <2>1, <2>2, <2>3 DEF ReferenceInv, OrganizationKept
<1>14. ~overlapped => \A t \in Slots : h[t].pc = "idle"
  BY <1>3 DEF TenancyInv, AloneInv, Busy
<1>15. AloneInv'
  BY <1>1, <1>14 DEF AloneInv, Busy
<1>16. ASSUME ~overlapped, ~missed PROVE row.workspace
  <2>1. WorkspaceAgrees
    BY <1>16 DEF TenancyInv, TablesInv
  <2>2. QED
    BY <1>3, <1>14, <1>16, <2>1 DEF WorkspaceAgrees, Awaits
<1>17. TablesInv'
  <2>1. SUFFICES ASSUME ~overlapped', ~missed'
                 PROVE  OrganizationAgrees' /\ WorkspaceAgrees' /\ MembershipsAgree' /\ AccountsAgree' /\ MembersAgree'
    BY DEF TablesInv
  <2>2. ~overlapped /\ ~missed
    BY <1>1, <1>10, <2>1
  <2>3. /\ OrganizationAgrees /\ WorkspaceAgrees /\ MembershipsAgree /\ AccountsAgree /\ MembersAgree
    BY <2>2 DEF TenancyInv, TablesInv
  <2>4. row'.members[u] = q
    BY <1>5, <1>7, <1>16, <2>1, <2>2
  <2>5. OrganizationAgrees'
    BY <1>1, <1>8, <2>3 DEF OrganizationAgrees, Awaits, OrganizationKept
  <2>6. WorkspaceAgrees'
    BY <1>1, <1>8, <2>3 DEF WorkspaceAgrees, Awaits, OrganizationKept
  <2>7. MembershipsAgree'
    BY <1>1, <1>8, <2>3 DEF MembershipsAgree, Awaits, OrganizationKept
  <2>8. AccountsAgree'
    BY <1>1, <1>8, <2>3 DEF AccountsAgree, Of
  <2>9. \A t \in Slots : h[t].pc = "idle"
    BY <1>14, <2>2
  <2>10. ASSUME u \notin unsaved, Len(mem.members[u]) = 1 PROVE mem.members[u] = row'.members[u]
    <3>1. \A t \in Slots : ~Awaits(t, "owner") /\ ~Of(t, u, {"member"})
      BY <2>9 DEF Awaits, Of
    <3>2. row.members[u] = <<>> /\ landing[u] = {mem.members[u][1]}
      BY <1>3, <2>3, <2>10, <3>1 DEF MembersAgree
    <3>3. mem.members[u] \in Seq(Record) /\ mem.members[u][1] = m /\ Len(mem.members[u]) = 1
      BY <1>2, <1>3, <2>10, <3>2, StoreTypes
    <3>4. mem.members[u] = <<m>>
      BY <3>3
    <3>5. QED
      BY <1>4, <2>4, <3>2, <3>4
  <2>11. MembersAgree'
    <3>1. \A t \in Slots, v \in Users : ~Awaits(t, "owner") /\ ~Of(t, v, {"member"}) /\ ~Awaits(t, "owner")' /\ ~(h'[t].pc = "member")
      BY <1>1, <2>9 DEF Awaits, Of
    <3>2. \A v \in Users \ {u} : row'.members[v] = row.members[v] /\ landing'[v] = landing[v]
      BY <1>8, <1>9
    <3>3. row'.members[u] # <<>> /\ landing'[u] = {}
      BY <1>4, <1>9, <2>4
    <3>4. \A v \in Users \ (unsaved \cup {u}) : Len(mem'.members[v]) = 1 =>
             \/ row'.members[v] = <<>> /\ landing'[v] = {mem'.members[v][1]}
             \/ mem'.members[v] = row'.members[v] /\ landing'[v] = {}
      BY <1>1, <2>3, <3>1, <3>2 DEF MembersAgree
    <3>5. \A v \in Users : mem'.members[v] # <<>> => row'.members[v] # <<>> \/ landing'[v] # {}
      BY <1>1, <2>3, <3>1, <3>2, <3>3 DEF MembersAgree
    <3>6. QED
      BY <1>1, <2>10, <3>1, <3>3, <3>4, <3>5 DEF MembersAgree, Of
  <2>12. QED
    BY <2>5, <2>6, <2>7, <2>8, <2>11
<1>18. OwnerInv'
  <2>1. HasOwner' <=> HasOwner
    BY <1>1 DEF HasOwner, IsMember, First
  <2>2. ASSUME ~unsure'
        PROVE  /\ ~overlapped' /\ ~missed'
               /\ \A v \in unsaved : Len(row'.members[v]) >= 2 \/ (landing'[v] # {} /\ row'.members[v] # <<>>)
    <3>1. ~unsure /\ ~overlapped' /\ ~missed'
      BY <1>10, <2>2
    <3>2. \A v \in unsaved : Len(row.members[v]) >= 2 \/ (landing[v] # {} /\ row.members[v] # <<>>)
      BY <3>1 DEF TenancyInv, OwnerInv
    <3>3. row'.members[u] = q
      BY <1>1, <1>5, <1>7, <1>10, <1>16, <3>1
    <3>4. u \in unsaved => Len(row'.members[u]) >= 2
      <4>1. u \in unsaved => Len(row.members[u]) >= 1
        BY <1>4, <3>2
      <4>2. QED
        BY <1>4, <3>3, <4>1
    <3>5. QED
      BY <1>2, <1>8, <1>9, <3>1, <3>2, <3>4
  <2>3. /\ ~stripped => \A v \in Users : Len(mem.members[v]) <= 1
        /\ ~stripped /\ mem.workspace /\ (\A t \in Slots : ~Awaits(t, "workspace")) => HasOwner
    BY DEF TenancyInv, OwnerInv
  <2>4. QED
    BY <1>1, <2>1, <2>2, <2>3 DEF OwnerInv, Awaits
<1>19. BarredInv'
  <2>1. SUFFICES ASSUME faults' <= 1, NEW v \in barred
                 PROVE  /\ landing'[v] = {}
                        /\ \A t \in Slots : Of(t, v, {"member"}) => h[t].value # "Active" /\ h[t].rest # "open"
                        /\ ShutOut(v)' \/ SilentOut(v)'
    BY <1>1 DEF BarredInv, Of
  <2>2. faults <= 1
    BY <1>2, <1>10, <2>1, TenancyBoundAssumption
  <2>3. /\ v \in Users /\ landing[v] = {} /\ (ShutOut(v) \/ SilentOut(v))
        /\ \A t \in Slots : Of(t, v, {"member"}) => h[t].value # "Active" /\ h[t].rest # "open"
    BY <1>2, <2>1, <2>2 DEF TenancyInv, BarredInv
  <2>4. v # u
    BY <1>3, <2>3
  <2>5. ShutOut(v) => ShutOut(v)'
    BY <1>1, <1>8 DEF ShutOut, Of
  <2>6. SilentOut(v) => SilentOut(v)'
    BY <1>1, <1>8, <2>3, <2>4 DEF SilentOut, Busy, IsMember, First
  <2>7. QED
    BY <1>9, <2>3, <2>4, <2>5, <2>6
<1>20. ClosingInv'
  BY <1>1, <1>14 DEF ClosingInv, Awaits
<1>21. QED
  BY <1>11, <1>12, <1>13, <1>15, <1>17, <1>18, <1>19, <1>20 DEF TenancyInv

-----------------------------------------------------------------------------
(* The process ends and starts again *)

\* The records of a member come back in some order.
LEMMA OrderFacts ==
  ASSUME NEW q \in Seq(Record), NEW o \in Orders(q)
  PROVE  /\ o \in Seq(Record) /\ Len(o) = Len(q) /\ (Silent(q) => Silent(o)) /\ (Len(q) = 1 => o = q)
<1>1. PICK p \in Bijection(DOMAIN q, DOMAIN q) : o = [i \in DOMAIN q |-> q[p[i]]]
  BY DEF Orders
<1>2. DOMAIN q = 1..Len(q) /\ Len(q) \in Nat
  OBVIOUS
<1>3. \A i \in 1..Len(q) : p[i] \in 1..Len(q)
  BY <1>1, <1>2 DEF Bijection, Injection
<1>4. o = [i \in 1..Len(q) |-> q[p[i]]]
  BY <1>1, <1>2
<1>5. \A i \in 1..Len(q) : q[p[i]] \in Record
  BY <1>3
<1>6. o \in Seq(Record) /\ Len(o) = Len(q)
  BY <1>2, <1>4, <1>5
<1>7. Silent(q) => Silent(o)
  BY <1>2, <1>3, <1>4 DEF Silent
<1>8. ASSUME Len(q) = 1 PROVE o = q
  <2>1. p[1] = 1 /\ o[1] = q[1]
    BY <1>3, <1>4, <1>8
  <2>2. QED
    BY <1>6, <1>8, <2>1
<1>9. QED
  BY <1>6, <1>7, <1>8

\* The process starts and loads memory from the tables.
LEMMA BootStep ==
  ASSUME TenancyInv, Boot, stripped' = (stripped \/ Twice' \/ unsure')
  PROVE  TenancyInv'
<1>1. /\ mem \in Store /\ row \in Store /\ h \in [Slots -> Handler] /\ landing \in [Users -> SUBSET Record]
      /\ unsaved \subseteq Users /\ barred \subseteq Users /\ unsure \in BOOLEAN /\ stripped \in BOOLEAN
      /\ faults \in 0..MaxFaults /\ boots \in 0..MaxBoots /\ arrivals \in 0..MaxArrivals
  BY DEF TenancyInv, TenancyTypeOK
<1>2. /\ h' = [s \in Slots |-> NoRequest] /\ landing' = [u \in Users |-> {}]
      /\ unsaved' = {} /\ overlapped' = FALSE /\ missed' = FALSE
      /\ unsure' = (unsure \/ Busy # {} \/ \E u \in Users : landing[u] # {})
      /\ barred' = barred /\ faults' = faults /\ arrivals' = arrivals /\ boots < MaxBoots /\ boots' = boots + 1
  BY DEF Boot
<1>3. PICK D \in SUBSET (Unlinked \ Obstacles) : row' = WithMemberships(row, Linked(D))
  BY DEF Boot, WithMemberships
<1>4. PICK m \in [Users -> UNION {Orders(row.members[u]) : u \in Users}] :
         /\ \A u \in Users : m[u] \in Orders(row.members[u])
         /\ mem' = [row' EXCEPT !.members = m]
  BY DEF Boot
<1>5. Linked(D) \in [Users -> [Ids -> OrgStatuses]]
  <2>1. row.joined \in [Users -> [Ids -> OrgStatuses]] /\ "Active" \in OrgStatuses
    BY <1>1, StoreTypes DEF OrgStatuses
  <2>2. QED
    BY <2>1 DEF Linked
<1> DEFINE f == Linked(D)
           n == WithMemberships(row, f)
<1> HIDE DEF f
<1>6. /\ n \in Store /\ PeopleKept(n, row) /\ n.joined = f
      /\ n.org = row.org /\ n.tenant = row.tenant /\ n.workspace = row.workspace /\ n.home = row.home
  BY <1>1, <1>5, StoreMemberships DEF f
<1>7. row' = n
  BY <1>3 DEF f
<1> HIDE DEF n
<1>8. \A u \in Users : /\ m[u] \in Seq(Record) /\ row.members[u] \in Seq(Record) /\ Len(m[u]) = Len(row.members[u])
                       /\ (Silent(row.members[u]) => Silent(m[u])) /\ (Len(m[u]) = 1 => m[u] = row.members[u])
  <2>1. \A u \in Users : row.members[u] \in Seq(Record)
    BY <1>1, StoreTypes
  <2>2. QED
    BY <1>4, <2>1, OrderFacts
<1>9. m \in [Users -> Seq(Record)]
  BY <1>4, <1>8
<1>10. /\ mem' \in Store /\ mem'.members = m /\ OrganizationKept(mem', row') /\ mem'.role = row'.role
       /\ mem'.active = row'.active
  BY <1>4, <1>6, <1>7, <1>9 DEF Store, OrganizationKept
<1>11. /\ row' \in Store /\ row'.members = row.members /\ row'.role = row.role /\ row'.active = row.active
       /\ row'.org = row.org /\ row'.tenant = row.tenant /\ row'.workspace = row.workspace /\ row'.home = row.home
  BY <1>6, <1>7 DEF PeopleKept
<1>12. /\ h' \in [Slots -> Handler] /\ (\A t \in Slots : h'[t] = NoRequest /\ h'[t].pc = "idle")
       /\ landing' \in [Users -> SUBSET Record] /\ \A u \in Users : landing'[u] = {}
  <2>1. NoRequest \in Handler /\ NoRequest.pc = "idle"
    BY FounderAssumption DEF NoRequest, Handler, Ids
  <2>2. QED
    BY <1>2, <2>1
<1>13. boots' \in 0..MaxBoots
  BY <1>1, <1>2, TenancyBoundAssumption
<1>14. unsure' \in BOOLEAN
  BY <1>2
<1>15. TenancyTypeOK'
  BY <1>1, <1>2, <1>10, <1>11, <1>12, <1>13, <1>14 DEF TenancyTypeOK, Twice
<1>16. HandlerInv'
  BY <1>12 DEF HandlerInv, Carries, Awaits, NoRequest
<1>17. ReferenceInv'
  BY <1>2, <1>10, <1>11, <1>12 DEF TenancyInv, ReferenceInv, OrganizationKept
<1>18. AloneInv' /\ ClosingInv'
  BY <1>12 DEF AloneInv, ClosingInv, Busy, Awaits
<1>19. TablesInv'
  <2>1. OrganizationAgrees'
    BY <1>10, <1>12 DEF OrganizationAgrees, Awaits, OrganizationKept
  <2>2. WorkspaceAgrees'
    BY <1>10, <1>12 DEF WorkspaceAgrees, Awaits, OrganizationKept
  <2>3. MembershipsAgree'
    BY <1>10, <1>12 DEF MembershipsAgree, Awaits, OrganizationKept
  <2>4. AccountsAgree'
    BY <1>10, <1>12 DEF AccountsAgree, Of
  <2>5. MembersAgree'
    <3>1. \A u \in Users : Len(mem'.members[u]) = 1 => mem'.members[u] = row'.members[u]
      BY <1>8, <1>10, <1>11
    <3>2. \A u \in Users : mem'.members[u] # <<>> => row'.members[u] # <<>>
      <4>1. ASSUME NEW u \in Users, m[u] # <<>> PROVE row.members[u] # <<>>
        <5>1. Len(m[u]) # 0
          BY <1>8, <4>1
        <5>2. QED
          BY <1>8, <5>1
      <4>2. QED
        BY <1>10, <1>11, <4>1
    <3>3. QED
      BY <1>12, <3>1, <3>2 DEF MembersAgree, Of, Awaits
  <2>6. QED
    BY <2>1, <2>2, <2>3, <2>4, <2>5 DEF TablesInv
<1>20. OwnerInv'
  <2>1. ASSUME ~stripped'
        PROVE  /\ \A u \in Users : Len(mem'.members[u]) <= 1
               /\ mem'.workspace => HasOwner'
    <3>1. \A u \in Users : Len(m[u]) <= 1
      <4>1. \A u \in Users : Len(m[u]) \in Nat
        BY <1>8
      <4>2. \A u \in Users : ~(Len(m[u]) > 1)
        BY <1>10, <2>1 DEF Twice
      <4>3. QED
        BY <4>1, <4>2
    <3>2. /\ ~unsure /\ ~stripped /\ (\A t \in Slots : h[t].pc = "idle") /\ \A u \in Users : landing[u] = {}
      BY <1>2, <2>1 DEF Busy
    <3>3. /\ ~overlapped /\ ~missed /\ \A u \in unsaved : Len(row.members[u]) >= 2
          /\ \A u \in Users : Len(mem.members[u]) <= 1
          /\ mem.workspace => HasOwner
      BY <1>1, <3>2 DEF TenancyInv, OwnerInv, Awaits
    <3>4. QuietAgree
      <4>1. \A t \in Slots : h[t] = NoRequest
        BY <3>2 DEF TenancyInv, HandlerInv, Carries, Awaits
      <4>2. QED
        BY <3>2, <3>3, <4>1, QuietTables
    <3>5. ASSUME mem'.workspace PROVE HasOwner'
      <4>1. HasOwner
        BY <1>10, <1>11, <3>3, <3>5 DEF TenancyInv, ReferenceInv, OrganizationKept
      <4>2. PICK w \in Users : IsMember(w) /\ InForce(First(w))
        BY <4>1 DEF HasOwner
      <4>3. Len(mem.members[w]) = 1
        <5>1. mem.members[w] \in Seq(Record) /\ mem.members[w] # <<>> /\ Len(mem.members[w]) <= 1
          BY <1>1, <3>3, <4>2, StoreTypes DEF IsMember
        <5>2. Len(mem.members[w]) \in Nat /\ Len(mem.members[w]) # 0
          BY <5>1
        <5>3. \A k \in Nat : k # 0 /\ k <= 1 => k = 1
          OBVIOUS
        <5>4. QED
          BY <5>1, <5>2, <5>3, Zenon
      <4>4. w \notin unsaved
        <5>1. Len(m[w]) = Len(row.members[w]) /\ Len(m[w]) <= 1 /\ Len(m[w]) \in Nat
          BY <1>8, <3>1
        <5>2. QED
          BY <3>3, <5>1
      <4>5. mem.members[w] = row.members[w]
        BY <3>4, <4>3, <4>4 DEF QuietAgree
      <4>6. mem'.members[w] = mem.members[w]
        BY <1>8, <1>10, <4>3, <4>5
      <4>7. QED
        BY <4>2, <4>6 DEF HasOwner, IsMember, First
    <3>6. QED
      BY <1>10, <3>1, <3>5
  <2>2. QED
    BY <1>2, <2>1 DEF OwnerInv
<1>21. BarredInv'
  <2>1. SUFFICES ASSUME faults <= 1, NEW v \in barred PROVE ShutOut(v)' \/ SilentOut(v)'
    BY <1>1, <1>2, <1>12 DEF BarredInv, Of
  <2>2. v \in Users /\ (ShutOut(v) \/ SilentOut(v))
    BY <1>1, <2>1 DEF TenancyInv, BarredInv
  <2>3. ASSUME ShutOut(v) PROVE ShutOut(v)'
    BY <1>10, <1>11, <1>12, <2>3 DEF ShutOut, Of
  <2>4. ASSUME SilentOut(v) PROVE SilentOut(v)'
    <3>1. row.members[v] # <<>> /\ Silent(row.members[v])
      BY <2>4 DEF SilentOut
    <3>2. /\ m[v] \in Seq(Record) /\ row.members[v] \in Seq(Record) /\ Len(m[v]) = Len(row.members[v])
          /\ Silent(m[v])
      BY <1>8, <2>2, <3>1
    <3>3. m[v] # <<>> /\ Head(m[v]) = m[v][1] /\ 1 \in DOMAIN m[v]
      BY <3>1, <3>2
    <3>4. Head(m[v]).status # "Active"
      BY <3>2, <3>3 DEF Silent
    <3>5. QED
      BY <1>10, <1>11, <1>12, <3>1, <3>3, <3>4 DEF SilentOut, IsMember, First, Busy
  <2>5. QED
    BY <2>2, <2>3, <2>4
<1>22. QED
  BY <1>15, <1>16, <1>17, <1>18, <1>19, <1>20, <1>21 DEF TenancyInv

-----------------------------------------------------------------------------
(* The invariant *)

\* Before there is an organization.
LEMMA EmptyFacts ==
  /\ Empty \in Store /\ Empty.tenant = FALSE /\ Empty.workspace = FALSE
  /\ \A u \in Users : Empty.members[u] = <<>>
<1>1. Nowhere \in [Ids -> OrgStatuses] /\ "none" \in OrgStatuses /\ "Member" \in Roles
  BY DEF Nowhere, OrgStatuses, Roles
<1>2. QED
  BY <1>1 DEF Empty, Store

\* The organization a while later.
LEMMA SettledFacts ==
  /\ Settled \in Store /\ Settled.org = "Active" /\ Settled.tenant = TRUE /\ Settled.workspace = TRUE
  /\ \A u \in Users : Len(Settled.members[u]) = 1
  /\ Settled.members[Founder] = <<OwnerRecord>>
<1> DEFINE f == [u \in Users |-> IF u = Founder THEN [Nowhere EXCEPT !["granted"] = "Active"]
                                 ELSE [Nowhere EXCEPT !["linked"] = "Active"]]
           x(u) == [role |-> IF u = Founder THEN "Owner" ELSE "Member", status |-> "Active"]
           g == [u \in Users |-> <<x(u)>>]
           k == [u \in Users |-> TRUE]
<1>1. f \in [Users -> [Ids -> OrgStatuses]]
  <2>1. Nowhere \in [Ids -> OrgStatuses] /\ "Active" \in OrgStatuses
    BY DEF Nowhere, OrgStatuses
  <2>2. QED
    BY <2>1
<1>2. g \in [Users -> Seq(Record)] /\ (\A u \in Users : Len(g[u]) = 1) /\ g[Founder] = <<OwnerRecord>>
  <2>1. \A u \in Users : x(u) \in Record
    BY DEF Record, Roles
  <2>2. x(Founder) = OwnerRecord
    BY DEF OwnerRecord
  <2> HIDE DEF x
  <2>3. \A u \in Users : g[u] = <<x(u)>> /\ <<x(u)>> \in Seq(Record) /\ Len(<<x(u)>>) = 1
    BY <2>1
  <2>4. QED
    BY <2>2, <2>3, FounderAssumption
<1>3. k \in [Users -> BOOLEAN]
  OBVIOUS
<1>4. Settled = [Empty EXCEPT !.org = "Active", !.tenant = TRUE, !.workspace = TRUE, !.joined = f,
                              !.members = g, !.home = k]
  BY DEF Settled
<1> HIDE DEF f, g, k
<1>5. Empty \in Store /\ "Active" \in OrgStatuses
  BY EmptyFacts DEF OrgStatuses
<1>6. /\ Settled \in Store /\ Settled.org = "Active" /\ Settled.tenant = TRUE /\ Settled.workspace = TRUE
      /\ Settled.members = g
  BY <1>1, <1>2, <1>3, <1>4, <1>5 DEF Store
<1>7. QED
  BY <1>2, <1>6

\* A process that has just started satisfies the invariant.
LEMMA TenancyInitInv ==
  ASSUME TenancyInit
  PROVE  TenancyInv
<1>1. /\ mem \in {Empty, Settled} /\ row = mem
      /\ h = [s \in Slots |-> NoRequest] /\ landing = [u \in Users |-> {}]
      /\ unsaved = {} /\ barred = {} /\ overlapped = FALSE /\ missed = FALSE /\ unsure = FALSE /\ stripped = FALSE
      /\ faults = 0 /\ boots = 0 /\ arrivals = 0
  BY DEF TenancyInit
<1>2. mem \in Store
  BY <1>1, EmptyFacts, SettledFacts
<1>3. /\ h \in [Slots -> Handler] /\ (\A t \in Slots : h[t] = NoRequest /\ h[t].pc = "idle")
      /\ landing \in [Users -> SUBSET Record] /\ \A u \in Users : landing[u] = {}
  <2>1. NoRequest \in Handler /\ NoRequest.pc = "idle"
    BY FounderAssumption DEF NoRequest, Handler, Ids
  <2>2. QED
    BY <1>1, <2>1
<1>4. 0 \in 0..MaxFaults /\ 0 \in 0..MaxBoots /\ 0 \in 0..MaxArrivals
  BY TenancyBoundAssumption
<1>5. TenancyTypeOK
  BY <1>1, <1>2, <1>3, <1>4 DEF TenancyTypeOK
<1>6. HandlerInv
  BY <1>3 DEF HandlerInv, Carries, Awaits, NoRequest
<1>7. /\ mem.tenant => mem.org # "none"
      /\ mem.workspace => mem.tenant
      /\ \A u \in Users : mem.members[u] # <<>> => mem.workspace
  <2>1. CASE mem = Empty
    BY <2>1, EmptyFacts
  <2>2. CASE mem = Settled
    BY <2>2, SettledFacts
  <2>3. QED
    BY <1>1, <2>1, <2>2
<1>8. ReferenceInv
  BY <1>1, <1>3, <1>7 DEF ReferenceInv
<1>9. AloneInv /\ ClosingInv /\ BarredInv
  BY <1>1, <1>3 DEF AloneInv, ClosingInv, BarredInv, Busy, Awaits
<1>10. TablesInv
  BY <1>1, <1>3 DEF TablesInv, OrganizationAgrees, WorkspaceAgrees, MembershipsAgree, AccountsAgree,
     MembersAgree, Awaits, Of
<1>11. OwnerInv
  <2>1. (\A u \in Users : Len(mem.members[u]) <= 1) /\ (mem.workspace => HasOwner)
    <3>1. CASE mem = Empty
      <4>1. \A u \in Users : Len(mem.members[u]) = 0
        BY <3>1, EmptyFacts
      <4>2. QED
        BY <3>1, <4>1, EmptyFacts
    <3>2. CASE mem = Settled
      <4>1. (\A u \in Users : Len(mem.members[u]) = 1) /\ mem.members[Founder] = <<OwnerRecord>>
        BY <3>2, SettledFacts
      <4>2. mem.members[Founder] # <<>> /\ Head(mem.members[Founder]) = OwnerRecord
        BY <4>1
      <4>3. InForce(OwnerRecord)
        BY DEF InForce, OwnerRecord
      <4>4. HasOwner
        BY <4>2, <4>3, FounderAssumption DEF HasOwner, IsMember, First
      <4>5. \A k : k = 1 => k <= 1
        OBVIOUS
      <4>6. \A u \in Users : Len(mem.members[u]) <= 1
        BY <4>1, <4>5, Zenon
      <4>7. QED
        BY <4>4, <4>6
    <3>3. QED
      BY <1>1, <3>1, <3>2
  <2>2. QED
    BY <1>1, <2>1 DEF OwnerInv
<1>12. QED
  BY <1>5, <1>6, <1>8, <1>9, <1>10, <1>11 DEF TenancyInv

\* Every step of a request, a statement, the administration or a boot keeps it.
LEMMA TenancyNextInv ==
  ASSUME TenancyInv, [TenancyNext]_tenancyVars
  PROVE  TenancyInv'
<1>1. CASE UNCHANGED tenancyVars
  <2>1. /\ mem' = mem /\ row' = row /\ h' = h /\ landing' = landing /\ unsaved' = unsaved /\ overlapped' = overlapped
        /\ missed' = missed /\ unsure' = unsure /\ barred' = barred /\ stripped' = stripped /\ faults' = faults
        /\ boots' = boots /\ arrivals' = arrivals
    BY <1>1 DEF tenancyVars, history
  <2>2. TenancyTypeOK' /\ HandlerInv' /\ ReferenceInv' /\ AloneInv'
    BY <2>1 DEF TenancyInv, TenancyTypeOK, HandlerInv, Carries, Awaits, ReferenceInv, AloneInv, Busy
  <2>3. TablesInv'
    BY <2>1 DEF TenancyInv, TablesInv, OrganizationAgrees, WorkspaceAgrees, MembershipsAgree, AccountsAgree,
       MembersAgree, Awaits, Of
  <2>4. OwnerInv' /\ BarredInv' /\ ClosingInv'
    BY <2>1 DEF TenancyInv, OwnerInv, BarredInv, ClosingInv, HasOwner, ShutOut, SilentOut, Busy, IsMember, First, Awaits, Of
  <2>5. QED
    BY <2>2, <2>3, <2>4 DEF TenancyInv
<1>2. CASE Workspace /\ stripped' = (stripped \/ Twice')
  BY <1>2, AssociateStep, LandedStep, RemoveMemberStep, SetRoleStep DEF Workspace
<1>3. ASSUME NEW s \in Slots, Organization(s), stripped' = (stripped \/ Twice') PROVE TenancyInv'
  BY <1>3, CreateStep, UpdateOrganizationStep, AskStep, AssignStep DEF Organization
<1>4. ASSUME NEW s \in Slots, Statement(s), stripped' = (stripped \/ Twice') PROVE TenancyInv'
  BY <1>4, OrganizationRowStep, TenantRowStep, MembershipRowStep, WorkspaceRowStep, OwnerRowStep, AnswerStep,
     SwitchRowStep, RemoveRowStep, MemberRowStep, UserRowStep, CloseRowStep, PurgeRowStep DEF Statement
<1>5. ASSUME NEW s \in Slots, Administration(s), stripped' = (stripped \/ ~HasOwner') PROVE TenancyInv'
  BY <1>5, UpdateStatusStep, UpdateRoleStep, EditUserStep, DeleteUserStep DEF Administration
<1>6. CASE (Reboot \/ Abort) /\ stripped' = (stripped \/ Twice' \/ unsure')
  BY <1>6, BootStep DEF Reboot, Abort
<1>7. QED
  BY <1>1, <1>2, <1>3, <1>4, <1>5, <1>6 DEF TenancyNext

\* Whatever is requested, answered, refused or restarted, the model stays in the
\* states its invariant describes.
THEOREM TenancyInvariant == TenancySpec => []TenancyInv
<1>1. TenancyInv /\ UNCHANGED tenancyVars => TenancyInv'
  BY TenancyNextInv
<1>2. QED
  BY TenancyInitInv, TenancyNextInv, PTL DEF TenancySpec

\* The tables of the organization, its people and its handlers have their types.
THEOREM TenancyTypes == TenancySpec => []TenancyTypeOK
<1>1. TenancyInv => TenancyTypeOK
  BY DEF TenancyInv
<1>2. QED
  BY <1>1, TenancyInvariant, PTL

\* With requests one at a time and no failing statement, memory and the tables
\* of organizations.ts, workspaces.ts and admin.ts agree (TablesAgree).
THEOREM MemoryIsWritten == TenancySpec => []TablesAgree
<1>1. TenancyInv => TablesAgree
  <2>1. SUFFICES ASSUME TenancyInv, Quiet, ~overlapped, ~missed
        PROVE  /\ mem.org = row.org /\ mem.home = row.home
               /\ \A u \in Users : (\E i \in Ids : mem.joined[u][i] = "none") => mem.joined[u] = row.joined[u]
               /\ \A u \in Users \ unsaved :
                    /\ mem.role[u] = row.role[u] /\ mem.active[u] = row.active[u]
                    /\ Len(mem.members[u]) = 1 => mem.members[u] = row.members[u]
    BY DEF TablesAgree
  <2>2. (\A t \in Slots : h[t] = NoRequest) /\ \A u \in Users : landing[u] = {}
    BY <2>1 DEF Quiet, Busy, TenancyInv, HandlerInv, Carries, Awaits
  <2>3. QuietAgree
    BY <2>1, <2>2, QuietTables
  <2>4. ASSUME NEW u \in Users, \E i \in Ids : mem.joined[u][i] = "none" PROVE mem.joined[u] = row.joined[u]
    <3>1. mem.joined[u] \in [Ids -> OrgStatuses] /\ row.joined[u] \in [Ids -> OrgStatuses]
      BY <2>1, StoreTypes DEF TenancyInv, TenancyTypeOK
    <3>2. \A i \in Ids : mem.joined[u][i] = row.joined[u][i]
      BY <2>3, <2>4 DEF QuietAgree
    <3>3. QED
      BY <3>1, <3>2
  <2>5. mem.home = row.home
    BY <2>1 DEF TenancyInv, ReferenceInv
  <2>6. QED
    BY <2>3, <2>4, <2>5 DEF QuietAgree
<1>2. QED
  BY <1>1, TenancyInvariant, PTL

\* A workspace keeps an acting owner, unless the administration took the last one,
\* somebody had two records, or a restart found tables that lag (OwnerKept).
THEOREM WorkspaceHasOwner == TenancySpec => []OwnerKept
<1>1. TenancyInv => OwnerKept
  <2>1. SUFFICES ASSUME TenancyInv, mem.workspace, ~Creating, ~stripped PROVE HasOwner
    BY DEF OwnerKept
  <2>2. \A s \in Slots : ~Awaits(s, "workspace")
    BY <2>1 DEF TenancyInv, HandlerInv, Carries, Awaits, Creating, Busy
  <2>3. QED
    BY <2>1, <2>2 DEF TenancyInv, OwnerInv
<1>2. QED
  BY <1>1, TenancyInvariant, PTL

\* A member suspended or deleted by admin.ts stays out of the workspace, across
\* restarts too, when at most one statement has failed (LockedOut).
THEOREM BarredStayOut == TenancySpec => []LockedOut
<1>1. TenancyInv => LockedOut
  <2>1. SUFFICES ASSUME TenancyInv, faults <= 1, NEW u \in barred, Admitted(u), IsMember(u) => First(u).status = "Active"
                 PROVE  FALSE
    BY DEF LockedOut
  <2>2. ShutOut(u) \/ SilentOut(u)
    BY <2>1 DEF TenancyInv, BarredInv
  <2>3. QED
    BY <2>1, <2>2 DEF ShutOut, SilentOut, Admitted
<1>2. QED
  BY <1>1, TenancyInvariant, PTL

=============================================================================
