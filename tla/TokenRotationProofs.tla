------------------------ MODULE TokenRotationProofs ------------------------
(***************************************************************************)
(* Proofs about TokenRotation, for any set of tabs and any bounds.  Inv is *)
(* inductive: AgeInv orders the tokens, RotationInv keeps the token of the *)
(* rotation in progress out of everybody's hands, DurableInv and ForkInv   *)
(* follow a token from the row to the answers.  With HeldInv, a tab that   *)
(* is refused asked with an old token: the last one is held, or on its     *)
(* way.                                                                    *)
(***************************************************************************)
EXTENDS TokenRotation, TLAPS

\* The initial state: one token, held by every tab.
LEMMA InitInv == Init => Inv
<1> SUFFICES ASSUME Init PROVE Inv
  OBVIOUS
<1> USE TokenAssumption, BoundAssumption
<1>1. TypeOK
  BY DEF Init, TypeOK, Tokens, MaybeToken, Requests, Idle
<1>2. RequestInv /\ AgeInv
  BY DEF Init, RequestInv, AgeInv, HandedOutUpTo, SentUpTo, At, Idle, Tokens
<1>3. RotationInv
  BY DEF Init, RotationInv, OneRotation, Rotating, Idle
<1>4. DurableInv /\ ForkInv
  BY DEF Init, DurableInv, ForkInv, NoFork, HandedOutUpTo, At, Rotating, Idle, Tokens
<1> QED
  BY <1>1, <1>2, <1>3, <1>4 DEF Inv

\* What Becomes does to the requests.
LEMMA BecomesValue ==
    ASSUME request \in [Tabs -> Requests], NEW t \in Tabs, NEW pc, NEW new, Becomes(t, pc, new)
    PROVE  request' = [u \in Tabs |-> IF u = t
                                      THEN [pc |-> pc, old |-> request[t].old, new |-> new]
                                      ELSE request[u]]
<1> QED
  BY DEF Becomes

\* A refresh leaves with the token of its tab.
LEMMA SendStep ==
    ASSUME Inv, NEW t \in Tabs, Send(t)
    PROVE  Inv'
<1> USE TokenAssumption, BoundAssumption DEF Inv, Send, serverVars, browserVars, boundVars
<1>1. TypeOK'
  BY DEF TypeOK, Requests, Idle, At, RequestInv, Tokens, MaybeToken
<1>2. RequestInv'
  BY DEF TypeOK, RequestInv, AgeInv, Requests, Idle, At, Tokens, MaybeToken
<1>3. AgeInv'
  BY DEF TypeOK, RequestInv, AgeInv, HandedOutUpTo, SentUpTo, Requests, Idle, At, Tokens, MaybeToken
<1>4. RotationInv'
  BY DEF TypeOK, RequestInv, AgeInv, RotationInv, OneRotation, Rotating, HandedOutUpTo, SentUpTo,
         Requests, Idle, At, Tokens, MaybeToken
<1>5. DurableInv'
  BY DEF TypeOK, RequestInv, AgeInv, RotationInv, DurableInv, Rotating, HandedOutUpTo,
         Requests, Idle, At, Tokens, MaybeToken
<1>6. ForkInv'
  BY DEF TypeOK, RequestInv, AgeInv, DurableInv, ForkInv, NoFork, Rotating, HandedOutUpTo,
         Requests, Idle, At, Tokens, MaybeToken
<1> QED
  BY <1>1, <1>2, <1>3, <1>4, <1>5, <1>6

\* The new token is stored: it was in the answer before.
LEMMA GrantedStep ==
    ASSUME Inv, NEW t \in Tabs, Granted(t)
    PROVE  Inv'
<1> USE TokenAssumption, BoundAssumption DEF Inv, Granted, serverVars, boundVars
<1>1. TypeOK'
  BY DEF TypeOK, Requests, Idle, At, RequestInv, Tokens, MaybeToken
<1>2. RequestInv'
  BY DEF TypeOK, RequestInv, AgeInv, Requests, Idle, At, Tokens, MaybeToken
<1>3. AgeInv'
  BY DEF TypeOK, RequestInv, AgeInv, HandedOutUpTo, SentUpTo, Requests, Idle, At, Tokens, MaybeToken
<1>4. RotationInv'
  BY DEF TypeOK, RequestInv, AgeInv, RotationInv, OneRotation, Rotating, HandedOutUpTo, SentUpTo,
         Requests, Idle, At, Tokens, MaybeToken
<1>5. DurableInv'
  BY DEF TypeOK, RequestInv, AgeInv, RotationInv, DurableInv, Rotating, HandedOutUpTo,
         Requests, Idle, At, Tokens, MaybeToken
<1>6. ForkInv'
  BY DEF TypeOK, RequestInv, AgeInv, DurableInv, ForkInv, NoFork, Rotating, HandedOutUpTo,
         Requests, Idle, At, Tokens, MaybeToken
<1> QED
  BY <1>1, <1>2, <1>3, <1>4, <1>5, <1>6

\* A tab clears: fewer tokens are held.
LEMMA RejectedStep ==
    ASSUME Inv, NEW t \in Tabs, Rejected(t)
    PROVE  Inv'
<1> USE TokenAssumption, BoundAssumption DEF Inv, Rejected, serverVars, boundVars
<1>1. TypeOK'
  BY DEF TypeOK, Requests, Idle, At, RequestInv, Tokens, MaybeToken
<1>2. RequestInv'
  BY DEF TypeOK, RequestInv, AgeInv, Requests, Idle, At, Tokens, MaybeToken
<1>3. AgeInv'
  BY DEF TypeOK, RequestInv, AgeInv, HandedOutUpTo, SentUpTo, Requests, Idle, At, Tokens, MaybeToken
<1>4. RotationInv'
  BY DEF TypeOK, RequestInv, AgeInv, RotationInv, OneRotation, Rotating, HandedOutUpTo, SentUpTo,
         Requests, Idle, At, Tokens, MaybeToken
<1>5. DurableInv'
  BY DEF TypeOK, RequestInv, AgeInv, RotationInv, DurableInv, Rotating, HandedOutUpTo,
         Requests, Idle, At, Tokens, MaybeToken
<1>6. ForkInv'
  BY DEF TypeOK, RequestInv, AgeInv, DurableInv, ForkInv, NoFork, Rotating, HandedOutUpTo,
         Requests, Idle, At, Tokens, MaybeToken
<1> QED
  BY <1>1, <1>2, <1>3, <1>4, <1>5, <1>6

\* A tab signs out; the session may be gone.
LEMMA SignOutStep ==
    ASSUME Inv, NEW t \in Tabs, SignOut(t)
    PROVE  Inv'
<1> USE TokenAssumption, BoundAssumption DEF Inv, SignOut
<1>1. TypeOK'
  BY DEF TypeOK, Requests, Idle, At, RequestInv, Tokens, MaybeToken
<1>2. RequestInv'
  BY DEF TypeOK, RequestInv, AgeInv, Requests, Idle, At, Tokens, MaybeToken
<1>3. AgeInv'
  BY DEF TypeOK, RequestInv, AgeInv, HandedOutUpTo, SentUpTo, Requests, Idle, At, Tokens, MaybeToken
<1>4. RotationInv'
  BY DEF TypeOK, RequestInv, AgeInv, RotationInv, OneRotation, Rotating, HandedOutUpTo, SentUpTo,
         Requests, Idle, At, Tokens, MaybeToken
<1>5. DurableInv'
  BY DEF TypeOK, RequestInv, AgeInv, RotationInv, DurableInv, Rotating, HandedOutUpTo,
         Requests, Idle, At, Tokens, MaybeToken
<1>6. ForkInv'
  BY DEF TypeOK, RequestInv, AgeInv, DurableInv, ForkInv, NoFork, Rotating, HandedOutUpTo,
         Requests, Idle, At, Tokens, MaybeToken
<1> QED
  BY <1>1, <1>2, <1>3, <1>4, <1>5, <1>6

\* A tab starts again from the common storage.
LEMMA ReloadStep ==
    ASSUME Inv, NEW t \in Tabs, Reload(t)
    PROVE  Inv'
<1> USE TokenAssumption, BoundAssumption DEF Inv, Reload, serverVars
<1>1. TypeOK'
  BY DEF TypeOK, Requests, Idle, At, RequestInv, Tokens, MaybeToken
<1>2. RequestInv'
  BY DEF TypeOK, RequestInv, AgeInv, Requests, Idle, At, Tokens, MaybeToken
<1>3. AgeInv'
  BY DEF TypeOK, RequestInv, AgeInv, HandedOutUpTo, SentUpTo, Requests, Idle, At, Tokens, MaybeToken
<1>4. RotationInv'
  BY DEF TypeOK, RequestInv, AgeInv, RotationInv, OneRotation, Rotating, HandedOutUpTo, SentUpTo,
         Requests, Idle, At, Tokens, MaybeToken
<1>5. DurableInv'
  BY DEF TypeOK, RequestInv, AgeInv, RotationInv, DurableInv, Rotating, HandedOutUpTo,
         Requests, Idle, At, Tokens, MaybeToken
<1>6. ForkInv'
  BY DEF TypeOK, RequestInv, AgeInv, DurableInv, ForkInv, NoFork, Rotating, HandedOutUpTo,
         Requests, Idle, At, Tokens, MaybeToken
<1> QED
  BY <1>1, <1>2, <1>3, <1>4, <1>5, <1>6

\* An answer is lost; it carries nothing any more.
LEMMA LoseStep ==
    ASSUME Inv, NEW t \in Tabs, Lose(t)
    PROVE  Inv'
<1> USE TokenAssumption, BoundAssumption DEF Inv, Lose, serverVars, browserVars
<1>0. request' = [u \in Tabs |-> IF u = t
                                   THEN [pc |-> "failed", old |-> request[t].old, new |-> NoToken]
                                   ELSE request[u]]
  BY BecomesValue DEF TypeOK
<1>1. TypeOK'
  BY <1>0 DEF TypeOK, Requests, Idle, At, RequestInv, Tokens, MaybeToken
<1>2. RequestInv'
  BY <1>0 DEF TypeOK, RequestInv, AgeInv, Requests, Idle, At, Tokens, MaybeToken
<1>3. AgeInv'
  BY <1>0 DEF TypeOK, RequestInv, AgeInv, HandedOutUpTo, SentUpTo, Requests, Idle, At, Tokens, MaybeToken
<1>4. RotationInv'
  BY <1>0 DEF TypeOK, RequestInv, AgeInv, RotationInv, OneRotation, Rotating, HandedOutUpTo, SentUpTo,
         Requests, Idle, At, Tokens, MaybeToken
<1>5. DurableInv'
  BY <1>0 DEF TypeOK, RequestInv, AgeInv, RotationInv, DurableInv, Rotating, HandedOutUpTo,
         Requests, Idle, At, Tokens, MaybeToken
<1>6. ForkInv'
  BY <1>0 DEF TypeOK, RequestInv, AgeInv, DurableInv, ForkInv, NoFork, Rotating, HandedOutUpTo,
         Requests, Idle, At, Tokens, MaybeToken
<1> QED
  BY <1>1, <1>2, <1>3, <1>4, <1>5, <1>6

\* The heart of the matter: a rotation starts only if no other is in progress.
LEMMA LookupStep ==
    ASSUME Inv, NEW t \in Tabs, Lookup(t)
    PROVE  Inv'
<1> USE TokenAssumption, BoundAssumption DEF Inv, Lookup, browserVars, boundVars
<1> DEFINE old == request[t].old
<1>0. old \in Tokens
  BY DEF RequestInv, At
<1>1. ASSUME grace[old] # NoToken, Becomes(t, "granted", grace[old]),
             UNCHANGED <<session, issued>>
      PROVE  Inv'
  <2>0. request' = [u \in Tabs |-> IF u = t
                                     THEN [pc |-> "granted", old |-> request[t].old, new |-> grace[old]]
                                     ELSE request[u]]
    BY <1>1, BecomesValue DEF TypeOK
  <2>1. TypeOK'
    BY <1>0, <1>1, <2>0 DEF TypeOK, Requests, Idle, At, RequestInv, Tokens, MaybeToken
  <2>2. RequestInv'
    BY <1>0, <1>1, <2>0 DEF TypeOK, RequestInv, AgeInv, Requests, Idle, At, Tokens, MaybeToken
  <2>3. AgeInv'
    BY <1>0, <1>1, <2>0 DEF TypeOK, RequestInv, AgeInv, HandedOutUpTo, SentUpTo, Requests, Idle, At, Tokens, MaybeToken
  <2>4. RotationInv'
    BY <1>0, <1>1, <2>0 DEF TypeOK, RequestInv, AgeInv, RotationInv, OneRotation, Rotating, HandedOutUpTo, SentUpTo,
           Requests, Idle, At, Tokens, MaybeToken
  <2>5. DurableInv'
    BY <1>0, <1>1, <2>0 DEF TypeOK, RequestInv, AgeInv, RotationInv, DurableInv, Rotating, HandedOutUpTo,
           Requests, Idle, At, Tokens, MaybeToken
  <2>6. ForkInv'
    BY <1>0, <1>1, <2>0 DEF TypeOK, RequestInv, AgeInv, DurableInv, ForkInv, NoFork, Rotating, HandedOutUpTo,
           Requests, Idle, At, Tokens, MaybeToken
  <2> QED
    BY <2>1, <2>2, <2>3, <2>4, <2>5, <2>6
<1>2. ASSUME grace[old] = NoToken, session = old, issued < MaxToken,
             issued' = issued + 1, session' = issued + 1,
             Becomes(t, "persist", issued + 1)
      PROVE  Inv'
  <2>0. request' = [u \in Tabs |-> IF u = t
                                     THEN [pc |-> "persist", old |-> request[t].old, new |-> issued + 1]
                                     ELSE request[u]]
    BY <1>2, BecomesValue DEF TypeOK
  <2>1. TypeOK'
    BY <1>0, <1>2, <2>0 DEF TypeOK, Requests, Idle, At, RequestInv, Tokens, MaybeToken
  <2>2. RequestInv'
    BY <1>0, <1>2, <2>0 DEF TypeOK, RequestInv, AgeInv, Requests, Idle, At, Tokens, MaybeToken
  <2>3. AgeInv'
    BY <1>0, <1>2, <2>0 DEF TypeOK, RequestInv, AgeInv, HandedOutUpTo, SentUpTo, Requests, Idle, At, Tokens, MaybeToken
  <2>4. RotationInv'
    BY <1>0, <1>2, <2>0 DEF TypeOK, RequestInv, AgeInv, RotationInv, OneRotation, Rotating, HandedOutUpTo, SentUpTo,
           Requests, Idle, At, Tokens, MaybeToken
  <2>5. DurableInv'
    BY <1>0, <1>2, <2>0 DEF TypeOK, RequestInv, AgeInv, RotationInv, DurableInv, Rotating, HandedOutUpTo,
           Requests, Idle, At, Tokens, MaybeToken
  <2>6. ForkInv'
    BY <1>0, <1>2, <2>0 DEF TypeOK, RequestInv, AgeInv, DurableInv, ForkInv, NoFork, Rotating, HandedOutUpTo,
           Requests, Idle, At, Tokens, MaybeToken
  <2> QED
    BY <2>1, <2>2, <2>3, <2>4, <2>5, <2>6
<1>3. ASSUME grace[old] = NoToken, session # old, Becomes(t, "denied", NoToken),
             UNCHANGED <<session, issued>>
      PROVE  Inv'
  <2>0. request' = [u \in Tabs |-> IF u = t
                                     THEN [pc |-> "denied", old |-> request[t].old, new |-> NoToken]
                                     ELSE request[u]]
    BY <1>3, BecomesValue DEF TypeOK
  <2>1. TypeOK'
    BY <1>0, <1>3, <2>0 DEF TypeOK, Requests, Idle, At, RequestInv, Tokens, MaybeToken
  <2>2. RequestInv'
    BY <1>0, <1>3, <2>0 DEF TypeOK, RequestInv, AgeInv, Requests, Idle, At, Tokens, MaybeToken
  <2>3. AgeInv'
    BY <1>0, <1>3, <2>0 DEF TypeOK, RequestInv, AgeInv, HandedOutUpTo, SentUpTo, Requests, Idle, At, Tokens, MaybeToken
  <2>4. RotationInv'
    BY <1>0, <1>3, <2>0 DEF TypeOK, RequestInv, AgeInv, RotationInv, OneRotation, Rotating, HandedOutUpTo, SentUpTo,
           Requests, Idle, At, Tokens, MaybeToken
  <2>5. DurableInv'
    BY <1>0, <1>3, <2>0 DEF TypeOK, RequestInv, AgeInv, RotationInv, DurableInv, Rotating, HandedOutUpTo,
           Requests, Idle, At, Tokens, MaybeToken
  <2>6. ForkInv'
    BY <1>0, <1>3, <2>0 DEF TypeOK, RequestInv, AgeInv, DurableInv, ForkInv, NoFork, Rotating, HandedOutUpTo,
           Requests, Idle, At, Tokens, MaybeToken
  <2> QED
    BY <2>1, <2>2, <2>3, <2>4, <2>5, <2>6
<1> QED
  BY <1>1, <1>2, <1>3

\* The row takes the token of the rotation, the youngest there is.
LEMMA PersistStep ==
    ASSUME Inv, NEW t \in Tabs, Persist(t)
    PROVE  Inv'
<1> USE TokenAssumption, BoundAssumption DEF Inv, Persist, browserVars
<1>0. request' = [u \in Tabs |-> IF u = t
                                   THEN [pc |-> "register", old |-> request[t].old, new |-> request[t].new]
                                   ELSE request[u]]
  BY BecomesValue DEF TypeOK
<1>1. TypeOK'
  BY <1>0 DEF TypeOK, Requests, Idle, At, RequestInv, Tokens, MaybeToken
<1>2. RequestInv'
  BY <1>0 DEF TypeOK, RequestInv, AgeInv, Requests, Idle, At, Tokens, MaybeToken
<1>3. AgeInv'
  BY <1>0 DEF TypeOK, RequestInv, AgeInv, RotationInv, Rotating,
         HandedOutUpTo, SentUpTo, Requests, Idle, At, Tokens, MaybeToken
<1>4. RotationInv'
  BY <1>0 DEF TypeOK, RequestInv, AgeInv, RotationInv, OneRotation, Rotating, HandedOutUpTo, SentUpTo,
         Requests, Idle, At, Tokens, MaybeToken
<1>5. DurableInv'
  BY <1>0 DEF TypeOK, RequestInv, AgeInv, RotationInv, DurableInv, Rotating, HandedOutUpTo,
         Requests, Idle, At, Tokens, MaybeToken
<1>6. ForkInv'
  BY <1>0 DEF TypeOK, RequestInv, AgeInv, DurableInv, ForkInv, NoFork, Rotating, HandedOutUpTo,
         Requests, Idle, At, Tokens, MaybeToken
<1> QED
  BY <1>1, <1>2, <1>3, <1>4, <1>5, <1>6

\* The rotation becomes a grace record and an answer.
LEMMA RegisterStep ==
    ASSUME Inv, NEW t \in Tabs, Register(t)
    PROVE  Inv'
<1> USE TokenAssumption, BoundAssumption DEF Inv, Register, browserVars, boundVars
<1>0. request' = [u \in Tabs |-> IF u = t
                                   THEN [pc |-> "granted", old |-> request[t].old, new |-> request[t].new]
                                   ELSE request[u]]
  BY BecomesValue DEF TypeOK
<1>1. TypeOK'
  BY <1>0 DEF TypeOK, Requests, Idle, At, RequestInv, Tokens, MaybeToken
<1>2. RequestInv'
  BY <1>0 DEF TypeOK, RequestInv, AgeInv, Requests, Idle, At, Tokens, MaybeToken
<1>3. AgeInv'
  BY <1>0 DEF TypeOK, RequestInv, AgeInv, RotationInv, Rotating,
         HandedOutUpTo, SentUpTo, Requests, Idle, At, Tokens, MaybeToken
<1>4. RotationInv'
  BY <1>0 DEF TypeOK, RequestInv, AgeInv, RotationInv, OneRotation, Rotating, HandedOutUpTo, SentUpTo,
         Requests, Idle, At, Tokens, MaybeToken
<1>5. DurableInv'
  BY <1>0 DEF TypeOK, RequestInv, AgeInv, RotationInv, DurableInv, Rotating, HandedOutUpTo,
         Requests, Idle, At, Tokens, MaybeToken
<1>6. ForkInv'
  BY <1>0 DEF TypeOK, RequestInv, AgeInv, RotationInv, OneRotation, DurableInv, ForkInv,
         NoFork, Rotating, HandedOutUpTo,
         Requests, Idle, At, Tokens, MaybeToken
<1> QED
  BY <1>1, <1>2, <1>3, <1>4, <1>5, <1>6

\* A grace record disappears.
LEMMA ExpireStep ==
    ASSUME Inv, NEW k \in Tokens, Expire(k)
    PROVE  Inv'
<1> USE TokenAssumption, BoundAssumption DEF Inv, Expire, browserVars, boundVars
<1>1. TypeOK'
  BY DEF TypeOK, Requests, Idle, At, RequestInv, Tokens, MaybeToken
<1>2. RequestInv'
  BY DEF TypeOK, RequestInv, AgeInv, Requests, Idle, At, Tokens, MaybeToken
<1>3. AgeInv'
  BY DEF TypeOK, RequestInv, AgeInv, HandedOutUpTo, SentUpTo, Requests, Idle, At, Tokens, MaybeToken
<1>4. RotationInv'
  BY DEF TypeOK, RequestInv, AgeInv, RotationInv, OneRotation, Rotating, HandedOutUpTo, SentUpTo,
         Requests, Idle, At, Tokens, MaybeToken
<1>5. DurableInv'
  BY DEF TypeOK, RequestInv, AgeInv, RotationInv, DurableInv, Rotating, HandedOutUpTo,
         Requests, Idle, At, Tokens, MaybeToken
<1>6. ForkInv'
  BY DEF TypeOK, RequestInv, AgeInv, DurableInv, ForkInv, NoFork, Rotating, HandedOutUpTo,
         Requests, Idle, At, Tokens, MaybeToken
<1> QED
  BY <1>1, <1>2, <1>3, <1>4, <1>5, <1>6

\* The session disappears from memory.
LEMMA RevokeStep ==
    ASSUME Inv, Revoke
    PROVE  Inv'
<1> USE TokenAssumption, BoundAssumption DEF Inv, Revoke, browserVars
<1>1. TypeOK'
  BY DEF TypeOK, Requests, Idle, At, RequestInv, Tokens, MaybeToken
<1>2. RequestInv'
  BY DEF TypeOK, RequestInv, AgeInv, Requests, Idle, At, Tokens, MaybeToken
<1>3. AgeInv'
  BY DEF TypeOK, RequestInv, AgeInv, HandedOutUpTo, SentUpTo, Requests, Idle, At, Tokens, MaybeToken
<1>4. RotationInv'
  BY DEF TypeOK, RequestInv, AgeInv, RotationInv, OneRotation, Rotating, HandedOutUpTo, SentUpTo,
         Requests, Idle, At, Tokens, MaybeToken
<1>5. DurableInv'
  BY DEF TypeOK, RequestInv, AgeInv, RotationInv, DurableInv, Rotating, HandedOutUpTo,
         Requests, Idle, At, Tokens, MaybeToken
<1>6. ForkInv'
  BY DEF TypeOK, RequestInv, AgeInv, DurableInv, ForkInv, NoFork, Rotating, HandedOutUpTo,
         Requests, Idle, At, Tokens, MaybeToken
<1> QED
  BY <1>1, <1>2, <1>3, <1>4, <1>5, <1>6

\* The session is the row again, and no rotation is in progress.
LEMMA RestartStep ==
    ASSUME Inv, Restart
    PROVE  Inv'
<1> USE TokenAssumption, BoundAssumption DEF Inv, Restart, browserVars
<1>1. TypeOK'
  BY DEF TypeOK, Requests, Idle, At, RequestInv, Tokens, MaybeToken
<1>2. RequestInv'
  BY DEF TypeOK, RequestInv, AgeInv, Requests, Idle, At, Tokens, MaybeToken
<1>3. AgeInv'
  BY DEF TypeOK, RequestInv, AgeInv, HandedOutUpTo, SentUpTo, Requests, Idle, At, Tokens, MaybeToken
<1>4. RotationInv'
  BY DEF TypeOK, RequestInv, AgeInv, RotationInv, OneRotation, Rotating, HandedOutUpTo, SentUpTo,
         Requests, Idle, At, Tokens, MaybeToken
<1>5. DurableInv'
  BY DEF TypeOK, RequestInv, AgeInv, RotationInv, DurableInv, Rotating, HandedOutUpTo,
         Requests, Idle, At, Tokens, MaybeToken
<1>6. ForkInv'
  BY DEF TypeOK, RequestInv, AgeInv, DurableInv, ForkInv, NoFork, Rotating, HandedOutUpTo,
         Requests, Idle, At, Tokens, MaybeToken
<1> QED
  BY <1>1, <1>2, <1>3, <1>4, <1>5, <1>6

\* Every step preserves the invariant.
LEMMA NextInv == Inv /\ [Next]_vars => Inv'
<1> SUFFICES ASSUME Inv, [Next]_vars PROVE Inv'
  OBVIOUS
<1>1. CASE UNCHANGED vars
  BY <1>1 DEF Inv, vars, TypeOK, RequestInv, AgeInv, RotationInv, OneRotation, DurableInv,
              ForkInv, NoFork, HandedOutUpTo, SentUpTo, At, Rotating
<1>2. ASSUME NEW t \in Tabs,
             \/ Send(t) \/ Granted(t) \/ Rejected(t)
             \/ SignOut(t) \/ Reload(t) \/ Lose(t)
             \/ Lookup(t) \/ Persist(t) \/ Register(t)
      PROVE  Inv'
  BY <1>2, SendStep, GrantedStep, RejectedStep, SignOutStep, ReloadStep, LoseStep,
     LookupStep, PersistStep, RegisterStep
<1>3. ASSUME NEW k \in Tokens, Expire(k) PROVE Inv'
  BY <1>3, ExpireStep
<1>4. CASE Revoke
  BY <1>4, RevokeStep
<1>5. CASE Restart
  BY <1>5, RestartStep
<1> QED
  BY <1>1, <1>2, <1>3, <1>4, <1>5 DEF Next

LEMMA Invariance == Spec => []Inv
<1> QED
  BY InitInv, NextInv, PTL DEF Spec

\* Type correctness.
THEOREM TypeCorrect == Spec => []TypeOK
<1>1. Inv => TypeOK
  BY DEF Inv
<1> QED
  BY <1>1, Invariance, PTL

\* Of any number of tabs, one at most is rotating the session.
THEOREM RotationsExclusive == Spec => []OneRotation
<1>1. Inv => OneRotation
  BY DEF Inv, RotationInv
<1> QED
  BY <1>1, Invariance, PTL

\* While no write fails, nobody has a token younger than the row: a restart
\* never takes the session back behind an answer.
THEOREM DurableBeforeHandedOut == Spec => []HandedOutIsDurable
<1>1. Inv => HandedOutIsDurable
  BY DEF Inv, DurableInv, HandedOutIsDurable, HandedOut, HandedOutUpTo
<1> QED
  BY <1>1, Invariance, PTL

\* While no write fails, all answers to a token agree.
THEOREM NeverForks == Spec => []NoFork
<1>1. Inv => NoFork
  BY DEF Inv, ForkInv, NoFork
<1> QED
  BY <1>1, Invariance, PTL

-----------------------------------------------------------------------------
(* The session is never stranded by refreshes *)

\* Some tab has the token of the session, or is about to be answered with it.
LEMMA HeldStep ==
    ASSUME Inv, HeldInv, CurrentTokenHeld, [Next]_vars
    PROVE  HeldInv' /\ CurrentTokenHeld'
<1> DEFINE Has(t) == \/ held[t] = session
                     \/ request[t].pc \in {"persist", "register", "granted"}
                           /\ request[t].new = session
           Goal == HeldInv' /\ CurrentTokenHeld'
<1>1. CASE disturbances' # 0
  BY <1>1 DEF HeldInv, CurrentTokenHeld
<1>2. ASSUME disturbances' = 0 PROVE Goal
  <2>1. disturbances = 0
    <3>1. disturbances \in Nat /\ disturbances' \in {disturbances, disturbances + 1}
      BY DEF Next, vars, boundVars, Send, Granted, Rejected, SignOut, Reload, Lose, Lookup,
             Persist, Register, Expire, Revoke, Restart, Inv, TypeOK
    <3>2. QED BY <1>2, <3>1
  <2>2. /\ session = issued /\ issued \in Tokens
        /\ request \in [Tabs -> Requests] /\ held \in [Tabs -> MaybeToken]
        /\ \A t \in Tabs :
              /\ request[t].pc # "failed"
              /\ request[t].pc # "idle" => held[t] = request[t].old
              /\ request[t].pc = "denied" => request[t].old \in Tokens /\ request[t].old < issued
    BY <2>1 DEF HeldInv, Inv, TypeOK, At
  <2>3. PICK w \in Tabs : Has(w)
    BY <2>1 DEF CurrentTokenHeld
  <2>4. \A t \in Tabs :
           /\ request[t].pc \in {"sent", "persist", "register", "granted"}
                 => request[t].old \in Tokens /\ request[t].old <= issued
           /\ request[t].pc \in {"persist", "register", "granted"}
                 => request[t].new \in Tokens /\ request[t].old < request[t].new
           /\ request[t].pc = "granted" => request[t].new <= issued
    BY <2>2 DEF Inv, RequestInv, AgeInv, SentUpTo, HandedOutUpTo, At, RotationInv, Rotating,
                Tokens, TypeOK
  <2>5. Tokens \subseteq Nat /\ NoToken \notin Tokens
    BY TokenAssumption DEF Tokens
  \* What the goal asks of the next state.
  <2>6. ASSUME session' = issued',
               \A t \in Tabs :
                  /\ request'[t].pc # "failed"
                  /\ request'[t].pc # "idle" => held'[t] = request'[t].old
                  /\ request'[t].pc = "denied" =>
                        request'[t].old \in Tokens /\ request'[t].old < issued',
               \E t \in Tabs :
                  \/ held'[t] = session'
                  \/ request'[t].pc \in {"persist", "register", "granted"}
                        /\ request'[t].new = session'
        PROVE  Goal
    BY <2>6 DEF HeldInv, CurrentTokenHeld, At
  <2>7. ASSUME NEW t \in Tabs, Send(t) PROVE Goal
    <3> DEFINE h == [Idle EXCEPT !.pc = "sent", !.old = held[t]]
    <3>1. h.pc = "sent" /\ h.old = held[t]
      BY DEF Idle
    <3>2. /\ request[t].pc = "idle" /\ UNCHANGED <<session, issued, held>>
          /\ request' = [request EXCEPT ![t] = h]
      BY <2>7 DEF Send, At, serverVars, browserVars
    <3> HIDE DEF h
    <3>3. \A u \in Tabs : request'[u] = IF u = t THEN h ELSE request[u]
      BY <2>2, <3>2
    <3> HIDE DEF Goal
    <3>4. QED BY <2>2, <2>3, <2>6, <3>1, <3>2, <3>3
  <2>8. ASSUME NEW t \in Tabs, Granted(t) PROVE Goal
    <3>1. /\ request[t].pc = "granted" /\ UNCHANGED <<session, issued>>
          /\ request' = [request EXCEPT ![t] = Idle] /\ Idle.pc = "idle"
          /\ held' = [held EXCEPT ![t] = request[t].new]
      BY <2>8 DEF Granted, At, serverVars, Idle
    <3>2. /\ \A u \in Tabs : request'[u] = IF u = t THEN Idle ELSE request[u]
          /\ \A u \in Tabs : held'[u] = IF u = t THEN request[t].new ELSE held[u]
      BY <2>2, <3>1
    <3>3. held[t] # session
      <4>1. /\ held[t] = request[t].old /\ session = issued
            /\ request[t].old < request[t].new /\ request[t].new <= issued
            /\ request[t].old \in Nat /\ request[t].new \in Nat /\ issued \in Nat
        BY <2>2, <2>4, <2>5, <3>1
      <4>2. QED BY <4>1
    <3>4. \/ held'[w] = session'
          \/ request'[w].pc \in {"persist", "register", "granted"} /\ request'[w].new = session'
      BY <2>3, <3>1, <3>2, <3>3
    <3> HIDE DEF Goal
    <3>5. QED BY <2>2, <2>6, <3>1, <3>2, <3>4
  <2>9. ASSUME NEW t \in Tabs, Rejected(t) PROVE Goal
    <3>1. /\ request[t].pc = "denied" /\ UNCHANGED <<session, issued>>
          /\ request' = [request EXCEPT ![t] = Idle] /\ Idle.pc = "idle"
          /\ held' = [held EXCEPT ![t] = NoToken]
      BY <2>2, <2>9 DEF Rejected, serverVars, Idle
    <3>2. /\ \A u \in Tabs : request'[u] = IF u = t THEN Idle ELSE request[u]
          /\ \A u \in Tabs : held'[u] = IF u = t THEN NoToken ELSE held[u]
      BY <2>2, <3>1
    <3>3. w # t
      BY <2>2, <2>3, <2>5, <3>1
    <3>4. \/ held'[w] = session'
          \/ request'[w].pc \in {"persist", "register", "granted"} /\ request'[w].new = session'
      BY <2>3, <3>1, <3>2, <3>3
    <3> HIDE DEF Goal
    <3>5. QED BY <2>2, <2>6, <3>1, <3>2, <3>4
  <2>10. ASSUME NEW t \in Tabs, Lookup(t) PROVE Goal
    <3> DEFINE old == request[t].old
    <3>1. /\ request[t].pc = "sent" /\ old \in Tokens /\ held[t] = old
          /\ held' = held /\ old <= issued
      BY <2>2, <2>4, <2>10 DEF Lookup, At, browserVars
    <3>2. ASSUME NEW pc, NEW new, Becomes(t, pc, new)
          PROVE  \A u \in Tabs :
                    request'[u] = IF u = t THEN [pc |-> pc, old |-> old, new |-> new]
                                  ELSE request[u]
      BY <2>2, <3>2, BecomesValue
    <3>3. CASE Becomes(t, "granted", grace[old]) /\ UNCHANGED <<session, issued>>
      <4>1. \A u \in Tabs :
               request'[u] = IF u = t THEN [pc |-> "granted", old |-> old, new |-> grace[old]]
                             ELSE request[u]
        BY <3>2, <3>3
      <4>2. \/ held'[w] = session'
            \/ request'[w].pc \in {"persist", "register", "granted"} /\ request'[w].new = session'
        BY <2>3, <3>1, <3>3, <4>1
      <4>3. request'[t].pc = "granted" /\ request'[t].old = held'[t]
        BY <3>1, <4>1
      <4>4. \A u \in Tabs \ {t} : request'[u] = request[u] /\ held'[u] = held[u]
        BY <3>1, <4>1
      <4> HIDE DEF Goal
      <4>5. QED BY <2>2, <2>6, <3>3, <4>2, <4>3, <4>4
    <3>4. CASE /\ session = old /\ issued' = issued + 1 /\ session' = issued + 1
               /\ Becomes(t, "persist", issued + 1)
      <4>1. \A u \in Tabs :
               request'[u] = IF u = t THEN [pc |-> "persist", old |-> old, new |-> issued + 1]
                             ELSE request[u]
        BY <3>2, <3>4
      <4>2. /\ request'[t].pc = "persist" /\ request'[t].new = session'
            /\ request'[t].old = held'[t]
        BY <3>1, <3>4, <4>1
      <4>3. /\ \A u \in Tabs \ {t} : request'[u] = request[u] /\ held'[u] = held[u]
            /\ session' = issued'
        BY <3>1, <3>4, <4>1
      <4>4. \A k \in Tokens : k < issued => k < issued'
        <5>1. issued \in Nat /\ issued' = issued + 1
          BY <2>2, <2>5, <3>4
        <5>2. QED BY <2>5, <5>1
      <4> HIDE DEF Goal
      <4>5. QED BY <2>2, <2>6, <4>2, <4>3, <4>4
    <3>5. CASE /\ session # old /\ UNCHANGED <<session, issued>>
               /\ Becomes(t, "denied", NoToken)
      <4>1. \A u \in Tabs :
               request'[u] = IF u = t THEN [pc |-> "denied", old |-> old, new |-> NoToken]
                             ELSE request[u]
        BY <3>2, <3>5
      <4>2. old < issued
        <5>1. old \in Nat /\ issued \in Nat /\ old # issued
          BY <2>2, <2>5, <3>1, <3>5
        <5>2. QED BY <3>1, <5>1
      <4>3. \/ held'[w] = session'
            \/ request'[w].pc \in {"persist", "register", "granted"} /\ request'[w].new = session'
        BY <2>3, <3>1, <3>5, <4>1
      <4>4. request'[t].pc = "denied" /\ request'[t].old = held'[t] /\ request'[t].old = old
        BY <3>1, <4>1
      <4>5. \A u \in Tabs \ {t} : request'[u] = request[u] /\ held'[u] = held[u]
        BY <3>1, <4>1
      <4> HIDE DEF Goal
      <4>6. QED BY <2>2, <2>6, <3>1, <3>5, <4>2, <4>3, <4>4, <4>5
    <3>6. QED BY <2>10, <3>3, <3>4, <3>5 DEF Lookup
  <2>11. ASSUME NEW t \in Tabs, Persist(t) \/ Register(t) PROVE Goal
    <3>1. PICK pc \in {"register", "granted"} :
             /\ Becomes(t, pc, request[t].new) /\ request[t].pc \in {"persist", "register"}
             /\ UNCHANGED <<session, issued, held>>
      BY <2>11 DEF Persist, Register, At, browserVars
    <3>2. \A u \in Tabs :
             request'[u] = IF u = t THEN [pc |-> pc, old |-> request[t].old, new |-> request[t].new]
                           ELSE request[u]
      BY <2>2, <3>1, BecomesValue
    <3>3. \/ held'[w] = session'
          \/ request'[w].pc \in {"persist", "register", "granted"} /\ request'[w].new = session'
      BY <2>3, <3>1, <3>2
    <3> HIDE DEF Goal
    <3>4. QED BY <2>2, <2>6, <3>1, <3>2, <3>3
  <2>12. ASSUME UNCHANGED <<session, issued, held, request>> PROVE Goal
    BY <2>2, <2>3, <2>6, <2>12
  <2>13. CASE UNCHANGED vars \/ \E k \in Tokens : Expire(k)
    BY <2>12, <2>13 DEF vars, Expire, browserVars
  <2>14. ASSUME (\E t \in Tabs : SignOut(t) \/ Reload(t) \/ Lose(t)) \/ Revoke \/ Restart
         PROVE  FALSE
    BY <1>2, <2>1, <2>14 DEF SignOut, Reload, Lose, Revoke, Restart
  <2> HIDE DEF Goal
  <2>15. QED BY <2>7, <2>8, <2>9, <2>10, <2>11, <2>13, <2>14 DEF Next
<1>3. QED
  <2>1. Goal
    <3> HIDE DEF Goal
    <3>1. disturbances' = 0 => Goal
      BY <1>2
    <3>2. disturbances' # 0 => Goal
      BY <1>1 DEF Goal
    <3>3. QED BY <3>1, <3>2
  <2>2. QED BY <2>1

\* However many tabs refresh, and in whatever order their requests are served,
\* the token the session expects stays with one of them.
THEOREM NeverStranded == Spec => []CurrentTokenHeld
<1>1. Init => HeldInv /\ CurrentTokenHeld
  BY TabAssumption, TokenAssumption DEF Init, HeldInv, CurrentTokenHeld, At, Idle
<1>2. Inv /\ HeldInv /\ CurrentTokenHeld /\ [Next]_vars => (HeldInv /\ CurrentTokenHeld)'
  BY HeldStep
<1>3. QED BY <1>1, <1>2, Invariance, PTL DEF Spec
=============================================================================
