--------------------------- MODULE CallServerProofs ---------------------------
(***************************************************************************)
(* Proofs about the call engine, for any number of tabs, requests,         *)
(* failures and restarts: its types, the single owner of a call, the       *)
(* discipline of the 30 second timer, that memory never forgets an end or  *)
(* an answer, and that the row follows memory.  For the last two, every    *)
(* busy handler works on the entry, or on the first object of the call     *)
(* (EntryInv), and the one persistCall that is on its way carries what the *)
(* entry says (UndisturbedPersist).                                        *)
(***************************************************************************)
EXTENDS CallServer, TLAPS

\* The objects and handler records of the engine have the declared types.
LEMMA BlankTypes ==
    /\ Blank \in Session
    /\ NewSession \in Session
    /\ Idle \in Handlers
    /\ Idle.pc = "idle"
    /\ NoRow \in Rows
  BY DEF Blank, NewSession, Session, States, Reasons, Idle, Handlers, Ops, PCs,
         NoRow, Rows

\* Merging two sessions yields a session.
LEMMA MergeType ==
  ASSUME NEW current \in Session, NEW c \in Session
  PROVE  Merge(current, c) \in Session
  BY DEF Merge, Session

\* Dropping unreferenced objects keeps the heap well typed.
LEMMA CollectedType ==
  ASSUME NEW hp \in [Refs -> Session], NEW m, NEW h
  PROVE  Collected(hp, m, h) \in [Refs -> Session]
  BY BlankTypes DEF Collected

\* A handler that enters persistCall, or that goes to the call history, is a
\* handler record.
LEMMA HandlerTypes ==
  ASSUME NEW op \in Ops, NEW r \in Refs, NEW c \in Session
  PROVE  /\ Persisting(op, r, c) \in Handlers
         /\ Persisting(op, r, c).ref \in Refs
         /\ Recording(op) \in Handlers
         /\ Recording(op).pc = "history"
  BY BlankTypes DEF Persisting, Recording, Handlers, PCs, Idle

\* After its persistCall a handler is a handler record again.
LEMMA AfterPersistType ==
  ASSUME NEW h \in Handlers, NEW c \in Session, h.ref \in Refs
  PROVE  /\ AfterPersist(h, c) \in Handlers
         /\ AfterPersist(h, c).pc \in {"write", "ack"} => AfterPersist(h, c).ref \in Refs
<1>1. CASE h.op = "invite"
  BY <1>1, BlankTypes DEF AfterPersist, Handlers, Ops, PCs
<1>2. CASE h.op # "invite"
  <2>1. AfterPersist(h, c) = Recording(h.op)
    BY <1>2 DEF AfterPersist
  <2>2. Recording(h.op) \in Handlers /\ Recording(h.op).pc = "history"
    BY BlankTypes DEF Recording, Handlers, PCs, Idle
  <2>3. QED BY <2>1, <2>2
<1>3. QED BY <1>1, <1>2

-----------------------------------------------------------------------------

\* Mutating the session and entering persistCall preserves the types.
LEMMA UpdateType ==
  ASSUME TypeInv, NEW s \in Contexts, NEW op \in Ops, NEW c \in Session,
         Update(s, op, c)
  PROVE  /\ heap' \in [Refs -> Session]
         /\ handler' \in [Contexts -> Handlers]
         /\ raced' \in BOOLEAN
         /\ \A t \in Contexts : InPersist(t)' => handler'[t].ref \in Refs
<1>1. CASE InMemory
  <2>1. mem \in Refs
    BY <1>1 DEF TypeInv, TypeOK, InMemory
  <2>2. Persisting(op, mem, c) \in Handlers /\ Persisting(op, mem, c).ref \in Refs
    BY <2>1, HandlerTypes
  <2>3. QED
    BY <1>1, <2>1, <2>2 DEF TypeInv, TypeOK, PersistHasObject, Update, InPersist
<1>2. CASE ~InMemory
  <2>1. Recording(op) \in Handlers /\ Recording(op).pc = "history"
    BY BlankTypes DEF Recording, Handlers, PCs, Idle
  <2>2. QED
    BY <1>2, <2>1 DEF TypeInv, TypeOK, PersistHasObject, Update, InPersist
<1>3. QED BY <1>1, <1>2

\* The session the handlers start from is a session.
LEMMA CurrentType ==
  ASSUME TypeInv
  PROVE  Current \in Session
  BY BlankTypes DEF TypeInv, TypeOK, Current, InMemory

\* Every step preserves the types.
LEMMA TypeStep == TypeInv /\ [Next]_vars => TypeInv'
<1> SUFFICES ASSUME TypeInv, [Next]_vars PROVE TypeInv'
  OBVIOUS
<1> USE DEF Contexts
<1>1. CASE UNCHANGED vars
  BY <1>1 DEF vars, callVars, boundVars, historyVars, TypeInv, TypeOK,
              PersistHasObject, InPersist
<1>2. ASSUME NEW s \in Slots, Invite(s) PROVE TypeInv'
  <2>1. PICK r \in Refs :
          /\ heap' = [heap EXCEPT ![r] = NewSession]
          /\ handler' = [handler EXCEPT ![s] = Persisting("invite", r, NewSession)]
    BY <1>2 DEF Invite
  <2>2. /\ Persisting("invite", r, NewSession) \in Handlers
        /\ Persisting("invite", r, NewSession).ref \in Refs
    BY BlankTypes, HandlerTypes DEF Ops
  <2>3. QED
    BY <1>2, <2>1, <2>2, BlankTypes
    DEF Invite, Request, TypeInv, TypeOK, PersistHasObject, InPersist, boundVars,
        historyVars
<1>3. ASSUME NEW s \in Slots, NEW t \in Tabs \cup {NoTab}, Accept(s, t) PROVE TypeInv'
  <2>1. [Current EXCEPT !.state = "connecting", !.connected = TRUE] \in Session
    BY CurrentType DEF Session, States
  <2> DEFINE c == [Current EXCEPT !.state = "connecting", !.connected = TRUE]
  <2>2. "accept" \in Ops /\ Update(s, "accept", c)
    BY <1>3 DEF Accept, Ops
  <2> HIDE DEF c
  <2>3. /\ heap' \in [Refs -> Session]
        /\ handler' \in [Contexts -> Handlers]
        /\ raced' \in BOOLEAN
        /\ \A q \in Contexts : InPersist(q)' => handler'[q].ref \in Refs
    BY <2>1, <2>2, UpdateType DEF c
  <2>4. QED
    BY <1>3, <2>3 DEF Accept, Request, TypeInv, TypeOK, PersistHasObject
<1>4. ASSUME NEW s \in Slots, Decline(s) \/ Cancel(s) \/ End(s) PROVE TypeInv'
  <2>1. \E op \in Ops, c \in Session : Update(s, op, c)
    <3>1. /\ [Current EXCEPT !.state = "ended", !.reason = "declined"] \in Session
          /\ [Current EXCEPT !.state = "ended", !.reason = "cancelled"] \in Session
          /\ [Current EXCEPT !.state = "ended", !.reason = "completed"] \in Session
      BY CurrentType DEF Session, States, Reasons
    <3>2. {"decline", "cancel", "end"} \subseteq Ops
      BY DEF Ops
    <3>3. QED BY <1>4, <3>1, <3>2 DEF Decline, Cancel, End
  <2>2. /\ heap' \in [Refs -> Session]
        /\ handler' \in [Contexts -> Handlers]
        /\ raced' \in BOOLEAN
        /\ \A q \in Contexts : InPersist(q)' => handler'[q].ref \in Refs
    BY <2>1, UpdateType
  <2>3. CASE Decline(s)
    BY <2>2, <2>3 DEF Decline, Request, TypeInv, TypeOK, PersistHasObject
  <2>4. CASE Cancel(s)
    BY <2>2, <2>4 DEF Cancel, Request, TypeInv, TypeOK, PersistHasObject
  <2>5. CASE End(s)
    BY <2>2, <2>5 DEF End, Request, TypeInv, TypeOK, PersistHasObject
  <2>6. QED BY <1>4, <2>3, <2>4, <2>5
<1>5. ASSUME NEW s \in Slots, Hold(s) \/ Resume(s) PROVE TypeInv'
  <2>1. PICK op \in {"hold", "resume"}, st \in {"held", "active"} : HoldOrResume(s, op, st)
    BY <1>5 DEF Hold, Resume
  <2>2. op \in Ops /\ [Current EXCEPT !.state = st] \in Session
    BY CurrentType DEF Session, States, Ops
  <2> DEFINE c == [Current EXCEPT !.state = st]
  <2>3. /\ heap' \in [Refs -> Session]
        /\ handler' \in [Contexts -> Handlers]
        /\ raced' \in BOOLEAN
        /\ \A q \in Contexts : InPersist(q)' => handler'[q].ref \in Refs
    <3>1. CASE InMemory
      <4>1. Update(s, op, c)
        BY <2>1, <3>1 DEF HoldOrResume
      <4> HIDE DEF c
      <4>2. QED BY <2>2, <4>1, UpdateType DEF c
    <3>2. CASE ~InMemory
      <4>1. [Idle EXCEPT !.op = op, !.pc = "select"] \in Handlers
        BY <2>2, BlankTypes DEF Handlers, PCs
      <4>2. [Idle EXCEPT !.op = op, !.pc = "select"].pc = "select"
        BY DEF Idle
      <4>3. QED
        BY <2>1, <3>2, <4>1, <4>2
        DEF HoldOrResume, TypeInv, TypeOK, PersistHasObject, InPersist
    <3>3. QED BY <3>1, <3>2
  <2>4. QED
    BY <2>1, <2>3 DEF HoldOrResume, Request, TypeInv, TypeOK, PersistHasObject
<1>6. ASSUME NEW t \in Tabs, Claim(t) PROVE TypeInv'
  BY <1>6 DEF Claim, TypeInv, TypeOK, PersistHasObject, InPersist
<1>7. ASSUME Fire PROVE TypeInv'
  <2>1. CASE InMemory /\ Ringing(heap[mem])
    <3>1. [Current EXCEPT !.state = "ended", !.reason = "timeout"] \in Session
      BY CurrentType DEF Session, States, Reasons
    <3> DEFINE c == [Current EXCEPT !.state = "ended", !.reason = "timeout"]
    <3>2. "timeout" \in Ops /\ Update(TimerSlot, "timeout", c)
      BY <1>7, <2>1 DEF Fire, Ops
    <3> HIDE DEF c
    <3>3. /\ heap' \in [Refs -> Session]
          /\ handler' \in [Contexts -> Handlers]
          /\ raced' \in BOOLEAN
          /\ \A q \in Contexts : InPersist(q)' => handler'[q].ref \in Refs
      BY <3>1, <3>2, UpdateType DEF c
    <3>4. QED
      BY <1>7, <2>1, <3>3 DEF Fire, TypeInv, TypeOK, PersistHasObject, boundVars
  <2>2. CASE ~(InMemory /\ Ringing(heap[mem]))
    BY <1>7, <2>2 DEF Fire, TypeInv, TypeOK, PersistHasObject, InPersist, boundVars
  <2>3. QED BY <2>1, <2>2
<1>8. ASSUME NEW s \in Contexts, FinishInvite(s) \/ Finish(s) PROVE TypeInv'
  <2>1. CASE FinishInvite(s)
    BY <2>1, BlankTypes
    DEF FinishInvite, TypeInv, TypeOK, PersistHasObject, InPersist, boundVars, historyVars
  <2>2. CASE Finish(s)
    BY <2>2, BlankTypes
    DEF Finish, TypeInv, TypeOK, PersistHasObject, InPersist, boundVars, historyVars
  <2>3. QED BY <1>8, <2>1, <2>2
<1>9. ASSUME NEW s \in Contexts, DbWrite(s) PROVE TypeInv'
  <2>1. handler[s] \in Handlers
    BY DEF TypeInv, TypeOK
  <2>2. /\ [handler[s] EXCEPT !.pc = "ack"] \in Handlers
        /\ [handler[s] EXCEPT !.pc = "ack"].ref = handler[s].ref
        /\ handler[s].val \in Session
    BY <2>1 DEF Handlers, PCs
  <2>3. handler' = [handler EXCEPT ![s] = [handler[s] EXCEPT !.pc = "ack"]]
    BY <1>9 DEF DbWrite
  <2>4. handler[s].ref \in Refs
    BY <1>9 DEF DbWrite, TypeInv, PersistHasObject, InPersist
  <2>5. QED
    BY <1>9, <2>2, <2>3, <2>4
    DEF DbWrite, TypeInv, TypeOK, PersistHasObject, InPersist, Rows, boundVars, historyVars
<1>10. ASSUME NEW s \in Contexts, DbAck(s) \/ DbFail(s) PROVE TypeInv'
  <2> DEFINE h  == handler[s]
             hs == [handler EXCEPT ![s] = AfterPersist(h, heap[h.ref])]
  <2>1. h \in Handlers /\ h.ref \in Refs /\ heap[h.ref] \in Session
    BY <1>10 DEF DbAck, DbFail, TypeInv, TypeOK, PersistHasObject, InPersist
  <2>2. /\ hs \in [Contexts -> Handlers]
        /\ \A t \in Contexts : hs[t].pc \in {"write", "ack"} => hs[t].ref \in Refs
    BY <2>1, AfterPersistType DEF TypeInv, TypeOK, PersistHasObject, InPersist
  <2>3. handler' = hs
    BY <1>10 DEF DbAck, DbFail
  <2>4. heap' \in [Refs -> Session] /\ mem' \in Refs \cup {NoRef}
    <3> HIDE DEF hs
    <3>1. CASE DbFail(s)
      BY <3>1, CollectedType DEF DbFail, TypeInv, TypeOK, hs
    <3>2. CASE DbAck(s) /\ InMemory
      <4>1. PICK r \in Refs :
              /\ mem' = r
              /\ heap' = Collected([heap EXCEPT ![r] = Merge(heap[mem], heap[h.ref])], r, hs)
        BY <3>2 DEF DbAck, hs
      <4>2. Merge(heap[mem], heap[h.ref]) \in Session
        BY <2>1, <3>2, MergeType DEF TypeInv, TypeOK, InMemory
      <4>3. [heap EXCEPT ![r] = Merge(heap[mem], heap[h.ref])] \in [Refs -> Session]
        BY <4>2 DEF TypeInv, TypeOK
      <4>4. QED BY <4>1, <4>3, CollectedType
    <3>3. CASE DbAck(s) /\ ~InMemory
      BY <2>1, <3>3, CollectedType DEF DbAck, TypeInv, TypeOK, hs
    <3>4. QED BY <1>10, <3>1, <3>2, <3>3
  <2>5. QED
    <3> HIDE DEF hs
    <3>1. QED
      BY <1>10, <2>2, <2>3, <2>4
      DEF DbAck, DbFail, TypeInv, TypeOK, PersistHasObject, InPersist, boundVars, historyVars
<1>11. ASSUME NEW s \in Contexts, DirectSelect(s) PROVE TypeInv'
  <2>1. handler[s] \in Handlers
    BY DEF TypeInv, TypeOK
  <2>2. [handler[s] EXCEPT !.pc = "update"] \in Handlers
    BY <2>1 DEF Handlers, PCs
  <2>3. QED
    BY <1>11, <2>1, <2>2, BlankTypes
    DEF DirectSelect, TypeInv, TypeOK, PersistHasObject, InPersist, boundVars,
        historyVars, Idle, Handlers
<1>12. ASSUME NEW s \in Contexts, DirectUpdate(s) PROVE TypeInv'
  <2>1. Recording(handler[s].op) \in Handlers /\ Recording(handler[s].op).pc = "history"
    BY BlankTypes DEF Recording, Handlers, PCs, Idle, TypeInv, TypeOK
  <2>2. row' \in Rows
    BY <1>12 DEF DirectUpdate, TypeInv, TypeOK, Rows, Session, States
  <2>3. QED
    BY <1>12, <2>1, <2>2
    DEF DirectUpdate, TypeInv, TypeOK, PersistHasObject, InPersist, boundVars, historyVars
<1>13. ASSUME NEW loaded \in BOOLEAN, Restart(loaded) PROVE TypeInv'
  <2>1. heap' \in [Refs -> Session] /\ mem' \in Refs \cup {NoRef}
    BY <1>13, BlankTypes DEF Restart, TypeInv, TypeOK, Rows
  <2>2. QED
    BY <1>13, <2>1, BlankTypes
    DEF Restart, TypeInv, TypeOK, PersistHasObject, InPersist, Idle
<1>14. QED
  BY <1>1, <1>2, <1>3, <1>4, <1>5, <1>6, <1>7, <1>8, <1>9, <1>10, <1>11, <1>12, <1>13
  DEF Next, RequestStep, HandlerStep

\* The engine boots with well typed variables.
LEMMA InitTypes == Init => TypeInv
<1> SUFFICES ASSUME Init PROVE TypeInv
  OBVIOUS
<1>1. known \in BOOLEAN /\ released \in BOOLEAN /\ answered \in BOOLEAN /\ raced \in BOOLEAN
  BY Zenon DEF Init
<1>2. heap \in [Refs -> Session] /\ row \in Rows /\ handler \in [Contexts -> Handlers]
  BY BlankTypes DEF Init
<1>3. /\ mem \in Refs \cup {NoRef} /\ claim \in Tabs \cup {NoTab}
      /\ timer \in {"none", "armed", "fired"} /\ granted \subseteq Tabs
      /\ requests \in Nat /\ failures \in Nat /\ restarts \in Nat
  BY DEF Init
<1>4. PersistHasObject
  BY BlankTypes DEF Init, PersistHasObject, InPersist
<1>5. QED BY <1>1, <1>2, <1>3, <1>4 DEF TypeInv, TypeOK

\* The engine's variables always have their types, and persistCall always
\* works on an object of the heap.
THEOREM TypeCorrect == Spec => []TypeOK
<1>1. Init => TypeInv
  BY InitTypes
<1>2. TypeInv => TypeOK
  BY DEF TypeInv
<1>3. QED BY <1>1, <1>2, TypeStep, PTL DEF Spec

-----------------------------------------------------------------------------
(* One owner *)

\* Every step keeps the registry equal to the tabs that were told they own the
\* call, until the registry is emptied.
LEMMA OwnerStep ==
  ASSUME TypeInv, GrantedIsClaimed, [Next]_vars
  PROVE  GrantedIsClaimed'
<1>1. CASE UNCHANGED <<claim, granted, released>>
  BY <1>1 DEF GrantedIsClaimed
<1>2. CASE released'
  BY <1>2 DEF GrantedIsClaimed
<1>3. ASSUME NEW t \in Tabs, Claim(t) PROVE GrantedIsClaimed'
  BY <1>3, TabAssumption DEF Claim, GrantedIsClaimed, TypeInv, TypeOK
<1>4. ASSUME NEW s \in Slots, NEW t \in Tabs \cup {NoTab}, Accept(s, t)
      PROVE  GrantedIsClaimed'
  BY <1>4, TabAssumption DEF Accept, GrantedIsClaimed, TypeInv, TypeOK
<1>5. CASE UNCHANGED vars
  BY <1>1, <1>5 DEF vars, callVars, historyVars
<1>6. ASSUME NEW s \in Slots, RequestStep(s) PROVE GrantedIsClaimed'
  <2>1. CASE End(s)
    BY <1>2, <2>1 DEF End
  <2>2. CASE Invite(s) \/ Decline(s) \/ Cancel(s) \/ Hold(s) \/ Resume(s)
    BY <1>1, <2>2 DEF Invite, Decline, Cancel, Hold, Resume, HoldOrResume, historyVars
  <2>3. QED BY <1>4, <1>6, <2>1, <2>2 DEF RequestStep
<1>7. ASSUME NEW s \in Contexts, HandlerStep(s) \/ DbFail(s) PROVE GrantedIsClaimed'
  BY <1>1, <1>7
  DEF HandlerStep, FinishInvite, DbWrite, DbAck, DbFail, DirectSelect, DirectUpdate,
      Finish, historyVars
<1>8. CASE Fire
  BY <1>1, <1>8 DEF Fire
<1>9. CASE \E loaded \in BOOLEAN : Restart(loaded)
  BY <1>2, <1>9 DEF Restart
<1>10. QED BY <1>3, <1>5, <1>6, <1>7, <1>8, <1>9 DEF Next

\* Between the first claim and the next /end or restart, at most one tab is
\* told that the call is its own, whatever the number of tabs and requests.
THEOREM SingleOwner == Spec => []OneOwner
<1>1. Init => TypeInv /\ GrantedIsClaimed
  BY InitTypes DEF Init, GrantedIsClaimed
<1>2. TypeInv /\ GrantedIsClaimed /\ [Next]_vars => (TypeInv /\ GrantedIsClaimed)'
  BY TypeStep, OwnerStep
<1>3. GrantedIsClaimed => OneOwner
  BY DEF GrantedIsClaimed, OneOwner
<1>4. QED BY <1>1, <1>2, <1>3, PTL DEF Spec

-----------------------------------------------------------------------------
(* The timer is armed only while the call is unanswered *)

\* Merging two sessions without a mark, or resuming a handler whose session
\* has none, yields no mark.
LEMMA CleanLemma ==
  /\ Clean(Blank) /\ Clean(NewSession) /\ Clean(Idle.val) /\ Clean(NoRow.val)
  /\ \A current \in Session, c \in Session :
        Clean(current) /\ Clean(c) => Clean(Merge(current, c))
  /\ \A h \in Handlers, c \in Session :
        Clean(h.val) /\ Clean(c) => Clean(AfterPersist(h, c).val)
<1>1. Clean(Blank) /\ Clean(NewSession) /\ Clean(Idle.val) /\ Clean(NoRow.val)
  BY DEF Clean, Blank, NewSession, Idle, NoRow
<1>2. ASSUME NEW current \in Session, NEW c \in Session, Clean(current), Clean(c)
      PROVE  Clean(Merge(current, c))
  BY <1>2 DEF Clean, Merge, Session
<1>3. ASSUME NEW h \in Handlers, NEW c \in Session, Clean(h.val), Clean(c)
      PROVE  Clean(AfterPersist(h, c).val)
  <2>1. CASE h.op = "invite"
    BY <1>3, <2>1 DEF AfterPersist, Handlers
  <2>2. CASE h.op # "invite"
    <3>1. AfterPersist(h, c).val = Idle.val
      BY <2>2 DEF AfterPersist, Recording, Idle
    <3>2. QED BY <1>1, <3>1
  <2>3. QED BY <2>1, <2>2
<1>4. QED BY <1>1, <1>2, <1>3

\* Collecting a heap without marks leaves no mark.
LEMMA CollectedClean ==
  ASSUME NEW hp \in [Refs -> Session], \A r \in Refs : Clean(hp[r]), NEW m, NEW h
  PROVE  \A r \in Refs : Clean(Collected(hp, m, h)[r])
  BY CleanLemma DEF Collected

\* A handler other than /invite puts no context in the inviting state; nor
\* does the continuation of any handler.
LEMMA InvitingLemma ==
  ASSUME TypeInv, [Next]_vars, \A s \in Slots : ~Invite(s)
  PROVE  /\ \A t \in Contexts : Inviting(t)' => Inviting(t)
         /\ requests' = 0 => requests = 0
<1> USE DEF Contexts
<1>1. ASSUME NEW s \in Contexts, NEW op \in Ops \ {"invite", "patch"}, NEW c,
             Update(s, op, c)
      PROVE  \A t \in Contexts : Inviting(t)' => Inviting(t)
  <2>1. Persisting(op, mem, c).op = op /\ Recording(op).op = op
    BY DEF Persisting, Recording, Idle
  <2>2. PICK h \in {Persisting(op, mem, c), Recording(op)} :
              handler' = [handler EXCEPT ![s] = h]
    BY <1>1 DEF Update
  <2>3. QED
    BY <2>1, <2>2 DEF Inviting, TypeInv, TypeOK
<1>2. ASSUME NEW s \in Slots, Request(s)
      PROVE  requests' # 0
  BY <1>2 DEF Request, TypeInv, TypeOK
<1>3. ASSUME NEW s \in Slots, RequestStep(s)
      PROVE  \A t \in Contexts : Inviting(t)' => Inviting(t)
  <2>1. CASE \E t \in Tabs \cup {NoTab} : Accept(s, t)
    BY <1>1, <2>1 DEF Accept, Ops
  <2>2. CASE Decline(s)
    BY <1>1, <2>2 DEF Decline, Ops
  <2>3. CASE Cancel(s)
    BY <1>1, <2>3 DEF Cancel, Ops
  <2>4. CASE End(s)
    BY <1>1, <2>4 DEF End, Ops
  <2>5. CASE Hold(s) \/ Resume(s)
    <3>1. PICK op \in {"hold", "resume"}, st \in {"held", "active"} :
                HoldOrResume(s, op, st)
      BY <2>5 DEF Hold, Resume
    <3>2. op \in Ops \ {"invite", "patch"}
      BY DEF Ops
    <3>3. CASE InMemory
      BY <1>1, <3>1, <3>2, <3>3 DEF HoldOrResume
    <3>4. CASE ~InMemory
      BY <3>1, <3>4 DEF HoldOrResume, Inviting, Idle, TypeInv, TypeOK
    <3>5. QED BY <3>3, <3>4
  <2>6. QED BY <1>3, <2>1, <2>2, <2>3, <2>4, <2>5 DEF RequestStep
<1>4. ASSUME NEW s \in Slots, RequestStep(s)
      PROVE  requests' # 0
  BY <1>2, <1>4
  DEF RequestStep, Accept, Decline, Cancel, End, Hold, Resume, HoldOrResume
<1>5. CASE \E t \in Tabs : Claim(t)
  BY <1>5 DEF Claim, Inviting, TypeInv, TypeOK
<1>6. CASE Fire
  <2>1. CASE InMemory /\ Ringing(heap[mem])
    BY <1>1, <1>6, <2>1 DEF Fire, Ops, boundVars
  <2>2. CASE ~(InMemory /\ Ringing(heap[mem]))
    BY <1>6, <2>2 DEF Fire, Inviting, boundVars
  <2>3. QED BY <2>1, <2>2
<1>7. ASSUME NEW s \in Contexts, HandlerStep(s) \/ DbFail(s)
      PROVE  (\A t \in Contexts : Inviting(t)' => Inviting(t)) /\ requests' = requests
  <2>1. handler[s] \in Handlers
    BY DEF TypeInv, TypeOK
  <2>2. CASE DbAck(s) \/ DbFail(s)
    <3> DEFINE c == heap[handler[s].ref]
    <3>1. handler' = [handler EXCEPT ![s] = AfterPersist(handler[s], c)]
      BY <2>2 DEF DbAck, DbFail
    <3> HIDE DEF c
    <3>2. AfterPersist(handler[s], c).op \in {"invite", "patch"}
            => handler[s].op \in {"invite", "patch"}
      BY <2>1 DEF AfterPersist, Recording, Idle, Handlers
    <3>3. QED
      BY <2>2, <3>1, <3>2 DEF DbAck, DbFail, Inviting, TypeInv, TypeOK, boundVars
  <2>3. CASE DbWrite(s)
    BY <2>1, <2>3 DEF DbWrite, Inviting, Handlers, TypeInv, TypeOK, boundVars
  <2>4. CASE FinishInvite(s) \/ Finish(s)
    BY <2>4 DEF FinishInvite, Finish, Inviting, Idle, TypeInv, TypeOK, boundVars
  <2>5. CASE DirectSelect(s)
    BY <2>1, <2>5 DEF DirectSelect, Inviting, Idle, Handlers, TypeInv, TypeOK, boundVars
  <2>6. CASE DirectUpdate(s)
    BY <2>1, <2>6 DEF DirectUpdate, Recording, Inviting, Idle, TypeInv, TypeOK, boundVars
  <2>7. QED BY <1>7, <2>2, <2>3, <2>4, <2>5, <2>6 DEF HandlerStep
<1>8. CASE \E loaded \in BOOLEAN : Restart(loaded)
  BY <1>8 DEF Restart, Inviting, Idle
<1>9. CASE UNCHANGED vars
  BY <1>9 DEF vars, callVars, boundVars, Inviting
<1>10. QED BY <1>3, <1>4, <1>5, <1>6, <1>7, <1>8, <1>9 DEF Next

\* Only one /invite is ever in flight, and only before the call is known.
LEMMA OneInviteStep ==
  ASSUME TypeInv, OneInvite, [Next]_vars
  PROVE  OneInvite'
<1> USE DEF Contexts
<1>1. ASSUME NEW s \in Slots, Invite(s) PROVE OneInvite'
  <2>1. requests = 0 /\ ~known /\ requests' # 0 /\ ~known'
    BY <1>1 DEF Invite, Request, OneInvite
  <2>2. \A t \in Contexts : Inviting(t)' => t = s
    BY <1>1, <2>1 DEF Invite, OneInvite, Inviting, TypeInv, TypeOK
  <2>3. QED BY <2>1, <2>2 DEF OneInvite
<1>2. CASE \A s \in Slots : ~Invite(s)
  <2>1. /\ \A t \in Contexts : Inviting(t)' => Inviting(t)
        /\ requests' = 0 => requests = 0
    BY <1>2, InvitingLemma
  <2>2. CASE known' = known
    BY <2>1, <2>2 DEF OneInvite
  <2>3. CASE \E s \in Contexts : FinishInvite(s)
    <3>1. PICK s \in Contexts : FinishInvite(s)
      BY <2>3
    <3>2. Inviting(s) /\ ~Inviting(s)' /\ requests' = requests
      BY <3>1 DEF FinishInvite, Inviting, Idle, TypeInv, TypeOK, boundVars
    <3>3. requests # 0 /\ \A t \in Contexts : ~Inviting(t)'
      BY <2>1, <3>2 DEF OneInvite
    <3>4. QED BY <3>2, <3>3 DEF OneInvite
  <2>4. QED
    BY <1>2, <2>2, <2>3
    DEF Next, vars, callVars, RequestStep, HandlerStep, Accept, Decline, Cancel, End,
        Hold, Resume, HoldOrResume, Claim, Fire, DbWrite, DbAck, DbFail, DirectSelect,
        DirectUpdate, Finish, Restart
<1>3. QED BY <1>1, <1>2

\* What persistCall, its failure and a restart leave on the heap carries no
\* mark when nothing did before.
LEMMA CleanHeapStep ==
  ASSUME TypeInv, \A r \in Refs : Clean(heap[r]),
         NEW s \in Contexts, DbAck(s) \/ DbFail(s)
  PROVE  \A r \in Refs : Clean(heap'[r])
<1> USE DEF Contexts
<1> DEFINE h  == handler[s]
           hs == [handler EXCEPT ![s] = AfterPersist(h, heap[h.ref])]
<1>1. h.ref \in Refs
  BY DEF DbAck, DbFail, TypeInv, PersistHasObject, InPersist
<1>2. CASE DbFail(s)
  <2>1. heap' = Collected(heap, mem, hs)
    BY <1>2 DEF DbFail
  <2> HIDE DEF hs
  <2>2. QED BY <2>1, CollectedClean DEF TypeInv, TypeOK
<1>3. CASE DbAck(s) /\ ~InMemory
  <2>1. heap' = Collected(heap, h.ref, hs)
    BY <1>3 DEF DbAck
  <2> HIDE DEF hs
  <2>2. QED BY <2>1, CollectedClean DEF TypeInv, TypeOK
<1>4. CASE DbAck(s) /\ InMemory
  <2>1. PICK r \in Refs :
          heap' = Collected([heap EXCEPT ![r] = Merge(heap[mem], heap[h.ref])], r, hs)
    BY <1>4 DEF DbAck
  <2> DEFINE m  == Merge(heap[mem], heap[h.ref])
             hp == [heap EXCEPT ![r] = m]
  <2>2. heap[mem] \in Session /\ heap[h.ref] \in Session /\ Clean(heap[mem])
    BY <1>1, <1>4 DEF TypeInv, TypeOK, InMemory
  <2>3. m \in Session /\ Clean(m)
    BY <1>1, <2>2, MergeType, CleanLemma
  <2>4. hp \in [Refs -> Session] /\ \A q \in Refs : Clean(hp[q])
    <3> HIDE DEF m
    <3>1. QED BY <2>3 DEF TypeInv, TypeOK
  <2> HIDE DEF hs, hp
  <2>5. QED BY <2>1, <2>4, CollectedClean DEF hp
<1>5. QED BY <1>2, <1>3, <1>4

\* Until /invite has answered, nothing happens to the call.
LEMMA NothingBeforeKnownStep ==
  ASSUME TypeInv, NothingBeforeKnown, [Next]_vars
  PROVE  NothingBeforeKnown'
<1> USE DEF Contexts
<1>1. CASE known'
  BY <1>1 DEF NothingBeforeKnown
<1>2. CASE known
  <2>1. known'
    BY <1>2
    DEF Next, vars, callVars, RequestStep, HandlerStep, Invite, Accept, Decline, Cancel,
        End, Hold, Resume, HoldOrResume, Claim, Fire, DbWrite, DbAck, DbFail,
        DirectSelect, DirectUpdate, Finish, FinishInvite, Restart
  <2>2. QED BY <1>1, <2>1
<1>3. CASE ~known /\ ~known'
  <2>1. /\ claim = NoTab /\ timer = "none" /\ ~answered /\ Clean(row.val)
        /\ \A r \in Refs : Clean(heap[r])
        /\ \A t \in Contexts : Clean(handler[t].val)
    BY <1>3 DEF NothingBeforeKnown
  <2>2. ASSUME claim' = NoTab, timer' = "none", ~answered',
               Clean(row'.val), \A r \in Refs : Clean(heap'[r]),
               \A t \in Contexts : Clean(handler'[t].val)
        PROVE  NothingBeforeKnown'
    BY <2>2 DEF NothingBeforeKnown, Clean
  <2>3. CASE UNCHANGED vars
    BY <2>1, <2>2, <2>3 DEF vars, callVars, historyVars
  <2>4. ASSUME NEW s \in Slots, Invite(s) PROVE NothingBeforeKnown'
    <3>1. \A r \in Refs : Clean(heap'[r])
      BY <2>1, <2>4, CleanLemma DEF Invite, TypeInv, TypeOK
    <3>2. \A t \in Contexts : Clean(handler'[t].val)
      BY <2>1, <2>4, CleanLemma DEF Invite, Persisting, TypeInv, TypeOK
    <3>3. UNCHANGED <<claim, timer, answered, row>>
      BY <2>4 DEF Invite, historyVars
    <3>4. QED BY <2>1, <2>2, <3>1, <3>2, <3>3
  <2>5. ASSUME NEW s \in Contexts, DbWrite(s) PROVE NothingBeforeKnown'
    <3>1. \A t \in Contexts : Clean(handler'[t].val)
      BY <2>1, <2>5 DEF DbWrite, TypeInv, TypeOK, Handlers
    <3>2. Clean(row'.val) /\ UNCHANGED <<claim, timer, answered, heap>>
      BY <2>1, <2>5 DEF DbWrite, historyVars
    <3>3. QED BY <2>1, <2>2, <3>1, <3>2
  <2>6. ASSUME NEW s \in Contexts, DbAck(s) \/ DbFail(s) PROVE NothingBeforeKnown'
    <3>1. \A r \in Refs : Clean(heap'[r])
      BY <2>1, <2>6, CleanHeapStep
    <3> DEFINE c == heap[handler[s].ref]
    <3>2. handler' = [handler EXCEPT ![s] = AfterPersist(handler[s], c)]
      BY <2>6 DEF DbAck, DbFail
    <3>3. handler[s] \in Handlers /\ c \in Session /\ Clean(c)
      BY <2>1, <2>6 DEF DbAck, DbFail, TypeInv, TypeOK, PersistHasObject, InPersist
    <3>4. Clean(AfterPersist(handler[s], c).val)
      BY <2>1, <3>3, CleanLemma
    <3> HIDE DEF c
    <3>5. \A t \in Contexts : Clean(handler'[t].val)
      BY <2>1, <3>2, <3>4 DEF TypeInv, TypeOK
    <3>6. UNCHANGED <<claim, timer, answered, row>>
      BY <2>6 DEF DbAck, DbFail, historyVars
    <3>7. QED BY <2>1, <2>2, <3>1, <3>5, <3>6
  <2>7. ASSUME NEW s \in Contexts, DirectSelect(s) \/ DirectUpdate(s) \/ Finish(s)
        PROVE  NothingBeforeKnown'
    <3>1. PICK h : handler' = [handler EXCEPT ![s] = h] /\ h.val \in {handler[s].val, Idle.val}
      <4>1. Recording(handler[s].op).val = Idle.val
        BY DEF Recording, Idle
      <4>2. [handler[s] EXCEPT !.pc = "update"].val = handler[s].val
        BY DEF TypeInv, TypeOK, Handlers
      <4>3. QED BY <2>7, <4>1, <4>2 DEF DirectSelect, DirectUpdate, Finish
    <3>2. Clean(row'.val)
      BY <2>1, <2>7 DEF DirectSelect, DirectUpdate, Finish, Clean, TypeInv, TypeOK, Rows,
                        Session
    <3>3. timer' = "none" /\ UNCHANGED <<claim, answered, heap>>
      BY <2>1, <2>7 DEF DirectSelect, DirectUpdate, Finish, historyVars
    <3>4. \A t \in Contexts : Clean(handler'[t].val)
      BY <2>1, <3>1, CleanLemma DEF TypeInv, TypeOK
    <3>5. QED BY <2>1, <2>2, <3>2, <3>3, <3>4
  <2>8. ASSUME NEW loaded \in BOOLEAN, Restart(loaded) PROVE NothingBeforeKnown'
    <3>1. \A r \in Refs : Clean(heap'[r])
      BY <2>1, <2>8, CleanLemma DEF Restart
    <3>2. \A t \in Contexts : Clean(handler'[t].val)
      BY <2>8, CleanLemma DEF Restart
    <3>3. claim' = NoTab /\ timer' = "none" /\ UNCHANGED <<answered, row>>
      BY <2>8 DEF Restart
    <3>4. QED BY <2>1, <2>2, <3>1, <3>2, <3>3
  <2>9. QED
    BY <1>3, <2>1, <2>3, <2>4, <2>5, <2>6, <2>7, <2>8
    DEF Next, RequestStep, HandlerStep, Accept, Decline, Cancel, End, Hold, Resume,
        HoldOrResume, Claim, Fire, FinishInvite
<1>4. QED BY <1>1, <1>2, <1>3

\* While the timer is armed, nobody owns, answered or ended the call.
LEMMA ArmedStep ==
  ASSUME TypeInv, ArmedInv, [Next]_vars
  PROVE  ArmedMeansUnanswered'
<1> USE DEF Contexts
<1>1. CASE timer' # "armed"
  BY <1>1 DEF ArmedMeansUnanswered
<1>2. ASSUME NEW s \in Contexts, FinishInvite(s) PROVE ArmedMeansUnanswered'
  BY <1>2 DEF FinishInvite, ArmedInv, OneInvite, NothingBeforeKnown, Inviting,
              ArmedMeansUnanswered, Clean, historyVars
<1>3. CASE timer' = "armed" /\ timer = "armed"
  <2>1. claim = NoTab /\ ~answered /\ \A r \in Refs : Clean(heap[r])
    BY <1>3 DEF ArmedInv, ArmedMeansUnanswered
  <2>2. ASSUME claim' = NoTab, ~answered', \A r \in Refs : Clean(heap'[r])
        PROVE  ArmedMeansUnanswered'
    BY <2>2 DEF ArmedMeansUnanswered, Clean
  <2>3. CASE UNCHANGED <<claim, answered, heap>>
    BY <2>1, <2>2, <2>3
  <2>4. ASSUME NEW s \in Slots, Invite(s) PROVE ArmedMeansUnanswered'
    BY <2>1, <2>2, <2>4, CleanLemma DEF Invite, TypeInv, TypeOK, historyVars
  <2>5. ASSUME NEW s \in Slots, Hold(s) \/ Resume(s) PROVE ArmedMeansUnanswered'
    <3>1. PICK op \in {"hold", "resume"}, st \in {"held", "active"} :
                HoldOrResume(s, op, st)
      BY <2>5 DEF Hold, Resume
    <3>2. CASE ~InMemory
      BY <2>3, <3>1, <3>2 DEF HoldOrResume
    <3>3. CASE InMemory
      <4>1. heap[mem] \in Session /\ Clean(heap[mem])
        BY <2>1, <3>3 DEF InMemory, TypeInv, TypeOK
      <4>2. Clean([heap[mem] EXCEPT !.state = st])
        BY <4>1 DEF Clean, Session
      <4>3. heap' = [heap EXCEPT ![mem] = [heap[mem] EXCEPT !.state = st]]
        BY <3>1, <3>3 DEF HoldOrResume, Update, Current
      <4>4. \A r \in Refs : Clean(heap'[r])
        BY <2>1, <4>2, <4>3 DEF TypeInv, TypeOK
      <4>5. QED BY <2>1, <2>2, <3>1, <4>4 DEF HoldOrResume
    <3>4. QED BY <3>2, <3>3
  <2>6. ASSUME NEW s \in Contexts, DbAck(s) \/ DbFail(s) PROVE ArmedMeansUnanswered'
    <3>1. \A r \in Refs : Clean(heap'[r])
      BY <2>1, <2>6, CleanHeapStep
    <3>2. QED BY <2>1, <2>2, <2>6, <3>1 DEF DbAck, DbFail, historyVars
  <2>7. ASSUME NEW s \in Contexts,
               DbWrite(s) \/ DirectSelect(s) \/ DirectUpdate(s) \/ Finish(s)
        PROVE  ArmedMeansUnanswered'
    BY <2>3, <2>7 DEF DbWrite, DirectSelect, DirectUpdate, Finish, historyVars
  <2>8. CASE UNCHANGED vars
    BY <2>3, <2>8 DEF vars, callVars, historyVars
  <2>9. QED
    BY <1>2, <1>3, <2>4, <2>5, <2>6, <2>7, <2>8
    DEF Next, RequestStep, HandlerStep, Accept, Decline, Cancel, End, Claim, Fire, Restart
<1>4. ASSUME timer' = "armed", timer # "armed" PROVE \E s \in Contexts : FinishInvite(s)
  BY <1>4
  DEF Next, vars, callVars, RequestStep, HandlerStep, Invite, Accept, Decline, Cancel,
      End, Hold, Resume, HoldOrResume, Claim, Fire, DbWrite, DbAck, DbFail,
      DirectSelect, DirectUpdate, Finish, Restart
<1>5. QED BY <1>1, <1>2, <1>3, <1>4

\* The whole strengthening holds at boot and is preserved.
LEMMA ArmedInvariant == Spec => [](TypeInv /\ ArmedInv)
<1>1. Init => TypeInv /\ ArmedInv
  <2> SUFFICES ASSUME Init PROVE ArmedInv
    BY InitTypes
  <2>1. OneInvite
    BY DEF Init, OneInvite, Inviting, Idle
  <2>2. NothingBeforeKnown
    BY CleanLemma DEF Init, NothingBeforeKnown
  <2>3. ArmedMeansUnanswered
    BY DEF Init, ArmedMeansUnanswered
  <2>4. QED BY <2>1, <2>2, <2>3 DEF ArmedInv
<1>2. TypeInv /\ ArmedInv /\ [Next]_vars => (TypeInv /\ ArmedInv)'
  <2> SUFFICES ASSUME TypeInv, ArmedInv, [Next]_vars PROVE TypeInv' /\ ArmedInv'
    OBVIOUS
  <2>1. TypeInv'
    BY TypeStep
  <2>2. OneInvite' /\ NothingBeforeKnown' /\ ArmedMeansUnanswered'
    BY OneInviteStep, NothingBeforeKnownStep, ArmedStep DEF ArmedInv
  <2>3. QED BY <2>1, <2>2 DEF ArmedInv
<1>3. QED BY <1>1, <1>2, PTL DEF Spec

\* The 30 second timer is armed only while nobody owns, answered or ended the
\* call, for any number of tabs, requests, failures and restarts.
THEOREM TimerDiscipline == Spec => []ArmedMeansUnanswered
<1>1. ArmedInv => ArmedMeansUnanswered
  BY DEF ArmedInv
<1>2. QED BY <1>1, ArmedInvariant, PTL

\* Only the timer callback puts its context to work.
LEMMA OnlyFireTimesOut ==
  ASSUME TypeInv, Next, handler[TimerSlot].op = "idle", handler'[TimerSlot].op = "timeout"
  PROVE  Fire
<1> USE DEF Contexts
<1>1. ASSUME handler'[TimerSlot] = handler[TimerSlot] PROVE FALSE
  BY <1>1
<1>2. ASSUME NEW s \in Slots, NEW op, NEW c, Update(s, op, c) PROVE FALSE
  BY <1>1, <1>2, SlotAssumption DEF Update, TypeInv, TypeOK
<1>3. ASSUME NEW s \in Slots, RequestStep(s) PROVE FALSE
  <2>1. CASE Invite(s)
    BY <1>1, <2>1, SlotAssumption DEF Invite, TypeInv, TypeOK
  <2>2. CASE (\E t \in Tabs \cup {NoTab} : Accept(s, t)) \/ Decline(s) \/ Cancel(s) \/ End(s)
    BY <1>2, <2>2 DEF Accept, Decline, Cancel, End
  <2>3. CASE Hold(s) \/ Resume(s)
    BY <1>1, <1>2, <2>3, SlotAssumption DEF Hold, Resume, HoldOrResume, TypeInv, TypeOK
  <2>4. QED BY <1>3, <2>1, <2>2, <2>3 DEF RequestStep
<1>4. ASSUME NEW s \in Contexts, HandlerStep(s) \/ DbFail(s) PROVE FALSE
  <2>1. CASE s # TimerSlot
    BY <1>1, <1>4, <2>1
    DEF HandlerStep, FinishInvite, DbWrite, DbAck, DbFail, DirectSelect, DirectUpdate,
        Finish, TypeInv, TypeOK
  <2>2. CASE s = TimerSlot
    <3>1. handler[s] \in Handlers
      BY DEF TypeInv, TypeOK
    <3>2. CASE DbAck(s) \/ DbFail(s)
      <4> DEFINE c == heap[handler[s].ref]
      <4>1. handler'[s] = AfterPersist(handler[s], c)
        BY <3>2 DEF DbAck, DbFail, TypeInv, TypeOK
      <4> HIDE DEF c
      <4>2. AfterPersist(handler[s], c).op = "idle"
        BY <2>2 DEF AfterPersist, Recording, Idle
      <4>3. QED BY <2>2, <4>1, <4>2
    <3>3. CASE DbWrite(s)
      BY <2>2, <3>1, <3>3 DEF DbWrite, Handlers, TypeInv, TypeOK
    <3>4. CASE FinishInvite(s) \/ Finish(s)
      BY <2>2, <3>4 DEF FinishInvite, Finish, Idle, TypeInv, TypeOK
    <3>5. CASE DirectSelect(s)
      BY <2>2, <3>1, <3>5 DEF DirectSelect, Idle, Handlers, TypeInv, TypeOK
    <3>6. CASE DirectUpdate(s)
      BY <2>2, <3>6 DEF DirectUpdate, Recording, Idle, TypeInv, TypeOK
    <3>7. QED BY <1>4, <3>2, <3>3, <3>4, <3>5, <3>6 DEF HandlerStep
  <2>3. QED BY <2>1, <2>2
<1>5. ASSUME \E t \in Tabs : Claim(t) PROVE FALSE
  BY <1>1, <1>5 DEF Claim
<1>6. ASSUME NEW loaded \in BOOLEAN, Restart(loaded) PROVE FALSE
  BY <1>6 DEF Restart, Idle
<1>7. QED BY <1>3, <1>4, <1>5, <1>6 DEF Next

\* Hence a call that somebody claimed, answered or ended never times out.
THEOREM NoLateTimeout == Spec => NoTimeoutOnceAnswered
<1>1. TypeInv /\ ArmedInv /\ [Next]_vars => [TimeoutStep]_vars
  <2> SUFFICES ASSUME TypeInv, ArmedInv, Next,
                      handler'[TimerSlot].op = "timeout", handler[TimerSlot].op = "idle"
               PROVE  claim = NoTab /\ ~answered
    BY DEF TimeoutStep
  <2>1. CASE Fire
    BY <2>1 DEF Fire, ArmedInv, ArmedMeansUnanswered
  <2>2. CASE ~Fire
    <3>1. QED BY <2>2, OnlyFireTimesOut
  <2>3. QED BY <2>1, <2>2
<1>2. QED BY <1>1, ArmedInvariant, PTL DEF Spec, NoTimeoutOnceAnswered
-----------------------------------------------------------------------------
(* Who persists what *)

\* What a request other than /invite, or the timeout callback, does to the
\* session: it passes a session that keeps every mark to Update, or goes to the
\* table because memory has no entry, or (the callback) does nothing.
LEMMA Effect ==
  ASSUME TypeInv, ArmedInv, NEW s \in Contexts,
         (s \in Slots /\ RequestStep(s) /\ ~Invite(s)) \/ (s = TimerSlot /\ Fire)
  PROVE  /\ known /\ requests # 0 /\ requests' # 0
         /\ UNCHANGED <<known, mem, row, failures, restarts>>
         /\ \/ \E op \in Ops \ {"idle", "invite", "patch"}, c \in Session :
                 /\ Update(s, op, c)
                 /\ Current.connected => c.connected
                 /\ Current.reason # "none" => c.reason # "none"
            \/ /\ ~InMemory
               /\ UNCHANGED <<heap, raced>>
               /\ \E op \in {"hold", "resume"} :
                    handler' = [handler EXCEPT ![s] = [Idle EXCEPT !.op = op, !.pc = "select"]]
            \/ UNCHANGED <<heap, raced, handler>>
<1> USE DEF Contexts
<1>1. known => requests # 0
  BY DEF ArmedInv, OneInvite
<1>2. Current \in Session
  BY CurrentType
<1> DEFINE Keeps(c) == /\ c \in Session
                       /\ Current.connected => c.connected
                       /\ Current.reason # "none" => c.reason # "none"
<1>3. ASSUME NEW st \in States, NEW re \in Reasons \ {"none"}
      PROVE  /\ Keeps([Current EXCEPT !.state = st, !.connected = TRUE])
             /\ Keeps([Current EXCEPT !.state = st, !.reason = re])
             /\ Keeps([Current EXCEPT !.state = st])
  BY <1>2 DEF Session
<1>4. /\ {"connecting", "ended", "held", "active"} \subseteq States
      /\ {"declined", "cancelled", "completed", "timeout"} \subseteq Reasons \ {"none"}
      /\ {"accept", "decline", "cancel", "end", "hold", "resume", "timeout"}
            \subseteq Ops \ {"idle", "invite", "patch"}
  BY DEF States, Reasons, Ops
<1>5. ASSUME NEW t \in Tabs \cup {NoTab}, s \in Slots, Accept(s, t)
      PROVE  /\ known /\ requests' # 0 /\ UNCHANGED <<known, mem, row, failures, restarts>>
             /\ Update(s, "accept", [Current EXCEPT !.state = "connecting", !.connected = TRUE])
  BY <1>5 DEF Accept, Request, TypeInv, TypeOK
<1>6. ASSUME s \in Slots, Decline(s) \/ Cancel(s) \/ End(s)
      PROVE  /\ known /\ requests' # 0 /\ UNCHANGED <<known, mem, row, failures, restarts>>
             /\ \E op \in {"decline", "cancel", "end"},
                   re \in {"declined", "cancelled", "completed"} :
                     Update(s, op, [Current EXCEPT !.state = "ended", !.reason = re])
  BY <1>6 DEF Decline, Cancel, End, Request, TypeInv, TypeOK
<1>7. ASSUME s \in Slots, Hold(s) \/ Resume(s)
      PROVE  /\ known /\ requests' # 0 /\ UNCHANGED <<known, mem, row, failures, restarts>>
             /\ \E op \in {"hold", "resume"}, st \in {"held", "active"} :
                  IF InMemory
                  THEN Update(s, op, [Current EXCEPT !.state = st])
                  ELSE /\ handler' = [handler EXCEPT ![s] =
                                        [Idle EXCEPT !.op = op, !.pc = "select"]]
                       /\ UNCHANGED <<heap, raced>>
  BY <1>7 DEF Hold, Resume, HoldOrResume, Request, TypeInv, TypeOK
<1>8. ASSUME s = TimerSlot, Fire
      PROVE  /\ known /\ requests' = requests
             /\ UNCHANGED <<known, mem, row, failures, restarts>>
             /\ \/ Update(s, "timeout", [Current EXCEPT !.state = "ended", !.reason = "timeout"])
                \/ UNCHANGED <<heap, raced, handler>>
  BY <1>8 DEF Fire, boundVars, ArmedInv, NothingBeforeKnown
<1>9. CASE s \in Slots /\ \E t \in Tabs \cup {NoTab} : Accept(s, t)
  <2> DEFINE c == [Current EXCEPT !.state = "connecting", !.connected = TRUE]
  <2>1. Keeps(c) /\ Update(s, "accept", c)
    BY <1>3, <1>4, <1>5, <1>9
  <2> HIDE DEF c
  <2>2. QED BY <1>1, <1>4, <1>5, <1>9, <2>1
<1>10. CASE s \in Slots /\ (Decline(s) \/ Cancel(s) \/ End(s))
  <2>1. PICK op \in {"decline", "cancel", "end"}, re \in {"declined", "cancelled", "completed"} :
               Update(s, op, [Current EXCEPT !.state = "ended", !.reason = re])
    BY <1>6, <1>10
  <2> DEFINE c == [Current EXCEPT !.state = "ended", !.reason = re]
  <2>2. Keeps(c) /\ Update(s, op, c)
    BY <1>3, <1>4, <2>1
  <2> HIDE DEF c
  <2>3. QED BY <1>1, <1>4, <1>6, <1>10, <2>2
<1>11. CASE s \in Slots /\ (Hold(s) \/ Resume(s))
  <2>1. CASE InMemory
    <3>1. PICK op \in {"hold", "resume"}, st \in {"held", "active"} :
                 Update(s, op, [Current EXCEPT !.state = st])
      BY <1>7, <1>11, <2>1
    <3> DEFINE c == [Current EXCEPT !.state = st]
    <3>2. Keeps(c) /\ Update(s, op, c)
      BY <1>3, <1>4, <3>1
    <3> HIDE DEF c
    <3>3. QED BY <1>1, <1>4, <1>7, <1>11, <3>2
  <2>2. CASE ~InMemory
    BY <1>1, <1>7, <1>11, <2>2
  <2>3. QED BY <2>1, <2>2
<1>12. CASE s = TimerSlot /\ Fire
  <2> DEFINE c == [Current EXCEPT !.state = "ended", !.reason = "timeout"]
  <2>1. Keeps(c) /\ (Update(s, "timeout", c) \/ UNCHANGED <<heap, raced, handler>>)
    BY <1>3, <1>4, <1>8, <1>12
  <2> HIDE DEF c
  <2>2. QED BY <1>1, <1>4, <1>8, <1>12, <2>1
<1>13. QED BY <1>9, <1>10, <1>11, <1>12 DEF RequestStep

\* Before the /invite nothing happens at all.
LEMMA NothingBeforeInviteStep ==
  ASSUME TypeInv, ArmedInv, NothingBeforeInvite, [Next]_vars
  PROVE  NothingBeforeInvite'
<1> USE DEF Contexts
<1>1. CASE requests' # 0
  BY <1>1 DEF NothingBeforeInvite
<1>2. ASSUME requests' = 0
      PROVE  NothingBeforeInvite'
  <2>1. requests = 0
    <3>1. requests \in Nat /\ requests' \in {requests, requests + 1}
      BY DEF Next, vars, boundVars, RequestStep, HandlerStep, Invite, Accept, Decline,
             Cancel, End, Hold, Resume, HoldOrResume, Request, Claim, Fire, DbWrite, DbAck,
             DbFail, DirectSelect, DirectUpdate, Finish, FinishInvite, Restart, TypeInv,
             TypeOK
    <3>2. QED BY <1>2, <3>1
  <2>2. /\ mem = NoRef /\ ~row.exists
        /\ \A s \in Contexts : handler[s] = Idle
        /\ ~known /\ timer = "none"
    BY <2>1 DEF NothingBeforeInvite, ArmedInv, OneInvite, NothingBeforeKnown
  <2>3. \A s \in Contexts : ~HandlerStep(s) /\ ~DbFail(s)
    BY <2>2 DEF HandlerStep, FinishInvite, DbWrite, DbAck, DbFail, DirectSelect,
                DirectUpdate, Finish, Idle
  <2>4. ~Fire /\ \A s \in Slots : ~RequestStep(s)
    BY <1>2, <2>1, <2>2
    DEF Fire, RequestStep, Invite, Accept, Decline, Cancel, End, Hold, Resume,
        HoldOrResume, Request
  <2>5. \A t \in Tabs : ~Claim(t)
    BY <2>2 DEF Claim
  <2>6. ASSUME NEW loaded \in BOOLEAN, Restart(loaded) PROVE NothingBeforeInvite'
    BY <2>2, <2>6 DEF Restart, NothingBeforeInvite
  <2>7. CASE UNCHANGED vars
    BY <2>7 DEF vars, callVars, boundVars, NothingBeforeInvite
  <2>8. QED BY <2>3, <2>4, <2>5, <2>6, <2>7 DEF Next
<1>3. QED BY <1>1, <1>2

\* The handler that leaves persistCall.
LEMMA LeavesPersist ==
  ASSUME TypeInv, NEW s \in Contexts, DbAck(s) \/ DbFail(s)
  PROVE  /\ handler[s].pc \in {"write", "ack"} /\ handler[s].ref \in Refs
         /\ handler[s].op = "invite" =>
              handler' = [handler EXCEPT ![s] =
                 [handler[s] EXCEPT !.op = "patch", !.pc = "write",
                                    !.val = heap[handler[s].ref]]]
         /\ handler[s].op # "invite" =>
              handler' = [handler EXCEPT ![s] = Recording(handler[s].op)]
<1> DEFINE c == heap[handler[s].ref]
<1>1. handler' = [handler EXCEPT ![s] = AfterPersist(handler[s], c)]
  BY DEF DbAck, DbFail
<1>2. handler[s].pc \in {"write", "ack"} /\ handler[s].ref \in Refs
  BY DEF DbAck, DbFail, TypeInv, PersistHasObject, InPersist
<1> HIDE DEF c
<1>3. QED BY <1>1, <1>2 DEF AfterPersist, c

\* What a handler record has when it enters or leaves a phase.
LEMMA Phases ==
  /\ Idle.op = "idle" /\ Idle.pc = "idle" /\ Idle.ref = NoRef
  /\ \A op, r, c : /\ Persisting(op, r, c).op = op
                   /\ Persisting(op, r, c).pc = "write"
                   /\ Persisting(op, r, c).ref = r
                   /\ Persisting(op, r, c).val = c
  /\ \A op : Recording(op).op = op /\ Recording(op).pc = "history" /\ Recording(op).ref = NoRef
  /\ \A op : /\ [Idle EXCEPT !.op = op, !.pc = "select"].op = op
             /\ [Idle EXCEPT !.op = op, !.pc = "select"].pc = "select"
  /\ \A h \in Handlers : \A c :
        LET p == [h EXCEPT !.op = "patch", !.pc = "write", !.val = c]
        IN  p.op = "patch" /\ p.pc = "write" /\ p.val = c /\ p.ref = h.ref
  /\ \A h \in Handlers : \A pc :
        LET p == [h EXCEPT !.pc = pc]
        IN  p.op = h.op /\ p.pc = pc /\ p.val = h.val /\ p.ref = h.ref
  BY DEF Idle, Persisting, Recording, Handlers
\* The handler that Update leaves behind, and the object it wrote.
LEMMA AfterUpdate ==
  ASSUME TypeInv, NEW s \in Contexts, NEW op, NEW c \in Session, Update(s, op, c)
  PROVE  /\ InMemory =>
              /\ mem \in Refs
              /\ handler' = [handler EXCEPT ![s] = Persisting(op, mem, c)]
              /\ heap' = [heap EXCEPT ![mem] = c] /\ heap'[mem] = c
              /\ raced' = (raced \/ \E t \in Contexts : InPersist(t))
         /\ ~InMemory =>
              /\ handler' = [handler EXCEPT ![s] = Recording(op)]
              /\ UNCHANGED <<heap, raced>>
  BY DEF Update, TypeInv, TypeOK, InMemory

\* Until the call is known only its /invite is at work.
LEMMA OnlyInviteStep ==
  ASSUME TypeInv, ArmedInv, EntryInv, [Next]_vars
  PROVE  OnlyInviteBeforeKnown'
<1> USE DEF Contexts
<1>1. CASE known'
  BY <1>1 DEF OnlyInviteBeforeKnown
<1>2. ASSUME ~known' PROVE OnlyInviteBeforeKnown'
  <2>1. ~known
    BY <1>2
    DEF Next, vars, callVars, RequestStep, HandlerStep, Invite, Accept, Decline, Cancel,
        End, Hold, Resume, HoldOrResume, Claim, Fire, DbWrite, DbAck, DbFail,
        DirectSelect, DirectUpdate, Finish, FinishInvite, Restart
  <2>2. \A t \in Contexts : Inviting(t) \/ handler[t] = Idle
    BY <2>1 DEF EntryInv, OnlyInviteBeforeKnown
  <2>3. ASSUME NEW s \in Contexts, NEW h, h.op \in {"invite", "patch"} \/ h = Idle,
               handler' = [handler EXCEPT ![s] = h]
        PROVE  OnlyInviteBeforeKnown'
    BY <2>2, <2>3 DEF OnlyInviteBeforeKnown, Inviting, TypeInv, TypeOK
  <2>4. ASSUME NEW s \in Slots, Invite(s) PROVE OnlyInviteBeforeKnown'
    <3>1. PICK r \in Refs :
             handler' = [handler EXCEPT ![s] = Persisting("invite", r, NewSession)]
      BY <2>4 DEF Invite
    <3>2. Persisting("invite", r, NewSession).op = "invite"
      BY Phases
    <3>3. QED BY <2>3, <3>1, <3>2
  <2>5. ASSUME NEW s \in Contexts, DbWrite(s) PROVE OnlyInviteBeforeKnown'
    <3>1. /\ handler' = [handler EXCEPT ![s] = [handler[s] EXCEPT !.pc = "ack"]]
          /\ Inviting(s) /\ handler[s] \in Handlers
      BY <2>2, <2>5, Phases DEF DbWrite, TypeInv, TypeOK
    <3>2. [handler[s] EXCEPT !.pc = "ack"].op = handler[s].op
      BY <3>1, Phases
    <3>3. QED BY <2>3, <3>1, <3>2 DEF Inviting
  <2>6. ASSUME NEW s \in Contexts, DbAck(s) \/ DbFail(s) PROVE OnlyInviteBeforeKnown'
    <3>1. handler[s].pc \in {"write", "ack"} /\ handler[s] \in Handlers /\ Inviting(s)
      BY <2>2, <2>6, Phases DEF DbAck, DbFail, TypeInv, TypeOK
    <3>2. CASE handler[s].op = "invite"
      <4> DEFINE h == [handler[s] EXCEPT !.op = "patch", !.pc = "write",
                                         !.val = heap[handler[s].ref]]
      <4>1. h.op = "patch"
        BY <3>1 DEF Handlers
      <4>2. handler' = [handler EXCEPT ![s] = h]
        BY <2>6, <3>2, LeavesPersist
      <4> HIDE DEF h
      <4>3. QED BY <2>3, <4>1, <4>2
    <3>3. CASE handler[s].op = "patch"
      <4>1. handler' = [handler EXCEPT ![s] = Recording("patch")]
        BY <2>6, <3>3, LeavesPersist
      <4>2. QED BY <2>3, <4>1, Phases
    <3>4. QED BY <3>1, <3>2, <3>3 DEF Inviting
  <2>7. ASSUME NEW s \in Contexts,
               DirectSelect(s) \/ DirectUpdate(s) \/ Finish(s) \/ FinishInvite(s)
        PROVE  FALSE
    <3>1. handler[s] \in Handlers /\ ~FinishInvite(s)
      BY <1>2 DEF FinishInvite, TypeInv, TypeOK
    <3>2. handler[s].pc \in {"select", "update", "history"} /\ Inviting(s)
      BY <2>2, <2>7, <3>1, Phases DEF DirectSelect, DirectUpdate, Finish
    <3>3. handler[s].pc # "select" /\ handler[s].pc # "update"
      BY <3>2 DEF EntryInv, HandlerPhases, Inviting, InPersist
    <3>4. handler[s].op = "patch"
      BY <3>2, <3>3 DEF EntryInv, HandlerPhases, Inviting, InPersist
    <3>5. QED BY <2>7, <3>1, <3>3, <3>4 DEF DirectSelect, DirectUpdate, Finish
  <2>8. ASSUME NEW loaded \in BOOLEAN, Restart(loaded) PROVE OnlyInviteBeforeKnown'
    BY <2>8 DEF Restart, OnlyInviteBeforeKnown
  <2>9. CASE UNCHANGED vars
    BY <2>2, <2>9 DEF vars, callVars, OnlyInviteBeforeKnown, Inviting
  <2>10. QED
    BY <2>1, <2>4, <2>5, <2>6, <2>7, <2>8, <2>9
    DEF Next, RequestStep, HandlerStep, Accept, Decline, Cancel, End, Hold, Resume,
        HoldOrResume, Claim, Fire, ArmedInv, NothingBeforeKnown
<1>3. QED BY <1>1, <1>2

\* The phases of a handler come in their order.
LEMMA HandlerPhasesStep ==
  ASSUME TypeInv, ArmedInv, EntryInv, [Next]_vars
  PROVE  HandlerPhases'
<1> USE DEF Contexts
<1>1. /\ \A t \in Contexts : handler[t] \in Handlers
      /\ \A t \in Contexts : handler[t].pc \in {"write", "ack"} => handler[t].op # "idle"
      /\ \A t \in Contexts : handler[t].op = "invite" => handler[t].pc \in {"write", "ack"}
      /\ \A t \in Contexts :
            handler[t].op = "patch" => handler[t].pc \in {"write", "ack", "history"}
  BY DEF TypeInv, TypeOK, EntryInv, HandlerPhases, InPersist, Busy
<1>2. ASSUME NEW s \in Contexts, NEW h,
             h.pc \in {"write", "ack"} => h.op # "idle",
             h.op = "invite" => h.pc \in {"write", "ack"},
             h.op = "patch" => h.pc \in {"write", "ack", "history"},
             handler' = [handler EXCEPT ![s] = h]
      PROVE  HandlerPhases'
  BY <1>1, <1>2 DEF HandlerPhases, InPersist, Busy, TypeInv, TypeOK
<1>3. CASE UNCHANGED handler
  BY <1>1, <1>3 DEF HandlerPhases, InPersist, Busy
<1>4. ASSUME NEW s \in Slots, Invite(s) PROVE HandlerPhases'
  <2>1. PICK r \in Refs : handler' = [handler EXCEPT ![s] = Persisting("invite", r, NewSession)]
    BY <1>4 DEF Invite
  <2>2. /\ Persisting("invite", r, NewSession).op = "invite"
        /\ Persisting("invite", r, NewSession).pc = "write"
    BY Phases
  <2>3. QED BY <1>2, <2>1, <2>2
<1>5. ASSUME NEW s \in Contexts,
             (s \in Slots /\ RequestStep(s) /\ ~Invite(s)) \/ (s = TimerSlot /\ Fire)
      PROVE  HandlerPhases'
  <2>1. CASE \E op \in Ops \ {"idle", "invite", "patch"}, c \in Session : Update(s, op, c)
    <3>1. PICK op \in Ops \ {"idle", "invite", "patch"}, c \in Session : Update(s, op, c)
      BY <2>1
    <3>2. CASE InMemory
      <4>1. handler' = [handler EXCEPT ![s] = Persisting(op, mem, c)]
        BY <3>1, <3>2, AfterUpdate
      <4>2. Persisting(op, mem, c).op = op
        BY Phases
      <4>3. QED BY <1>2, <4>1, <4>2
    <3>3. CASE ~InMemory
      <4>1. handler' = [handler EXCEPT ![s] = Recording(op)] /\ Recording(op).op = op
        BY <3>1, <3>3, AfterUpdate, Phases
      <4>2. QED BY <1>2, <4>1
    <3>4. QED BY <3>2, <3>3
  <2>2. CASE \E op \in {"hold", "resume"} :
               handler' = [handler EXCEPT ![s] = [Idle EXCEPT !.op = op, !.pc = "select"]]
    <3>1. PICK op \in {"hold", "resume"} :
                 handler' = [handler EXCEPT ![s] = [Idle EXCEPT !.op = op, !.pc = "select"]]
      BY <2>2
    <3>2. [Idle EXCEPT !.op = op, !.pc = "select"].op = op
      BY Phases
    <3>3. QED BY <1>2, <3>1, <3>2
  <2>3. QED BY <1>3, <1>5, <2>1, <2>2, Effect
<1>6. ASSUME NEW s \in Contexts, DbWrite(s) PROVE HandlerPhases'
  <2>1. /\ handler' = [handler EXCEPT ![s] = [handler[s] EXCEPT !.pc = "ack"]]
        /\ [handler[s] EXCEPT !.pc = "ack"].pc = "ack"
        /\ [handler[s] EXCEPT !.pc = "ack"].op = handler[s].op
        /\ handler[s].pc = "write"
    BY <1>1, <1>6, Phases DEF DbWrite
  <2>2. QED BY <1>1, <1>2, <2>1
<1>7. ASSUME NEW s \in Contexts, DbAck(s) \/ DbFail(s) PROVE HandlerPhases'
  <2>1. CASE handler[s].op = "invite"
    <3> DEFINE h == [handler[s] EXCEPT !.op = "patch", !.pc = "write",
                                       !.val = heap[handler[s].ref]]
    <3>1. h.op = "patch" /\ h.pc = "write"
      BY <1>1 DEF Handlers
    <3>2. handler' = [handler EXCEPT ![s] = h]
      BY <1>7, <2>1, LeavesPersist
    <3> HIDE DEF h
    <3>3. QED BY <1>2, <3>1, <3>2
  <2>2. CASE handler[s].op # "invite"
    <3>1. /\ handler' = [handler EXCEPT ![s] = Recording(handler[s].op)]
          /\ Recording(handler[s].op).op = handler[s].op
          /\ Recording(handler[s].op).pc = "history"
      BY <1>7, <2>2, LeavesPersist, Phases
    <3>2. QED BY <1>2, <2>2, <3>1
  <2>3. QED BY <2>1, <2>2
<1>8. ASSUME NEW s \in Contexts, DirectSelect(s) PROVE HandlerPhases'
  <2>1. handler[s].op \notin {"invite", "patch"}
    BY <1>1, <1>8 DEF DirectSelect
  <2>2. /\ [handler[s] EXCEPT !.pc = "update"].op = handler[s].op
        /\ [handler[s] EXCEPT !.pc = "update"].pc = "update"
    BY <1>1, Phases
  <2>3. \/ handler' = [handler EXCEPT ![s] = [handler[s] EXCEPT !.pc = "update"]]
        \/ handler' = [handler EXCEPT ![s] = Idle]
    BY <1>8 DEF DirectSelect
  <2>4. Idle.op = "idle" /\ Idle.pc = "idle"
    BY Phases
  <2>5. CASE handler' = [handler EXCEPT ![s] = Idle]
    BY <1>2, <2>4, <2>5
  <2>6. CASE handler' = [handler EXCEPT ![s] = [handler[s] EXCEPT !.pc = "update"]]
    BY <1>2, <2>1, <2>2, <2>6
  <2>7. QED BY <2>3, <2>5, <2>6
<1>9. ASSUME NEW s \in Contexts, DirectUpdate(s) PROVE HandlerPhases'
  <2>1. /\ handler[s].op \notin {"invite", "patch"}
        /\ handler' = [handler EXCEPT ![s] = Recording(handler[s].op)]
        /\ Recording(handler[s].op).op = handler[s].op
        /\ Recording(handler[s].op).pc = "history"
    BY <1>1, <1>9, Phases DEF DirectUpdate
  <2>2. QED BY <1>2, <2>1
<1>10. ASSUME NEW s \in Contexts, Finish(s) \/ FinishInvite(s) PROVE HandlerPhases'
  BY <1>2, <1>10, Phases DEF Finish, FinishInvite
<1>11. CASE \E loaded \in BOOLEAN : Restart(loaded)
  BY <1>11, Phases DEF Restart, HandlerPhases, InPersist
<1>12. CASE UNCHANGED vars \/ \E t \in Tabs : Claim(t)
  BY <1>3, <1>12 DEF vars, callVars, Claim
<1>13. QED
  BY <1>4, <1>5, <1>6, <1>7, <1>8, <1>9, <1>10, <1>11, <1>12 DEF Next, HandlerStep

\* Only the /invite and a direct UPDATE ever meet an empty memory.
LEMMA WhoMeetsNoEntryStep ==
  ASSUME TypeInv, ArmedInv, EntryInv, [Next]_vars
  PROVE  WhoMeetsNoEntry'
<1> USE DEF Contexts
<1>1. /\ \A t \in Contexts : handler[t] \in Handlers
      /\ \A t \in Contexts : handler[t].pc \in {"select", "update"} => ~InMemory
      /\ \A t \in Contexts : handler[t].op = "invite" => ~InMemory
      /\ \A t \in Contexts : handler[t].pc \in {"write", "ack"} =>
            InMemory \/ handler[t].op \in {"invite", "patch"}
  BY DEF TypeInv, TypeOK, EntryInv, WhoMeetsNoEntry, InPersist, Inviting
<1>2. ASSUME NEW s \in Contexts, NEW h, mem' = mem,
             h.pc \in {"select", "update"} => ~InMemory,
             h.op = "invite" => ~InMemory,
             h.pc \in {"write", "ack"} => InMemory \/ h.op \in {"invite", "patch"},
             handler' = [handler EXCEPT ![s] = h]
      PROVE  WhoMeetsNoEntry'
  BY <1>1, <1>2 DEF WhoMeetsNoEntry, InPersist, Inviting, InMemory, TypeInv, TypeOK
<1>3. CASE UNCHANGED <<mem, handler>>
  BY <1>1, <1>3 DEF WhoMeetsNoEntry, InPersist, Inviting, InMemory
<1>4. ASSUME NEW s \in Slots, Invite(s) PROVE WhoMeetsNoEntry'
  <2>1. PICK r \in Refs : handler' = [handler EXCEPT ![s] = Persisting("invite", r, NewSession)]
    BY <1>4 DEF Invite
  <2>2. /\ Persisting("invite", r, NewSession).op = "invite"
        /\ Persisting("invite", r, NewSession).pc = "write"
    BY Phases
  <2>3. ~InMemory /\ mem' = mem
    BY <1>4 DEF Invite, InMemory, EntryInv, NothingBeforeInvite
  <2>4. QED BY <1>2, <2>1, <2>2, <2>3
<1>5. ASSUME NEW s \in Contexts,
             (s \in Slots /\ RequestStep(s) /\ ~Invite(s)) \/ (s = TimerSlot /\ Fire)
      PROVE  WhoMeetsNoEntry'
  <2>1. mem' = mem
    BY <1>5, Effect
  <2>2. CASE \E op \in Ops \ {"idle", "invite", "patch"}, c \in Session : Update(s, op, c)
    <3>1. PICK op \in Ops \ {"idle", "invite", "patch"}, c \in Session : Update(s, op, c)
      BY <2>2
    <3>2. CASE InMemory
      <4>1. handler' = [handler EXCEPT ![s] = Persisting(op, mem, c)]
        BY <3>1, <3>2, AfterUpdate
      <4>2. Persisting(op, mem, c).op = op /\ Persisting(op, mem, c).pc = "write"
        BY Phases
      <4>3. QED BY <1>2, <2>1, <3>2, <4>1, <4>2
    <3>3. CASE ~InMemory
      <4>1. /\ handler' = [handler EXCEPT ![s] = Recording(op)]
            /\ Recording(op).op = op /\ Recording(op).pc = "history"
        BY <3>1, <3>3, AfterUpdate, Phases
      <4>2. QED BY <1>2, <2>1, <4>1
    <3>4. QED BY <3>2, <3>3
  <2>3. CASE /\ ~InMemory
             /\ \E op \in {"hold", "resume"} :
               handler' = [handler EXCEPT ![s] = [Idle EXCEPT !.op = op, !.pc = "select"]]
    <3>1. PICK op \in {"hold", "resume"} :
                 handler' = [handler EXCEPT ![s] = [Idle EXCEPT !.op = op, !.pc = "select"]]
      BY <2>3
    <3>2. /\ [Idle EXCEPT !.op = op, !.pc = "select"].op = op
          /\ [Idle EXCEPT !.op = op, !.pc = "select"].pc = "select"
      BY Phases
    <3>3. QED BY <1>2, <2>1, <2>3, <3>1, <3>2
  <2>4. QED BY <1>3, <1>5, <2>1, <2>2, <2>3, Effect
<1>6. ASSUME NEW s \in Contexts, DbWrite(s) PROVE WhoMeetsNoEntry'
  <2> DEFINE h == [handler[s] EXCEPT !.pc = "ack"]
  <2>1. /\ handler' = [handler EXCEPT ![s] = h] /\ mem' = mem
        /\ handler[s].pc = "write"
    BY <1>6 DEF DbWrite
  <2>2. h.op = handler[s].op /\ h.pc = "ack"
    BY <1>1 DEF Handlers
  <2> HIDE DEF h
  <2>3. QED BY <1>1, <1>2, <2>1, <2>2
<1>7. ASSUME NEW s \in Contexts, DbFail(s) PROVE WhoMeetsNoEntry'
  <2>1. mem' = mem
    BY <1>7 DEF DbFail
  <2>2. CASE handler[s].op = "invite"
    <3> DEFINE h == [handler[s] EXCEPT !.op = "patch", !.pc = "write",
                                       !.val = heap[handler[s].ref]]
    <3>1. h.op = "patch" /\ h.pc = "write"
      BY <1>1 DEF Handlers
    <3>2. handler' = [handler EXCEPT ![s] = h]
      BY <1>7, <2>2, LeavesPersist
    <3> HIDE DEF h
    <3>3. QED BY <1>2, <2>1, <3>1, <3>2
  <2>3. CASE handler[s].op # "invite"
    <3>1. /\ handler' = [handler EXCEPT ![s] = Recording(handler[s].op)]
          /\ Recording(handler[s].op).op = handler[s].op
          /\ Recording(handler[s].op).pc = "history"
      BY <1>7, <2>3, LeavesPersist, Phases
    <3>2. QED BY <1>2, <2>1, <2>3, <3>1
  <2>4. QED BY <2>2, <2>3
<1>8. ASSUME NEW s \in Contexts, DbAck(s) PROVE WhoMeetsNoEntry'
  <2>1. handler[s].pc \in {"write", "ack"} /\ mem' # NoRef
    BY <1>8, LeavesPersist, RefAssumption DEF DbAck
  <2>2. \A t \in Contexts \ {s} :
           handler[t].pc \notin {"select", "update"} /\ handler[t].op # "invite"
    <3>1. CASE InMemory
      BY <1>1, <3>1
    <3>2. CASE ~InMemory
      <4>1. Inviting(s) /\ ~known
        BY <1>1, <2>1, <3>2 DEF Inviting, ArmedInv, OneInvite
      <4>2. \A t \in Contexts \ {s} : handler[t] = Idle
        BY <4>1 DEF EntryInv, OnlyInviteBeforeKnown, ArmedInv, OneInvite
      <4>3. QED BY <4>2, Phases
    <3>3. QED BY <3>1, <3>2
  <2>3. handler'[s].pc \in {"write", "history"} /\ handler'[s].op # "invite"
    <3>1. CASE handler[s].op = "invite"
      <4> DEFINE h == [handler[s] EXCEPT !.op = "patch", !.pc = "write",
                                         !.val = heap[handler[s].ref]]
      <4>1. h.op = "patch" /\ h.pc = "write"
        BY <1>1 DEF Handlers
      <4>2. handler' = [handler EXCEPT ![s] = h]
        BY <1>8, <3>1, LeavesPersist
      <4> HIDE DEF h
      <4>3. QED BY <4>1, <4>2 DEF TypeInv, TypeOK
    <3>2. CASE handler[s].op # "invite"
      <4>1. /\ handler' = [handler EXCEPT ![s] = Recording(handler[s].op)]
            /\ Recording(handler[s].op).op = handler[s].op
            /\ Recording(handler[s].op).pc = "history"
        BY <1>8, <3>2, LeavesPersist, Phases
      <4>2. QED BY <3>2, <4>1 DEF TypeInv, TypeOK
    <3>3. QED BY <3>1, <3>2
  <2>4. \A t \in Contexts \ {s} : handler'[t] = handler[t]
    BY <1>8 DEF DbAck, TypeInv, TypeOK
  <2>5. QED BY <2>1, <2>2, <2>3, <2>4 DEF WhoMeetsNoEntry, InMemory
<1>9. ASSUME NEW s \in Contexts, DirectSelect(s) PROVE WhoMeetsNoEntry'
  <2>1. handler[s].pc = "select" /\ ~InMemory /\ mem' = mem /\ handler[s].op # "invite"
    BY <1>1, <1>9 DEF DirectSelect, EntryInv, HandlerPhases, InPersist
  <2>2. /\ [handler[s] EXCEPT !.pc = "update"].op = handler[s].op
        /\ [handler[s] EXCEPT !.pc = "update"].pc = "update"
    BY <1>1, Phases
  <2>3. \/ handler' = [handler EXCEPT ![s] = [handler[s] EXCEPT !.pc = "update"]]
        \/ handler' = [handler EXCEPT ![s] = Idle]
    BY <1>9 DEF DirectSelect
  <2>4. Idle.op = "idle" /\ Idle.pc = "idle"
    BY Phases
  <2>5. CASE handler' = [handler EXCEPT ![s] = Idle]
    BY <1>2, <2>1, <2>4, <2>5
  <2>6. CASE handler' = [handler EXCEPT ![s] = [handler[s] EXCEPT !.pc = "update"]]
    BY <1>2, <2>1, <2>2, <2>6
  <2>7. QED BY <2>3, <2>5, <2>6
<1>10. ASSUME NEW s \in Contexts, DirectUpdate(s) PROVE WhoMeetsNoEntry'
  <2>1. /\ ~InMemory /\ mem' = mem
        /\ handler' = [handler EXCEPT ![s] = Recording(handler[s].op)]
        /\ Recording(handler[s].op).pc = "history"
    BY <1>1, <1>10, Phases DEF DirectUpdate
  <2>2. QED BY <1>2, <2>1
<1>11. ASSUME NEW s \in Contexts, Finish(s) \/ FinishInvite(s) PROVE WhoMeetsNoEntry'
  BY <1>2, <1>11, Phases DEF Finish, FinishInvite
<1>12. CASE \E loaded \in BOOLEAN : Restart(loaded)
  BY <1>12, Phases DEF Restart, WhoMeetsNoEntry, InPersist
<1>13. CASE UNCHANGED vars \/ \E t \in Tabs : Claim(t)
  BY <1>3, <1>13 DEF vars, callVars, Claim
<1>14. QED
  BY <1>4, <1>5, <1>6, <1>7, <1>8, <1>9, <1>10, <1>11, <1>12, <1>13 DEF Next, HandlerStep

\* Who is at work on what, at boot and after every step.
LEMMA EntryInvariant == Spec => [](TypeInv /\ ArmedInv /\ EntryInv)
<1>1. Init => EntryInv
  BY Phases
  DEF Init, EntryInv, NothingBeforeInvite, OnlyInviteBeforeKnown, HandlerPhases,
      WhoMeetsNoEntry, InPersist, Inviting, NoRow
<1>2. TypeInv /\ ArmedInv /\ EntryInv /\ [Next]_vars => EntryInv'
  <2> SUFFICES ASSUME TypeInv, ArmedInv, EntryInv, [Next]_vars PROVE EntryInv'
    OBVIOUS
  <2>1. NothingBeforeInvite'
    BY NothingBeforeInviteStep DEF EntryInv
  <2>2. OnlyInviteBeforeKnown' /\ HandlerPhases' /\ WhoMeetsNoEntry'
    BY OnlyInviteStep, HandlerPhasesStep, WhoMeetsNoEntryStep
  <2>3. QED BY <2>1, <2>2 DEF EntryInv
<1>3. QED BY <1>1, <1>2, ArmedInvariant, PTL DEF Spec

-----------------------------------------------------------------------------
(* What memory knows is never forgotten *)

\* A referenced object survives the collection.
LEMMA CollectedKeeps ==
  ASSUME NEW hp, NEW m, NEW h, NEW r \in Refs, r = m \/ \E s \in Contexts : h[s].ref = r
  PROVE  Collected(hp, m, h)[r] = hp[r]
  BY DEF Collected, ReferredTo

\* What the entry is after persistCall has resumed or failed: the merge of the
\* old entry with the handler's object, that object, or the old entry.
LEMMA EntryAfterPersist ==
  ASSUME TypeInv, NEW s \in Contexts
  PROVE  /\ DbAck(s) /\ InMemory =>
              mem' \in Refs /\ heap'[mem'] = Merge(heap[mem], heap[handler[s].ref])
         /\ DbAck(s) /\ ~InMemory =>
              mem' = handler[s].ref /\ heap'[mem'] = heap[handler[s].ref]
         /\ DbFail(s) /\ InMemory => mem' = mem /\ heap'[mem'] = heap[mem]
<1> DEFINE hs == [handler EXCEPT ![s] = AfterPersist(handler[s], heap[handler[s].ref])]
<1>1. ASSUME DbAck(s), InMemory
      PROVE  mem' \in Refs /\ heap'[mem'] = Merge(heap[mem], heap[handler[s].ref])
  <2> DEFINE m == Merge(heap[mem], heap[handler[s].ref])
  <2>1. PICK r \in Refs : mem' = r /\ heap' = Collected([heap EXCEPT ![r] = m], r, hs)
    BY <1>1 DEF DbAck
  <2> HIDE DEF hs, m
  <2> DEFINE hp == [heap EXCEPT ![r] = m]
  <2>0. heap' = Collected(hp, r, hs)
    BY <2>1
  <2> HIDE DEF hp
  <2>2. heap'[r] = hp[r]
    BY <2>0, CollectedKeeps
  <2>3. heap \in [Refs -> Session]
    BY DEF TypeInv, TypeOK
  <2>4. heap'[mem'] = m
    BY <2>1, <2>2, <2>3 DEF hp
  <2>5. QED BY <2>1, <2>4 DEF m
<1>2. ASSUME DbAck(s), ~InMemory
      PROVE  mem' = handler[s].ref /\ heap'[mem'] = heap[handler[s].ref]
  <2>1. handler[s].ref \in Refs
    BY <1>2 DEF DbAck, TypeInv, PersistHasObject, InPersist
  <2>2. mem' = handler[s].ref /\ heap' = Collected(heap, handler[s].ref, hs)
    BY <1>2 DEF DbAck
  <2> HIDE DEF hs
  <2>3. QED BY <2>1, <2>2, CollectedKeeps
<1>3. ASSUME DbFail(s), InMemory
      PROVE  mem' = mem /\ heap'[mem'] = heap[mem]
  <2>1. mem \in Refs /\ mem' = mem /\ heap' = Collected(heap, mem, hs)
    BY <1>3 DEF DbFail, InMemory, TypeInv, TypeOK
  <2> HIDE DEF hs
  <2>2. QED BY <2>1, CollectedKeeps
<1>4. QED BY <1>1, <1>2, <1>3

\* However persistCall calls interleave, fail and merge, memory never forgets
\* that the call was connected or why it ended.
THEOREM MemoryKeepsFacts == Spec => FactsSurvive
<1>1. TypeInv /\ ArmedInv /\ EntryInv /\ [Next]_vars => [FactsSurviveStep]_vars
  <2> SUFFICES ASSUME TypeInv, ArmedInv, EntryInv, Next, restarts' = restarts, InMemory
               PROVE  /\ mem' # NoRef
                      /\ heap[mem].connected => heap'[mem'].connected
                      /\ heap[mem].reason # "none" => heap'[mem'].reason # "none"
    BY DEF FactsSurviveStep
  <2> USE DEF Contexts
  <2> DEFINE Goal == /\ mem' # NoRef
                     /\ heap[mem].connected => heap'[mem'].connected
                     /\ heap[mem].reason # "none" => heap'[mem'].reason # "none"
  <2>1. mem \in Refs /\ mem # NoRef /\ heap[mem] \in Session
    BY RefAssumption DEF InMemory, TypeInv, TypeOK
  <2>2. CASE UNCHANGED <<mem, heap>>
    BY <2>1, <2>2
  <2>3. \A s \in Slots : ~Invite(s)
    BY <2>1 DEF Invite, EntryInv, NothingBeforeInvite
  <2>4. ASSUME NEW s \in Contexts,
               (s \in Slots /\ RequestStep(s)) \/ (s = TimerSlot /\ Fire)
        PROVE  Goal
    <3>1. mem' = mem
      BY <2>3, <2>4, Effect
    <3>2. CASE UNCHANGED heap
      BY <2>2, <3>1, <3>2
    <3>3. CASE \E op \in Ops \ {"idle", "invite", "patch"}, c \in Session :
                  /\ Update(s, op, c)
                  /\ Current.connected => c.connected
                  /\ Current.reason # "none" => c.reason # "none"
      <4>1. PICK op \in Ops, c \in Session :
                  /\ Update(s, op, c)
                  /\ Current.connected => c.connected
                  /\ Current.reason # "none" => c.reason # "none"
        BY <3>3
      <4>2. heap'[mem] = c /\ Current = heap[mem]
        BY <4>1, AfterUpdate DEF Current
      <4>3. QED BY <2>1, <3>1, <4>1, <4>2
    <3>4. QED BY <2>3, <2>4, <3>2, <3>3, Effect
  <2>5. ASSUME NEW s \in Contexts, DbAck(s) \/ DbFail(s) PROVE Goal
    <3>1. heap[handler[s].ref] \in Session
      BY <2>5 DEF DbAck, DbFail, TypeInv, TypeOK, PersistHasObject, InPersist
    <3>2. CASE DbAck(s)
      <4>1. mem' \in Refs /\ heap'[mem'] = Merge(heap[mem], heap[handler[s].ref])
        BY <3>2, EntryAfterPersist
      <4>2. QED BY <2>1, <3>1, <4>1, RefAssumption DEF Merge, Session
    <3>3. CASE DbFail(s)
      BY <2>1, <3>3, EntryAfterPersist
    <3>4. QED BY <2>5, <3>2, <3>3
  <2>6. ASSUME NEW s \in Contexts,
               FinishInvite(s) \/ DbWrite(s) \/ DirectSelect(s) \/ DirectUpdate(s) \/ Finish(s)
        PROVE  Goal
    BY <2>2, <2>6 DEF FinishInvite, DbWrite, DirectSelect, DirectUpdate, Finish
  <2>7. ASSUME NEW t \in Tabs, Claim(t) PROVE Goal
    BY <2>2, <2>7 DEF Claim
  <2>8. ASSUME NEW loaded \in BOOLEAN, Restart(loaded) PROVE FALSE
    BY <2>8 DEF Restart, TypeInv, TypeOK
  <2> HIDE DEF Goal
  <2>9. Goal
    BY <2>4, <2>5, <2>6, <2>7, <2>8 DEF Next, HandlerStep
  <2>10. QED BY <2>9 DEF Goal
<1>2. QED BY <1>1, EntryInvariant, PTL DEF Spec, FactsSurvive

-----------------------------------------------------------------------------
(* Write-through, while no two persistCall overlap *)

\* Merging a session with itself changes nothing.
LEMMA MergeSame ==
  ASSUME NEW c \in Session
  PROVE  Merge(c, c) = c
  BY DEF Merge, Session

\* Every step keeps the undisturbed persistCall alone and its value current,
\* and keeps the row equal to the entry when none is on its way.
LEMMA WriteThroughStep ==
  ASSUME TypeInv, ArmedInv, WriteThroughInv, [Next]_vars
  PROVE  UndisturbedPersist' /\ RowIsEntry'
<1> USE DEF Contexts
<1> DEFINE Goal == UndisturbedPersist' /\ RowIsEntry'
           Persists(t) == handler[t].pc \in {"write", "ack"}
<1>1. CASE failures' # 0 \/ raced'
  BY <1>1 DEF UndisturbedPersist, RowIsEntry
<1>2. ASSUME failures' = 0, ~raced' PROVE Goal
  <2>1. failures = 0 /\ ~raced
    <3>1. failures \in Nat /\ failures' \in {failures, failures + 1}
      BY DEF Next, vars, boundVars, RequestStep, HandlerStep, Request, Invite, Accept,
             Decline, Cancel, End, Hold, Resume, HoldOrResume, Claim, Fire, DbWrite, DbAck,
             DbFail, DirectSelect, DirectUpdate, Finish, FinishInvite, Restart, TypeInv,
             TypeOK
    <3>2. raced => raced'
      BY DEF Next, vars, historyVars, RequestStep, HandlerStep, Invite, Accept, Decline,
             Cancel, End, Hold, Resume, HoldOrResume, Update, Claim, Fire, DbWrite, DbAck,
             DbFail, DirectSelect, DirectUpdate, Finish, FinishInvite, Restart
    <3>3. QED BY <1>2, <3>1, <3>2
  <2>2. /\ EntryInv
        /\ \A t, u \in Contexts : Persists(t) /\ Persists(u) => t = u
        /\ \A t \in Contexts : Persists(t) =>
             /\ handler[t].ref \in Refs
             /\ mem \in {NoRef, handler[t].ref}
             /\ handler[t].pc = "write" => handler[t].val = heap[handler[t].ref]
             /\ handler[t].pc = "ack" => row.exists /\ row.val = heap[handler[t].ref]
        /\ InMemory /\ (\A t \in Contexts : ~Persists(t)) => row.exists /\ row.val = heap[mem]
    BY <2>1 DEF WriteThroughInv, UndisturbedPersist, RowIsEntry, InPersist, TypeInv,
                PersistHasObject
  <2>3. \A t \in Contexts : handler[t] \in Handlers
    BY DEF TypeInv, TypeOK
  \* A handler that is outside persistCall moves on and nothing else changes.
  <2>4. ASSUME NEW s \in Contexts, NEW h, h.pc \notin {"write", "ack"},
               InMemory => ~Persists(s),
               handler' = [handler EXCEPT ![s] = h], UNCHANGED <<mem, heap, row>>
        PROVE  Goal
    <3>1. \A t \in Contexts :
             handler'[t].pc \in {"write", "ack"} => Persists(t) /\ handler'[t] = handler[t]
      BY <2>4 DEF TypeInv, TypeOK
    <3>2. UndisturbedPersist'
      BY <2>2, <2>4, <3>1 DEF UndisturbedPersist, InPersist
    <3>3. RowIsEntry'
      <4> SUFFICES ASSUME InMemory, \A t \in Contexts : handler'[t].pc \notin {"write", "ack"}
                   PROVE  row.exists /\ row.val = heap[mem]
        BY <2>4 DEF RowIsEntry, InMemory, InPersist
      <4>1. \A t \in Contexts : ~Persists(t)
        BY <2>4 DEF TypeInv, TypeOK
      <4>2. QED BY <2>2, <4>1
    <3>4. QED BY <3>2, <3>3
  \* A handler enters persistCall, alone, with the object it has just written.
  <2>5. ASSUME NEW s \in Contexts, NEW op, NEW r \in Refs, NEW c,
               \A t \in Contexts : ~Persists(t),
               handler' = [handler EXCEPT ![s] = Persisting(op, r, c)],
               mem' \in {NoRef, r}, heap'[r] = c
        PROVE  Goal
    <3>1. /\ Persisting(op, r, c).pc = "write"
          /\ Persisting(op, r, c).ref = r
          /\ Persisting(op, r, c).val = c
      BY DEF Persisting
    <3>2. /\ \A t \in Contexts : handler'[t].pc \in {"write", "ack"} => t = s
          /\ handler'[s] = Persisting(op, r, c)
      BY <2>5 DEF TypeInv, TypeOK
    <3>3. UndisturbedPersist'
      BY <2>5, <3>1, <3>2 DEF UndisturbedPersist, InPersist
    <3>4. RowIsEntry'
      BY <3>1, <3>2 DEF RowIsEntry, InPersist
    <3>5. QED BY <3>3, <3>4
  <2>6. ASSUME NEW s \in Slots, Invite(s) PROVE Goal
    <3>1. mem = NoRef /\ \A t \in Contexts : ~Persists(t)
      BY <2>2, <2>6, Phases DEF Invite, EntryInv, NothingBeforeInvite
    <3>2. PICK r \in Refs :
             /\ heap' = [heap EXCEPT ![r] = NewSession]
             /\ handler' = [handler EXCEPT ![s] = Persisting("invite", r, NewSession)]
      BY <2>6 DEF Invite
    <3>3. mem' = NoRef /\ heap'[r] = NewSession
      BY <2>6, <3>1, <3>2 DEF Invite, TypeInv, TypeOK
    <3> HIDE DEF Goal
    <3>4. QED BY <2>5, <3>1, <3>2, <3>3
  <2>7. ASSUME NEW s \in Contexts,
               (s \in Slots /\ RequestStep(s) /\ ~Invite(s)) \/ (s = TimerSlot /\ Fire)
        PROVE  Goal
    <3>1. UNCHANGED <<mem, row>>
      BY <2>7, Effect
    <3>2. CASE \E op \in Ops \ {"idle", "invite", "patch"}, c \in Session : Update(s, op, c)
      <4>1. PICK op \in Ops, c \in Session : Update(s, op, c)
        BY <3>2
      <4>2. CASE InMemory
        <5>1. /\ handler' = [handler EXCEPT ![s] = Persisting(op, mem, c)]
              /\ mem \in Refs /\ heap'[mem] = c
              /\ \A t \in Contexts : ~Persists(t)
          BY <1>2, <4>1, <4>2, AfterUpdate DEF InPersist
        <5> HIDE DEF Goal
        <5>2. QED BY <2>5, <3>1, <5>1
      <4>3. CASE ~InMemory
        <5>1. /\ handler' = [handler EXCEPT ![s] = Recording(op)]
              /\ Recording(op).pc = "history" /\ UNCHANGED heap
          BY <4>1, <4>3, AfterUpdate, Phases
        <5> HIDE DEF Goal
        <5>2. QED BY <2>4, <3>1, <4>3, <5>1
      <4>4. QED BY <4>2, <4>3
    <3>3. CASE /\ ~InMemory /\ UNCHANGED heap
               /\ \E op \in {"hold", "resume"} :
                 handler' = [handler EXCEPT ![s] = [Idle EXCEPT !.op = op, !.pc = "select"]]
      <4>1. PICK op \in {"hold", "resume"} :
                 handler' = [handler EXCEPT ![s] = [Idle EXCEPT !.op = op, !.pc = "select"]]
        BY <3>3
      <4>2. [Idle EXCEPT !.op = op, !.pc = "select"].pc = "select"
        BY Phases
      <4> HIDE DEF Goal
      <4>3. QED BY <2>4, <3>1, <3>3, <4>1, <4>2
    <3>4. CASE UNCHANGED <<heap, handler>>
      BY <2>2, <3>1, <3>4 DEF UndisturbedPersist, RowIsEntry, InPersist, InMemory
    <3>5. QED BY <2>7, <3>2, <3>3, <3>4, Effect
  <2>8. ASSUME NEW s \in Contexts, DbWrite(s) PROVE Goal
    <3> DEFINE h == [handler[s] EXCEPT !.pc = "ack"]
    <3>1. h.pc = "ack" /\ h.ref = handler[s].ref
      BY <2>3 DEF Handlers
    <3>2. /\ handler' = [handler EXCEPT ![s] = h] /\ UNCHANGED <<mem, heap>>
          /\ row' = [exists |-> TRUE, val |-> handler[s].val]
          /\ handler[s].pc = "write"
      BY <2>8 DEF DbWrite
    <3> HIDE DEF h
    <3>3. /\ \A t \in Contexts : handler'[t].pc \in {"write", "ack"} => t = s
          /\ handler'[s] = h
      BY <2>2, <3>2 DEF TypeInv, TypeOK
    <3>4. row'.exists /\ row'.val = heap[h.ref] /\ mem \in {NoRef, h.ref}
      BY <2>2, <3>1, <3>2
    <3>5. UndisturbedPersist'
      BY <3>1, <3>2, <3>3, <3>4 DEF UndisturbedPersist, InPersist
    <3>6. RowIsEntry'
      BY <3>1, <3>3 DEF RowIsEntry, InPersist
    <3>7. QED BY <3>5, <3>6
  <2>9. ASSUME NEW s \in Contexts, DbAck(s) PROVE Goal
    <3> DEFINE ref == handler[s].ref
    <3>1. /\ ref \in Refs /\ mem \in {NoRef, ref}
          /\ row.exists /\ row.val = heap[ref] /\ heap[ref] \in Session
          /\ row' = row
          /\ \A t \in Contexts : Persists(t) => t = s
      BY <2>2, <2>9 DEF DbAck, TypeInv, TypeOK
    <3>2. mem' # NoRef /\ heap'[mem'] = heap[ref]
      <4>1. CASE InMemory
        <5>1. mem = ref /\ mem' \in Refs /\ heap'[mem'] = Merge(heap[ref], heap[ref])
          BY <2>9, <3>1, <4>1, EntryAfterPersist DEF InMemory
        <5>2. QED BY <3>1, <5>1, MergeSame, RefAssumption
      <4>2. CASE ~InMemory
        BY <2>9, <3>1, <4>2, EntryAfterPersist, RefAssumption
      <4>3. QED BY <4>1, <4>2
    <3>3. CASE handler[s].op = "invite"
      <4> DEFINE h == [handler[s] EXCEPT !.op = "patch", !.pc = "write",
                                         !.val = heap[handler[s].ref]]
      <4>1. h.pc = "write" /\ h.ref = ref /\ h.val = heap[ref]
        BY <2>3 DEF Handlers
      <4>2. handler' = [handler EXCEPT ![s] = h]
        BY <2>9, <3>3, LeavesPersist
      <4>3. mem' = ref
        BY <2>2, <2>9, <3>3, EntryAfterPersist DEF EntryInv, WhoMeetsNoEntry
      <4> HIDE DEF h
      <4>4. /\ \A t \in Contexts : handler'[t].pc \in {"write", "ack"} => t = s
            /\ handler'[s] = h
        BY <3>1, <4>2 DEF TypeInv, TypeOK
      <4>5. UndisturbedPersist'
        BY <3>2, <4>1, <4>3, <4>4 DEF UndisturbedPersist, InPersist
      <4>6. RowIsEntry'
        BY <4>1, <4>4 DEF RowIsEntry, InPersist
      <4>7. QED BY <4>5, <4>6
    <3>4. CASE handler[s].op # "invite"
      <4>1. /\ handler' = [handler EXCEPT ![s] = Recording(handler[s].op)]
            /\ Recording(handler[s].op).pc = "history"
        BY <2>9, <3>4, LeavesPersist, Phases
      <4>2. \A t \in Contexts : handler'[t].pc \notin {"write", "ack"}
        BY <3>1, <4>1 DEF TypeInv, TypeOK
      <4>3. QED BY <3>1, <3>2, <4>2 DEF UndisturbedPersist, RowIsEntry, InPersist
    <3>5. QED BY <3>3, <3>4
  <2>10. ASSUME NEW s \in Contexts, DbFail(s) PROVE FALSE
    BY <1>2, <2>1, <2>10 DEF DbFail
  <2>11. ASSUME NEW s \in Contexts, DirectUpdate(s) PROVE Goal
    <3>1. ~InMemory /\ mem' = mem /\ handler[s].pc = "update"
      BY <2>2, <2>11 DEF DirectUpdate, EntryInv, WhoMeetsNoEntry
    <3>2. \A t \in Contexts : ~Persists(t)
      <4>1. known
        BY <2>2, <3>1, Phases
        DEF EntryInv, OnlyInviteBeforeKnown, HandlerPhases, Inviting, InPersist
      <4>2. QED BY <2>2, <3>1, <4>1
           DEF EntryInv, WhoMeetsNoEntry, InPersist, ArmedInv, OneInvite
    <3>3. /\ handler' = [handler EXCEPT ![s] = Recording(handler[s].op)]
          /\ Recording(handler[s].op).pc = "history"
      BY <2>11, Phases DEF DirectUpdate
    <3>4. \A t \in Contexts : handler'[t].pc \notin {"write", "ack"}
      BY <3>2, <3>3 DEF TypeInv, TypeOK
    <3>5. QED BY <3>1, <3>4 DEF UndisturbedPersist, RowIsEntry, InPersist, InMemory
  <2>12. ASSUME NEW s \in Contexts, DirectSelect(s) PROVE Goal
    <3>1. ~Persists(s) /\ UNCHANGED <<mem, heap, row>>
      BY <2>12 DEF DirectSelect
    <3>2. [handler[s] EXCEPT !.pc = "update"].pc = "update" /\ Idle.pc = "idle"
      BY <2>3, Phases
    <3>3. \/ handler' = [handler EXCEPT ![s] = [handler[s] EXCEPT !.pc = "update"]]
          \/ handler' = [handler EXCEPT ![s] = Idle]
      BY <2>12 DEF DirectSelect
    <3> HIDE DEF Goal
    <3>4. QED BY <2>4, <3>1, <3>2, <3>3
  <2>13. ASSUME NEW s \in Contexts, Finish(s) \/ FinishInvite(s) PROVE Goal
    <3>1. /\ ~Persists(s) /\ UNCHANGED <<mem, heap, row>> /\ Idle.pc = "idle"
          /\ handler' = [handler EXCEPT ![s] = Idle]
      BY <2>13, Phases DEF Finish, FinishInvite
    <3> HIDE DEF Goal
    <3>2. QED BY <2>4, <3>1
  <2>14. ASSUME NEW loaded \in BOOLEAN, Restart(loaded) PROVE Goal
    <3>1. \A t \in Contexts : handler'[t].pc \notin {"write", "ack"}
      BY <2>14, Phases DEF Restart
    <3>2. mem' # NoRef => row'.exists /\ row'.val = heap'[mem']
      BY <2>14 DEF Restart
    <3>3. QED BY <3>1, <3>2 DEF UndisturbedPersist, RowIsEntry, InPersist, InMemory
  <2>15. CASE UNCHANGED vars \/ \E t \in Tabs : Claim(t)
    <3>1. UNCHANGED <<mem, heap, row, handler>>
      BY <2>15 DEF vars, callVars, Claim
    <3>2. QED BY <2>2, <3>1 DEF UndisturbedPersist, RowIsEntry, InPersist, InMemory
  <2> HIDE DEF Goal
  <2>16. QED
    BY <2>6, <2>7, <2>8, <2>9, <2>10, <2>11, <2>12, <2>13, <2>14, <2>15
    DEF Next, HandlerStep
<1>3. QED
  <2> HIDE DEF Goal
  <2>1. Goal
    <3>1. CASE failures' # 0 \/ raced'
      BY <1>1, <3>1 DEF Goal
    <3>2. CASE failures' = 0 /\ ~raced'
      BY <1>2, <3>2
    <3>3. QED BY <3>1, <3>2
  <2>2. QED BY <2>1 DEF Goal

\* When no handler is at work, the row of a call equals the entry in memory,
\* provided that no statement failed and no two persistCall overlapped: for
\* any number of requests and restarts.
THEOREM WriteThrough == Spec => []SerialWriteThrough
<1>1. Init => UndisturbedPersist /\ RowIsEntry
  BY Phases DEF Init, UndisturbedPersist, RowIsEntry, InPersist, InMemory
<1>2. /\ TypeInv /\ ArmedInv /\ EntryInv /\ UndisturbedPersist /\ RowIsEntry
      /\ [Next]_vars
      => (UndisturbedPersist /\ RowIsEntry)'
  BY WriteThroughStep DEF WriteThroughInv
<1>3. EntryInv /\ RowIsEntry => SerialWriteThrough
  <2> SUFFICES ASSUME RowIsEntry, EntryInv, Quiescent, InMemory, failures = 0, ~raced
               PROVE  row.exists /\ row.val = heap[mem]
    BY DEF SerialWriteThrough
  <2>1. \A s \in Contexts : ~InPersist(s)
    BY DEF Quiescent, EntryInv, HandlerPhases
  <2>2. QED BY <2>1 DEF RowIsEntry
<1>4. QED BY <1>1, <1>2, <1>3, EntryInvariant, PTL DEF Spec
=============================================================================
