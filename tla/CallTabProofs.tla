---------------------------- MODULE CallTabProofs ----------------------------
(***************************************************************************)
(* Proofs about CallTab, for any calls and any bound.  What a tab shows    *)
(* keeps to the table of valid transitions (CallDisplay), since what is    *)
(* set is never more than one move away from what is rendered (OneMove),   *)
(* and an ended call is always on its way to idle (EndedHasExit).          *)
(* HeldKept is read off each action that closes a connection.              *)
(*                                                                         *)
(* ModalTruthful: most steps are calm (CalmStep), they give no call a      *)
(* session and show no modal.  What the server or another tab makes of a   *)
(* call is in the inbox behind the event that rings (Told) until the       *)
(* handler that reads it dismisses the modal; a call that is cancelled, or *)
(* ended here, was dialed or taken, and what is taken does not ring        *)
(* (RingsOnce).                                                            *)
(***************************************************************************)
EXTENDS CallTab, TLAPS

(* Data *)

\* The states the handlers name are in the table.
LEMMA StateNames ==
    /\ "idle" \in CallState /\ "initiating" \in CallState /\ "ringing_outgoing" \in CallState
    /\ "ringing_incoming" \in CallState /\ "connecting" \in CallState /\ "active" \in CallState
    /\ "held" \in CallState /\ "reconnecting" \in CallState /\ "ended" \in CallState
    /\ "failed" \in CallState
    /\ "idle" \in ValidTransitions["ended"]
  BY DEF CallState, Shown!CallState, ValidTransitions, Shown!ValidTransitions

\* w is a view in the state of v, or in the state target, one move away.
Moved(v, w, target) ==
    w \in View /\ (w.state = v.state \/ (w.state = target /\ OneMove(target)))

\* transitionCallState moves along the table or not at all.
LEMMA TransitionView ==
  ASSUME ui \in View, NEW v \in View, NEW target \in CallState
  PROVE  /\ Moved(v, Transition(v, target), target)
         /\ target \in ValidTransitions[ui.state] => Transition(v, target).state = target
<1>1. CASE target \notin ValidTransitions[ui.state]
  BY <1>1 DEF Transition, Moved
<1>2. CASE target \in ValidTransitions[ui.state] /\ ui.active.id = NoCall
  BY <1>2 DEF Transition, View, OneMove, Moved
<1>3. CASE target \in ValidTransitions[ui.state] /\ ui.active.id # NoCall
  <2>1. ui.active \in Session /\ ui.active.id \in Calls
    BY <1>3 DEF View, Session
  <2>2. [ui.active EXCEPT !.state = target] \in Session
    BY <2>1 DEF Session
  <2>3. [v.sessions EXCEPT ![ui.active.id] = target] \in [Calls -> CallState \cup {"absent"}]
    BY <2>1 DEF View
  <2>4. Transition(v, target) =
          [v EXCEPT !.state = target, !.active = [ui.active EXCEPT !.state = target],
                    !.sessions[ui.active.id] = target]
    BY <1>3 DEF Transition
  <2> QED
    BY <1>3, <2>2, <2>3, <2>4 DEF View, OneMove, Moved
<1> QED
  BY <1>1, <1>2, <1>3

\* closeAll and its setters, and the fall back to a held call.
LEMMA TornDownView ==
  ASSUME ui \in View, NEW v \in View
  PROVE  Moved(v, TornDown(v), "ended")
<1> DEFINE w == [v EXCEPT !.active = NoSession, !.incoming = NoCall, !.outgoing = NoCall]
<1>1. w \in View /\ w.state = v.state
  BY StateNames DEF View, NoSession, Session
<1>2. TornDown(v) = Transition(w, "ended")
  BY DEF TornDown
<1>3. Moved(w, Transition(w, "ended"), "ended")
  BY <1>1, StateNames, TransitionView
<1> QED
  BY <1>1, <1>2, <1>3 DEF Moved

LEMMA FallenBackView ==
  ASSUME NEW v \in View, Held # {}
  PROVE  FallenBack(v) \in View /\ FallenBack(v).state = "held" /\ OneMove("held")
  BY StateNames DEF FallenBack, View, NoSession, Session, OneMove

-----------------------------------------------------------------------------
(* What every step that sets state has in common *)

\* What is shown keeps its type, and what is set stays one move away from it.
Kept == ui' \in View /\ set' \in View /\ stale' \in BOOLEAN /\ OneMove(set.state)'

\* A step that ends nothing, or ends with a way out.
Guarded == set'.state = "ended" =>
    set.state = "ended" \/ timers' > 0 \/ hangup' \/ \E op \in ops' : op.kind = "cancel"

LEMMA SetKept ==
  ASSUME Inv, NEW v, v \in View, NEW current \in BOOLEAN, SetsFrom(v, current),
         v.state = set.state \/ OneMove(v.state)
  PROVE  Kept /\ set' = v
<1>1. ui' = ui /\ set' = v
  BY DEF SetsFrom
<1>2. OneMove(v.state)
  BY DEF Inv
<1>3. OneMove(set.state)'
  BY <1>1, <1>2 DEF OneMove, Held
<1> QED
  BY <1>1, <1>3 DEF Inv, TypeOK, SetsFrom, Kept

\* A transition to target, and whatever else the handler sets beside it.
LEMMA MoveKept ==
  ASSUME Inv, NEW u, NEW v, NEW w, NEW target, Moved(u, v, target), u.state = set.state,
         w \in View, w.state = v.state, NEW current \in BOOLEAN, SetsFrom(w, current)
  PROVE  Kept /\ set' = w /\ set'.state \in {set.state, target}
<1>1. w.state = set.state \/ (w.state = target /\ OneMove(target))
  BY DEF Moved
<1>2. Kept /\ set' = w
  BY <1>1, SetKept
<1> QED
  BY <1>1, <1>2

LEMMA ExitKept ==
  ASSUME Inv, TypeOK', Guarded, timers' >= timers, hangup => hangup',
         \A op \in ops : op.kind = "cancel" => \E q \in ops' : q.kind = "cancel"
  PROVE  EndedHasExit'
  BY DEF Inv, TypeOK, EndedHasExit, Guarded

\* The head of the inbox is taken.
LEMMA ReceiveKeeps ==
  ASSUME Inv, NEW type, NEW c, Receive(type, c)
  PROVE  /\ inbox' \in Seq(Event) /\ direction' = direction /\ line' = line /\ owner' = owner
         /\ acts' = acts /\ hangup' = hangup
  BY DEF Inv, TypeOK, Receive

\* The full teardown of endCall.
LEMMA TearDownKept ==
  ASSUME Inv, NEW v, v \in View, v.state = set.state, TearDown(v)
  PROVE  /\ Kept /\ Guarded /\ hangup' \in BOOLEAN /\ (hangup => hangup')
         /\ links' \in [Calls -> {"none", "open", "up", "weak"}]
<1>1. CASE hangup
  <2>1. SetsFrom(v, FALSE)
    BY <1>1 DEF TearDown
  <2>2. Kept /\ set' = v
    BY <2>1, SetKept
  <2> QED
    BY <1>1, <2>2 DEF TearDown, Inv, TypeOK, Guarded
<1>2. CASE ~hangup
  <2> DEFINE w == [TornDown(v) EXCEPT !.room = FALSE]
  <2>1. SetsFrom(w, TRUE) /\ links' = AllClosed /\ hangup' = TRUE
    BY <1>2 DEF TearDown, Sets
  <2>2. Moved(v, TornDown(v), "ended")
    BY TornDownView DEF Inv, TypeOK
  <2>3. w \in View /\ w.state = TornDown(v).state
    BY <2>2 DEF Moved, View
  <2>4. Kept
    BY <2>1, <2>2, <2>3, MoveKept
  <2> QED
    BY <2>1, <2>4 DEF AllClosed, Guarded
<1> QED
  BY <1>1, <1>2 DEF Inv, TypeOK

-----------------------------------------------------------------------------
(* The user *)

LEMMA StartCallStep == ASSUME NEW c \in Calls, Inv, StartCall(c) PROVE Inv'
<1>1. Kept /\ Guarded
  <2>1. set \in View
    BY DEF Inv, TypeOK
  <2>2. Moved(set, Transition(set, "initiating"), "initiating")
    BY <2>1, StateNames, TransitionView DEF Inv, TypeOK
  <2> DEFINE w == [Transition(set, "initiating") EXCEPT !.outgoing = Dialing]
  <2>3. w \in View /\ w.state = Transition(set, "initiating").state
    BY <2>2 DEF Moved, View
  <2>4. SetsFrom(w, TRUE)
    BY DEF StartCall, Sets
  <2>5. Kept /\ set'.state \in {set.state, "initiating"}
    BY <2>1, <2>2, <2>3, <2>4, MoveKept
  <2> QED
    BY <2>5 DEF Guarded
<1>2. TypeOK'
  BY <1>1 DEF Kept, Inv, TypeOK, StartCall, Act, Begin, NewOp, Op
<1>3. EndedHasExit'
  BY <1>1, <1>2, ExitKept DEF Inv, TypeOK, StartCall, Begin
<1> QED
  BY <1>1, <1>2, <1>3 DEF Inv, Kept

LEMMA AcceptCallStep == ASSUME Inv, AcceptCall PROVE Inv'
<1>1. Kept /\ Guarded
  <2>1. SetsFrom(set, TRUE)
    BY DEF AcceptCall, Sets
  <2>2. Kept /\ set' = set
    BY <2>1, SetKept DEF Inv, TypeOK
  <2> QED
    BY <2>2 DEF Guarded
<1>2. TypeOK'
  BY <1>1 DEF Kept, Inv, TypeOK, AcceptCall, Act, Begin, NewOp, Op, View, far
<1>3. EndedHasExit'
  BY <1>1, <1>2, ExitKept DEF Inv, TypeOK, AcceptCall, Begin
<1> QED
  BY <1>1, <1>2, <1>3 DEF Inv, Kept

LEMMA RejectCallStep == ASSUME Inv, RejectCall PROVE Inv'
<1>1. Kept /\ Guarded
  <2>1. [set EXCEPT !.incoming = NoCall] \in View /\ [set EXCEPT !.incoming = NoCall].state = set.state
    BY DEF Inv, TypeOK, View
  <2>2. SetsFrom([set EXCEPT !.incoming = NoCall], TRUE)
    BY DEF RejectCall, Sets
  <2>3. Kept /\ set' = [set EXCEPT !.incoming = NoCall]
    BY <2>1, <2>2, SetKept
  <2> QED
    BY <2>1, <2>3 DEF Guarded
<1>2. TypeOK'
  BY <1>1 DEF Kept, Inv, TypeOK, RejectCall, Act, Begin, NewOp, Op, View, far
<1>3. EndedHasExit'
  BY <1>1, <1>2, ExitKept DEF Inv, TypeOK, RejectCall, Begin
<1> QED
  BY <1>1, <1>2, <1>3 DEF Inv, Kept

LEMMA CancelOutgoingCallStep == ASSUME Inv, CancelOutgoingCall PROVE Inv'
<1>1. Kept /\ Guarded
  <2> DEFINE before == [set EXCEPT !.outgoing = NoCall]
  <2>1. before \in View /\ before.state = set.state
    BY DEF Inv, TypeOK, View
  <2>2. Moved(before, Transition(before, "ended"), "ended")
    BY <2>1, StateNames, TransitionView DEF Inv, TypeOK
  <2>3. SetsFrom(Transition(before, "ended"), TRUE)
    BY DEF CancelOutgoingCall, Sets
  <2>4. Kept /\ set'.state \in {set.state, "ended"}
    BY <2>1, <2>2, <2>3, MoveKept DEF Moved
  <2>5. \E op \in ops' : op.kind = "cancel"
    <3> DEFINE c == IF ui.outgoing = Dialing THEN NoCall ELSE ui.outgoing
               op == NewOp("cancel", "cancel", c, NoCall)
    <3>1. op \in ops'
      BY DEF CancelOutgoingCall, Begin
    <3>2. op.kind = "cancel"
      BY DEF NewOp
    <3> QED
      BY <3>1, <3>2
  <2> QED
    BY <2>4, <2>5 DEF Guarded
<1>2. TypeOK'
  BY <1>1 DEF Kept, Inv, TypeOK, CancelOutgoingCall, Act, Begin, NewOp, Op, View, far
<1>3. EndedHasExit'
  BY <1>1, <1>2, ExitKept DEF Inv, TypeOK, CancelOutgoingCall, Begin
<1> QED
  BY <1>1, <1>2, <1>3 DEF Inv, Kept

LEMMA EndCallStep == ASSUME NEW c \in Calls \cup {NoCall}, Inv, EndCall(c) PROVE Inv'
<1>1. Kept /\ Guarded
  <2>1. CASE c # NoCall
    <3>1. SetsFrom(set, TRUE)
      BY <2>1 DEF EndCall, Sets
    <3>2. Kept /\ set' = set
      BY <3>1, SetKept DEF Inv, TypeOK
    <3> QED
      BY <3>2 DEF Guarded
  <2>2. CASE c = NoCall /\ Held # {}
    <3>1. set \in View /\ Held # {}
      BY <2>2 DEF Inv, TypeOK, View
    <3>2. FallenBack(set) \in View /\ FallenBack(set).state = "held" /\ OneMove("held")
      BY <3>1, FallenBackView
    <3>3. SetsFrom(FallenBack(set), TRUE)
      BY <2>2 DEF EndCall, Sets
    <3>4. Kept /\ set' = FallenBack(set)
      BY <3>2, <3>3, SetKept
    <3> QED
      BY <3>2, <3>4 DEF Guarded
  <2>3. CASE c = NoCall /\ Held = {}
    <3>1. set \in View /\ set.state = set.state /\ TearDown(set)
      BY <2>3, StateNames DEF EndCall, Inv, TypeOK, View
    <3> QED
      BY <3>1, TearDownKept
  <2> QED
    BY <2>1, <2>2, <2>3 DEF EndCall, Inv, TypeOK
<1>a. /\ hangup' \in BOOLEAN /\ (hangup => hangup')
      /\ links' \in [Calls -> {"none", "open", "up", "weak"}]
      /\ ops \subseteq ops' /\ ops' \in SUBSET Op
  <2>1. CASE c # NoCall
    BY <2>1 DEF EndCall, Begin, NewOp, Op, View, Session, Inv, TypeOK
  <2>2. CASE c = NoCall /\ Held # {}
    BY <2>2 DEF EndCall, Inv, TypeOK
  <2>3. CASE c = NoCall /\ Held = {}
    BY <2>3, TearDownKept DEF EndCall, Inv, TypeOK
  <2> QED
    BY <2>1, <2>2, <2>3
<1>2. TypeOK'
  BY <1>1, <1>a DEF Kept, Inv, TypeOK, EndCall, Act, far
<1>3. EndedHasExit'
  BY <1>1, <1>a, <1>2, ExitKept DEF Inv, TypeOK, EndCall
<1> QED
  BY <1>1, <1>2, <1>3 DEF Inv, Kept

LEMMA HoldCallStep == ASSUME Inv, HoldCall PROVE Inv'
<1>1. Kept /\ Guarded
  <2>1. SetsFrom(set, TRUE)
    BY DEF HoldCall, Sets
  <2>2. Kept /\ set' = set
    BY <2>1, SetKept DEF Inv, TypeOK
  <2> QED
    BY <2>2 DEF Guarded
<1>2. TypeOK'
  BY <1>1 DEF Kept, Inv, TypeOK, HoldCall, Act, Begin, NewOp, Op, View, far, Session
<1>3. EndedHasExit'
  BY <1>1, <1>2, ExitKept DEF Inv, TypeOK, HoldCall, Begin
<1> QED
  BY <1>1, <1>2, <1>3 DEF Inv, Kept

LEMMA ResumeCallStep == ASSUME NEW c \in Calls, Inv, ResumeCall(c) PROVE Inv'
<1>1. Kept /\ Guarded
  <2>1. SetsFrom(set, TRUE)
    BY DEF ResumeCall, Sets
  <2>2. Kept /\ set' = set
    BY <2>1, SetKept DEF Inv, TypeOK
  <2> QED
    BY <2>2 DEF Guarded
<1>2. TypeOK'
  BY <1>1 DEF Kept, Inv, TypeOK, ResumeCall, Act, Begin, NewOp, Op, View, far, Session, Resuming
<1>3. EndedHasExit'
  BY <1>1, <1>2, ExitKept DEF Inv, TypeOK, ResumeCall, Begin
<1> QED
  BY <1>1, <1>2, <1>3 DEF Inv, Kept

LEMMA SwapCallsStep == ASSUME NEW c \in Calls, Inv, SwapCalls(c) PROVE Inv'
<1>1. Kept /\ Guarded
  <2>1. SetsFrom(set, TRUE)
    BY DEF SwapCalls, Sets
  <2>2. Kept /\ set' = set
    BY <2>1, SetKept DEF Inv, TypeOK
  <2> QED
    BY <2>2 DEF Guarded
<1>2. TypeOK'
  BY <1>1 DEF Kept, Inv, TypeOK, SwapCalls, Act, Begin, NewOp, Op, View, far, Session
<1>3. EndedHasExit'
  BY <1>1, <1>2, ExitKept DEF Inv, TypeOK, SwapCalls, Begin
<1> QED
  BY <1>1, <1>2, <1>3 DEF Inv, Kept

-----------------------------------------------------------------------------
(* The tab, on events *)

LEMMA OnIncomingCallStep == ASSUME NEW c \in Calls, Inv, OnIncomingCall(c) PROVE Inv'
<1> DEFINE u == [set EXCEPT !.incoming = c]
<1>1. Kept /\ Guarded
  <2>1. CASE Sets(set)
    <3>1. SetsFrom(set, TRUE)
      BY <2>1 DEF Sets
    <3>2. Kept /\ set' = set
      BY <3>1, SetKept DEF Inv, TypeOK
    <3> QED
      BY <3>2 DEF Guarded
  <2>2. CASE Sets(Transition(u, "ringing_incoming"))
    <3>1. u \in View /\ u.state = set.state
      BY StateNames DEF Inv, TypeOK, View, Session
    <3>2. Moved(u, Transition(u, "ringing_incoming"), "ringing_incoming")
      BY <3>1, StateNames, TransitionView DEF Inv, TypeOK
    <3>3. SetsFrom(Transition(u, "ringing_incoming"), TRUE)
      BY <2>2 DEF Sets
    <3>4. Kept /\ set'.state \in {set.state, "ringing_incoming"}
      BY <3>1, <3>2, <3>3, MoveKept DEF Moved
    <3> QED
      BY <3>4 DEF Guarded
  <2>3. CASE Sets(u)
    <3>1. u \in View /\ u.state = set.state
      BY StateNames DEF Inv, TypeOK, View, Session
    <3>2. SetsFrom(u, TRUE)
      BY <2>3 DEF Sets
    <3>3. Kept /\ set' = u
      BY <3>1, <3>2, SetKept
    <3> QED
      BY <3>1, <3>3 DEF Guarded
  <2> QED
    BY <2>1, <2>2, <2>3 DEF OnIncomingCall, Inv, TypeOK
<1>a. /\ inbox' \in Seq(Event) /\ direction' = direction /\ line' = line /\ owner' = owner
      /\ acts' = acts /\ hangup' = hangup
  BY ReceiveKeeps DEF OnIncomingCall
<1>2. TypeOK'
  BY <1>1, <1>a DEF Kept, Inv, TypeOK, OnIncomingCall, Begin, NewOp, Op
<1>3. EndedHasExit'
  BY <1>1, <1>a, <1>2, ExitKept DEF Inv, TypeOK, OnIncomingCall, Begin
<1> QED
  BY <1>1, <1>2, <1>3 DEF Inv, Kept

LEMMA OnCallClaimedStep == ASSUME NEW c \in Calls, Inv, OnCallClaimed(c) PROVE Inv'
<1> DEFINE u == [set EXCEPT !.incoming = NoCall]
<1>1. Kept /\ Guarded
  <2>1. CASE Sets(Transition(u, "idle"))
    <3>1. u \in View /\ u.state = set.state
      BY StateNames DEF Inv, TypeOK, View, Session
    <3>2. Moved(u, Transition(u, "idle"), "idle")
      BY <3>1, StateNames, TransitionView DEF Inv, TypeOK
    <3>3. SetsFrom(Transition(u, "idle"), TRUE)
      BY <2>1 DEF Sets
    <3>4. Kept /\ set'.state \in {set.state, "idle"}
      BY <3>1, <3>2, <3>3, MoveKept DEF Moved
    <3> QED
      BY <3>4 DEF Guarded
  <2>2. CASE Sets(set)
    <3>1. SetsFrom(set, TRUE)
      BY <2>2 DEF Sets
    <3>2. Kept /\ set' = set
      BY <3>1, SetKept DEF Inv, TypeOK
    <3> QED
      BY <3>2 DEF Guarded
  <2> QED
    BY <2>1, <2>2 DEF OnCallClaimed, Inv, TypeOK
<1>a. /\ inbox' \in Seq(Event) /\ direction' = direction /\ line' = line /\ owner' = owner
      /\ acts' = acts /\ hangup' = hangup
  BY ReceiveKeeps DEF OnCallClaimed
<1>2. TypeOK'
  BY <1>1, <1>a DEF Kept, Inv, TypeOK, OnCallClaimed
<1>3. EndedHasExit'
  BY <1>1, <1>a, <1>2, ExitKept DEF Inv, TypeOK, OnCallClaimed
<1> QED
  BY <1>1, <1>2, <1>3 DEF Inv, Kept

LEMMA OnCallResponseStep == ASSUME NEW c \in Calls, Inv, OnCallResponse(c) PROVE Inv'
<1> DEFINE u == [set EXCEPT !.outgoing = NoCall]
<1> DEFINE t == Transition(u, "connecting")
<1> DEFINE w == IF t.sessions[c] = "absent" THEN t ELSE [t EXCEPT !.sessions[c] = "connecting"]
<1>1. Kept /\ Guarded
  <2>1. CASE SetsFrom(Transition(u, "ended"), Named) /\ Later
    <3>1. u \in View /\ u.state = set.state
      BY StateNames DEF Inv, TypeOK, View, Session
    <3>2. Moved(u, Transition(u, "ended"), "ended")
      BY <3>1, StateNames, TransitionView DEF Inv, TypeOK
    <3>3. SetsFrom(Transition(u, "ended"), Named)
      BY <2>1
    <3>4. Kept /\ set'.state \in {set.state, "ended"}
      BY <3>1, <3>2, <3>3, MoveKept DEF Moved, Named
    <3> QED
      BY <2>1, <3>4 DEF Guarded, Inv, TypeOK, Later
  <2>2. CASE SetsFrom(w, Named)
    <3>1. u \in View /\ u.state = set.state
      BY StateNames DEF Inv, TypeOK, View, Session
    <3>2. Moved(u, Transition(u, "connecting"), "connecting")
      BY <3>1, StateNames, TransitionView DEF Inv, TypeOK
    <3>3. w \in View /\ w.state = Transition(u, "connecting").state
      BY <3>2, StateNames DEF Moved, View
    <3>4. SetsFrom(w, Named)
      BY <2>2
    <3>5. Kept /\ set'.state \in {set.state, "connecting"}
      BY <3>1, <3>2, <3>3, <3>4, MoveKept DEF Named
    <3> QED
      BY <3>5 DEF Guarded
  <2> QED
    BY <2>1, <2>2 DEF OnCallResponse, Inv, TypeOK
<1>a. /\ inbox' \in Seq(Event) /\ direction' = direction /\ line' = line /\ owner' = owner
      /\ acts' = acts /\ hangup' = hangup
  <2>1. Receive("CallRejected", c) \/ Receive("CallAccepted", c)
    BY DEF OnCallResponse
  <2> QED
    BY <2>1, ReceiveKeeps
<1>b. ops \subseteq ops' /\ ops' \in SUBSET Op
  BY DEF OnCallResponse, Begin, NewOp, Op, Inv, TypeOK
<1>2. TypeOK'
  BY <1>1, <1>a, <1>b DEF Kept, Inv, TypeOK, OnCallResponse, Later
<1>3. EndedHasExit'
  BY <1>1, <1>a, <1>b, <1>2, ExitKept DEF Inv, TypeOK, OnCallResponse, Later, Begin
<1> QED
  BY <1>1, <1>2, <1>3 DEF Inv, Kept

LEMMA OnCallCancelledStep == ASSUME NEW c \in Calls \cup {NoCall}, Inv, OnCallCancelled(c) PROVE Inv'
<1> DEFINE u == [set EXCEPT !.incoming = NoCall]
<1>1. Kept /\ Guarded
  <2>1. CASE Sets(Transition(u, "ended")) /\ Later
    <3>1. u \in View /\ u.state = set.state
      BY StateNames DEF Inv, TypeOK, View, Session
    <3>2. Moved(u, Transition(u, "ended"), "ended")
      BY <3>1, StateNames, TransitionView DEF Inv, TypeOK
    <3>3. SetsFrom(Transition(u, "ended"), TRUE)
      BY <2>1 DEF Sets
    <3>4. Kept /\ set'.state \in {set.state, "ended"}
      BY <3>1, <3>2, <3>3, MoveKept DEF Moved
    <3> QED
      BY <2>1, <3>4 DEF Guarded, Inv, TypeOK, Later
  <2>2. CASE Sets(set)
    <3>1. SetsFrom(set, TRUE)
      BY <2>2 DEF Sets
    <3>2. Kept /\ set' = set
      BY <3>1, SetKept DEF Inv, TypeOK
    <3> QED
      BY <3>2 DEF Guarded
  <2> QED
    BY <2>1, <2>2 DEF OnCallCancelled, Inv, TypeOK
<1>a. /\ inbox' \in Seq(Event) /\ direction' = direction /\ line' = line /\ owner' = owner
      /\ acts' = acts /\ hangup' = hangup
  BY ReceiveKeeps DEF OnCallCancelled
<1>2. TypeOK'
  BY <1>1, <1>a DEF Kept, Inv, TypeOK, OnCallCancelled, Later
<1>3. EndedHasExit'
  BY <1>1, <1>a, <1>2, ExitKept DEF Inv, TypeOK, OnCallCancelled, Later
<1> QED
  BY <1>1, <1>2, <1>3 DEF Inv, Kept

LEMMA OnCallTimeoutStep == ASSUME NEW c \in Calls, Inv, OnCallTimeout(c) PROVE Inv'
<1>1. Kept /\ Guarded
  <2>1. CASE Sets(Transition([set EXCEPT !.outgoing = NoCall], "ended")) /\ Later
    <3> DEFINE before == [set EXCEPT !.outgoing = NoCall]
    <3>1. before \in View /\ before.state = set.state
      BY DEF Inv, TypeOK, View
    <3>2. Moved(before, Transition(before, "ended"), "ended")
      BY <3>1, StateNames, TransitionView DEF Inv, TypeOK
    <3>3. SetsFrom(Transition(before, "ended"), TRUE)
      BY <2>1 DEF Sets
    <3>4. Kept /\ set'.state \in {set.state, "ended"}
      BY <3>1, <3>2, <3>3, MoveKept DEF Moved
    <3> QED
      BY <2>1, <3>4 DEF Guarded, Inv, TypeOK, Later
  <2>2. CASE SetsFrom(Transition([set EXCEPT !.incoming = NoCall], "idle"), Named)
    <3> DEFINE before == [set EXCEPT !.incoming = NoCall]
    <3>1. before \in View /\ before.state = set.state
      BY DEF Inv, TypeOK, View
    <3>2. Moved(before, Transition(before, "idle"), "idle")
      BY <3>1, StateNames, TransitionView DEF Inv, TypeOK
    <3>3. SetsFrom(Transition(before, "idle"), Named)
      BY <2>2
    <3>4. Kept /\ set'.state \in {set.state, "idle"}
      BY <3>1, <3>2, <3>3, MoveKept DEF Moved, Named
    <3> QED
      BY <3>4 DEF Guarded
  <2>3. CASE SetsFrom(set, Named)
    <3>1. SetsFrom(set, Named) /\ Named \in BOOLEAN
      BY <2>3 DEF Named
    <3>2. Kept /\ set' = set
      BY <3>1, SetKept DEF Inv, TypeOK
    <3> QED
      BY <3>2 DEF Guarded
  <2> QED
    BY <2>1, <2>2, <2>3 DEF OnCallTimeout, Inv, TypeOK
<1>a. /\ inbox' \in Seq(Event) /\ direction' = direction /\ line' = line /\ owner' = owner
      /\ acts' = acts /\ hangup' = hangup
  BY ReceiveKeeps DEF OnCallTimeout
<1>2. TypeOK'
  BY <1>1, <1>a DEF Kept, Inv, TypeOK, OnCallTimeout, Later
<1>3. EndedHasExit'
  BY <1>1, <1>a, <1>2, ExitKept DEF Inv, TypeOK, OnCallTimeout, Later
<1> QED
  BY <1>1, <1>2, <1>3 DEF Inv, Kept

LEMMA OnCallEndedStep == ASSUME NEW c \in Calls, Inv, OnCallEnded(c) PROVE Inv'
<1> DEFINE u == [set EXCEPT !.sessions[c] = "absent"]
<1>1. Kept /\ Guarded
  <2>1. CASE Sets(FallenBack(u)) /\ Held # {}
    <3>1. u \in View /\ Held # {}
      BY <2>1, StateNames DEF Inv, TypeOK, View, Session
    <3>2. FallenBack(u) \in View /\ FallenBack(u).state = "held" /\ OneMove("held")
      BY <3>1, FallenBackView
    <3>3. SetsFrom(FallenBack(u), TRUE)
      BY <2>1 DEF Sets
    <3>4. Kept /\ set' = FallenBack(u)
      BY <3>2, <3>3, SetKept
    <3> QED
      BY <3>2, <3>4 DEF Guarded
  <2>2. CASE Sets(TornDown(u)) /\ Later
    <3>1. u \in View /\ u.state = set.state
      BY StateNames DEF Inv, TypeOK, View, Session
    <3>2. Moved(u, TornDown(u), "ended")
      BY <3>1, TornDownView DEF Inv, TypeOK
    <3>3. SetsFrom(TornDown(u), TRUE)
      BY <2>2 DEF Sets
    <3>4. Kept /\ set'.state \in {set.state, "ended"}
      BY <3>1, <3>2, <3>3, MoveKept DEF Moved
    <3> QED
      BY <2>2, <3>4 DEF Guarded, Inv, TypeOK, Later
  <2>3. CASE Sets(u)
    <3>1. u \in View /\ u.state = set.state
      BY StateNames DEF Inv, TypeOK, View, Session
    <3>2. SetsFrom(u, TRUE)
      BY <2>3 DEF Sets
    <3>3. Kept /\ set' = u
      BY <3>1, <3>2, SetKept
    <3> QED
      BY <3>1, <3>3 DEF Guarded
  <2> QED
    BY <2>1, <2>2, <2>3 DEF OnCallEnded, Inv, TypeOK
<1>a. /\ inbox' \in Seq(Event) /\ direction' = direction /\ line' = line /\ owner' = owner
      /\ acts' = acts /\ hangup' = hangup
  BY ReceiveKeeps DEF OnCallEnded
<1>b. links' \in [Calls -> {"none", "open", "up", "weak"}]
  BY DEF OnCallEnded, AllClosed, Inv, TypeOK, View, Session
<1>2. TypeOK'
  BY <1>1, <1>a, <1>b DEF Kept, Inv, TypeOK, OnCallEnded, Later
<1>3. EndedHasExit'
  BY <1>1, <1>a, <1>b, <1>2, ExitKept DEF Inv, TypeOK, OnCallEnded, Later
<1> QED
  BY <1>1, <1>2, <1>3 DEF Inv, Kept

LEMMA OnCallHeldStep == ASSUME NEW c \in Calls, Inv, OnCallHeld(c) PROVE Inv'
<1> DEFINE u == [set EXCEPT !.sessions[c] = "held"]
<1> DEFINE v == [set EXCEPT !.sessions[c] = "active"]
<1>1. Kept /\ Guarded
  <2>1. CASE Sets(set)
    <3>1. SetsFrom(set, TRUE)
      BY <2>1 DEF Sets
    <3>2. Kept /\ set' = set
      BY <3>1, SetKept DEF Inv, TypeOK
    <3> QED
      BY <3>2 DEF Guarded
  <2>2. CASE Sets(u)
    <3>1. u \in View /\ u.state = set.state
      BY StateNames DEF Inv, TypeOK, View, Session
    <3>2. SetsFrom(u, TRUE)
      BY <2>2 DEF Sets
    <3>3. Kept /\ set' = u
      BY <3>1, <3>2, SetKept
    <3> QED
      BY <3>1, <3>3 DEF Guarded
  <2>3. CASE Sets(v)
    <3>1. v \in View /\ v.state = set.state
      BY StateNames DEF Inv, TypeOK, View, Session
    <3>2. SetsFrom(v, TRUE)
      BY <2>3 DEF Sets
    <3>3. Kept /\ set' = v
      BY <3>1, <3>2, SetKept
    <3> QED
      BY <3>1, <3>3 DEF Guarded
  <2> QED
    BY <2>1, <2>2, <2>3 DEF OnCallHeld, Inv, TypeOK
<1>a. /\ inbox' \in Seq(Event) /\ direction' = direction /\ line' = line /\ owner' = owner
      /\ acts' = acts /\ hangup' = hangup
  <2>1. Receive("CallHeld", c) \/ Receive("CallResumed", c)
    BY DEF OnCallHeld
  <2> QED
    BY <2>1, ReceiveKeeps
<1>2. TypeOK'
  BY <1>1, <1>a DEF Kept, Inv, TypeOK, OnCallHeld
<1>3. EndedHasExit'
  BY <1>1, <1>a, <1>2, ExitKept DEF Inv, TypeOK, OnCallHeld
<1> QED
  BY <1>1, <1>2, <1>3 DEF Inv, Kept

-----------------------------------------------------------------------------
(* The tab, when an await is over *)

LEMMA InviteReturnsStep == ASSUME NEW op \in ops, Inv, InviteReturns(op) PROVE Inv'
<1> DEFINE u == [set EXCEPT !.active = [id |-> op.call, state |-> "ringing_outgoing"],
                      !.sessions[op.call] = "ringing_outgoing", !.outgoing = op.call, !.room = TRUE]
<1>1. Kept /\ Guarded
  <2>1. CASE Sets(Transition(u, "ringing_outgoing"))
    <3>1. u \in View /\ u.state = set.state
      BY StateNames DEF Inv, TypeOK, View, Session, Op
    <3>2. Moved(u, Transition(u, "ringing_outgoing"), "ringing_outgoing")
      BY <3>1, StateNames, TransitionView DEF Inv, TypeOK
    <3>3. SetsFrom(Transition(u, "ringing_outgoing"), TRUE)
      BY <2>1 DEF Sets
    <3>4. Kept /\ set'.state \in {set.state, "ringing_outgoing"}
      BY <3>1, <3>2, <3>3, MoveKept DEF Moved
    <3> QED
      BY <3>4 DEF Guarded
  <2>2. CASE Sets(Transition([set EXCEPT !.outgoing = NoCall], "failed"))
    <3> DEFINE before == [set EXCEPT !.outgoing = NoCall]
    <3>1. before \in View /\ before.state = set.state
      BY DEF Inv, TypeOK, View
    <3>2. Moved(before, Transition(before, "failed"), "failed")
      BY <3>1, StateNames, TransitionView DEF Inv, TypeOK
    <3>3. SetsFrom(Transition(before, "failed"), TRUE)
      BY <2>2 DEF Sets
    <3>4. Kept /\ set'.state \in {set.state, "failed"}
      BY <3>1, <3>2, <3>3, MoveKept DEF Moved
    <3> QED
      BY <3>4 DEF Guarded
  <2> QED
    BY <2>1, <2>2 DEF InviteReturns, Inv, TypeOK
<1>a. /\ ops' \in SUBSET Op /\ \A q \in ops : q.kind = "cancel" => q \in ops'
      /\ acts' \in Nat /\ timers' \in Nat /\ timers' >= timers
      /\ inbox' = inbox /\ direction' = direction /\ line' = line /\ owner' = owner
  BY DEF InviteReturns, Answered, Fails, Act, Finish, Later, far, Inv, TypeOK
<1>2. TypeOK'
  BY <1>1, <1>a DEF Kept, Inv, TypeOK, InviteReturns
<1>3. EndedHasExit'
  BY <1>1, <1>a, <1>2, ExitKept DEF Inv, TypeOK, InviteReturns
<1> QED
  BY <1>1, <1>2, <1>3 DEF Inv, Kept

LEMMA ClaimReturnsStep == ASSUME NEW op \in ops, Inv, ClaimReturns(op) PROVE Inv'
<1> DEFINE u == [set EXCEPT !.incoming = NoCall]
<1>1. Kept /\ Guarded
  <2>1. CASE Sets(set)
    <3>1. SetsFrom(set, TRUE)
      BY <2>1 DEF Sets
    <3>2. Kept /\ set' = set
      BY <3>1, SetKept DEF Inv, TypeOK
    <3> QED
      BY <3>2 DEF Guarded
  <2>2. CASE Sets([Transition(u, "connecting") EXCEPT !.room = TRUE])
    <3>1. u \in View /\ u.state = set.state
      BY StateNames DEF Inv, TypeOK, View, Session, Op
    <3>2. Moved(u, Transition(u, "connecting"), "connecting")
      BY <3>1, StateNames, TransitionView DEF Inv, TypeOK
    <3> DEFINE w == [Transition(u, "connecting") EXCEPT !.room = TRUE]
    <3>3. w \in View /\ w.state = Transition(u, "connecting").state
      BY <3>2 DEF Moved, View
    <3>4. SetsFrom(w, TRUE)
      BY <2>2 DEF Sets
    <3>5. Kept /\ set'.state \in {set.state, "connecting"}
      BY <3>1, <3>2, <3>3, <3>4, MoveKept
    <3> QED
      BY <3>5 DEF Guarded
  <2>3. CASE Sets(Transition(u, "idle"))
    <3>1. u \in View /\ u.state = set.state
      BY StateNames DEF Inv, TypeOK, View, Session, Op
    <3>2. Moved(u, Transition(u, "idle"), "idle")
      BY <3>1, StateNames, TransitionView DEF Inv, TypeOK
    <3>3. SetsFrom(Transition(u, "idle"), TRUE)
      BY <2>3 DEF Sets
    <3>4. Kept /\ set'.state \in {set.state, "idle"}
      BY <3>1, <3>2, <3>3, MoveKept DEF Moved
    <3> QED
      BY <3>4 DEF Guarded
  <2>4. CASE Sets(u)
    <3>1. u \in View /\ u.state = set.state
      BY StateNames DEF Inv, TypeOK, View, Session, Op
    <3>2. SetsFrom(u, TRUE)
      BY <2>4 DEF Sets
    <3>3. Kept /\ set' = u
      BY <3>1, <3>2, SetKept
    <3> QED
      BY <3>1, <3>3 DEF Guarded
  <2> QED
    BY <2>1, <2>2, <2>3, <2>4 DEF ClaimReturns, Inv, TypeOK, Accepting
<1>a. /\ ops' \in SUBSET Op /\ \A q \in ops : q.kind = "cancel" => q \in ops'
      /\ acts' \in Nat /\ timers' \in Nat /\ timers' >= timers
      /\ inbox' = inbox /\ direction' = direction /\ line' = line /\ owner' = owner
  BY DEF ClaimReturns, Answered, Fails, Refused, Over, Act, Finish, Continue, NewOp, Op, far, Inv,
         TypeOK, Accepting, View, Session
<1>2. TypeOK'
  BY <1>1, <1>a DEF Kept, Inv, TypeOK, ClaimReturns
<1>3. EndedHasExit'
  BY <1>1, <1>a, <1>2, ExitKept DEF Inv, TypeOK, ClaimReturns
<1> QED
  BY <1>1, <1>2, <1>3 DEF Inv, Kept

LEMMA AutoHoldReturnsStep == ASSUME NEW op \in ops, Inv, AutoHoldReturns(op) PROVE Inv'
<1> DEFINE u == [[set EXCEPT !.sessions[op.other] = "held"] EXCEPT !.incoming = NoCall]
<1>1. Kept /\ Guarded
  <2>1. u \in View /\ u.state = set.state
    BY StateNames DEF Inv, TypeOK, View, Session, Op
  <2>2. Moved(u, Transition(u, "connecting"), "connecting")
    BY <2>1, StateNames, TransitionView DEF Inv, TypeOK
  <2> DEFINE w == [Transition(u, "connecting") EXCEPT !.room = TRUE]
  <2>3. w \in View /\ w.state = Transition(u, "connecting").state
    BY <2>2 DEF Moved, View
  <2>4. SetsFrom(w, TRUE)
    BY DEF AutoHoldReturns, Sets, Accepting
  <2>5. Kept /\ set'.state \in {set.state, "connecting"}
    BY <2>1, <2>2, <2>3, <2>4, MoveKept
  <2> QED
    BY <2>5 DEF Guarded
<1>a. /\ ops' \in SUBSET Op /\ \A q \in ops : q.kind = "cancel" => q \in ops'
      /\ acts' \in Nat /\ timers' \in Nat /\ timers' >= timers
      /\ inbox' = inbox /\ direction' = direction /\ line' = line /\ owner' = owner
  BY DEF AutoHoldReturns, Succeeds, Continue, NewOp, Op, far, Inv, TypeOK, Accepting, View, Session
<1>2. TypeOK'
  BY <1>1, <1>a DEF Kept, Inv, TypeOK, AutoHoldReturns
<1>3. EndedHasExit'
  BY <1>1, <1>a, <1>2, ExitKept DEF Inv, TypeOK, AutoHoldReturns
<1> QED
  BY <1>1, <1>2, <1>3 DEF Inv, Kept

LEMMA AcceptReturnsStep == ASSUME NEW op \in ops, Inv, AcceptReturns(op) PROVE Inv'
<1> DEFINE u == [set EXCEPT !.active = [id |-> op.call, state |-> "connecting"],
                      !.sessions[op.call] = "connecting"]
<1>1. Kept /\ Guarded
  <2>1. CASE Sets(u)
    <3>1. u \in View /\ u.state = set.state
      BY StateNames DEF Inv, TypeOK, View, Session, Op
    <3>2. SetsFrom(u, TRUE)
      BY <2>1 DEF Sets
    <3>3. Kept /\ set' = u
      BY <3>1, <3>2, SetKept
    <3> QED
      BY <3>1, <3>3 DEF Guarded
  <2>2. CASE Sets(set)
    <3>1. SetsFrom(set, TRUE)
      BY <2>2 DEF Sets
    <3>2. Kept /\ set' = set
      BY <3>1, SetKept DEF Inv, TypeOK
    <3> QED
      BY <3>2 DEF Guarded
  <2>3. CASE Sets(Transition(set, "failed"))
    <3>1. set \in View
      BY DEF Inv, TypeOK
    <3>2. Moved(set, Transition(set, "failed"), "failed")
      BY <3>1, StateNames, TransitionView DEF Inv, TypeOK
    <3>3. SetsFrom(Transition(set, "failed"), TRUE)
      BY <2>3 DEF Sets
    <3>4. Kept /\ set'.state \in {set.state, "failed"}
      BY <3>1, <3>2, <3>3, MoveKept DEF Moved
    <3> QED
      BY <3>4 DEF Guarded
  <2> QED
    BY <2>1, <2>2, <2>3 DEF AcceptReturns, Inv, TypeOK
<1>a. /\ ops' \in SUBSET Op /\ \A q \in ops : q.kind = "cancel" => q \in ops'
      /\ acts' \in Nat /\ timers' \in Nat /\ timers' >= timers
      /\ inbox' = inbox /\ direction' = direction /\ line' = line /\ owner' = owner
  BY DEF AcceptReturns, Answered, Fails, Refused, Succeeds, Act, Finish, Continue, Later, NewOp, Op,
         far, Inv, TypeOK
<1>2. TypeOK'
  BY <1>1, <1>a DEF Kept, Inv, TypeOK, AcceptReturns
<1>3. EndedHasExit'
  BY <1>1, <1>a, <1>2, ExitKept DEF Inv, TypeOK, AcceptReturns
<1> QED
  BY <1>1, <1>2, <1>3 DEF Inv, Kept

LEMMA OfferReturnsStep == ASSUME NEW op \in ops, Inv, OfferReturns(op) PROVE Inv'
<1>1. Kept /\ Guarded
  <2>1. CASE Sets(set)
    <3>1. SetsFrom(set, TRUE)
      BY <2>1 DEF Sets
    <3>2. Kept /\ set' = set
      BY <3>1, SetKept DEF Inv, TypeOK
    <3> QED
      BY <3>2 DEF Guarded
  <2>2. CASE Sets(Transition(set, "failed"))
    <3>1. set \in View
      BY DEF Inv, TypeOK
    <3>2. Moved(set, Transition(set, "failed"), "failed")
      BY <3>1, StateNames, TransitionView DEF Inv, TypeOK
    <3>3. SetsFrom(Transition(set, "failed"), TRUE)
      BY <2>2 DEF Sets
    <3>4. Kept /\ set'.state \in {set.state, "failed"}
      BY <3>1, <3>2, <3>3, MoveKept DEF Moved
    <3> QED
      BY <3>4 DEF Guarded
  <2> QED
    BY <2>1, <2>2 DEF OfferReturns, Inv, TypeOK
<1>a. /\ ops' \in SUBSET Op /\ \A q \in ops : q.kind = "cancel" => q \in ops'
      /\ acts' \in Nat /\ timers' \in Nat /\ timers' >= timers
      /\ inbox' = inbox /\ direction' = direction /\ line' = line /\ owner' = owner
  BY DEF OfferReturns, Fails, Succeeds, Act, Finish, far, Inv, TypeOK
<1>2. TypeOK'
  BY <1>1, <1>a DEF Kept, Inv, TypeOK, OfferReturns
<1>3. EndedHasExit'
  BY <1>1, <1>a, <1>2, ExitKept DEF Inv, TypeOK, OfferReturns
<1> QED
  BY <1>1, <1>2, <1>3 DEF Inv, Kept

LEMMA RejectReturnsStep == ASSUME NEW op \in ops, Inv, RejectReturns(op) PROVE Inv'
<1>1. Kept /\ Guarded
  <2>1. CASE Sets(Transition(set, "ended")) /\ Later
    <3>1. set \in View
      BY DEF Inv, TypeOK
    <3>2. Moved(set, Transition(set, "ended"), "ended")
      BY <3>1, StateNames, TransitionView DEF Inv, TypeOK
    <3>3. SetsFrom(Transition(set, "ended"), TRUE)
      BY <2>1 DEF Sets
    <3>4. Kept /\ set'.state \in {set.state, "ended"}
      BY <3>1, <3>2, <3>3, MoveKept DEF Moved
    <3> QED
      BY <2>1, <3>4 DEF Guarded, Inv, TypeOK, Later
  <2>2. CASE Sets(set)
    <3>1. SetsFrom(set, TRUE)
      BY <2>2 DEF Sets
    <3>2. Kept /\ set' = set
      BY <3>1, SetKept DEF Inv, TypeOK
    <3> QED
      BY <3>2 DEF Guarded
  <2> QED
    BY <2>1, <2>2 DEF RejectReturns, Inv, TypeOK
<1>a. /\ ops' \in SUBSET Op /\ \A q \in ops : q.kind = "cancel" => q \in ops'
      /\ acts' \in Nat /\ timers' \in Nat /\ timers' >= timers
      /\ inbox' = inbox /\ direction' = direction /\ line' = line /\ owner' = owner
  BY DEF RejectReturns, Answered, Fails, Over, Act, Finish, Later, far, Inv, TypeOK
<1>2. TypeOK'
  BY <1>1, <1>a DEF Kept, Inv, TypeOK, RejectReturns
<1>3. EndedHasExit'
  BY <1>1, <1>a, <1>2, ExitKept DEF Inv, TypeOK, RejectReturns
<1> QED
  BY <1>1, <1>2, <1>3 DEF Inv, Kept

LEMMA BusyReturnsStep == ASSUME NEW op \in ops, Inv, BusyReturns(op) PROVE Inv'
<1>1. Kept /\ Guarded
  BY DEF BusyReturns, Kept, Guarded, Inv, TypeOK, OneMove, Held
<1>a. /\ ops' \in SUBSET Op /\ \A q \in ops : q.kind = "cancel" => q \in ops'
      /\ acts' \in Nat /\ inbox' = inbox /\ direction' = direction /\ line' = line /\ owner' = owner
  BY DEF BusyReturns, Answered, Fails, Over, Act, far, Finish, Inv, TypeOK
<1>2. TypeOK'
  BY <1>1, <1>a DEF Kept, Inv, TypeOK, BusyReturns
<1>3. EndedHasExit'
  BY <1>1, <1>a, <1>2, ExitKept DEF Inv, TypeOK, BusyReturns
<1> QED
  BY <1>1, <1>2, <1>3 DEF Inv, Kept

\* Here a way out is taken, and another one is left in its place.
LEMMA CancelReturnsStep == ASSUME NEW op \in ops, Inv, CancelReturns(op) PROVE Inv'
<1>1. SetsFrom(set, TRUE)
  BY DEF CancelReturns, Sets
<1>2. Kept
  BY <1>1, SetKept DEF Inv, TypeOK
<1>3. /\ ops' \in SUBSET Op /\ acts' \in Nat /\ timers' \in Nat /\ timers' > 0
      /\ inbox' = inbox /\ direction' = direction /\ line' = line /\ owner' = owner
  BY DEF CancelReturns, Answered, Fails, Over, Act, far, Finish, Later, Inv, TypeOK
<1>4. TypeOK'
  BY <1>2, <1>3 DEF Kept, CancelReturns, Inv, TypeOK
<1> QED
  BY <1>2, <1>3, <1>4 DEF Inv, Kept, EndedHasExit

LEMMA EndCallReturnsStep == ASSUME NEW op \in ops, Inv, EndCallReturns(op) PROVE Inv'
<1> DEFINE u == [set EXCEPT !.sessions[op.call] = "absent"]
<1>1. Kept /\ Guarded
  <2>1. CASE Sets(u)
    <3>1. u \in View /\ u.state = set.state
      BY StateNames DEF Inv, TypeOK, View, Session, Op
    <3>2. SetsFrom(u, TRUE)
      BY <2>1 DEF Sets
    <3>3. Kept /\ set' = u
      BY <3>1, <3>2, SetKept
    <3> QED
      BY <3>1, <3>3 DEF Guarded
  <2>2. CASE Sets(FallenBack(u)) /\ Held # {}
    <3>1. u \in View /\ Held # {}
      BY <2>2, StateNames DEF Inv, TypeOK, View, Session, Op
    <3>2. FallenBack(u) \in View /\ FallenBack(u).state = "held" /\ OneMove("held")
      BY <3>1, FallenBackView
    <3>3. SetsFrom(FallenBack(u), TRUE)
      BY <2>2 DEF Sets
    <3>4. Kept /\ set' = FallenBack(u)
      BY <3>2, <3>3, SetKept
    <3> QED
      BY <3>2, <3>4 DEF Guarded
  <2>3. CASE TearDown(u)
    <3>1. u \in View /\ u.state = set.state /\ TearDown(u)
      BY <2>3, StateNames DEF EndCallReturns, Inv, TypeOK, View, Op
    <3> QED
      BY <3>1, TearDownKept
  <2> QED
    BY <2>1, <2>2, <2>3 DEF EndCallReturns, Inv, TypeOK
<1>a. /\ ops' \in SUBSET Op /\ \A q \in ops : q.kind = "cancel" => q \in ops'
      /\ acts' \in Nat /\ timers' = timers
      /\ inbox' = inbox /\ direction' = direction /\ line' = line /\ owner' = owner
  BY DEF EndCallReturns, Answered, Fails, Over, Act, far, Finish, Inv, TypeOK
<1>b. /\ hangup' \in BOOLEAN /\ (hangup => hangup')
      /\ links' \in [Calls -> {"none", "open", "up", "weak"}]
  <2>1. CASE UNCHANGED <<links, hangup>>
    BY <2>1 DEF Inv, TypeOK
  <2>2. CASE TearDown(u)
    <3>1. u \in View /\ u.state = set.state
      BY StateNames DEF Inv, TypeOK, View
    <3> QED
      BY <2>2, <3>1, TearDownKept
  <2> QED
    BY <2>1, <2>2 DEF EndCallReturns
<1>2. TypeOK'
  BY <1>1, <1>a, <1>b DEF Kept, Inv, TypeOK, EndCallReturns
<1>3. EndedHasExit'
  BY <1>1, <1>a, <1>b, <1>2, ExitKept DEF Inv, TypeOK, EndCallReturns
<1> QED
  BY <1>1, <1>2, <1>3 DEF Inv, Kept

LEMMA HoldReturnsStep == ASSUME NEW op \in ops, Inv, HoldReturns(op) PROVE Inv'
<1> DEFINE u == [set EXCEPT !.sessions[op.other] = "held"]
<1> DEFINE v == [u EXCEPT !.active = [id |-> op.other, state |-> "held"]]
<1>1. Kept /\ Guarded
  <2>1. CASE Sets(Transition(v, "held"))
    <3>1. v \in View /\ v.state = set.state
      BY StateNames DEF Inv, TypeOK, View, Session, Op
    <3>2. Moved(v, Transition(v, "held"), "held")
      BY <3>1, StateNames, TransitionView DEF Inv, TypeOK
    <3>3. SetsFrom(Transition(v, "held"), TRUE)
      BY <2>1 DEF Sets
    <3>4. Kept /\ set'.state \in {set.state, "held"}
      BY <3>1, <3>2, <3>3, MoveKept DEF Moved
    <3> QED
      BY <3>4 DEF Guarded
  <2>2. CASE Sets(u)
    <3>1. u \in View /\ u.state = set.state
      BY StateNames DEF Inv, TypeOK, View, Session, Op
    <3>2. SetsFrom(u, TRUE)
      BY <2>2 DEF Sets
    <3>3. Kept /\ set' = u
      BY <3>1, <3>2, SetKept
    <3> QED
      BY <3>1, <3>3 DEF Guarded
  <2> QED
    BY <2>1, <2>2 DEF HoldReturns, Inv, TypeOK, OnHold
<1>a. /\ ops' \in SUBSET Op /\ \A q \in ops : q.kind = "cancel" => q \in ops'
      /\ acts' = acts /\ inbox' = inbox /\ direction' = direction /\ line' = line /\ owner' = owner
  <2> USE DEF HoldReturns, Succeeds, Finish, Continue, far, Inv, TypeOK
  <2>1. CASE op.kind = "hold"
    BY <2>1
  <2>2. CASE op.kind = "resume"
    BY <2>2 DEF NewOp, Op
  <2>3. CASE op.kind = "swap"
    <3>1. Resuming(op.call) \in Op
      BY DEF Resuming, NewOp, Op, View, Session
    <3>2. CASE Present(op.call)
      BY <2>3, <3>1, <3>2
    <3>3. CASE ~Present(op.call)
      BY <2>3, <3>3
    <3> QED
      BY <3>2, <3>3
  <2> QED
    BY <2>1, <2>2, <2>3
<1>2. TypeOK'
  BY <1>1, <1>a DEF Kept, Inv, TypeOK, HoldReturns
<1>3. EndedHasExit'
  BY <1>1, <1>a, <1>2, ExitKept DEF Inv, TypeOK, HoldReturns
<1> QED
  BY <1>1, <1>2, <1>3 DEF Inv, Kept

LEMMA ResumeReturnsStep == ASSUME NEW op \in ops, Inv, ResumeReturns(op) PROVE Inv'
<1> DEFINE u == [set EXCEPT !.sessions[op.call] = "active", !.active = [id |-> op.call, state |-> "active"],
                      !.room = TRUE]
<1>1. Kept /\ Guarded
  <2>1. u \in View /\ u.state = set.state
    BY StateNames DEF Inv, TypeOK, View, Session, Op
  <2>2. Moved(u, Transition(u, "active"), "active")
    BY <2>1, StateNames, TransitionView DEF Inv, TypeOK
  <2>3. SetsFrom(Transition(u, "active"), TRUE)
    BY DEF ResumeReturns, Sets
  <2>4. Kept /\ set'.state \in {set.state, "active"}
    BY <2>1, <2>2, <2>3, MoveKept DEF Moved
  <2> QED
    BY <2>4 DEF Guarded
<1>a. /\ ops' \in SUBSET Op /\ \A q \in ops : q.kind = "cancel" => q \in ops'
      /\ acts' \in Nat /\ timers' \in Nat /\ timers' >= timers
      /\ inbox' = inbox /\ direction' = direction /\ line' = line /\ owner' = owner
  BY DEF ResumeReturns, Succeeds, Finish, far, Inv, TypeOK
<1>2. TypeOK'
  BY <1>1, <1>a DEF Kept, Inv, TypeOK, ResumeReturns
<1>3. EndedHasExit'
  BY <1>1, <1>a, <1>2, ExitKept DEF Inv, TypeOK, ResumeReturns
<1> QED
  BY <1>1, <1>2, <1>3 DEF Inv, Kept

-----------------------------------------------------------------------------
(* Connections and timers *)

LEMMA LinkUpStep == ASSUME NEW c \in Calls, Inv, LinkUp(c) PROVE Inv'
<1>1. Kept /\ Guarded
  <2>1. set \in View
    BY DEF Inv, TypeOK
  <2>2. Moved(set, Transition(set, "active"), "active")
    BY <2>1, StateNames, TransitionView DEF Inv, TypeOK
  <2>3. SetsFrom(Transition(set, "active"), TRUE)
    BY DEF LinkUp, Sets, LinkChanges
  <2>4. Kept /\ set'.state \in {set.state, "active"}
    BY <2>1, <2>2, <2>3, MoveKept DEF Moved
  <2> QED
    BY <2>4 DEF Guarded
<1>2. TypeOK'
  BY <1>1 DEF Kept, Inv, TypeOK, LinkUp, LinkChanges, Act, far
<1>3. EndedHasExit'
  BY <1>1, <1>2, ExitKept DEF Inv, TypeOK, LinkUp, LinkChanges
<1> QED
  BY <1>1, <1>2, <1>3 DEF Inv, Kept

LEMMA LinkWeakensStep == ASSUME NEW c \in Calls, Inv, LinkWeakens(c) PROVE Inv'
<1>1. Kept /\ Guarded
  <2>1. set \in View
    BY DEF Inv, TypeOK
  <2>2. Moved(set, Transition(set, "reconnecting"), "reconnecting")
    BY <2>1, StateNames, TransitionView DEF Inv, TypeOK
  <2>3. SetsFrom(Transition(set, "reconnecting"), TRUE)
    BY DEF LinkWeakens, Sets, LinkChanges
  <2>4. Kept /\ set'.state \in {set.state, "reconnecting"}
    BY <2>1, <2>2, <2>3, MoveKept DEF Moved
  <2> QED
    BY <2>4 DEF Guarded
<1>2. TypeOK'
  BY <1>1 DEF Kept, Inv, TypeOK, LinkWeakens, LinkChanges, Act, far
<1>3. EndedHasExit'
  BY <1>1, <1>2, ExitKept DEF Inv, TypeOK, LinkWeakens, LinkChanges
<1> QED
  BY <1>1, <1>2, <1>3 DEF Inv, Kept

LEMMA LinkRecoversStep == ASSUME NEW c \in Calls, Inv, LinkRecovers(c) PROVE Inv'
<1>1. Kept /\ Guarded
  <2>1. set \in View
    BY DEF Inv, TypeOK
  <2>2. Moved(set, Transition(set, "active"), "active")
    BY <2>1, StateNames, TransitionView DEF Inv, TypeOK
  <2>3. SetsFrom(Transition(set, "active"), TRUE)
    BY DEF LinkRecovers, Sets, LinkChanges
  <2>4. Kept /\ set'.state \in {set.state, "active"}
    BY <2>1, <2>2, <2>3, MoveKept DEF Moved
  <2> QED
    BY <2>4 DEF Guarded
<1>2. TypeOK'
  BY <1>1 DEF Kept, Inv, TypeOK, LinkRecovers, LinkChanges, Act, far
<1>3. EndedHasExit'
  BY <1>1, <1>2, ExitKept DEF Inv, TypeOK, LinkRecovers, LinkChanges
<1> QED
  BY <1>1, <1>2, <1>3 DEF Inv, Kept

\* A delayed transition to idle leaves \"ended\" for good.
LEMMA IdleKept ==
  ASSUME Inv, set = ui, Sets(Transition(set, "idle"))
  PROVE  Kept /\ set'.state # "ended"
<1>1. Moved(set, Transition(set, "idle"), "idle")
  BY StateNames, TransitionView DEF Inv, TypeOK
<1>2. SetsFrom(Transition(set, "idle"), TRUE)
  BY DEF Sets
<1>3. Kept /\ set' = Transition(set, "idle") /\ set'.state \in {set.state, "idle"}
  BY <1>1, <1>2, MoveKept DEF Moved
<1>4. set.state = "ended" => Transition(set, "idle").state = "idle"
  BY StateNames, TransitionView DEF Inv, TypeOK
<1> QED
  BY <1>3, <1>4

LEMMA TimerFiresStep == ASSUME Inv, TimerFires PROVE Inv'
<1>1. Kept /\ set'.state # "ended"
  BY IdleKept DEF TimerFires
<1>2. TypeOK'
  BY <1>1 DEF Kept, TimerFires, far, Inv, TypeOK
<1> QED
  BY <1>1, <1>2 DEF Inv, Kept, EndedHasExit

LEMMA HangupFiresStep == ASSUME Inv, HangupFires PROVE Inv'
<1>1. Kept /\ set'.state # "ended"
  BY IdleKept DEF HangupFires
<1>2. TypeOK'
  BY <1>1 DEF Kept, HangupFires, far, Inv, TypeOK
<1> QED
  BY <1>1, <1>2 DEF Inv, Kept, EndedHasExit

-----------------------------------------------------------------------------
(* Steps that set nothing: the rendering, the server, the others *)

LEMMA RenderStep == ASSUME Inv, Render PROVE Inv'
<1>1. TypeOK'
  BY DEF Render, far, Inv, TypeOK
<1>2. OneMove(set.state)'
  BY DEF Render, OneMove
<1> QED
  BY <1>1, <1>2 DEF Render, Inv, EndedHasExit

LEMMA ServeStep == ASSUME NEW op \in ops, Inv, Serve(op) PROVE Inv'
<1>1. PICK served \in {"refused", "done"} :
        ops' = (ops \ {op}) \cup {[op EXCEPT !.served = served]}
  BY DEF Serve
<1>2. [op EXCEPT !.served = served] \in Op /\ [op EXCEPT !.served = served].kind = op.kind
  BY DEF Inv, TypeOK, Op
<1>3. line' \in [Calls -> {"none", "ringing", "givenUp", "answered", "over"}]
  BY DEF Serve, Ended, Inv, TypeOK
<1>4. owner' \in [Calls -> {"none", "mine", "other"}]
  BY DEF Serve, Inv, TypeOK
<1>5. TypeOK'
  BY <1>1, <1>2, <1>3, <1>4 DEF Serve, Inv, TypeOK
<1>6. EndedHasExit'
  BY <1>1, <1>2 DEF Serve, Inv, EndedHasExit
<1> QED
  BY <1>5, <1>6 DEF Serve, Inv, OneMove, Held

LEMMA OthersStep == ASSUME Inv, OthersAct PROVE Inv'
<1>1. /\ inbox' \in Seq(Event)
      /\ direction' \in [Calls -> {"none", "out", "in"}]
      /\ line' \in [Calls -> {"none", "ringing", "givenUp", "answered", "over"}]
      /\ owner' \in [Calls -> {"none", "mine", "other"}]
  <2> USE DEF Inv, TypeOK, Notify, Event, Becomes, Ended
  <2>1. CASE PeerCancelsDialing
    BY <2>1 DEF PeerCancelsDialing
  <2>a. ASSUME NEW c \in Calls, PeerInvites(c) PROVE <1>1
    BY <2>a DEF PeerInvites
  <2>b. ASSUME NEW c \in Calls, PeerCancels(c) PROVE <1>1
    BY <2>b DEF PeerCancels
  <2>c. ASSUME NEW c \in Calls, CallTimesOut(c) PROVE <1>1
    BY <2>c DEF CallTimesOut
  <2>d. ASSUME NEW c \in Calls, OtherTabClaims(c) PROVE <1>1
    BY <2>d DEF OtherTabClaims
  <2>e. ASSUME NEW c \in Calls, OtherTabRejects(c) PROVE <1>1
    BY <2>e DEF OtherTabRejects
  <2>3. ASSUME NEW c \in Calls, NEW accepted \in BOOLEAN, PeerResponds(c, accepted)
        PROVE  <1>1
    BY <2>3 DEF PeerResponds
  <2>4. ASSUME NEW c \in Calls, PeerEnds(c) PROVE <1>1
    BY <2>4 DEF PeerEnds
  <2>5. ASSUME NEW c \in Calls, NEW type \in {"CallHeld", "CallResumed"}, PeerHolds(c, type)
        PROVE  <1>1
    BY <2>5 DEF PeerHolds
  <2> QED
    BY <2>1, <2>a, <2>b, <2>c, <2>d, <2>e, <2>3, <2>4, <2>5 DEF OthersAct
<1>2. acts' \in Nat /\ UNCHANGED tab
  BY DEF OthersAct, Act, Inv, TypeOK
<1> QED
  BY <1>1, <1>2 DEF tab, Inv, TypeOK, OneMove, Held, EndedHasExit

-----------------------------------------------------------------------------
(* Theorems *)

LEMMA InitInv == Init => Inv
<1> SUFFICES ASSUME Init PROVE Inv
  OBVIOUS
<1>1. EmptyView \in View /\ EmptyView.state = "idle"
  BY StateNames DEF EmptyView, View, NoSession, Session
<1>2. inbox \in Seq(Event)
  BY DEF Init
<1>3. stale \in BOOLEAN /\ hangup \in BOOLEAN
  BY DEF Init
<1>4. /\ direction \in [Calls -> {"none", "out", "in"}]
      /\ line \in [Calls -> {"none", "ringing", "givenUp", "answered", "over"}]
      /\ owner \in [Calls -> {"none", "mine", "other"}]
      /\ links \in [Calls -> {"none", "open", "up", "weak"}]
  BY DEF Init
<1>5. ops \in SUBSET Op /\ timers \in Nat /\ acts \in Nat
  BY DEF Init
<1>6. TypeOK
  BY <1>1, <1>2, <1>3, <1>4, <1>5 DEF Init, TypeOK
<1> QED
  BY <1>1, <1>6 DEF Init, Inv, EndedHasExit, OneMove

LEMMA NextInv == Inv /\ [Next]_vars => Inv'
<1> SUFFICES ASSUME Inv, [Next]_vars PROVE Inv'
  OBVIOUS
<1>1. CASE Render
  BY <1>1, RenderStep
<1>2. CASE UserActs
  BY <1>2, StartCallStep, AcceptCallStep, RejectCallStep, CancelOutgoingCallStep, EndCallStep,
     HoldCallStep, ResumeCallStep, SwapCallsStep DEF UserActs
<1>3. ASSUME NEW op \in ops, Serve(op) PROVE Inv'
  BY <1>3, ServeStep
<1>4. ASSUME NEW op \in ops, OpStep(op) PROVE Inv'
  BY <1>4, InviteReturnsStep, ClaimReturnsStep, AutoHoldReturnsStep, AcceptReturnsStep,
     OfferReturnsStep, RejectReturnsStep, BusyReturnsStep, CancelReturnsStep, EndCallReturnsStep,
     HoldReturnsStep, ResumeReturnsStep DEF OpStep
<1>5. CASE OthersAct
  BY <1>5, OthersStep
<1>6. CASE HandleEvent
  BY <1>6, OnIncomingCallStep, OnCallClaimedStep, OnCallResponseStep, OnCallCancelledStep,
     OnCallTimeoutStep, OnCallEndedStep, OnCallHeldStep DEF HandleEvent
<1>7. ASSUME NEW c \in Calls, LinkUp(c) \/ LinkWeakens(c) \/ LinkRecovers(c) PROVE Inv'
  BY <1>7, LinkUpStep, LinkWeakensStep, LinkRecoversStep
<1>8. CASE TimerFires \/ HangupFires
  BY <1>8, TimerFiresStep, HangupFiresStep
<1>9. CASE UNCHANGED vars
  BY <1>9 DEF vars, tab, far, Inv, TypeOK, OneMove, Held, EndedHasExit
<1> QED
  BY <1>1, <1>2, <1>3, <1>4, <1>5, <1>6, <1>7, <1>8, <1>9 DEF Next

LEMMA Invariance == Spec => []Inv
  BY InitInv, NextInv, PTL DEF Spec

\* The variables stay in their types.
THEOREM TypeCorrect == Spec => []TypeOK
<1>1. Inv => TypeOK
  BY DEF Inv
<1> QED
  BY <1>1, Invariance, PTL

\* An ended call always has its transition to idle pending.
THEOREM EndedIsLeft == Spec => []EndedHasExit
<1>1. Inv => EndedHasExit
  BY DEF Inv
<1> QED
  BY <1>1, Invariance, PTL

\* Every handler sets, only Render shows.
LEMMA OnlyRenderShows == Next => Render \/ ui' = ui
<1>a. ASSUME NEW v, NEW current, SetsFrom(v, current) \/ Sets(v) \/ TearDown(v) \/ Accepting(v, current)
      PROVE  ui' = ui
  BY <1>a DEF SetsFrom, Sets, TearDown, Accepting
<1>b. UserActs => ui' = ui
  BY <1>a DEF UserActs, StartCall, AcceptCall, RejectCall, CancelOutgoingCall, EndCall, HoldCall,
     ResumeCall, SwapCalls
<1>c. OthersAct => ui' = ui
  BY DEF OthersAct, tab
<1>d. HandleEvent => ui' = ui
  BY <1>a DEF HandleEvent, OnIncomingCall, OnCallClaimed, OnCallResponse, OnCallCancelled,
     OnCallTimeout, OnCallEnded, OnCallHeld
<1>e. ASSUME NEW op \in ops, OpStep(op) PROVE ui' = ui
  BY <1>a, <1>e DEF OpStep, InviteReturns, ClaimReturns, AutoHoldReturns, AcceptReturns, OfferReturns,
     RejectReturns, BusyReturns, CancelReturns, EndCallReturns, HoldReturns, ResumeReturns
<1>f. ASSUME NEW op \in ops, Serve(op) PROVE ui' = ui
  BY <1>f DEF Serve
<1>g. ASSUME NEW c \in Calls, LinkUp(c) \/ LinkWeakens(c) \/ LinkRecovers(c) PROVE ui' = ui
  BY <1>a, <1>g DEF LinkUp, LinkWeakens, LinkRecovers, LinkChanges
<1>h. TimerFires \/ HangupFires => ui' = ui
  BY <1>a DEF TimerFires, HangupFires
<1> QED
  BY <1>b, <1>c, <1>d, <1>e, <1>f, <1>g, <1>h DEF Next

\* What is displayed changes in a rendering only, and by one move.
LEMMA DisplayMoves ==
    Inv /\ [Next]_vars => [Shown!Next]_<<ui.state, \E c \in Calls : ui.sessions[c] = "held">>
<1> SUFFICES ASSUME Inv, [Next]_vars, ui' # ui PROVE Shown!Next
  OBVIOUS
<1>1. ui' = set
  BY OnlyRenderShows DEF vars, tab, Render
<1> QED
  BY <1>1 DEF Inv, OneMove, Held, Shown!Next, Shown!Move, Shown!FallBack, Shown!Count, ValidTransitions

\* A tab displays what CallDisplay promises: the state moves along the table of
\* valid transitions, or falls back to a held call.
THEOREM DisplayRefined == Spec => DisplayLegal
<1>1. Init => Shown!Init
  BY DEF Init, EmptyView, Shown!Init
<1> QED
  BY <1>1, Invariance, DisplayMoves, PTL DEF Spec, DisplayLegal, Shown!Spec


-----------------------------------------------------------------------------
(* Held calls keep their connections *)

\* A connection is closed one by one, or all at once when nothing is on hold.
Closes(c) == links[c] # "none" /\ ui.sessions[c] = "held" /\ links'[c] = "none"

LEMMA HeldRemains ==
  ASSUME NEW c \in Calls, NEW d \in Calls, ui.sessions[c] = "held", c # d
  PROVE  c \in Remaining(d) \cap Held
  BY DEF Remaining, Present, Held

\* A call on hold is closed when it is ended, here or by its party, or as the
\* active one by the end of a call that the tab does not know.
LEMMA HeldStep ==
  ASSUME Inv, [Next]_vars, NEW c \in Calls, Closes(c)
  PROVE  \/ \E op \in ops \cup ops' : op.kind = "end" /\ op.call = c
         \/ \E d \in Calls :
              /\ inbox # <<>> /\ inbox' = Tail(inbox) /\ Head(inbox) = [type |-> "CallEnded", call |-> d]
              /\ d = c \/ (~Present(d) /\ ui.active.id = c)
<1> DEFINE Goal == \/ \E op \in ops \cup ops' : op.kind = "end" /\ op.call = c
                   \/ \E d \in Calls :
                        /\ inbox # <<>> /\ inbox' = Tail(inbox) /\ Head(inbox) = [type |-> "CallEnded", call |-> d]
                        /\ d = c \/ (~Present(d) /\ ui.active.id = c)
<1>1. c \in Held /\ links' # links /\ links \in [Calls -> {"none", "open", "up", "weak"}]
  BY DEF Closes, Held, Inv, TypeOK
<1>2. ASSUME NEW d \in Calls \cup {NoCall}, EndCall(d) PROVE Goal
  <2>1. d # NoCall
    BY <1>1, <1>2 DEF EndCall
  <2>2. links' = [links EXCEPT ![d] = "none"] /\ NewOp("end", "end", d, ui.active.id) \in ops'
    BY <1>2, <2>1 DEF EndCall, Begin
  <2>3. d = c
    BY <1>1, <2>1, <2>2 DEF Closes
  <2>4. NewOp("end", "end", d, ui.active.id).kind = "end" /\ NewOp("end", "end", d, ui.active.id).call = d
    BY DEF NewOp
  <2>5. QED
    BY <2>2, <2>3, <2>4
<1>3. ASSUME NEW d \in Calls, OnCallEnded(d) PROVE Goal
  <2> DEFINE closed == IF Present(d) THEN d ELSE ui.active.id
             other == IF closed = NoCall THEN links ELSE [links EXCEPT ![closed] = "none"]
  <2>1. inbox # <<>> /\ inbox' = Tail(inbox) /\ Head(inbox) = [type |-> "CallEnded", call |-> d]
    BY <1>3 DEF OnCallEnded, Receive
  <2>2. CASE c = d
    BY <2>1, <2>2
  <2>3. CASE c # d
    <3>1. Remaining(d) # {}
      BY <2>3, HeldRemains DEF Closes
    <3>2. links' = other
      BY <1>3, <3>1 DEF OnCallEnded
    <3>3. closed \in Calls \cup {NoCall}
      BY DEF Inv, TypeOK, View, Session
    <3>4. closed = c
      BY <1>1, <3>2, <3>3 DEF Closes
    <3>5. ~Present(d) /\ ui.active.id = c
      BY <2>3, <3>4
    <3>6. QED
      BY <2>1, <3>5
  <2>4. QED
    BY <2>2, <2>3
<1>4. ASSUME NEW op \in ops, EndCallReturns(op) PROVE Goal
  <2>1. op.kind = "end" /\ op.call \in Calls \cup {NoCall}
    BY <1>4 DEF EndCallReturns, Inv, TypeOK, Op
  <2>2. CASE op.call = c
    BY <2>1, <2>2
  <2>3. CASE op.call # c
    <3>1. Remaining(op.call) \cap Held # {}
      BY <2>1, <2>3 DEF Closes, Remaining, Present, Held
    <3>2. links' = links
      BY <1>4, <3>1 DEF EndCallReturns
    <3>3. QED
      BY <1>1, <3>2
  <2>4. QED
    BY <2>2, <2>3
<1>5. ASSUME NEW op \in ops, AcceptReturns(op) \/ OfferReturns(op) PROVE FALSE
  <2>1. links' = links \/ links' = [links EXCEPT ![op.call] = IF @ = "none" THEN "open" ELSE @]
    BY <1>5 DEF AcceptReturns, OfferReturns
  <2>2. QED
    BY <1>1, <2>1 DEF Closes
<1>6. ASSUME NEW d \in Calls, LinkUp(d) \/ LinkWeakens(d) \/ LinkRecovers(d) PROVE FALSE
  <2>1. links' = [links EXCEPT ![d] = "up"] \/ links' = [links EXCEPT ![d] = "weak"]
    BY <1>6 DEF LinkUp, LinkWeakens, LinkRecovers, LinkChanges
  <2>2. QED
    BY <1>1, <2>1 DEF Closes
<1>7. ASSUME NEW op \in ops, OpStep(op) PROVE Goal
  <2>1. CASE \/ InviteReturns(op) \/ ClaimReturns(op) \/ AutoHoldReturns(op) \/ RejectReturns(op) \/ BusyReturns(op)
             \/ CancelReturns(op) \/ HoldReturns(op) \/ ResumeReturns(op)
    BY <1>1, <2>1 DEF InviteReturns, ClaimReturns, AutoHoldReturns, RejectReturns, BusyReturns,
       CancelReturns, HoldReturns, ResumeReturns
  <2>2. QED
    BY <1>4, <1>5, <1>7, <2>1 DEF OpStep
<1>8. ASSUME HandleEvent PROVE Goal
  <2>1. CASE OnCallCancelled(NoCall)
    BY <1>1, <2>1 DEF OnCallCancelled
  <2>2. ASSUME NEW d \in Calls, \/ OnIncomingCall(d) \/ OnCallClaimed(d) \/ OnCallResponse(d) \/ OnCallCancelled(d)
                                \/ OnCallTimeout(d) \/ OnCallHeld(d)
        PROVE  FALSE
    BY <1>1, <2>2 DEF OnIncomingCall, OnCallClaimed, OnCallResponse, OnCallCancelled, OnCallTimeout, OnCallHeld
  <2>3. QED
    BY <1>3, <1>8, <2>1, <2>2 DEF HandleEvent
<1>9. ASSUME UserActs PROVE Goal
  <2>1. ASSUME NEW d \in Calls, StartCall(d) \/ ResumeCall(d) \/ SwapCalls(d) PROVE FALSE
    BY <1>1, <2>1 DEF StartCall, ResumeCall, SwapCalls
  <2>2. CASE AcceptCall \/ RejectCall \/ CancelOutgoingCall \/ HoldCall
    BY <1>1, <2>2 DEF AcceptCall, RejectCall, CancelOutgoingCall, HoldCall
  <2>3. QED
    BY <1>2, <1>9, <2>1, <2>2 DEF UserActs
<1>10. CASE Render \/ OthersAct \/ TimerFires \/ HangupFires \/ UNCHANGED vars
  BY <1>1, <1>10 DEF Render, OthersAct, TimerFires, HangupFires, vars, tab
<1>11. ASSUME NEW op \in ops, Serve(op) PROVE FALSE
  BY <1>1, <1>11 DEF Serve
<1>12. QED
  BY <1>6, <1>7, <1>8, <1>9, <1>10, <1>11 DEF Next

\* A held call keeps its connection when another call ends, but for the end of a
\* call that the tab no longer has while the held one is active.
THEOREM HeldCallsKept == Spec => HeldKept
<1>1. Inv /\ [Next]_vars =>
        [\A c \in Calls :
          (links[c] # "none" /\ ui.sessions[c] = "held" /\ links'[c] = "none") =>
            \/ \E op \in ops \cup ops' : op.kind = "end" /\ op.call = c
            \/ \E d \in Calls :
                 /\ inbox # <<>> /\ inbox' = Tail(inbox) /\ Head(inbox) = [type |-> "CallEnded", call |-> d]
                 /\ d = c \/ (~Present(d) /\ ui.active.id = c)]_vars
  BY HeldStep DEF Closes
<1>2. QED
  BY <1>1, Invariance, PTL DEF Spec, HeldKept

-----------------------------------------------------------------------------
(* The modals.  Most handlers of the tab are calm: they give a session to no *)
(* call that is not taken, and show no modal that is not shown.              *)

Started(c) == \E op \in ops : op.kind = "start" /\ op.call = c /\ op.served = "done"
ModalOf(c) == RingsOnce(c) /\ Directed(c) /\ (~stale => Told(c))

LEMMA ModalParts ==
  ModalInv <=> /\ \A op \in ops : Shaped(op)
               /\ \A c \in Calls : ModalOf(c)
               /\ ~stale /\ set.outgoing = Dialing => \E op \in ops : op.kind = "start"
  BY DEF ModalInv, ModalOf

\* A view that adds no session but of a taken call, and no modal.
Calm(v) ==
    /\ \A c \in Calls : InSession(v, c) => Taken(c)
    /\ v.incoming \in {set.incoming, NoCall}
    /\ v.outgoing \in {set.outgoing, NoCall} \/ (v.outgoing \in Calls /\ Started(v.outgoing))

LEMMA CalmSet == Inv => Calm(set)
  BY DEF Calm, Taken

LEMMA CalmTransition ==
  ASSUME Inv, NEW v \in View, Calm(v), NEW target \in CallState
  PROVE  Calm(Transition(v, target)) /\ Transition(v, target) \in View
         /\ Transition(v, target).incoming = v.incoming /\ Transition(v, target).outgoing = v.outgoing
<1>1. ui \in View
  BY DEF Inv, TypeOK
<1>2. Transition(v, target) \in View
  BY <1>1, TransitionView DEF Moved
<1>3. CASE Transition(v, target) = v
  BY <1>2, <1>3
<1>4. CASE Transition(v, target) = [v EXCEPT !.state = target]
  BY <1>2, <1>4 DEF View, Calm, InSession
<1>5. CASE ui.active.id # NoCall /\ Transition(v, target) = [v EXCEPT !.state = target,
                         !.active = [ui.active EXCEPT !.state = target], !.sessions[ui.active.id] = target]
  <2> DEFINE w == Transition(v, target)
  <2>1. ui.active \in Session /\ ui.active.id \in Calls
    BY <1>1, <1>5 DEF View, Session
  <2>2. /\ w.active.id = ui.active.id /\ w.incoming = v.incoming /\ w.outgoing = v.outgoing
        /\ \A c \in Calls : c # ui.active.id => w.sessions[c] = v.sessions[c]
    BY <1>5, <2>1 DEF View, Session
  <2>3. ASSUME NEW c \in Calls, InSession(w, c) PROVE Taken(c)
    <3>1. CASE c = ui.active.id
      BY <3>1 DEF Taken, InSession
    <3>2. CASE c # ui.active.id
      BY <2>2, <2>3, <3>2 DEF Calm, InSession
    <3>3. QED
      BY <3>1, <3>2
  <2>4. QED
    BY <1>2, <2>2, <2>3 DEF Calm
<1>6. QED
  BY <1>3, <1>4, <1>5 DEF Transition

LEMMA CalmParts ==
  ASSUME Inv, NEW v \in View, Calm(v)
  PROVE  /\ [v EXCEPT !.incoming = NoCall] \in View /\ Calm([v EXCEPT !.incoming = NoCall])
         /\ [v EXCEPT !.outgoing = NoCall] \in View /\ Calm([v EXCEPT !.outgoing = NoCall])
         /\ \A b \in BOOLEAN : [v EXCEPT !.room = b] \in View /\ Calm([v EXCEPT !.room = b])
         /\ FallenBack(v) \in View /\ Calm(FallenBack(v))
         /\ \A c \in Calls : [v EXCEPT !.sessions[c] = "absent"] \in View /\ Calm([v EXCEPT !.sessions[c] = "absent"])
  <1>1. [v EXCEPT !.incoming = NoCall] \in View /\ Calm([v EXCEPT !.incoming = NoCall])
    BY DEF View, Calm, InSession
  <1>2. [v EXCEPT !.outgoing = NoCall] \in View /\ Calm([v EXCEPT !.outgoing = NoCall])
    BY DEF View, Calm, InSession
  <1>3. ASSUME NEW b \in BOOLEAN PROVE [v EXCEPT !.room = b] \in View /\ Calm([v EXCEPT !.room = b])
    BY DEF View, Calm, InSession
  <1>4. FallenBack(v) \in View /\ Calm(FallenBack(v))
    BY StateNames, CallAssumption DEF View, Calm, InSession, FallenBack, NoSession, Session
  <1>5. ASSUME NEW c \in Calls PROVE [v EXCEPT !.sessions[c] = "absent"] \in View /\ Calm([v EXCEPT !.sessions[c] = "absent"])
    BY DEF View, Calm, InSession
  <1>6. QED
    BY <1>1, <1>2, <1>3, <1>4, <1>5

LEMMA CalmSession ==
  ASSUME Inv, NEW v \in View, Calm(v), NEW c \in Calls, Taken(c), NEW s \in CallState
  PROVE  /\ [v EXCEPT !.sessions[c] = s] \in View /\ Calm([v EXCEPT !.sessions[c] = s])
         /\ [v EXCEPT !.active = [id |-> c, state |-> s]] \in View /\ Calm([v EXCEPT !.active = [id |-> c, state |-> s]])
  <1>1. [v EXCEPT !.sessions[c] = s] \in View /\ Calm([v EXCEPT !.sessions[c] = s])
    BY DEF View, Calm, InSession
  <1>2. [v EXCEPT !.active = [id |-> c, state |-> s]] \in View /\ Calm([v EXCEPT !.active = [id |-> c, state |-> s]])
    BY DEF View, Calm, InSession, Session
  <1>3. QED
    BY <1>1, <1>2

LEMMA CalmTornDown ==
  ASSUME Inv, NEW v \in View, Calm(v)
  PROVE  TornDown(v) \in View /\ Calm(TornDown(v))
<1> DEFINE w == [v EXCEPT !.active = NoSession, !.incoming = NoCall, !.outgoing = NoCall]
<1>1. w \in View /\ Calm(w)
  BY StateNames, CallAssumption DEF View, Calm, InSession, NoSession, Session
<1>2. TornDown(v) = Transition(w, "ended")
  BY DEF TornDown
<1> HIDE DEF w
<1>3. QED
  BY <1>1, <1>2, StateNames, CalmTransition

\* An operation that follows from what is taken, rung and dialed already.
Derived(op) ==
    /\ Shaped(op)
    /\ \A c \in Calls :
        /\ TakenBy(op, c) => Taken(c) \/ (Rung(c) /\ set'.incoming # c)
        /\ op.kind \in {"accept", "reject", "busy"} /\ op.call = c => Rung(c)
        /\ op.kind # "start" /\ (op.kind = "cancel" /\ op.call = c => Dialed(c))

\* A calm step of the tab.
CalmStep ==
    /\ (ui' = ui /\ Calm(set')) \/ (ui' = set /\ set' = set)
    /\ \A op \in ops' : op \in ops \/ Derived(op)
    /\ (\E op \in ops : op.kind = "start") => (\E op \in ops' : op.kind = "start") \/ set'.outgoing # Dialing
    /\ stale => stale'
    /\ UNCHANGED <<direction, line, owner>>

\* What such a step does about one call.
LEMMA CalmCall ==
  ASSUME Inv, CalmStep, NEW c \in Calls
  PROVE  /\ Taken(c)' => Taken(c) \/ (Rung(c) /\ set'.incoming # c)
         /\ Rung(c)' => Rung(c)
         /\ Dialed(c)' => Dialed(c)
         /\ set'.incoming = c => set.incoming = c
         /\ set'.outgoing = c => set.outgoing = c \/ Started(c)
         /\ Started(c)' => Started(c)
<1>1. c # NoCall /\ c # Dialing
  BY CallAssumption
<1>2. InSession(set, c)' => Taken(c)
  BY DEF CalmStep, Calm, Taken, InSession
<1>3. InSession(ui, c)' => Taken(c)
  BY DEF CalmStep, Taken, InSession
<1>4. ASSUME NEW op \in ops', TakenBy(op, c) PROVE Taken(c) \/ (Rung(c) /\ set'.incoming # c)
  BY <1>4 DEF CalmStep, Derived, Taken
<1>5. Taken(c)' => Taken(c) \/ (Rung(c) /\ set'.incoming # c)
  <2>1. Taken(c)' => InSession(ui, c)' \/ InSession(set, c)' \/ \E op \in ops' : TakenBy(op, c)
    BY DEF Taken, TakenBy
  <2>2. QED
    BY <1>2, <1>3, <1>4, <2>1
<1>6. set'.incoming = c => set.incoming = c
  BY <1>1 DEF CalmStep, Calm
<1>7. set'.outgoing = c => set.outgoing = c \/ Started(c)
  BY <1>1 DEF CalmStep, Calm
<1>8. Rung(c)' => Rung(c)
  <2>1. ASSUME NEW op \in ops', op.kind \in {"accept", "reject", "busy"}, op.call = c PROVE Rung(c)
    BY <2>1 DEF CalmStep, Derived, Rung
  <2>2. c \in {ui.incoming, set.incoming}' => Rung(c)
    BY <1>6 DEF CalmStep, Rung
  <2>3. QED
    BY <2>1, <2>2 DEF Rung
<1>9. Started(c) => Dialed(c)
  BY DEF Started, Dialed
<1>10. Dialed(c)' => Dialed(c)
  <2>1. ASSUME NEW op \in ops', op.kind \in {"start", "cancel"}, op.call = c PROVE Dialed(c)
    BY <2>1 DEF CalmStep, Derived, Dialed
  <2>2. c \in {ui.outgoing, set.outgoing}' => Dialed(c)
    BY <1>7, <1>9 DEF CalmStep, Dialed
  <2>3. QED
    BY <2>1, <2>2 DEF Dialed
<1>11. Started(c)' => Started(c)
  <2>1. ASSUME NEW op \in ops', op.kind = "start" PROVE op \in ops
    BY <2>1 DEF CalmStep, Derived
  <2>2. QED
    BY <2>1 DEF Started
<1>12. QED
  BY <1>5, <1>6, <1>7, <1>8, <1>10, <1>11

\* The part that is not about one call.
LEMMA CalmRest ==
  ASSUME Inv, ModalInv, CalmStep
  PROVE  /\ \A op \in ops' : Shaped(op)
         /\ ~stale' /\ set'.outgoing = Dialing => \E op \in ops' : op.kind = "start"
<1>1. Dialing # NoCall /\ Dialing \notin Calls
  BY CallAssumption
<1>2. \A op \in ops' : Shaped(op)
  BY DEF ModalInv, CalmStep, Derived
<1>3. set'.outgoing = Dialing => set.outgoing = Dialing
  BY <1>1 DEF CalmStep, Calm
<1>4. QED
  BY <1>2, <1>3 DEF ModalInv, CalmStep

\* A calm step that takes nothing from the inbox.
LEMMA CalmKept ==
  ASSUME Inv, ModalInv, CalmStep, inbox' = inbox
  PROVE  ModalInv'
<1>1. ASSUME NEW c \in Calls PROVE ModalOf(c)'
  <2>1. ModalOf(c)
    BY ModalParts
  <2>2. /\ Taken(c)' => Taken(c) \/ (Rung(c) /\ set'.incoming # c)
        /\ Rung(c)' => Rung(c)
        /\ Dialed(c)' => Dialed(c)
        /\ set'.incoming = c => set.incoming = c
        /\ set'.outgoing = c => set.outgoing = c \/ Started(c)
        /\ Started(c)' => Started(c)
    BY CalmCall
  <2>3. direction' = direction /\ line' = line /\ owner' = owner /\ (stale => stale')
    BY DEF CalmStep
  <2>4. \A i : Rings(c, i)' <=> Rings(c, i)
    BY DEF Rings
  <2>5. RingsOnce(c)'
    BY <2>1, <2>2, <2>4 DEF ModalOf, RingsOnce
  <2>6. Directed(c)'
    BY <2>1, <2>2, <2>3, <2>4 DEF ModalOf, Directed
  <2>7. ASSUME ~stale' PROVE Told(c)'
    <3>1. Told(c)
      BY <2>1, <2>3, <2>7 DEF ModalOf
    <3>2. \A i \in Nat : GoneTold(c, i)' <=> GoneTold(c, i)
      BY <2>3 DEF GoneTold, Coming
    <3>3. AnswerTold(c)' <=> AnswerTold(c)
      BY <2>3 DEF AnswerTold, Coming
    <3>4. set.outgoing = c \/ Started(c) => AnswerTold(c)
      BY <3>1 DEF Told, Started
    <3>5. set'.outgoing = c \/ Started(c)' => AnswerTold(c)'
      BY <2>2, <3>3, <3>4
    <3>6. (set.incoming = c => GoneTold(c, 0))'
      BY <2>2, <3>1, <3>2 DEF Told
    <3>7. ASSUME NEW i \in 1 .. Len(inbox'), Rings(c, i)' PROVE GoneTold(c, i)'
      <4>1. i \in Nat /\ Rings(c, i) /\ i \in 1 .. Len(inbox)
        BY <2>4, <3>7
      <4>2. GoneTold(c, i)
        BY <3>1, <4>1 DEF Told
      <4>3. QED
        BY <3>2, <4>1, <4>2
    <3>8. QED
      BY <3>5, <3>6, <3>7 DEF Told, Started
  <2>8. QED
    BY <2>5, <2>6, <2>7 DEF ModalOf
<1>2. QED
  BY <1>1, CalmRest DEF ModalInv, ModalOf

\* The head of the inbox is taken, or an event comes.
LEMMA TailComing ==
  ASSUME inbox \in Seq(Event), inbox # <<>>, inbox' = Tail(inbox), NEW c, NEW types
  PROVE  /\ \A i \in 1 .. Len(inbox') : i + 1 \in 1 .. Len(inbox) /\ (Rings(c, i)' <=> Rings(c, i + 1))
         /\ \A i \in Nat : Coming(types, c, i + 1) => Coming(types, c, i)'
         /\ Coming(types, c, 0) => Coming(types, c, 0)' \/ (Head(inbox).call = c /\ Head(inbox).type \in types)
<1>1. Len(inbox') = Len(inbox) - 1 /\ Len(inbox) \in Nat \ {0} /\ \A i \in 1 .. Len(inbox') : inbox'[i] = inbox[i + 1]
  OBVIOUS
<1>2. \A i \in 1 .. Len(inbox') : i + 1 \in 1 .. Len(inbox) /\ (Rings(c, i)' <=> Rings(c, i + 1))
  BY <1>1 DEF Rings
<1>3. ASSUME NEW i \in Nat, NEW j \in 1 .. Len(inbox), j > i + 1, inbox[j].call = c, inbox[j].type \in types
      PROVE  Coming(types, c, i)'
  <2>1. j - 1 \in 1 .. Len(inbox') /\ j - 1 > i /\ inbox'[j - 1] = inbox[j]
    BY <1>1, <1>3
  <2>2. QED
    BY <1>3, <2>1 DEF Coming
<1>4. ASSUME NEW j \in 1 .. Len(inbox), inbox[j].call = c, inbox[j].type \in types
      PROVE  Coming(types, c, 0)' \/ (Head(inbox).call = c /\ Head(inbox).type \in types)
  <2>1. CASE j = 1
    BY <1>4, <2>1
  <2>2. CASE j # 1
    <3>1. j > 0 + 1
      BY <2>2
    <3>2. QED
      BY <1>3, <1>4, <3>1
  <2>3. QED
    BY <2>1, <2>2
<1>5. QED
  BY <1>2, <1>3, <1>4 DEF Coming

LEMMA AppendComing ==
  ASSUME inbox \in Seq(Event), NEW e \in Event, inbox' = Append(inbox, e), NEW c, NEW types
  PROVE  /\ \A i \in 1 .. Len(inbox') : Rings(c, i)' =>
              \/ i \in 1 .. Len(inbox) /\ Rings(c, i)
              \/ i = Len(inbox) + 1 /\ e = [type |-> "IncomingCall", call |-> c]
         /\ \A i \in Nat : Coming(types, c, i) => Coming(types, c, i)'
         /\ \A i \in 0 .. Len(inbox) : e.call = c /\ e.type \in types => Coming(types, c, i)'
<1>1. /\ Len(inbox') = Len(inbox) + 1 /\ Len(inbox) \in Nat /\ inbox'[Len(inbox) + 1] = e
      /\ \A i \in 1 .. Len(inbox) : i \in 1 .. Len(inbox') /\ inbox'[i] = inbox[i]
  OBVIOUS
<1>2. ASSUME NEW i \in Nat, Coming(types, c, i) PROVE Coming(types, c, i)'
  BY <1>1, <1>2 DEF Coming
<1>3. ASSUME NEW i \in 0 .. Len(inbox), e.call = c, e.type \in types PROVE Coming(types, c, i)'
  <2>1. Len(inbox) + 1 \in 1 .. Len(inbox') /\ Len(inbox) + 1 > i
    BY <1>1
  <2>2. QED
    BY <1>1, <1>3, <2>1 DEF Coming
<1>4. ASSUME NEW i \in 1 .. Len(inbox'), Rings(c, i)'
      PROVE  \/ i \in 1 .. Len(inbox) /\ Rings(c, i)
             \/ i = Len(inbox) + 1 /\ e = [type |-> "IncomingCall", call |-> c]
  BY <1>1, <1>4 DEF Rings
<1>5. QED
  BY <1>2, <1>3, <1>4

\* What an event that is taken told the tab is known to it.
Spent(c) ==
    Head(inbox).call = c /\ ~stale' =>
      /\ Head(inbox).type \in {"CallCancelled", "CallTimeout", "CallClaimed"} => set'.incoming # c
      /\ Head(inbox).type \in {"CallAccepted", "CallRejected"} => set'.outgoing # c /\ ~Started(c)'

\* A calm step that takes an event from the inbox.
LEMMA CalmTaken ==
  ASSUME Inv, ModalInv, CalmStep, inbox # <<>>, inbox' = Tail(inbox), \A c \in Calls : Spent(c)
  PROVE  ModalInv'
<1>1. ASSUME NEW c \in Calls PROVE ModalOf(c)'
  <2>1. ModalOf(c) /\ inbox \in Seq(Event)
    BY ModalParts DEF Inv, TypeOK
  <2>2. /\ Taken(c)' => Taken(c) \/ (Rung(c) /\ set'.incoming # c)
        /\ Rung(c)' => Rung(c)
        /\ Dialed(c)' => Dialed(c)
        /\ set'.incoming = c => set.incoming = c
        /\ set'.outgoing = c => set.outgoing = c \/ Started(c)
        /\ Started(c)' => Started(c)
    BY CalmCall
  <2>3. direction' = direction /\ line' = line /\ owner' = owner /\ (stale => stale')
    BY DEF CalmStep
  <2>4. \A i \in 1 .. Len(inbox') : i + 1 \in 1 .. Len(inbox) /\ (Rings(c, i)' <=> Rings(c, i + 1))
    BY <2>1, TailComing
  <2>5. RingsOnce(c)'
    <3>1. \A i, j \in 1 .. Len(inbox') : Rings(c, i)' /\ Rings(c, j)' => i = j
      BY <2>1, <2>4 DEF ModalOf, RingsOnce
    <3>2. Taken(c)' \/ Rung(c)' => \A i \in 1 .. Len(inbox') : ~Rings(c, i)'
      BY <2>1, <2>2, <2>4 DEF ModalOf, RingsOnce
    <3>3. Taken(c)' => set'.incoming # c
      BY <2>1, <2>2 DEF ModalOf, RingsOnce
    <3>4. QED
      BY <3>1, <3>2, <3>3 DEF RingsOnce
  <2>6. Directed(c)'
    <3>1. (\E i \in 1 .. Len(inbox') : Rings(c, i)') => \E i \in 1 .. Len(inbox) : Rings(c, i)
      BY <2>4
    <3>2. QED
      BY <2>1, <2>2, <2>3, <3>1 DEF ModalOf, Directed
  <2>7. ASSUME ~stale' PROVE Told(c)'
    <3>1. Told(c)
      BY <2>1, <2>3, <2>7 DEF ModalOf
    <3>2. ASSUME NEW i \in 1 .. Len(inbox'), Rings(c, i)' PROVE GoneTold(c, i)'
      <4>1. GoneTold(c, i + 1) /\ i \in Nat
        BY <2>4, <3>1, <3>2 DEF Told
      <4>2. \A types : Coming(types, c, i + 1) => Coming(types, c, i)'
        BY <2>1, <4>1, TailComing
      <4>3. QED
        BY <2>3, <4>1, <4>2 DEF GoneTold
    <3>3. \A types : Coming(types, c, 0) => Coming(types, c, 0)' \/ (Head(inbox).call = c /\ Head(inbox).type \in types)
      BY <2>1, TailComing
    <3>4. ASSUME set'.incoming = c PROVE GoneTold(c, 0)'
      <4>1. GoneTold(c, 0)
        BY <2>2, <3>1, <3>4 DEF Told
      <4>2. ~(Head(inbox).call = c /\ Head(inbox).type \in {"CallCancelled", "CallTimeout", "CallClaimed"})
        BY <2>7, <3>4 DEF Spent
      <4>3. QED
        BY <2>3, <3>3, <4>1, <4>2 DEF GoneTold
    <3>5. ASSUME set'.outgoing = c \/ Started(c)' PROVE AnswerTold(c)'
      <4>1. AnswerTold(c)
        BY <2>2, <3>1, <3>5 DEF Told, Started
      <4>2. ~(Head(inbox).call = c /\ Head(inbox).type \in {"CallAccepted", "CallRejected"})
        BY <2>7, <3>5 DEF Spent
      <4>3. QED
        BY <2>3, <3>3, <4>1, <4>2 DEF AnswerTold
    <3>6. QED
      BY <3>2, <3>4, <3>5 DEF Told, Started
  <2>8. QED
    BY <2>5, <2>6, <2>7 DEF ModalOf
<1>2. QED
  BY <1>1, CalmRest DEF ModalInv, ModalOf

\* A calm handler: what it sets, and the operations it begins or goes on with.
LEMMA Handled ==
  ASSUME Inv, NEW v, Calm(v), NEW current, SetsFrom(v, current), UNCHANGED <<direction, line, owner>>,
         \A op \in ops' : op \in ops \/ Derived(op),
         \A op \in ops : op.kind = "start" => op \in ops' \/ v.outgoing # Dialing
  PROVE  CalmStep
<1>1. set' = v /\ ui' = ui /\ (stale => stale')
  BY DEF SetsFrom
<1>2. Calm(set')
  BY <1>1 DEF Calm, Taken, Started, InSession
<1>3. QED
  BY <1>1, <1>2 DEF CalmStep

LEMMA TearDownHandled ==
  ASSUME Inv, NEW v \in View, Calm(v), TearDown(v)
  PROVE  \E w, current : Calm(w) /\ SetsFrom(w, current)
<1>1. TornDown(v) \in View /\ Calm(TornDown(v))
  BY CalmTornDown
<1>2. Calm([TornDown(v) EXCEPT !.room = FALSE])
  BY <1>1, CalmParts
<1>3. CASE hangup
  BY <1>3 DEF TearDown
<1>4. CASE ~hangup
  BY <1>2, <1>4 DEF TearDown, Sets
<1>5. QED
  BY <1>3, <1>4

\* What the user does is calm, but for dialing.
LEMMA AcceptModal == ASSUME Inv, ModalInv, AcceptCall PROVE ModalInv'
<1> DEFINE op == NewOp("accept", "claim", ui.incoming, NoCall)
<1>1. SetsFrom(set, TRUE) /\ Calm(set) /\ ops' = ops \cup {op} /\ UNCHANGED far
  BY CalmSet DEF AcceptCall, Sets, Begin
<1>2. Derived(op)
  BY CallAssumption DEF NewOp, Derived, Shaped, TakenBy, Rung
<1>3. QED
  BY <1>1, <1>2, Handled, CalmKept DEF far

LEMMA RejectModal == ASSUME Inv, ModalInv, RejectCall PROVE ModalInv'
<1> DEFINE op == NewOp("reject", "respond", ui.incoming, NoCall)
           v == [set EXCEPT !.incoming = NoCall]
<1>1. SetsFrom(v, TRUE) /\ ops' = ops \cup {op} /\ UNCHANGED far
  BY DEF RejectCall, Sets, Begin
<1>2. Calm(v)
  BY CalmSet, CalmParts DEF Inv, TypeOK
<1>3. Derived(op)
  BY CallAssumption DEF NewOp, Derived, Shaped, TakenBy, Rung
<1>4. QED
  BY <1>1, <1>2, <1>3, Handled, CalmKept DEF far

LEMMA CancelModal == ASSUME Inv, ModalInv, CancelOutgoingCall PROVE ModalInv'
<1> DEFINE c == IF ui.outgoing = Dialing THEN NoCall ELSE ui.outgoing
           op == NewOp("cancel", "cancel", c, NoCall)
           u == [set EXCEPT !.outgoing = NoCall]
<1>1. SetsFrom(Transition(u, "ended"), TRUE) /\ ops' = ops \cup {op} /\ UNCHANGED far
  BY DEF CancelOutgoingCall, Sets, Begin
<1>2. u \in View /\ Calm(u)
  BY CalmSet, CalmParts DEF Inv, TypeOK
<1>3. Calm(Transition(u, "ended"))
  BY <1>2, StateNames, CalmTransition
<1>4. Derived(op)
  BY CallAssumption DEF NewOp, Derived, Shaped, TakenBy, Dialed
<1>5. QED
  BY <1>1, <1>3, <1>4, Handled, CalmKept DEF far

LEMMA EndModal == ASSUME Inv, ModalInv, NEW c \in Calls \cup {NoCall}, EndCall(c) PROVE ModalInv'
<1>1. UNCHANGED far
  BY DEF EndCall
<1>2. CASE c # NoCall
  <2> DEFINE op == NewOp("end", "end", c, ui.active.id)
  <2>1. SetsFrom(set, TRUE) /\ Calm(set) /\ ops' = ops \cup {op}
    BY <1>2, CalmSet DEF EndCall, Sets, Begin
  <2>2. Taken(c) /\ \A d \in Calls : d = ui.active.id => Taken(d)
    BY <1>2 DEF EndCall, Taken, InSession, Held
  <2>3. Derived(op)
    BY <2>2 DEF NewOp, Derived, Shaped, TakenBy
  <2>4. QED
    BY <1>1, <2>1, <2>3, Handled, CalmKept DEF far
<1>3. CASE c = NoCall /\ Held # {}
  <2>1. SetsFrom(FallenBack(set), TRUE) /\ ops' = ops
    BY <1>3 DEF EndCall, Sets
  <2>2. Calm(FallenBack(set))
    BY CalmSet, CalmParts DEF Inv, TypeOK
  <2>3. QED
    BY <1>1, <2>1, <2>2, Handled, CalmKept DEF far
<1>4. CASE c = NoCall /\ Held = {}
  <2>1. TearDown(set) /\ ops' = ops
    BY <1>4 DEF EndCall
  <2>2. PICK w, current : Calm(w) /\ SetsFrom(w, current)
    BY <2>1, CalmSet, TearDownHandled DEF Inv, TypeOK
  <2>3. QED
    BY <1>1, <2>1, <2>2, Handled, CalmKept DEF far
<1>5. QED
  BY <1>2, <1>3, <1>4

\* Holding is about the active call, resuming and swapping about a held one.
LEMMA HoldingDerived ==
  ASSUME NEW c \in Calls, Present(c)
  PROVE  /\ Derived(NewOp("resume", "hold", c, ui.active.id))
         /\ Derived(NewOp("resume", "resume", c, NoCall))
         /\ Derived(NewOp("swap", "hold", c, ui.active.id))
         /\ Derived(NewOp("hold", "hold", NoCall, ui.active.id))
         /\ Derived(Resuming(c))
<1>1. Taken(c) /\ \A d \in Calls : d = ui.active.id => Taken(d)
  BY DEF Taken, InSession, Present
<1>2. Derived(NewOp("resume", "hold", c, ui.active.id)) /\ Derived(NewOp("resume", "resume", c, NoCall))
  BY <1>1, CallAssumption DEF NewOp, Derived, Shaped, TakenBy
<1>3. Derived(NewOp("swap", "hold", c, ui.active.id)) /\ Derived(NewOp("hold", "hold", NoCall, ui.active.id))
  BY <1>1, CallAssumption DEF NewOp, Derived, Shaped, TakenBy
<1>4. QED
  BY <1>2, <1>3 DEF Resuming

LEMMA HoldDerived == Derived(NewOp("hold", "hold", NoCall, ui.active.id))
<1>1. \A d \in Calls : d = ui.active.id => Taken(d)
  BY DEF Taken, InSession
<1>2. QED
  BY <1>1, CallAssumption DEF NewOp, Derived, Shaped, TakenBy

LEMMA HoldModal == ASSUME Inv, ModalInv, HoldCall PROVE ModalInv'
<1> DEFINE op == NewOp("hold", "hold", NoCall, ui.active.id)
<1>1. SetsFrom(set, TRUE) /\ Calm(set) /\ ops' = ops \cup {op} /\ UNCHANGED far
  BY CalmSet DEF HoldCall, Sets, Begin
<1>2. Derived(op)
  BY HoldDerived
<1> HIDE DEF op
<1>3. QED
  BY <1>1, <1>2, Handled, CalmKept DEF far

LEMMA ResumeModal == ASSUME Inv, ModalInv, NEW c \in Calls, ResumeCall(c) PROVE ModalInv'
<1> DEFINE op == Resuming(c)
<1>1. SetsFrom(set, TRUE) /\ Calm(set) /\ ops' = ops \cup {op} /\ UNCHANGED far /\ Present(c)
  BY CalmSet DEF ResumeCall, Sets, Begin
<1>2. Derived(op)
  BY <1>1, HoldingDerived
<1> HIDE DEF op
<1>3. QED
  BY <1>1, <1>2, Handled, CalmKept DEF far

LEMMA SwapModal == ASSUME Inv, ModalInv, NEW c \in Calls, SwapCalls(c) PROVE ModalInv'
<1> DEFINE op == NewOp("swap", "hold", c, ui.active.id)
<1>1. SetsFrom(set, TRUE) /\ Calm(set) /\ ops' = ops \cup {op} /\ UNCHANGED far /\ Present(c)
  BY CalmSet DEF SwapCalls, Sets, Begin, Held, Present
<1>2. Derived(op)
  BY <1>1, HoldingDerived
<1> HIDE DEF op
<1>3. QED
  BY <1>1, <1>2, Handled, CalmKept DEF far

\* What the tab does when an await is over is calm: an operation that began is
\* about a call that is taken or was rung, and goes on with the same call.
LEMMA OpCalls ==
  ASSUME Inv, ModalInv, NEW op \in ops
  PROVE  /\ op.call \in Calls \cup {NoCall} /\ op.other \in Calls \cup {NoCall} /\ Shaped(op)
         /\ \A c \in Calls : TakenBy(op, c) => Taken(c)
         /\ op.call \in Calls /\ op.kind = "accept" => Rung(op.call)
  BY DEF Inv, TypeOK, Op, ModalInv, Taken, Rung

LEMMA InviteModal == ASSUME Inv, ModalInv, NEW op \in ops, InviteReturns(op) PROVE ModalInv'
<1>1. op.kind = "start" /\ ops' = ops \ {op} /\ set \in View /\ Calm(set)
  BY CalmSet DEF InviteReturns, Finish, Inv, TypeOK
<1>2. op.call # Dialing /\ NoCall # Dialing /\ op.call \in Calls \cup {NoCall}
  BY OpCalls, CallAssumption
<1>3. ASSUME Answered(op),
             Sets(Transition([set EXCEPT !.active = [id |-> op.call, state |-> "ringing_outgoing"],
                     !.sessions[op.call] = "ringing_outgoing",
                     !.outgoing = op.call, !.room = TRUE], "ringing_outgoing"))
      PROVE  ModalInv'
  <2> DEFINE u == [set EXCEPT !.active = [id |-> op.call, state |-> "ringing_outgoing"],
                     !.sessions[op.call] = "ringing_outgoing", !.outgoing = op.call, !.room = TRUE]
             v == Transition(u, "ringing_outgoing")
  <2>1. u \in View /\ u.outgoing = op.call
    BY <1>1, <1>2, StateNames DEF View, Session
  <2>2. Calm(u)
    <3>1. ASSUME NEW c \in Calls, InSession(u, c) PROVE Taken(c)
      <4>1. CASE c = op.call
        BY <1>1, <4>1 DEF Taken, TakenBy
      <4>2. CASE c # op.call
        <5>1. InSession(set, c)
          BY <1>1, <3>1, <4>2 DEF InSession, View
        <5>2. QED
          BY <5>1 DEF Taken
      <4>3. QED
        BY <4>1, <4>2
    <3>2. u.incoming = set.incoming
      BY <1>1 DEF View
    <3>3. u.outgoing \in {set.outgoing, NoCall} \/ (u.outgoing \in Calls /\ Started(u.outgoing))
      BY <1>1, <1>2, <1>3, <2>1 DEF Answered, Started
    <3>4. QED
      BY <3>1, <3>2, <3>3 DEF Calm
  <2> HIDE DEF u
  <2>3. Calm(v) /\ v.outgoing = op.call
    BY <2>1, <2>2, StateNames, CalmTransition
  <2>4. SetsFrom(v, TRUE)
    BY <1>3 DEF Sets, u
  <2> HIDE DEF v
  <2>5. CalmStep
    BY <1>1, <1>2, <1>3, <2>3, <2>4, Handled DEF Answered, far
  <2>6. QED
    BY <1>3, <2>5, CalmKept DEF Answered, far
<1>4. ASSUME Fails(op), Sets(Transition([set EXCEPT !.outgoing = NoCall], "failed")) PROVE ModalInv'
  <2> DEFINE u == [set EXCEPT !.outgoing = NoCall]
             v == Transition(u, "failed")
  <2>1. u \in View /\ Calm(u) /\ u.outgoing = NoCall
    BY <1>1, CalmParts DEF View
  <2> HIDE DEF u
  <2>2. Calm(v) /\ v.outgoing = NoCall
    BY <2>1, StateNames, CalmTransition
  <2>3. SetsFrom(v, TRUE)
    BY <1>4 DEF Sets, u
  <2> HIDE DEF v
  <2>4. CalmStep
    BY <1>1, <1>2, <1>4, <2>2, <2>3, Handled DEF Fails, far
  <2>5. QED
    BY <1>4, <2>4, CalmKept DEF Fails, far
<1>5. QED
  BY <1>3, <1>4 DEF InviteReturns

\* The modal is closed when the call gets its session.
LEMMA AcceptingModal ==
  ASSUME Inv, ModalInv, NEW op \in ops, op.kind = "accept", NEW u \in View, Calm(u), Accepting(op, u), UNCHANGED far
  PROVE  ModalInv'
<1> DEFINE next == NewOp("accept", "media", op.call, NoCall)
           t == Transition([u EXCEPT !.incoming = NoCall], "connecting")
           v == [t EXCEPT !.room = TRUE]
<1>1. SetsFrom(v, TRUE) /\ ops' = (ops \ {op}) \cup {next}
  BY DEF Accepting, Sets, Continue
<1>2. /\ [u EXCEPT !.incoming = NoCall] \in View /\ Calm([u EXCEPT !.incoming = NoCall])
      /\ [u EXCEPT !.incoming = NoCall].incoming = NoCall
  BY CalmParts DEF View
<1>3. t \in View /\ Calm(t) /\ t.incoming = NoCall
  BY <1>2, StateNames, CalmTransition
<1> HIDE DEF t
<1>4. Calm(v) /\ v.incoming = NoCall
  BY <1>3, CalmParts DEF View
<1>5. set'.incoming = NoCall
  BY <1>1, <1>4 DEF SetsFrom
<1> HIDE DEF v
<1>6. Derived(next)
  <2>1. \A c \in Calls : op.call = c => Rung(c)
    BY DEF Rung
  <2>2. QED
    BY <1>5, <2>1, CallAssumption DEF NewOp, Derived, Shaped, TakenBy
<1> HIDE DEF next
<1>7. CalmStep
  BY <1>1, <1>4, <1>6, Handled DEF far
<1>8. QED
  BY <1>7, CalmKept DEF far

LEMMA ClaimModal == ASSUME Inv, ModalInv, NEW op \in ops, ClaimReturns(op) PROVE ModalInv'
<1>1. op.kind = "accept" /\ UNCHANGED far /\ set \in View /\ Calm(set)
  BY CalmSet DEF ClaimReturns, Over, Answered, Fails, Refused, Inv, TypeOK
<1>2. ASSUME Accepting(op, set) PROVE ModalInv'
  BY <1>1, <1>2, AcceptingModal
<1>3. ASSUME Sets(set), Continue(op, NewOp("accept", "hold", op.call, ui.active.id)) PROVE ModalInv'
  <2> DEFINE next == NewOp("accept", "hold", op.call, ui.active.id)
  <2>1. /\ \A c \in Calls : op.call = c => Rung(c)
        /\ \A c \in Calls : ui.active.id = c => Taken(c)
    BY <1>1 DEF Rung, Taken, InSession
  <2>2. Derived(next)
    BY <2>1 DEF NewOp, Derived, Shaped, TakenBy
  <2>3. ops' = (ops \ {op}) \cup {next} /\ SetsFrom(set, TRUE)
    BY <1>3 DEF Continue, Sets
  <2> HIDE DEF next
  <2>4. CalmStep
    BY <1>1, <2>2, <2>3, Handled DEF far
  <2>5. QED
    BY <1>1, <2>4, CalmKept DEF far
<1>4. ASSUME Finish(op),
             LET v == [set EXCEPT !.incoming = NoCall]
             IN  Sets(IF ui.active.state = "idle" THEN Transition(v, "idle") ELSE v)
      PROVE  ModalInv'
  <2> DEFINE u == [set EXCEPT !.incoming = NoCall]
             v == IF ui.active.state = "idle" THEN Transition(u, "idle") ELSE u
  <2>1. u \in View /\ Calm(u)
    BY <1>1, CalmParts
  <2>2. SetsFrom(v, TRUE) /\ ops' = ops \ {op}
    BY <1>4 DEF Sets, Finish
  <2> HIDE DEF u
  <2>3. Calm(v)
    BY <2>1, StateNames, CalmTransition
  <2> HIDE DEF v
  <2>4. CalmStep
    BY <1>1, <2>2, <2>3, Handled DEF far
  <2>5. QED
    BY <1>1, <2>4, CalmKept DEF far
<1>5. QED
  BY <1>2, <1>3, <1>4 DEF ClaimReturns

LEMMA AutoHoldModal == ASSUME Inv, ModalInv, NEW op \in ops, AutoHoldReturns(op) PROVE ModalInv'
<1> DEFINE u == [set EXCEPT !.sessions[op.other] = "held"]
<1>1. op.kind = "accept" /\ UNCHANGED far /\ set \in View /\ Calm(set) /\ Accepting(op, u)
  BY CalmSet DEF AutoHoldReturns, Succeeds, Inv, TypeOK
<1>2. u \in View /\ Calm(u)
  <2>1. CASE op.other \in Calls
    <3>1. Taken(op.other)
      BY <2>1 DEF Taken, TakenBy
    <3>2. QED
      BY <1>1, <2>1, <3>1, StateNames, CalmSession
  <2>2. CASE op.other \notin Calls
    <3>1. u = set
      BY <1>1, <2>2 DEF View
    <3>2. QED
      BY <1>1, <3>1
  <2>3. QED
    BY <2>1, <2>2
<1> HIDE DEF u
<1>3. QED
  BY <1>1, <1>2, AcceptingModal

\* An operation is over, or goes on with another; what it sets is calm.
LEMMA GoesOn ==
  ASSUME Inv, ModalInv, NEW op \in ops, op.kind # "start", NEW v, Calm(v), NEW current, SetsFrom(v, current),
         UNCHANGED far, Finish(op) \/ \E next : Continue(op, next) /\ Derived(next)
  PROVE  ModalInv'
<1>1. \A q \in ops' : q \in ops \/ Derived(q)
  BY DEF Finish, Continue
<1>2. \A q \in ops : q.kind = "start" => q \in ops'
  BY DEF Finish, Continue
<1>3. CalmStep
  BY <1>1, <1>2, Handled DEF far
<1>4. QED
  BY <1>3, CalmKept DEF far

LEMMA AcceptReturnsModal == ASSUME Inv, ModalInv, NEW op \in ops, AcceptReturns(op) PROVE ModalInv'
<1>1. op.kind = "accept" /\ op.kind # "start" /\ UNCHANGED far /\ set \in View /\ Calm(set)
  BY CalmSet DEF AcceptReturns, Succeeds, Answered, Fails, Refused, Inv, TypeOK
<1>2. ASSUME op.step = "media", 
             Sets([set EXCEPT !.active = [id |-> op.call, state |-> "connecting"],
                              !.sessions[op.call] = "connecting"]),
             Continue(op, NewOp("accept", "respond", op.call, NoCall))
      PROVE  ModalInv'
  <2> DEFINE next == NewOp("accept", "respond", op.call, NoCall)
             v == [set EXCEPT !.active = [id |-> op.call, state |-> "connecting"],
                              !.sessions[op.call] = "connecting"]
  <2>1. \A c \in Calls : op.call = c => Taken(c) /\ Rung(c)
    BY <1>1, <1>2 DEF Taken, TakenBy, Rung
  <2>2. Derived(next)
    BY <2>1, CallAssumption DEF NewOp, Derived, Shaped, TakenBy
  <2>3. Calm(v)
    <3>1. ASSUME NEW c \in Calls, InSession(v, c) PROVE Taken(c)
      <4>1. CASE c = op.call
        BY <2>1, <4>1
      <4>2. CASE c # op.call
        <5>1. InSession(set, c)
          BY <1>1, <3>1, <4>2 DEF InSession, View
        <5>2. QED
          BY <5>1 DEF Taken
      <4>3. QED
        BY <4>1, <4>2
    <3>2. v.incoming = set.incoming /\ v.outgoing = set.outgoing
      BY <1>1 DEF View
    <3>3. QED
      BY <3>1, <3>2 DEF Calm
  <2>4. SetsFrom(v, TRUE) /\ Continue(op, next)
    BY <1>2 DEF Sets
  <2> HIDE DEF next, v
  <2>5. QED
    BY <1>1, <2>2, <2>3, <2>4, GoesOn
<1>3. ASSUME Sets(set), Finish(op) PROVE ModalInv'
  BY <1>1, <1>3, GoesOn DEF Sets
<1>4. ASSUME Sets(Transition(set, "failed")), Finish(op) PROVE ModalInv'
  <2>1. Calm(Transition(set, "failed"))
    BY <1>1, StateNames, CalmTransition
  <2>2. QED
    BY <1>1, <1>4, <2>1, GoesOn DEF Sets
<1>5. QED
  BY <1>2, <1>3, <1>4 DEF AcceptReturns

LEMMA OfferModal == ASSUME Inv, ModalInv, NEW op \in ops, OfferReturns(op) PROVE ModalInv'
<1>1. op.kind # "start" /\ Finish(op) /\ UNCHANGED far /\ set \in View /\ Calm(set)
  BY CalmSet DEF OfferReturns, Succeeds, Fails, Inv, TypeOK
<1>2. Calm(Transition(set, "failed"))
  BY <1>1, StateNames, CalmTransition
<1>3. SetsFrom(set, TRUE) \/ SetsFrom(Transition(set, "failed"), TRUE)
  BY DEF OfferReturns, Sets
<1>4. QED
  BY <1>1, <1>2, <1>3, GoesOn

LEMMA RejectReturnsModal == ASSUME Inv, ModalInv, NEW op \in ops, RejectReturns(op) PROVE ModalInv'
<1>1. op.kind # "start" /\ Finish(op) /\ UNCHANGED far /\ set \in View /\ Calm(set)
  BY CalmSet DEF RejectReturns, Over, Answered, Fails, Inv, TypeOK
<1>2. Calm(Transition(set, "ended"))
  BY <1>1, StateNames, CalmTransition
<1>3. SetsFrom(set, TRUE) \/ SetsFrom(Transition(set, "ended"), TRUE)
  BY DEF RejectReturns, Sets
<1>4. QED
  BY <1>1, <1>2, <1>3, GoesOn

LEMMA CancelReturnsModal == ASSUME Inv, ModalInv, NEW op \in ops, CancelReturns(op) PROVE ModalInv'
<1>1. op.kind # "start" /\ Finish(op) /\ UNCHANGED far /\ Calm(set) /\ SetsFrom(set, TRUE)
  BY CalmSet DEF CancelReturns, Over, Answered, Fails, Sets
<1>2. QED
  BY <1>1, GoesOn

LEMMA BusyReturnsModal == ASSUME Inv, ModalInv, NEW op \in ops, BusyReturns(op) PROVE ModalInv'
<1>1. op.kind # "start" /\ ops' = ops \ {op} /\ UNCHANGED <<far, ui, set, stale>>
  BY DEF BusyReturns, Over, Answered, Fails, Finish
<1>2. Calm(set')
  BY <1>1, CalmSet DEF Calm, Taken, Started, InSession
<1>3. CalmStep
  BY <1>1, <1>2 DEF CalmStep, far
<1>4. QED
  BY <1>1, <1>3, CalmKept DEF far

LEMMA EndReturnsModal == ASSUME Inv, ModalInv, NEW op \in ops, EndCallReturns(op) PROVE ModalInv'
<1> DEFINE u == [set EXCEPT !.sessions[op.call] = "absent"]
<1>1. op.kind # "start" /\ Finish(op) /\ UNCHANGED far /\ set \in View /\ Calm(set)
  BY CalmSet DEF EndCallReturns, Over, Answered, Fails, Inv, TypeOK
<1>2. u \in View /\ Calm(u)
  <2>1. CASE op.call \in Calls
    BY <1>1, <2>1, CalmParts
  <2>2. CASE op.call \notin Calls
    <3>1. u = set
      BY <1>1, <2>2 DEF View
    <3>2. QED
      BY <1>1, <3>1
  <2>3. QED
    BY <2>1, <2>2
<1>3. Calm(FallenBack(u))
  BY <1>2, CalmParts
<1>4. SetsFrom(u, TRUE) \/ SetsFrom(FallenBack(u), TRUE) \/ TearDown(u)
  BY DEF EndCallReturns, Sets
<1> HIDE DEF u
<1>5. ASSUME TearDown(u) PROVE \E w, current : Calm(w) /\ SetsFrom(w, current)
  BY <1>2, <1>5, TearDownHandled
<1>6. PICK w, current : Calm(w) /\ SetsFrom(w, current)
  BY <1>2, <1>3, <1>4, <1>5
<1>7. QED
  BY <1>1, <1>6, GoesOn

LEMMA HoldReturnsModal == ASSUME Inv, ModalInv, NEW op \in ops, HoldReturns(op) PROVE ModalInv'
<1> DEFINE u == [set EXCEPT !.sessions[op.other] = "held"]
<1>1. op.kind \in {"hold", "resume", "swap"} /\ op.kind # "start" /\ UNCHANGED far /\ set \in View /\ Calm(set)
      /\ SetsFrom(OnHold(set, op.other), TRUE)
  BY CalmSet DEF HoldReturns, Succeeds, Inv, TypeOK, Sets
<1>2. u \in View /\ Calm(u)
  <2>1. CASE op.other \in Calls
    <3>1. Taken(op.other)
      BY <2>1 DEF Taken, TakenBy
    <3>2. QED
      BY <1>1, <2>1, <3>1, StateNames, CalmSession
  <2>2. CASE op.other \notin Calls
    <3>1. u = set
      BY <1>1, <2>2 DEF View
    <3>2. QED
      BY <1>1, <3>1
  <2>3. QED
    BY <2>1, <2>2
<1>3. Calm(OnHold(set, op.other))
  <2> DEFINE w == [u EXCEPT !.active = [id |-> op.other, state |-> "held"]]
  <2>1. CASE ui.active.id # op.other
    BY <1>2, <2>1 DEF OnHold
  <2>2. CASE ui.active.id = op.other
    <3>1. OnHold(set, op.other) = Transition(w, "held")
      BY <2>2 DEF OnHold
    <3>2. w \in View /\ Calm(w)
      <4>1. CASE op.other \in Calls
        <5>1. Taken(op.other)
          BY <4>1 DEF Taken, TakenBy
        <5>2. QED
          BY <1>2, <4>1, <5>1, StateNames, CalmSession
      <4>2. CASE op.other = NoCall
        BY <1>2, <4>2, StateNames, CallAssumption DEF View, Session, Calm, InSession
      <4>3. QED
        BY <4>1, <4>2, OpCalls
    <3>3. QED
      BY <3>1, <3>2, StateNames, CalmTransition
  <2>3. QED
    BY <2>1, <2>2
<1>4. Finish(op) \/ \E next : Continue(op, next) /\ Derived(next)
  <2>1. CASE op.kind = "hold"
    BY <2>1 DEF HoldReturns
  <2>2. CASE op.kind = "resume"
    <3>1. \A c \in Calls : op.call = c => Taken(c)
      BY <2>2 DEF Taken, TakenBy
    <3>2. Derived(NewOp("resume", "resume", op.call, NoCall))
      BY <3>1, CallAssumption DEF NewOp, Derived, Shaped, TakenBy
    <3>3. Continue(op, NewOp("resume", "resume", op.call, NoCall))
      BY <2>2 DEF HoldReturns
    <3>4. QED
      BY <3>2, <3>3
  <2>3. CASE op.kind = "swap" /\ Present(op.call)
    <3>1. Continue(op, Resuming(op.call))
      BY <2>3 DEF HoldReturns
    <3>2. /\ \A c \in Calls : op.call = c => Taken(c)
          /\ \A c \in Calls : ui.active.id = c => Taken(c)
      BY <2>3 DEF Taken, TakenBy, InSession
    <3>3. Derived(NewOp("resume", "hold", op.call, ui.active.id)) /\ Derived(NewOp("resume", "resume", op.call, NoCall))
      BY <3>2, CallAssumption DEF NewOp, Derived, Shaped, TakenBy
    <3>4. Derived(Resuming(op.call))
      BY <3>3 DEF Resuming
    <3>5. QED
      BY <3>1, <3>4
  <2>4. CASE op.kind = "swap" /\ ~Present(op.call)
    BY <2>4 DEF HoldReturns
  <2>5. QED
    BY <1>1, <2>1, <2>2, <2>3, <2>4
<1> HIDE DEF u
<1>5. QED
  BY <1>1, <1>3, <1>4, GoesOn

LEMMA ResumeReturnsModal == ASSUME Inv, ModalInv, NEW op \in ops, ResumeReturns(op) PROVE ModalInv'
<1> DEFINE u == [set EXCEPT !.sessions[op.call] = "active", !.active = [id |-> op.call, state |-> "active"], !.room = TRUE]
<1>1. op.kind = "resume" /\ op.kind # "start" /\ Finish(op) /\ UNCHANGED far /\ set \in View /\ Calm(set)
      /\ SetsFrom(Transition(u, "active"), TRUE)
  BY CalmSet DEF ResumeReturns, Succeeds, Inv, TypeOK, Sets
<1>2. op.call \in Calls \cup {NoCall}
  BY OpCalls
<1>3. u \in View
  BY <1>1, <1>2, StateNames DEF View, Session
<1>4. Calm(u)
  <2>1. ASSUME NEW c \in Calls, InSession(u, c) PROVE Taken(c)
    <3>1. CASE c = op.call
      BY <1>1, <3>1 DEF Taken, TakenBy
    <3>2. CASE c # op.call
      <4>1. InSession(set, c)
        BY <1>1, <2>1, <3>2 DEF InSession, View
      <4>2. QED
        BY <4>1 DEF Taken
    <3>3. QED
      BY <3>1, <3>2
  <2>2. u.incoming = set.incoming /\ u.outgoing = set.outgoing
    BY <1>1 DEF View
  <2>3. QED
    BY <2>1, <2>2 DEF Calm
<1> HIDE DEF u
<1>5. Calm(Transition(u, "active"))
  BY <1>3, <1>4, StateNames, CalmTransition
<1>6. QED
  BY <1>1, <1>5, GoesOn

\* Connections and timers move the state and nothing else.
LEMMA MovesModal ==
  ASSUME Inv, ModalInv, NEW target \in CallState, Sets(Transition(set, target)), ops' = ops, UNCHANGED far
  PROVE  ModalInv'
<1>1. set \in View /\ Calm(set) /\ SetsFrom(Transition(set, target), TRUE)
  BY CalmSet DEF Inv, TypeOK, Sets
<1>2. Calm(Transition(set, target))
  BY <1>1, CalmTransition
<1>3. CalmStep
  BY <1>1, <1>2, Handled DEF far
<1>4. QED
  BY <1>3, CalmKept DEF far

LEMMA LinkModal ==
  ASSUME Inv, ModalInv, \/ \E c \in Calls : LinkUp(c) \/ LinkWeakens(c) \/ LinkRecovers(c)
                        \/ TimerFires \/ HangupFires
  PROVE  ModalInv'
<1>1. /\ \E target \in {"active", "reconnecting", "idle"} : Sets(Transition(set, target))
      /\ ops' = ops /\ UNCHANGED far
  BY DEF LinkUp, LinkWeakens, LinkRecovers, LinkChanges, TimerFires, HangupFires
<1>2. QED
  BY <1>1, StateNames, MovesModal

LEMMA RenderModal == ASSUME Inv, ModalInv, Render \/ UNCHANGED vars PROVE ModalInv'
<1>1. CASE Render
  <2>1. CalmStep
    BY <1>1 DEF Render, CalmStep, far
  <2>2. QED
    BY <1>1, <2>1, CalmKept DEF Render, far
<1>2. CASE UNCHANGED vars
  <2>1. Calm(set')
    BY <1>2, CalmSet DEF Calm, Taken, Started, InSession, vars, tab
  <2>2. CalmStep
    BY <1>2, <2>1 DEF CalmStep, vars, tab, far
  <2>3. QED
    BY <1>2, <2>2, CalmKept DEF vars, far
<1>3. QED
  BY <1>1, <1>2

\* Events: what is set is calm, and what the event told is known.
LEMMA EventModal ==
  ASSUME Inv, ModalInv, NEW type, NEW c, Receive(type, c), NEW v, Calm(v), NEW current, SetsFrom(v, current),
         \A op \in ops' : op \in ops \/ Derived(op), ops \subseteq ops',
         \A d \in Calls : Spent(d)
  PROVE  ModalInv'
<1>1. inbox # <<>> /\ inbox' = Tail(inbox) /\ UNCHANGED <<direction, line, owner>>
  BY DEF Receive
<1>2. CalmStep
  BY <1>1, Handled
<1>3. QED
  BY <1>1, <1>2, CalmTaken

LEMMA ClaimedModal == ASSUME Inv, ModalInv, NEW c \in Calls, OnCallClaimed(c) PROVE ModalInv'
<1> DEFINE u == [set EXCEPT !.incoming = NoCall]
           v == IF ui.incoming = c THEN Transition(u, "idle") ELSE set
<1>1. Receive("CallClaimed", c) /\ ops' = ops /\ set \in View /\ Calm(set) /\ SetsFrom(v, TRUE)
  BY CalmSet DEF OnCallClaimed, Inv, TypeOK, Sets
<1>2. u \in View /\ Calm(u) /\ u.incoming = NoCall
  BY <1>1, CalmParts DEF View
<1> HIDE DEF u
<1>3. Calm(v) /\ (ui.incoming = c => v.incoming = NoCall)
  BY <1>1, <1>2, StateNames, CalmTransition
<1>4. ~stale' => set = ui
  BY <1>1 DEF SetsFrom, Inv, TypeOK
<1>5. \A d \in Calls : Spent(d)
  <2>1. Head(inbox).type = "CallClaimed" /\ Head(inbox).call = c /\ set' = v /\ c # NoCall
    BY <1>1, CallAssumption DEF Receive, SetsFrom
  <2>2. ~stale' => v.incoming # c
    BY <1>3, <1>4, <2>1
  <2>3. QED
    BY <2>1, <2>2 DEF Spent
<1> HIDE DEF v
<1>6. QED
  BY <1>1, <1>3, <1>5, EventModal

\* An answer while an invite is without one is noted as stale.
LEMMA ResponseModal == ASSUME Inv, ModalInv, NEW c \in Calls, OnCallResponse(c) PROVE ModalInv'
<1> DEFINE u == [set EXCEPT !.outgoing = NoCall]
<1>1. set \in View /\ Calm(set)
  BY CalmSet DEF Inv, TypeOK
<1>2. u \in View /\ Calm(u) /\ u.outgoing = NoCall
  BY <1>1, CalmParts DEF View
<1> HIDE DEF u
<1>3. ASSUME NEW v, v.outgoing = NoCall, SetsFrom(v, Named), \A op \in ops' : op \in ops \/ op.kind = "offer",
             Receive("CallRejected", c) \/ Receive("CallAccepted", c), NEW d \in Calls
      PROVE  Spent(d)
  <2>1. Head(inbox).type \in {"CallRejected", "CallAccepted"} /\ set' = v /\ d # NoCall
    BY <1>3, CallAssumption DEF Receive, SetsFrom
  <2>2. ~stale' => Named
    BY <1>3 DEF SetsFrom, Inv, TypeOK
  <2>3. ~stale' => ~Started(d)'
    BY <1>3, <2>2 DEF Named, Started
  <2>4. QED
    BY <1>3, <2>1, <2>3 DEF Spent
<1>4. ASSUME Receive("CallRejected", c), SetsFrom(Transition(u, "ended"), Named), ops' = ops PROVE ModalInv'
  <2> DEFINE v == Transition(u, "ended")
  <2>1. Calm(v) /\ v.outgoing = NoCall
    BY <1>2, StateNames, CalmTransition
  <2>2. SetsFrom(v, Named)
    BY <1>4
  <2> HIDE DEF v
  <2>3. \A d \in Calls : Spent(d)
    BY <1>3, <1>4, <2>1, <2>2
  <2>4. QED
    BY <1>4, <2>1, <2>2, <2>3, EventModal
<1>5. ASSUME Receive("CallAccepted", c), Begin(NewOp("offer", "media", c, NoCall)),
             LET w == Transition(u, "connecting")
             IN  SetsFrom(IF w.sessions[c] = "absent" THEN w ELSE [w EXCEPT !.sessions[c] = "connecting"], Named)
      PROVE  ModalInv'
  <2> DEFINE w == Transition(u, "connecting")
             v == IF w.sessions[c] = "absent" THEN w ELSE [w EXCEPT !.sessions[c] = "connecting"]
             op == NewOp("offer", "media", c, NoCall)
  <2>1. w \in View /\ Calm(w) /\ w.outgoing = NoCall
    BY <1>2, StateNames, CalmTransition
  <2>2. SetsFrom(v, Named) /\ ops' = ops \cup {op}
    BY <1>5 DEF Begin
  <2> HIDE DEF w
  <2>3. Calm(v) /\ v.outgoing = NoCall
    <3>1. w.sessions[c] # "absent" => Taken(c)
      BY <2>1 DEF Calm, InSession
    <3>2. w.sessions[c] # "absent" => Calm([w EXCEPT !.sessions[c] = "connecting"])
      BY <2>1, <3>1, StateNames, CalmSession
    <3>3. QED
      BY <2>1, <3>2 DEF View
  <2>4. Derived(op) /\ op.kind = "offer"
    BY CallAssumption DEF NewOp, Derived, Shaped, TakenBy
  <2> HIDE DEF v, op
  <2>5. \A d \in Calls : Spent(d)
    BY <1>3, <1>5, <2>2, <2>3, <2>4
  <2>6. QED
    BY <1>5, <2>2, <2>3, <2>4, <2>5, EventModal
<1>6. QED
  BY <1>4, <1>5 DEF OnCallResponse, u

LEMMA CancelledModal == ASSUME Inv, ModalInv, NEW c \in Calls \cup {NoCall}, OnCallCancelled(c) PROVE ModalInv'
<1> DEFINE u == [set EXCEPT !.incoming = NoCall]
           dismissed == ui.incoming # NoCall /\ c \in {NoCall, ui.incoming}
           v == IF dismissed THEN Transition(u, "ended") ELSE set
<1>1. Receive("CallCancelled", c) /\ ops' = ops /\ set \in View /\ Calm(set) /\ SetsFrom(v, TRUE)
  BY CalmSet DEF OnCallCancelled, Inv, TypeOK, Sets
<1>2. u \in View /\ Calm(u) /\ u.incoming = NoCall
  BY <1>1, CalmParts DEF View
<1> HIDE DEF u
<1>3. Calm(v) /\ (dismissed => v.incoming = NoCall) /\ (~dismissed => v = set)
  BY <1>1, <1>2, StateNames, CalmTransition
<1>4. ~stale' => set = ui
  BY <1>1 DEF SetsFrom, Inv, TypeOK
<1>5. \A d \in Calls : Spent(d)
  <2>1. Head(inbox).type = "CallCancelled" /\ Head(inbox).call = c /\ set' = v
    BY <1>1 DEF Receive, SetsFrom
  <2>2. ASSUME NEW d \in Calls, d = c, ~stale' PROVE v.incoming # d
    BY <1>3, <1>4, <2>2, CallAssumption
  <2>3. QED
    BY <2>1, <2>2 DEF Spent
<1> HIDE DEF v
<1>6. QED
  BY <1>1, <1>3, <1>5, EventModal

\* A call is not dialed and rung at once, so that its timeout closes its modal.
LEMMA TimeoutModal == ASSUME Inv, ModalInv, NEW c \in Calls, OnCallTimeout(c) PROVE ModalInv'
<1> DEFINE u == [set EXCEPT !.outgoing = NoCall]
           w == [set EXCEPT !.incoming = NoCall]
<1>1. Receive("CallTimeout", c) /\ ops' = ops /\ set \in View /\ Calm(set)
  BY CalmSet DEF OnCallTimeout, Inv, TypeOK
<1>2. /\ u \in View /\ Calm(u) /\ u.incoming = set.incoming
      /\ w \in View /\ Calm(w) /\ w.incoming = NoCall
  BY <1>1, CalmParts DEF View
<1>3. ASSUME NEW v, NEW current, SetsFrom(v, current), ~stale' => v.incoming # c, NEW d \in Calls
      PROVE  Spent(d)
  <2>1. Head(inbox).type = "CallTimeout" /\ Head(inbox).call = c /\ set' = v
    BY <1>1, <1>3 DEF Receive, SetsFrom
  <2>2. QED
    BY <1>3, <2>1 DEF Spent
<1>4. CASE ui.outgoing = c
  <2> DEFINE v == Transition(u, "ended")
  <2>1. SetsFrom(v, TRUE)
    BY <1>4 DEF OnCallTimeout, Sets
  <2>2. Calm(v) /\ v.incoming = set.incoming
    BY <1>2, StateNames, CalmTransition
  <2>3. ModalOf(c)
    BY ModalParts
  <2>4. ~Rung(c)
    BY <1>4, <2>3 DEF ModalOf, Directed, Dialed
  <2>5. v.incoming # c
    BY <2>2, <2>4 DEF Rung
  <2> HIDE DEF v
  <2>6. QED
    BY <1>1, <1>3, <2>1, <2>2, <2>5, EventModal
<1>5. CASE ui.outgoing # c
  <2> DEFINE v == IF ui.incoming = c THEN Transition(w, "idle") ELSE set
  <2>1. SetsFrom(v, Named)
    BY <1>5 DEF OnCallTimeout
  <2>2. Calm(v) /\ (ui.incoming = c => v.incoming = NoCall)
    BY <1>1, <1>2, StateNames, CalmTransition
  <2>3. ~stale' => set = ui
    BY <2>1 DEF SetsFrom, Inv, TypeOK
  <2>4. ~stale' => v.incoming # c
    BY <2>2, <2>3, CallAssumption
  <2> HIDE DEF v
  <2>5. QED
    BY <1>1, <1>3, <2>1, <2>2, <2>4, EventModal
<1>6. QED
  BY <1>4, <1>5

LEMMA EndedModal == ASSUME Inv, ModalInv, NEW c \in Calls, OnCallEnded(c) PROVE ModalInv'
<1> DEFINE v == [set EXCEPT !.sessions[c] = "absent"]
<1>1. Receive("CallEnded", c) /\ ops' = ops /\ set \in View /\ Calm(set)
  BY CalmSet DEF OnCallEnded, Inv, TypeOK
<1>2. v \in View /\ Calm(v)
  BY <1>1, CalmParts
<1>3. SetsFrom(v, TRUE) \/ SetsFrom(FallenBack(v), TRUE) \/ SetsFrom(TornDown(v), TRUE)
  BY DEF OnCallEnded, Sets
<1> HIDE DEF v
<1>4. Calm(FallenBack(v)) /\ Calm(TornDown(v))
  BY <1>2, CalmParts, CalmTornDown
<1>5. \A d \in Calls : Spent(d)
  BY <1>1 DEF Spent, Receive
<1>6. QED
  BY <1>1, <1>2, <1>3, <1>4, <1>5, EventModal

LEMMA HeldModal == ASSUME Inv, ModalInv, NEW c \in Calls, OnCallHeld(c) PROVE ModalInv'
<1>1. /\ Receive("CallHeld", c) \/ Receive("CallResumed", c)
      /\ ops' = ops /\ set \in View /\ Calm(set)
  BY CalmSet DEF OnCallHeld, Inv, TypeOK
<1>2. \E s \in {"held", "active"} : Sets(IF set.sessions[c] = "absent" THEN set ELSE [set EXCEPT !.sessions[c] = s])
  BY DEF OnCallHeld
<1>3. PICK s \in {"held", "active"} : Sets(IF set.sessions[c] = "absent" THEN set ELSE [set EXCEPT !.sessions[c] = s])
  BY <1>2
<1> DEFINE v == IF set.sessions[c] = "absent" THEN set ELSE [set EXCEPT !.sessions[c] = s]
<1>4. SetsFrom(v, TRUE)
  BY <1>3 DEF Sets
<1>5. Calm(v)
  <2>1. set.sessions[c] # "absent" => Taken(c)
    BY DEF Taken, InSession
  <2>2. QED
    BY <1>1, <2>1, StateNames, CalmSession
<1> HIDE DEF v
<1>6. \A d \in Calls : Spent(d)
  BY <1>1 DEF Spent, Receive
<1>7. QED
  BY <1>1, <1>4, <1>5, <1>6, EventModal

\* A call is dialed: it has no direction yet, so that nothing knows of it.
LEMMA StartModal == ASSUME Inv, ModalInv, NEW c \in Calls, StartCall(c) PROVE ModalInv'
<1> DEFINE op == NewOp("start", "invite", c, NoCall)
           t == Transition(set, "initiating")
           v == [t EXCEPT !.outgoing = Dialing]
<1>1. /\ direction[c] = "none" /\ direction' = [direction EXCEPT ![c] = "out"]
      /\ UNCHANGED <<inbox, line, owner>> /\ ops' = ops \cup {op}
      /\ ui' = ui /\ set' = v /\ (stale => stale')
  BY DEF StartCall, Fresh, Sets, SetsFrom, Begin
<1>2. set \in View /\ Calm(set) /\ direction \in [Calls -> {"none", "out", "in"}]
  BY CalmSet DEF Inv, TypeOK
<1>3. t \in View /\ Calm(t) /\ t.incoming = set.incoming
  BY <1>2, StateNames, CalmTransition
<1> HIDE DEF t
<1>4. /\ set'.incoming = set.incoming /\ set'.outgoing = Dialing
      /\ \A d \in Calls : InSession(set, d)' => Taken(d)
  <2>1. v.incoming = t.incoming /\ v.outgoing = Dialing /\ v.active = t.active /\ v.sessions = t.sessions
    BY <1>3 DEF View
  <2>2. QED
    BY <1>1, <1>3, <2>1 DEF Calm, InSession
<1>5. op.kind = "start" /\ op.call = c /\ op.other = NoCall /\ op.served = "no" /\ op.step = "invite"
  BY DEF NewOp
<1> HIDE DEF op, v
<1>6. ASSUME NEW d \in Calls PROVE ModalOf(d)'
  <2>1. ModalOf(d)
    BY ModalParts
  <2>2. d # NoCall /\ d # Dialing
    BY CallAssumption
  <2>3. Taken(d)' => Taken(d) \/ d = c
    <3>1. ASSUME NEW q \in ops', TakenBy(q, d) PROVE Taken(d) \/ d = c
      BY <1>1, <1>5, <2>2, <3>1 DEF Taken, TakenBy
    <3>2. InSession(ui, d)' => Taken(d)
      BY <1>1 DEF Taken, InSession
    <3>3. Taken(d)' => InSession(ui, d)' \/ InSession(set, d)' \/ \E q \in ops' : TakenBy(q, d)
      BY DEF Taken, TakenBy
    <3>4. QED
      BY <1>4, <3>1, <3>2, <3>3
  <2>4. Rung(d)' <=> Rung(d)
    BY <1>1, <1>4, <1>5 DEF Rung
  <2>5. Dialed(d)' => Dialed(d) \/ d = c
    BY <1>1, <1>4, <1>5, <2>2 DEF Dialed
  <2>6. \A i : Rings(d, i)' <=> Rings(d, i)
    BY <1>1 DEF Rings
  <2>7. d = c => ~Taken(d) /\ ~Rung(d) /\ \A i \in 1 .. Len(inbox) : ~Rings(d, i)
    BY <1>1, <2>1 DEF ModalOf, Directed
  <2>8. RingsOnce(d)'
    <3>1. d = c => set'.incoming # d
      BY <1>4, <2>7 DEF Rung
    <3>2. QED
      BY <1>1, <1>4, <2>1, <2>3, <2>4, <2>6, <2>7, <3>1 DEF ModalOf, RingsOnce
  <2>9. Directed(d)'
    <3>1. direction'[d] = IF d = c THEN "out" ELSE direction[d]
      BY <1>1, <1>2
    <3>2. QED
      BY <1>1, <2>1, <2>3, <2>4, <2>5, <2>6, <2>7, <3>1 DEF ModalOf, Directed
  <2>10. ASSUME ~stale' PROVE Told(d)'
    <3>1. Told(d)
      BY <1>1, <2>1, <2>10 DEF ModalOf
    <3>2. \A i : GoneTold(d, i)' <=> GoneTold(d, i)
      BY <1>1 DEF GoneTold, Coming
    <3>3. AnswerTold(d)' <=> AnswerTold(d)
      BY <1>1 DEF AnswerTold, Coming
    <3>4. (set.incoming = d => GoneTold(d, 0))'
      BY <1>4, <3>1, <3>2 DEF Told
    <3>5. ASSUME NEW i \in 1 .. Len(inbox'), Rings(d, i)' PROVE GoneTold(d, i)'
      BY <1>1, <2>6, <3>1, <3>2, <3>5 DEF Told
    <3>6. ASSUME NEW q \in ops', q.kind = "start", q.call = d, q.served = "done" PROVE AnswerTold(d)'
      BY <1>1, <1>5, <3>1, <3>3, <3>6 DEF Told
    <3>7. set'.outgoing # d
      BY <1>4, <2>2
    <3>8. QED
      BY <3>4, <3>5, <3>6, <3>7 DEF Told
  <2>11. QED
    BY <2>8, <2>9, <2>10 DEF ModalOf
<1>7. \A q \in ops' : Shaped(q)
  BY <1>1, <1>5 DEF ModalInv, Shaped
<1>8. \E q \in ops' : q.kind = "start"
  BY <1>1, <1>5
<1>9. QED
  BY <1>6, <1>7, <1>8 DEF ModalInv, ModalOf

\* A call rings: the event is taken and its modal shown, or the tab is busy.
LEMMA IncomingModal == ASSUME Inv, ModalInv, NEW c \in Calls, OnIncomingCall(c) PROVE ModalInv'
<1> DEFINE op == NewOp("busy", "respond", c, NoCall)
           u == [set EXCEPT !.incoming = c]
<1>1. /\ inbox # <<>> /\ Head(inbox) = [type |-> "IncomingCall", call |-> c] /\ inbox' = Tail(inbox)
      /\ UNCHANGED <<direction, line, owner>> /\ inbox \in Seq(Event)
  BY DEF OnIncomingCall, Receive, Inv, TypeOK
<1>2. set \in View /\ Calm(set) /\ c # NoCall /\ c # Dialing
  BY CalmSet, CallAssumption DEF Inv, TypeOK
<1>3. op.kind = "busy" /\ op.call = c /\ op.other = NoCall /\ op.step = "respond"
  BY DEF NewOp
<1>4. /\ ui' = ui /\ (stale => stale')
      /\ \A q \in ops' : q \in ops \/ q = op
      /\ ops \subseteq ops'
  BY DEF OnIncomingCall, Sets, SetsFrom, Begin
<1>5. /\ \A d \in Calls : InSession(set, d)' => Taken(d)
      /\ set'.incoming \in {set.incoming, c} /\ set'.outgoing = set.outgoing
  <2>1. u \in View /\ u.incoming = c /\ u.outgoing = set.outgoing /\ u.active = set.active /\ u.sessions = set.sessions
    BY <1>2 DEF View
  <2>2. set' = set \/ set' = u \/ set' = Transition(u, "ringing_incoming")
    BY DEF OnIncomingCall, Sets, SetsFrom
  <2>3. \A d \in Calls : InSession(set, d) \/ InSession(u, d) => Taken(d)
    BY <2>1 DEF Taken, InSession
  <2> HIDE DEF u
  <2>4. CASE set' = Transition(u, "ringing_incoming")
    <3> DEFINE w == Transition(u, "ringing_incoming")
    <3>1. \/ w = u \/ w = [u EXCEPT !.state = "ringing_incoming"]
          \/ /\ ui.active.id # NoCall
             /\ w = [u EXCEPT !.state = "ringing_incoming",
                       !.active = [ui.active EXCEPT !.state = "ringing_incoming"],
                       !.sessions[ui.active.id] = "ringing_incoming"]
      BY DEF Transition
    <3>2. w.incoming = u.incoming /\ w.outgoing = u.outgoing
      BY <2>1, <3>1 DEF View
    <3>3. ui.active \in Session /\ u.sessions \in [Calls -> CallState \cup {"absent"}]
      BY <2>1 DEF Inv, TypeOK, View
    <3>4. /\ w.active.id \in {u.active.id, ui.active.id}
          /\ \A d \in Calls : d # ui.active.id => w.sessions[d] = u.sessions[d]
      <4>1. CASE w = u \/ w = [u EXCEPT !.state = "ringing_incoming"]
        BY <2>1, <4>1 DEF View
      <4>2. CASE w = [u EXCEPT !.state = "ringing_incoming",
                       !.active = [ui.active EXCEPT !.state = "ringing_incoming"],
                       !.sessions[ui.active.id] = "ringing_incoming"]
        <5>1. w.active = [ui.active EXCEPT !.state = "ringing_incoming"]
          BY <2>1, <4>2 DEF View
        <5>2. w.active.id = ui.active.id
          BY <3>3, <5>1 DEF Session
        <5>3. w.sessions = [u.sessions EXCEPT ![ui.active.id] = "ringing_incoming"]
          BY <2>1, <4>2 DEF View
        <5>4. QED
          BY <3>3, <5>2, <5>3
      <4>3. QED
        BY <3>1, <4>1, <4>2
    <3>5. ASSUME NEW d \in Calls, InSession(w, d) PROVE Taken(d)
      <4>1. CASE d = ui.active.id
        BY <4>1 DEF Taken, InSession
      <4>2. CASE d # ui.active.id
        <5>1. InSession(u, d)
          BY <3>3, <3>4, <3>5, <4>2 DEF InSession
        <5>2. QED
          BY <2>3, <5>1
      <4>3. QED
        BY <4>1, <4>2
    <3> HIDE DEF w
    <3>6. set' = w
      BY <2>4 DEF w
    <3>7. QED
      BY <2>1, <3>2, <3>5, <3>6 DEF InSession
  <2>5. CASE set' = set \/ set' = u
    BY <2>1, <2>3, <2>5 DEF InSession
  <2>6. QED
    BY <2>2, <2>4, <2>5
<1> HIDE DEF op, u
<1>6. ASSUME NEW d \in Calls PROVE ModalOf(d)'
  <2>1. ModalOf(d)
    BY ModalParts
  <2>2. d # NoCall
    BY CallAssumption
  <2>3. Taken(d)' => Taken(d)
    <3>1. ASSUME NEW q \in ops', TakenBy(q, d) PROVE Taken(d)
      BY <1>3, <1>4, <2>2, <3>1 DEF Taken, TakenBy
    <3>2. InSession(ui, d)' => Taken(d)
      BY <1>4 DEF Taken, InSession
    <3>3. Taken(d)' => InSession(ui, d)' \/ InSession(set, d)' \/ \E q \in ops' : TakenBy(q, d)
      BY DEF Taken, TakenBy
    <3>4. QED
      BY <1>5, <3>1, <3>2, <3>3
  <2>4. Rung(d)' => Rung(d) \/ d = c
    BY <1>3, <1>4, <1>5 DEF Rung
  <2>5. Dialed(d)' => Dialed(d)
    BY <1>3, <1>4, <1>5 DEF Dialed
  <2>6. \A i \in 1 .. Len(inbox') : i + 1 \in 1 .. Len(inbox) /\ (Rings(d, i)' <=> Rings(d, i + 1))
    BY <1>1, TailComing
  <2>7. d = c => Rings(d, 1) /\ 1 \in 1 .. Len(inbox)
    BY <1>1 DEF Rings
  <2>8. d = c => \A i \in 1 .. Len(inbox') : ~Rings(d, i)'
    <3> SUFFICES ASSUME d = c, NEW i \in 1 .. Len(inbox'), Rings(d, i)' PROVE FALSE
      OBVIOUS
    <3>1. i + 1 = 1
      BY <2>1, <2>6, <2>7 DEF ModalOf, RingsOnce
    <3>2. QED
      BY <3>1
  <2>9. d = c => ~Taken(d)
    BY <2>1, <2>7 DEF ModalOf, RingsOnce
  <2>10. RingsOnce(d)'
    <3>1. \A i, j \in 1 .. Len(inbox') : Rings(d, i)' /\ Rings(d, j)' => i = j
      BY <2>1, <2>6 DEF ModalOf, RingsOnce
    <3>2. Taken(d)' \/ Rung(d)' => \A i \in 1 .. Len(inbox') : ~Rings(d, i)'
      BY <2>1, <2>3, <2>4, <2>6, <2>8 DEF ModalOf, RingsOnce
    <3>3. Taken(d)' => set'.incoming # d
      BY <1>5, <2>1, <2>3, <2>9 DEF ModalOf, RingsOnce
    <3>4. QED
      BY <3>1, <3>2, <3>3 DEF RingsOnce
  <2>11. Directed(d)'
    <3>1. (\E i \in 1 .. Len(inbox') : Rings(d, i)') => \E i \in 1 .. Len(inbox) : Rings(d, i)
      BY <2>6
    <3>2. d = c => \E i \in 1 .. Len(inbox) : Rings(d, i)
      BY <2>7
    <3>3. QED
      BY <1>1, <2>1, <2>3, <2>4, <2>5, <3>1, <3>2 DEF ModalOf, Directed
  <2>12. ASSUME ~stale' PROVE Told(d)'
    <3>1. Told(d)
      BY <1>4, <2>1, <2>12 DEF ModalOf
    <3>2. \A i \in Nat : \A types : Coming(types, d, i + 1) => Coming(types, d, i)'
      BY <1>1, TailComing
    <3>3. ASSUME NEW i \in Nat, GoneTold(d, i + 1) PROVE GoneTold(d, i)'
      BY <1>1, <3>2, <3>3 DEF GoneTold
    <3>4. \A types : Coming(types, d, 0) => Coming(types, d, 0)' \/ (Head(inbox).call = d /\ Head(inbox).type \in types)
      BY <1>1, TailComing
    <3>5. ASSUME NEW i \in 1 .. Len(inbox'), Rings(d, i)' PROVE GoneTold(d, i)'
      <4>1. GoneTold(d, i + 1) /\ i \in Nat
        BY <2>6, <3>1, <3>5 DEF Told
      <4>2. QED
        BY <3>3, <4>1
    <3>6. ASSUME set'.incoming = d PROVE GoneTold(d, 0)'
      <4>1. CASE d = c
        <5>1. GoneTold(d, 0 + 1)
          BY <2>7, <3>1, <4>1 DEF Told
        <5>2. QED
          BY <3>3, <5>1
      <4>2. CASE d # c
        <5>1. GoneTold(d, 0)
          BY <1>5, <3>1, <3>6, <4>2 DEF Told
        <5>2. QED
          BY <1>1, <3>4, <4>2, <5>1 DEF GoneTold
      <4>3. QED
        BY <4>1, <4>2
    <3>7. AnswerTold(d) => AnswerTold(d)'
      BY <1>1, <3>4 DEF AnswerTold
    <3>8. ASSUME NEW q \in ops', q.kind = "start", q.call = d, q.served = "done" PROVE AnswerTold(d)'
      BY <1>3, <1>4, <3>1, <3>7, <3>8 DEF Told
    <3>9. (set.outgoing = d => AnswerTold(d))'
      BY <1>5, <3>1, <3>7 DEF Told
    <3>10. QED
      BY <3>5, <3>6, <3>8, <3>9 DEF Told
  <2>13. QED
    BY <2>10, <2>11, <2>12 DEF ModalOf
<1>7. \A q \in ops' : Shaped(q)
  BY <1>3, <1>4 DEF ModalInv, Shaped
<1>8. ~stale' /\ set'.outgoing = Dialing => \E q \in ops' : q.kind = "start"
  BY <1>4, <1>5 DEF ModalInv
<1>9. QED
  BY <1>6, <1>7, <1>8 DEF ModalInv, ModalOf

\* The server serves a request: what it makes of the call is no news to a tab
\* that waits for it, or that has left the call.
LEMMA ServeModal == ASSUME Inv, ModalInv, NEW op \in ops, Serve(op) PROVE ModalInv'
<1>1. PICK s \in {"refused", "done"} : ops' = (ops \ {op}) \cup {[op EXCEPT !.served = s]}
  BY DEF Serve
<1> DEFINE q == [op EXCEPT !.served = s]
<1>2. /\ ops' = (ops \ {op}) \cup {q}
      /\ q.kind = op.kind /\ q.step = op.step /\ q.call = op.call /\ q.other = op.other
  BY <1>1 DEF Inv, TypeOK, Op
<1> HIDE DEF q
<1>3. UNCHANGED <<ui, set, stale, inbox, direction>> /\ Shaped(op)
  BY DEF Serve, ModalInv
<1>4. op.step \in {"invite", "claim", "respond", "cancel", "end"}
  BY DEF Serve
<1>5. /\ line \in [Calls -> {"none", "ringing", "givenUp", "answered", "over"}]
      /\ owner \in [Calls -> {"none", "mine", "other"}]
  BY DEF Inv, TypeOK
<1>6. ASSUME NEW d \in Calls
      PROVE  /\ owner'[d] = "other" => owner[d] = "other"
             /\ d # op.call => line'[d] = line[d]
             /\ d = op.call /\ op.step = "invite" => line'[d] = "ringing"
             /\ d = op.call /\ op.step = "claim" => line'[d] = line[d]
             /\ d = op.call /\ op.step \in {"cancel", "end"} => line'[d] = Ended(line[d])
  <2>1. d # NoCall
    BY CallAssumption
  <2>2. CASE d # op.call
    BY <1>5, <2>2 DEF Serve
  <2>3. CASE d = op.call
    <3>1. op.step = "invite" => line'[d] = "ringing"
      BY <1>5, <2>1, <2>3 DEF Serve
    <3>2. op.step = "claim" => line'[d] = line[d]
      BY <1>5, <2>1, <2>3 DEF Serve
    <3>3. op.step \in {"cancel", "end"} => line'[d] = Ended(line[d])
      BY <1>5, <2>1, <2>3 DEF Serve
    <3>4. owner'[d] = "other" => owner[d] = "other"
      BY <1>5, <2>1, <2>3 DEF Serve
    <3>5. QED
      BY <2>3, <3>1, <3>2, <3>3, <3>4
  <2>4. QED
    BY <2>2, <2>3
<1>7. ASSUME NEW d \in Calls PROVE ModalOf(d)'
  <2>1. ModalOf(d) /\ d # NoCall
    BY ModalParts, CallAssumption
  <2>2. (Taken(d)' <=> Taken(d)) /\ (Rung(d)' <=> Rung(d)) /\ (Dialed(d)' <=> Dialed(d))
    <3>1. TakenBy(q, d) <=> TakenBy(op, d)
      BY <1>2 DEF TakenBy
    <3>2. Taken(d)' <=> Taken(d)
      BY <1>2, <1>3, <3>1 DEF Taken, InSession, TakenBy
    <3>3. Rung(d)' <=> Rung(d)
      BY <1>2, <1>3 DEF Rung
    <3>4. Dialed(d)' <=> Dialed(d)
      BY <1>2, <1>3 DEF Dialed
    <3>5. QED
      BY <3>2, <3>3, <3>4
  <2>3. /\ \A i : Rings(d, i)' <=> Rings(d, i)
        /\ \A i, types : Coming(types, d, i)' <=> Coming(types, d, i)
    BY <1>3 DEF Rings, Coming
  <2>4. RingsOnce(d)' /\ Directed(d)'
    BY <1>3, <1>6, <2>1, <2>2, <2>3 DEF ModalOf, RingsOnce, Directed
  <2>5. ASSUME ~stale' PROVE Told(d)'
    <3>1. Told(d)
      BY <1>3, <2>1, <2>5 DEF ModalOf
    <3>2. ASSUME NEW i \in Nat, GoneTold(d, i), set.incoming = d \/ (i \in 1 .. Len(inbox) /\ Rings(d, i))
          PROVE  GoneTold(d, i)'
      <4>1. d = op.call => op.step \notin {"cancel", "end"}
        <5>1. ~Taken(d) /\ direction[d] = "in"
          BY <2>1, <3>2 DEF ModalOf, RingsOnce, Directed, Rung
        <5>2. op.kind = "cancel" /\ op.call = d => Dialed(d)
          BY DEF Dialed
        <5>3. op.kind = "end" /\ op.call = d => Taken(d)
          BY DEF Taken, TakenBy
        <5>4. QED
          BY <1>3, <2>1, <5>1, <5>2, <5>3 DEF ModalOf, Directed, Shaped
      <4>2. line'[d] = "givenUp" => line[d] = "givenUp" \/ (d = op.call /\ op.step = "respond")
        BY <1>4, <1>6, <4>1
      <4>3. d = op.call /\ op.step = "respond" => line'[d] # "givenUp"  \/ line[d] = "givenUp"
        BY <1>5, <2>1 DEF Serve
      <4>4. QED
        BY <1>6, <2>3, <3>2, <4>2, <4>3 DEF GoneTold
    <3>3. ASSUME AnswerTold(d), Dialed(d) PROVE AnswerTold(d)'
      <4>1. d = op.call => op.step # "respond"
        <5>1. direction[d] = "out"
          BY <2>1, <3>3 DEF ModalOf, Directed
        <5>2. op.kind \in {"accept", "reject", "busy"} /\ op.call = d => Rung(d)
          BY DEF Rung
        <5>3. QED
          BY <1>3, <2>1, <5>1, <5>2 DEF ModalOf, Directed, Shaped
      <4>2. line[d] \in {"ringing", "givenUp"} => line'[d] \in {"ringing", "givenUp"}
        BY <1>4, <1>6, <4>1 DEF Ended
      <4>3. QED
        BY <2>3, <3>3, <4>2 DEF AnswerTold
    <3>4. (set.incoming = d => GoneTold(d, 0))'
      BY <1>3, <3>1, <3>2 DEF Told
    <3>5. ASSUME NEW i \in 1 .. Len(inbox'), Rings(d, i)' PROVE GoneTold(d, i)'
      <4>1. i \in Nat /\ i \in 1 .. Len(inbox) /\ Rings(d, i) /\ GoneTold(d, i)
        BY <1>3, <2>3, <3>1, <3>5 DEF Told
      <4>2. QED
        BY <3>2, <4>1
    <3>6. (set.outgoing = d => AnswerTold(d))'
      <4>1. set.outgoing = d => AnswerTold(d) /\ Dialed(d)
        BY <3>1 DEF Told, Dialed
      <4>2. QED
        BY <1>3, <3>3, <4>1
    <3>7. ASSUME NEW r \in ops', r.kind = "start", r.call = d, r.served = "done" PROVE AnswerTold(d)'
      <4>1. CASE r \in ops
        <5>1. AnswerTold(d) /\ Dialed(d)
          BY <3>1, <3>7, <4>1 DEF Told, Dialed
        <5>2. QED
          BY <3>3, <5>1
      <4>2. CASE r = q
        <5>1. line'[d] = "ringing"
          BY <1>2, <1>3, <1>6, <3>7, <4>2 DEF Shaped
        <5>2. QED
          BY <5>1 DEF AnswerTold
      <4>3. QED
        BY <1>2, <4>1, <4>2
    <3>8. QED
      BY <3>4, <3>5, <3>6, <3>7 DEF Told
  <2>6. QED
    BY <2>4, <2>5 DEF ModalOf
<1>8. \A r \in ops' : Shaped(r)
  BY <1>2, <1>3 DEF ModalInv, Shaped
<1>9. ~stale' /\ set'.outgoing = Dialing => \E r \in ops' : r.kind = "start"
  BY <1>2, <1>3 DEF ModalInv
<1>10. QED
  BY <1>7, <1>8, <1>9 DEF ModalInv, ModalOf

\* What the others do to a call the tab knows of is told to it.
LEMMA NewsModal ==
  ASSUME Inv, ModalInv, UNCHANGED <<tab, direction>>,
         \A d \in Calls, i \in 1 .. Len(inbox') : Rings(d, i)' => i \in 1 .. Len(inbox) /\ Rings(d, i),
         \A d \in Calls, i \in Nat : \A types : Coming(types, d, i) => Coming(types, d, i)',
         \A d \in Calls, i \in 0 .. Len(inbox) :
             line'[d] = "givenUp" => line[d] = "givenUp" \/ Coming({"CallCancelled", "CallTimeout"}, d, i)',
         \A d \in Calls, i \in 0 .. Len(inbox) :
             owner'[d] = "other" => owner[d] = "other" \/ (direction[d] # "none" /\ Coming({"CallClaimed"}, d, i)'),
         \A d \in Calls : line[d] \in {"ringing", "givenUp"} =>
             line'[d] \in {"ringing", "givenUp"} \/ direction[d] # "out" \/ Coming({"CallAccepted", "CallRejected"}, d, 0)'
  PROVE  ModalInv'
<1>1. UNCHANGED <<ui, set, ops, stale, direction>> /\ Len(inbox) \in Nat
  BY DEF tab, Inv, TypeOK
<1>2. ASSUME NEW d \in Calls PROVE ModalOf(d)'
  <2>1. ModalOf(d)
    BY ModalParts
  <2>2. (Taken(d)' <=> Taken(d)) /\ (Rung(d)' <=> Rung(d)) /\ (Dialed(d)' <=> Dialed(d))
    BY <1>1 DEF Taken, InSession, TakenBy, Rung, Dialed
  <2>3. RingsOnce(d)'
    BY <1>1, <2>1, <2>2 DEF ModalOf, RingsOnce
  <2>4. Directed(d)'
    <3>1. owner'[d] = "other" => direction[d] # "none"
      <4>1. 0 \in 0 .. Len(inbox)
        BY <1>1
      <4>2. QED
        BY <2>1, <4>1 DEF ModalOf, Directed
    <3>2. QED
      BY <1>1, <2>1, <2>2, <3>1 DEF ModalOf, Directed
  <2>5. ASSUME ~stale' PROVE Told(d)'
    <3>1. Told(d)
      BY <1>1, <2>1, <2>5 DEF ModalOf
    <3>2. ASSUME NEW i \in 0 .. Len(inbox), GoneTold(d, i) PROVE GoneTold(d, i)'
      <4>1. i \in Nat
        BY <1>1
      <4>2. QED
        BY <3>2, <4>1 DEF GoneTold
    <3>3. ASSUME AnswerTold(d), Dialed(d) PROVE AnswerTold(d)'
      <4>1. direction[d] = "out"
        BY <2>1, <3>3 DEF ModalOf, Directed
      <4>2. QED
        BY <3>3, <4>1 DEF AnswerTold
    <3>4. (set.incoming = d => GoneTold(d, 0))'
      <4>1. 0 \in 0 .. Len(inbox)
        BY <1>1
      <4>2. QED
        BY <1>1, <3>1, <3>2, <4>1 DEF Told
    <3>5. ASSUME NEW i \in 1 .. Len(inbox'), Rings(d, i)' PROVE GoneTold(d, i)'
      <4>1. i \in 1 .. Len(inbox) /\ Rings(d, i)
        BY <3>5
      <4>2. GoneTold(d, i) /\ i \in 0 .. Len(inbox)
        BY <1>1, <3>1, <4>1 DEF Told
      <4>3. QED
        BY <3>2, <4>2
    <3>6. (set.outgoing = d => AnswerTold(d))'
      <4>1. set.outgoing = d => AnswerTold(d) /\ Dialed(d)
        BY <3>1 DEF Told, Dialed
      <4>2. QED
        BY <1>1, <3>3, <4>1
    <3>7. ASSUME NEW r \in ops', r.kind = "start", r.call = d, r.served = "done" PROVE AnswerTold(d)'
      <4>1. AnswerTold(d) /\ Dialed(d)
        BY <1>1, <3>1, <3>7 DEF Told, Dialed
      <4>2. QED
        BY <3>3, <4>1
    <3>8. QED
      BY <3>4, <3>5, <3>6, <3>7 DEF Told
  <2>6. QED
    BY <2>3, <2>4, <2>5 DEF ModalOf
<1>3. \A op \in ops' : Shaped(op)
  BY <1>1 DEF ModalInv, Shaped
<1>4. ~stale' /\ set'.outgoing = Dialing => \E op \in ops' : op.kind = "start"
  BY <1>1 DEF ModalInv
<1>5. QED
  BY <1>2, <1>3, <1>4 DEF ModalInv, ModalOf

\* An event that does not ring, and tells what it is sent for.
LEMMA SentModal ==
  ASSUME Inv, ModalInv, UNCHANGED <<tab, direction>>, NEW e \in Event, inbox' = Append(inbox, e),
         e.type # "IncomingCall",
         \A d \in Calls :
             line'[d] = "givenUp" => line[d] = "givenUp" \/ (e.call = d /\ e.type \in {"CallCancelled", "CallTimeout"}),
         \A d \in Calls :
             owner'[d] = "other" => owner[d] = "other"
                                    \/ (direction[d] # "none" /\ e.call = d /\ e.type \in {"CallClaimed"}),
         \A d \in Calls : line[d] \in {"ringing", "givenUp"} =>
             line'[d] \in {"ringing", "givenUp"} \/ direction[d] # "out"
             \/ (e.call = d /\ e.type \in {"CallAccepted", "CallRejected"})
  PROVE  ModalInv'
<1>1. inbox \in Seq(Event) /\ Len(inbox) \in Nat
  BY DEF Inv, TypeOK
<1>2. e # [type |-> "IncomingCall", call |-> e.call]
  OBVIOUS
<1>3. ASSUME NEW d \in Calls, NEW i \in 1 .. Len(inbox'), Rings(d, i)'
      PROVE  i \in 1 .. Len(inbox) /\ Rings(d, i)
  <2>1. e # [type |-> "IncomingCall", call |-> d]
    OBVIOUS
  <2>2. QED
    BY <1>1, <1>3, <2>1, AppendComing
<1>4. ASSUME NEW d \in Calls, NEW types
      PROVE  /\ \A i \in Nat : Coming(types, d, i) => Coming(types, d, i)'
             /\ \A i \in 0 .. Len(inbox) : e.call = d /\ e.type \in types => Coming(types, d, i)'
  BY <1>1, AppendComing
<1>5. \A d \in Calls, i \in Nat : \A types : Coming(types, d, i) => Coming(types, d, i)'
  BY <1>4
<1>6. \A d \in Calls, i \in 0 .. Len(inbox) :
         line'[d] = "givenUp" => line[d] = "givenUp" \/ Coming({"CallCancelled", "CallTimeout"}, d, i)'
  BY <1>4
<1>7. \A d \in Calls, i \in 0 .. Len(inbox) :
         owner'[d] = "other" => owner[d] = "other" \/ (direction[d] # "none" /\ Coming({"CallClaimed"}, d, i)')
  BY <1>4
<1>8. 0 \in 0 .. Len(inbox)
  BY <1>1
<1>9. \A d \in Calls : line[d] \in {"ringing", "givenUp"} =>
         line'[d] \in {"ringing", "givenUp"} \/ direction[d] # "out" \/ Coming({"CallAccepted", "CallRejected"}, d, 0)'
  BY <1>4, <1>8
<1>10. QED
  BY <1>3, <1>5, <1>6, <1>7, <1>9, NewsModal

\* A party calls: nothing is known of the call yet.
LEMMA InvitedModal ==
  ASSUME Inv, ModalInv, NEW c \in Calls, PeerInvites(c), UNCHANGED tab
  PROVE  ModalInv'
<1> DEFINE e == [type |-> "IncomingCall", call |-> c]
<1>1. /\ direction[c] = "none" /\ direction' = [direction EXCEPT ![c] = "in"]
      /\ line' = [line EXCEPT ![c] = "ringing"] /\ inbox' = Append(inbox, e) /\ owner' = owner
      /\ UNCHANGED <<ui, set, ops, stale>>
  BY DEF PeerInvites, Fresh, Becomes, Notify, tab
<1>2. /\ inbox \in Seq(Event) /\ Len(inbox) \in Nat /\ e \in Event
      /\ direction \in [Calls -> {"none", "out", "in"}]
      /\ line \in [Calls -> {"none", "ringing", "givenUp", "answered", "over"}]
  BY DEF Inv, TypeOK, Event
<1>3. ASSUME NEW d \in Calls PROVE ModalOf(d)'
  <2>1. ModalOf(d)
    BY ModalParts
  <2>2. (Taken(d)' <=> Taken(d)) /\ (Rung(d)' <=> Rung(d)) /\ (Dialed(d)' <=> Dialed(d))
    BY <1>1 DEF Taken, InSession, TakenBy, Rung, Dialed
  <2>3. \A i \in 1 .. Len(inbox') : Rings(d, i)' =>
          (i \in 1 .. Len(inbox) /\ Rings(d, i)) \/ (i = Len(inbox) + 1 /\ d = c)
    <3>1. ASSUME NEW i \in 1 .. Len(inbox'), Rings(d, i)'
          PROVE  (i \in 1 .. Len(inbox) /\ Rings(d, i)) \/ (i = Len(inbox) + 1 /\ d = c)
      <4>1. \/ i \in 1 .. Len(inbox) /\ Rings(d, i)
            \/ i = Len(inbox) + 1 /\ e = [type |-> "IncomingCall", call |-> d]
        BY <1>1, <1>2, <3>1, AppendComing
      <4>2. e = [type |-> "IncomingCall", call |-> d] => d = c
        OBVIOUS
      <4>3. QED
        BY <4>1, <4>2
    <3>2. QED
      BY <3>1
  <2>4. d = c => /\ ~Taken(d) /\ ~Rung(d) /\ ~Dialed(d) /\ owner[d] # "other"
                 /\ \A i \in 1 .. Len(inbox) : ~Rings(d, i)
    BY <1>1, <2>1 DEF ModalOf, Directed
  <2>5. RingsOnce(d)'
    <3>1. \A i, j \in 1 .. Len(inbox') : Rings(d, i)' /\ Rings(d, j)' => i = j
      BY <2>1, <2>3, <2>4 DEF ModalOf, RingsOnce
    <3>2. Taken(d)' \/ Rung(d)' => \A i \in 1 .. Len(inbox') : ~Rings(d, i)'
      BY <2>1, <2>2, <2>3, <2>4 DEF ModalOf, RingsOnce
    <3>3. QED
      BY <1>1, <2>1, <2>2, <3>1, <3>2 DEF ModalOf, RingsOnce
  <2>6. direction'[d] = IF d = c THEN "in" ELSE direction[d]
    BY <1>1, <1>2
  <2>7. Directed(d)'
    BY <1>1, <2>1, <2>2, <2>3, <2>4, <2>6 DEF ModalOf, Directed
  <2>8. ASSUME ~stale' PROVE Told(d)'
    <3>1. Told(d)
      BY <1>1, <2>1, <2>8 DEF ModalOf
    <3>2. \A i \in Nat : \A types : Coming(types, d, i) => Coming(types, d, i)'
      BY <1>1, <1>2, AppendComing
    <3>3. line'[d] = IF d = c THEN "ringing" ELSE line[d]
      BY <1>1, <1>2
    <3>4. ASSUME NEW i \in Nat, GoneTold(d, i) PROVE GoneTold(d, i)'
      BY <1>1, <3>2, <3>3, <3>4 DEF GoneTold
    <3>5. AnswerTold(d) => AnswerTold(d)'
      BY <3>2, <3>3 DEF AnswerTold
    <3>6. (set.incoming = d => GoneTold(d, 0))'
      BY <1>1, <3>1, <3>4 DEF Told
    <3>7. ASSUME NEW i \in 1 .. Len(inbox'), Rings(d, i)' PROVE GoneTold(d, i)'
      <4>1. CASE i \in 1 .. Len(inbox) /\ Rings(d, i)
        BY <3>1, <3>4, <4>1 DEF Told
      <4>2. CASE d = c
        BY <1>1, <2>4, <3>3, <4>2 DEF GoneTold
      <4>3. QED
        BY <2>3, <3>7, <4>1, <4>2
    <3>8. (set.outgoing = d => AnswerTold(d))'
      BY <1>1, <3>1, <3>5 DEF Told
    <3>9. ASSUME NEW r \in ops', r.kind = "start", r.call = d, r.served = "done" PROVE AnswerTold(d)'
      BY <1>1, <3>1, <3>5, <3>9 DEF Told
    <3>10. QED
      BY <3>6, <3>7, <3>8, <3>9 DEF Told
  <2>9. QED
    BY <2>5, <2>7, <2>8 DEF ModalOf
<1>4. \A op \in ops' : Shaped(op)
  BY <1>1 DEF ModalInv, Shaped
<1>5. ~stale' /\ set'.outgoing = Dialing => \E op \in ops' : op.kind = "start"
  BY <1>1 DEF ModalInv
<1>6. QED
  BY <1>3, <1>4, <1>5 DEF ModalInv, ModalOf

LEMMA OthersModal == ASSUME Inv, ModalInv, OthersAct PROVE ModalInv'
<1>1. UNCHANGED tab
  BY DEF OthersAct
<1>2. /\ line \in [Calls -> {"none", "ringing", "givenUp", "answered", "over"}]
      /\ owner \in [Calls -> {"none", "mine", "other"}]
  BY DEF Inv, TypeOK
<1>3. CASE PeerCancelsDialing
  <2> DEFINE e == [type |-> "CallCancelled", call |-> NoCall]
  <2>1. e \in Event /\ e.type = "CallCancelled" /\ inbox' = Append(inbox, e) /\ UNCHANGED <<direction, line, owner>>
    BY <1>3 DEF PeerCancelsDialing, Notify, Event
  <2> HIDE DEF e
  <2>2. QED
    BY <1>1, <2>1, SentModal
<1>4. ASSUME NEW c \in Calls, PeerCancels(c) PROVE ModalInv'
  <2> DEFINE e == [type |-> "CallCancelled", call |-> c]
  <2>1. /\ e \in Event /\ e.type = "CallCancelled" /\ e.call = c /\ inbox' = Append(inbox, e)
        /\ UNCHANGED <<direction, owner>> /\ direction[c] = "in"
        /\ line' = [line EXCEPT ![c] = Ended(line[c])]
    BY <1>4 DEF PeerCancels, Becomes, Notify, Event
  <2> HIDE DEF e
  <2>2. \A d \in Calls : line'[d] = IF d = c THEN Ended(line[c]) ELSE line[d]
    BY <1>2, <2>1
  <2>3. QED
    BY <1>1, <2>1, <2>2, SentModal
<1>5. ASSUME NEW c \in Calls, CallTimesOut(c) PROVE ModalInv'
  <2> DEFINE e == [type |-> "CallTimeout", call |-> c]
  <2>1. /\ e \in Event /\ e.type = "CallTimeout" /\ e.call = c /\ inbox' = Append(inbox, e)
        /\ UNCHANGED <<direction, owner>> /\ line' = [line EXCEPT ![c] = "givenUp"]
    BY <1>5 DEF CallTimesOut, Becomes, Notify, Event
  <2> HIDE DEF e
  <2>2. \A d \in Calls : line'[d] = IF d = c THEN "givenUp" ELSE line[d]
    BY <1>2, <2>1
  <2>3. QED
    BY <1>1, <2>1, <2>2, SentModal
<1>6. ASSUME NEW c \in Calls, OtherTabClaims(c) PROVE ModalInv'
  <2> DEFINE e == [type |-> "CallClaimed", call |-> c]
  <2>1. /\ e \in Event /\ e.type = "CallClaimed" /\ e.call = c /\ inbox' = Append(inbox, e)
        /\ UNCHANGED <<direction, line>> /\ direction[c] = "in" /\ owner' = [owner EXCEPT ![c] = "other"]
    BY <1>6 DEF OtherTabClaims, Notify, Event
  <2> HIDE DEF e
  <2>2. \A d \in Calls : owner'[d] = IF d = c THEN "other" ELSE owner[d]
    BY <1>2, <2>1
  <2>3. QED
    BY <1>1, <2>1, <2>2, SentModal
<1>7. ASSUME NEW c \in Calls, OtherTabRejects(c) PROVE ModalInv'
  <2>1. /\ UNCHANGED <<inbox, direction, owner>> /\ direction[c] = "in"
        /\ \A d \in Calls : line'[d] = IF d = c THEN "over" ELSE line[d]
    BY <1>2, <1>7 DEF OtherTabRejects, Becomes
  <2>2. /\ \A d, i : Rings(d, i)' <=> Rings(d, i)
        /\ \A d, i, types : Coming(types, d, i)' <=> Coming(types, d, i)
    BY <2>1 DEF Rings, Coming
  <2>3. \A d \in Calls, i \in 1 .. Len(inbox') : Rings(d, i)' => i \in 1 .. Len(inbox) /\ Rings(d, i)
    BY <2>1, <2>2
  <2>4. QED
    BY <1>1, <2>1, <2>2, <2>3, NewsModal
<1>8. ASSUME NEW c \in Calls, NEW accepted \in BOOLEAN, PeerResponds(c, accepted) PROVE ModalInv'
  <2> DEFINE type == IF accepted THEN "CallAccepted" ELSE "CallRejected"
             e == [type |-> type, call |-> c]
  <2>1. /\ e \in Event /\ e.type \in {"CallAccepted", "CallRejected"} /\ e.call = c /\ inbox' = Append(inbox, e)
        /\ UNCHANGED <<direction, owner>>
        /\ line' = [line EXCEPT ![c] = IF accepted THEN "answered" ELSE "over"]
    BY <1>8 DEF PeerResponds, Becomes, Notify, Event
  <2> HIDE DEF e
  <2>2. \A d \in Calls : (d # c => line'[d] = line[d]) /\ (d = c => line'[d] \in {"answered", "over"})
    BY <1>2, <2>1
  <2>3. QED
    BY <1>1, <2>1, <2>2, SentModal
<1>9. ASSUME NEW c \in Calls, PeerEnds(c) PROVE ModalInv'
  <2> DEFINE e == [type |-> "CallEnded", call |-> c]
  <2>1. /\ e \in Event /\ e.type = "CallEnded" /\ e.call = c /\ inbox' = Append(inbox, e)
        /\ UNCHANGED <<direction, owner>> /\ line[c] = "answered" /\ line' = [line EXCEPT ![c] = "over"]
    BY <1>9 DEF PeerEnds, Becomes, Notify, Event
  <2> HIDE DEF e
  <2>2. \A d \in Calls : line'[d] = IF d = c THEN "over" ELSE line[d]
    BY <1>2, <2>1
  <2>3. QED
    BY <1>1, <2>1, <2>2, SentModal
<1>10. ASSUME NEW c \in Calls, NEW type \in {"CallHeld", "CallResumed"}, PeerHolds(c, type) PROVE ModalInv'
  <2> DEFINE e == [type |-> type, call |-> c]
  <2>1. /\ e \in Event /\ e.type \in {"CallHeld", "CallResumed"} /\ inbox' = Append(inbox, e)
        /\ UNCHANGED <<direction, line, owner>>
    BY <1>10 DEF PeerHolds, Notify, Event
  <2> HIDE DEF e
  <2>2. e.type # "IncomingCall"
    BY <2>1
  <2>3. QED
    BY <1>1, <2>1, <2>2, SentModal
<1>11. ASSUME NEW c \in Calls, PeerInvites(c) PROVE ModalInv'
  BY <1>1, <1>11, InvitedModal
<1>12. QED
  BY <1>3, <1>4, <1>5, <1>6, <1>7, <1>8, <1>9, <1>10, <1>11 DEF OthersAct

LEMMA InitModal == Init => ModalInv
<1> SUFFICES ASSUME Init PROVE ModalInv
  OBVIOUS
<1>1. /\ ui = EmptyView /\ set = EmptyView /\ ops = {} /\ Len(inbox) = 0
      /\ \A c \in Calls : direction[c] = "none" /\ line[c] = "none" /\ owner[c] = "none"
  BY DEF Init
<1>2. /\ EmptyView.active.id = NoCall /\ EmptyView.incoming = NoCall /\ EmptyView.outgoing = NoCall
      /\ \A c \in Calls : EmptyView.sessions[c] = "absent"
  BY DEF EmptyView, NoSession
<1>3. ASSUME NEW c \in Calls PROVE RingsOnce(c) /\ Directed(c) /\ Told(c)
  <2>1. c # NoCall
    BY CallAssumption
  <2>2. ~Taken(c) /\ ~Rung(c) /\ ~Dialed(c)
    BY <1>1, <1>2, <2>1 DEF Taken, InSession, Rung, Dialed
  <2>3. \A i : i \notin 1 .. Len(inbox)
    BY <1>1
  <2>4. RingsOnce(c) /\ Directed(c)
    BY <1>1, <2>2, <2>3 DEF RingsOnce, Directed
  <2>5. Told(c)
    BY <1>1, <1>2, <2>1, <2>3 DEF Told
  <2>6. QED
    BY <2>4, <2>5
<1>4. set.outgoing # Dialing
  BY <1>1, <1>2, CallAssumption
<1>5. QED
  BY <1>1, <1>3, <1>4 DEF ModalInv

\* Every step keeps the invariant: calm ones, those that begin a call, what the
\* server serves and what the others do.
LEMMA NextModal == Inv /\ ModalInv /\ [Next]_vars => ModalInv'
<1> SUFFICES ASSUME Inv, ModalInv, [Next]_vars PROVE ModalInv'
  OBVIOUS
<1>1. CASE Render \/ UNCHANGED vars
  BY <1>1, RenderModal
<1>2. CASE UserActs
  BY <1>2, StartModal, AcceptModal, RejectModal, CancelModal, EndModal, HoldModal, ResumeModal,
     SwapModal DEF UserActs
<1>3. ASSUME NEW op \in ops, Serve(op) PROVE ModalInv'
  BY <1>3, ServeModal
<1>4. ASSUME NEW op \in ops, OpStep(op) PROVE ModalInv'
  BY <1>4, InviteModal, ClaimModal, AutoHoldModal, AcceptReturnsModal, OfferModal, RejectReturnsModal,
     BusyReturnsModal, CancelReturnsModal, EndReturnsModal, HoldReturnsModal, ResumeReturnsModal DEF OpStep
<1>5. CASE OthersAct
  BY <1>5, OthersModal
<1>6. CASE HandleEvent
  BY <1>6, IncomingModal, ClaimedModal, ResponseModal, CancelledModal, TimeoutModal, EndedModal,
     HeldModal DEF HandleEvent
<1>7. CASE \/ \E c \in Calls : LinkUp(c) \/ LinkWeakens(c) \/ LinkRecovers(c)
           \/ TimerFires \/ HangupFires
  BY <1>7, LinkModal
<1>8. QED
  BY <1>1, <1>2, <1>3, <1>4, <1>5, <1>6, <1>7 DEF Next

LEMMA ModalInvariance == Spec => [](Inv /\ ModalInv)
<1>1. Init => Inv /\ ModalInv
  BY InitInv, InitModal
<1>2. (Inv /\ ModalInv) /\ [Next]_vars => (Inv /\ ModalInv)'
  BY NextInv, NextModal
<1>3. QED
  BY <1>1, <1>2, PTL DEF Spec

\* Once nothing is on its way, the modals tell the truth: what a modal does not
\* know yet is in the inbox, or in an operation, and neither is left.
THEOREM ModalsTruthful == Spec => []ModalTruthful
<1>1. Inv /\ ModalInv => ModalTruthful
  <2> SUFFICES ASSUME Inv, ModalInv, Settled, ~stale
               PROVE  /\ ui.incoming # NoCall => line[ui.incoming] # "givenUp" /\ owner[ui.incoming] # "other"
                      /\ ui.outgoing # NoCall => line[ui.outgoing] \in {"ringing", "givenUp"}
    BY DEF ModalTruthful
  <2>1. ui = set /\ ops = {} /\ Len(inbox) = 0
    BY DEF Settled
  <2>2. ui.incoming \in Calls \cup {NoCall} /\ ui.outgoing \in Calls \cup {NoCall, Dialing}
    BY DEF Inv, TypeOK, View
  <2>3. \A types, c, i : ~Coming(types, c, i)
    BY <2>1 DEF Coming
  <2>4. \A c \in Calls : Told(c)
    BY DEF ModalInv
  <2>5. ui.outgoing # Dialing
    BY <2>1 DEF ModalInv
  <2>6. ui.incoming # NoCall => line[ui.incoming] # "givenUp" /\ owner[ui.incoming] # "other"
    BY <2>1, <2>2, <2>3, <2>4 DEF Told, GoneTold
  <2>7. ui.outgoing # NoCall => line[ui.outgoing] \in {"ringing", "givenUp"}
    BY <2>1, <2>2, <2>3, <2>4, <2>5 DEF Told, AnswerTold
  <2>8. QED
    BY <2>6, <2>7
<1>2. QED
  BY <1>1, ModalInvariance, PTL
=============================================================================
