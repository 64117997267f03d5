------------------------------- MODULE CallTab -------------------------------
(***************************************************************************)
(* The 1:1 calls of ONE browser tab (src/context/CallContext.tsx), with    *)
(* the server and the other parties as its environment.                    *)
(*                                                                         *)
(* A handler of the tab never reads what it, or another one, has just set: *)
(* it reads refs that follow the state when React renders (lines 183-203). *)
(* ui is what was rendered last, and what every handler reads; set is what *)
(* the setters have been called with since, which Render makes visible.    *)
(* Between a setter and Render other handlers may run.                     *)
(*                                                                         *)
(* A handler that awaits is a record in ops: its step names what it awaits.*)
(* Its request is served by the server and answered later, or lost.        *)
(* Each call has a party of its own.  Left out: group calls, joinCall (a   *)
(* link to a meeting), the mute flags and everything that is only shown.   *)
(***************************************************************************)
EXTENDS Naturals, Sequences, FiniteSets

CONSTANTS
    Calls,         \* identities of calls
    NoCall,        \* the id of a call that is not there
    Dialing,       \* outgoingCall while the invite has no answer: no callId yet
    MaxActs        \* bound: what the user, the other parties, the server and the network do

ASSUME CallAssumption ==
    IsFiniteSet(Calls) /\ NoCall \notin Calls /\ Dialing \notin Calls /\ NoCall # Dialing
ASSUME BoundAssumption == MaxActs \in Nat

VARIABLES
    ui,           \* the state as rendered: what the refs hold
    set,          \* the state as set: what the next rendering will show
    ops,          \* asynchronous handlers in flight
    timers,       \* pending setTimeout(() => transitionCallState('idle'))
    hangup,       \* pending setTimeout of endCall; it is isTerminatingRef as well
    links,        \* peer connections
    inbox,        \* events on the way to this tab, in order
    direction,    \* whose call it is
    line,         \* what server and other party make of a call
    owner,        \* which tab of this user claimed an incoming call
    acts,         \* what the bound counts
    stale         \* history: a handler ran before a rendering it needed, or gave up

tab == <<ui, set, ops, timers, hangup, links, stale>>
far == <<inbox, direction, line, owner>>
vars == <<tab, far, acts>>

-----------------------------------------------------------------------------
(* Data *)

Shown == INSTANCE CallDisplay
            WITH state <- ui.state, holding <- \E c \in Calls : ui.sessions[c] = "held"
CallState == Shown!CallState
ValidTransitions == Shown!ValidTransitions

\* A CallSession, of which only the id and the state matter.  Without an
\* activeSession its state is "idle": the code treats the two alike.
Session == [id : Calls \cup {NoCall}, state : CallState]
NoSession == [id |-> NoCall, state |-> "idle"]

View == [state : CallState, active : Session, sessions : [Calls -> CallState \cup {"absent"}],
         incoming : Calls \cup {NoCall}, outgoing : Calls \cup {NoCall, Dialing},
         room : BOOLEAN]   \* roomId: the call window appears with it
EmptyView == [state |-> "idle", active |-> NoSession, sessions |-> [c \in Calls |-> "absent"],
              incoming |-> NoCall, outgoing |-> NoCall, room |-> FALSE]

Op == [kind : {"start", "accept", "reject", "busy", "offer", "cancel", "end", "hold", "resume", "swap"},
       step : {"invite", "claim", "hold", "media", "respond", "cancel", "end", "resume"},
       call : Calls \cup {NoCall},    \* the call it is about
       other : Calls \cup {NoCall},   \* the active call it captured
       served : {"no", "done", "refused"}]
NewOp(kind, step, c, other) ==
    [kind |-> kind, step |-> step, call |-> c, other |-> other, served |-> "no"]

Event == [type : {"IncomingCall", "CallClaimed", "CallAccepted", "CallRejected", "CallCancelled",
                  "CallTimeout", "CallEnded", "CallHeld", "CallResumed"},
          call : Calls \cup {NoCall}]

TypeOK ==
    /\ ui \in View /\ set \in View
    /\ ops \in SUBSET Op
    /\ timers \in Nat /\ hangup \in BOOLEAN
    /\ links \in [Calls -> {"none", "open", "up", "weak"}]
    /\ inbox \in Seq(Event)
    /\ direction \in [Calls -> {"none", "out", "in"}]
    /\ line \in [Calls -> {"none", "ringing", "givenUp", "answered", "over"}]
    /\ owner \in [Calls -> {"none", "mine", "other"}]
    /\ acts \in Nat
    /\ stale \in BOOLEAN

Init ==
    /\ ui = EmptyView /\ set = EmptyView
    /\ ops = {} /\ timers = 0 /\ hangup = FALSE
    /\ links = [c \in Calls |-> "none"]
    /\ inbox = <<>>
    /\ direction = [c \in Calls |-> "none"]
    /\ line = [c \in Calls |-> "none"]
    /\ owner = [c \in Calls |-> "none"]
    /\ acts = 0
    /\ stale = FALSE

-----------------------------------------------------------------------------
(* Setting state *)

\* Mutant of Transition: checked against what was set, not what was rendered.
TransitionFromSet(v, target) ==
    IF target \notin ValidTransitions[v.state] THEN v
    ELSE IF ui.active.id = NoCall THEN [v EXCEPT !.state = target]
    ELSE [v EXCEPT !.state = target,
                   !.active = [ui.active EXCEPT !.state = target],
                   !.sessions[ui.active.id] = target]

\* transitionCallState: checked against the state rendered last; it also
\* writes a copy of the activeSession rendered last, whatever was set since.
Transition(v, target) ==
    IF target \notin ValidTransitions[ui.state] THEN v
    ELSE IF ui.active.id = NoCall THEN [v EXCEPT !.state = target]
    ELSE [v EXCEPT !.state = target,
                   !.active = [ui.active EXCEPT !.state = target],
                   !.sessions[ui.active.id] = target]

\* A handler that sets v; it is stale if React owes a rendering.
SetsFrom(v, current) == set' = v /\ stale' = (stale \/ set # ui \/ ~current) /\ UNCHANGED ui
Sets(v) == SetsFrom(v, TRUE)

Render == set # ui /\ ui' = set /\ UNCHANGED <<set, ops, timers, hangup, links, stale, far, acts>>

Present(c) == ui.sessions[c] # "absent"
Held == {c \in Calls : ui.sessions[c] = "held"}
\* Mutant of Remaining: a session on hold does not count.
RemainingUnheld(c) == {d \in Calls \ {c} : ui.sessions[d] \in {"active", "connecting"}}

\* The sessions that are neither c nor ended.
Remaining(c) == {d \in Calls \ {c} : Present(d) /\ ui.sessions[d] # "ended"}

\* closeAll, and the setters that follow it in endCall and in CallEnded.
TornDown(v) ==
    Transition([v EXCEPT !.active = NoSession, !.incoming = NoCall, !.outgoing = NoCall], "ended")
AllClosed == [c \in Calls |-> "none"]

\* setCallState('held'), past the table.
FallenBack(v) == [v EXCEPT !.active = NoSession, !.state = "held"]

OnHold(v, c) ==
    LET w == [v EXCEPT !.sessions[c] = "held"] IN
    IF ui.active.id = c THEN Transition([w EXCEPT !.active = [id |-> c, state |-> "held"]], "held")
    ELSE w

-----------------------------------------------------------------------------
(* What the user does *)

Act == acts < MaxActs /\ acts' = acts + 1
Begin(op) == ops' = ops \cup {op}

\* An id the server has not given to a call yet; which one does not matter.
Fresh(c) == direction[c] = "none" /\ c = CHOOSE d \in Calls : direction[d] = "none"

\* startCall; the modals cover the buttons that start a call.
StartCall(c) ==
    /\ Act /\ Fresh(c)
    /\ ui.outgoing = NoCall
    /\ ui.incoming = NoCall \/ ui.state \in {"active", "held"}
    /\ Sets([Transition(set, "initiating") EXCEPT !.outgoing = Dialing])
    /\ Begin(NewOp("start", "invite", c, NoCall))
    /\ direction' = [direction EXCEPT ![c] = "out"]
    /\ UNCHANGED <<timers, hangup, links, inbox, line, owner>>

AcceptCall ==
    /\ Act /\ ui.incoming # NoCall
    /\ Sets(set) /\ Begin(NewOp("accept", "claim", ui.incoming, NoCall))
    /\ UNCHANGED <<timers, hangup, links, far>>

RejectCall ==
    /\ Act /\ ui.incoming # NoCall
    /\ Sets([set EXCEPT !.incoming = NoCall])
    /\ Begin(NewOp("reject", "respond", ui.incoming, NoCall))
    /\ UNCHANGED <<timers, hangup, links, far>>

\* While the invite has no answer the request names no call.
CancelOutgoingCall ==
    /\ Act /\ ui.outgoing # NoCall
    /\ Sets(Transition([set EXCEPT !.outgoing = NoCall], "ended"))
    /\ Begin(NewOp("cancel", "cancel", IF ui.outgoing = Dialing THEN NoCall ELSE ui.outgoing, NoCall))
    /\ UNCHANGED <<timers, hangup, links, far>>

\* The buttons of the call window.
InWindow == ui.state # "idle" /\ ui.room

\* The full teardown of endCall; another one that still runs makes it give up.
TearDown(v) ==
    IF hangup THEN SetsFrom(v, FALSE) /\ UNCHANGED <<links, hangup>>
    ELSE Sets([TornDown(v) EXCEPT !.room = FALSE]) /\ links' = AllClosed /\ hangup' = TRUE

EndCall(c) ==
    /\ Act /\ InWindow
    /\ c = ui.active.id \/ c \in Held
    /\ IF c # NoCall
       THEN /\ Sets(set) /\ Begin(NewOp("end", "end", c, ui.active.id))
            /\ links' = [links EXCEPT ![c] = "none"] /\ UNCHANGED hangup
       ELSE /\ IF Held # {} THEN Sets(FallenBack(set)) /\ UNCHANGED <<links, hangup>>
               ELSE TearDown(set)
            /\ UNCHANGED ops
    /\ UNCHANGED <<timers, far>>

HoldCall ==
    /\ Act /\ InWindow /\ ui.state # "held" /\ ui.active.id # NoCall
    /\ Sets(set) /\ Begin(NewOp("hold", "hold", NoCall, ui.active.id))
    /\ UNCHANGED <<timers, hangup, links, far>>

\* resumeCall, up to its first await: it holds the active call first.
Resuming(c) ==
    IF ui.active.id \notin {c, NoCall} /\ ui.active.state \in {"active", "connecting"}
    THEN NewOp("resume", "hold", c, ui.active.id)
    ELSE NewOp("resume", "resume", c, NoCall)

ResumeCall(c) ==
    /\ Act /\ InWindow /\ Present(c)
    /\ c \in Held \/ (ui.state = "held" /\ c = ui.active.id)
    /\ Sets(set) /\ Begin(Resuming(c))
    /\ UNCHANGED <<timers, hangup, links, far>>

SwapCalls(c) ==
    /\ Act /\ InWindow /\ ui.active.id # NoCall /\ c \in Held \ {ui.active.id}
    /\ Sets(set) /\ Begin(NewOp("swap", "hold", c, ui.active.id))
    /\ UNCHANGED <<timers, hangup, links, far>>

UserActs ==
    \/ \E c \in Calls : StartCall(c) \/ ResumeCall(c) \/ SwapCalls(c)
    \/ \E c \in Calls \cup {NoCall} : EndCall(c)
    \/ AcceptCall \/ RejectCall \/ CancelOutgoingCall \/ HoldCall

-----------------------------------------------------------------------------
(* The server, as far as this tab can tell (server/routes/calls.ts) *)

\* A call that is ended, once or again: an accept that is on its way still
\* revives it.
Ended(l) == IF l \in {"ringing", "givenUp"} THEN "givenUp" ELSE "over"

Serve(op) ==
    /\ op \in ops /\ op.served = "no" /\ op.step \in {"invite", "claim", "respond", "cancel", "end"}
    /\ LET c == op.call
           refused == op.step \in {"claim", "respond"} /\ op.kind = "accept" /\ owner[c] = "other"
           is(step) == op.step = step /\ ~refused
       IN  /\ ops' = (ops \ {op}) \cup {[op EXCEPT !.served = IF refused THEN "refused" ELSE "done"]}
           /\ line' =
                IF c = NoCall THEN line
                ELSE [line EXCEPT ![c] =
                        CASE is("invite") -> "ringing"
                          [] is("respond") -> IF op.kind = "accept" THEN "answered" ELSE "over"
                          [] is("cancel") \/ is("end") -> Ended(@)
                          [] OTHER -> @]
           /\ owner' =
                IF c = NoCall THEN owner
                ELSE [owner EXCEPT ![c] =
                        CASE is("claim") \/ (is("respond") /\ op.kind = "accept") -> "mine"
                          [] is("end") -> "none"
                          [] OTHER -> @]
    /\ UNCHANGED <<ui, set, timers, hangup, links, stale, inbox, direction, acts>>

Notify(type, c) == inbox' = Append(inbox, [type |-> type, call |-> c])
Becomes(c, l) == line' = [line EXCEPT ![c] = l]

\* The party of an incoming call, or the timer of the server.
PeerInvites(c) ==
    /\ Fresh(c) /\ direction' = [direction EXCEPT ![c] = "in"]
    /\ Becomes(c, "ringing") /\ Notify("IncomingCall", c)
    /\ UNCHANGED owner
PeerCancels(c) ==
    /\ direction[c] = "in" /\ line[c] \in {"ringing", "answered"} /\ links[c] # "up"
    /\ Becomes(c, Ended(line[c])) /\ Notify("CallCancelled", c)
    /\ UNCHANGED <<direction, owner>>
\* A caller who cancels while its invite has no answer names no call.
PeerCancelsDialing ==
    /\ Notify("CallCancelled", NoCall) /\ UNCHANGED <<direction, line, owner>>
CallTimesOut(c) ==
    /\ line[c] = "ringing" /\ owner[c] = "none"
    /\ Becomes(c, "givenUp") /\ Notify("CallTimeout", c)
    /\ UNCHANGED <<direction, owner>>

\* Another tab of this user; its refusal is told to the caller only.
OtherTabClaims(c) ==
    /\ direction[c] = "in" /\ line[c] = "ringing" /\ owner[c] = "none"
    /\ owner' = [owner EXCEPT ![c] = "other"] /\ Notify("CallClaimed", c)
    /\ UNCHANGED <<direction, line>>
OtherTabRejects(c) ==
    /\ direction[c] = "in" /\ line[c] = "ringing"
    /\ Becomes(c, "over") /\ UNCHANGED <<inbox, direction, owner>>

\* The party of an outgoing call; its answer may cross a cancellation.
PeerResponds(c, accepted) ==
    /\ direction[c] = "out" /\ line[c] \in {"ringing", "givenUp"}
    /\ Becomes(c, IF accepted THEN "answered" ELSE "over")
    /\ Notify(IF accepted THEN "CallAccepted" ELSE "CallRejected", c)
    /\ UNCHANGED <<direction, owner>>

\* The party of a call that was answered.
PeerEnds(c) ==
    /\ line[c] = "answered" /\ Becomes(c, "over") /\ Notify("CallEnded", c)
    /\ UNCHANGED <<direction, owner>>
PeerHolds(c, type) ==
    /\ line[c] = "answered" /\ Notify(type, c) /\ UNCHANGED <<direction, line, owner>>

OthersAct ==
    /\ Act
    /\ \/ PeerCancelsDialing
       \/ \E c \in Calls :
            \/ PeerInvites(c) \/ PeerCancels(c) \/ CallTimesOut(c)
            \/ OtherTabClaims(c) \/ OtherTabRejects(c)
            \/ \E accepted \in BOOLEAN : PeerResponds(c, accepted)
            \/ PeerEnds(c) \/ \E type \in {"CallHeld", "CallResumed"} : PeerHolds(c, type)
    /\ UNCHANGED tab

-----------------------------------------------------------------------------
(* What the tab does with events *)

Receive(type, c) ==
    /\ inbox # <<>> /\ Head(inbox) = [type |-> type, call |-> c] /\ inbox' = Tail(inbox)
    /\ UNCHANGED <<hangup, direction, line, owner, acts>>

\* transitionCallState(target), followed by idle after a delay.
Later == timers' = timers + 1

OnIncomingCall(c) ==
    /\ Receive("IncomingCall", c)
    /\ IF (IF ui.active.state = "active" THEN 1 ELSE 0) + Cardinality(Held) >= 2
       THEN Sets(set) /\ Begin(NewOp("busy", "respond", c, NoCall))
       ELSE LET v == [set EXCEPT !.incoming = c] IN
            /\ Sets(IF ui.active.state = "idle" THEN Transition(v, "ringing_incoming") ELSE v)
            /\ UNCHANGED ops
    /\ UNCHANGED <<timers, links>>

\* From ringing_incoming the table does not lead to idle.
OnCallClaimed(c) ==
    /\ Receive("CallClaimed", c)
    /\ Sets(IF ui.incoming = c THEN Transition([set EXCEPT !.incoming = NoCall], "idle") ELSE set)
    /\ UNCHANGED <<ops, timers, links>>

\* No invite of this tab is without its answer: outgoingCall has its callId.
Named == \A op \in ops : op.kind # "start"

\* Which call the answer is for is not asked.
OnCallResponse(c) ==
    \/ /\ Receive("CallRejected", c)
       /\ SetsFrom(Transition([set EXCEPT !.outgoing = NoCall], "ended"), Named) /\ Later
       /\ UNCHANGED <<ops, links>>
    \/ /\ Receive("CallAccepted", c)
       /\ LET v == Transition([set EXCEPT !.outgoing = NoCall], "connecting") IN
          SetsFrom(IF v.sessions[c] = "absent" THEN v ELSE [v EXCEPT !.sessions[c] = "connecting"], Named)
       /\ Begin(NewOp("offer", "media", c, NoCall))
       /\ UNCHANGED <<timers, links>>

OnCallCancelled(c) ==
    /\ Receive("CallCancelled", c)
    /\ IF ui.incoming # NoCall /\ c \in {NoCall, ui.incoming}
       THEN Sets(Transition([set EXCEPT !.incoming = NoCall], "ended")) /\ Later
       ELSE Sets(set) /\ UNCHANGED timers
    /\ UNCHANGED <<ops, links>>

\* Mutant of OnCallTimeout: the callee's modal is not dismissed.
OnCallTimeoutKeepsModal(c) ==
    /\ Receive("CallTimeout", c)
    /\ IF ui.outgoing = c
       THEN Sets(Transition([set EXCEPT !.outgoing = NoCall], "ended")) /\ Later
       ELSE Sets(set) /\ UNCHANGED timers
    /\ UNCHANGED <<ops, links>>

\* From ringing_incoming the table does not lead to idle.
OnCallTimeout(c) ==
    /\ Receive("CallTimeout", c)
    /\ IF ui.outgoing = c
       THEN Sets(Transition([set EXCEPT !.outgoing = NoCall], "ended")) /\ Later
       ELSE /\ SetsFrom(IF ui.incoming = c THEN Transition([set EXCEPT !.incoming = NoCall], "idle")
                        ELSE set, Named)
            /\ UNCHANGED timers
    /\ UNCHANGED <<ops, links>>

\* A call the tab does not know closes the connection of the active one.
OnCallEnded(c) ==
    /\ Receive("CallEnded", c)
    /\ LET v == [set EXCEPT !.sessions[c] = "absent"]
           closed == IF Present(c) THEN c ELSE ui.active.id
           other == IF closed = NoCall THEN links ELSE [links EXCEPT ![closed] = "none"]
       IN  IF ui.active.id = c /\ Held \ {c} # {}
           THEN Sets(FallenBack(v)) /\ links' = other /\ UNCHANGED timers
           ELSE IF Remaining(c) = {} THEN Sets(TornDown(v)) /\ links' = AllClosed /\ Later
           ELSE Sets(v) /\ links' = other /\ UNCHANGED timers
    /\ UNCHANGED ops

OnCallHeld(c) ==
    /\ \/ Receive("CallHeld", c)
          /\ Sets(IF set.sessions[c] = "absent" THEN set ELSE [set EXCEPT !.sessions[c] = "held"])
       \/ Receive("CallResumed", c)
          /\ Sets(IF set.sessions[c] = "absent" THEN set ELSE [set EXCEPT !.sessions[c] = "active"])
    /\ UNCHANGED <<ops, timers, links>>

HandleEvent ==
    \/ OnCallCancelled(NoCall)
    \/ \E c \in Calls :
        \/ OnIncomingCall(c) \/ OnCallClaimed(c) \/ OnCallResponse(c) \/ OnCallCancelled(c)
        \/ OnCallTimeout(c) \/ OnCallEnded(c) \/ OnCallHeld(c)

-----------------------------------------------------------------------------
(* What the tab does when an await is over *)

\* The request was answered; or it failed, at the server or on the way.
Answered(op) == op \in ops /\ op.served = "done" /\ UNCHANGED <<far, acts>>
Fails(op) == op \in ops /\ Act /\ UNCHANGED far
Refused(op) == op \in ops /\ op.served = "refused" /\ UNCHANGED <<far, acts>>
Over(op) == Answered(op) \/ Fails(op)
\* Awaits of the browser, and of requests whose effect elsewhere is nothing to this tab.
Succeeds(op) == op \in ops /\ UNCHANGED <<far, acts>>

Finish(op) == ops' = ops \ {op}
Continue(op, next) == ops' = (ops \ {op}) \cup {next}

\* startCall.  The last transition writes back the session rendered last.
InviteReturns(op) ==
    /\ op.kind = "start" /\ Finish(op)
    /\ \/ /\ Answered(op)
          /\ LET s == [id |-> op.call, state |-> "ringing_outgoing"] IN
             Sets(Transition([set EXCEPT !.active = s, !.sessions[op.call] = "ringing_outgoing",
                                         !.outgoing = op.call, !.room = TRUE], "ringing_outgoing"))
          /\ UNCHANGED timers
       \/ /\ Fails(op)
          /\ Sets(Transition([set EXCEPT !.outgoing = NoCall], "failed")) /\ Later
    /\ UNCHANGED <<hangup, links>>

\* acceptCall, once the call is ours (or the claim has failed) and the active
\* call, if any, is on hold.
Accepting(op, v) ==
    /\ Sets([Transition([v EXCEPT !.incoming = NoCall], "connecting") EXCEPT !.room = TRUE])
    /\ Continue(op, NewOp("accept", "media", op.call, NoCall))

ClaimReturns(op) ==
    /\ op.kind = "accept" /\ op.step = "claim"
    /\ \/ /\ Over(op)
          /\ IF ui.active.state \in {"active", "connecting"}
             THEN Sets(set) /\ Continue(op, NewOp("accept", "hold", op.call, ui.active.id))
             ELSE Accepting(op, set)
       \/ /\ Refused(op) /\ Finish(op)
          /\ LET v == [set EXCEPT !.incoming = NoCall] IN
             Sets(IF ui.active.state = "idle" THEN Transition(v, "idle") ELSE v)
    /\ UNCHANGED <<timers, hangup, links>>

AutoHoldReturns(op) ==
    /\ op.kind = "accept" /\ op.step = "hold" /\ Succeeds(op)
    /\ Accepting(op, [set EXCEPT !.sessions[op.other] = "held"])
    /\ UNCHANGED <<timers, hangup, links>>

AcceptReturns(op) ==
    /\ op.kind = "accept" /\ UNCHANGED hangup
    /\ \/ /\ op.step = "media" /\ Succeeds(op)
          /\ Sets([set EXCEPT !.active = [id |-> op.call, state |-> "connecting"],
                              !.sessions[op.call] = "connecting"])
          /\ links' = [links EXCEPT ![op.call] = IF @ = "none" THEN "open" ELSE @]
          /\ Continue(op, NewOp("accept", "respond", op.call, NoCall))
          /\ UNCHANGED timers
       \/ /\ op.step = "respond" /\ Answered(op)
          /\ Sets(set) /\ Finish(op) /\ UNCHANGED <<timers, links>>
       \/ /\ op.step \in {"media", "respond"} /\ (Fails(op) \/ Refused(op))
          /\ Sets(Transition(set, "failed")) /\ Later /\ Finish(op)
          /\ UNCHANGED links

\* The offer of the caller; a failure is not followed by idle.
OfferReturns(op) ==
    /\ op.kind = "offer" /\ Finish(op)
    /\ \/ /\ Succeeds(op) /\ Sets(set)
          /\ links' = [links EXCEPT ![op.call] = IF @ = "none" THEN "open" ELSE @]
       \/ /\ Fails(op) /\ Sets(Transition(set, "failed")) /\ UNCHANGED links
    /\ UNCHANGED <<timers, hangup>>

RejectReturns(op) ==
    /\ op.kind = "reject" /\ Over(op) /\ Finish(op)
    /\ IF ui.active.state = "idle" /\ \A c \in Calls : ui.sessions[c] \notin {"active", "held"}
       THEN Sets(Transition(set, "ended")) /\ Later
       ELSE Sets(set) /\ UNCHANGED timers
    /\ UNCHANGED <<hangup, links>>

BusyReturns(op) ==
    /\ op.kind = "busy" /\ Over(op) /\ Finish(op)
    /\ UNCHANGED <<ui, set, stale, timers, hangup, links>>

\* Mutant of CancelReturns: the transition to idle is forgotten.
CancelReturnsForGood(op) ==
    /\ op.kind = "cancel" /\ Over(op) /\ Finish(op)
    /\ Sets(set) /\ UNCHANGED timers
    /\ UNCHANGED <<hangup, links>>

CancelReturns(op) ==
    /\ op.kind = "cancel" /\ Over(op) /\ Finish(op)
    /\ Sets(set) /\ Later
    /\ UNCHANGED <<hangup, links>>

EndCallReturns(op) ==
    /\ op.kind = "end" /\ Over(op) /\ Finish(op)
    /\ LET v == [set EXCEPT !.sessions[op.call] = "absent"]
           left == Remaining(op.call)
       IN  IF left # {} /\ op.other # op.call THEN Sets(v) /\ UNCHANGED <<links, hangup>>
           ELSE IF left \cap Held # {} THEN Sets(FallenBack(v)) /\ UNCHANGED <<links, hangup>>
           ELSE TearDown(v)
    /\ UNCHANGED timers

\* holdCall, alone or as the first await of resumeCall and swapCalls.
HoldReturns(op) ==
    /\ op.kind \in {"hold", "resume", "swap"} /\ op.step = "hold" /\ Succeeds(op)
    /\ Sets(OnHold(set, op.other))
    /\ CASE op.kind = "hold" -> Finish(op)
         [] op.kind = "resume" -> Continue(op, NewOp("resume", "resume", op.call, NoCall))
         [] op.kind = "swap" -> IF Present(op.call) THEN Continue(op, Resuming(op.call)) ELSE Finish(op)
    /\ UNCHANGED <<timers, hangup, links>>

ResumeReturns(op) ==
    /\ op.kind = "resume" /\ op.step = "resume" /\ Succeeds(op) /\ Finish(op)
    /\ Sets(Transition([set EXCEPT !.sessions[op.call] = "active",
                                   !.active = [id |-> op.call, state |-> "active"],
                                   !.room = TRUE], "active"))
    /\ UNCHANGED <<timers, hangup, links>>

OpStep(op) ==
    \/ InviteReturns(op) \/ ClaimReturns(op) \/ AutoHoldReturns(op) \/ AcceptReturns(op)
    \/ OfferReturns(op) \/ RejectReturns(op) \/ BusyReturns(op) \/ CancelReturns(op)
    \/ EndCallReturns(op) \/ HoldReturns(op) \/ ResumeReturns(op)

-----------------------------------------------------------------------------
(* Connections and timers *)

\* onConnectionStateCallback: the state of any connection moves the one state.
LinkChanges(c, from, to, target) ==
    /\ links[c] = from /\ links' = [links EXCEPT ![c] = to]
    /\ Sets(Transition(set, target))
    /\ UNCHANGED <<ops, timers, hangup, far, acts>>

LinkUp(c) == line[c] = "answered" /\ LinkChanges(c, "open", "up", "active")
LinkWeakens(c) ==
    /\ Act
    /\ links[c] = "up" /\ links' = [links EXCEPT ![c] = "weak"]
    /\ Sets(Transition(set, "reconnecting"))
    /\ UNCHANGED <<ops, timers, hangup, far>>
LinkRecovers(c) == LinkChanges(c, "weak", "up", "active")

\* A delay is half a second or more: whatever was set has been rendered.
TimerFires ==
    /\ set = ui /\ timers > 0 /\ timers' = timers - 1
    /\ Sets(Transition(set, "idle"))
    /\ UNCHANGED <<ops, hangup, links, far, acts>>
HangupFires ==
    /\ set = ui /\ hangup /\ hangup' = FALSE
    /\ Sets(Transition(set, "idle"))
    /\ UNCHANGED <<ops, timers, links, far, acts>>

\* Nothing is in flight, on its way or due.
Settled == ops = {} /\ inbox = <<>> /\ set = ui /\ timers = 0 /\ ~hangup

-----------------------------------------------------------------------------
Next ==
    \/ Render
    \/ UserActs
    \/ \E op \in ops : Serve(op) \/ OpStep(op)
    \/ OthersAct
    \/ HandleEvent
    \/ \E c \in Calls : LinkUp(c) \/ LinkWeakens(c) \/ LinkRecovers(c)
    \/ TimerFires \/ HangupFires

Spec == Init /\ [][Next]_vars

-----------------------------------------------------------------------------
(* Properties *)

\* What is displayed moves along VALID_STATE_TRANSITIONS, or falls back to
\* "held" when a held call is left: although each transition is checked
\* against the state rendered last, several of them between two renderings
\* never add up to a move outside the table.
DisplayLegal == Shown!Spec

\* A tab that shows an ended call has a delayed transition to idle pending, or
\* a cancellation in flight that will ask for one: the user is never left
\* with the window of a call that is over.
EndedHasExit ==
    set.state = "ended" => timers > 0 \/ hangup \/ \E op \in ops : op.kind = "cancel"

\* When nothing is on its way, the incoming-call modal does not ring for a call
\* that was cancelled, timed out or was claimed by another tab, and the
\* outgoing one does not wait for a call that was answered or refused -- as
\* long as no handler ran on refs that were out of date.
ModalTruthful ==
    (Settled /\ ~stale) =>
        /\ ui.incoming # NoCall => line[ui.incoming] # "givenUp" /\ owner[ui.incoming] # "other"
        /\ ui.outgoing # NoCall => line[ui.outgoing] \in {"ringing", "givenUp"}

\* The end of one call does not take the connection of a held one with it: it
\* closes when that very call is ended, here or by its party ("Supports
\* individual call termination", CallContext.tsx:1140) -- or when the end of a
\* call comes that the tab no longer has, while the held call is the active one
\* (CallContext.tsx:469 falls back to the active session).
HeldKept ==
    [][\A c \in Calls :
        (links[c] # "none" /\ ui.sessions[c] = "held" /\ links'[c] = "none") =>
            \/ \E op \in ops \cup ops' : op.kind = "end" /\ op.call = c
            \/ \E d \in Calls :
                 /\ inbox # <<>> /\ inbox' = Tail(inbox) /\ Head(inbox) = [type |-> "CallEnded", call |-> d]
                 /\ d = c \/ (~Present(d) /\ ui.active.id = c)]_vars

-----------------------------------------------------------------------------
(* The inductive strengthening of the properties that are proved *)

\* What was set is one move away from what is on display.
OneMove(state) ==
    \/ state = ui.state
    \/ state \in ValidTransitions[ui.state]
    \/ state = "held" /\ Held # {}

Inv == TypeOK /\ EndedHasExit /\ OneMove(set.state)

-----------------------------------------------------------------------------
(* The inductive strengthening of ModalTruthful *)

\* The call has a session, or an operation will give it one or is about it.
InSession(v, c) == v.active.id = c \/ v.sessions[c] # "absent"
TakenBy(op, c) ==
    \/ op.other = c
    \/ op.call = c /\ op.kind \in {"start", "end", "resume", "swap"}
    \/ op.call = c /\ op.kind = "accept" /\ op.step \in {"media", "respond"}
Taken(c) == InSession(ui, c) \/ InSession(set, c) \/ \E op \in ops : TakenBy(op, c)

\* The modal of the call was shown, or its user acted on it.
Rung(c) ==
    \/ c \in {ui.incoming, set.incoming}
    \/ \E op \in ops : op.kind \in {"accept", "reject", "busy"} /\ op.call = c
Dialed(c) ==
    \/ c \in {ui.outgoing, set.outgoing}
    \/ \E op \in ops : op.kind \in {"start", "cancel"} /\ op.call = c

\* An event about the call is on its way, after the first i.
Coming(types, c, i) == \E j \in 1 .. Len(inbox) : j > i /\ inbox[j].call = c /\ inbox[j].type \in types
Rings(c, i) == inbox[i] = [type |-> "IncomingCall", call |-> c]

\* A call rings once, and is then taken, rung or gone.
RingsOnce(c) ==
    /\ \A i, j \in 1 .. Len(inbox) : Rings(c, i) /\ Rings(c, j) => i = j
    /\ Taken(c) \/ Rung(c) => \A i \in 1 .. Len(inbox) : ~Rings(c, i)
    /\ Taken(c) => set.incoming # c
Directed(c) ==
    /\ Taken(c) => direction[c] # "none"
    /\ owner[c] = "other" => direction[c] # "none"
    /\ Rung(c) \/ (\E i \in 1 .. Len(inbox) : Rings(c, i)) => direction[c] = "in"
    /\ Dialed(c) => direction[c] = "out"

\* That a call is given up, claimed elsewhere or answered is known to the tab or
\* on its way to it.
GoneTold(c, i) ==
    /\ line[c] = "givenUp" => Coming({"CallCancelled", "CallTimeout"}, c, i)
    /\ owner[c] = "other" => Coming({"CallClaimed"}, c, i)
AnswerTold(c) == line[c] \in {"ringing", "givenUp"} \/ Coming({"CallAccepted", "CallRejected"}, c, 0)
Told(c) ==
    /\ set.incoming = c => GoneTold(c, 0)
    /\ \A i \in 1 .. Len(inbox) : Rings(c, i) => GoneTold(c, i)
    /\ set.outgoing = c => AnswerTold(c)
    /\ \A op \in ops : op.kind = "start" /\ op.call = c /\ op.served = "done" => AnswerTold(c)

\* Which request an operation of a kind waits for.
Shaped(op) ==
    /\ op.step = "invite" <=> op.kind = "start"
    /\ op.step = "claim" => op.kind = "accept"
    /\ op.step = "respond" => op.kind \in {"accept", "reject", "busy"}
    /\ op.step = "cancel" => op.kind = "cancel"
    /\ op.step = "end" => op.kind = "end"

ModalInv ==
    /\ \A op \in ops : Shaped(op)
    /\ \A c \in Calls : RingsOnce(c) /\ Directed(c) /\ (~stale => Told(c))
    /\ ~stale /\ set.outgoing = Dialing => \E op \in ops : op.kind = "start"
=============================================================================
