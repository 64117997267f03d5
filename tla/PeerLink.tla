------------------------------ MODULE PeerLink ------------------------------
(***************************************************************************)
(* The WebRTC negotiation of an accepted 1:1 call: the signal relay of the *)
(* server (server/routes/calls.ts), the SignalingClient and the            *)
(* PeerConnectionManager of each tab (src/services/call), and the signal   *)
(* handlers of CallContext.tsx that join them.                             *)
(*                                                                         *)
(* A signal is a POST of its own, so two signals of one tab may reach the  *)
(* server in either order.  From there each goes to every open tab of the  *)
(* target user; all the time it is under way it is in posts.  A handler    *)
(* that awaits the camera or the RTCPeerConnection is a job with a step    *)
(* for every point where other events of the tab may come in between; what *)
(* it then POSTs, and the candidates gathered from then on, are in posts   *)
(* at once.                                                                *)
(*                                                                         *)
(* RTCPeerConnection is external: its signaling states, the implicit       *)
(* rollback of a local offer, the refusal of a description or a candidate  *)
(* that does not fit, as the W3C standard has them.  Left out: tracks,     *)
(* replaceVideoTrack (the offers of this code ask for video, so there is a *)
(* video sender and no renegotiation), hold, other calls of the pair.      *)
(***************************************************************************)
EXTENDS Naturals

CONSTANTS
    Caller,         \* the tab that placed the call
    CalleeTabs,     \* the tabs the called user may have open
    Candidates,     \* the ICE candidates a tab gathers for one description
    Prefixes,       \* what the first 30 characters of a signal's data may be
    PrefixOf,       \* those of a candidate: they end within its foundation
    MaxDrops,       \* bound: ICE disconnections
    NoTab           \* model value: nobody has accepted

Tabs == CalleeTabs \cup {Caller}

ASSUME TabsAssumption == Caller \notin CalleeTabs /\ NoTab \notin Tabs
ASSUME PrefixAssumption == PrefixOf \in [Candidates -> Prefixes]
ASSUME DropsAssumption == MaxDrops \in Nat

VARIABLES
    open,       \* the tabs of the called user that are open
    owner,      \* the tab that claimed the call
    posts,      \* signals POSTed, and not yet read by the tabs they are for
    seen,       \* processedMessageIds of each tab
    jobs,       \* handlers of each tab that are running
    session,    \* what each tab knows of the call: "none", "live", "over"
    media,      \* does localMediaController of the tab hold a stream?
    pc,         \* the PeerConnectionContext of the tab for the other user
    offers,     \* offers each tab made
    answers,    \* answers each tab made
    drops,      \* what the bound counts
    late        \* history: an offer was on its way, or made, when a side had left

tabVars == <<seen, jobs, session, media, pc, offers, answers>>
linkVars == <<open, owner, posts, tabVars, drops, late>>

(***************************************************************************)
(* Descriptions and signals.  An answer names the offer it is to.          *)
(***************************************************************************)
NoDesc == [by |-> NoTab, kind |-> "none", n |-> 0, to |-> 0]
Offer(t, n) == [by |-> t, kind |-> "offer", n |-> n, to |-> 0]
Answer(t, n, offer) == [by |-> t, kind |-> "answer", n |-> n, to |-> offer.n]

Signal(type, t, desc, c) == [type |-> type, by |-> t, desc |-> desc, cand |-> c]
NoCandidate == "none"

Audience(t) == IF t = Caller THEN open ELSE {Caller}
User(t) == IF t = Caller THEN "caller" ELSE "callee"

\* Mutant of Key: the type of the signal is left out.
KeyWithoutType(s) ==
    <<"signal", User(s.by), IF s.type = "ice-candidate" THEN PrefixOf[s.cand] ELSE "sdp">>

\* Mutant of Key: two tabs of one user are two senders.
KeyOfTab(s) ==
    <<s.type, s.by, IF s.type = "ice-candidate" THEN PrefixOf[s.cand] ELSE s.type>>

(* msgKey: the first 30 characters of the data of two offers, or of two    *)
(* answers, are the same: they end before the o= line of the SDP.          *)
Key(s) ==
    <<s.type, User(s.by), IF s.type = "ice-candidate" THEN PrefixOf[s.cand] ELSE s.type>>

(***************************************************************************)
(* One PeerConnectionContext, and RTCPeerConnection in it.                 *)
(***************************************************************************)
NoPc == [id |-> 0, state |-> "closed", local |-> NoDesc, remote |-> NoDesc,
         hasRemote |-> FALSE, queue |-> {}, applied |-> {},
         ice |-> "checking", timer |-> "none"]

NewPc(t) == [NoPc EXCEPT !.id = pc[t].id + 1, !.state = "stable"]
Closed(t) == [NoPc EXCEPT !.id = pc[t].id]
IsOpen(t) == pc[t].state # "closed"

(* addIceCandidate refuses a candidate of another description. *)
Fits(p, s) == s.desc = p.remote

(* setRemoteDescription, hasRemoteDescription = true, drain the queue. *)
WithRemote(p, state, desc) ==
    [p EXCEPT !.state = state, !.remote = desc, !.hasRemote = TRUE,
              !.queue = {}, !.applied = @ \cup {s \in p.queue : s.desc = desc},
              !.ice = IF @ = "connected" THEN @ ELSE "checking"]

(* setLocalDescription: onicecandidate fires from then on, and the handler *)
(* sends the description.                                                  *)
SetLocal(t, state, desc) ==
    /\ pc' = [pc EXCEPT ![t].state = state, ![t].local = desc]
    /\ posts' = posts \cup {Signal(desc.kind, t, desc, NoCandidate)}
                     \cup {Signal("ice-candidate", t, desc, c) : c \in Candidates}

Agreed(t) ==
    /\ pc[Caller].state = "stable" /\ pc[t].state = "stable"
    /\ pc[Caller].local # NoDesc /\ pc[Caller].remote # NoDesc
    /\ pc[Caller].local = pc[t].remote /\ pc[t].local = pc[Caller].remote

(***************************************************************************)
(* Jobs: kind, stage, the context they hold, and the signal they handle.   *)
(***************************************************************************)
Job(kind, stage, id, s) == [kind |-> kind, stage |-> stage, id |-> id, sig |-> s]
NoSignal == Signal("none", NoTab, NoDesc, NoCandidate)

Held(t, j) == IsOpen(t) /\ pc[t].id = j.id
Finish(t, j) == jobs' = [jobs EXCEPT ![t] = @ \ {j}]
Advance(t, j, k) == jobs' = [jobs EXCEPT ![t] = (@ \ {j}) \cup {k}]
Post(s) == posts' = posts \cup {s}

(* Will something that is under way now produce an offer, or deliver one? *)
Starts(s) == s.type \in {"accepted", "offer"}
OfferUnderWay ==
    \/ \E s \in posts : Starts(s)
    \/ \E t \in Tabs : jobs[t] # {}

LinkInit ==
    /\ open \in {o \in SUBSET CalleeTabs : o # {}}
    /\ owner = NoTab
    /\ posts = {}
    /\ seen = [t \in Tabs |-> {}]
    /\ jobs = [t \in Tabs |-> {}]
    /\ session = [t \in Tabs |-> IF t = Caller THEN "live" ELSE "none"]
    /\ media = [t \in Tabs |-> FALSE]
    /\ pc = [t \in Tabs |-> NoPc]
    /\ offers = [t \in Tabs |-> 0]
    /\ answers = [t \in Tabs |-> 0]
    /\ drops = 0
    /\ late = FALSE

(***************************************************************************)
(* acceptCall of the tab whose claim was granted (CallServer has the       *)
(* claim): camera, connection created in advance, positive response.       *)
(***************************************************************************)
Accept(t) ==
    /\ owner = NoTab /\ t \in open /\ session[Caller] = "live"
    /\ owner' = t
    /\ session' = [session EXCEPT ![t] = "live"]
    /\ media' = [media EXCEPT ![t] = TRUE]
    /\ pc' = [pc EXCEPT ![t] = NewPc(t)]
    /\ Post(Signal("accepted", t, NoDesc, NoCandidate))
    /\ UNCHANGED <<open, seen, jobs, offers, answers, drops, late>>

(***************************************************************************)
(* POST /signal, /response and /end (sendToUser), and what each tab that   *)
(* gets the event does with it.                                            *)
(***************************************************************************)
Arrives(s, type) == s.type = type /\ posts' = posts \ {s}

(* onCallResponse of the caller: createAndSendOffer, whatever has happened *)
(* since the call was placed.                                              *)
OnAccepted(s) ==
    /\ Arrives(s, "accepted")
    /\ jobs' = [jobs EXCEPT ![Caller] = @ \cup {Job("call", "media", 0, NoSignal)}]
    /\ UNCHANGED <<open, owner, seen, session, media, pc, offers, answers, drops, late>>

(* A WebRTCSignal whose key was processed is dropped. *)
Fresh(s) == {t \in Audience(s.by) : Key(s) \notin seen[t]}
Signalled(s, type) ==
    /\ Arrives(s, type)
    /\ seen' = [t \in Tabs |-> IF t \in Audience(s.by) THEN seen[t] \cup {Key(s)} ELSE seen[t]]
    /\ UNCHANGED <<open, owner, session, media, offers, answers, drops, late>>

(* An offer is handled by every tab that is open, in the call or not. *)
OnOffer(s) ==
    /\ Signalled(s, "offer")
    /\ jobs' = [t \in Tabs |-> IF t \in Fresh(s) THEN jobs[t] \cup {Job("answer", "media", 0, s)}
                               ELSE jobs[t]]
    /\ UNCHANGED pc

(* setRemoteDescription of an answer fails unless an offer is pending. *)
OnAnswer(s) ==
    /\ Signalled(s, "answer")
    /\ pc' = [t \in Tabs |-> IF t \in Fresh(s) /\ pc[t].state = "local-offer"
                             THEN WithRemote(pc[t], "stable", s.desc) ELSE pc[t]]
    /\ UNCHANGED jobs

\* Mutant of WithCandidate: a candidate that comes too early is refused.
WithCandidateNoQueue(p, s) ==
    IF p.state # "closed" /\ p.hasRemote /\ Fits(p, s)
    THEN [p EXCEPT !.applied = @ \cup {s}] ELSE p

(* handleRemoteIceCandidate: unknown peer, queue, or add. *)
WithCandidate(p, s) ==
    CASE p.state = "closed" -> p
      [] p.state # "closed" /\ ~p.hasRemote -> [p EXCEPT !.queue = @ \cup {s}]
      [] p.state # "closed" /\ p.hasRemote ->
           IF Fits(p, s) THEN [p EXCEPT !.applied = @ \cup {s}] ELSE p

OnCandidate(s) ==
    /\ Signalled(s, "ice-candidate")
    /\ pc' = [t \in Tabs |-> IF t \in Fresh(s) THEN WithCandidate(pc[t], s) ELSE pc[t]]
    /\ UNCHANGED jobs

\* Mutant of Teardown: the connections are closed, the camera stays on.
TeardownKeepsMedia(tabs) ==
    /\ pc' = [t \in Tabs |-> IF t \in tabs THEN Closed(t) ELSE pc[t]]
    /\ session' = [t \in Tabs |-> IF t \in tabs THEN "over" ELSE session[t]]
    /\ late' = (late \/ OfferUnderWay)
    /\ UNCHANGED media

(* closePeer / closeAll and releaseLocalMedia. *)
Teardown(tabs) ==
    /\ pc' = [t \in Tabs |-> IF t \in tabs THEN Closed(t) ELSE pc[t]]
    /\ media' = [t \in Tabs |-> media[t] /\ t \notin tabs]
    /\ session' = [t \in Tabs |-> IF t \in tabs THEN "over" ELSE session[t]]
    /\ late' = (late \/ OfferUnderWay)

OnEnded(s) ==
    /\ Arrives(s, "ended")
    /\ Teardown(Audience(s.by))
    /\ UNCHANGED <<open, owner, seen, jobs, offers, answers, drops>>

(* endCall: by the caller at any time, by the tab that has the call. *)
Hangup(t) ==
    /\ t \in {Caller, owner} /\ session[t] = "live" /\ owner # NoTab
    /\ Teardown({t})
    /\ Post(Signal("ended", t, NoDesc, NoCandidate))
    /\ UNCHANGED <<open, owner, seen, jobs, offers, answers, drops>>

(***************************************************************************)
(* Steps of the jobs.  A step on a context that was closed meanwhile       *)
(* throws, and the handler ends.                                           *)
(***************************************************************************)

(* getLocalMedia, getOrCreatePeerConnection. *)
AcquireMedia(t) ==
    \E j \in jobs[t] :
      /\ j.stage = "media"
      /\ media' = [media EXCEPT ![t] = TRUE]
      /\ pc' = IF IsOpen(t) THEN pc ELSE [pc EXCEPT ![t] = NewPc(t)]
      /\ Advance(t, j, [j EXCEPT !.id = pc'[t].id,
                                 !.stage = IF j.kind = "call" THEN "local" ELSE "remote"])
      /\ UNCHANGED <<open, owner, posts, seen, session, offers, answers, drops, late>>

JobUnchanged == UNCHANGED <<open, owner, seen, session, media, drops, late>>

(* createOffer, setLocalDescription, sendOffer: in a call and in restartIce. *)
SetLocalOffer(t) ==
    \E j \in jobs[t] :
      /\ j.kind # "answer" /\ j.stage = "local"
      /\ Finish(t, j)
      /\ IF Held(t, j) /\ pc[t].state \in {"stable", "local-offer"}
         THEN /\ offers' = [offers EXCEPT ![t] = @ + 1]
              /\ SetLocal(t, "local-offer", Offer(t, offers'[t]))
         ELSE UNCHANGED <<offers, pc, posts>>
      /\ UNCHANGED answers /\ JobUnchanged

(* setRemoteDescription of an offer; a local offer is rolled back. *)
SetRemoteOffer(t) ==
    \E j \in jobs[t] :
      /\ j.kind = "answer" /\ j.stage = "remote"
      /\ IF Held(t, j)
         THEN /\ pc' = [pc EXCEPT ![t] = WithRemote(@, "remote-offer", j.sig.desc)]
              /\ Advance(t, j, [j EXCEPT !.stage = "local"])
         ELSE Finish(t, j) /\ UNCHANGED pc
      /\ UNCHANGED <<posts, offers, answers>> /\ JobUnchanged

(* createAnswer, setLocalDescription, sendAnswer. *)
SetLocalAnswer(t) ==
    \E j \in jobs[t] :
      /\ j.kind = "answer" /\ j.stage = "local"
      /\ Finish(t, j)
      /\ IF Held(t, j) /\ pc[t].state = "remote-offer"
         THEN /\ answers' = [answers EXCEPT ![t] = @ + 1]
              /\ SetLocal(t, "stable", Answer(t, answers'[t], pc[t].remote))
         ELSE UNCHANGED <<answers, pc, posts>>
      /\ UNCHANGED offers /\ JobUnchanged

(***************************************************************************)
(* oniceconnectionstatechange and the restart timer.                       *)
(***************************************************************************)
IceSet(t, ice, timer) == pc' = [pc EXCEPT ![t].ice = ice, ![t].timer = timer]
Restart(t, kind) ==
    /\ jobs' = [jobs EXCEPT ![t] = @ \cup {Job(kind, "local", pc[t].id, NoSignal)}]
    /\ late' = (late \/ \E u \in Tabs : session[u] = "over")
IceUnchanged == UNCHANGED <<open, owner, posts, seen, session, media, offers, answers>>

Connect(t) ==
    /\ owner # NoTab /\ t \in {Caller, owner} /\ Agreed(owner)
    /\ \E u \in {Caller, owner} : pc[u].applied # {}
    /\ pc[t].ice \in {"checking", "disconnected"}
    /\ IceSet(t, "connected", "none")
    /\ UNCHANGED <<jobs, drops, late>> /\ IceUnchanged

IceDrop(t) ==
    /\ IsOpen(t) /\ pc[t].ice = "connected" /\ drops < MaxDrops
    /\ drops' = drops + 1
    /\ IceSet(t, "disconnected", IF pc[t].timer = "none" THEN "set" ELSE pc[t].timer)
    /\ UNCHANGED <<jobs, late>> /\ IceUnchanged

IceFail(t) ==
    /\ IsOpen(t) /\ pc[t].ice = "disconnected"
    /\ IceSet(t, "failed", pc[t].timer)
    /\ Restart(t, "restart")
    /\ UNCHANGED drops /\ IceUnchanged

RestartTimer(t) ==
    /\ IsOpen(t) /\ pc[t].timer = "set"
    /\ IceSet(t, pc[t].ice, "fired")
    /\ IF pc[t].ice \in {"disconnected", "failed"} THEN Restart(t, "timed restart")
       ELSE UNCHANGED <<jobs, late>>
    /\ UNCHANGED drops /\ IceUnchanged

Deliver(s) ==
    OnAccepted(s) \/ OnOffer(s) \/ OnAnswer(s) \/ OnCandidate(s) \/ OnEnded(s)

Work(t) ==
    AcquireMedia(t) \/ SetLocalOffer(t) \/ SetRemoteOffer(t) \/ SetLocalAnswer(t)

Network(t) == IceDrop(t) \/ IceFail(t)

LinkNext ==
    \/ \E s \in posts : Deliver(s)
    \/ \E t \in Tabs :
         \/ Accept(t) \/ Hangup(t)
         \/ Work(t) \/ Connect(t) \/ Network(t) \/ RestartTimer(t)

LinkSpec == LinkInit /\ [][LinkNext]_linkVars

-----------------------------------------------------------------------------
(***************************************************************************)
(* Properties.                                                             *)
(***************************************************************************)
Descs == [by : Tabs \cup {NoTab}, kind : {"none", "offer", "answer"}, n : Nat, to : Nat]
Signals == [type : {"none", "accepted", "offer", "answer", "ice-candidate", "ended"},
            by : Tabs \cup {NoTab}, desc : Descs, cand : Candidates \cup {NoCandidate}]
Keys == {"offer", "answer", "ice-candidate"} \X {"caller", "callee"} \X (Prefixes \cup {"offer", "answer"})
Jobs == [kind : {"call", "answer", "restart", "timed restart"}, stage : {"media", "local", "remote"},
         id : Nat, sig : Signals]
Contexts == [id : Nat, state : {"closed", "stable", "local-offer", "remote-offer"},
             local : Descs, remote : Descs, hasRemote : BOOLEAN,
             queue : SUBSET Signals, applied : SUBSET Signals,
             ice : {"checking", "connected", "disconnected", "failed"},
             timer : {"none", "set", "fired"}]

(* The values of the variables. *)
LinkTypeOK ==
    /\ open \subseteq CalleeTabs /\ owner \in CalleeTabs \cup {NoTab}
    /\ posts \subseteq Signals
    /\ seen \in [Tabs -> SUBSET Keys] /\ jobs \in [Tabs -> SUBSET Jobs]
    /\ session \in [Tabs -> {"none", "live", "over"}]
    /\ media \in [Tabs -> BOOLEAN]
    /\ pc \in [Tabs -> Contexts]
    /\ offers \in [Tabs -> Nat] /\ answers \in [Tabs -> Nat]
    /\ drops \in Nat /\ late \in BOOLEAN

AtRest ==
    /\ posts = {}
    /\ \A t \in Tabs : jobs[t] = {}

(* A side has made an offer that is not its first in the call: Key has it   *)
(* dropped by the other side.                                              *)
Exhausted == offers[Caller] > 1 \/ offers[owner] > 1

InCall == owner # NoTab /\ session[Caller] = "live" /\ session[owner] = "live"
Alone == open = {owner}

(* Once everything has been delivered, the two connections of a call in    *)
(* one tab have each other's descriptions, in spite of signals that        *)
(* overtake each other; also after the first ICE restart of the callee.    *)
NegotiationSettles ==
    AtRest /\ InCall /\ Alone /\ ~Exhausted => Agreed(owner)

(* Candidates that arrive before the remote description are not lost: when *)
(* the first negotiation is over, each side has applied a candidate of     *)
(* every prefix the other side gathered.                                   *)
CandidatesArrive ==
    AtRest /\ InCall /\ Alone /\ offers[Caller] = 1 /\ offers[owner] = 0
        => \A t \in {Caller, owner} :
             {PrefixOf[s.cand] : s \in pc[t].applied} = {PrefixOf[c] : c \in Candidates}

(* Each tab of the called user answers the offer, but the caller negotiates *)
(* with one of them: a second answer never replaces the first while the    *)
(* connection is open.                                                     *)
OneAnswer ==
    [][\A t \in Tabs : pc[t].remote.kind = "answer" /\ pc'[t].id = pc[t].id
                          /\ pc'[t].remote.kind = "answer" => pc'[t].remote = pc[t].remote]_linkVars

(* After a call neither side keeps a connection or the camera, unless an    *)
(* offer was still on its way when a side left.                            *)
NoMediaAfterEnd ==
    AtRest /\ ~late =>
        \A t \in Tabs : session[t] = "over" => ~IsOpen(t) /\ ~media[t]

-----------------------------------------------------------------------------
(***************************************************************************)
(* The inductive strengthening of the properties.                          *)
(***************************************************************************)

(* What the key of an offer, an answer or a candidate to tab t is.         *)
Other(t) == IF t = Caller THEN "callee" ELSE "caller"
KeyTo(t, type) == <<type, Other(t), type>>
IceKeyTo(t, p) == <<"ice-candidate", Other(t), p>>

(* Signals carry descriptions of their own type; so do those who answer.   *)
SignalInv ==
    /\ \A s \in posts : /\ s.by \in Tabs
                        /\ s.type \in {"offer", "answer"} => s.desc.kind = s.type
                        /\ s.type = "ice-candidate" => s.cand \in Candidates
    /\ \A t \in Tabs : \A j \in jobs[t] :
          j.kind = "answer" => j.sig.type = "offer" /\ j.sig.desc.kind = "offer"

(* A tab has a remote description when it says so; an answer is the remote *)
(* description of nobody who has not seen its key.                         *)
RemoteInv ==
    \A t \in Tabs :
        /\ pc[t].hasRemote <=> pc[t].remote.kind # "none"
        /\ pc[t].remote.kind = "answer" => KeyTo(t, "answer") \in seen[t]

(* Nothing happens before a tab accepts.                                   *)
BeforeInv ==
    owner = NoTab =>
        /\ posts = {} /\ offers = [t \in Tabs |-> 0] /\ answers = [t \in Tabs |-> 0]
        /\ \A t \in Tabs : /\ seen[t] = {} /\ jobs[t] = {} /\ pc[t] = NoPc /\ ~media[t]
                           /\ session[t] = IF t = Caller THEN "live" ELSE "none"

(* Whoever says that the call has ended has left it; unless something was  *)
(* under way then, nothing comes any more, and who has left has let go.    *)
EndInv ==
    /\ \A s \in posts : s.type = "ended" => s.by \in {Caller, owner} /\ session[s.by] = "over"
    /\ ~late /\ (\E t \in Tabs : session[t] = "over") =>
          /\ ~OfferUnderWay
          /\ \A t \in Tabs : session[t] = "over" => ~IsOpen(t) /\ ~media[t]

(* A tab that is not open knows nothing of the call.                       *)
AbsentInv == \A t \in CalleeTabs \ open : jobs[t] = {} /\ ~IsOpen(t)

(* The four descriptions of a call between the caller and tab o in which   *)
(* neither side offers twice, in the order in which they are made.         *)
FirstOffer == Offer(Caller, 1)
FirstAnswer(o) == Answer(o, 1, FirstOffer)
NextOffer(o) == Offer(o, 1)
NextAnswer(o) == Answer(Caller, 1, NextOffer(o))
Sent(desc) == Signal(desc.kind, desc.by, desc, NoCandidate)

(* The points of such a negotiation: how many of the descriptions are made *)
(* and how many received, what of them is under way, the handlers that run *)
(* at the caller and at o (ICE restarts are not counted), and the state,   *)
(* the local and the remote description of the connection at either end.   *)
Point(made, heard, sent, calling, answering, here, there) ==
    [made |-> made, heard |-> heard, sent |-> sent,
     calling |-> calling, answering |-> answering, here |-> here, there |-> there]

Shut == <<"closed", NoDesc, NoDesc>>
Bare == <<"stable", NoDesc, NoDesc>>
Offering == <<"local-offer", FirstOffer, NoDesc>>
Joined(o) == <<"stable", FirstOffer, FirstAnswer(o)>>
Answers(o) == <<"stable", FirstAnswer(o), FirstOffer>>
Reoffering(o) == <<"local-offer", NextOffer(o), FirstOffer>>
Reanswers(o) == <<"stable", NextAnswer(o), NextOffer(o)>>

Accepted(o) == Point(0, 0, {Signal("accepted", o, NoDesc, NoCandidate)}, {}, {}, Shut, Bare)
CallMedia(o) == Point(0, 0, {}, {Job("call", "media", 0, NoSignal)}, {}, Shut, Bare)
CallLocal(o) == Point(0, 0, {}, {Job("call", "local", 1, NoSignal)}, {}, Bare, Bare)
Offered(o) == Point(1, 0, {Sent(FirstOffer)}, {}, {}, Offering, Bare)
AnswerMedia(o) == Point(1, 1, {}, {}, {Job("answer", "media", 0, Sent(FirstOffer))}, Offering, Bare)
AnswerRemote(o) == Point(1, 1, {}, {}, {Job("answer", "remote", 1, Sent(FirstOffer))}, Offering, Bare)
AnswerLocal(o) == Point(1, 1, {}, {}, {Job("answer", "local", 1, Sent(FirstOffer))}, Offering,
                        <<"remote-offer", NoDesc, FirstOffer>>)
Answered(o) == Point(2, 1, {Sent(FirstAnswer(o))}, {}, {}, Offering, Answers(o))
Connected(o) == Point(2, 2, {}, {}, {}, Joined(o), Answers(o))

Reoffered(o) == Point(3, 2, {Sent(NextOffer(o))}, {}, {}, Joined(o), Reoffering(o))
ReanswerMedia(o) ==
    Point(3, 3, {}, {Job("answer", "media", 0, Sent(NextOffer(o)))}, {}, Joined(o), Reoffering(o))
ReanswerRemote(o) ==
    Point(3, 3, {}, {Job("answer", "remote", 1, Sent(NextOffer(o)))}, {}, Joined(o), Reoffering(o))
ReanswerLocal(o) ==
    Point(3, 3, {}, {Job("answer", "local", 1, Sent(NextOffer(o)))}, {},
          <<"remote-offer", FirstOffer, NextOffer(o)>>, Reoffering(o))
Reanswered(o) == Point(4, 3, {Sent(NextAnswer(o))}, {}, {}, Reanswers(o), Reoffering(o))
Reconnected(o) == Point(4, 4, {}, {}, {}, Reanswers(o), <<"stable", NextOffer(o), NextAnswer(o)>>)

Points(o) ==
    {Accepted(o), CallMedia(o), CallLocal(o), Offered(o), AnswerMedia(o), AnswerRemote(o),
     AnswerLocal(o), Answered(o), Connected(o), Reoffered(o), ReanswerMedia(o),
     ReanswerRemote(o), ReanswerLocal(o), Reanswered(o), Reconnected(o)}

(* What the variables are at a point.                                      *)
Made(o, n) ==
    /\ offers[Caller] = (IF n >= 1 THEN 1 ELSE 0) /\ answers[o] = (IF n >= 2 THEN 1 ELSE 0)
    /\ offers[o] = (IF n >= 3 THEN 1 ELSE 0) /\ answers[Caller] = (IF n >= 4 THEN 1 ELSE 0)
Unheard(o, n) ==
    /\ n < 1 => KeyTo(o, "offer") \notin seen[o]
    /\ n < 2 => KeyTo(Caller, "answer") \notin seen[Caller]
    /\ n < 3 => KeyTo(Caller, "offer") \notin seen[Caller]
    /\ n < 4 => KeyTo(o, "answer") \notin seen[o]
Link(t) == <<pc[t].state, pc[t].local, pc[t].remote>>
Tasks(t) == {j \in jobs[t] : j.kind \in {"call", "answer"}}
Control == {s \in posts : s.type # "ice-candidate"}
Undisturbed(t) == pc[t].ice = "checking" /\ pc[t].timer = "none" /\ jobs[t] = Tasks(t)

(* Until the first answer is received, no connection has been up.          *)
Stands(o, p) ==
    /\ Made(o, p.made) /\ Unheard(o, p.heard)
    /\ Control = p.sent /\ Tasks(Caller) = p.calling /\ Tasks(o) = p.answering
    /\ Link(Caller) = p.here /\ Link(o) = p.there
    /\ p.heard < 2 => Undisturbed(Caller) /\ Undisturbed(o)
    /\ pc[o].id = 1 /\ IF p.here = Shut THEN pc[Caller] = NoPc ELSE pc[Caller].id = 1

(* A call in one tab stands at one of the points of its negotiation, until *)
(* a second offer of one side is dropped.                                  *)
StageInv == InCall /\ Alone /\ ~Exhausted => \E p \in Points(owner) : Stands(owner, p)

(* The candidates of a description are under way or were received; of those *)
(* that a tab received it has kept one with each prefix.                   *)
Gathered(desc) == {Signal("ice-candidate", desc.by, desc, c) : c \in Candidates}
Kept(t) == IF pc[t].hasRemote THEN pc[t].applied ELSE pc[t].queue
Follows(t, desc, made) ==
    /\ \A s \in posts : s.type = "ice-candidate" /\ t \in Audience(s.by) => made /\ s \in Gathered(desc)
    /\ pc[t].queue \cup pc[t].applied \subseteq Gathered(desc)
    /\ pc[t].hasRemote => pc[t].remote = desc
    /\ made => \A c \in Candidates : \/ Signal("ice-candidate", desc.by, desc, c) \in posts
                                     \/ IceKeyTo(t, PrefixOf[c]) \in seen[t]
    /\ \A p \in Prefixes : IceKeyTo(t, p) \in seen[t] => \E s \in Kept(t) : PrefixOf[s.cand] = p

(* In the first negotiation each tab follows the candidates of the other.  *)
CandidateInv ==
    InCall /\ Alone /\ ~Exhausted /\ offers[owner] = 0 =>
        /\ Follows(owner, FirstOffer, offers[Caller] = 1)
        /\ Follows(Caller, FirstAnswer(owner), answers[owner] = 1)

LinkInv ==
    /\ LinkTypeOK /\ SignalInv /\ RemoteInv /\ BeforeInv /\ AbsentInv /\ EndInv
    /\ StageInv /\ CandidateInv

=============================================================================
