------------------------------ MODULE Realtime ------------------------------
(***************************************************************************)
(* The event streams of ONE user: the RealtimeHub of the server            *)
(* (server/realtime.ts, the stream and group endpoints of server.ts), the  *)
(* connection of each device (src/services/signalr.ts), the effects of     *)
(* AppContext.tsx that start it, and the list of messages of ChatArea.tsx. *)
(*                                                                         *)
(* A stream is an EventSource: the request may reach the server after the  *)
(* device has given it up, the server learns of a lost stream later than   *)
(* the device, and what was written to it and not read is gone.  Joining   *)
(* and leaving groups and loading a list are requests of their own, served *)
(* and answered in any order; groups are left by the id of the user, on    *)
(* every stream of the user.                                               *)
(*                                                                         *)
(* Left out: typing (the client listens to other event names than the hub  *)
(* sends), edits and reactions, direct conversations (groups like those of *)
(* channels), statuses the user chooses, private channels.                 *)
(***************************************************************************)
EXTENDS Naturals, Sequences, FiniteSets

CONSTANTS
    Devices,     \* tabs and browsers of the user
    Tenants,     \* organizations the user can switch between
    Channels,    \* public channels
    Home,        \* the organization the user belongs to at first
    FirstTenant, \* the organization of the first workspace, which every stream joins
    TenantOf,    \* the organization of a channel
    Messages,    \* messages that may be posted, one channel each
    ChannelOf,   \* the channel of a message
    MaxActs,     \* bound: sign-ins, switches, changes of view, sign-outs, faults
    MaxUnderWay, \* bound: requests under way when the user or a fault acts
    None         \* model value: no tenant, no channel

ASSUME TenantAssumption == TenantOf \in [Channels -> Tenants] /\ None \notin Tenants \cup Channels /\ {Home, FirstTenant} \subseteq Tenants
ASSUME MessageAssumption == ChannelOf \in [Messages -> Channels]
ASSUME ActsAssumption == MaxActs \in Nat /\ MaxUnderWay \in Nat

VARIABLES
    clients,    \* hub.clients
    tracked,    \* hub.userDeviceConnections of the user: ids of streams
    presence,   \* user.status
    home,       \* user.tenantId
    store,      \* messages that are in the store
    posted,     \* messages posted so far
    requests,   \* requests under way: streams, groups, lists
    feed,       \* what was written to the stream of each device and is not yet read
    source,     \* eventSource of each device: the id of its stream, 0 for none
    timer,      \* reconnectTimer of each device: the tenant it will start with
    ident,      \* currentTenant of each device; None when signed out
    view,       \* currentChannel of each device
    list,       \* messages of ChatArea of each device
    streams,    \* streams opened so far; they are numbered
    loads,      \* lists each device has asked for
    shown,      \* history: the number of the list each device shows
    gap,        \* history: the device missed an event of the channel it shows
    stale,      \* history: a device switched tenants while its timer was set
    clash,      \* history: a device returned to a channel before its leave was
                \*          served, or left one another device was looking at
    greeted,    \* history: signed in since a stream was last registered or lost
    acts        \* what the bound counts

hubVars == <<clients, tracked, presence, home>>
storeVars == <<store, posted>>
deviceVars == <<source, timer, ident, view, list, loads, shown>>
pastVars == <<gap, stale, clash, greeted>>
vars == <<hubVars, storeVars, requests, feed, deviceVars, streams, pastVars, acts>>

\* Mutant of Client: the groups are left to the join requests.
ClientBare(id, t) == [id |-> id, tenant |-> t, groups |-> {}]

Client(id, t) == [id |-> id, tenant |-> t, groups |-> {c \in Channels : TenantOf[c] = t}]
StreamOf(d) == {c \in clients : c.id = source[d]}
Receives(d, c) == \E s \in StreamOf(d) : c \in s.groups
Act == acts < MaxActs /\ Cardinality(requests) <= MaxUnderWay /\ acts' = acts + 1

StreamRequest(id, t) == [kind |-> "stream", id |-> id, tenant |-> t]
GroupRequest(op, c, n) == [kind |-> op, channel |-> c, n |-> n]
ListRequest(d, n, c) == [kind |-> "load", device |-> d, n |-> n, channel |-> c]
ListAnswer(r) == [kind |-> "list", device |-> r.device, n |-> r.n,
                  messages |-> {m \in store : ChannelOf[m] = r.channel}]

(* The payload of a deletion names the message in a field of its own. *)
Created(m) == [event |-> "MessageCreated", id |-> m]
Deleted(m) == [event |-> "MessageDeleted", messageId |-> m]

Init ==
    /\ clients = {} /\ tracked = {} /\ presence = "Offline" /\ home = Home
    /\ store = {} /\ posted = {} /\ requests = {} /\ feed = [d \in Devices |-> <<>>]
    /\ source = [d \in Devices |-> 0] /\ timer = [d \in Devices |-> None]
    /\ ident = [d \in Devices |-> None] /\ view = [d \in Devices |-> None]
    /\ list = [d \in Devices |-> {}]
    /\ streams = 0 /\ loads = [d \in Devices |-> 0] /\ shown = [d \in Devices |-> 0]
    /\ gap = [d \in Devices |-> FALSE] /\ stale = FALSE /\ clash = FALSE /\ greeted = FALSE
    /\ acts = 0

(***************************************************************************)
(* The server.                                                             *)
(***************************************************************************)

(* RealtimeHub.register: every channel of the tenant is subscribed to. *)
Register(r) ==
    /\ r.kind = "stream" /\ requests' = requests \ {r}
    /\ clients' = clients \cup {Client(r.id, r.tenant)}
    /\ tracked' = tracked \cup {r.id}
    /\ presence' = IF tracked = {} THEN "Online" ELSE presence
    /\ greeted' = FALSE
    /\ UNCHANGED <<home, storeVars, feed, deviceVars, streams, gap, stale, clash, acts>>

\* Mutant of Unregister: closing one stream forgets all of the user.
UnregisterUser(c) ==
    /\ \A d \in Devices : source[d] # c.id
    /\ clients' = clients \ {c} /\ tracked' = {} /\ presence' = "Offline" /\ greeted' = FALSE
    /\ UNCHANGED <<home, storeVars, requests, feed, deviceVars, streams, gap, stale, clash, acts>>

(* RealtimeHub.unregister, on close or on a write that fails. *)
Unregister(c) ==
    /\ \A d \in Devices : source[d] # c.id
    /\ clients' = clients \ {c}
    /\ tracked' = tracked \ {c.id}
    /\ presence' = IF tracked' = {} THEN "Offline" ELSE presence
    /\ greeted' = (greeted /\ tracked' # {})
    /\ UNCHANGED <<home, storeVars, requests, feed, deviceVars, streams, gap, stale, clash, acts>>

(* POST /groups/join and /groups/leave with the id of the user. *)
ServeGroup(r) ==
    /\ r.kind \in {"join", "leave"} /\ requests' = requests \ {r}
    /\ clients' = {[c EXCEPT !.groups = IF r.kind = "join" THEN @ \cup {r.channel} ELSE @ \ {r.channel}]
                     : c \in clients}
    /\ UNCHANGED <<tracked, presence, home, storeVars, feed, deviceVars, streams, pastVars, acts>>

(* GET /messages *)
ServeList(r) ==
    /\ r.kind = "load" /\ requests' = (requests \ {r}) \cup {ListAnswer(r)}
    /\ UNCHANGED <<hubVars, storeVars, feed, deviceVars, streams, pastVars, acts>>

(* broadcastToGroup, as far as the streams the devices hold. *)
Broadcast(to, e) == feed' = [d \in Devices |-> IF d \in to THEN Append(feed[d], e) ELSE feed[d]]

(* The devices whose stream is in the group of the channel, and those in   *)
(* the group of its workspace: a stream names none, so that all of them    *)
(* are in the group of the first.                                          *)
InGroup(c) == {d \in Devices : Receives(d, c)}
InWorkspace(c) == {d \in Devices : StreamOf(d) # {} /\ TenantOf[c] = FirstTenant}

(* Does the device, which shows c, miss an event that is sent to others?    *)
(* It is not in the list the device has asked for last, or has earlier     *)
(* ones to read after that list; and either the device is not sent it or   *)
(* that list may come after it and overwrite it.                           *)
Misses(d, c, to) ==
    /\ view[d] = c
    /\ ListRequest(d, loads[d], c) \notin requests \/ feed[d] # <<>>
    /\ d \notin to \/ \E r \in requests : r.kind = "list" /\ r.device = d

(* Another user posts: the channel and the workspace are told. *)
Post(m) ==
    LET c == ChannelOf[m]
        to == InGroup(c) \cup InWorkspace(c)
    IN /\ m \notin posted /\ posted' = posted \cup {m} /\ store' = store \cup {m}
       /\ Broadcast(to, Created(m)) /\ gap' = [d \in Devices |-> gap[d] \/ Misses(d, c, to)]
       /\ UNCHANGED <<hubVars, requests, deviceVars, streams, stale, clash, greeted, acts>>

(* Another user deletes: the channel is told. *)
Delete(m) ==
    LET c == ChannelOf[m]
    IN /\ m \in store /\ store' = store \ {m} /\ UNCHANGED posted
       /\ Broadcast(InGroup(c), Deleted(m))
       /\ gap' = [d \in Devices |-> gap[d] \/ Misses(d, c, InGroup(c))]
       /\ UNCHANGED <<hubVars, requests, deviceVars, streams, stale, clash, greeted, acts>>

(***************************************************************************)
(* A device.                                                               *)
(***************************************************************************)

(* SignalRConnection.start: the previous EventSource is closed, the timer  *)
(* is not.  more: other requests the same handler sends.                   *)
Start(d, t, more) ==
    /\ streams' = streams + 1
    /\ source' = [source EXCEPT ![d] = streams + 1]
    /\ feed' = [feed EXCEPT ![d] = <<>>]
    /\ requests' = requests \cup {StreamRequest(streams + 1, t)} \cup more

(* login, and the effect of AppContext that follows. *)
SignIn(d) ==
    /\ Act /\ ident[d] = None
    /\ ident' = [ident EXCEPT ![d] = home]
    /\ Start(d, home, {})
    /\ presence' = "Online" /\ greeted' = (greeted \/ tracked = {})
    /\ UNCHANGED <<clients, tracked, home, storeVars, timer, view, list, loads, shown, gap, stale, clash>>

(* A device moves to channel c while a leave of c is under way, or away    *)
(* from a channel another device looks at.                                 *)
NoteClash(d, c) ==
    clash' = \/ clash
             \/ \E r \in requests : r.kind = "leave" /\ r.channel = c
             \/ \E e \in Devices \ {d} : view[e] # None /\ view[e] = view[d]

Leaving(d) == IF view[d] = None THEN {} ELSE {GroupRequest("leave", view[d], acts)}

(* selectChannel: the effects of ChatArea load the list, leave the old     *)
(* group and join the new one; the effect of AppContext restarts the       *)
(* stream.                                                                 *)
View(d, c) ==
    /\ Act /\ ident[d] # None /\ view[d] # c /\ TenantOf[c] = ident[d]
    /\ view' = [view EXCEPT ![d] = c]
    /\ loads' = [loads EXCEPT ![d] = @ + 1]
    /\ Start(d, ident[d], Leaving(d) \cup {GroupRequest("join", c, acts),
                                           ListRequest(d, loads[d] + 1, c)})
    /\ NoteClash(d, c) /\ gap' = [gap EXCEPT ![d] = FALSE]
    /\ UNCHANGED <<hubVars, storeVars, timer, ident, list, shown, stale, greeted>>

(* switchTenant, after POST /organizations/:id/switch: no channel is open afterwards, and ChatArea is unmounted. *)
Switch(d, t) ==
    /\ Act /\ ident[d] \notin {None, t}
    /\ home' = t /\ ident' = [ident EXCEPT ![d] = t]
    /\ view' = [view EXCEPT ![d] = None] /\ list' = [list EXCEPT ![d] = {}]
    /\ Start(d, t, Leaving(d))
    /\ stale' = (stale \/ timer[d] # None) /\ NoteClash(d, None)
    /\ UNCHANGED <<clients, tracked, presence, storeVars, timer, loads, shown, gap, greeted>>

\* Mutant of SignOut: stop leaves the timer.
SignOutTimerKept(d) ==
    /\ Act /\ ident[d] # None
    /\ ident' = [ident EXCEPT ![d] = None] /\ view' = [view EXCEPT ![d] = None]
    /\ list' = [list EXCEPT ![d] = {}]
    /\ source' = [source EXCEPT ![d] = 0] /\ feed' = [feed EXCEPT ![d] = <<>>]
    /\ requests' = requests \cup Leaving(d) /\ NoteClash(d, None)
    /\ UNCHANGED <<hubVars, storeVars, timer, loads, shown, streams, gap, stale, greeted>>

(* logout: signalR.stop *)
SignOut(d) ==
    /\ Act /\ ident[d] # None
    /\ ident' = [ident EXCEPT ![d] = None] /\ view' = [view EXCEPT ![d] = None]
    /\ list' = [list EXCEPT ![d] = {}]
    /\ source' = [source EXCEPT ![d] = 0] /\ timer' = [timer EXCEPT ![d] = None]
    /\ feed' = [feed EXCEPT ![d] = <<>>]
    /\ requests' = requests \cup Leaving(d) /\ NoteClash(d, None)
    /\ UNCHANGED <<hubVars, storeVars, loads, shown, streams, gap, stale, greeted>>

(* The tenant of the stream of the device, in the closure of its handlers. *)
Started(d) == {t \in Tenants : \/ StreamRequest(source[d], t) \in requests
                               \/ \E s \in StreamOf(d) : s.tenant = t}

(* onerror: the stream is closed and, unless the timer is set, will be     *)
(* started again with the arguments it was started with.                   *)
Break(d) ==
    /\ Act /\ source[d] # 0
    /\ \E t \in Started(d) : timer' = [timer EXCEPT ![d] = IF @ = None THEN t ELSE @]
    /\ source' = [source EXCEPT ![d] = 0] /\ feed' = [feed EXCEPT ![d] = <<>>]
    /\ gap' = [gap EXCEPT ![d] = @ \/ feed[d] # <<>>]
    /\ UNCHANGED <<hubVars, storeVars, requests, ident, view, list, loads, shown, streams,
                   stale, clash, greeted>>

(* Three seconds later. *)
Reconnect(d) ==
    /\ timer[d] # None
    /\ timer' = [timer EXCEPT ![d] = None]
    /\ Start(d, timer[d], {})
    /\ gap' = [gap EXCEPT ![d] = @ \/ feed[d] # <<>>]
    /\ UNCHANGED <<hubVars, storeVars, ident, view, list, loads, shown, stale, clash, greeted, acts>>

(* A stream the device has given up may never reach the server. *)
Abandon(r) ==
    /\ r.kind = "stream" /\ \A d \in Devices : source[d] # r.id
    /\ requests' = requests \ {r}
    /\ UNCHANGED <<hubVars, storeVars, feed, deviceVars, streams, pastVars, acts>>

\* Mutant of After: the event of any channel is shown.
AfterAny(d, e) ==
    IF e.event = "MessageCreated" THEN list[d] \cup {e.id} ELSE list[d]

(* handleMsgCreated adds what belongs to the channel in view;              *)
(* handleMsgDeleted removes the message whose id is the id of the payload. *)
After(d, e) ==
    CASE e.event = "MessageCreated" ->
           IF ChannelOf[e.id] = view[d] THEN list[d] \cup {e.id} ELSE list[d]
      [] e.event = "MessageDeleted" -> {m \in list[d] : ~("id" \in DOMAIN e /\ e.id = m)}

Receive(d) ==
    /\ feed[d] # <<>>
    /\ feed' = [feed EXCEPT ![d] = Tail(@)]
    /\ list' = [list EXCEPT ![d] = After(d, Head(feed[d]))]
    /\ UNCHANGED <<hubVars, storeVars, requests, source, timer, ident, view, loads, shown, streams,
                   pastVars, acts>>

(* loadMessages: whatever is answered replaces the list. *)
ReceiveList(r) ==
    /\ r.kind = "list" /\ requests' = requests \ {r}
    /\ IF view[r.device] # None
       THEN /\ list' = [list EXCEPT ![r.device] = r.messages]
            /\ shown' = [shown EXCEPT ![r.device] = r.n]
       ELSE UNCHANGED <<list, shown>>
    /\ UNCHANGED <<hubVars, storeVars, feed, source, timer, ident, view, loads, streams, pastVars, acts>>

Serve(r) == Register(r) \/ ServeGroup(r) \/ ServeList(r) \/ ReceiveList(r)

Next ==
    \/ \E r \in requests : Serve(r) \/ Abandon(r)
    \/ \E c \in clients : Unregister(c)
    \/ \E m \in Messages : Post(m) \/ Delete(m)
    \/ \E d \in Devices :
         \/ SignIn(d)
         \/ \E t \in Tenants : Switch(d, t)
         \/ \E c \in Channels : View(d, c)
         \/ SignOut(d) \/ Break(d) \/ Reconnect(d) \/ Receive(d)

Spec == Init /\ [][Next]_vars

(***************************************************************************)
(* Properties.                                                             *)
(***************************************************************************)

Requests ==
    [kind : {"stream"}, id : Nat, tenant : Tenants]
      \cup [kind : {"join", "leave"}, channel : Channels, n : Nat]
      \cup [kind : {"load"}, device : Devices, n : Nat, channel : Channels]
      \cup [kind : {"list"}, device : Devices, n : Nat, messages : SUBSET Messages]

(* Every variable has its type. *)
TypeOK ==
    /\ clients \subseteq [id : Nat, tenant : Tenants, groups : SUBSET Channels]
    /\ tracked \subseteq Nat /\ presence \in {"Online", "Offline"} /\ home \in Tenants
    /\ store \subseteq posted /\ posted \subseteq Messages /\ requests \subseteq Requests
    /\ feed \in [Devices -> Seq({Created(m) : m \in Messages} \cup {Deleted(m) : m \in Messages})]
    /\ source \in [Devices -> Nat] /\ timer \in [Devices -> Tenants \cup {None}]
    /\ ident \in [Devices -> Tenants \cup {None}] /\ view \in [Devices -> Channels \cup {None}]
    /\ list \in [Devices -> SUBSET Messages]
    /\ streams \in Nat /\ loads \in [Devices -> Nat] /\ shown \in [Devices -> Nat]
    /\ gap \in [Devices -> BOOLEAN] /\ stale \in BOOLEAN /\ clash \in BOOLEAN /\ greeted \in BOOLEAN
    /\ acts \in Nat

(* However registering a new stream and losing an old one interleave, the  *)
(* tracker of the hub knows exactly the streams of the user, and the user  *)
(* is Online while there is one and Offline when the last is gone (but for *)
(* a sign-in, which puts the user Online before its stream).               *)
PresenceAgrees ==
    /\ tracked = {c.id : c \in clients}
    /\ tracked # {} => presence = "Online"
    /\ tracked = {} /\ ~greeted => presence = "Offline"

(* The channel a device looks at reaches it: its stream has the group, in  *)
(* whatever order the stream, the join and the leave of the previous       *)
(* channel are served.  Excluded are the two cases in which a leave by the *)
(* id of the user hits the stream of a view, and the stream of another     *)
(* organization.                                                           *)
ViewFed ==
    \A d \in Devices :
      view[d] # None /\ ~clash /\ ~stale => \A s \in StreamOf(d) : view[d] \in s.groups

(* What a device shows once it has read all that was sent to it is of the  *)
(* channel in view and includes all that the store holds of it, unless an  *)
(* event was missed or the list of another channel came last.            *)
Settled(d) ==
    /\ view[d] # None /\ feed[d] = <<>> /\ shown[d] = loads[d]
    /\ \A r \in requests : r.kind \in {"load", "list"} => r.device # d
ListComplete ==
    \A d \in Devices : Settled(d) /\ ~gap[d] =>
      /\ {m \in store : ChannelOf[m] = view[d]} \subseteq list[d]
      /\ \A m \in list[d] : ChannelOf[m] = view[d]

(* What docs/realtime.md:14 says of the event MessageDeleted: a device that *)
(* has been told of everything shows no deleted message.                   *)
DeletedLeavesView == \A d \in Devices : Settled(d) /\ ~gap[d] => list[d] \subseteq store

(* A device that is signed in is never cut off for good: it holds a stream *)
(* of its organization, registered or on its way, or its timer will start  *)
(* one -- unless a switch met a timer that was set.  A device that is      *)
(* signed out holds no stream and no timer that would open one.            *)
NeverCutOff ==
    \A d \in Devices :
      IF ident[d] = None THEN source[d] = 0 /\ timer[d] = None
      ELSE stale \/ (IF source[d] = 0 THEN timer[d] = ident[d] ELSE Started(d) = {ident[d]})

(***************************************************************************)
(* The inductive strengthening of PresenceAgrees, ViewFed and NeverCutOff. *)
(***************************************************************************)

(* A number is of one stream, which is either on its way or registered. *)
Numbered ==
    /\ \A d \in Devices : source[d] <= streams
    /\ \A c \in clients : 0 < c.id /\ c.id <= streams
    /\ \A c, e \in clients : c.id = e.id => c = e
    /\ \A r \in requests : r.kind = "stream" =>
         /\ 0 < r.id /\ r.id <= streams /\ \A c \in clients : c.id # r.id
         /\ \A q \in requests : q.kind = "stream" /\ q.id = r.id => q = r

(* A timer that is set will start the organization of the device. *)
TimersCurrent == ~stale => \A d \in Devices : timer[d] \in {None, ident[d]}

(* The channel in view is one of the organization of the device. *)
ViewOwn == \A d \in Devices : view[d] # None => TenantOf[view[d]] = ident[d]

(* No leave under way is of a channel in view. *)
LeavesElsewhere == ~clash => \A r \in requests, d \in Devices : r.kind = "leave" => r.channel # view[d]

Inv ==
    TypeOK /\ PresenceAgrees /\ Numbered /\ NeverCutOff /\ TimersCurrent /\ ViewOwn /\ LeavesElsewhere /\ ViewFed

(***************************************************************************)
(* The inductive strengthening of ListComplete.                            *)
(***************************************************************************)

(* A number of a device is of one list, on its way or shown.               *)
ListsOf(d) == {r \in requests : r.kind \in {"load", "list"} /\ r.device = d}
ListsNumbered ==
    \A d \in Devices :
      /\ shown[d] <= loads[d]
      /\ \A r \in ListsOf(d) : r.n <= loads[d] /\ r.n # shown[d]
      /\ \A r, q \in ListsOf(d) : r.n = q.n => r = q

(* The list asked for last is of the channel in view.                      *)
ListsOfView ==
    \A d \in Devices : view[d] # None =>
      /\ shown[d] = loads[d] => \A m \in list[d] : ChannelOf[m] = view[d]
      /\ \A r \in ListsOf(d) : r.n = loads[d] =>
           IF r.kind = "load" THEN r.channel = view[d] ELSE \A m \in r.messages : ChannelOf[m] = view[d]

(* What the store holds of the channel in view is in the list asked for    *)
(* last or in what the device still has to read after it.                  *)
Fed(d, m) == \E i \in 1 .. Len(feed[d]) : feed[d][i] = Created(m)
NothingMissed ==
    \A d \in Devices : view[d] # None /\ ~gap[d] =>
      \A m \in store : ChannelOf[m] = view[d] =>
        /\ shown[d] = loads[d] => m \in list[d] \/ Fed(d, m)
        /\ \A r \in ListsOf(d) : r.kind = "list" /\ r.n = loads[d] => m \in r.messages

ListInv == ListsNumbered /\ ListsOfView /\ NothingMissed

=============================================================================
