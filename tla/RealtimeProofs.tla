--------------------------- MODULE RealtimeProofs ---------------------------
(***************************************************************************)
(* What is proved about Realtime, for any devices, tenants, channels,      *)
(* messages and bounds: that Inv and ListInv are inductive.                *)
(*                                                                         *)
(* Inv: the number of a stream is new when it is opened and is of one      *)
(* request or one client (Numbered): from that follow what the tracker     *)
(* knows, which organization the stream of a device is of, and that a      *)
(* leave does not hit a channel in view.                                   *)
(* ListInv: so is the number of a list (ListsNumbered); while the list     *)
(* asked for last is under way, or shown, whatever the store has of the    *)
(* channel in view is in that list or in the feed behind it                *)
(* (NothingMissed), since the stream of the device has the group of the    *)
(* channel, or a gap is noted.                                             *)
(***************************************************************************)
EXTENDS Realtime, TLAPS

Clients == [id : Nat, tenant : Tenants, groups : SUBSET Channels]
Events == {Created(m) : m \in Messages} \cup {Deleted(m) : m \in Messages}

TypeOfHub == clients \subseteq Clients /\ tracked \subseteq Nat /\ presence \in {"Online", "Offline"} /\ home \in Tenants
TypeOfStore == store \subseteq posted /\ posted \subseteq Messages
TypeOfRequests == requests \subseteq Requests
TypeOfFeed == feed \in [Devices -> Seq(Events)]
TypeOfLinks ==
    /\ source \in [Devices -> Nat] /\ timer \in [Devices -> Tenants \cup {None}]
    /\ ident \in [Devices -> Tenants \cup {None}] /\ view \in [Devices -> Channels \cup {None}]
TypeOfLists == list \in [Devices -> SUBSET Messages] /\ loads \in [Devices -> Nat] /\ shown \in [Devices -> Nat]
TypeOfCounts == streams \in Nat /\ acts \in Nat
TypeOfGap == gap \in [Devices -> BOOLEAN]
TypeOfFlags == stale \in BOOLEAN /\ clash \in BOOLEAN /\ greeted \in BOOLEAN

LEMMA TypeParts ==
  TypeOK <=> /\ TypeOfHub /\ TypeOfStore /\ TypeOfRequests /\ TypeOfFeed /\ TypeOfLinks
             /\ TypeOfLists /\ TypeOfCounts /\ TypeOfGap /\ TypeOfFlags
  BY DEF TypeOK, TypeOfHub, Clients, TypeOfStore, TypeOfRequests, TypeOfFeed, Events, TypeOfLinks, TypeOfLists,
     TypeOfCounts, TypeOfGap, TypeOfFlags

\* The four kinds of requests, and what each of them holds.
LEMMA StreamRequestType ==
  ASSUME NEW id \in Nat, NEW t \in Tenants
  PROVE  /\ StreamRequest(id, t) \in Requests
         /\ StreamRequest(id, t).kind = "stream" /\ StreamRequest(id, t).id = id /\ StreamRequest(id, t).tenant = t
  BY DEF StreamRequest, Requests

LEMMA GroupRequestType ==
  ASSUME NEW op \in {"join", "leave"}, NEW c \in Channels, NEW n \in Nat
  PROVE  /\ GroupRequest(op, c, n) \in Requests
         /\ GroupRequest(op, c, n).kind = op /\ GroupRequest(op, c, n).channel = c
  BY DEF GroupRequest, Requests

LEMMA ListRequestType ==
  ASSUME NEW d \in Devices, NEW n \in Nat, NEW c \in Channels
  PROVE  ListRequest(d, n, c) \in Requests /\ ListRequest(d, n, c).kind = "load"
  BY DEF ListRequest, Requests

LEMMA RequestFields ==
  ASSUME NEW r \in Requests
  PROVE  /\ r.kind \in {"stream", "join", "leave", "load", "list"}
         /\ r.kind = "stream" => r.id \in Nat /\ r.tenant \in Tenants /\ r = StreamRequest(r.id, r.tenant)
         /\ r.kind \in {"join", "leave"} => r.channel \in Channels
         /\ r.kind \in {"load", "list"} => r.device \in Devices /\ r.n \in Nat
         /\ r.kind = "list" => r.messages \in SUBSET Messages
  BY DEF Requests, StreamRequest

LEMMA ListAnswerType ==
  ASSUME TypeOK, NEW r \in Requests, r.kind = "load"
  PROVE  ListAnswer(r) \in Requests /\ ListAnswer(r).kind = "list"
<1>1. r.device \in Devices /\ r.n \in Nat
  BY RequestFields
<1>2. {m \in store : ChannelOf[m] = r.channel} \in SUBSET Messages
  BY DEF TypeOK
<1>3. QED
  BY <1>1, <1>2 DEF ListAnswer, Requests

LEMMA LeavingType ==
  ASSUME TypeOK, NEW d \in Devices
  PROVE  /\ Leaving(d) \subseteq Requests
         /\ \A r \in Leaving(d) : r.kind = "leave" /\ view[d] # None /\ r.channel = view[d]
<1>1. view[d] \in Channels \cup {None} /\ acts \in Nat
  BY DEF TypeOK
<1>2. QED
  BY <1>1, GroupRequestType DEF Leaving

LEMMA ClientType ==
  ASSUME NEW id \in Nat, NEW t \in Tenants
  PROVE  /\ Client(id, t) \in Clients
         /\ Client(id, t).id = id /\ Client(id, t).tenant = t
         /\ Client(id, t).groups = {c \in Channels : TenantOf[c] = t}
  BY DEF Client, Clients

LEMMA StartType ==
  ASSUME TypeOK, NEW d \in Devices, NEW t \in Tenants, NEW more \in SUBSET Requests, Start(d, t, more)
  PROVE  TypeOfRequests' /\ source' \in [Devices -> Nat]
<1>1. streams + 1 \in Nat
  BY DEF TypeOK
<1>2. StreamRequest(streams + 1, t) \in Requests
  BY <1>1, StreamRequestType
<1>3. TypeOfRequests'
  BY <1>2 DEF TypeOK, Start, TypeOfRequests
<1>4. source' \in [Devices -> Nat]
  BY <1>1 DEF TypeOK, Start
<1>5. QED
  BY <1>3, <1>4

\* An event is an event, and what a device makes of one is a list of messages.
LEMMA BroadcastType ==
  ASSUME TypeOK, NEW to, NEW e \in Events, Broadcast(to, e) PROVE TypeOfFeed'
  BY TypeParts DEF TypeOfFeed, Broadcast

LEMMA EventFields ==
  ASSUME NEW e \in Events
  PROVE  \/ e.event = "MessageCreated" /\ e.id \in Messages
         \/ e.event = "MessageDeleted"
  BY DEF Events, Created, Deleted

LEMMA AfterType ==
  ASSUME TypeOK, NEW d \in Devices, NEW e \in Events PROVE After(d, e) \in SUBSET Messages
<1>1. list[d] \in SUBSET Messages
  BY DEF TypeOK
<1>2. CASE e.event = "MessageCreated" /\ e.id \in Messages
  BY <1>1, <1>2 DEF After
<1>3. CASE e.event = "MessageDeleted"
  BY <1>1, <1>3 DEF After
<1>4. QED
  BY <1>2, <1>3, EventFields

\* Every variable keeps its type, one action at a time.
LEMMA TypeRegister ==
  ASSUME TypeOK, NEW r \in requests, Register(r) PROVE TypeOK'
<1>1. TypeOfHub'
  <2>1. r \in Requests /\ r.kind = "stream"
    BY DEF TypeOK, Register
  <2>2. r.id \in Nat /\ r.tenant \in Tenants
    BY <2>1, RequestFields
  <2>3. Client(r.id, r.tenant) \in Clients
    BY <2>2, ClientType
  <2>4. QED
    BY <2>2, <2>3, TypeParts DEF TypeOfHub, Register
<1>2. TypeOfStore'
  BY TypeParts DEF TypeOfStore, Register, storeVars, deviceVars
<1>3. TypeOfRequests'
  BY TypeParts DEF TypeOfRequests, Register, storeVars, deviceVars
<1>4. TypeOfFeed'
  BY TypeParts DEF TypeOfFeed, Register, storeVars, deviceVars
<1>5. TypeOfLinks'
  BY TypeParts DEF TypeOfLinks, Register, storeVars, deviceVars
<1>6. TypeOfLists'
  BY TypeParts DEF TypeOfLists, Register, storeVars, deviceVars
<1>7. TypeOfCounts'
  BY TypeParts DEF TypeOfCounts, Register, storeVars, deviceVars
<1>8. TypeOfGap'
  BY TypeParts DEF TypeOfGap, Register, storeVars, deviceVars
<1>9. TypeOfFlags'
  BY TypeParts DEF TypeOfFlags, Register, storeVars, deviceVars
<1>10. QED
  BY <1>1, <1>2, <1>3, <1>4, <1>5, <1>6, <1>7, <1>8, <1>9, TypeParts DEF TypeOfHub, TypeOfStore, TypeOfRequests, TypeOfFeed,
     TypeOfLinks, TypeOfLists, TypeOfCounts, TypeOfGap, TypeOfFlags, TypeOK, Clients, Events

LEMMA TypeUnregister ==
  ASSUME TypeOK, NEW c \in clients, Unregister(c) PROVE TypeOK'
<1>1. TypeOfHub'
  BY TypeParts DEF TypeOfHub, Unregister, storeVars, deviceVars
<1>2. TypeOfStore'
  BY TypeParts DEF TypeOfStore, Unregister, storeVars, deviceVars
<1>3. TypeOfRequests'
  BY TypeParts DEF TypeOfRequests, Unregister, storeVars, deviceVars
<1>4. TypeOfFeed'
  BY TypeParts DEF TypeOfFeed, Unregister, storeVars, deviceVars
<1>5. TypeOfLinks'
  BY TypeParts DEF TypeOfLinks, Unregister, storeVars, deviceVars
<1>6. TypeOfLists'
  BY TypeParts DEF TypeOfLists, Unregister, storeVars, deviceVars
<1>7. TypeOfCounts'
  BY TypeParts DEF TypeOfCounts, Unregister, storeVars, deviceVars
<1>8. TypeOfGap'
  BY TypeParts DEF TypeOfGap, Unregister, storeVars, deviceVars
<1>9. TypeOfFlags'
  BY TypeParts DEF TypeOfFlags, Unregister, storeVars, deviceVars
<1>10. QED
  BY <1>1, <1>2, <1>3, <1>4, <1>5, <1>6, <1>7, <1>8, <1>9, TypeParts DEF TypeOfHub, TypeOfStore, TypeOfRequests, TypeOfFeed,
     TypeOfLinks, TypeOfLists, TypeOfCounts, TypeOfGap, TypeOfFlags, TypeOK, Clients, Events

LEMMA TypeServeGroup ==
  ASSUME TypeOK, NEW r \in requests, ServeGroup(r) PROVE TypeOK'
<1>1. TypeOfHub'
  <2>1. r.channel \in Channels
    BY RequestFields DEF TypeOK, ServeGroup
  <2>2. ASSUME NEW c \in clients
        PROVE  [c EXCEPT !.groups = IF r.kind = "join" THEN @ \cup {r.channel} ELSE @ \ {r.channel}] \in Clients
    <3>1. c \in Clients
      BY TypeParts DEF TypeOfHub
    <3>2. (IF r.kind = "join" THEN c.groups \cup {r.channel} ELSE c.groups \ {r.channel}) \in SUBSET Channels
      BY <2>1, <3>1 DEF Clients
    <3>3. QED
      BY <3>1, <3>2 DEF Clients
  <2>3. clients' \subseteq Clients
    BY <2>2 DEF ServeGroup
  <2>4. QED
    BY <2>3, TypeParts DEF TypeOfHub, ServeGroup
<1>2. TypeOfStore'
  BY TypeParts DEF TypeOfStore, ServeGroup, storeVars, deviceVars, pastVars
<1>3. TypeOfRequests'
  BY TypeParts DEF TypeOfRequests, ServeGroup, storeVars, deviceVars, pastVars
<1>4. TypeOfFeed'
  BY TypeParts DEF TypeOfFeed, ServeGroup, storeVars, deviceVars, pastVars
<1>5. TypeOfLinks'
  BY TypeParts DEF TypeOfLinks, ServeGroup, storeVars, deviceVars, pastVars
<1>6. TypeOfLists'
  BY TypeParts DEF TypeOfLists, ServeGroup, storeVars, deviceVars, pastVars
<1>7. TypeOfCounts'
  BY TypeParts DEF TypeOfCounts, ServeGroup, storeVars, deviceVars, pastVars
<1>8. TypeOfGap'
  BY TypeParts DEF TypeOfGap, ServeGroup, storeVars, deviceVars, pastVars
<1>9. TypeOfFlags'
  BY TypeParts DEF TypeOfFlags, ServeGroup, storeVars, deviceVars, pastVars
<1>10. QED
  BY <1>1, <1>2, <1>3, <1>4, <1>5, <1>6, <1>7, <1>8, <1>9, TypeParts DEF TypeOfHub, TypeOfStore, TypeOfRequests, TypeOfFeed,
     TypeOfLinks, TypeOfLists, TypeOfCounts, TypeOfGap, TypeOfFlags, TypeOK, Clients, Events

LEMMA TypeServeList ==
  ASSUME TypeOK, NEW r \in requests, ServeList(r) PROVE TypeOK'
<1>1. TypeOfHub'
  BY TypeParts DEF TypeOfHub, ServeList, hubVars, storeVars, deviceVars, pastVars
<1>2. TypeOfStore'
  BY TypeParts DEF TypeOfStore, ServeList, hubVars, storeVars, deviceVars, pastVars
<1>3. TypeOfRequests'
  <2>1. ListAnswer(r) \in Requests
    BY ListAnswerType DEF TypeOK, ServeList
  <2>2. QED
    BY <2>1, TypeParts DEF TypeOfRequests, ServeList
<1>4. TypeOfFeed'
  BY TypeParts DEF TypeOfFeed, ServeList, hubVars, storeVars, deviceVars, pastVars
<1>5. TypeOfLinks'
  BY TypeParts DEF TypeOfLinks, ServeList, hubVars, storeVars, deviceVars, pastVars
<1>6. TypeOfLists'
  BY TypeParts DEF TypeOfLists, ServeList, hubVars, storeVars, deviceVars, pastVars
<1>7. TypeOfCounts'
  BY TypeParts DEF TypeOfCounts, ServeList, hubVars, storeVars, deviceVars, pastVars
<1>8. TypeOfGap'
  BY TypeParts DEF TypeOfGap, ServeList, hubVars, storeVars, deviceVars, pastVars
<1>9. TypeOfFlags'
  BY TypeParts DEF TypeOfFlags, ServeList, hubVars, storeVars, deviceVars, pastVars
<1>10. QED
  BY <1>1, <1>2, <1>3, <1>4, <1>5, <1>6, <1>7, <1>8, <1>9, TypeParts DEF TypeOfHub, TypeOfStore, TypeOfRequests, TypeOfFeed,
     TypeOfLinks, TypeOfLists, TypeOfCounts, TypeOfGap, TypeOfFlags, TypeOK, Clients, Events

LEMMA TypePost ==
  ASSUME TypeOK, NEW m \in Messages, Post(m) PROVE TypeOK'
<1>1. TypeOfHub'
  BY TypeParts DEF TypeOfHub, Post, Broadcast, hubVars, deviceVars
<1>2. TypeOfStore'
  BY TypeParts DEF TypeOfStore, Post, Broadcast, hubVars, deviceVars
<1>3. TypeOfRequests'
  BY TypeParts DEF TypeOfRequests, Post, Broadcast, hubVars, deviceVars
<1>4. TypeOfFeed'
  BY BroadcastType DEF Post, Events
<1>5. TypeOfLinks'
  BY TypeParts DEF TypeOfLinks, Post, Broadcast, hubVars, deviceVars
<1>6. TypeOfLists'
  BY TypeParts DEF TypeOfLists, Post, Broadcast, hubVars, deviceVars
<1>7. TypeOfCounts'
  BY TypeParts DEF TypeOfCounts, Post, Broadcast, hubVars, deviceVars
<1>8. TypeOfGap'
  BY TypeParts DEF TypeOfGap, Post, Broadcast, hubVars, deviceVars
<1>9. TypeOfFlags'
  BY TypeParts DEF TypeOfFlags, Post, Broadcast, hubVars, deviceVars
<1>10. QED
  BY <1>1, <1>2, <1>3, <1>4, <1>5, <1>6, <1>7, <1>8, <1>9, TypeParts DEF TypeOfHub, TypeOfStore, TypeOfRequests, TypeOfFeed,
     TypeOfLinks, TypeOfLists, TypeOfCounts, TypeOfGap, TypeOfFlags, TypeOK, Clients, Events

LEMMA TypeDelete ==
  ASSUME TypeOK, NEW m \in Messages, Delete(m) PROVE TypeOK'
<1>1. TypeOfHub'
  BY TypeParts DEF TypeOfHub, Delete, Broadcast, hubVars, deviceVars
<1>2. TypeOfStore'
  BY TypeParts DEF TypeOfStore, Delete, Broadcast, hubVars, deviceVars
<1>3. TypeOfRequests'
  BY TypeParts DEF TypeOfRequests, Delete, Broadcast, hubVars, deviceVars
<1>4. TypeOfFeed'
  BY BroadcastType DEF Delete, Events, TypeOK
<1>5. TypeOfLinks'
  BY TypeParts DEF TypeOfLinks, Delete, Broadcast, hubVars, deviceVars
<1>6. TypeOfLists'
  BY TypeParts DEF TypeOfLists, Delete, Broadcast, hubVars, deviceVars
<1>7. TypeOfCounts'
  BY TypeParts DEF TypeOfCounts, Delete, Broadcast, hubVars, deviceVars
<1>8. TypeOfGap'
  BY TypeParts DEF TypeOfGap, Delete, Broadcast, hubVars, deviceVars
<1>9. TypeOfFlags'
  BY TypeParts DEF TypeOfFlags, Delete, Broadcast, hubVars, deviceVars
<1>10. QED
  BY <1>1, <1>2, <1>3, <1>4, <1>5, <1>6, <1>7, <1>8, <1>9, TypeParts DEF TypeOfHub, TypeOfStore, TypeOfRequests, TypeOfFeed,
     TypeOfLinks, TypeOfLists, TypeOfCounts, TypeOfGap, TypeOfFlags, TypeOK, Clients, Events

LEMMA TypeSignIn ==
  ASSUME TypeOK, NEW d \in Devices, SignIn(d) PROVE TypeOK'
<1>1. TypeOfHub'
  BY TypeParts DEF TypeOfHub, SignIn, Act, Start, storeVars
<1>2. TypeOfStore'
  BY TypeParts DEF TypeOfStore, SignIn, Act, Start, storeVars
<1>3. TypeOfRequests' /\ source' \in [Devices -> Nat]
  <2>1. home \in Tenants /\ Start(d, home, {})
    BY DEF TypeOK, SignIn
  <2>2. QED
    BY <2>1, StartType
<1>4. TypeOfFeed'
  BY TypeParts DEF TypeOfFeed, SignIn, Act, Start, storeVars
<1>5. TypeOfLinks'
  <2>1. ident' = [ident EXCEPT ![d] = home] /\ home \in Tenants
    BY DEF SignIn, TypeOK
  <2>2. timer' = timer /\ view' = view
    BY DEF SignIn
  <2>3. QED
    BY <1>3, <2>1, <2>2, TypeParts DEF TypeOfLinks
<1>6. TypeOfLists'
  BY TypeParts DEF TypeOfLists, SignIn, Act, Start, storeVars
<1>7. TypeOfCounts'
  BY TypeParts DEF TypeOfCounts, SignIn, Act, Start, storeVars
<1>8. TypeOfGap'
  BY TypeParts DEF TypeOfGap, SignIn, Act, Start, storeVars
<1>9. TypeOfFlags'
  BY TypeParts DEF TypeOfFlags, SignIn, Act, Start, storeVars
<1>10. QED
  BY <1>1, <1>2, <1>3, <1>4, <1>5, <1>6, <1>7, <1>8, <1>9, TypeParts DEF TypeOfHub, TypeOfStore, TypeOfRequests, TypeOfFeed,
     TypeOfLinks, TypeOfLists, TypeOfCounts, TypeOfGap, TypeOfFlags, TypeOK, Clients, Events

LEMMA TypeView ==
  ASSUME TypeOK, NEW d \in Devices, NEW c \in Channels, View(d, c) PROVE TypeOK'
<1>1. TypeOfHub'
  BY TypeParts DEF TypeOfHub, View, Act, Start, NoteClash, hubVars, storeVars
<1>2. TypeOfStore'
  BY TypeParts DEF TypeOfStore, View, Act, Start, NoteClash, hubVars, storeVars
<1>3. TypeOfRequests' /\ source' \in [Devices -> Nat]
  <2>1. ident[d] \in Tenants
    BY TenantAssumption DEF View, TypeOK
  <2>2. acts \in Nat /\ loads[d] + 1 \in Nat
    BY DEF TypeOK
  <2>3. Leaving(d) \cup {GroupRequest("join", c, acts), ListRequest(d, loads[d] + 1, c)} \in SUBSET Requests
    BY <2>2, LeavingType, GroupRequestType, ListRequestType
  <2>4. QED
    BY <2>1, <2>3, StartType DEF View
<1>4. TypeOfFeed'
  BY TypeParts DEF TypeOfFeed, View, Act, Start, NoteClash, hubVars, storeVars
<1>5. TypeOfLinks'
  <2>1. ident' = ident
    BY DEF View, TypeOK
  <2>2. timer' = timer /\ view' = [view EXCEPT ![d] = c]
    BY DEF View
  <2>3. QED
    BY <1>3, <2>1, <2>2, TypeParts DEF TypeOfLinks
<1>6. TypeOfLists'
  BY TypeParts DEF TypeOfLists, View, Act, Start, NoteClash, hubVars, storeVars
<1>7. TypeOfCounts'
  BY TypeParts DEF TypeOfCounts, View, Act, Start, NoteClash, hubVars, storeVars
<1>8. TypeOfGap'
  BY TypeParts DEF TypeOfGap, View, Act, Start, NoteClash, hubVars, storeVars
<1>9. TypeOfFlags'
  BY TypeParts DEF TypeOfFlags, View, Act, Start, NoteClash, hubVars, storeVars
<1>10. QED
  BY <1>1, <1>2, <1>3, <1>4, <1>5, <1>6, <1>7, <1>8, <1>9, TypeParts DEF TypeOfHub, TypeOfStore, TypeOfRequests, TypeOfFeed,
     TypeOfLinks, TypeOfLists, TypeOfCounts, TypeOfGap, TypeOfFlags, TypeOK, Clients, Events

LEMMA TypeSwitch ==
  ASSUME TypeOK, NEW d \in Devices, NEW t \in Tenants, Switch(d, t) PROVE TypeOK'
<1>1. TypeOfHub'
  BY TypeParts DEF TypeOfHub, Switch, Act, Start, NoteClash, storeVars
<1>2. TypeOfStore'
  BY TypeParts DEF TypeOfStore, Switch, Act, Start, NoteClash, storeVars
<1>3. TypeOfRequests' /\ source' \in [Devices -> Nat]
  <2>1. Leaving(d) \in SUBSET Requests
    BY LeavingType
  <2>2. QED
    BY <2>1, StartType DEF Switch
<1>4. TypeOfFeed'
  BY TypeParts DEF TypeOfFeed, Switch, Act, Start, NoteClash, storeVars
<1>5. TypeOfLinks'
  <2>1. ident' = [ident EXCEPT ![d] = t]
    BY DEF Switch, TypeOK
  <2>2. timer' = timer /\ view' = [view EXCEPT ![d] = None]
    BY DEF Switch
  <2>3. QED
    BY <1>3, <2>1, <2>2, TypeParts DEF TypeOfLinks
<1>6. TypeOfLists'
  BY TypeParts DEF TypeOfLists, Switch, Act, Start, NoteClash, storeVars
<1>7. TypeOfCounts'
  BY TypeParts DEF TypeOfCounts, Switch, Act, Start, NoteClash, storeVars
<1>8. TypeOfGap'
  BY TypeParts DEF TypeOfGap, Switch, Act, Start, NoteClash, storeVars
<1>9. TypeOfFlags'
  BY TypeParts DEF TypeOfFlags, Switch, Act, Start, NoteClash, storeVars
<1>10. QED
  BY <1>1, <1>2, <1>3, <1>4, <1>5, <1>6, <1>7, <1>8, <1>9, TypeParts DEF TypeOfHub, TypeOfStore, TypeOfRequests, TypeOfFeed,
     TypeOfLinks, TypeOfLists, TypeOfCounts, TypeOfGap, TypeOfFlags, TypeOK, Clients, Events

LEMMA TypeSignOut ==
  ASSUME TypeOK, NEW d \in Devices, SignOut(d) PROVE TypeOK'
<1>1. TypeOfHub'
  BY TypeParts DEF TypeOfHub, SignOut, Act, NoteClash, hubVars, storeVars
<1>2. TypeOfStore'
  BY TypeParts DEF TypeOfStore, SignOut, Act, NoteClash, hubVars, storeVars
<1>3. TypeOfRequests'
  BY LeavingType, TypeParts DEF TypeOfRequests, SignOut
<1>4. TypeOfFeed'
  BY TypeParts DEF TypeOfFeed, SignOut, Act, NoteClash, hubVars, storeVars
<1>5. TypeOfLinks'
  BY TypeParts DEF TypeOfLinks, SignOut, Act, NoteClash, hubVars, storeVars
<1>6. TypeOfLists'
  BY TypeParts DEF TypeOfLists, SignOut, Act, NoteClash, hubVars, storeVars
<1>7. TypeOfCounts'
  BY TypeParts DEF TypeOfCounts, SignOut, Act, NoteClash, hubVars, storeVars
<1>8. TypeOfGap'
  BY TypeParts DEF TypeOfGap, SignOut, Act, NoteClash, hubVars, storeVars
<1>9. TypeOfFlags'
  BY TypeParts DEF TypeOfFlags, SignOut, Act, NoteClash, hubVars, storeVars
<1>10. QED
  BY <1>1, <1>2, <1>3, <1>4, <1>5, <1>6, <1>7, <1>8, <1>9, TypeParts DEF TypeOfHub, TypeOfStore, TypeOfRequests, TypeOfFeed,
     TypeOfLinks, TypeOfLists, TypeOfCounts, TypeOfGap, TypeOfFlags, TypeOK, Clients, Events

LEMMA TypeBreak ==
  ASSUME TypeOK, NEW d \in Devices, Break(d) PROVE TypeOK'
<1>1. TypeOfHub'
  BY TypeParts DEF TypeOfHub, Break, Act, hubVars, storeVars
<1>2. TypeOfStore'
  BY TypeParts DEF TypeOfStore, Break, Act, hubVars, storeVars
<1>3. TypeOfRequests'
  BY TypeParts DEF TypeOfRequests, Break, Act, hubVars, storeVars
<1>4. TypeOfFeed'
  BY TypeParts DEF TypeOfFeed, Break, Act, hubVars, storeVars
<1>5. TypeOfLinks'
  <2>1. PICK t \in Tenants : timer' = [timer EXCEPT ![d] = IF @ = None THEN t ELSE @]
    BY DEF Break, Started
  <2>2. timer' \in [Devices -> Tenants \cup {None}]
    BY <2>1, TypeParts DEF TypeOfLinks
  <2>3. source' = [source EXCEPT ![d] = 0] /\ ident' = ident /\ view' = view
    BY DEF Break
  <2>4. QED
    BY <2>2, <2>3, TypeParts DEF TypeOfLinks
<1>6. TypeOfLists'
  BY TypeParts DEF TypeOfLists, Break, Act, hubVars, storeVars
<1>7. TypeOfCounts'
  BY TypeParts DEF TypeOfCounts, Break, Act, hubVars, storeVars
<1>8. TypeOfGap'
  BY TypeParts DEF TypeOfGap, Break, Act, hubVars, storeVars
<1>9. TypeOfFlags'
  BY TypeParts DEF TypeOfFlags, Break, Act, hubVars, storeVars
<1>10. QED
  BY <1>1, <1>2, <1>3, <1>4, <1>5, <1>6, <1>7, <1>8, <1>9, TypeParts DEF TypeOfHub, TypeOfStore, TypeOfRequests, TypeOfFeed,
     TypeOfLinks, TypeOfLists, TypeOfCounts, TypeOfGap, TypeOfFlags, TypeOK, Clients, Events

LEMMA TypeReconnect ==
  ASSUME TypeOK, NEW d \in Devices, Reconnect(d) PROVE TypeOK'
<1>1. TypeOfHub'
  BY TypeParts DEF TypeOfHub, Reconnect, Start, hubVars, storeVars
<1>2. TypeOfStore'
  BY TypeParts DEF TypeOfStore, Reconnect, Start, hubVars, storeVars
<1>3. TypeOfRequests' /\ source' \in [Devices -> Nat]
  <2>1. timer[d] \in Tenants /\ Start(d, timer[d], {})
    BY DEF TypeOK, Reconnect
  <2>2. QED
    BY <2>1, StartType
<1>4. TypeOfFeed'
  BY TypeParts DEF TypeOfFeed, Reconnect, Start, hubVars, storeVars
<1>5. TypeOfLinks'
  <2>1. ident' = ident
    BY DEF Reconnect, TypeOK
  <2>2. timer' = [timer EXCEPT ![d] = None] /\ view' = view
    BY DEF Reconnect
  <2>3. QED
    BY <1>3, <2>1, <2>2, TypeParts DEF TypeOfLinks
<1>6. TypeOfLists'
  BY TypeParts DEF TypeOfLists, Reconnect, Start, hubVars, storeVars
<1>7. TypeOfCounts'
  BY TypeParts DEF TypeOfCounts, Reconnect, Start, hubVars, storeVars
<1>8. TypeOfGap'
  BY TypeParts DEF TypeOfGap, Reconnect, Start, hubVars, storeVars
<1>9. TypeOfFlags'
  BY TypeParts DEF TypeOfFlags, Reconnect, Start, hubVars, storeVars
<1>10. QED
  BY <1>1, <1>2, <1>3, <1>4, <1>5, <1>6, <1>7, <1>8, <1>9, TypeParts DEF TypeOfHub, TypeOfStore, TypeOfRequests, TypeOfFeed,
     TypeOfLinks, TypeOfLists, TypeOfCounts, TypeOfGap, TypeOfFlags, TypeOK, Clients, Events

LEMMA TypeAbandon ==
  ASSUME TypeOK, NEW r \in requests, Abandon(r) PROVE TypeOK'
<1>1. TypeOfHub'
  BY TypeParts DEF TypeOfHub, Abandon, hubVars, storeVars, deviceVars, pastVars
<1>2. TypeOfStore'
  BY TypeParts DEF TypeOfStore, Abandon, hubVars, storeVars, deviceVars, pastVars
<1>3. TypeOfRequests'
  BY TypeParts DEF TypeOfRequests, Abandon, hubVars, storeVars, deviceVars, pastVars
<1>4. TypeOfFeed'
  BY TypeParts DEF TypeOfFeed, Abandon, hubVars, storeVars, deviceVars, pastVars
<1>5. TypeOfLinks'
  BY TypeParts DEF TypeOfLinks, Abandon, hubVars, storeVars, deviceVars, pastVars
<1>6. TypeOfLists'
  BY TypeParts DEF TypeOfLists, Abandon, hubVars, storeVars, deviceVars, pastVars
<1>7. TypeOfCounts'
  BY TypeParts DEF TypeOfCounts, Abandon, hubVars, storeVars, deviceVars, pastVars
<1>8. TypeOfGap'
  BY TypeParts DEF TypeOfGap, Abandon, hubVars, storeVars, deviceVars, pastVars
<1>9. TypeOfFlags'
  BY TypeParts DEF TypeOfFlags, Abandon, hubVars, storeVars, deviceVars, pastVars
<1>10. QED
  BY <1>1, <1>2, <1>3, <1>4, <1>5, <1>6, <1>7, <1>8, <1>9, TypeParts DEF TypeOfHub, TypeOfStore, TypeOfRequests, TypeOfFeed,
     TypeOfLinks, TypeOfLists, TypeOfCounts, TypeOfGap, TypeOfFlags, TypeOK, Clients, Events

LEMMA TypeReceive ==
  ASSUME TypeOK, NEW d \in Devices, Receive(d) PROVE TypeOK'
<1>1. TypeOfHub'
  BY TypeParts DEF TypeOfHub, Receive, hubVars, storeVars, pastVars
<1>2. TypeOfStore'
  BY TypeParts DEF TypeOfStore, Receive, hubVars, storeVars, pastVars
<1>3. TypeOfRequests'
  BY TypeParts DEF TypeOfRequests, Receive, hubVars, storeVars, pastVars
<1>4. TypeOfFeed'
  BY TypeParts DEF TypeOfFeed, Receive, hubVars, storeVars, pastVars
<1>5. TypeOfLinks'
  BY TypeParts DEF TypeOfLinks, Receive, hubVars, storeVars, pastVars
<1>6. TypeOfLists'
  <2>1. feed[d] \in Seq(Events) /\ feed[d] # <<>>
    BY TypeParts DEF TypeOfFeed, Receive
  <2>2. Head(feed[d]) \in Events
    BY <2>1
  <2>3. After(d, Head(feed[d])) \in SUBSET Messages
    BY <2>2, AfterType
  <2>4. QED
    BY <2>3, TypeParts DEF TypeOfLists, Receive
<1>7. TypeOfCounts'
  BY TypeParts DEF TypeOfCounts, Receive, hubVars, storeVars, pastVars
<1>8. TypeOfGap'
  BY TypeParts DEF TypeOfGap, Receive, hubVars, storeVars, pastVars
<1>9. TypeOfFlags'
  BY TypeParts DEF TypeOfFlags, Receive, hubVars, storeVars, pastVars
<1>10. QED
  BY <1>1, <1>2, <1>3, <1>4, <1>5, <1>6, <1>7, <1>8, <1>9, TypeParts DEF TypeOfHub, TypeOfStore, TypeOfRequests, TypeOfFeed,
     TypeOfLinks, TypeOfLists, TypeOfCounts, TypeOfGap, TypeOfFlags, TypeOK, Clients, Events

LEMMA TypeReceiveList ==
  ASSUME TypeOK, NEW r \in requests, ReceiveList(r) PROVE TypeOK'
<1>1. TypeOfHub'
  BY TypeParts DEF TypeOfHub, ReceiveList, hubVars, storeVars, pastVars
<1>2. TypeOfStore'
  BY TypeParts DEF TypeOfStore, ReceiveList, hubVars, storeVars, pastVars
<1>3. TypeOfRequests'
  BY TypeParts DEF TypeOfRequests, ReceiveList, hubVars, storeVars, pastVars
<1>4. TypeOfFeed'
  BY TypeParts DEF TypeOfFeed, ReceiveList, hubVars, storeVars, pastVars
<1>5. TypeOfLinks'
  BY TypeParts DEF TypeOfLinks, ReceiveList, hubVars, storeVars, pastVars
<1>6. TypeOfLists'
  <2>1. r.device \in Devices /\ r.n \in Nat /\ r.messages \in SUBSET Messages
    BY RequestFields DEF TypeOK, ReceiveList
  <2>2. CASE view[r.device] # None
    <3>1. list' = [list EXCEPT ![r.device] = r.messages] /\ shown' = [shown EXCEPT ![r.device] = r.n] /\ loads' = loads
      BY <2>2 DEF ReceiveList
    <3>2. QED
      BY <2>1, <3>1, TypeParts DEF TypeOfLists
  <2>3. CASE view[r.device] = None
    BY <2>3, TypeParts DEF TypeOfLists, ReceiveList
  <2>4. QED
    BY <2>2, <2>3
<1>7. TypeOfCounts'
  BY TypeParts DEF TypeOfCounts, ReceiveList, hubVars, storeVars, pastVars
<1>8. TypeOfGap'
  BY TypeParts DEF TypeOfGap, ReceiveList, hubVars, storeVars, pastVars
<1>9. TypeOfFlags'
  BY TypeParts DEF TypeOfFlags, ReceiveList, hubVars, storeVars, pastVars
<1>10. QED
  BY <1>1, <1>2, <1>3, <1>4, <1>5, <1>6, <1>7, <1>8, <1>9, TypeParts DEF TypeOfHub, TypeOfStore, TypeOfRequests, TypeOfFeed,
     TypeOfLinks, TypeOfLists, TypeOfCounts, TypeOfGap, TypeOfFlags, TypeOK, Clients, Events

LEMMA TypeStep == TypeOK /\ [Next]_vars => TypeOK'
<1> SUFFICES ASSUME TypeOK, [Next]_vars PROVE TypeOK'
  OBVIOUS
<1>1. CASE UNCHANGED vars
  BY <1>1 DEF TypeOK, vars, hubVars, storeVars, deviceVars, pastVars
<1>2. CASE Next
  BY <1>2, TypeRegister, TypeUnregister, TypeServeGroup, TypeServeList, TypePost, TypeDelete, TypeSignIn, TypeView, TypeSwitch, TypeSignOut, TypeBreak, TypeReconnect, TypeAbandon, TypeReceive, TypeReceiveList DEF Next, Serve
<1>3. QED
  BY <1>1, <1>2

LEMMA InitType == Init => TypeOK
<1> SUFFICES ASSUME Init PROVE TypeOK
  OBVIOUS
<1>1. TypeOfHub /\ TypeOfStore /\ TypeOfRequests
  BY TenantAssumption DEF Init, TypeOfHub, TypeOfStore, TypeOfRequests
<1>2. TypeOfFeed
  BY DEF Init, TypeOfFeed
<1>3. TypeOfLinks
  BY DEF Init, TypeOfLinks
<1>4. TypeOfLists
  BY DEF Init, TypeOfLists
<1>5. TypeOfCounts
  BY DEF Init, TypeOfCounts
<1>6. TypeOfGap /\ TypeOfFlags
  BY DEF Init, TypeOfGap, TypeOfFlags
<1>7. QED
  BY <1>1, <1>2, <1>3, <1>4, <1>5, <1>6, TypeParts

\* Every reachable state of the streams of a user is well typed.
THEOREM TypeCorrect == Spec => []TypeOK
  BY InitType, TypeStep, PTL DEF Spec


-----------------------------------------------------------------------------
(* The streams: PresenceAgrees, NeverCutOff and ViewFed                    *)

Parts ==
    PresenceAgrees /\ Numbered /\ NeverCutOff /\ TimersCurrent /\ ViewOwn /\ LeavesElsewhere /\ ViewFed

\* What a step does that is not of the streams: no stream, no leave and no
\* device is touched.
Elsewhere ==
    /\ UNCHANGED <<clients, tracked, presence, source, timer, ident, view, streams, stale, clash, greeted>>
    /\ \A r \in requests' : r.kind \in {"stream", "leave"} => r \in requests
    /\ \A r \in requests : r.kind = "stream" => r \in requests'

LEMMA ElsewhereParts == ASSUME TypeOK, TypeOK', Parts, Elsewhere PROVE Parts'
<1>1. PresenceAgrees' /\ TimersCurrent' /\ ViewOwn'
  BY DEF Parts, Elsewhere, PresenceAgrees, TimersCurrent, ViewOwn
<1>2. Numbered'
  BY DEF Parts, Elsewhere, Numbered
<1>3. LeavesElsewhere'
  BY DEF Parts, Elsewhere, LeavesElsewhere
<1>4. ViewFed'
  BY DEF Parts, Elsewhere, ViewFed, StreamOf
<1>5. ASSUME NEW d \in Devices PROVE Started(d)' = Started(d)
  <2>1. \A t \in Tenants : StreamRequest(source[d], t).kind = "stream"
    BY StreamRequestType DEF TypeOK
  <2>2. \A t \in Tenants : StreamRequest(source[d], t) \in requests' <=> StreamRequest(source[d], t) \in requests
    BY <2>1 DEF Elsewhere
  <2>3. QED
    BY <2>2 DEF Elsewhere, Started, StreamOf
<1>6. NeverCutOff'
  BY <1>5 DEF Parts, Elsewhere, NeverCutOff
<1>7. QED
  BY <1>1, <1>2, <1>3, <1>4, <1>6 DEF Parts

\* The steps of that kind.
LEMMA ElsewhereSteps ==
  ASSUME TypeOK, TypeOK', Parts,
         \/ \E m \in Messages : Post(m) \/ Delete(m)
         \/ \E d \in Devices : Receive(d)
         \/ \E r \in requests : ServeList(r) \/ ReceiveList(r)
         \/ UNCHANGED vars
  PROVE  Parts'
<1>1. ASSUME NEW m \in Messages, Post(m) PROVE Elsewhere
  BY <1>1 DEF Post, Elsewhere, hubVars, deviceVars
<1>2. ASSUME NEW m \in Messages, Delete(m) PROVE Elsewhere
  BY <1>2 DEF Delete, Elsewhere, hubVars, deviceVars
<1>3. ASSUME NEW d \in Devices, Receive(d) PROVE Elsewhere
  BY <1>3 DEF Receive, Elsewhere, hubVars, pastVars
<1>4. ASSUME NEW r \in requests, ServeList(r) PROVE Elsewhere
  <2>1. r \in Requests /\ r.kind = "load"
    BY <1>4 DEF TypeOK, ServeList
  <2>2. ListAnswer(r).kind = "list"
    BY <2>1, ListAnswerType
  <2>3. UNCHANGED <<clients, tracked, presence, source, timer, ident, view, streams, stale, clash, greeted>>
    BY <1>4 DEF ServeList, hubVars, deviceVars, pastVars
  <2>4. requests' = (requests \ {r}) \cup {ListAnswer(r)}
    BY <1>4 DEF ServeList
  <2>5. QED
    BY <2>1, <2>2, <2>3, <2>4 DEF Elsewhere
<1>5. ASSUME NEW r \in requests, ReceiveList(r) PROVE Elsewhere
  <2>1. requests' = requests \ {r} /\ r.kind = "list"
    BY <1>5 DEF ReceiveList
  <2>2. UNCHANGED <<clients, tracked, presence, source, timer, ident, view, streams, stale, clash, greeted>>
    BY <1>5 DEF ReceiveList, hubVars, pastVars
  <2>3. QED
    BY <2>1, <2>2 DEF Elsewhere
<1>6. ASSUME UNCHANGED vars PROVE Elsewhere
  BY <1>6 DEF vars, hubVars, deviceVars, pastVars, Elsewhere
<1>7. QED
  BY <1>1, <1>2, <1>3, <1>4, <1>5, <1>6, ElsewhereParts

(* The server. *)

\* The request of a stream becomes a client of the same number and organization,
\* which has the groups of all channels of that organization.
LEMMA RegisterParts == ASSUME TypeOK, TypeOK', Parts, NEW r \in requests, Register(r) PROVE Parts'
<1> DEFINE new == Client(r.id, r.tenant)
<1>1. r.kind = "stream" /\ r.id \in Nat /\ r.tenant \in Tenants /\ r = StreamRequest(r.id, r.tenant)
  BY RequestFields DEF Register, TypeOK
<1>2. /\ new.id = r.id /\ new.tenant = r.tenant
      /\ new.groups = {c \in Channels : TenantOf[c] = r.tenant}
  BY <1>1, ClientType
<1>3. /\ requests' = requests \ {r} /\ clients' = clients \cup {new} /\ tracked' = tracked \cup {r.id}
      /\ presence' = (IF tracked = {} THEN "Online" ELSE presence) /\ greeted' = FALSE
  BY DEF Register
<1>4. UNCHANGED <<source, timer, ident, view, streams, stale, clash>>
  BY DEF Register, deviceVars
<1>5. /\ 0 < r.id /\ r.id <= streams /\ \A c \in clients : c.id # r.id
      /\ \A q \in requests : q.kind = "stream" /\ q.id = r.id => q = r
  BY <1>1 DEF Parts, Numbered
<1>6. PresenceAgrees'
  <2>1. tracked' = {c.id : c \in clients'}
    BY <1>2, <1>3 DEF Parts, PresenceAgrees
  <2>2. presence' = "Online" /\ tracked' # {}
    BY <1>3 DEF Parts, PresenceAgrees
  <2>3. QED
    BY <2>1, <2>2 DEF PresenceAgrees
<1>7. Numbered'
  <2>1. \A d \in Devices : source'[d] <= streams'
    BY <1>4 DEF Parts, Numbered
  <2>2. \A c \in clients' : 0 < c.id /\ c.id <= streams'
    BY <1>2, <1>3, <1>4, <1>5 DEF Parts, Numbered
  <2>3. \A c, e \in clients' : c.id = e.id => c = e
    BY <1>2, <1>3, <1>5 DEF Parts, Numbered
  <2>4. ASSUME NEW q \in requests', q.kind = "stream"
        PROVE  /\ 0 < q.id /\ q.id <= streams' /\ \A c \in clients' : c.id # q.id
               /\ \A k \in requests' : k.kind = "stream" /\ k.id = q.id => k = q
    BY <1>2, <1>3, <1>4, <1>5, <2>4 DEF Parts, Numbered
  <2>5. QED
    BY <2>1, <2>2, <2>3, <2>4 DEF Numbered
<1>8. ASSUME NEW d \in Devices PROVE Started(d)' = Started(d)
  <2>1. CASE source[d] = r.id
    <3>1. StreamOf(d) = {} /\ StreamOf(d)' = {new}
      BY <1>2, <1>3, <1>4, <1>5, <2>1 DEF StreamOf
    <3>2. ASSUME NEW t \in Tenants PROVE StreamRequest(r.id, t) \in requests <=> t = r.tenant
      <4>1. StreamRequest(r.id, t).kind = "stream" /\ StreamRequest(r.id, t).id = r.id /\ StreamRequest(r.id, t).tenant = t
        BY <1>1, StreamRequestType
      <4>2. QED
        BY <1>1, <1>5, <4>1
    <3>3. ASSUME NEW t \in Tenants PROVE StreamRequest(r.id, t) \notin requests'
      BY <1>1, <1>3, <3>2
    <3>4. Started(d) = {r.tenant}
      BY <1>1, <2>1, <3>1, <3>2 DEF Started
    <3>5. Started(d)' = {r.tenant}
      BY <1>1, <1>2, <1>4, <2>1, <3>1, <3>3 DEF Started
    <3>6. QED
      BY <3>4, <3>5
  <2>2. CASE source[d] # r.id
    <3>1. StreamOf(d)' = StreamOf(d)
      BY <1>2, <1>3, <1>4, <2>2 DEF StreamOf
    <3>2. ASSUME NEW t \in Tenants
          PROVE  StreamRequest(source[d], t) \in requests' <=> StreamRequest(source[d], t) \in requests
      <4>1. StreamRequest(source[d], t).id = source[d]
        BY StreamRequestType DEF TypeOK
      <4>2. QED
        BY <1>3, <2>2, <4>1
    <3>3. QED
      BY <1>4, <3>1, <3>2 DEF Started
  <2>3. QED
    BY <2>1, <2>2
<1>9. NeverCutOff'
  BY <1>4, <1>8 DEF Parts, NeverCutOff
<1>10. TimersCurrent' /\ ViewOwn'
  BY <1>4 DEF Parts, TimersCurrent, ViewOwn
<1>11. LeavesElsewhere'
  BY <1>3, <1>4 DEF Parts, LeavesElsewhere
<1>12. ViewFed'
  <2>1. SUFFICES ASSUME NEW d \in Devices, view'[d] # None, ~clash', ~stale', NEW c \in StreamOf(d)'
                 PROVE  view'[d] \in c.groups
    BY DEF ViewFed
  <2>2. CASE c = new
    <3>1. source[d] = r.id
      BY <1>2, <1>4, <2>1, <2>2 DEF StreamOf
    <3>2. r.tenant \in Started(d) /\ source[d] # 0
      BY <1>1, <1>5, <3>1 DEF Started
    <3>3. TenantOf[view[d]] = ident[d] /\ view[d] \in Channels
      BY <1>4, <2>1 DEF Parts, ViewOwn, TypeOK
    <3>4. ident[d] # None
      BY <3>3, TenantAssumption
    <3>5. ident[d] = r.tenant
      BY <1>4, <2>1, <3>2, <3>4 DEF Parts, NeverCutOff
    <3>6. QED
      BY <1>2, <1>4, <2>2, <3>3, <3>5
  <2>3. CASE c # new
    <3>1. c \in StreamOf(d)
      BY <1>3, <1>4, <2>1, <2>3 DEF StreamOf
    <3>2. QED
      BY <1>4, <2>1, <3>1 DEF Parts, ViewFed
  <2>4. QED
    BY <2>2, <2>3
<1>13. QED
  BY <1>6, <1>7, <1>9, <1>10, <1>11, <1>12 DEF Parts

\* The stream that is closed is not the one of a device.
LEMMA UnregisterParts == ASSUME TypeOK, TypeOK', Parts, NEW c \in clients, Unregister(c) PROVE Parts'
<1>1. /\ clients' = clients \ {c} /\ tracked' = tracked \ {c.id} /\ requests' = requests
      /\ presence' = (IF tracked' = {} THEN "Offline" ELSE presence) /\ greeted' = (greeted /\ tracked' # {})
      /\ \A d \in Devices : source[d] # c.id
  BY DEF Unregister
<1>2. UNCHANGED <<source, timer, ident, view, streams, stale, clash>>
  BY DEF Unregister, deviceVars
<1>3. PresenceAgrees'
  <2>1. \A e \in clients : e.id = c.id => e = c
    BY DEF Parts, Numbered
  <2>2. tracked' = {e.id : e \in clients'}
    BY <1>1, <2>1 DEF Parts, PresenceAgrees
  <2>3. tracked' # {} => presence' = "Online"
    BY <1>1 DEF Parts, PresenceAgrees
  <2>4. tracked' = {} => presence' = "Offline"
    BY <1>1
  <2>5. QED
    BY <2>2, <2>3, <2>4 DEF PresenceAgrees
<1>4. Numbered'
  BY <1>1, <1>2 DEF Parts, Numbered
<1>5. ASSUME NEW d \in Devices PROVE StreamOf(d)' = StreamOf(d)
  BY <1>1, <1>2 DEF StreamOf
<1>6. ASSUME NEW d \in Devices PROVE Started(d)' = Started(d)
  BY <1>1, <1>2, <1>5 DEF Started
<1>7. NeverCutOff'
  BY <1>2, <1>6 DEF Parts, NeverCutOff
<1>8. TimersCurrent' /\ ViewOwn'
  BY <1>2 DEF Parts, TimersCurrent, ViewOwn
<1>9. LeavesElsewhere'
  BY <1>1, <1>2 DEF Parts, LeavesElsewhere
<1>10. ViewFed'
  BY <1>2, <1>5 DEF Parts, ViewFed
<1>11. QED
  BY <1>3, <1>4, <1>7, <1>8, <1>9, <1>10 DEF Parts

\* A stream that no device waits for never arrives.
LEMMA AbandonParts == ASSUME TypeOK, TypeOK', Parts, NEW r \in requests, Abandon(r) PROVE Parts'
<1>1. requests' = requests \ {r} /\ r.kind = "stream" /\ \A d \in Devices : source[d] # r.id
  BY DEF Abandon
<1>2. UNCHANGED <<clients, tracked, presence, greeted, source, timer, ident, view, streams, stale, clash>>
  BY DEF Abandon, hubVars, deviceVars, pastVars
<1>3. PresenceAgrees' /\ TimersCurrent' /\ ViewOwn'
  BY <1>2 DEF Parts, PresenceAgrees, TimersCurrent, ViewOwn
<1>4. Numbered' /\ LeavesElsewhere'
  BY <1>1, <1>2 DEF Parts, Numbered, LeavesElsewhere
<1>5. ASSUME NEW d \in Devices PROVE StreamOf(d)' = StreamOf(d) /\ Started(d)' = Started(d)
  <2>1. StreamOf(d)' = StreamOf(d)
    BY <1>2 DEF StreamOf
  <2>2. \A t \in Tenants : StreamRequest(source[d], t).id = source[d]
    BY StreamRequestType DEF TypeOK
  <2>3. \A t \in Tenants : StreamRequest(source[d], t) \in requests' <=> StreamRequest(source[d], t) \in requests
    BY <1>1, <2>2
  <2>4. QED
    BY <1>2, <2>1, <2>3 DEF Started
<1>6. NeverCutOff' /\ ViewFed'
  BY <1>2, <1>5 DEF Parts, NeverCutOff, ViewFed
<1>7. QED
  BY <1>3, <1>4, <1>6 DEF Parts

\* A join adds a group; a leave is of no channel in view, or a clash is noted.
LEMMA ServeGroupParts == ASSUME TypeOK, TypeOK', Parts, NEW r \in requests, ServeGroup(r) PROVE Parts'
<1> DEFINE groups(c) == IF r.kind = "join" THEN c.groups \cup {r.channel} ELSE c.groups \ {r.channel}
           image(c) == [c EXCEPT !.groups = groups(c)]
<1>1. r.kind \in {"join", "leave"} /\ requests' = requests \ {r} /\ clients' = {image(c) : c \in clients}
  BY DEF ServeGroup
<1>2. UNCHANGED <<tracked, presence, greeted, source, timer, ident, view, streams, stale, clash>>
  BY DEF ServeGroup, deviceVars, pastVars
<1>3. ASSUME NEW c \in clients
      PROVE  image(c).id = c.id /\ image(c).tenant = c.tenant /\ image(c).groups = groups(c)
  <2>1. c \in Clients
    BY TypeParts DEF TypeOfHub
  <2>2. QED
    BY <2>1 DEF Clients
<1> HIDE DEF image
<1>4. {c.id : c \in clients'} = {c.id : c \in clients}
  BY <1>1, <1>3
<1>5. PresenceAgrees' /\ TimersCurrent' /\ ViewOwn'
  BY <1>2, <1>4 DEF Parts, PresenceAgrees, TimersCurrent, ViewOwn
<1>6. Numbered'
  <2>1. \A d \in Devices : source'[d] <= streams'
    BY <1>2 DEF Parts, Numbered
  <2>2. \A c \in clients' : 0 < c.id /\ c.id <= streams'
    BY <1>1, <1>2, <1>3 DEF Parts, Numbered
  <2>3. ASSUME NEW c \in clients', NEW e \in clients', c.id = e.id PROVE c = e
    <3>1. PICK a, b \in clients : c = image(a) /\ e = image(b)
      BY <1>1
    <3>2. a.id = b.id
      BY <1>3, <2>3, <3>1
    <3>3. a = b
      BY <3>2 DEF Parts, Numbered
    <3>4. QED
      BY <3>1, <3>3
  <2>4. ASSUME NEW q \in requests', q.kind = "stream"
        PROVE  /\ 0 < q.id /\ q.id <= streams' /\ \A c \in clients' : c.id # q.id
               /\ \A k \in requests' : k.kind = "stream" /\ k.id = q.id => k = q
    <3>1. q \in requests
      BY <1>1, <2>4
    <3>2. /\ 0 < q.id /\ q.id <= streams /\ \A c \in clients : c.id # q.id
          /\ \A k \in requests : k.kind = "stream" /\ k.id = q.id => k = q
      BY <2>4, <3>1 DEF Parts, Numbered
    <3>3. \A c \in clients' : c.id # q.id
      BY <1>1, <1>3, <3>2
    <3>4. QED
      BY <1>1, <1>2, <3>2, <3>3
  <2>5. QED
    BY <2>1, <2>2, <2>3, <2>4 DEF Numbered
<1>7. LeavesElsewhere'
  BY <1>1, <1>2 DEF Parts, LeavesElsewhere
<1>8. ASSUME NEW d \in Devices PROVE StreamOf(d)' = {image(c) : c \in StreamOf(d)}
  BY <1>1, <1>2, <1>3 DEF StreamOf
<1>9. ASSUME NEW d \in Devices PROVE Started(d)' = Started(d)
  <2>1. ASSUME NEW t \in Tenants
        PROVE  (\E c \in StreamOf(d)' : c.tenant = t) <=> (\E c \in StreamOf(d) : c.tenant = t)
    <3>1. StreamOf(d) \subseteq clients
      BY DEF StreamOf
    <3>2. \A c \in StreamOf(d) : image(c).tenant = c.tenant
      BY <1>3, <3>1
    <3>3. QED
      BY <1>8, <3>2
  <2>2. \A t \in Tenants : StreamRequest(source[d], t).kind = "stream"
    BY StreamRequestType DEF TypeOK
  <2>3. \A t \in Tenants : StreamRequest(source[d], t) \in requests' <=> StreamRequest(source[d], t) \in requests
    BY <1>1, <2>2
  <2>4. QED
    BY <1>2, <2>1, <2>3 DEF Started
<1>10. NeverCutOff'
  BY <1>2, <1>9 DEF Parts, NeverCutOff
<1>11. ViewFed'
  <2>1. SUFFICES ASSUME NEW d \in Devices, view'[d] # None, ~clash', ~stale', NEW c \in StreamOf(d)'
                 PROVE  view'[d] \in c.groups
    BY DEF ViewFed
  <2>2. PICK e \in StreamOf(d) : c = image(e)
    BY <1>8, <2>1
  <2>3. view[d] \in e.groups
    BY <1>2, <2>1 DEF Parts, ViewFed
  <2>4. r.kind = "leave" => r.channel # view[d]
    BY <1>2, <2>1 DEF Parts, LeavesElsewhere
  <2>5. view[d] \in groups(e)
    BY <1>1, <2>3, <2>4
  <2>6. c.groups = groups(e)
    BY <1>3, <2>2 DEF StreamOf
  <2>7. QED
    BY <1>2, <2>5, <2>6
<1>12. QED
  BY <1>5, <1>6, <1>7, <1>10, <1>11 DEF Parts

(* The devices. *)

\* A stream that is started has a number of its own; the others stay as they were.
LEMMA StartStreams ==
  ASSUME TypeOK, TypeOK', Parts, NEW d \in Devices, NEW t \in Tenants, NEW more \in SUBSET Requests,
         \A r \in more : r.kind # "stream", Start(d, t, more), clients' = clients
  PROVE  /\ Numbered'
         /\ source'[d] # 0 /\ StreamOf(d)' = {} /\ Started(d)' = {t}
         /\ \A e \in Devices \ {d} :
              source'[e] = source[e] /\ StreamOf(e)' = StreamOf(e) /\ Started(e)' = Started(e)
<1> DEFINE new == StreamRequest(streams + 1, t)
<1>1. streams \in Nat /\ streams' = streams + 1 /\ streams' \in Nat /\ streams < streams' /\ streams' # 0
  BY DEF TypeOK, Start
<1>2. /\ requests' = requests \cup {new} \cup more
      /\ source' = [source EXCEPT ![d] = streams']
  BY DEF Start
<1>3. new \in Requests /\ new.kind = "stream" /\ new.id = streams' /\ new.tenant = t
  BY <1>1, StreamRequestType
<1>4. source'[d] = streams' /\ \A e \in Devices \ {d} : source'[e] = source[e]
  BY <1>2 DEF TypeOK
<1>5. ASSUME NEW c \in clients PROVE c.id \in Nat /\ 0 < c.id /\ c.id <= streams /\ c.id # streams'
  <2>1. c.id \in Nat
    BY TypeParts DEF TypeOfHub, Clients
  <2>2. 0 < c.id /\ c.id <= streams
    BY DEF Parts, Numbered
  <2>3. QED
    BY <1>1, <2>1, <2>2
<1>6. ASSUME NEW q \in requests, q.kind = "stream" PROVE q.id \in Nat /\ 0 < q.id /\ q.id <= streams /\ q.id # streams'
  <2>1. q.id \in Nat
    BY <1>6, RequestFields DEF TypeOK
  <2>2. 0 < q.id /\ q.id <= streams
    BY <1>6 DEF Parts, Numbered
  <2>3. QED
    BY <1>1, <2>1, <2>2
<1>7. ASSUME NEW e \in Devices PROVE source[e] \in Nat /\ source[e] <= streams /\ source[e] # streams'
  <2>1. source[e] \in Nat /\ source[e] <= streams
    BY DEF TypeOK, Parts, Numbered
  <2>2. QED
    BY <1>1, <2>1
<1>8. Numbered'
  <2>1. ASSUME NEW e \in Devices PROVE source'[e] <= streams'
    <3>1. CASE e = d
      BY <1>1, <1>4, <3>1
    <3>2. CASE e # d
      <4>1. source'[e] = source[e]
        BY <1>4, <3>2
      <4>2. QED
        BY <1>1, <1>7, <4>1
    <3>3. QED
      BY <3>1, <3>2
  <2>2. ASSUME NEW c \in clients' PROVE 0 < c.id /\ c.id <= streams'
    BY <1>1, <1>5
  <2>3. \A c, e \in clients' : c.id = e.id => c = e
    BY DEF Parts, Numbered
  <2>4. ASSUME NEW q \in requests', q.kind = "stream"
        PROVE  /\ 0 < q.id /\ q.id <= streams' /\ \A c \in clients' : c.id # q.id
               /\ \A k \in requests' : k.kind = "stream" /\ k.id = q.id => k = q
    <3>1. CASE q = new
      <4>1. 0 < q.id /\ q.id <= streams'
        BY <1>1, <1>3, <3>1
      <4>2. \A c \in clients' : c.id # q.id
        BY <1>3, <1>5, <3>1
      <4>3. \A k \in requests' : k.kind = "stream" /\ k.id = q.id => k = q
        BY <1>2, <1>3, <1>6, <3>1
      <4>4. QED
        BY <4>1, <4>2, <4>3
    <3>2. CASE q # new
      <4>1. q \in requests
        BY <1>2, <2>4, <3>2
      <4>2. q.id \in Nat /\ 0 < q.id /\ q.id <= streams /\ q.id # streams'
        BY <1>6, <2>4, <4>1
      <4>3. q.id <= streams'
        BY <1>1, <4>2
      <4>4. \A c \in clients' : c.id # q.id
        BY <2>4, <4>1 DEF Parts, Numbered
      <4>5. \A k \in requests' : k.kind = "stream" /\ k.id = q.id => k = q
        BY <1>2, <1>3, <2>4, <4>1, <4>2 DEF Parts, Numbered
      <4>6. QED
        BY <4>2, <4>3, <4>4, <4>5
    <3>3. QED
      BY <3>1, <3>2
  <2>5. QED
    BY <2>1, <2>2, <2>3, <2>4 DEF Numbered
<1>9. StreamOf(d)' = {}
  BY <1>4, <1>5 DEF StreamOf
<1>10. Started(d)' = {t}
  <2>1. ASSUME NEW k \in Tenants PROVE StreamRequest(streams', k) \in requests' <=> k = t
    <3>1. StreamRequest(streams', k).kind = "stream" /\ StreamRequest(streams', k).id = streams'
          /\ StreamRequest(streams', k).tenant = k
      BY <1>1, StreamRequestType
    <3>2. StreamRequest(streams', k) \notin requests \cup more
      BY <1>6, <3>1
    <3>3. StreamRequest(streams', k) = new <=> k = t
      BY <1>1, <1>3, <3>1
    <3>4. QED
      BY <1>2, <3>2, <3>3
  <2>2. QED
    BY <1>4, <1>9, <2>1 DEF Started
<1>11. ASSUME NEW e \in Devices \ {d} PROVE StreamOf(e)' = StreamOf(e) /\ Started(e)' = Started(e)
  <2>1. StreamOf(e)' = StreamOf(e)
    BY <1>4 DEF StreamOf
  <2>2. ASSUME NEW k \in Tenants PROVE StreamRequest(source[e], k) \in requests' <=> StreamRequest(source[e], k) \in requests
    <3>1. StreamRequest(source[e], k).kind = "stream" /\ StreamRequest(source[e], k).id = source[e]
      BY <1>7, StreamRequestType
    <3>2. StreamRequest(source[e], k) # new /\ StreamRequest(source[e], k) \notin more
      BY <1>3, <1>7, <3>1
    <3>3. QED
      BY <1>2, <3>2
  <2>3. QED
    BY <1>4, <2>1, <2>2 DEF Started
<1>12. QED
  BY <1>1, <1>4, <1>8, <1>9, <1>10, <1>11

\* A device without a stream: the others stay as they were.
LEMMA StopStreams ==
  ASSUME TypeOK, TypeOK', Parts, NEW d \in Devices, source' = [source EXCEPT ![d] = 0], clients' = clients,
         streams' = streams, NEW more \in SUBSET Requests, requests' = requests \cup more,
         \A r \in more : r.kind # "stream"
  PROVE  /\ Numbered'
         /\ source'[d] = 0 /\ StreamOf(d)' = {}
         /\ \A e \in Devices \ {d} :
              source'[e] = source[e] /\ StreamOf(e)' = StreamOf(e) /\ Started(e)' = Started(e)
<1>1. source'[d] = 0 /\ \A e \in Devices \ {d} : source'[e] = source[e]
  BY DEF TypeOK
<1>2. Numbered'
  <2>1. ASSUME NEW e \in Devices PROVE source'[e] <= streams'
    <3>1. CASE e = d
      BY <1>1, <3>1 DEF TypeOK
    <3>2. CASE e # d
      BY <1>1, <3>2 DEF Parts, Numbered
    <3>3. QED
      BY <3>1, <3>2
  <2>2. QED
    BY <2>1 DEF Parts, Numbered
<1>3. StreamOf(d)' = {}
  <2>1. \A c \in clients : c.id # 0
    <3>1. \A c \in clients : c.id \in Nat /\ 0 < c.id
      BY TypeParts DEF TypeOfHub, Clients, Parts, Numbered
    <3>2. QED
      BY <3>1
  <2>2. QED
    BY <1>1, <2>1 DEF StreamOf
<1>4. ASSUME NEW e \in Devices \ {d} PROVE StreamOf(e)' = StreamOf(e) /\ Started(e)' = Started(e)
  <2>1. StreamOf(e)' = StreamOf(e)
    BY <1>1 DEF StreamOf
  <2>2. \A k \in Tenants : StreamRequest(source[e], k).kind = "stream"
    BY StreamRequestType DEF TypeOK
  <2>3. \A k \in Tenants : StreamRequest(source[e], k) \in requests' <=> StreamRequest(source[e], k) \in requests
    BY <2>2
  <2>4. QED
    BY <1>1, <2>1, <2>3 DEF Started
<1>5. QED
  BY <1>1, <1>2, <1>3, <1>4

\* A device moves to channel c, or away from all: its leave is of no channel that
\* is in view afterwards, or a clash is noted.
LEMMA MoveLeaves ==
  ASSUME TypeOK, Parts, NEW d \in Devices, NEW c \in Channels \cup {None}, NoteClash(d, c),
         view' = [view EXCEPT ![d] = c], view[d] = None \/ view[d] # c,
         \A r \in requests' : r.kind = "leave" => r \in requests \cup Leaving(d)
  PROVE  LeavesElsewhere'
<1>1. SUFFICES ASSUME ~clash', NEW r \in requests', NEW e \in Devices, r.kind = "leave", r.channel = view'[e] PROVE FALSE
  BY DEF LeavesElsewhere
<1>2. /\ ~clash /\ \A q \in requests : q.kind = "leave" => q.channel # c
      /\ \A f \in Devices \ {d} : view[f] = None \/ view[f] # view[d]
  BY <1>1 DEF NoteClash
<1>3. view'[d] = c /\ \A f \in Devices \ {d} : view'[f] = view[f]
  BY DEF TypeOK
<1>4. CASE r \in requests
  <2>1. r.channel # view[e]
    BY <1>1, <1>2, <1>4 DEF Parts, LeavesElsewhere
  <2>2. QED
    BY <1>1, <1>2, <1>3, <1>4, <2>1
<1>5. CASE r \in Leaving(d)
  <2>1. view[d] # None /\ r.channel = view[d]
    BY <1>5, LeavingType
  <2>2. QED
    BY <1>1, <1>2, <1>3, <2>1
<1>6. QED
  BY <1>1, <1>4, <1>5

\* What is to be shown of the device that acts.
Own(d) ==
    /\ StreamOf(d) = {}
    /\ IF ident[d] = None THEN source[d] = 0 /\ timer[d] = None
       ELSE stale \/ (IF source[d] = 0 THEN timer[d] = ident[d] ELSE Started(d) = {ident[d]})
    /\ ~stale => timer[d] \in {None, ident[d]}
    /\ view[d] # None => TenantOf[view[d]] = ident[d]

LEMMA DeviceParts ==
  ASSUME Parts, NEW d \in Devices, PresenceAgrees', Numbered', LeavesElsewhere', Own(d)',
         stale => stale', clash => clash',
         \A e \in Devices \ {d} :
           /\ source'[e] = source[e] /\ StreamOf(e)' = StreamOf(e) /\ Started(e)' = Started(e)
           /\ timer'[e] = timer[e] /\ ident'[e] = ident[e] /\ view'[e] = view[e]
  PROVE  Parts'
<1>1. NeverCutOff'
  <2>1. ASSUME NEW e \in Devices
        PROVE  (IF ident[e] = None THEN source[e] = 0 /\ timer[e] = None
                ELSE stale \/ (IF source[e] = 0 THEN timer[e] = ident[e] ELSE Started(e) = {ident[e]}))'
    <3>1. CASE e = d
      BY <3>1 DEF Own
    <3>2. CASE e # d
      BY <3>2 DEF Parts, NeverCutOff
    <3>3. QED
      BY <3>1, <3>2
  <2>2. QED
    BY <2>1 DEF NeverCutOff
<1>2. TimersCurrent'
  BY DEF Own, Parts, TimersCurrent
<1>3. ViewOwn'
  BY DEF Own, Parts, ViewOwn
<1>4. ViewFed'
  <2>1. SUFFICES ASSUME NEW e \in Devices, view'[e] # None, ~clash', ~stale', NEW c \in StreamOf(e)'
                 PROVE  view'[e] \in c.groups
    BY DEF ViewFed
  <2>2. e # d
    BY <2>1 DEF Own
  <2>3. c \in StreamOf(e) /\ view'[e] = view[e]
    BY <2>1, <2>2
  <2>4. QED
    BY <2>1, <2>3 DEF Parts, ViewFed
<1>5. QED
  BY <1>1, <1>2, <1>3, <1>4 DEF Parts

LEMMA SignInParts == ASSUME TypeOK, TypeOK', Parts, NEW d \in Devices, SignIn(d) PROVE Parts'
<1>1. /\ ident[d] = None /\ ident' = [ident EXCEPT ![d] = home] /\ Start(d, home, {}) /\ home \in Tenants
      /\ presence' = "Online" /\ greeted' = (greeted \/ tracked = {})
  BY DEF SignIn, TypeOK
<1>2. UNCHANGED <<clients, tracked, timer, view, stale, clash>>
  BY DEF SignIn
<1>3. /\ Numbered' /\ source'[d] # 0 /\ StreamOf(d)' = {} /\ Started(d)' = {home}
      /\ \A e \in Devices \ {d} : source'[e] = source[e] /\ StreamOf(e)' = StreamOf(e) /\ Started(e)' = Started(e)
  BY <1>1, <1>2, StartStreams
<1>4. ident'[d] = home /\ home # None /\ \A e \in Devices \ {d} : ident'[e] = ident[e]
  BY <1>1, TenantAssumption DEF TypeOK
<1>5. PresenceAgrees'
  <2>1. tracked' = {c.id : c \in clients'}
    BY <1>2 DEF Parts, PresenceAgrees
  <2>2. tracked' = {} => greeted'
    BY <1>1, <1>2
  <2>3. QED
    BY <1>1, <2>1, <2>2 DEF PresenceAgrees
<1>6. LeavesElsewhere'
  <2>1. ASSUME NEW r \in requests', r.kind = "leave" PROVE r \in requests
    <3>1. StreamRequest(streams + 1, home).kind = "stream"
      BY <1>1, StreamRequestType DEF TypeOK
    <3>2. QED
      BY <1>1, <2>1, <3>1 DEF Start
  <2>2. QED
    BY <1>2, <2>1 DEF Parts, LeavesElsewhere
<1>7. timer[d] = None
  BY <1>1 DEF Parts, NeverCutOff
<1>8. view[d] = None
  <2>1. view[d] # None => TenantOf[view[d]] \in Tenants
    BY TenantAssumption DEF TypeOK
  <2>2. view[d] # None => TenantOf[view[d]] = None
    BY <1>1 DEF Parts, ViewOwn
  <2>3. QED
    BY <2>1, <2>2, TenantAssumption
<1>9. Own(d)'
  BY <1>2, <1>3, <1>4, <1>7, <1>8 DEF Own
<1>10. QED
  BY <1>2, <1>3, <1>4, <1>5, <1>6, <1>9, DeviceParts

\* What a device asks for when it looks at another channel.
LEMMA ViewRequests ==
  ASSUME TypeOK, NEW d \in Devices, NEW c \in Channels
  PROVE  LET more == Leaving(d) \cup {GroupRequest("join", c, acts), ListRequest(d, loads[d] + 1, c)}
         IN  /\ more \in SUBSET Requests
             /\ \A r \in more : r.kind # "stream" /\ (r.kind = "leave" => r \in Leaving(d))
<1>1. acts \in Nat /\ loads[d] + 1 \in Nat
  BY DEF TypeOK
<1>2. GroupRequest("join", c, acts) \in Requests /\ GroupRequest("join", c, acts).kind = "join"
  BY <1>1, GroupRequestType
<1>3. ListRequest(d, loads[d] + 1, c) \in Requests /\ ListRequest(d, loads[d] + 1, c).kind = "load"
  BY <1>1, ListRequestType
<1>4. Leaving(d) \subseteq Requests /\ \A r \in Leaving(d) : r.kind = "leave"
  BY LeavingType
<1>5. QED
  BY <1>2, <1>3, <1>4

LEMMA ViewParts == ASSUME TypeOK, TypeOK', Parts, NEW d \in Devices, NEW c \in Channels, View(d, c) PROVE Parts'
<1> DEFINE more == Leaving(d) \cup {GroupRequest("join", c, acts), ListRequest(d, loads[d] + 1, c)}
<1>1. /\ ident[d] # None /\ view[d] # c /\ TenantOf[c] = ident[d] /\ view' = [view EXCEPT ![d] = c]
      /\ Start(d, ident[d], more) /\ NoteClash(d, c)
  BY DEF View
<1>2. UNCHANGED <<clients, tracked, presence, greeted, timer, ident, stale>>
  BY DEF View, hubVars
<1>3. ident[d] \in Tenants /\ c # None
  BY <1>1, TenantAssumption DEF TypeOK
<1>4. more \in SUBSET Requests /\ \A r \in more : r.kind # "stream" /\ (r.kind = "leave" => r \in Leaving(d))
  BY ViewRequests
<1> HIDE DEF more
<1>5. /\ Numbered' /\ source'[d] # 0 /\ StreamOf(d)' = {} /\ Started(d)' = {ident[d]}
      /\ \A e \in Devices \ {d} : source'[e] = source[e] /\ StreamOf(e)' = StreamOf(e) /\ Started(e)' = Started(e)
  BY <1>1, <1>2, <1>3, <1>4, StartStreams
<1>6. PresenceAgrees'
  BY <1>2 DEF Parts, PresenceAgrees
<1>7. LeavesElsewhere'
  <2>1. ASSUME NEW r \in requests', r.kind = "leave" PROVE r \in requests \cup Leaving(d)
    <3>1. StreamRequest(streams + 1, ident[d]).kind = "stream"
      BY <1>3, StreamRequestType DEF TypeOK
    <3>2. QED
      BY <1>1, <1>4, <2>1, <3>1 DEF Start
  <2>2. QED
    BY <1>1, <2>1, MoveLeaves
<1>8. view'[d] = c /\ \A e \in Devices \ {d} : view'[e] = view[e]
  BY <1>1 DEF TypeOK
<1>9. ~stale => timer[d] \in {None, ident[d]}
  BY DEF Parts, TimersCurrent
<1>10. Own(d)'
  BY <1>1, <1>2, <1>5, <1>8, <1>9 DEF Own
<1>11. clash => clash'
  BY <1>1 DEF NoteClash
<1>12. QED
  BY <1>2, <1>5, <1>6, <1>7, <1>8, <1>10, <1>11, DeviceParts

\* A switch of the organization leaves no timer of the old one, or that is noted.
LEMMA SwitchParts == ASSUME TypeOK, TypeOK', Parts, NEW d \in Devices, NEW t \in Tenants, Switch(d, t) PROVE Parts'
<1>1. /\ ident' = [ident EXCEPT ![d] = t] /\ view' = [view EXCEPT ![d] = None]
      /\ Start(d, t, Leaving(d)) /\ NoteClash(d, None) /\ stale' = (stale \/ timer[d] # None)
  BY DEF Switch
<1>2. UNCHANGED <<clients, tracked, presence, greeted, timer>>
  BY DEF Switch
<1>3. Leaving(d) \in SUBSET Requests /\ \A r \in Leaving(d) : r.kind # "stream"
  BY LeavingType
<1>4. /\ Numbered' /\ source'[d] # 0 /\ StreamOf(d)' = {} /\ Started(d)' = {t}
      /\ \A e \in Devices \ {d} : source'[e] = source[e] /\ StreamOf(e)' = StreamOf(e) /\ Started(e)' = Started(e)
  BY <1>1, <1>2, <1>3, StartStreams
<1>5. PresenceAgrees'
  BY <1>2 DEF Parts, PresenceAgrees
<1>6. LeavesElsewhere'
  <2>1. ASSUME NEW r \in requests', r.kind = "leave" PROVE r \in requests \cup Leaving(d)
    <3>1. StreamRequest(streams + 1, t).kind = "stream"
      BY StreamRequestType DEF TypeOK
    <3>2. QED
      BY <1>1, <2>1, <3>1 DEF Start
  <2>2. QED
    BY <1>1, <2>1, MoveLeaves
<1>7. /\ ident'[d] = t /\ t # None /\ view'[d] = None
      /\ \A e \in Devices \ {d} : ident'[e] = ident[e] /\ view'[e] = view[e]
  BY <1>1, TenantAssumption DEF TypeOK
<1>8. Own(d)'
  BY <1>1, <1>2, <1>4, <1>7 DEF Own
<1>9. (stale => stale') /\ (clash => clash')
  BY <1>1 DEF NoteClash
<1>10. QED
  BY <1>2, <1>4, <1>5, <1>6, <1>7, <1>8, <1>9, DeviceParts

LEMMA SignOutParts == ASSUME TypeOK, TypeOK', Parts, NEW d \in Devices, SignOut(d) PROVE Parts'
<1>1. /\ ident' = [ident EXCEPT ![d] = None] /\ view' = [view EXCEPT ![d] = None]
      /\ source' = [source EXCEPT ![d] = 0] /\ timer' = [timer EXCEPT ![d] = None]
      /\ requests' = requests \cup Leaving(d) /\ NoteClash(d, None)
  BY DEF SignOut
<1>2. UNCHANGED <<clients, tracked, presence, greeted, streams, stale>>
  BY DEF SignOut, hubVars
<1>3. Leaving(d) \in SUBSET Requests /\ \A r \in Leaving(d) : r.kind # "stream"
  BY LeavingType
<1>4. /\ Numbered' /\ source'[d] = 0 /\ StreamOf(d)' = {}
      /\ \A e \in Devices \ {d} : source'[e] = source[e] /\ StreamOf(e)' = StreamOf(e) /\ Started(e)' = Started(e)
  BY <1>1, <1>2, <1>3, StopStreams
<1>5. PresenceAgrees'
  BY <1>2 DEF Parts, PresenceAgrees
<1>6. LeavesElsewhere'
  BY <1>1, MoveLeaves
<1>7. /\ ident'[d] = None /\ view'[d] = None /\ timer'[d] = None
      /\ \A e \in Devices \ {d} : ident'[e] = ident[e] /\ view'[e] = view[e] /\ timer'[e] = timer[e]
  BY <1>1 DEF TypeOK
<1>8. Own(d)'
  BY <1>4, <1>7 DEF Own
<1>9. clash => clash'
  BY <1>1 DEF NoteClash
<1>10. QED
  BY <1>2, <1>4, <1>5, <1>6, <1>7, <1>8, <1>9, DeviceParts

\* The timer is set for the organization the stream was of, which is that of the device.
LEMMA BreakParts == ASSUME TypeOK, TypeOK', Parts, NEW d \in Devices, Break(d) PROVE Parts'
<1>1. source[d] # 0 /\ source' = [source EXCEPT ![d] = 0]
  BY DEF Break
<1>2. PICK t \in Started(d) : timer' = [timer EXCEPT ![d] = IF @ = None THEN t ELSE @]
  BY DEF Break
<1>3. UNCHANGED <<clients, tracked, presence, greeted, requests, ident, view, streams, stale, clash>>
  BY DEF Break, hubVars
<1>4. /\ Numbered' /\ source'[d] = 0 /\ StreamOf(d)' = {}
      /\ \A e \in Devices \ {d} : source'[e] = source[e] /\ StreamOf(e)' = StreamOf(e) /\ Started(e)' = Started(e)
  <2>1. requests' = requests \cup {} /\ {} \in SUBSET Requests
    BY <1>3
  <2>2. QED
    BY <1>1, <1>3, <2>1, StopStreams
<1>5. PresenceAgrees' /\ LeavesElsewhere'
  BY <1>3 DEF Parts, PresenceAgrees, LeavesElsewhere
<1>6. timer'[d] = (IF timer[d] = None THEN t ELSE timer[d]) /\ \A e \in Devices \ {d} : timer'[e] = timer[e]
  BY <1>2 DEF TypeOK
<1>7. ident[d] # None
  BY <1>1 DEF Parts, NeverCutOff
<1>8. ~stale => t = ident[d]
  BY <1>1, <1>2, <1>7 DEF Parts, NeverCutOff
<1>9. ~stale => timer'[d] = ident[d]
  BY <1>6, <1>8 DEF Parts, TimersCurrent
<1>10. Own(d)'
  BY <1>3, <1>4, <1>7, <1>9 DEF Own, Parts, ViewOwn
<1>11. QED
  BY <1>3, <1>4, <1>5, <1>6, <1>10, DeviceParts

LEMMA ReconnectParts == ASSUME TypeOK, TypeOK', Parts, NEW d \in Devices, Reconnect(d) PROVE Parts'
<1>1. timer[d] # None /\ timer' = [timer EXCEPT ![d] = None] /\ Start(d, timer[d], {})
  BY DEF Reconnect
<1>2. UNCHANGED <<clients, tracked, presence, greeted, ident, view, stale, clash>>
  BY DEF Reconnect, hubVars
<1>3. timer[d] \in Tenants
  BY <1>1 DEF TypeOK
<1>4. /\ Numbered' /\ source'[d] # 0 /\ StreamOf(d)' = {} /\ Started(d)' = {timer[d]}
      /\ \A e \in Devices \ {d} : source'[e] = source[e] /\ StreamOf(e)' = StreamOf(e) /\ Started(e)' = Started(e)
  BY <1>1, <1>2, <1>3, StartStreams
<1>5. PresenceAgrees'
  BY <1>2 DEF Parts, PresenceAgrees
<1>6. LeavesElsewhere'
  <2>1. ASSUME NEW r \in requests', r.kind = "leave" PROVE r \in requests
    <3>1. StreamRequest(streams + 1, timer[d]).kind = "stream"
      BY <1>3, StreamRequestType DEF TypeOK
    <3>2. QED
      BY <1>1, <2>1, <3>1 DEF Start
  <2>2. QED
    BY <1>2, <2>1 DEF Parts, LeavesElsewhere
<1>7. timer'[d] = None /\ \A e \in Devices \ {d} : timer'[e] = timer[e]
  BY <1>1 DEF TypeOK
<1>8. ident[d] # None /\ (~stale => timer[d] = ident[d])
  BY <1>1 DEF Parts, NeverCutOff, TimersCurrent
<1>9. Own(d)'
  BY <1>2, <1>4, <1>7, <1>8 DEF Own, Parts, ViewOwn
<1>10. QED
  BY <1>2, <1>4, <1>5, <1>6, <1>7, <1>9, DeviceParts

(* The theorems. *)
LEMMA InvStep == Inv /\ [Next]_vars => Inv'
<1> SUFFICES ASSUME Inv, [Next]_vars PROVE Inv'
  OBVIOUS
<1>1. TypeOK /\ TypeOK' /\ Parts
  BY TypeStep DEF Inv, Parts
<1>2. Parts'
  BY <1>1, RegisterParts, UnregisterParts, AbandonParts, ServeGroupParts, SignInParts, ViewParts, SwitchParts,
     SignOutParts, BreakParts, ReconnectParts, ElsewhereSteps DEF Next, Serve
<1>3. QED
  BY <1>1, <1>2 DEF Inv, Parts

LEMMA InitInv == Init => Inv
<1> SUFFICES ASSUME Init PROVE Inv
  OBVIOUS
<1>1. TypeOK
  BY InitType
<1>2. PresenceAgrees /\ Numbered /\ TimersCurrent /\ ViewOwn /\ LeavesElsewhere
  BY DEF Init, PresenceAgrees, Numbered, TimersCurrent, ViewOwn, LeavesElsewhere
<1>3. NeverCutOff /\ ViewFed
  BY DEF Init, NeverCutOff, ViewFed
<1>4. QED
  BY <1>1, <1>2, <1>3 DEF Inv

LEMMA InvHolds == Spec => []Inv
  BY InitInv, InvStep, PTL DEF Spec

\* However streams come and go, the tracker knows exactly the streams of the
\* user, who is Online while there is one and Offline when the last is gone.
THEOREM PresenceIsRight == Spec => []PresenceAgrees
<1>1. Inv => PresenceAgrees
  BY DEF Inv
<1>2. QED
  BY <1>1, InvHolds, PTL

\* The stream of a device has the group of the channel in view, in whatever
\* order joins, leaves and streams are served.
THEOREM ViewIsFed == Spec => []ViewFed
<1>1. Inv => ViewFed
  BY DEF Inv
<1>2. QED
  BY <1>1, InvHolds, PTL

\* A device that is signed in holds a stream of its organization or a timer that
\* will start one; a device that is signed out holds neither.
THEOREM NobodyIsCutOff == Spec => []NeverCutOff
<1>1. Inv => NeverCutOff
  BY DEF Inv
<1>2. QED
  BY <1>1, InvHolds, PTL

(***************************************************************************)
(* What a device shows.  A list asked for has a number of its own, so that *)
(* the one asked for last is of the channel in view; while it is under     *)
(* way whatever happens to the channel is either in it or noted as missed. *)
(***************************************************************************)
NumbersOf(d) ==
    /\ shown[d] <= loads[d]
    /\ \A r \in ListsOf(d) : r.n <= loads[d] /\ r.n # shown[d]
    /\ \A r, q \in ListsOf(d) : r.n = q.n => r = q
OfView(d) ==
    view[d] # None =>
      /\ shown[d] = loads[d] => \A m \in list[d] : ChannelOf[m] = view[d]
      /\ \A r \in ListsOf(d) : r.n = loads[d] =>
           IF r.kind = "load" THEN r.channel = view[d] ELSE \A m \in r.messages : ChannelOf[m] = view[d]
Missed(d) ==
    view[d] # None /\ ~gap[d] =>
      \A m \in store : ChannelOf[m] = view[d] =>
        /\ shown[d] = loads[d] => m \in list[d] \/ Fed(d, m)
        /\ \A r \in ListsOf(d) : r.kind = "list" /\ r.n = loads[d] => m \in r.messages
ListOf(d) == NumbersOf(d) /\ OfView(d) /\ Missed(d)

\* The invariant of the lists, device by device.
LEMMA ListParts == ListInv <=> \A d \in Devices : ListOf(d)
  BY DEF ListInv, ListsNumbered, ListsOfView, NothingMissed, ListOf, NumbersOf, OfView, Missed

\* A device whose lists and view stay as they are keeps its part, and so does
\* one that has no view any more.
LEMMA ListKept ==
  ASSUME NEW d \in Devices, ListOf(d), ListsOf(d)' = ListsOf(d), shown'[d] = shown[d], loads'[d] = loads[d],
         view'[d] = view[d], list'[d] = list[d], gap'[d] = gap[d], feed'[d] = feed[d], store' = store
  PROVE  ListOf(d)'
<1>1. NumbersOf(d)'
  BY DEF ListOf, NumbersOf
<1>2. OfView(d)'
  BY DEF ListOf, OfView
<1>3. \A m : Fed(d, m)' <=> Fed(d, m)
  BY DEF Fed
<1>4. Missed(d)'
  BY <1>3 DEF ListOf, Missed
<1>5. QED
  BY <1>1, <1>2, <1>4 DEF ListOf

LEMMA NoViewKept ==
  ASSUME NEW d \in Devices, ListOf(d), ListsOf(d)' = ListsOf(d), shown'[d] = shown[d], loads'[d] = loads[d],
         view'[d] = None
  PROVE  ListOf(d)'
<1>1. NumbersOf(d)'
  BY DEF ListOf, NumbersOf
<1>2. QED
  BY <1>1 DEF ListOf, OfView, Missed

\* The stream of a device is closed: what it has not read is noted as missed.
LEMMA ClosedKept ==
  ASSUME NEW d \in Devices, ListOf(d), ListsOf(d)' = ListsOf(d), shown'[d] = shown[d], loads'[d] = loads[d],
         view'[d] = view[d], list'[d] = list[d], gap'[d] = (gap[d] \/ feed[d] # <<>>), store' = store
  PROVE  ListOf(d)'
<1>1. NumbersOf(d)'
  BY DEF ListOf, NumbersOf
<1>2. OfView(d)'
  BY DEF ListOf, OfView
<1>3. Missed(d)'
  <2> SUFFICES ASSUME view'[d] # None, ~gap'[d], NEW m \in store', ChannelOf[m] = view'[d]
               PROVE  /\ shown'[d] = loads'[d] => m \in list'[d]
                      /\ \A r \in ListsOf(d)' : r.kind = "list" /\ r.n = loads'[d] => m \in r.messages
    BY DEF Missed
  <2>1. ~gap[d] /\ feed[d] = <<>>
    OBVIOUS
  <2>2. ~Fed(d, m)
    BY <2>1 DEF Fed
  <2>3. QED
    BY <2>1, <2>2 DEF ListOf, Missed
<1>4. QED
  BY <1>1, <1>2, <1>3 DEF ListOf

\* Which requests are lists.
LEMMA SameLists ==
  ASSUME NEW d \in Devices, NEW A, NEW B, requests' = (requests \ A) \cup B,
         \A r \in A \cup B : r.kind \notin {"load", "list"} \/ r.device # d
  PROVE  ListsOf(d)' = ListsOf(d)
  BY DEF ListsOf

LEMMA StartLists ==
  ASSUME TypeOK, NEW d \in Devices, NEW e \in Devices, NEW t \in Tenants, NEW more, Start(d, t, more),
         \A r \in more : r.kind \notin {"load", "list"} \/ r.device # e
  PROVE  ListsOf(e)' = ListsOf(e) /\ feed'[d] = <<>> /\ (e # d => feed'[e] = feed[e])
<1>1. StreamRequest(streams + 1, t).kind = "stream"
  BY DEF StreamRequest
<1>2. requests' = (requests \ {}) \cup ({StreamRequest(streams + 1, t)} \cup more)
  BY DEF Start
<1>3. \A r \in {} \cup ({StreamRequest(streams + 1, t)} \cup more) : r.kind \notin {"load", "list"} \/ r.device # e
  BY <1>1
<1>4. ListsOf(e)' = ListsOf(e)
  BY <1>2, <1>3, SameLists
<1>5. QED
  BY <1>4 DEF Start, TypeOK

\* The lists of every device keep their part, one action at a time.
ListStep == \A d \in Devices : ListOf(d)'

\* Nothing but streams, groups and the tracker change.
LEMMA HubLists ==
  ASSUME TypeOK, ListInv, NEW A, NEW B, requests' = (requests \ A) \cup B,
         \A r \in A \cup B : r.kind \notin {"load", "list"},
         UNCHANGED <<storeVars, feed, deviceVars, gap>>
  PROVE  ListStep
<1> SUFFICES ASSUME NEW d \in Devices PROVE ListOf(d)'
  BY DEF ListStep
<1>1. ListOf(d)
  BY ListParts
<1>2. ListsOf(d)' = ListsOf(d)
  BY SameLists
<1>3. QED
  BY <1>1, <1>2, ListKept DEF storeVars, deviceVars

LEMMA ElsewhereLists ==
  ASSUME TypeOK, ListInv,
         \/ UNCHANGED vars
         \/ \E c \in clients : Unregister(c)
         \/ \E r \in requests : Register(r) \/ ServeGroup(r) \/ Abandon(r)
  PROVE  ListStep
<1>1. CASE UNCHANGED vars \/ \E c \in clients : Unregister(c)
  <2>1. requests' = (requests \ {}) \cup {} /\ UNCHANGED <<storeVars, feed, deviceVars, gap>>
    BY <1>1 DEF Unregister, vars, pastVars
  <2>2. \A q \in {} \cup {} : q.kind \notin {"load", "list"}
    OBVIOUS
  <2>3. QED
    BY <2>1, <2>2, HubLists
<1>2. ASSUME NEW r \in requests, Register(r) \/ ServeGroup(r) \/ Abandon(r) PROVE ListStep
  <2>1. requests' = (requests \ {r}) \cup {} /\ UNCHANGED <<storeVars, feed, deviceVars, gap>>
    BY <1>2 DEF Register, ServeGroup, Abandon, pastVars
  <2>2. \A q \in {r} \cup {} : q.kind \notin {"load", "list"}
    BY <1>2 DEF Register, ServeGroup, Abandon
  <2>3. QED
    BY <2>1, <2>2, HubLists
<1>3. QED
  BY <1>1, <1>2

\* A list is answered from the store: the answer has its number, all that the
\* store holds of the channel and nothing else.
LEMMA ServeListLists ==
  ASSUME TypeOK, ListInv, NEW r \in requests, ServeList(r)
  PROVE  ListStep
<1> SUFFICES ASSUME NEW d \in Devices PROVE ListOf(d)'
  BY DEF ListStep
<1> DEFINE a == ListAnswer(r)
<1>1. ListOf(d)
  BY ListParts
<1>2. r.kind = "load" /\ requests' = (requests \ {r}) \cup {a}
  BY DEF ServeList
<1>3. UNCHANGED <<shown, loads, view, list, gap, feed, store>>
  BY DEF ServeList, storeVars, deviceVars, pastVars
<1>4. a.kind = "list" /\ a.device = r.device /\ a.n = r.n /\ a.messages = {m \in store : ChannelOf[m] = r.channel}
  BY DEF ListAnswer
<1> HIDE DEF a
<1>5. CASE r.device # d
  <2>1. \A q \in {r} \cup {a} : q.kind \notin {"load", "list"} \/ q.device # d
    BY <1>4, <1>5
  <2>2. ListsOf(d)' = ListsOf(d)
    BY <1>2, <2>1, SameLists
  <2>3. QED
    BY <1>1, <1>3, <2>2, ListKept
<1>6. CASE r.device = d
  <2>1. r \in ListsOf(d) /\ ListsOf(d)' = (ListsOf(d) \ {r}) \cup {a}
    BY <1>2, <1>4, <1>6 DEF ListsOf
  <2>2. \A q \in ListsOf(d) \ {r} : q.n # r.n
    BY <1>1, <2>1 DEF ListOf, NumbersOf
  <2>3. NumbersOf(d)'
    BY <1>1, <1>3, <1>4, <2>1, <2>2 DEF ListOf, NumbersOf
  <2>4. OfView(d)'
    <3> SUFFICES ASSUME view[d] # None
                 PROVE  /\ shown[d] = loads[d] => \A m \in list[d] : ChannelOf[m] = view[d]
                        /\ \A q \in ListsOf(d)' : q.n = loads[d] =>
                             IF q.kind = "load" THEN q.channel = view[d]
                                                ELSE \A m \in q.messages : ChannelOf[m] = view[d]
      BY <1>3 DEF OfView
    <3>1. a.n = loads[d] => r.channel = view[d]
      BY <1>1, <1>2, <1>4, <2>1 DEF ListOf, OfView
    <3>2. QED
      BY <1>1, <1>4, <2>1, <3>1 DEF ListOf, OfView
  <2>5. Missed(d)'
    <3> SUFFICES ASSUME view[d] # None, ~gap[d], NEW m \in store, ChannelOf[m] = view[d]
                 PROVE  /\ shown[d] = loads[d] => m \in list[d] \/ Fed(d, m)
                        /\ \A q \in ListsOf(d)' : q.kind = "list" /\ q.n = loads[d] => m \in q.messages
      BY <1>3 DEF Missed, Fed
    <3>1. a.n = loads[d] => r.channel = view[d]
      BY <1>1, <1>2, <1>4, <2>1 DEF ListOf, OfView
    <3>2. a.n = loads[d] => m \in a.messages
      BY <1>4, <3>1
    <3>3. QED
      BY <1>1, <2>1, <3>2 DEF ListOf, Missed
  <2>6. QED
    BY <2>3, <2>4, <2>5 DEF ListOf
<1>7. QED
  BY <1>5, <1>6

\* An event is posted: whoever shows its channel is sent it, misses it, or has
\* not been given the list yet.
LEMMA BroadcastFeed ==
  ASSUME TypeOK, NEW d \in Devices, NEW to, NEW e \in Events, Broadcast(to, e)
  PROVE  /\ feed'[d] = IF d \in to THEN Append(feed[d], e) ELSE feed[d]
         /\ \A m : Fed(d, m) => Fed(d, m)'
         /\ \A m : d \in to /\ e = Created(m) => Fed(d, m)'
<1>1. feed[d] \in Seq(Events)
  BY TypeParts DEF TypeOfFeed
<1>2. feed'[d] = IF d \in to THEN Append(feed[d], e) ELSE feed[d]
  BY DEF Broadcast
<1>3. ASSUME NEW m, Fed(d, m) PROVE Fed(d, m)'
  <2>1. PICK i \in 1 .. Len(feed[d]) : feed[d][i] = Created(m)
    BY <1>3 DEF Fed
  <2>2. i \in 1 .. Len(feed'[d]) /\ feed'[d][i] = Created(m)
    BY <1>1, <1>2, <2>1
  <2>3. QED
    BY <2>2 DEF Fed
<1>4. ASSUME NEW m, d \in to, e = Created(m) PROVE Fed(d, m)'
  <2>1. Len(feed[d]) + 1 \in 1 .. Len(feed'[d]) /\ feed'[d][Len(feed[d]) + 1] = Created(m)
    BY <1>1, <1>2, <1>4
  <2>2. QED
    BY <2>1 DEF Fed
<1>5. QED
  BY <1>2, <1>3, <1>4

LEMMA PostLists ==
  ASSUME TypeOK, ListInv, NEW m \in Messages, Post(m)
  PROVE  ListStep
<1> SUFFICES ASSUME NEW d \in Devices PROVE ListOf(d)'
  BY DEF ListStep
<1> DEFINE c == ChannelOf[m]
           to == InGroup(c) \cup InWorkspace(c)
<1>1. ListOf(d)
  BY ListParts
<1>2. store' = store \cup {m} /\ Broadcast(to, Created(m)) /\ gap'[d] = (gap[d] \/ Misses(d, c, to))
  BY DEF Post
<1>3. UNCHANGED <<requests, shown, loads, view, list>>
  BY DEF Post, deviceVars
<1>4. ListsOf(d)' = ListsOf(d)
  BY <1>3 DEF ListsOf
<1>5. Created(m) \in Events
  BY DEF Events
<1> HIDE DEF to
<1>6. /\ \A i : Fed(d, i) => Fed(d, i)'
      /\ d \in to => Fed(d, m)'
  BY <1>2, <1>5, BroadcastFeed
<1>7. NumbersOf(d)' /\ OfView(d)'
  BY <1>1, <1>3, <1>4 DEF ListOf, NumbersOf, OfView
<1>8. Missed(d)'
  <2> SUFFICES ASSUME view[d] # None, ~gap'[d], NEW i \in store', ChannelOf[i] = view[d]
               PROVE  /\ shown[d] = loads[d] => i \in list[d] \/ Fed(d, i)'
                      /\ \A r \in ListsOf(d) : r.kind = "list" /\ r.n = loads[d] => i \in r.messages
    BY <1>3, <1>4 DEF Missed
  <2>1. CASE i \in store
    BY <1>1, <1>2, <1>6, <2>1 DEF ListOf, Missed
  <2>2. CASE i = m
    <3>1. view[d] = c /\ ~Misses(d, c, to)
      BY <1>2, <2>2
    <3>2. CASE ListRequest(d, loads[d], c) \in requests
      <4>1. ListRequest(d, loads[d], c) \in ListsOf(d) /\ ListRequest(d, loads[d], c).n = loads[d]
            /\ ListRequest(d, loads[d], c).kind = "load"
        BY <3>2 DEF ListsOf, ListRequest
      <4>2. shown[d] # loads[d]
        BY <1>1, <4>1 DEF ListOf, NumbersOf
      <4>3. \A r \in ListsOf(d) : r.n = loads[d] => r.kind # "list"
        BY <1>1, <4>1 DEF ListOf, NumbersOf
      <4>4. QED
        BY <4>2, <4>3
    <3>3. CASE ListRequest(d, loads[d], c) \notin requests
      <4>1. d \in to /\ \A r \in requests : ~(r.kind = "list" /\ r.device = d)
        BY <3>1, <3>3 DEF Misses
      <4>2. \A r \in ListsOf(d) : r.kind # "list"
        BY <4>1 DEF ListsOf
      <4>3. QED
        BY <1>6, <2>2, <4>1, <4>2
    <3>4. QED
      BY <3>2, <3>3
  <2>3. QED
    BY <1>2, <2>1, <2>2
<1>9. QED
  BY <1>7, <1>8 DEF ListOf

LEMMA DeleteLists ==
  ASSUME TypeOK, ListInv, NEW m \in Messages, Delete(m)
  PROVE  ListStep
<1> SUFFICES ASSUME NEW d \in Devices PROVE ListOf(d)'
  BY DEF ListStep
<1>1. ListOf(d)
  BY ListParts
<1>2. store' = store \ {m} /\ Broadcast(InGroup(ChannelOf[m]), Deleted(m))
      /\ gap'[d] = (gap[d] \/ Misses(d, ChannelOf[m], InGroup(ChannelOf[m])))
  BY DEF Delete
<1>3. UNCHANGED <<requests, shown, loads, view, list>>
  BY DEF Delete, deviceVars
<1>4. ListsOf(d)' = ListsOf(d)
  BY <1>3 DEF ListsOf
<1>5. Deleted(m) \in Events
  BY DEF Events
<1>6. \A i : Fed(d, i) => Fed(d, i)'
  BY <1>2, <1>5, BroadcastFeed
<1>7. NumbersOf(d)' /\ OfView(d)'
  BY <1>1, <1>3, <1>4 DEF ListOf, NumbersOf, OfView
<1>8. Missed(d)'
  BY <1>1, <1>2, <1>3, <1>4, <1>6 DEF ListOf, Missed
<1>9. QED
  BY <1>7, <1>8 DEF ListOf

\* The device itself has no view when it signs in; a view is left when the user
\* switches or signs out.
LEMMA SignInLists ==
  ASSUME TypeOK, ViewOwn, ListInv, NEW d \in Devices, SignIn(d)
  PROVE  ListStep
<1> SUFFICES ASSUME NEW e \in Devices PROVE ListOf(e)'
  BY DEF ListStep
<1>1. ListOf(e)
  BY ListParts
<1>2. ident[d] = None /\ Start(d, home, {}) /\ UNCHANGED <<shown, loads, view, list, gap, store>>
  BY DEF SignIn, storeVars
<1>3. view[d] = None
  <2> SUFFICES ASSUME view[d] # None PROVE FALSE
    OBVIOUS
  <2>1. view[d] \in Channels
    BY DEF TypeOK
  <2>2. QED
    BY <1>2, <2>1, TenantAssumption DEF ViewOwn
<1>4. home \in Tenants
  BY DEF TypeOK
<1>5. ListsOf(e)' = ListsOf(e) /\ (e # d => feed'[e] = feed[e])
  BY <1>2, <1>4, StartLists
<1>6. QED
  BY <1>1, <1>2, <1>3, <1>5, ListKept, NoViewKept

\* The requests of a group are not lists.
LEMMA LeavingLists ==
  ASSUME TypeOK, NEW d \in Devices
  PROVE  \A r \in Leaving(d) : r.kind \notin {"load", "list"}
  BY LeavingType

LEMMA SwitchLists ==
  ASSUME TypeOK, ListInv, NEW d \in Devices, NEW t \in Tenants, Switch(d, t)
  PROVE  ListStep
<1> SUFFICES ASSUME NEW e \in Devices PROVE ListOf(e)'
  BY DEF ListStep
<1>1. ListOf(e)
  BY ListParts
<1>2. Start(d, t, Leaving(d)) /\ UNCHANGED <<shown, loads, gap, store>>
  BY DEF Switch, storeVars
<1>3. \A r \in Leaving(d) : r.kind \notin {"load", "list"} \/ r.device # e
  BY LeavingLists
<1>4. ListsOf(e)' = ListsOf(e) /\ (e # d => feed'[e] = feed[e])
  BY <1>2, <1>3, StartLists
<1>5. view'[d] = None /\ (e # d => view'[e] = view[e] /\ list'[e] = list[e])
  BY DEF Switch, TypeOK
<1>6. QED
  BY <1>1, <1>2, <1>4, <1>5, ListKept, NoViewKept

LEMMA SignOutLists ==
  ASSUME TypeOK, ListInv, NEW d \in Devices, SignOut(d)
  PROVE  ListStep
<1> SUFFICES ASSUME NEW e \in Devices PROVE ListOf(e)'
  BY DEF ListStep
<1>1. ListOf(e)
  BY ListParts
<1>2. requests' = (requests \ {}) \cup Leaving(d) /\ UNCHANGED <<shown, loads, gap, store>>
  BY DEF SignOut, storeVars
<1>3. \A r \in {} \cup Leaving(d) : r.kind \notin {"load", "list"} \/ r.device # e
  BY LeavingLists
<1>4. ListsOf(e)' = ListsOf(e)
  BY <1>2, <1>3, SameLists
<1>5. view'[d] = None /\ (e # d => view'[e] = view[e] /\ list'[e] = list[e] /\ feed'[e] = feed[e])
  BY DEF SignOut, TypeOK
<1>6. QED
  BY <1>1, <1>2, <1>4, <1>5, ListKept, NoViewKept

\* What was not read when the stream is closed is noted as missed.
LEMMA BreakLists ==
  ASSUME TypeOK, ListInv, NEW d \in Devices, Break(d)
  PROVE  ListStep
<1> SUFFICES ASSUME NEW e \in Devices PROVE ListOf(e)'
  BY DEF ListStep
<1>1. ListOf(e)
  BY ListParts
<1>2. UNCHANGED <<requests, shown, loads, view, list, store>>
  BY DEF Break, storeVars
<1>3. ListsOf(e)' = ListsOf(e)
  BY <1>2 DEF ListsOf
<1>4. gap'[d] = (gap[d] \/ feed[d] # <<>>) /\ (e # d => gap'[e] = gap[e] /\ feed'[e] = feed[e])
  BY DEF Break, TypeOK
<1>5. QED
  BY <1>1, <1>2, <1>3, <1>4, ListKept, ClosedKept

LEMMA ReconnectLists ==
  ASSUME TypeOK, ListInv, NEW d \in Devices, Reconnect(d)
  PROVE  ListStep
<1> SUFFICES ASSUME NEW e \in Devices PROVE ListOf(e)'
  BY DEF ListStep
<1>1. ListOf(e)
  BY ListParts
<1>2. timer[d] \in Tenants /\ Start(d, timer[d], {}) /\ UNCHANGED <<shown, loads, view, list, store>>
  BY DEF Reconnect, storeVars, TypeOK
<1>3. ListsOf(e)' = ListsOf(e) /\ (e # d => feed'[e] = feed[e])
  BY <1>2, StartLists
<1>4. gap'[d] = (gap[d] \/ feed[d] # <<>>) /\ (e # d => gap'[e] = gap[e])
  BY DEF Reconnect, TypeOK
<1>5. QED
  BY <1>1, <1>2, <1>3, <1>4, ListKept, ClosedKept

\* A channel is opened: its list is the one asked for last, and no list of that
\* number is under way or shown.
LEMMA ViewLists ==
  ASSUME TypeOK, ListInv, NEW d \in Devices, NEW c \in Channels, View(d, c)
  PROVE  ListStep
<1> SUFFICES ASSUME NEW e \in Devices PROVE ListOf(e)'
  BY DEF ListStep
<1> DEFINE k == loads[d] + 1
           l == ListRequest(d, k, c)
           more == Leaving(d) \cup {GroupRequest("join", c, acts), l}
<1>1. ListOf(e)
  BY ListParts
<1>2. Start(d, ident[d], more) /\ UNCHANGED <<shown, list, store>>
  BY DEF View, storeVars
<1>3. /\ loads'[d] = k /\ view'[d] = c
      /\ e # d => loads'[e] = loads[e] /\ view'[e] = view[e] /\ gap'[e] = gap[e]
  BY DEF View, TypeOK
<1>4. ident[d] \in Tenants
  BY DEF View, TypeOK
<1>5. l.kind = "load" /\ l.device = d /\ l.n = k /\ l.channel = c
  BY DEF ListRequest
<1>6. \A r \in Leaving(d) \cup {GroupRequest("join", c, acts)} : r.kind \notin {"load", "list"}
  BY LeavingLists DEF GroupRequest
<1>7. loads[d] \in Nat /\ shown[d] \in Nat /\ \A r \in ListsOf(d) : r.n \in Nat
  BY RequestFields DEF TypeOK, ListsOf
<1> HIDE DEF k, l
<1>8. CASE e # d
  <2>1. \A r \in more : r.kind \notin {"load", "list"} \/ r.device # e
    BY <1>5, <1>6, <1>8
  <2>2. ListsOf(e)' = ListsOf(e) /\ feed'[e] = feed[e]
    BY <1>2, <1>4, <1>8, <2>1, StartLists
  <2>3. QED
    BY <1>1, <1>2, <1>3, <1>8, <2>2, ListKept
<1>9. CASE e = d
  <2>1. ListsOf(d)' = ListsOf(d) \cup {l}
    <3>1. StreamRequest(streams + 1, ident[d]).kind = "stream"
      BY DEF StreamRequest
    <3>2. requests' = requests \cup {StreamRequest(streams + 1, ident[d])} \cup more
      BY <1>2 DEF Start
    <3>3. QED
      BY <1>5, <1>6, <3>1, <3>2 DEF ListsOf
  <2>2. shown[d] < k /\ \A r \in ListsOf(d) : r.n < k
    BY <1>1, <1>7, <1>9 DEF ListOf, NumbersOf, k
  <2>3. k \in Nat
    BY <1>7 DEF k
  <2>4. shown[d] # k /\ \A r \in ListsOf(d) : r.n # k
    BY <1>7, <2>2, <2>3
  <2>5. NumbersOf(d)'
    <3>1. shown[d] <= k /\ \A r \in ListsOf(d) : r.n <= k
      BY <1>7, <2>2, <2>3
    <3>2. QED
      BY <1>1, <1>2, <1>3, <1>5, <1>9, <2>1, <2>4, <3>1, <2>3 DEF ListOf, NumbersOf
  <2>6. OfView(d)'
    BY <1>2, <1>3, <1>5, <2>1, <2>4 DEF OfView
  <2>7. Missed(d)'
    BY <1>2, <1>3, <1>5, <2>1, <2>4 DEF Missed
  <2>8. QED
    BY <1>9, <2>5, <2>6, <2>7 DEF ListOf
<1>10. QED
  BY <1>8, <1>9

\* An event that is read stays in the list, if it is a message of the channel.
LEMMA ReceiveLists ==
  ASSUME TypeOK, ListInv, NEW d \in Devices, Receive(d)
  PROVE  ListStep
<1> SUFFICES ASSUME NEW e \in Devices PROVE ListOf(e)'
  BY DEF ListStep
<1> DEFINE ev == Head(feed[d])
<1>1. ListOf(e)
  BY ListParts
<1>2. feed[d] # <<>> /\ UNCHANGED <<requests, shown, loads, view, gap, store>>
  BY DEF Receive, storeVars, pastVars
<1>3. /\ feed'[d] = Tail(feed[d]) /\ list'[d] = After(d, ev)
      /\ e # d => feed'[e] = feed[e] /\ list'[e] = list[e]
  BY DEF Receive, TypeOK
<1>4. ListsOf(e)' = ListsOf(e)
  BY <1>2 DEF ListsOf
<1>5. feed[d] \in Seq(Events)
  BY TypeParts DEF TypeOfFeed
<1>6. ev \in Events
  BY <1>2, <1>5
<1> HIDE DEF ev
<1>7. CASE e # d
  BY <1>1, <1>2, <1>3, <1>4, <1>7, ListKept
<1>8. CASE e = d
  <2>1. /\ list[d] \subseteq After(d, ev)
        /\ \A m \in After(d, ev) : m \in list[d] \/ ChannelOf[m] = view[d]
        /\ \A m : ev = Created(m) /\ ChannelOf[m] = view[d] => m \in After(d, ev)
    <3>1. CASE \E m \in Messages : ev = Created(m)
      <4>1. PICK m \in Messages : ev = Created(m)
        BY <3>1
      <4>2. ev.event = "MessageCreated" /\ ev.id = m
        BY <4>1 DEF Created
      <4>3. After(d, ev) = IF ChannelOf[m] = view[d] THEN list[d] \cup {m} ELSE list[d]
        BY <4>2 DEF After
      <4>4. \A i : ev = Created(i) => i = m
        BY <4>2 DEF Created
      <4>5. QED
        BY <4>3, <4>4
    <3>2. CASE \E m \in Messages : ev = Deleted(m)
      <4>1. PICK m \in Messages : ev = Deleted(m)
        BY <3>2
      <4>2. ev.event = "MessageDeleted" /\ DOMAIN ev = {"event", "messageId"}
        BY <4>1 DEF Deleted
      <4>3. After(d, ev) = list[d]
        BY <4>2 DEF After
      <4>4. \A i : ev # Created(i)
        BY <4>2 DEF Created
      <4>5. QED
        BY <4>3, <4>4
    <3>3. QED
      BY <1>6, <3>1, <3>2 DEF Events
  <2>2. \A m : Fed(d, m) => ev = Created(m) \/ Fed(d, m)'
    <3> SUFFICES ASSUME NEW m, Fed(d, m), ev # Created(m) PROVE Fed(d, m)'
      OBVIOUS
    <3>1. PICK i \in 1 .. Len(feed[d]) : feed[d][i] = Created(m)
      BY DEF Fed
    <3>2. i # 1
      BY <1>2, <1>5, <3>1 DEF ev
    <3>3. i - 1 \in 1 .. Len(Tail(feed[d])) /\ Tail(feed[d])[i - 1] = Created(m)
      BY <1>2, <1>5, <3>1, <3>2
    <3>4. QED
      BY <1>3, <3>3 DEF Fed
  <2>3. NumbersOf(d)'
    BY <1>1, <1>2, <1>4, <1>8 DEF ListOf, NumbersOf
  <2>4. OfView(d)'
    BY <1>1, <1>2, <1>3, <1>4, <1>8, <2>1 DEF ListOf, OfView
  <2>5. Missed(d)'
    <3> SUFFICES ASSUME view[d] # None, ~gap[d], NEW m \in store, ChannelOf[m] = view[d]
                 PROVE  /\ shown[d] = loads[d] => m \in list'[d] \/ Fed(d, m)'
                        /\ \A r \in ListsOf(d) : r.kind = "list" /\ r.n = loads[d] => m \in r.messages
      BY <1>2, <1>4, <1>8 DEF Missed
    <3>1. /\ shown[d] = loads[d] => m \in list[d] \/ Fed(d, m)
          /\ \A r \in ListsOf(d) : r.kind = "list" /\ r.n = loads[d] => m \in r.messages
      BY <1>1, <1>8 DEF ListOf, Missed
    <3>2. QED
      BY <1>3, <2>1, <2>2, <3>1
  <2>6. QED
    BY <1>8, <2>3, <2>4, <2>5 DEF ListOf
<1>9. QED
  BY <1>7, <1>8

\* A list that comes replaces the one shown: if it is the one asked for last it is
\* of the channel in view and, unless an event was missed, has all that is in it.
LEMMA ReceiveListLists ==
  ASSUME TypeOK, ListInv, NEW r \in requests, ReceiveList(r)
  PROVE  ListStep
<1> SUFFICES ASSUME NEW d \in Devices PROVE ListOf(d)'
  BY DEF ListStep
<1>1. ListOf(d)
  BY ListParts
<1>2. r.kind = "list" /\ requests' = (requests \ {r}) \cup {} /\ UNCHANGED <<loads, view, gap, feed, store>>
  BY DEF ReceiveList, storeVars, pastVars
<1>3. r.device \in Devices
  BY <1>2, RequestFields DEF TypeOK
<1>4. /\ IF view[r.device] # None THEN list'[r.device] = r.messages /\ shown'[r.device] = r.n
                                  ELSE list'[r.device] = list[r.device] /\ shown'[r.device] = shown[r.device]
      /\ r.device # d => list'[d] = list[d] /\ shown'[d] = shown[d]
  BY <1>3 DEF ReceiveList, TypeOK
<1>5. CASE r.device # d
  <2>1. \A q \in {r} \cup {} : q.kind \notin {"load", "list"} \/ q.device # d
    BY <1>5
  <2>2. ListsOf(d)' = ListsOf(d)
    BY <1>2, <2>1, SameLists
  <2>3. QED
    BY <1>1, <1>2, <1>4, <1>5, <2>2, ListKept
<1>6. CASE r.device = d
  <2>1. r \in ListsOf(d) /\ ListsOf(d)' = ListsOf(d) \ {r}
    BY <1>2, <1>6 DEF ListsOf
  <2>2. CASE view[d] = None
    <3>1. NumbersOf(d)'
      BY <1>1, <1>2, <1>4, <1>6, <2>1, <2>2 DEF ListOf, NumbersOf
    <3>2. QED
      BY <1>2, <2>2, <3>1 DEF ListOf, OfView, Missed
  <2>3. CASE view[d] # None
    <3>1. list'[d] = r.messages /\ shown'[d] = r.n
      BY <1>4, <1>6, <2>3
    <3>2. NumbersOf(d)'
      BY <1>1, <1>2, <2>1, <3>1 DEF ListOf, NumbersOf
    <3>3. OfView(d)'
      BY <1>1, <1>2, <2>1, <3>1 DEF ListOf, OfView
    <3>4. Missed(d)'
      BY <1>1, <1>2, <2>1, <3>1 DEF ListOf, Missed
    <3>5. QED
      BY <3>2, <3>3, <3>4 DEF ListOf
  <2>4. QED
    BY <2>2, <2>3
<1>7. QED
  BY <1>5, <1>6

LEMMA ListsStep == Inv /\ ListInv /\ [Next]_vars => ListInv'
<1> SUFFICES ASSUME Inv, ListInv, [Next]_vars PROVE ListInv'
  OBVIOUS
<1>1. TypeOK /\ ViewOwn
  BY DEF Inv
<1>2. ListStep
  BY <1>1, ElsewhereLists, ServeListLists, PostLists, DeleteLists, SignInLists, SwitchLists, ViewLists,
     SignOutLists, BreakLists, ReconnectLists, ReceiveLists, ReceiveListLists DEF Next, Serve
<1>3. QED
  BY <1>2 DEF ListStep, ListInv, ListsNumbered, ListsOfView, NothingMissed, ListOf, NumbersOf, OfView, Missed

LEMMA InitLists == Init => ListInv
  BY DEF Init, ListInv, ListsNumbered, ListsOfView, NothingMissed, ListsOf

\* However posts, lists, joins and broken streams interleave, a device that has
\* read all that was sent to it shows all messages of the channel in view and no
\* other, unless an event was missed or the list of another channel came last.
THEOREM ListIsComplete == Spec => []ListComplete
<1>1. Inv /\ ListInv => ListComplete
  <2> SUFFICES ASSUME ListInv, NEW d \in Devices, Settled(d), ~gap[d]
               PROVE  /\ {m \in store : ChannelOf[m] = view[d]} \subseteq list[d]
                      /\ \A m \in list[d] : ChannelOf[m] = view[d]
    BY DEF ListComplete
  <2>1. ListOf(d)
    BY ListParts
  <2>2. \A m : ~Fed(d, m)
    BY DEF Settled, Fed
  <2>3. QED
    BY <2>1, <2>2 DEF ListOf, OfView, Missed, Settled
<1>2. Init => Inv /\ ListInv
  BY InitInv, InitLists
<1>3. Inv /\ ListInv /\ [Next]_vars => (Inv /\ ListInv)'
  BY InvStep, ListsStep
<1>4. QED
  BY <1>1, <1>2, <1>3, PTL DEF Spec
=============================================================================
