------------------------- MODULE ConversationsProofs -------------------------
(***************************************************************************)
(* What is proved about Conversations, for any users, requests and bounds: *)
(* that it is well typed; that two users have one direct conversation; and *)
(* that the rows agree with the memory once nobody is at work, so that     *)
(* nobody is left in a conversation he was removed from, none comes back   *)
(* that was deleted, and none stays whose members have left.               *)
(*                                                                         *)
(* OneDirect: a conversation that is or will be listed as direct was so    *)
(* before, and has lost members at most (Keeps); only the three actions    *)
(* that create one, or end the work of a call, are looked at in detail.    *)
(* RowsAgree and NoneDeserted: a step leaves alone every conversation but  *)
(* the one it is about (Untouched); of that one, whatever differs between  *)
(* the rows and the memory is still to be written or deleted by a handler  *)
(* at work (Fits).                                                         *)
(***************************************************************************)
EXTENDS Conversations, TLAPS

TypeOfMemory == conv \in [Convs -> [group : BOOLEAN, members : SUBSET Users]] /\ listed \subseteq Convs
TypeOfRows == type \in [Convs -> {"none", "Direct", "Group"}] /\ members \in [Convs -> SUBSET Users]
TypeOfHandlers == handler \in [Requests -> Handlers]
TypeOfCounts == created \in 0..MaxConvs /\ acts \in Nat /\ failures \in Nat /\ restarts \in Nat
TypeOfPast ==
    /\ gone \subseteq Convs /\ mixed \subseteq Convs
    /\ escalated \subseteq Convs /\ selfRemoved \subseteq Convs

\* What the steps make of the record of a handler is one.
LEMMA RestingType == Idle \in Handlers
  BY DEF Idle, Handlers

LEMMA Positive == \A c \in Convs : c \in Nat /\ c # 0
  BY BoundsAssumption DEF Convs

LEMMA InviteType == ASSUME NEW todo \in SUBSET Users PROVE Awaits("call", 0, "select", todo, FALSE) \in Handlers
  BY DEF Awaits, Handlers

LEMMA AwaitsType ==
  ASSUME NEW op \in {"create", "call", "add", "remove", "leave", "delete"}, NEW c \in Convs,
         NEW at \in {"conversation", "members", "name", "member", "purge"},
         NEW todo \in SUBSET Users, NEW shared \in BOOLEAN
  PROVE  Awaits(op, c, at, todo, shared) \in Handlers
<1>1. c # 0
  BY Positive
<1>2. QED
  BY <1>1 DEF Awaits, Handlers

LEMMA AtType ==
  ASSUME NEW h \in Handlers, h.conv # 0, NEW at \in {"members", "purge", "drop"}
  PROVE  [h EXCEPT !.at = at] \in Handlers
  BY DEF Handlers

LEMMA TodoType ==
  ASSUME NEW h \in Handlers, NEW todo \in SUBSET Users PROVE [h EXCEPT !.todo = todo] \in Handlers
  BY DEF Handlers

LEMMA SharedType == ASSUME NEW h \in Handlers PROVE [h EXCEPT !.shared = FALSE] \in Handlers
  BY DEF Handlers

LEMMA FieldTypes ==
  ASSUME NEW h \in Handlers
  PROVE  /\ h.todo \in SUBSET Users /\ h.conv \in Convs \cup {0}
         /\ h.op \in {"create", "add", "remove", "leave", "delete"} => h.conv \in Convs
         /\ h.at \notin {"done", "select"} => h.conv \in Convs
  BY DEF Handlers

LEMMA AfterRemovalType ==
  ASSUME NEW h \in Handlers, NEW left PROVE AfterRemoval(h, left) \in Handlers
  <1>1. h.op = "leave" => h.conv # 0
  BY FieldTypes, BoundsAssumption DEF Convs
<1>2. QED
  BY <1>1, RestingType, AtType DEF AfterRemoval

LEMMA PushedType ==
  ASSUME TypeOK, NEW r \in Requests, NEW c, NEW u \in Users, NEW h \in Handlers
  PROVE  Pushed(r, c, u, h) \in [Requests -> Handlers]
<1>1. ASSUME NEW q \in Requests PROVE [handler[q] EXCEPT !.todo = @ \cup {u}] \in Handlers
  <2>1. handler[q] \in Handlers
    BY DEF TypeOK
  <2>2. handler[q].todo \cup {u} \in SUBSET Users
    BY <2>1, FieldTypes
  <2>3. QED
    BY <2>1, <2>2, TodoType
<1>2. QED
  BY <1>1 DEF TypeOK, Pushed

LEMMA FilteredType ==
  ASSUME TypeOK, NEW r \in Requests, NEW c, NEW h \in Handlers
  PROVE  Filtered(r, c, h) \in [Requests -> Handlers]
  BY SharedType DEF TypeOK, Filtered

\* A new conversation has a number of its own.
LEMMA NewNumber == ASSUME TypeOK, created < MaxConvs PROVE created + 1 \in Convs /\ created + 1 \in 0..MaxConvs
  BY BoundsAssumption DEF TypeOK, Convs

\* Every variable keeps its type, one action at a time.
LEMMA TypePostGroup ==
  ASSUME TypeOK, NEW r \in Requests, NEW us \in SUBSET Users, PostGroup(r, us) PROVE TypeOK'
<1>0. created < MaxConvs => created + 1 \in Convs /\ created + 1 \in 0..MaxConvs
  BY NewNumber
<1>1. TypeOfMemory'
  BY <1>0 DEF TypeOK, TypeOfMemory, PostGroup, Begin, Create, rows, past
<1>2. TypeOfRows'
  BY <1>0 DEF TypeOK, TypeOfRows, Handlers, PostGroup, Begin, Create, rows, past
<1>3. TypeOfHandlers'
  BY <1>0, AwaitsType DEF TypeOK, TypeOfHandlers, PostGroup, Begin, Create, rows, past
<1>4. TypeOfPast'
  BY <1>0 DEF TypeOK, TypeOfPast, PostGroup, Begin, Create, rows, past
<1>5. TypeOfCounts'
  BY <1>0 DEF TypeOK, TypeOfCounts, PostGroup, Begin, Create, rows, past
<1>6. (raced \in BOOLEAN)'
  BY DEF TypeOK, PostGroup, Begin, Create, rows, past
<1>7. QED
  BY <1>1, <1>2, <1>3, <1>4, <1>5, <1>6 DEF TypeOK, TypeOfMemory, TypeOfRows, TypeOfHandlers, TypeOfCounts, TypeOfPast

LEMMA TypePostDirect ==
  ASSUME TypeOK, NEW r \in Requests, NEW u \in Users, NEW v \in Users, PostDirect(r, u, v) PROVE TypeOK'
<1>0. created < MaxConvs => created + 1 \in Convs /\ created + 1 \in 0..MaxConvs
  BY NewNumber
<1>1. TypeOfMemory'
  BY <1>0 DEF TypeOK, TypeOfMemory, PostDirect, Begin, Create, Pair, rows
<1>2. TypeOfRows'
  BY <1>0 DEF TypeOK, TypeOfRows, Handlers, PostDirect, Begin, Create, Pair, rows
<1>3. TypeOfHandlers'
  BY <1>0, AwaitsType DEF TypeOK, TypeOfHandlers, PostDirect, Begin, Create, Pair, rows
<1>4. TypeOfPast'
  BY <1>0 DEF TypeOK, TypeOfPast, PostDirect, Begin, Create, Pair, rows
<1>5. TypeOfCounts'
  BY <1>0 DEF TypeOK, TypeOfCounts, PostDirect, Begin, Create, Pair, rows
<1>6. (raced \in BOOLEAN)'
  BY DEF TypeOK, PostDirect, Begin, Create, Pair, rows
<1>7. QED
  BY <1>1, <1>2, <1>3, <1>4, <1>5, <1>6 DEF TypeOK, TypeOfMemory, TypeOfRows, TypeOfHandlers, TypeOfCounts, TypeOfPast

LEMMA TypeInvite ==
  ASSUME TypeOK, NEW r \in Requests, NEW u \in Users, NEW v \in Users, Invite(r, u, v) PROVE TypeOK'
<1>1. TypeOfMemory'
  BY DEF TypeOK, TypeOfMemory, Invite, Begin, Pair, memory, rows, past
<1>2. TypeOfRows'
  BY DEF TypeOK, TypeOfRows, Handlers, Invite, Begin, Pair, memory, rows, past
<1>3. TypeOfHandlers'
  BY InviteType DEF TypeOK, TypeOfHandlers, Invite, Begin, Pair, memory, rows, past
<1>4. TypeOfPast'
  BY DEF TypeOK, TypeOfPast, Invite, Begin, Pair, memory, rows, past
<1>5. TypeOfCounts'
  BY DEF TypeOK, TypeOfCounts, Invite, Begin, Pair, memory, rows, past
<1>6. (raced \in BOOLEAN)'
  BY DEF TypeOK, Invite, Begin, Pair, memory, rows, past
<1>7. QED
  BY <1>1, <1>2, <1>3, <1>4, <1>5, <1>6 DEF TypeOK, TypeOfMemory, TypeOfRows, TypeOfHandlers, TypeOfCounts, TypeOfPast

LEMMA TypeFindOrCreate ==
  ASSUME TypeOK, NEW r \in Requests, NEW u \in Users, NEW v \in Users, FindOrCreate(r, u, v) PROVE TypeOK'
<1>0. created < MaxConvs => created + 1 \in Convs /\ created + 1 \in 0..MaxConvs
  BY NewNumber
<1>1. TypeOfMemory'
  <2>1. [group |-> FALSE, members |-> Pair(u, v)] \in [group : BOOLEAN, members : SUBSET Users]
    BY DEF Pair
  <2>2. CASE \E c \in Convs : IsDirect(c, u, v)
    BY <2>2 DEF TypeOK, TypeOfMemory, FindOrCreate
  <2>3. CASE ~\E c \in Convs : IsDirect(c, u, v)
    BY <1>0, <2>1, <2>3 DEF TypeOK, TypeOfMemory, FindOrCreate
  <2>4. QED
    BY <2>2, <2>3
<1>2. TypeOfRows'
  BY <1>0 DEF TypeOK, TypeOfRows, Handlers, FindOrCreate, Pair, rows, counts
<1>3. TypeOfHandlers'
  <2>1. CASE \E c \in Convs : IsDirect(c, u, v)
    BY <2>1, RestingType DEF TypeOK, TypeOfHandlers, FindOrCreate
  <2>2. CASE ~\E c \in Convs : IsDirect(c, u, v)
    <3>1. Pair(u, v) \in SUBSET Users /\ created' \in Convs
      BY <1>0, <2>2 DEF Pair, FindOrCreate
    <3>2. Awaits("call", created', "conversation", Pair(u, v), FALSE) \in Handlers
      BY <3>1, AwaitsType
    <3>3. QED
      BY <2>2, <3>2 DEF TypeOK, TypeOfHandlers, FindOrCreate
  <2>3. QED
    BY <2>1, <2>2
<1>4. TypeOfPast'
  BY <1>0 DEF TypeOK, TypeOfPast, FindOrCreate, Pair, rows, counts
<1>5. TypeOfCounts'
  BY <1>0 DEF TypeOK, TypeOfCounts, FindOrCreate, Pair, rows, counts
<1>6. (raced \in BOOLEAN)'
  BY DEF TypeOK, FindOrCreate, Pair, rows, counts
<1>7. QED
  BY <1>1, <1>2, <1>3, <1>4, <1>5, <1>6 DEF TypeOK, TypeOfMemory, TypeOfRows, TypeOfHandlers, TypeOfCounts, TypeOfPast

LEMMA TypeInsertConversation ==
  ASSUME TypeOK, NEW r \in Requests, InsertConversation(r) PROVE TypeOK'
<1>1. TypeOfMemory'
  BY DEF TypeOK, TypeOfMemory, InsertConversation, memory, past, counts
<1>2. TypeOfRows'
  BY DEF TypeOK, TypeOfRows, Handlers, InsertConversation, memory, past, counts
<1>3. TypeOfHandlers'
  <2>1. handler[r] \in Handlers /\ handler[r].conv \in Convs
    BY FieldTypes DEF TypeOK, InsertConversation
  <2>2. handler[r].conv # 0
    BY <2>1, BoundsAssumption DEF Convs
  <2>3. [handler[r] EXCEPT !.at = "members"] \in Handlers
    BY <2>1, <2>2, AtType
  <2>4. QED
    BY <2>3 DEF TypeOK, TypeOfHandlers, InsertConversation
<1>4. TypeOfPast'
  BY DEF TypeOK, TypeOfPast, InsertConversation, memory, past, counts
<1>5. TypeOfCounts'
  BY DEF TypeOK, TypeOfCounts, InsertConversation, memory, past, counts
<1>6. (raced \in BOOLEAN)'
  BY DEF TypeOK, InsertConversation, memory, past, counts
<1>7. QED
  BY <1>1, <1>2, <1>3, <1>4, <1>5, <1>6 DEF TypeOK, TypeOfMemory, TypeOfRows, TypeOfHandlers, TypeOfCounts, TypeOfPast

LEMMA TypeInsertMember ==
  ASSUME TypeOK, NEW r \in Requests, NEW u \in Users, InsertMember(r, u) PROVE TypeOK'
<1>1. TypeOfMemory'
  <2>1. handler[r] \in Handlers
    BY DEF TypeOK
  <2>2. handler[r].conv \in Convs
    BY <2>1, FieldTypes DEF InsertMember
  <2>3. QED
    BY <2>2 DEF TypeOK, TypeOfMemory, InsertMember, past, counts
<1>2. TypeOfRows'
  BY DEF TypeOK, TypeOfRows, Handlers, InsertMember, past, counts
<1>3. TypeOfHandlers'
  <2>1. handler[r] \in Handlers
    BY DEF TypeOK
  <2>2. handler[r].todo \ {u} \in SUBSET Users
    BY <2>1, FieldTypes
  <2>3. [handler[r] EXCEPT !.todo = handler[r].todo \ {u}] \in Handlers
    BY <2>1, <2>2, TodoType
  <2>4. handler' = [handler EXCEPT ![r] = Idle] \/ handler' = [handler EXCEPT ![r] = [handler[r] EXCEPT !.todo = handler[r].todo \ {u}]]
    BY DEF InsertMember
  <2>5. QED
    BY <2>3, <2>4, RestingType DEF TypeOK, TypeOfHandlers
<1>4. TypeOfPast'
  BY DEF TypeOK, TypeOfPast, InsertMember, past, counts
<1>5. TypeOfCounts'
  BY DEF TypeOK, TypeOfCounts, InsertMember, past, counts
<1>6. (raced \in BOOLEAN)'
  BY DEF TypeOK, InsertMember, past, counts
<1>7. QED
  BY <1>1, <1>2, <1>3, <1>4, <1>5, <1>6 DEF TypeOK, TypeOfMemory, TypeOfRows, TypeOfHandlers, TypeOfCounts, TypeOfPast

LEMMA TypeAdd ==
  ASSUME TypeOK, NEW r \in Requests, NEW u \in Users, NEW c \in Convs, NEW w \in Users, Add(r, u, c, w) PROVE TypeOK'
<1>1. TypeOfMemory'
  <2>1. \/ conv' = [conv EXCEPT ![c].members = @ \cup {w}]
        \/ conv' = [conv EXCEPT ![c].group = TRUE]
    BY DEF Add
  <2>2. \A d \in Convs : conv[d] \in [group : BOOLEAN, members : SUBSET Users]
    BY DEF TypeOK
  <2>3. [conv[c] EXCEPT !.members = @ \cup {w}] \in [group : BOOLEAN, members : SUBSET Users]
    BY <2>2
  <2>4. [conv[c] EXCEPT !.group = TRUE] \in [group : BOOLEAN, members : SUBSET Users]
    BY <2>2
  <2>5. ASSUME NEW x \in [group : BOOLEAN, members : SUBSET Users], conv' = [conv EXCEPT ![c] = x]
        PROVE  conv' \in [Convs -> [group : BOOLEAN, members : SUBSET Users]]
    BY <2>5 DEF TypeOK
  <2>6. conv' = [conv EXCEPT ![c] = [conv[c] EXCEPT !.members = @ \cup {w}]]
        \/ conv' = [conv EXCEPT ![c] = [conv[c] EXCEPT !.group = TRUE]]
    BY <2>1
  <2>7. conv' \in [Convs -> [group : BOOLEAN, members : SUBSET Users]]
    BY <2>3, <2>4, <2>5, <2>6
  <2>8. listed' \subseteq Convs
    BY DEF TypeOK, Add
  <2>9. QED
    BY <2>7, <2>8 DEF TypeOfMemory
<1>2. TypeOfRows'
  BY DEF TypeOK, TypeOfRows, Handlers, Add, Begin, Mixes, rows
<1>3. TypeOfHandlers'
  <2>1. Awaits("add", c, "members", {w}, FALSE) \in Handlers /\ Awaits("add", c, "name", {w}, FALSE) \in Handlers
    BY AwaitsType
  <2>2. \/ handler' = Pushed(r, c, w, Awaits("add", c, "members", {w}, FALSE))
        \/ handler' = [handler EXCEPT ![r] = Awaits("add", c, "name", {w}, FALSE)]
    BY DEF Add
  <2>3. Pushed(r, c, w, Awaits("add", c, "members", {w}, FALSE)) \in [Requests -> Handlers]
    BY <2>1, PushedType
  <2>4. QED
    BY <2>1, <2>2, <2>3 DEF TypeOK, TypeOfHandlers
<1>4. TypeOfPast'
  BY DEF TypeOK, TypeOfPast, Add, Begin, Mixes, rows
<1>5. TypeOfCounts'
  BY DEF TypeOK, TypeOfCounts, Add, Begin, Mixes, rows
<1>6. (raced \in BOOLEAN)'
  BY DEF TypeOK, Add, Begin, Mixes, rows
<1>7. QED
  BY <1>1, <1>2, <1>3, <1>4, <1>5, <1>6 DEF TypeOK, TypeOfMemory, TypeOfRows, TypeOfHandlers, TypeOfCounts, TypeOfPast

LEMMA TypeNameWritten ==
  ASSUME TypeOK, NEW r \in Requests, NameWritten(r) PROVE TypeOK'
<1>1. TypeOfMemory'
  <2>1. PICK w \in handler[r].todo : conv' = [conv EXCEPT ![handler[r].conv].members = @ \cup {w}]
    BY DEF NameWritten
  <2>2. w \in Users
    BY FieldTypes DEF TypeOK
  <2>3. QED
    BY <2>1, <2>2 DEF TypeOK, TypeOfMemory, NameWritten
<1>2. TypeOfRows'
  BY DEF TypeOK, TypeOfRows, Handlers, NameWritten, rows, past, counts
<1>3. TypeOfHandlers'
  <2>1. PICK w \in handler[r].todo :
              handler' = Pushed(r, handler[r].conv, w, [handler[r] EXCEPT !.at = "members"])
    BY DEF NameWritten
  <2>2. w \in Users /\ handler[r] \in Handlers /\ handler[r].conv # 0
    BY FieldTypes DEF TypeOK, NameWritten, Convs
  <2>3. [handler[r] EXCEPT !.at = "members"] \in Handlers
    BY <2>2, AtType
  <2>4. QED
    BY <2>1, <2>2, <2>3, PushedType DEF TypeOfHandlers
<1>4. TypeOfPast'
  BY DEF TypeOK, TypeOfPast, NameWritten, rows, past, counts
<1>5. TypeOfCounts'
  BY DEF TypeOK, TypeOfCounts, NameWritten, rows, past, counts
<1>6. (raced \in BOOLEAN)'
  BY DEF TypeOK, NameWritten, rows, past, counts
<1>7. QED
  BY <1>1, <1>2, <1>3, <1>4, <1>5, <1>6 DEF TypeOK, TypeOfMemory, TypeOfRows, TypeOfHandlers, TypeOfCounts, TypeOfPast

LEMMA TypeRemove ==
  ASSUME TypeOK, NEW r \in Requests, NEW u \in Users, NEW c \in Convs, NEW w \in Users, Remove(r, u, c, w) PROVE TypeOK'
<1>1. TypeOfMemory'
  BY DEF TypeOK, TypeOfMemory, Remove, Begin, Mixes, rows
<1>2. TypeOfRows'
  BY DEF TypeOK, TypeOfRows, Handlers, Remove, Begin, Mixes, rows
<1>3. TypeOfHandlers'
  BY AwaitsType, FilteredType DEF TypeOK, TypeOfHandlers, Remove, Begin, Mixes, rows
<1>4. TypeOfPast'
  BY DEF TypeOK, TypeOfPast, Remove, Begin, Mixes, rows
<1>5. TypeOfCounts'
  BY DEF TypeOK, TypeOfCounts, Remove, Begin, Mixes, rows
<1>6. (raced \in BOOLEAN)'
  BY DEF TypeOK, Remove, Begin, Mixes, rows
<1>7. QED
  BY <1>1, <1>2, <1>3, <1>4, <1>5, <1>6 DEF TypeOK, TypeOfMemory, TypeOfRows, TypeOfHandlers, TypeOfCounts, TypeOfPast

LEMMA TypeLeave ==
  ASSUME TypeOK, NEW r \in Requests, NEW u \in Users, NEW c \in Convs, Leave(r, u, c) PROVE TypeOK'
<1>1. TypeOfMemory'
  BY DEF TypeOK, TypeOfMemory, Leave, Begin, Mixes, rows
<1>2. TypeOfRows'
  BY DEF TypeOK, TypeOfRows, Handlers, Leave, Begin, Mixes, rows
<1>3. TypeOfHandlers'
  BY AwaitsType, FilteredType DEF TypeOK, TypeOfHandlers, Leave, Begin, Mixes, rows
<1>4. TypeOfPast'
  BY DEF TypeOK, TypeOfPast, Leave, Begin, Mixes, rows
<1>5. TypeOfCounts'
  BY DEF TypeOK, TypeOfCounts, Leave, Begin, Mixes, rows
<1>6. (raced \in BOOLEAN)'
  BY DEF TypeOK, Leave, Begin, Mixes, rows
<1>7. QED
  BY <1>1, <1>2, <1>3, <1>4, <1>5, <1>6 DEF TypeOK, TypeOfMemory, TypeOfRows, TypeOfHandlers, TypeOfCounts, TypeOfPast

LEMMA TypeDeleteMember ==
  ASSUME TypeOK, NEW r \in Requests, DeleteMember(r) PROVE TypeOK'
<1>1. TypeOfMemory'
  BY FieldTypes DEF TypeOK, TypeOfMemory, DeleteMember, past, counts
<1>2. TypeOfRows'
  BY DEF TypeOK, TypeOfRows, Handlers, DeleteMember, past, counts
<1>3. TypeOfHandlers'
  BY AfterRemovalType, FilteredType DEF TypeOK, TypeOfHandlers, DeleteMember, past, counts
<1>4. TypeOfPast'
  BY DEF TypeOK, TypeOfPast, DeleteMember, past, counts
<1>5. TypeOfCounts'
  BY DEF TypeOK, TypeOfCounts, DeleteMember, past, counts
<1>6. (raced \in BOOLEAN)'
  BY DEF TypeOK, DeleteMember, past, counts
<1>7. QED
  BY <1>1, <1>2, <1>3, <1>4, <1>5, <1>6 DEF TypeOK, TypeOfMemory, TypeOfRows, TypeOfHandlers, TypeOfCounts, TypeOfPast

LEMMA TypeDelete ==
  ASSUME TypeOK, NEW r \in Requests, NEW u \in Users, NEW c \in Convs, Delete(r, u, c) PROVE TypeOK'
<1>1. TypeOfMemory'
  BY DEF TypeOK, TypeOfMemory, Delete, Begin, Mixes, memory, rows
<1>2. TypeOfRows'
  BY DEF TypeOK, TypeOfRows, Handlers, Delete, Begin, Mixes, memory, rows
<1>3. TypeOfHandlers'
  BY AwaitsType DEF TypeOK, TypeOfHandlers, Delete, Begin, Mixes, memory, rows
<1>4. TypeOfPast'
  BY DEF TypeOK, TypeOfPast, Delete, Begin, Mixes, memory, rows
<1>5. TypeOfCounts'
  <2>1. created' = created /\ acts' = acts + 1 /\ failures' = failures /\ restarts' = restarts
    BY DEF Delete, Begin
  <2>2. QED
    BY <2>1 DEF TypeOK, TypeOfCounts
<1>6. (raced \in BOOLEAN)'
  BY DEF TypeOK, Delete, Begin, Mixes, memory, rows
<1>7. QED
  BY <1>1, <1>2, <1>3, <1>4, <1>5, <1>6 DEF TypeOK, TypeOfMemory, TypeOfRows, TypeOfHandlers, TypeOfCounts, TypeOfPast

LEMMA TypeDropMembers ==
  ASSUME TypeOK, NEW r \in Requests, DropMembers(r) PROVE TypeOK'
<1>1. TypeOfMemory'
  BY DEF TypeOK, TypeOfMemory, DropMembers, memory, past, counts
<1>2. TypeOfRows'
  BY DEF TypeOK, TypeOfRows, Handlers, DropMembers, memory, past, counts
<1>3. TypeOfHandlers'
  <2>1. handler[r] \in Handlers /\ handler[r].conv \in Convs
    BY FieldTypes DEF TypeOK, DropMembers
  <2>2. handler[r].conv # 0
    BY <2>1, BoundsAssumption DEF Convs
  <2>3. [handler[r] EXCEPT !.at = "drop"] \in Handlers
    BY <2>1, <2>2, AtType
  <2>4. QED
    BY <2>3 DEF TypeOK, TypeOfHandlers, DropMembers
<1>4. TypeOfPast'
  BY DEF TypeOK, TypeOfPast, DropMembers, memory, past, counts
<1>5. TypeOfCounts'
  BY DEF TypeOK, TypeOfCounts, DropMembers, memory, past, counts
<1>6. (raced \in BOOLEAN)'
  BY DEF TypeOK, DropMembers, memory, past, counts
<1>7. QED
  BY <1>1, <1>2, <1>3, <1>4, <1>5, <1>6 DEF TypeOK, TypeOfMemory, TypeOfRows, TypeOfHandlers, TypeOfCounts, TypeOfPast

LEMMA TypeDropConversation ==
  ASSUME TypeOK, NEW r \in Requests, DropConversation(r) PROVE TypeOK'
<1>1. TypeOfMemory'
  BY DEF TypeOK, TypeOfMemory, DropConversation, Answered, counts
<1>2. TypeOfRows'
  BY DEF TypeOK, TypeOfRows, Handlers, DropConversation, Answered, counts
<1>3. TypeOfHandlers'
  BY RestingType DEF TypeOK, TypeOfHandlers, DropConversation, Answered, counts
<1>4. TypeOfPast'
  <2>1. gone' \subseteq Convs
    BY FieldTypes DEF DropConversation, Answered, TypeOK
  <2>2. QED
    BY <2>1 DEF TypeOK, TypeOfPast, DropConversation
<1>5. TypeOfCounts'
  BY DEF TypeOK, TypeOfCounts, DropConversation, Answered, counts
<1>6. (raced \in BOOLEAN)'
  BY DEF TypeOK, DropConversation, Answered, counts
<1>7. QED
  BY <1>1, <1>2, <1>3, <1>4, <1>5, <1>6 DEF TypeOK, TypeOfMemory, TypeOfRows, TypeOfHandlers, TypeOfCounts, TypeOfPast

LEMMA TypeFail ==
  ASSUME TypeOK, NEW r \in Requests, Fail(r) PROVE TypeOK'
<1>1. TypeOfMemory'
  BY DEF TypeOK, TypeOfMemory, Fail, Answered, memory, rows
<1>2. TypeOfRows'
  BY DEF TypeOK, TypeOfRows, Handlers, Fail, Answered, memory, rows
<1>3. TypeOfHandlers'
  BY AfterRemovalType, RestingType DEF TypeOK, TypeOfHandlers, Fail, Answered, memory, rows
<1>4. TypeOfPast'
  <2>1. gone' \subseteq Convs
    BY FieldTypes DEF Fail, Answered, TypeOK
  <2>2. QED
    BY <2>1 DEF TypeOK, TypeOfPast, Fail
<1>5. TypeOfCounts'
  BY DEF TypeOK, TypeOfCounts, Fail, Answered, memory, rows
<1>6. (raced \in BOOLEAN)'
  BY DEF TypeOK, Fail, Answered, memory, rows
<1>7. QED
  BY <1>1, <1>2, <1>3, <1>4, <1>5, <1>6 DEF TypeOK, TypeOfMemory, TypeOfRows, TypeOfHandlers, TypeOfCounts, TypeOfPast

LEMMA TypeRestart ==
  ASSUME TypeOK, Restart PROVE TypeOK'
<1>1. TypeOfMemory'
  BY DEF TypeOK, TypeOfMemory, Restart, rows, past
<1>2. TypeOfRows'
  BY DEF TypeOK, TypeOfRows, Handlers, Restart, rows, past
<1>3. TypeOfHandlers'
  BY RestingType DEF TypeOK, TypeOfHandlers, Restart, rows, past
<1>4. TypeOfPast'
  BY DEF TypeOK, TypeOfPast, Restart, rows, past
<1>5. TypeOfCounts'
  BY DEF TypeOK, TypeOfCounts, Restart, rows, past
<1>6. (raced \in BOOLEAN)'
  BY DEF TypeOK, Restart, rows, past
<1>7. QED
  BY <1>1, <1>2, <1>3, <1>4, <1>5, <1>6 DEF TypeOK, TypeOfMemory, TypeOfRows, TypeOfHandlers, TypeOfCounts, TypeOfPast

\* Every step keeps the types.
LEMMA TypeStep == TypeOK /\ [Next]_vars => TypeOK'
<1> SUFFICES ASSUME TypeOK, [Next]_vars PROVE TypeOK'
  OBVIOUS
<1>1. ASSUME NEW r \in Requests, Statement(r) PROVE TypeOK'
  BY <1>1, TypeInsertConversation, TypeNameWritten, TypeDeleteMember, TypeDropMembers, TypeDropConversation, TypeFail, TypeInsertMember DEF Statement
<1>2. ASSUME NEW r \in Requests, Request(r) PROVE TypeOK'
  BY <1>2, TypePostGroup, TypePostDirect, TypeInvite, TypeFindOrCreate, TypeLeave, TypeDelete, TypeAdd, TypeRemove DEF Request
<1>3. CASE UNCHANGED vars
  BY <1>3 DEF TypeOK, vars, memory, rows, past, counts
<1>4. QED
  BY <1>1, <1>2, <1>3, TypeRestart DEF Next

LEMMA InitType == Init => TypeOK
<1> SUFFICES ASSUME Init PROVE TypeOK
  OBVIOUS
<1>1. TypeOfHandlers
  BY RestingType DEF Init, TypeOfHandlers
<1>2. TypeOfMemory /\ TypeOfRows
  BY DEF Init, TypeOfMemory, TypeOfRows
<1>3. TypeOfCounts /\ TypeOfPast
  BY BoundsAssumption DEF Init, TypeOfCounts, TypeOfPast
<1>4. raced \in BOOLEAN
  BY DEF Init
<1>5. QED
  BY <1>1, <1>2, <1>3, <1>4 DEF TypeOK, TypeOfMemory, TypeOfRows, TypeOfHandlers, TypeOfCounts, TypeOfPast

\* Every reachable state of the conversations is well typed.
THEOREM TypeCorrect == Spec => []TypeOK
  BY InitType, TypeStep, PTL DEF Spec


-----------------------------------------------------------------------------
(* Two users have one direct conversation                                  *)

Parts == Work /\ (restarts = 0 => DirectHasPair /\ NoTwin)

\* The step of request r leaves the work of the others alone.
OthersSame(r) ==
    \A q \in Requests \ {r} :
      handler'[q].op = handler[q].op /\ handler'[q].conv = handler[q].conv /\ handler'[q].at = handler[q].at

\* It ends no run, and writes and deletes rows of what it works on.
OwnRows(r) ==
    /\ restarts' = restarts /\ gone' \subseteq gone \cup {handler[r].conv}
    /\ \A c \in Convs : type'[c] # "none" => type[c] # "none" \/ c = handler[r].conv

\* The step of request r creates nothing: what it works on was listed, what it
\* lists is the conversation of its call, and no direct conversation grows.
Keeps(r) ==
    /\ created' = created /\ raced' = raced /\ OthersSame(r)
    /\ handler'[r].conv \in {0, handler[r].conv} \cup listed
    /\ Calling(r)' => Calling(r) /\ handler'[r].conv = handler[r].conv
    /\ \A c \in listed' \ listed : Calling(r) /\ c = handler[r].conv /\ ~Calling(r)'
    /\ \A c \in Convs : ~conv'[c].group => ~conv[c].group /\ conv'[c].members \subseteq conv[c].members
    /\ \A c \in Convs \ listed : conv'[c] # conv[c] => c = handler[r].conv /\ ~Calling(r)'
    /\ handler'[r].at = "name" => handler'[r].conv \in Convs /\ conv'[handler'[r].conv].group

\* Such a step keeps the invariant.
LEMMA KeepsParts ==
  ASSUME TypeOK, TypeOK', Parts, NEW r \in Requests, OwnRows(r), Keeps(r) PROVE Parts'
<1>1. \A q \in Requests \ {r} : Calling(q)' <=> Calling(q)
  BY DEF Keeps, OthersSame, Calling
<1>2. Numbered'
  <2>1. ASSUME NEW c \in listed' \cup gone' PROVE c <= created'
    BY <2>1 DEF Keeps, OwnRows, Parts, Work, Numbered
  <2>4. ASSUME NEW c \in Convs, type'[c] # "none" PROVE c <= created'
    BY <2>4 DEF Keeps, OwnRows, Parts, Work, Numbered
  <2>2. ASSUME NEW q \in Requests PROVE handler'[q].conv <= created'
    <3>1. 0 <= created
      BY DEF TypeOK
    <3>2. CASE q = r
      BY <3>1, <3>2 DEF Keeps, Parts, Work, Numbered
    <3>3. CASE q # r
      BY <3>3 DEF Keeps, OthersSame, Parts, Work, Numbered
    <3>4. QED
      BY <3>2, <3>3
  <2>3. QED
    BY <2>1, <2>2, <2>4 DEF Numbered
<1>3. OnlyGroupsGrow'
  <2>1. ASSUME NEW q \in Requests, handler'[q].at = "name"
        PROVE  handler'[q].conv \in Convs /\ conv'[handler'[q].conv].group
    <3>1. CASE q = r
      BY <2>1, <3>1 DEF Keeps
    <3>2. CASE q # r
      BY <2>1, <3>2 DEF Keeps, OthersSame, Parts, Work, OnlyGroupsGrow
    <3>3. QED
      BY <3>1, <3>2
  <2>2. QED
    BY <2>1 DEF OnlyGroupsGrow
<1>4. ASSUME NEW q \in Requests, Calling(q)'
      PROVE  /\ Calling(q) /\ handler'[q].conv = handler[q].conv
             /\ handler'[q].conv \in Convs \ listed' /\ ~conv'[handler'[q].conv].group
             /\ \A p \in Requests \ {q} : handler'[p].conv # handler'[q].conv
  <2>1. Calling(q) /\ handler'[q].conv = handler[q].conv
    BY <1>1, <1>4 DEF Keeps, OthersSame
  <2>2. /\ handler[q].conv \in Convs \ listed /\ ~conv[handler[q].conv].group
        /\ \A p \in Requests \ {q} : handler[p].conv # handler[q].conv
    BY <2>1 DEF Parts, Work, CallsAlone
  <2>3. handler[q].conv # 0
    BY <2>2, Positive
  <2>4. handler[q].conv \notin listed'
    BY <1>4, <2>2 DEF Keeps
  <2>5. conv'[handler[q].conv] = conv[handler[q].conv]
    BY <1>4, <2>1, <2>2 DEF Keeps
  <2>6. ASSUME NEW p \in Requests \ {q} PROVE handler'[p].conv # handler[q].conv
    <3>1. CASE p = r
      BY <2>2, <2>3, <3>1 DEF Keeps
    <3>2. CASE p # r
      BY <2>2, <3>2 DEF Keeps, OthersSame
    <3>3. QED
      BY <3>1, <3>2
  <2>7. QED
    BY <2>1, <2>2, <2>4, <2>5, <2>6
<1>5. CallsAlone'
  BY <1>4 DEF CallsAlone
<1>6. ASSUME NEW c \in Convs, Direct(c)' PROVE Direct(c) /\ conv'[c].members \subseteq conv[c].members
  <2>1. CASE c \in listed' /\ ~conv'[c].group
    <3>1. ~conv[c].group /\ conv'[c].members \subseteq conv[c].members
      BY <2>1 DEF Keeps
    <3>2. CASE c \in listed
      BY <3>1, <3>2 DEF Direct
    <3>3. CASE c \notin listed
      BY <2>1, <3>1, <3>3 DEF Keeps, Direct
    <3>4. QED
      BY <3>2, <3>3
  <2>2. CASE \E q \in Requests : Calling(q)' /\ handler'[q].conv = c
    <3>1. PICK q \in Requests : Calling(q)' /\ handler'[q].conv = c
      BY <2>2
    <3>2. Calling(q) /\ handler[q].conv = c /\ ~conv'[c].group
      BY <1>4, <3>1
    <3>3. QED
      BY <3>2 DEF Direct, Keeps
  <2>3. QED
    BY <1>6, <2>1, <2>2 DEF Direct
<1>7. ASSUME restarts' = 0 PROVE DirectHasPair'
  <2>1. ASSUME NEW c \in Convs, Direct(c)' PROVE \E u, v \in Users : conv'[c].members \subseteq Pair(u, v)
    BY <1>6, <1>7, <2>1 DEF OwnRows, Parts, DirectHasPair
  <2>2. QED
    BY <2>1 DEF DirectHasPair
<1>8. ASSUME restarts' = 0 PROVE NoTwin'
  <2>1. SUFFICES ASSUME ~raced', NEW u \in Users, NEW v \in Users, NEW c \in Convs, NEW d \in Convs, u # v,
                        Direct(c)', Direct(d)', conv'[c].members = Pair(u, v), conv'[d].members = Pair(u, v)
                 PROVE  c = d
    BY DEF NoTwin
  <2>2. ASSUME NEW e \in Convs, Direct(e)', conv'[e].members = Pair(u, v)
        PROVE  Direct(e) /\ conv[e].members = Pair(u, v)
    <3>1. Direct(e) /\ Pair(u, v) \subseteq conv[e].members
      BY <1>6, <2>2
    <3>2. PICK x, y \in Users : conv[e].members \subseteq Pair(x, y)
      BY <1>8, <3>1 DEF OwnRows, Parts, DirectHasPair
    <3>3. QED
      BY <2>1, <3>1, <3>2 DEF Pair
  <2>3. ~raced
    BY <2>1 DEF Keeps
  <2>4. Direct(c) /\ conv[c].members = Pair(u, v) /\ Direct(d) /\ conv[d].members = Pair(u, v)
    BY <2>1, <2>2
  <2>5. QED
    BY <1>8, <2>1, <2>3, <2>4 DEF OwnRows, Parts, NoTwin
<1>9. QED
  BY <1>2, <1>3, <1>5, <1>7, <1>8 DEF Parts, Work

\* The step of request r creates a conversation, listed unless it is of a call,
\* and, when it is a direct one, of a pair that has none or a race is noted.
Creates(r, group, us) ==
    /\ created' = created + 1 /\ created' \in Convs /\ OthersSame(r)
    /\ conv' = [conv EXCEPT ![created'] = [group |-> group, members |-> us]]
    /\ handler'[r].conv = created' /\ handler'[r].at # "name"
    /\ Calling(r)' => listed' = listed /\ ~group
    /\ ~Calling(r)' => listed' = listed \cup {created'}
    /\ ~group => \E u, v \in Users : us = Pair(u, v)
    /\ ~raced' => ~raced /\ (~group => \A c \in Convs : Direct(c) => conv[c].members # us)

\* Such a step keeps the invariant.
LEMMA CreatesParts ==
  ASSUME TypeOK, TypeOK', Parts, NEW r \in Requests, OwnRows(r), ~Calling(r), NEW group \in BOOLEAN, NEW us \in SUBSET Users,
         Creates(r, group, us)
  PROVE  Parts'
<1> DEFINE new == created'
<1>1. new \in Convs /\ new \in Nat /\ created \in Nat /\ new = created + 1
  BY Positive, BoundsAssumption DEF Creates, TypeOK
<1>2. new \notin listed /\ \A q \in Requests : handler[q].conv # new
  <2>1. ASSUME new \in listed PROVE FALSE
    <3>1. new <= created
      BY <2>1 DEF Parts, Work, Numbered
    <3>2. QED
      BY <1>1, <3>1
  <2>2. ASSUME NEW q \in Requests, handler[q].conv = new PROVE FALSE
    <3>1. new <= created
      BY <2>2 DEF Parts, Work, Numbered
    <3>2. QED
      BY <1>1, <3>1
  <2>3. QED
    BY <2>1, <2>2
<1>3. conv'[new].group = group /\ conv'[new].members = us /\ \A c \in Convs \ {new} : conv'[c] = conv[c]
  BY <1>1 DEF Creates, TypeOK
<1>4. listed' \subseteq listed \cup {new} /\ listed \subseteq listed'
  BY DEF Creates
<1>5. \A q \in Requests \ {r} : Calling(q)' <=> Calling(q)
  BY DEF Creates, OthersSame, Calling
<1>6. Numbered'
  <2>1. ASSUME NEW c \in listed' \cup gone' PROVE c <= new
    <3>1. CASE c = new
      BY <1>1, <3>1
    <3>2. CASE c \in listed \cup gone
      <4>1. c <= created /\ c \in Nat
        BY <3>2, Positive DEF Parts, Work, Numbered, TypeOK
      <4>2. QED
        BY <1>1, <4>1
    <3>3. CASE c = handler[r].conv
      <4>1. c <= created /\ c \in Nat
        BY <2>1, <3>3, FieldTypes, Positive DEF Parts, Work, Numbered, TypeOK
      <4>2. QED
        BY <1>1, <4>1
    <3>4. QED
      BY <1>4, <2>1, <3>1, <3>2, <3>3 DEF OwnRows
  <2>4. ASSUME NEW c \in Convs, type'[c] # "none" PROVE c <= new
    <3>1. c <= created /\ c \in Nat
      BY <2>4, Positive DEF OwnRows, Parts, Work, Numbered
    <3>2. QED
      BY <1>1, <3>1
  <2>2. ASSUME NEW q \in Requests PROVE handler'[q].conv <= new
    <3>1. CASE q = r
      BY <1>1, <3>1 DEF Creates
    <3>2. CASE q # r
      <4>1. handler[q] \in Handlers
        BY DEF TypeOK
      <4>2. handler[q].conv <= created /\ handler[q].conv \in Nat
        BY <4>1, FieldTypes, Positive DEF Parts, Work, Numbered
      <4>3. handler'[q].conv = handler[q].conv
        BY <3>2 DEF Creates, OthersSame
      <4>4. QED
        BY <1>1, <4>2, <4>3
    <3>3. QED
      BY <3>1, <3>2
  <2>3. QED
    BY <2>1, <2>2, <2>4 DEF Numbered
<1>7. OnlyGroupsGrow'
  <2>1. ASSUME NEW q \in Requests, handler'[q].at = "name"
        PROVE  handler'[q].conv \in Convs /\ conv'[handler'[q].conv].group
    <3>1. q # r
      BY <2>1 DEF Creates
    <3>2. handler'[q].conv = handler[q].conv /\ handler[q].at = "name"
      BY <2>1, <3>1 DEF Creates, OthersSame
    <3>3. handler[q].conv \in Convs \ {new} /\ conv[handler[q].conv].group
      BY <1>2, <3>2 DEF Parts, Work, OnlyGroupsGrow
    <3>4. QED
      BY <1>3, <3>2, <3>3
  <2>2. QED
    BY <2>1 DEF OnlyGroupsGrow
<1>8. ASSUME NEW q \in Requests, Calling(q)'
      PROVE  /\ handler'[q].conv \in Convs \ listed' /\ ~conv'[handler'[q].conv].group
             /\ \A p \in Requests \ {q} : handler'[p].conv # handler'[q].conv
  <2>1. CASE q = r
    <3>1. handler'[q].conv = new /\ listed' = listed /\ ~group
      BY <1>8, <2>1 DEF Creates
    <3>2. \A p \in Requests \ {q} : handler'[p].conv # new
      BY <1>2, <2>1 DEF Creates, OthersSame
    <3>3. QED
      BY <1>1, <1>2, <1>3, <3>1, <3>2
  <2>2. CASE q # r
    <3>1. Calling(q) /\ handler'[q].conv = handler[q].conv /\ handler[q].conv # new
      BY <1>2, <1>5, <1>8, <2>2 DEF Creates, OthersSame
    <3>2. /\ handler[q].conv \in Convs \ listed /\ ~conv[handler[q].conv].group
          /\ \A p \in Requests \ {q} : handler[p].conv # handler[q].conv
      BY <3>1 DEF Parts, Work, CallsAlone
    <3>3. ASSUME NEW p \in Requests \ {q} PROVE handler'[p].conv # handler[q].conv
      <4>1. CASE p = r
        BY <3>1, <4>1 DEF Creates
      <4>2. CASE p # r
        BY <3>2, <4>2 DEF Creates, OthersSame
      <4>3. QED
        BY <4>1, <4>2
    <3>4. QED
      BY <1>3, <1>4, <3>1, <3>2, <3>3
  <2>3. QED
    BY <2>1, <2>2
<1>9. CallsAlone'
  BY <1>8 DEF CallsAlone
<1>10. ASSUME NEW c \in Convs, Direct(c)'
       PROVE  \/ c = new /\ ~group
              \/ c # new /\ Direct(c) /\ conv'[c] = conv[c]
  <2>1. CASE c = new
    <3>1. ~conv'[c].group
      BY <1>8, <1>10 DEF Direct
    <3>2. QED
      BY <1>3, <2>1, <3>1
  <2>2. CASE c # new
    <3>1. conv'[c] = conv[c]
      BY <1>3, <2>2
    <3>2. CASE c \in listed' /\ ~conv'[c].group
      BY <1>4, <2>2, <3>1, <3>2 DEF Direct
    <3>3. CASE \E q \in Requests : Calling(q)' /\ handler'[q].conv = c
      <4>1. PICK q \in Requests : Calling(q)' /\ handler'[q].conv = c
        BY <3>3
      <4>2. q # r
        BY <2>2, <4>1 DEF Creates
      <4>3. Calling(q) /\ handler[q].conv = c
        BY <1>5, <4>1, <4>2 DEF Creates, OthersSame
      <4>4. QED
        BY <2>2, <3>1, <4>3 DEF Direct
    <3>4. QED
      BY <1>10, <3>2, <3>3 DEF Direct
  <2>3. QED
    BY <2>1, <2>2
<1>11. ASSUME restarts' = 0 PROVE DirectHasPair'
  <2>1. ASSUME NEW c \in Convs, Direct(c)' PROVE \E u, v \in Users : conv'[c].members \subseteq Pair(u, v)
    <3>1. CASE c = new /\ ~group
      BY <1>3, <3>1 DEF Creates
    <3>2. CASE Direct(c) /\ conv'[c] = conv[c]
      BY <1>11, <3>2 DEF OwnRows, Parts, DirectHasPair
    <3>3. QED
      BY <1>10, <2>1, <3>1, <3>2
  <2>2. QED
    BY <2>1 DEF DirectHasPair
<1>12. ASSUME restarts' = 0 PROVE NoTwin'
  <2>1. SUFFICES ASSUME ~raced', NEW u \in Users, NEW v \in Users, NEW c \in Convs, NEW d \in Convs, u # v,
                        Direct(c)', Direct(d)', conv'[c].members = Pair(u, v), conv'[d].members = Pair(u, v)
                 PROVE  c = d
    BY DEF NoTwin
  <2>2. ~raced /\ (~group => \A e \in Convs : Direct(e) => conv[e].members # us)
    BY <2>1 DEF Creates
  <2>3. CASE c = new \/ d = new
    BY <1>3, <1>10, <2>1, <2>2, <2>3
  <2>4. CASE c # new /\ d # new
    <3>1. Direct(c) /\ Direct(d) /\ conv[c].members = Pair(u, v) /\ conv[d].members = Pair(u, v)
      BY <1>10, <2>1, <2>4
    <3>2. QED
      BY <1>12, <2>1, <2>2, <3>1 DEF OwnRows, Parts, NoTwin
  <2>5. QED
    BY <2>3, <2>4
<1>13. QED
  BY <1>6, <1>7, <1>9, <1>11, <1>12 DEF Parts, Work

\* What becomes of the handlers when memberIds is changed.
LEMMA PushedOthers ==
  ASSUME TypeOK, NEW r \in Requests, NEW c, NEW u, NEW h, handler' = Pushed(r, c, u, h)
  PROVE  OthersSame(r) /\ handler'[r] = h
<1>1. ASSUME NEW q \in Requests PROVE LET k == [handler[q] EXCEPT !.todo = @ \cup {u}]
        IN k.op = handler[q].op /\ k.conv = handler[q].conv /\ k.at = handler[q].at
  BY DEF TypeOK, Handlers
<1>2. QED
  BY <1>1 DEF OthersSame, Pushed

LEMMA FilteredOthers ==
  ASSUME TypeOK, NEW r \in Requests, NEW c, NEW h, handler' = Filtered(r, c, h)
  PROVE  OthersSame(r) /\ handler'[r] = h
<1>1. ASSUME NEW q \in Requests PROVE LET k == [handler[q] EXCEPT !.shared = FALSE]
        IN k.op = handler[q].op /\ k.conv = handler[q].conv /\ k.at = handler[q].at
  BY DEF TypeOK, Handlers
<1>2. QED
  BY <1>1 DEF OthersSame, Filtered

LEMMA AtFields ==
  ASSUME NEW h \in Handlers, NEW at PROVE LET k == [h EXCEPT !.at = at] IN k.at = at /\ k.conv = h.conv /\ k.op = h.op
  BY DEF Handlers

LEMMA AwaitsFields ==
  ASSUME NEW op, NEW c, NEW at, NEW todo, NEW shared
  PROVE  LET k == Awaits(op, c, at, todo, shared) IN k.op = op /\ k.conv = c /\ k.at = at
  BY DEF Awaits

LEMMA ReplacedOthers ==
  ASSUME TypeOK, NEW r \in Requests, NEW h, handler' = [handler EXCEPT ![r] = h]
  PROVE  OthersSame(r) /\ handler'[r] = h
  BY DEF TypeOK, OthersSame

\* The steps that create nothing, one by one.
LEMMA KeepsInvite ==
  ASSUME TypeOK, Parts, NEW r \in Requests, NEW u \in Users, NEW v \in Users, Invite(r, u, v) PROVE Keeps(r)
<1>1. handler' = [handler EXCEPT ![r] = Awaits("call", 0, "select", Pair(u, v), FALSE)]
  BY DEF Invite
<1>2. OthersSame(r) /\ handler'[r] = Awaits("call", 0, "select", Pair(u, v), FALSE)
  BY <1>1, ReplacedOthers
<1>3. conv' = conv /\ listed' = listed /\ created' = created /\ raced' = raced
  BY DEF Invite, memory, past
<1>4. QED
  BY <1>2, <1>3 DEF Keeps, Calling, Awaits

LEMMA KeepsInsertConversation ==
  ASSUME TypeOK, Parts, NEW r \in Requests, InsertConversation(r) PROVE Keeps(r)
<1>1. handler' = [handler EXCEPT ![r] = [handler[r] EXCEPT !.at = "members"]]
  BY DEF InsertConversation
<1>2. OthersSame(r) /\ handler'[r] = [handler[r] EXCEPT !.at = "members"]
  BY <1>1, ReplacedOthers
<1>3. conv' = conv /\ listed' = listed /\ created' = created /\ raced' = raced
  BY DEF InsertConversation, memory, past
<1>4. handler'[r].at = "members" /\ handler'[r].conv = handler[r].conv /\ handler'[r].op = handler[r].op
  <2>1. handler[r] \in Handlers
    BY DEF TypeOK
  <2>2. QED
    BY <1>2, <2>1, AtFields
<1>5. QED
  BY <1>2, <1>3, <1>4 DEF Keeps, Calling, InsertConversation

LEMMA KeepsInsertMember ==
  ASSUME TypeOK, Parts, NEW r \in Requests, NEW u \in Users, InsertMember(r, u) PROVE Keeps(r)
<1> DEFINE h == handler[r]
           rest == [h EXCEPT !.todo = h.todo \ {u}]
           last == h.todo = {u} \/ type[h.conv] = "none"
<1>1. handler' = [handler EXCEPT ![r] = IF last THEN Idle ELSE rest]
  BY DEF InsertMember
<1>2. OthersSame(r) /\ handler'[r] = IF last THEN Idle ELSE rest
  BY <1>1, ReplacedOthers
<1>3. conv' = conv /\ created' = created /\ raced' = raced
  BY DEF InsertMember, past
<1>4. h.at = "members" /\ rest.at = "members" /\ rest.conv = h.conv /\ rest.op = h.op
  BY DEF InsertMember, TypeOK, Handlers
<1>5. \A c \in listed' \ listed : h.op = "call" /\ c = h.conv /\ last
  BY DEF InsertMember
<1>6. QED
  BY <1>2, <1>3, <1>4, <1>5 DEF Keeps, Calling, Idle

LEMMA KeepsAdd ==
  ASSUME TypeOK, Parts, NEW r \in Requests, NEW u \in Users, NEW c \in Convs, NEW w \in Users, Add(r, u, c, w)
  PROVE  Keeps(r)
<1>1. created' = created /\ raced' = raced /\ listed' = listed /\ c \in listed /\ handler[r] = Idle
  BY DEF Add, Begin, Member
<1>2. CASE conv[c].group
  <2>1. OthersSame(r) /\ handler'[r] = Awaits("add", c, "members", {w}, FALSE)
    BY <1>2, PushedOthers DEF Add
  <2>2. conv' = [conv EXCEPT ![c].members = @ \cup {w}]
    BY <1>2 DEF Add
  <2>3. conv'[c].group /\ \A d \in Convs \ {c} : conv'[d] = conv[d]
    BY <1>2, <2>2 DEF TypeOK
  <2>4. QED
    BY <1>1, <2>1, <2>3 DEF Keeps, Calling, Awaits
<1>3. CASE ~conv[c].group
  <2>1. OthersSame(r) /\ handler'[r] = Awaits("add", c, "name", {w}, FALSE)
    BY <1>3, ReplacedOthers DEF Add
  <2>2. conv' = [conv EXCEPT ![c].group = TRUE]
    BY <1>3 DEF Add
  <2>3. conv'[c].group /\ \A d \in Convs \ {c} : conv'[d] = conv[d]
    BY <2>2 DEF TypeOK
  <2>4. QED
    BY <1>1, <2>1, <2>3 DEF Keeps, Calling, Awaits
<1>4. QED
  BY <1>2, <1>3

LEMMA KeepsNameWritten ==
  ASSUME TypeOK, Parts, NEW r \in Requests, NameWritten(r) PROVE Keeps(r)
<1> DEFINE h == handler[r]
           now == [h EXCEPT !.at = "members"]
<1>1. PICK w \in h.todo : /\ conv' = [conv EXCEPT ![h.conv].members = @ \cup {w}]
                          /\ handler' = Pushed(r, h.conv, w, now)
  BY DEF NameWritten
<1>2. OthersSame(r) /\ handler'[r] = now
  BY <1>1, PushedOthers
<1>3. now.at = "members" /\ now.conv = h.conv /\ now.op = h.op
  BY DEF TypeOK, Handlers
<1>4. h.at = "name" /\ h.conv \in Convs /\ conv[h.conv].group
  BY DEF NameWritten, Parts, Work, OnlyGroupsGrow
<1>5. conv'[h.conv].group /\ \A d \in Convs \ {h.conv} : conv'[d] = conv[d]
  BY <1>1, <1>4 DEF TypeOK
<1>6. created' = created /\ raced' = raced /\ listed' = listed
  BY DEF NameWritten, past
<1>7. ~Calling(r)
  BY <1>4 DEF Parts, Work, CallsAlone
<1>8. ~Calling(r)'
  BY <1>2, <1>3, <1>7 DEF Calling, NameWritten
<1>9. QED
  BY <1>2, <1>3, <1>5, <1>6, <1>7, <1>8 DEF Keeps

LEMMA KeepsRemove ==
  ASSUME TypeOK, Parts, NEW r \in Requests, NEW u \in Users, NEW c \in Convs, NEW w \in Users, Remove(r, u, c, w) PROVE Keeps(r)
<1>1. created' = created /\ raced' = raced /\ listed' = listed /\ c \in listed /\ handler[r] = Idle
  BY DEF Remove, Begin, Member
<1>2. OthersSame(r) /\ handler'[r] = Awaits("remove", c, "member", {w}, FALSE)
  BY FilteredOthers DEF Remove
<1>3. conv' = [conv EXCEPT ![c].members = @ \ {w}]
  BY DEF Remove
<1>4. /\ conv'[c].group = conv[c].group /\ conv'[c].members \subseteq conv[c].members
      /\ \A d \in Convs \ {c} : conv'[d] = conv[d]
  BY <1>3 DEF TypeOK
<1>5. QED
  BY <1>1, <1>2, <1>4 DEF Keeps, Calling, Awaits, Idle

LEMMA KeepsLeave ==
  ASSUME TypeOK, Parts, NEW r \in Requests, NEW u \in Users, NEW c \in Convs, Leave(r, u, c) PROVE Keeps(r)
<1>1. created' = created /\ raced' = raced /\ listed' = listed /\ c \in listed /\ handler[r] = Idle
  BY DEF Leave, Begin, Member
<1>2. OthersSame(r) /\ handler'[r] = Awaits("leave", c, "member", {u}, FALSE)
  BY FilteredOthers DEF Leave
<1>3. conv' = [conv EXCEPT ![c].members = @ \ {u}]
  BY DEF Leave
<1>4. /\ conv'[c].group = conv[c].group /\ conv'[c].members \subseteq conv[c].members
      /\ \A d \in Convs \ {c} : conv'[d] = conv[d]
  BY <1>3 DEF TypeOK
<1>5. QED
  BY <1>1, <1>2, <1>4 DEF Keeps, Calling, Awaits, Idle

\* What a removal goes on with is no call.
LEMMA AfterRemovalFields ==
  ASSUME NEW h \in Handlers, NEW left
  PROVE  LET k == AfterRemoval(h, left)
         IN k.op # "call" /\ k.conv \in {0, h.conv} /\ k.at # "name"
  BY DEF AfterRemoval, Idle, Handlers

LEMMA KeepsDeleteMember ==
  ASSUME TypeOK, Parts, NEW r \in Requests, DeleteMember(r) PROVE Keeps(r)
<1> DEFINE h == handler[r]
           left == IF h.conv \in listed THEN conv[h.conv].members \ h.todo ELSE conv[h.conv].members
<1>1. created' = created /\ raced' = raced /\ listed' = listed
  BY DEF DeleteMember, past
<1>2. OthersSame(r) /\ handler'[r] = AfterRemoval(h, left)
  BY FilteredOthers DEF DeleteMember
<1>3. h \in Handlers
  BY DEF TypeOK
<1>4. handler'[r].op # "call" /\ handler'[r].conv \in {0, h.conv} /\ handler'[r].at # "name"
  BY <1>2, <1>3, AfterRemovalFields
<1>5. h.conv \in Convs
  BY <1>3, FieldTypes DEF DeleteMember
<1>6. conv' = [conv EXCEPT ![h.conv].members = left]
  BY DEF DeleteMember
<1>7. /\ conv'[h.conv].group = conv[h.conv].group /\ conv'[h.conv].members \subseteq conv[h.conv].members
      /\ \A d \in Convs \ {h.conv} : conv'[d] = conv[d]
  BY <1>5, <1>6 DEF TypeOK
<1>8. QED
  BY <1>1, <1>2, <1>4, <1>5, <1>7 DEF Keeps, Calling

LEMMA KeepsDelete ==
  ASSUME TypeOK, Parts, NEW r \in Requests, NEW u \in Users, NEW c \in Convs, Delete(r, u, c) PROVE Keeps(r)
<1>1. handler' = [handler EXCEPT ![r] = Awaits("delete", c, "purge", {}, FALSE)]
  BY DEF Delete
<1>2. OthersSame(r) /\ handler'[r] = Awaits("delete", c, "purge", {}, FALSE)
  BY <1>1, ReplacedOthers
<1>3. conv' = conv /\ listed' = listed /\ created' = created /\ raced' = raced
  BY DEF Delete, memory
<1>4. c \in listed
  BY DEF Delete, Member
<1>5. handler'[r].op = "delete" /\ handler'[r].conv = c /\ handler'[r].at # "name"
  <2>1. ASSUME NEW todo, handler'[r] = Awaits("delete", c, "purge", todo, FALSE)
        PROVE  handler'[r].op = "delete" /\ handler'[r].conv = c /\ handler'[r].at # "name"
    BY <2>1 DEF Awaits
  <2>2. QED
    BY <1>2, <2>1, Zenon
<1>6. QED
  BY <1>2, <1>3, <1>4, <1>5 DEF Keeps, Calling

LEMMA KeepsDropMembers ==
  ASSUME TypeOK, Parts, NEW r \in Requests, DropMembers(r) PROVE Keeps(r)
<1>1. handler' = [handler EXCEPT ![r] = [handler[r] EXCEPT !.at = "drop"]]
  BY DEF DropMembers
<1>2. OthersSame(r) /\ handler'[r] = [handler[r] EXCEPT !.at = "drop"]
  BY <1>1, ReplacedOthers
<1>3. conv' = conv /\ listed' = listed /\ created' = created /\ raced' = raced
  BY DEF DropMembers, memory, past
<1>4. handler'[r].at = "drop" /\ handler'[r].conv = handler[r].conv /\ handler'[r].op = handler[r].op
  <2>1. handler[r] \in Handlers
    BY DEF TypeOK
  <2>2. QED
    BY <1>2, <2>1, AtFields
<1>5. QED
  BY <1>2, <1>3, <1>4 DEF Keeps, Calling, DropMembers

LEMMA KeepsDropConversation ==
  ASSUME TypeOK, Parts, NEW r \in Requests, DropConversation(r) PROVE Keeps(r)
<1>1. handler' = [handler EXCEPT ![r] = Idle]
  BY DEF DropConversation
<1>2. OthersSame(r) /\ handler'[r] = Idle
  BY <1>1, ReplacedOthers
<1>3. conv' = conv /\ listed' \subseteq listed /\ created' = created /\ raced' = raced
  BY DEF DropConversation
<1>4. QED
  BY <1>2, <1>3 DEF Keeps, Calling, Idle

LEMMA KeepsFail ==
  ASSUME TypeOK, Parts, NEW r \in Requests, Fail(r) PROVE Keeps(r)
<1> DEFINE h == handler[r]
           next == IF h.at = "member" THEN AfterRemoval(h, conv[h.conv].members) ELSE Idle
<1>1. created' = created /\ raced' = raced /\ listed' = listed /\ conv' = conv
  BY DEF Fail, memory
<1>2. OthersSame(r) /\ handler'[r] = next
  BY ReplacedOthers DEF Fail
<1>3. h \in Handlers
  BY DEF TypeOK
<1>4. handler'[r].op # "call" /\ handler'[r].conv \in {0, h.conv} /\ handler'[r].at # "name"
  BY <1>2, <1>3, AfterRemovalFields DEF Idle
<1>5. QED
  BY <1>1, <1>2, <1>4 DEF Keeps, Calling

\* The two outcomes of the search of a call, and the two other creations.
LEMMA PartsFindOrCreate ==
  ASSUME TypeOK, TypeOK', Parts, NEW r \in Requests, OwnRows(r), NEW u \in Users, NEW v \in Users, FindOrCreate(r, u, v)
  PROVE  Parts'
<1>1. handler[r].at = "select" /\ listed' = listed
  BY DEF FindOrCreate
<1>2. ~Calling(r)
  BY <1>1 DEF Calling
<1>3. CASE \E c \in Convs : IsDirect(c, u, v)
  <2>1. OthersSame(r) /\ handler'[r] = Idle
    BY <1>3, ReplacedOthers DEF FindOrCreate
  <2>2. conv' = conv /\ created' = created /\ raced' = raced
    BY <1>3 DEF FindOrCreate
  <2>3. Keeps(r)
    BY <1>1, <2>1, <2>2 DEF Keeps, Calling, Idle
  <2>4. QED
    BY <2>3, KeepsParts
<1>4. CASE ~\E c \in Convs : IsDirect(c, u, v)
  <2>1. OthersSame(r) /\ handler'[r] = Awaits("call", created', "conversation", Pair(u, v), FALSE)
    BY <1>4, ReplacedOthers DEF FindOrCreate
  <2>2. /\ conv' = [conv EXCEPT ![created'] = [group |-> FALSE, members |-> Pair(u, v)]]
        /\ created' = created + 1 /\ created < MaxConvs
    BY <1>4 DEF FindOrCreate
  <2>3. created' \in Convs
    BY <2>2, NewNumber
  <2>4. Calling(r)'
    BY <2>1 DEF Calling, Awaits
  <2>5. ~raced' => ~raced /\ ~CallCreates(u, v)
    BY <1>4 DEF FindOrCreate
  <2>6. ASSUME ~raced', NEW c \in Convs, Direct(c) PROVE conv[c].members # Pair(u, v)
    BY <1>4, <2>5, <2>6 DEF Direct, IsDirect, CallCreates, Calling
  <2>7. Pair(u, v) \in SUBSET Users
    BY DEF Pair
  <2>8. Creates(r, FALSE, Pair(u, v))
    BY <1>1, <2>1, <2>2, <2>3, <2>4, <2>5, <2>6 DEF Creates, Awaits
  <2>9. QED
    BY <1>2, <2>7, <2>8, CreatesParts
<1>5. QED
  BY <1>3, <1>4

LEMMA PartsPostDirect ==
  ASSUME TypeOK, TypeOK', Parts, NEW r \in Requests, OwnRows(r), NEW u \in Users, NEW v \in Users, PostDirect(r, u, v)
  PROVE  Parts'
<1>1. ~Calling(r)
  BY DEF PostDirect, Begin, Idle, Calling
<1>2. /\ conv' = [conv EXCEPT ![created'] = [group |-> FALSE, members |-> Pair(u, v)]]
      /\ created' = created + 1 /\ created < MaxConvs /\ listed' = listed \cup {created'}
  BY DEF PostDirect, Create
<1>3. OthersSame(r) /\ handler'[r] = Awaits("create", created', "conversation", Pair(u, v), TRUE)
  BY ReplacedOthers DEF PostDirect, Create
<1>4. created' \in Convs /\ Pair(u, v) \in SUBSET Users
  BY <1>2, NewNumber DEF Pair
<1>5. ~raced' => ~raced /\ ~CallCreates(u, v)
  BY DEF PostDirect
<1>6. ASSUME ~raced', NEW c \in Convs, Direct(c) PROVE conv[c].members # Pair(u, v)
  BY <1>5, <1>6 DEF PostDirect, Direct, IsDirect, CallCreates, Calling
<1>7. Creates(r, FALSE, Pair(u, v))
  BY <1>2, <1>3, <1>4, <1>5, <1>6 DEF Creates, Awaits, Calling
<1>8. QED
  BY <1>1, <1>4, <1>7, CreatesParts

LEMMA PartsPostGroup ==
  ASSUME TypeOK, TypeOK', Parts, NEW r \in Requests, OwnRows(r), NEW us \in SUBSET Users, PostGroup(r, us)
  PROVE  Parts'
<1>1. ~Calling(r)
  BY DEF PostGroup, Begin, Idle, Calling
<1>2. /\ conv' = [conv EXCEPT ![created'] = [group |-> TRUE, members |-> us]]
      /\ created' = created + 1 /\ created < MaxConvs /\ listed' = listed \cup {created'} /\ raced' = raced
  BY DEF PostGroup, Create, past
<1>3. OthersSame(r) /\ handler'[r] = Awaits("create", created', "conversation", us, TRUE)
  BY ReplacedOthers DEF PostGroup, Create
<1>4. created' \in Convs
  BY <1>2, NewNumber
<1>5. Creates(r, TRUE, us)
  BY <1>2, <1>3, <1>4 DEF Creates, Awaits, Calling
<1>6. QED
  BY <1>1, <1>5, CreatesParts

\* What the requests do to the rows.
LEMMA RowsOfRequest == ASSUME TypeOK, NEW r \in Requests, Statement(r) \/ Request(r) PROVE OwnRows(r)
<1>1. CASE Statement(r)
  <2>1. handler[r].at = "conversation" => handler[r].conv \in Convs
    BY FieldTypes DEF TypeOK
  <2>2. restarts' = restarts
    BY <1>1 DEF Statement, InsertConversation, InsertMember, NameWritten, DeleteMember, DropMembers,
       DropConversation, Fail, counts
  <2>3. gone' = gone \/ gone' = Answered(handler[r])
    BY <1>1 DEF Statement, InsertConversation, InsertMember, NameWritten, DeleteMember, DropMembers,
       DropConversation, Fail, past
  <2>4. \/ type' = type
        \/ \E k \in {"none", "Direct", "Group"} : type' = [type EXCEPT ![handler[r].conv] = k]
    BY <1>1 DEF Statement, InsertConversation, InsertMember, NameWritten, DeleteMember, DropMembers,
       DropConversation, Fail, rows
  <2>5. QED
    BY <2>2, <2>3, <2>4 DEF OwnRows, Answered, TypeOK
<1>2. CASE Request(r)
  <2>1. restarts' = restarts
    BY <1>2 DEF Request, PostGroup, PostDirect, Invite, FindOrCreate, Leave, Delete, Add, Remove, Begin, counts
  <2>2. gone' = gone /\ type' = type
    BY <1>2 DEF Request, PostGroup, PostDirect, Invite, FindOrCreate, Leave, Delete, Add, Remove, Create, past, rows
  <2>3. QED
    BY <2>1, <2>2 DEF OwnRows
<1>3. QED
  BY <1>1, <1>2

\* Every step keeps the invariant.
LEMMA InvStep == Inv /\ [Next]_vars => Inv'
<1> SUFFICES ASSUME Inv, [Next]_vars PROVE Inv'
  OBVIOUS
<1>1. TypeOK /\ TypeOK' /\ Parts
  BY TypeStep DEF Inv, Parts
<1>2. ASSUME NEW r \in Requests, Statement(r) PROVE Parts'
  <2>1. Keeps(r)
    BY <1>1, <1>2, KeepsInsertConversation, KeepsNameWritten, KeepsDeleteMember, KeepsDropMembers,
       KeepsDropConversation, KeepsFail, KeepsInsertMember DEF Statement
  <2>2. QED
    BY <1>1, <1>2, <2>1, RowsOfRequest, KeepsParts
<1>3. ASSUME NEW r \in Requests, Request(r) PROVE Parts'
  BY <1>1, <1>3, RowsOfRequest, KeepsParts, PartsPostGroup, PartsPostDirect, KeepsInvite, PartsFindOrCreate, KeepsLeave,
     KeepsDelete, KeepsAdd, KeepsRemove DEF Request
<1>4. ASSUME Restart PROVE Parts'
  <2>1. handler' = [r \in Requests |-> Idle] /\ listed' = {c \in Convs : type[c] # "none"}
    BY <1>4 DEF Restart
  <2>2. created' = created /\ gone' = gone /\ type' = type /\ restarts' # 0
    BY <1>1, <1>4 DEF Restart, TypeOK, rows, past
  <2>3. \A r \in Requests : handler'[r].conv = 0 /\ handler'[r].at = "done" /\ handler'[r].op = "idle"
    BY <2>1 DEF Idle
  <2>4. created \in Nat /\ 0 <= created
    BY <1>1 DEF TypeOK
  <2>5. Numbered'
    BY <1>1, <2>1, <2>2, <2>3, <2>4 DEF Parts, Work, Numbered
  <2>6. OnlyGroupsGrow' /\ CallsAlone'
    BY <2>3 DEF OnlyGroupsGrow, CallsAlone, Calling
  <2>7. Work' /\ restarts' # 0
    BY <2>2, <2>5, <2>6 DEF Work
  <2>8. QED
    BY <2>7 DEF Parts
<1>5. ASSUME UNCHANGED vars PROVE Parts'
  <2>1. /\ listed' = listed /\ conv' = conv /\ handler' = handler /\ created' = created /\ raced' = raced
        /\ gone' = gone /\ type' = type /\ restarts' = restarts
    BY <1>5 DEF vars, memory, rows, past, counts
  <2>2. \A r \in Requests : Calling(r)' <=> Calling(r)
    BY <2>1 DEF Calling
  <2>3. \A c \in Convs : Direct(c)' <=> Direct(c)
    BY <2>1, <2>2 DEF Direct
  <2>4. Work'
    BY <1>1, <2>1, <2>2 DEF Parts, Work, Numbered, OnlyGroupsGrow, CallsAlone
  <2>5. restarts' = 0 => DirectHasPair' /\ NoTwin'
    BY <1>1, <2>1, <2>3 DEF Parts, DirectHasPair, NoTwin
  <2>6. QED
    BY <2>4, <2>5 DEF Parts
<1>6. Parts'
  BY <1>2, <1>3, <1>4, <1>5 DEF Next
<1>7. QED
  BY <1>1, <1>6 DEF Inv, Parts

LEMMA InitInv == Init => Inv
<1> SUFFICES ASSUME Init PROVE Inv
  OBVIOUS
<1>1. \A r \in Requests : handler[r] = Idle
  BY DEF Init
<1>2. Numbered /\ OnlyGroupsGrow
  BY <1>1 DEF Init, Idle, Numbered, OnlyGroupsGrow
<1>3. \A r \in Requests : ~Calling(r)
  BY <1>1 DEF Idle, Calling
<1>4. \A c \in Convs : ~Direct(c)
  BY <1>3 DEF Direct, Init
<1>5. CallsAlone /\ DirectHasPair /\ NoTwin
  BY <1>3, <1>4 DEF CallsAlone, DirectHasPair, NoTwin
<1>6. QED
  BY <1>2, <1>5, InitType DEF Inv, Work

\* However requests interleave, two users have one direct conversation, unless
\* a call and another request looked for it at once or the process restarted.
THEOREM OneDirectHolds == Spec => []OneDirect
<1>1. Inv => OneDirect
  BY DEF Inv, NoTwin, OneDirect, IsDirect, Direct
<1>2. QED
  BY <1>1, InitInv, InvStep, PTL DEF Spec

-----------------------------------------------------------------------------
(* The rows follow the memory                                              *)

\* What becomes of the handlers, with what they have to do.
LEMMA PushedTodo ==
  ASSUME TypeOK, NEW r \in Requests, NEW c, NEW u, NEW h, handler' = Pushed(r, c, u, h), NEW q \in Requests \ {r}
  PROVE  /\ handler'[q].op = handler[q].op /\ handler'[q].conv = handler[q].conv
         /\ handler'[q].at = handler[q].at /\ handler'[q].shared = handler[q].shared
         /\ handler[q].conv = c /\ handler[q].shared => handler'[q].todo = handler[q].todo \cup {u}
         /\ ~(handler[q].conv = c /\ handler[q].shared) => handler'[q] = handler[q]
<1>1. handler[q] \in Handlers
  BY DEF TypeOK
<1>2. LET k == [handler[q] EXCEPT !.todo = @ \cup {u}]
      IN /\ k.op = handler[q].op /\ k.conv = handler[q].conv /\ k.at = handler[q].at
         /\ k.shared = handler[q].shared /\ k.todo = handler[q].todo \cup {u}
  BY <1>1 DEF Handlers
<1>3. handler'[q] = IF handler[q].conv = c /\ handler[q].shared
                    THEN [handler[q] EXCEPT !.todo = @ \cup {u}] ELSE handler[q]
  BY DEF Pushed
<1>4. QED
  BY <1>2, <1>3

LEMMA FilteredTodo ==
  ASSUME TypeOK, NEW r \in Requests, NEW c, NEW h, handler' = Filtered(r, c, h), NEW q \in Requests \ {r}
  PROVE  /\ handler'[q].op = handler[q].op /\ handler'[q].conv = handler[q].conv
         /\ handler'[q].at = handler[q].at /\ handler'[q].todo = handler[q].todo
         /\ handler[q].conv # c => handler'[q] = handler[q]
<1>1. handler[q] \in Handlers
  BY DEF TypeOK
<1>2. LET k == [handler[q] EXCEPT !.shared = FALSE]
      IN /\ k.op = handler[q].op /\ k.conv = handler[q].conv /\ k.at = handler[q].at /\ k.todo = handler[q].todo
  BY <1>1 DEF Handlers
<1>3. handler'[q] = IF handler[q].conv = c THEN [handler[q] EXCEPT !.shared = FALSE] ELSE handler[q]
  BY DEF Filtered
<1>4. QED
  BY <1>2, <1>3

LEMMA AtAll ==
  ASSUME NEW h \in Handlers, NEW at
  PROVE  LET k == [h EXCEPT !.at = at]
         IN k.op = h.op /\ k.conv = h.conv /\ k.at = at /\ k.todo = h.todo /\ k.shared = h.shared
  BY DEF Handlers

LEMMA TodoAll ==
  ASSUME NEW h \in Handlers, NEW todo
  PROVE  LET k == [h EXCEPT !.todo = todo]
         IN k.op = h.op /\ k.conv = h.conv /\ k.at = h.at /\ k.todo = todo /\ k.shared = h.shared
  BY DEF Handlers

LEMMA IdleAll == Idle.op = "idle" /\ Idle.conv = 0 /\ Idle.at = "done" /\ Idle.todo = {}
  BY DEF Idle

\* What a handler of a conversation is at.
LEMMA AtWork ==
  ASSUME TypeOK, Phases, NEW q \in Requests, handler[q].conv \in Convs
  PROVE  /\ handler[q].op \in Adding \cup Removing \cup {"call"}
         /\ handler[q].op \in Removing => handler[q].at \in {"member", "purge", "drop"}
         /\ handler[q].op \notin Removing => handler[q].at \in {"conversation", "members", "name"}
         /\ handler[q].op = "call" => Calling(q) /\ handler[q].at # "name"
<1>1. handler[q] \in Handlers /\ handler[q].conv # 0 /\ Phased(handler[q])
  BY Positive DEF TypeOK, Phases
<1>2. handler[q].at \notin {"done", "select"}
  BY <1>1, IdleAll DEF Phased
<1>3. /\ handler[q].at \in {"conversation", "members", "name", "member", "purge", "drop"}
      /\ handler[q].op \in {"idle", "create", "call", "add", "remove", "leave", "delete"}
  BY <1>1, <1>2 DEF Handlers
<1>4. /\ handler[q].at = "conversation" => handler[q].op \in {"create", "call"}
      /\ handler[q].at = "members" => handler[q].op \in {"create", "call", "add"}
      /\ handler[q].at = "name" => handler[q].op = "add"
      /\ handler[q].at = "member" => handler[q].op \in {"remove", "leave"}
      /\ handler[q].at \in {"purge", "drop"} => handler[q].op \in {"leave", "delete"}
  BY <1>1 DEF Phased
<1>5. QED
  BY <1>2, <1>3, <1>4 DEF Adding, Removing, Calling

\* Nobody but its call is at work on a conversation that is not in memory yet.
LEMMA CallAlone ==
  ASSUME TypeOK, Phases, Work, NEW q \in Requests, handler[q].conv \in Convs, handler[q].op = "call"
  PROVE  /\ handler[q].conv \notin listed
         /\ \A p \in Requests : handler[p].conv = handler[q].conv => p = q
  BY AtWork DEF Work, CallsAlone

\* The step has nothing to do with conversation c.
Untouched(c) ==
    /\ conv'[c] = conv[c] /\ (c \in listed' <=> c \in listed)
    /\ type'[c] = type[c] /\ members'[c] = members[c]
    /\ c \in gone' => c \in gone
    /\ c \in selfRemoved => c \in selfRemoved'
    /\ c \in escalated => c \in escalated'
    /\ \A q \in Requests : handler[q].conv = c \/ handler'[q].conv = c => handler'[q] = handler[q]

LEMMA FitsUntouched ==
  ASSUME NEW c \in Convs, Untouched(c), restarts' = restarts, Fits(c) PROVE Fits(c)'
<1>1. \A q \in Requests : handler[q].conv = c \/ handler'[q].conv = c => handler'[q] = handler[q]
  BY DEF Untouched
<1>2. conv'[c] = conv[c] /\ (c \in listed' <=> c \in listed) /\ type'[c] = type[c] /\ members'[c] = members[c]
  BY DEF Untouched
<1>3. Live(c)' <=> Live(c)
  BY <1>1, <1>2 DEF Live, Calling
<1>4. Dropping(c)' <=> Dropping(c)
  BY <1>1 DEF Dropping
<1>5. ASSUME NEW ats, NEW u PROVE Awaiting(c, ats, u)' <=> Awaiting(c, ats, u)
  BY <1>1 DEF Awaiting
<1>6. On(c, Adding)' = On(c, Adding) /\ On(c, Removing)' = On(c, Removing)
  BY <1>1 DEF On, Adding, Removing
<1>7. OneKind(c)' /\ AddersListed(c)'
  BY <1>2, <1>6 DEF Fits, OneKind, AddersListed
<1>8. Written(c)'
  BY <1>1, <1>2 DEF Fits, Written
<1>9. RowComing(c)'
  BY <1>1, <1>2, <1>3 DEF Fits, RowComing
<1>10. RowsGoing(c)' /\ RowsComing(c)'
  BY <1>2, <1>3, <1>4, <1>5 DEF Fits, RowsGoing, RowsComing
<1>11. RowsLive(c)' /\ GoneDead(c)' /\ DropsLast(c)'
  BY <1>2, <1>3, <1>4 DEF Fits, RowsLive, GoneDead, DropsLast, Untouched
<1>12. Deserted(c)'
  BY <1>1, <1>2 DEF Fits, Deserted, Untouched
<1>13. QED
  BY <1>7, <1>8, <1>9, <1>10, <1>11, <1>12 DEF Fits

\* Who is at work on a conversation in memory from which a member is removed,
\* or to which one is added, when the two do not overlap.
LEMMA OnlyRemovers ==
  ASSUME TypeOK, Phases, Work, NEW c \in Convs, c \in listed, ~On(c, Adding), Fits(c)
  PROVE  /\ \A q \in Requests : handler[q].conv = c =>
              handler[q].op \in Removing /\ handler[q].at \in {"member", "purge", "drop"}
         /\ Live(c) /\ type[c] # "none" /\ c \notin gone
<1>1. ASSUME NEW q \in Requests, handler[q].conv = c
      PROVE  handler[q].op \in Removing /\ handler[q].at \in {"member", "purge", "drop"}
  <2>1. handler[q].op # "call" /\ handler[q].op \notin Adding
    BY <1>1, CallAlone DEF On
  <2>2. QED
    BY <1>1, <2>1, AtWork
<1>2. Live(c)
  BY DEF Live
<1>3. type[c] # "none" /\ c \notin gone
  BY <1>1, <1>2 DEF Fits, RowComing, GoneDead
<1>4. QED
  BY <1>1, <1>2, <1>3

LEMMA OnlyAdders ==
  ASSUME TypeOK, Phases, Work, NEW c \in Convs, c \in listed, ~On(c, Removing), Fits(c)
  PROVE  /\ \A q \in Requests : handler[q].conv = c =>
              handler[q].op \in Adding /\ handler[q].at \in {"conversation", "members", "name"}
         /\ Live(c) /\ c \notin gone /\ ~Dropping(c)
<1>1. ASSUME NEW q \in Requests, handler[q].conv = c
      PROVE  handler[q].op \in Adding /\ handler[q].at \in {"conversation", "members", "name"}
  <2>1. handler[q].op # "call" /\ handler[q].op \notin Removing
    BY <1>1, CallAlone DEF On
  <2>2. QED
    BY <1>1, <2>1, AtWork
<1>2. Live(c)
  BY DEF Live
<1>3. c \notin gone /\ ~Dropping(c)
  BY <1>1, <1>2 DEF Fits, GoneDead, Dropping
<1>4. QED
  BY <1>1, <1>2, <1>3

\* A member is removed, or leaves.
LEMMA FitsTakenOut ==
  ASSUME TypeOK, Phases, Work, NEW r \in Requests, NEW c \in Convs, NEW u \in Users, NEW op \in {"remove", "leave"},
         handler[r] = Idle, handler' = Filtered(r, c, Awaits(op, c, "member", {u}, FALSE)),
         conv' = [conv EXCEPT ![c].members = @ \ {u}], c \in listed, ~On(c, Adding), Fits(c),
         listed' = listed, type' = type, members' = members, gone' = gone,
         op = "remove" /\ c \notin selfRemoved' => conv'[c].members # {}
  PROVE  Fits(c)'
<1>1. /\ handler'[r].op = op /\ handler'[r].conv = c /\ handler'[r].at = "member" /\ handler'[r].todo = {u}
  <2>1. handler'[r] = Awaits(op, c, "member", {u}, FALSE)
    BY FilteredOthers
  <2>2. ASSUME NEW todo, handler'[r] = Awaits(op, c, "member", todo, FALSE)
        PROVE  handler'[r].op = op /\ handler'[r].conv = c /\ handler'[r].at = "member" /\ handler'[r].todo = todo
    BY <2>2 DEF Awaits
  <2>3. QED
    BY <2>1, <2>2, Zenon
<1>2. /\ \A q \in Requests \ {r} : /\ handler'[q].op = handler[q].op /\ handler'[q].conv = handler[q].conv
                                   /\ handler'[q].at = handler[q].at /\ handler'[q].todo = handler[q].todo
      /\ handler[r].conv # c
  BY FilteredTodo, IdleAll, Positive
<1>3. conv'[c].members = conv[c].members \ {u}
  BY DEF TypeOK
<1>4. /\ \A q \in Requests : handler[q].conv = c =>
           handler[q].op \in Removing /\ handler[q].at \in {"member", "purge", "drop"}
      /\ Live(c) /\ type[c] # "none" /\ c \notin gone
  BY OnlyRemovers
<1>5. \A q \in Requests : handler'[q].conv = c =>
        handler'[q].op \in Removing /\ handler'[q].at \in {"member", "purge", "drop"}
  BY <1>1, <1>2, <1>4 DEF Removing
<1>6. Live(c)' /\ OneKind(c)' /\ AddersListed(c)'
  BY <1>5 DEF Live, OneKind, AddersListed, On, Adding, Removing
<1>7. Written(c)'
  <2>1. ASSUME NEW q \in Requests, handler'[q].conv = c PROVE handler'[q].todo \cap conv'[c].members = {} \/ handler'[q].at # "member"
    BY <1>1, <1>2, <1>3, <2>1 DEF Fits, Written
  <2>2. QED
    BY <1>5, <2>1 DEF Written
<1>8. RowComing(c)' /\ RowsLive(c)' /\ GoneDead(c)'
  BY <1>4, <1>6 DEF RowComing, RowsLive, GoneDead
<1>9. RowsGoing(c)'
  <2>1. ASSUME NEW v \in members[c] \ conv'[c].members PROVE Awaiting(c, {"member"}, v)'
    <3>1. CASE v = u
      BY <1>1, <3>1 DEF Awaiting
    <3>2. CASE v # u
      <4>1. Awaiting(c, {"member"}, v)
        BY <1>3, <1>4, <2>1, <3>2 DEF Fits, RowsGoing
      <4>2. QED
        BY <1>2, <4>1 DEF Awaiting
    <3>3. QED
      BY <3>1, <3>2
  <2>2. QED
    BY <2>1 DEF RowsGoing
<1>10. Dropping(c)' <=> Dropping(c)
  BY <1>1, <1>2 DEF Dropping
<1>11. RowsComing(c)'
  <2>1. Dropping(c) \/ conv[c].members \subseteq members[c]
    BY <1>4 DEF Fits, RowsComing, Awaiting
  <2>2. QED
    BY <1>3, <1>10, <2>1 DEF RowsComing
<1>12. DropsLast(c)'
  BY <1>10 DEF Fits, DropsLast
<1>13. Deserted(c)'
  BY <1>1 DEF Deserted
<1>14. QED
  BY <1>6, <1>7, <1>8, <1>9, <1>11, <1>12, <1>13 DEF Fits

LEMMA FitsDeleteMember ==
  ASSUME TypeOK, Phases, Work, NEW r \in Requests, DeleteMember(r), restarts' = restarts,
         NEW c \in Convs, handler[r].conv = c, Fits(c)
  PROVE  Fits(c)'
<1> DEFINE h == handler[r]
           left == IF h.conv \in listed THEN conv[h.conv].members \ h.todo ELSE conv[h.conv].members
<1>1. /\ h.at = "member" /\ members' = [members EXCEPT ![c] = @ \ h.todo] /\ conv' = [conv EXCEPT ![c].members = left]
      /\ handler' = Filtered(r, c, AfterRemoval(h, left))
      /\ listed' = listed /\ type' = type /\ gone' = gone /\ selfRemoved' = selfRemoved
  BY DEF DeleteMember, past
<1>2. h \in Handlers /\ h.op \in {"remove", "leave"}
  BY <1>1 DEF TypeOK, Phases, Phased
<1>3. left = conv[c].members
  BY <1>1 DEF Fits, Written
<1>4. /\ \A q \in Requests \ {r} : /\ handler'[q].op = handler[q].op /\ handler'[q].conv = handler[q].conv
                                   /\ handler'[q].at = handler[q].at /\ handler'[q].todo = handler[q].todo
      /\ handler'[r] = AfterRemoval(h, left)
  <2>1. handler' = Filtered(r, c, AfterRemoval(h, left))
    BY <1>1
  <2>2. QED
    BY <2>1, FilteredTodo, FilteredOthers
<1>5. /\ handler'[r].conv = c => h.op = "leave" /\ handler'[r].op = "leave" /\ handler'[r].at = "purge"
      /\ h.op = "leave" /\ left = {} => handler'[r].conv = c /\ handler'[r].at = "purge"
  BY <1>2, <1>4, IdleAll, AtAll, Positive DEF AfterRemoval
<1>6. conv'[c].members = conv[c].members /\ members'[c] = members[c] \ h.todo
  BY <1>1, <1>3 DEF TypeOK
<1>7. /\ \A q \in Requests : handler[q].conv = c =>
           handler[q].op \in Removing /\ handler[q].at \in {"member", "purge", "drop"}
  <2>1. ASSUME NEW q \in Requests, handler[q].conv = c PROVE handler[q].op \in Removing
    <3>1. ~On(c, Adding)
      BY <1>2 DEF Fits, OneKind, On, Removing
    <3>2. handler[q].op # "call"
      BY <1>2, <2>1, CallAlone
    <3>3. QED
      BY <2>1, <3>1, <3>2, AtWork DEF On
  <2>2. QED
    BY <2>1, AtWork
<1>8. \A q \in Requests : handler'[q].conv = c =>
        handler'[q].op \in Removing /\ handler'[q].at \in {"member", "purge", "drop"}
  BY <1>4, <1>5, <1>7 DEF Removing
<1>9. (Live(c)' <=> c \in listed) /\ (Live(c) <=> c \in listed)
  BY <1>1, <1>7, <1>8 DEF Live, Calling, Removing
<1>10. OneKind(c)' /\ AddersListed(c)'
  BY <1>8 DEF OneKind, AddersListed, On, Adding, Removing
<1>11. Written(c)'
  <2>1. ASSUME NEW q \in Requests, handler'[q].conv = c PROVE handler'[q].todo \cap conv'[c].members = {} \/ handler'[q].at # "member"
    BY <1>4, <1>5, <1>6, <2>1 DEF Fits, Written
  <2>2. QED
    BY <1>8, <2>1 DEF Written
<1>12. RowComing(c)' /\ RowsLive(c)' /\ GoneDead(c)'
  BY <1>1, <1>7, <1>9 DEF Fits, RowComing, RowsLive, GoneDead
<1>13. RowsGoing(c)'
  <2>1. ASSUME c \in listed, NEW v \in members'[c] \ conv'[c].members PROVE Awaiting(c, {"member"}, v)'
    <3>1. PICK q \in Requests : handler[q].conv = c /\ handler[q].at = "member" /\ v \in handler[q].todo
      BY <1>6, <1>9, <2>1 DEF Fits, RowsGoing, Awaiting
    <3>2. q # r
      BY <1>6, <2>1, <3>1
    <3>3. QED
      BY <1>4, <3>1, <3>2 DEF Awaiting
  <2>2. QED
    BY <1>9, <2>1 DEF RowsGoing
<1>14. Dropping(c)' <=> Dropping(c)
  BY <1>1, <1>4, <1>5 DEF Dropping
<1>15. RowsComing(c)'
  <2>1. c \in listed => Dropping(c) \/ conv[c].members \subseteq members[c]
    BY <1>7, <1>9 DEF Fits, RowsComing, Awaiting
  <2>2. h.todo \cap conv[c].members = {}
    BY <1>1 DEF Fits, Written
  <2>3. QED
    BY <1>6, <1>9, <1>14, <2>1, <2>2 DEF RowsComing
<1>16. DropsLast(c)'
  BY <1>6, <1>14 DEF Fits, DropsLast
<1>17. Deserted(c)'
  <2>1. ASSUME restarts = 0, c \in listed \ selfRemoved, conv[c].members = {}
        PROVE  \E q \in Requests :
                 /\ handler'[q].conv = c
                 /\ handler'[q].at \in {"purge", "drop"} \/ (handler'[q].op = "leave" /\ handler'[q].at = "member")
    <3>1. PICK q \in Requests : /\ handler[q].conv = c
                                /\ handler[q].at \in {"purge", "drop"} \/ (handler[q].op = "leave" /\ handler[q].at = "member")
      BY <2>1 DEF Fits, Deserted
    <3>2. CASE q = r
      BY <1>1, <1>3, <1>5, <2>1, <3>1, <3>2
    <3>3. CASE q # r
      BY <1>4, <3>1, <3>3
    <3>4. QED
      BY <3>2, <3>3
  <2>2. listed' = listed /\ selfRemoved' = selfRemoved /\ conv'[c].members = conv[c].members
    BY <1>1, <1>6
  <2>3. QED
    BY <2>1, <2>2 DEF Deserted
<1>18. QED
  BY <1>10, <1>11, <1>12, <1>13, <1>15, <1>16, <1>17 DEF Fits

\* A member is put in, by who has just begun or has written the name.
LEMMA FitsPutIn ==
  ASSUME TypeOK, Phases, Work, NEW r \in Requests, NEW c \in Convs, NEW w \in Users, NEW h,
         handler[r] = Idle \/ (handler[r].at = "name" /\ handler[r].conv = c),
         handler' = Pushed(r, c, w, h), h.op = "add", h.conv = c, h.at = "members", h.todo = {w},
         conv' = [conv EXCEPT ![c].members = @ \cup {w}], c \in listed, ~On(c, Removing), Fits(c),
         listed' = listed, type' = type, members' = members, gone' = gone
  PROVE  Fits(c)'
<1>1. /\ handler'[r].op = "add" /\ handler'[r].conv = c /\ handler'[r].at = "members" /\ handler'[r].todo = {w}
      /\ handler[r].at \notin {"conversation", "members", "member"}
  BY PushedOthers, IdleAll
<1>2. ASSUME NEW q \in Requests \ {r}
      PROVE  /\ handler'[q].op = handler[q].op /\ handler'[q].conv = handler[q].conv
             /\ handler'[q].at = handler[q].at /\ handler'[q].shared = handler[q].shared
             /\ handler[q].todo \subseteq handler'[q].todo /\ handler'[q].todo \subseteq handler[q].todo \cup {w}
             /\ handler[q].conv = c /\ handler[q].shared => handler'[q].todo = handler[q].todo \cup {w}
  BY PushedTodo
<1>3. conv'[c].members = conv[c].members \cup {w}
  BY DEF TypeOK
<1>4. /\ \A q \in Requests : handler[q].conv = c =>
           handler[q].op \in Adding /\ handler[q].at \in {"conversation", "members", "name"}
      /\ Live(c) /\ c \notin gone /\ ~Dropping(c)
  BY OnlyAdders
<1>5. \A q \in Requests : handler'[q].conv = c =>
        handler'[q].op \in Adding /\ handler'[q].at \in {"conversation", "members", "name"}
  BY <1>1, <1>2, <1>4 DEF Adding
<1>6. Live(c)' /\ OneKind(c)' /\ AddersListed(c)'
  BY <1>5 DEF Live, OneKind, AddersListed, On, Adding, Removing
<1>7. Written(c)'
  <2>1. ASSUME NEW q \in Requests, handler'[q].conv = c, handler'[q].at \in {"conversation", "members"}
        PROVE  handler'[q].todo \subseteq conv'[c].members
    <3>1. CASE q = r
      BY <1>1, <1>3, <3>1
    <3>2. CASE q # r
      <4>1. handler[q].todo \subseteq conv[c].members
        BY <1>2, <2>1, <3>2 DEF Fits, Written
      <4>2. QED
        BY <1>2, <1>3, <3>2, <4>1
    <3>3. QED
      BY <3>1, <3>2
  <2>2. QED
    BY <1>5, <2>1 DEF Written
<1>8. RowComing(c)'
  <2>1. ASSUME type[c] = "none"
        PROVE  \E q \in Requests : /\ handler'[q].conv = c /\ handler'[q].at = "conversation"
                                   /\ conv'[c].members \subseteq handler'[q].todo /\ handler'[q].shared
    <3>1. PICK q \in Requests :
            /\ handler[q].conv = c /\ handler[q].at = "conversation" /\ conv[c].members \subseteq handler[q].todo
            /\ handler[q].shared \/ handler[q].op = "call"
      BY <1>4, <2>1 DEF Fits, RowComing
    <3>2. q # r /\ handler[q].shared
      BY <1>1, <1>4, <3>1 DEF Adding
    <3>3. QED
      BY <1>2, <1>3, <3>1, <3>2
  <2>2. QED
    BY <2>1 DEF RowComing
<1>9. RowsGoing(c)'
  <2>1. members[c] \subseteq conv[c].members
    BY <1>4 DEF Fits, RowsGoing, Awaiting
  <2>2. QED
    BY <1>3, <2>1 DEF RowsGoing
<1>10. RowsComing(c)'
  <2>1. ASSUME NEW v \in conv'[c].members \ members[c] PROVE Awaiting(c, {"conversation", "members"}, v)'
    <3>1. CASE v = w
      BY <1>1, <3>1 DEF Awaiting
    <3>2. CASE v # w
      <4>1. PICK q \in Requests : handler[q].conv = c /\ handler[q].at \in {"conversation", "members"} /\ v \in handler[q].todo
        BY <1>3, <1>4, <2>1, <3>2 DEF Fits, RowsComing, Awaiting
      <4>2. q # r
        BY <1>1, <4>1
      <4>3. QED
        BY <1>2, <4>1, <4>2 DEF Awaiting
    <3>3. QED
      BY <3>1, <3>2
  <2>2. QED
    BY <2>1 DEF RowsComing
<1>11. ~Dropping(c)'
  BY <1>5 DEF Dropping
<1>12. RowsLive(c)' /\ GoneDead(c)' /\ DropsLast(c)' /\ Deserted(c)'
  BY <1>3, <1>4, <1>6, <1>11 DEF RowsLive, GoneDead, DropsLast, Deserted
<1>13. QED
  BY <1>6, <1>7, <1>8, <1>9, <1>10, <1>12 DEF Fits

\* A handler that begins, with a name to write or everything to delete, leaves
\* the members of the conversation and the work of the others as they are.
LEMMA FitsBegun ==
  ASSUME TypeOK, Phases, Work, NEW r \in Requests, NEW c \in Convs, NEW op \in {"add", "delete"},
         handler[r] = Idle, handler'[r].op = op, handler'[r].conv = c,
         handler'[r].at = IF op = "add" THEN "name" ELSE "purge",
         \A q \in Requests \ {r} : handler'[q] = handler[q],
         op = "add" => ~On(c, Removing), op = "delete" => ~On(c, Adding),
         conv'[c].members = conv[c].members, conv[c].members # {}, c \in listed, Fits(c),
         listed' = listed, type' = type, members' = members, gone' = gone
  PROVE  Fits(c)'
<1>1. handler[r].conv # c /\ handler'[r].at \notin {"conversation", "members", "member", "drop"}
  BY IdleAll, Positive
<1>2. \A q \in Requests : handler[q].conv = c => q # r
  BY <1>1
<1>3. Live(c) /\ Live(c)'
  BY DEF Live
<1>4. \A q \in Requests : handler'[q].conv = c => q = r \/ (handler'[q] = handler[q] /\ q # r)
  OBVIOUS
<1>5. OneKind(c)' /\ AddersListed(c)'
  <2>1. CASE op = "add"
    <3>1. ~On(c, Removing)'
      BY <2>1, <1>4 DEF On, Removing
    <3>2. QED
      BY <3>1 DEF OneKind, AddersListed
  <2>2. CASE op = "delete"
    <3>1. ~On(c, Adding)'
      BY <2>2, <1>4 DEF On, Adding
    <3>2. QED
      BY <3>1 DEF OneKind, AddersListed
  <2>3. QED
    BY <2>1, <2>2
<1>6. Written(c)'
  BY <1>1, <1>4 DEF Fits, Written
<1>7. RowComing(c)'
  <2>1. ASSUME type[c] = "none"
        PROVE  \E q \in Requests :
                 /\ handler'[q].conv = c /\ handler'[q].at = "conversation" /\ conv'[c].members \subseteq handler'[q].todo
                 /\ handler'[q].shared \/ handler'[q].op = "call"
    <3>1. PICK q \in Requests :
            /\ handler[q].conv = c /\ handler[q].at = "conversation" /\ conv[c].members \subseteq handler[q].todo
            /\ handler[q].shared \/ handler[q].op = "call"
      BY <1>3, <2>1 DEF Fits, RowComing
    <3>2. QED
      BY <1>2, <3>1
  <2>2. QED
    BY <2>1 DEF RowComing
<1>8. ASSUME NEW ats, NEW v, Awaiting(c, ats, v) PROVE Awaiting(c, ats, v)'
  BY <1>2, <1>8 DEF Awaiting
<1>9. RowsGoing(c)'
  BY <1>3, <1>8 DEF Fits, RowsGoing
<1>10. Dropping(c)' <=> Dropping(c)
  BY <1>1, <1>2, <1>4 DEF Dropping
<1>11. RowsComing(c)'
  BY <1>3, <1>8, <1>10 DEF Fits, RowsComing
<1>12. c \notin gone
  BY <1>3 DEF Fits, GoneDead
<1>13. RowsLive(c)' /\ GoneDead(c)' /\ DropsLast(c)' /\ Deserted(c)'
  BY <1>3, <1>10, <1>12 DEF Fits, RowsLive, GoneDead, DropsLast, Deserted
<1>14. QED
  BY <1>5, <1>6, <1>7, <1>9, <1>11, <1>13 DEF Fits

\* The rows of all members are deleted, and then that of the conversation.
LEMMA FitsDropMembers ==
  ASSUME TypeOK, Phases, Work, NEW r \in Requests, DropMembers(r), restarts' = restarts,
         NEW c \in Convs, handler[r].conv = c, Fits(c)
  PROVE  Fits(c)'
<1>1. /\ handler[r].at = "purge" /\ members'[c] = {}
      /\ conv' = conv /\ listed' = listed /\ type' = type /\ gone' = gone /\ selfRemoved' = selfRemoved
  BY DEF DropMembers, memory, past, TypeOK
<1>2. handler[r] \in Handlers
  BY DEF TypeOK
<1>3. /\ \A q \in Requests \ {r} : handler'[q] = handler[q]
      /\ handler'[r].op = handler[r].op /\ handler'[r].conv = c /\ handler'[r].at = "drop"
  BY <1>2, AtAll DEF DropMembers, TypeOK
<1>4. handler[r].op \in {"leave", "delete"}
  BY <1>1 DEF Phases, Phased
<1>5. Live(c)' <=> Live(c)
  BY <1>1, <1>3, <1>4 DEF Live, Calling
<1>6. OneKind(c)' /\ AddersListed(c)'
  <2>1. \A q \in Requests : handler'[q].op = handler[q].op /\ handler'[q].conv = handler[q].conv
    BY <1>3
  <2>2. On(c, Adding)' = On(c, Adding) /\ On(c, Removing)' = On(c, Removing)
    BY <2>1 DEF On, Adding, Removing
  <2>3. QED
    BY <1>1, <2>2 DEF Fits, OneKind, AddersListed
<1>7. Written(c)'
  BY <1>1, <1>3 DEF Fits, Written
<1>8. RowComing(c)'
  <2>1. ASSUME Live(c), type[c] = "none"
        PROVE  \E q \in Requests :
                 /\ handler'[q].conv = c /\ handler'[q].at = "conversation" /\ conv'[c].members \subseteq handler'[q].todo
                 /\ handler'[q].shared \/ handler'[q].op = "call"
    <3>1. PICK q \in Requests :
            /\ handler[q].conv = c /\ handler[q].at = "conversation" /\ conv[c].members \subseteq handler[q].todo
            /\ handler[q].shared \/ handler[q].op = "call"
      BY <2>1 DEF Fits, RowComing
    <3>2. q # r
      BY <1>1, <3>1
    <3>3. QED
      BY <1>1, <1>3, <3>1, <3>2
  <2>2. QED
    BY <1>1, <1>5, <2>1 DEF RowComing
<1>9. Dropping(c)'
  BY <1>3 DEF Dropping
<1>10. RowsGoing(c)' /\ RowsComing(c)' /\ DropsLast(c)'
  BY <1>1, <1>9 DEF RowsGoing, RowsComing, DropsLast
<1>11. RowsLive(c)' /\ GoneDead(c)'
  BY <1>1, <1>5 DEF Fits, RowsLive, GoneDead
<1>12. Deserted(c)'
  BY <1>3 DEF Deserted
<1>13. QED
  BY <1>6, <1>7, <1>8, <1>10, <1>11, <1>12 DEF Fits

LEMMA FitsDropConversation ==
  ASSUME TypeOK, Phases, Work, NEW r \in Requests, DropConversation(r),
         NEW c \in Convs, handler[r].conv = c, Fits(c)
  PROVE  Fits(c)'
<1>1. handler[r].at = "drop" /\ conv' = conv /\ members' = members
  BY DEF DropConversation
<1>2. members[c] = {}
  BY <1>1 DEF Fits, DropsLast, Dropping
<1>3. c \notin listed' /\ type'[c] = "none"
  BY <1>2 DEF DropConversation, TypeOK
<1>4. (\A q \in Requests \ {r} : handler'[q] = handler[q]) /\ handler'[r].conv # c
  BY IdleAll, Positive DEF DropConversation, TypeOK
<1>5. handler[r].op \in {"leave", "delete"}
  BY <1>1 DEF Phases, Phased
<1>6. ~On(c, Adding)
  BY <1>5 DEF Fits, OneKind, On, Removing
<1>7. \A q \in Requests : handler'[q].conv = c => handler'[q] = handler[q] /\ handler[q].op # "call"
  BY <1>4, <1>5, CallAlone
<1>8. ~Live(c)'
  BY <1>3, <1>7 DEF Live, Calling
<1>9. ~On(c, Adding)'
  BY <1>6, <1>7 DEF On, Adding
<1>10. Written(c)'
  BY <1>1, <1>7 DEF Fits, Written
<1>11. QED
  BY <1>1, <1>2, <1>3, <1>8, <1>9, <1>10
  DEF Fits, OneKind, AddersListed, RowComing, RowsGoing, RowsComing, RowsLive, GoneDead, DropsLast, Deserted

\* The row of the conversation is written, and after it those of the members.
LEMMA FitsInsertConversation ==
  ASSUME TypeOK, Phases, Work, NEW r \in Requests, InsertConversation(r), restarts' = restarts,
         NEW c \in Convs, handler[r].conv = c, Fits(c)
  PROVE  Fits(c)'
<1>1. /\ handler[r].at = "conversation" /\ handler[r].op \in {"create", "call"} /\ type'[c] # "none"
      /\ conv' = conv /\ listed' = listed /\ members' = members /\ gone' = gone /\ selfRemoved' = selfRemoved
  BY DEF InsertConversation, memory, past, TypeOK
<1>2. handler[r] \in Handlers
  BY DEF TypeOK
<1>3. /\ \A q \in Requests \ {r} : handler'[q] = handler[q]
      /\ handler'[r].op = handler[r].op /\ handler'[r].conv = c /\ handler'[r].at = "members"
      /\ handler'[r].todo = handler[r].todo
  BY <1>2, AtAll DEF InsertConversation, TypeOK
<1>4. \A q \in Requests : /\ handler'[q].op = handler[q].op /\ handler'[q].conv = handler[q].conv
                          /\ handler'[q].todo = handler[q].todo
  BY <1>3
<1>5. Live(c)' <=> Live(c)
  BY <1>1, <1>3 DEF Live, Calling
<1>6. OneKind(c)' /\ AddersListed(c)'
  <2>1. On(c, Adding)' = On(c, Adding) /\ On(c, Removing)' = On(c, Removing)
    BY <1>4 DEF On, Adding, Removing
  <2>2. QED
    BY <1>1, <2>1 DEF Fits, OneKind, AddersListed
<1>7. Written(c)'
  BY <1>1, <1>3 DEF Fits, Written
<1>8. RowComing(c)'
  BY <1>1 DEF RowComing
<1>9. Dropping(c)' <=> Dropping(c)
  BY <1>1, <1>3 DEF Dropping
<1>10. RowsGoing(c)'
  <2>1. ASSUME NEW v, Awaiting(c, {"member"}, v) PROVE Awaiting(c, {"member"}, v)'
    BY <1>1, <1>3, <2>1 DEF Awaiting
  <2>2. QED
    BY <1>1, <1>5, <2>1 DEF Fits, RowsGoing
<1>11. RowsComing(c)'
  <2>1. ASSUME NEW v, Awaiting(c, {"conversation", "members"}, v) PROVE Awaiting(c, {"conversation", "members"}, v)'
    BY <1>3, <2>1 DEF Awaiting
  <2>2. QED
    BY <1>1, <1>5, <1>9, <2>1 DEF Fits, RowsComing
<1>12. Live(c)
  <2>1. CASE handler[r].op = "create"
    BY <2>1 DEF Fits, AddersListed, On, Adding, Live
  <2>2. CASE handler[r].op = "call"
    BY <1>1, <2>2 DEF Live, Calling
  <2>3. QED
    BY <1>1, <2>1, <2>2
<1>13. RowsLive(c)' /\ GoneDead(c)' /\ DropsLast(c)'
  BY <1>1, <1>5, <1>9, <1>12 DEF Fits, RowsLive, GoneDead, DropsLast
<1>14. Deserted(c)'
  <2>1. ASSUME NEW q \in Requests, handler[q].conv = c,
               handler[q].at \in {"purge", "drop"} \/ (handler[q].op = "leave" /\ handler[q].at = "member")
        PROVE  handler'[q] = handler[q]
    BY <1>1, <1>3, <2>1
  <2>2. QED
    BY <1>1, <2>1 DEF Fits, Deserted
<1>15. QED
  BY <1>6, <1>7, <1>8, <1>10, <1>11, <1>13, <1>14 DEF Fits

\* A member whose row cannot be written for want of the other: whoever created
\* the conversation will write them all.
LEMMA FitsRefused ==
  ASSUME TypeOK, Phases, Work, NEW r \in Requests, NEW c \in Convs, handler[r].conv = c, handler[r].at = "members",
         type[c] = "none", handler' = [handler EXCEPT ![r] = Idle], restarts' = restarts, Fits(c),
         conv' = conv, listed' = listed, type' = type, members' = members, gone' = gone, selfRemoved' = selfRemoved
  PROVE  Fits(c)'
<1>1. (\A q \in Requests \ {r} : handler'[q] = handler[q]) /\ handler'[r].conv # c
  BY IdleAll, Positive DEF TypeOK
<1>2. \A q \in Requests : handler'[q].conv = c => handler'[q] = handler[q]
  BY <1>1
<1>3. ASSUME Live(c)
      PROVE  \E q \in Requests \ {r} :
               /\ handler[q].conv = c /\ handler[q].at = "conversation" /\ conv[c].members \subseteq handler[q].todo
               /\ handler[q].shared \/ handler[q].op = "call"
  BY <1>3 DEF Fits, RowComing
<1>4. handler[r].op # "call"
  <2>1. ASSUME handler[r].op = "call" PROVE FALSE
    <3>1. Live(c)
      BY <2>1 DEF Live, Calling
    <3>2. \A q \in Requests : handler[q].conv = c => q = r
      BY <2>1, CallAlone
    <3>3. QED
      BY <1>3, <3>1, <3>2
  <2>2. QED
    BY <2>1
<1>5. Live(c)' <=> Live(c)
  BY <1>1, <1>4 DEF Live, Calling
<1>6. OneKind(c)' /\ AddersListed(c)'
  <2>1. On(c, Adding)' => On(c, Adding)
    BY <1>2 DEF On, Adding
  <2>2. On(c, Removing)' => On(c, Removing)
    BY <1>2 DEF On, Removing
  <2>3. QED
    BY <2>1, <2>2 DEF Fits, OneKind, AddersListed
<1>7. Written(c)'
  BY <1>2 DEF Fits, Written
<1>8. RowComing(c)'
  BY <1>1, <1>3, <1>5 DEF RowComing
<1>9. RowsGoing(c)'
  <2>1. ASSUME NEW v, Awaiting(c, {"member"}, v) PROVE Awaiting(c, {"member"}, v)'
    BY <1>1, <2>1 DEF Awaiting
  <2>2. QED
    BY <1>5, <2>1 DEF Fits, RowsGoing
<1>10. RowsComing(c)'
  <2>1. ASSUME Live(c), NEW v \in conv[c].members PROVE Awaiting(c, {"conversation", "members"}, v)'
    BY <1>1, <1>3, <2>1 DEF Awaiting
  <2>2. QED
    BY <1>5, <2>1 DEF RowsComing
<1>11. RowsLive(c)' /\ GoneDead(c)'
  BY <1>5 DEF Fits, RowsLive, GoneDead
<1>12. DropsLast(c)'
  BY <1>2 DEF Fits, DropsLast, Dropping
<1>13. Deserted(c)'
  BY <1>1 DEF Fits, Deserted
<1>14. QED
  BY <1>6, <1>7, <1>8, <1>9, <1>10, <1>11, <1>12, <1>13 DEF Fits

\* The row of a member is written, of the last one or not.
LEMMA FitsInserted ==
  ASSUME TypeOK, Phases, Work, NEW r \in Requests, NEW c \in Convs, handler[r].conv = c, handler[r].at = "members",
         NEW u \in handler[r].todo, type[c] # "none", Fits(c),
         \A q \in Requests \ {r} : handler'[q] = handler[q],
         \/ handler[r].todo = {u} /\ handler'[r] = Idle
         \/ /\ handler'[r].op = handler[r].op /\ handler'[r].conv = c /\ handler'[r].at = "members"
            /\ handler'[r].todo = handler[r].todo \ {u},
         c \in listed' <=> c \in listed \/ (handler[r].op = "call" /\ handler'[r] = Idle),
         members'[c] = members[c] \cup {u}, conv' = conv, type' = type, gone' = gone
  PROVE  Fits(c)'
<1>1. handler'[r].conv = c => /\ handler'[r].op = handler[r].op /\ handler'[r].at = "members"
                              /\ handler'[r].todo = handler[r].todo \ {u}
  BY IdleAll, Positive
<1>2. \A q \in Requests : handler'[q].conv = c =>
        /\ handler'[q].op = handler[q].op /\ handler'[q].at = handler[q].at /\ handler'[q].todo \subseteq handler[q].todo
        /\ handler[q].conv = c
  BY <1>1
<1>3. u \in conv[c].members
  BY DEF Fits, Written
<1>4. Live(c)' <=> Live(c)
  <2>1. CASE handler[r].op = "call"
    <3>1. Live(c)
      BY <2>1 DEF Live, Calling
    <3>2. c \in listed' \/ (Calling(r)' /\ handler'[r].conv = c)
      BY <2>1 DEF Calling
    <3>3. QED
      BY <3>1, <3>2 DEF Live
  <2>2. CASE handler[r].op # "call"
    <3>1. c \in listed' <=> c \in listed
      BY <2>2
    <3>2. \A q \in Requests : Calling(q)' /\ handler'[q].conv = c <=> Calling(q) /\ handler[q].conv = c
      BY <1>1, <2>2 DEF Calling
    <3>3. QED
      BY <3>1, <3>2 DEF Live
  <2>3. QED
    BY <2>1, <2>2
<1>5. OneKind(c)' /\ AddersListed(c)'
  <2>1. On(c, Adding)' => On(c, Adding)
    BY <1>2 DEF On, Adding
  <2>2. On(c, Removing)' => On(c, Removing)
    BY <1>2 DEF On, Removing
  <2>3. QED
    BY <2>1, <2>2 DEF Fits, OneKind, AddersListed
<1>6. Written(c)'
  BY <1>2 DEF Fits, Written
<1>7. RowComing(c)'
  BY DEF RowComing
<1>8. RowsGoing(c)'
  <2>1. ASSUME NEW v, Awaiting(c, {"member"}, v) PROVE Awaiting(c, {"member"}, v)'
    BY <2>1 DEF Awaiting
  <2>2. QED
    BY <1>3, <1>4, <2>1 DEF Fits, RowsGoing
<1>9. Dropping(c)' <=> Dropping(c)
  BY <1>1 DEF Dropping
<1>10. RowsComing(c)'
  <2>1. ASSUME NEW v, v # u, Awaiting(c, {"conversation", "members"}, v) PROVE Awaiting(c, {"conversation", "members"}, v)'
    <3>1. PICK q \in Requests : handler[q].conv = c /\ handler[q].at \in {"conversation", "members"} /\ v \in handler[q].todo
      BY <2>1 DEF Awaiting
    <3>2. CASE q = r
      BY <2>1, <3>1, <3>2 DEF Awaiting
    <3>3. CASE q # r
      BY <3>1, <3>3 DEF Awaiting
    <3>4. QED
      BY <3>2, <3>3
  <2>2. QED
    BY <1>4, <1>9, <2>1 DEF Fits, RowsComing
<1>11. RowsLive(c)' /\ GoneDead(c)'
  BY <1>4 DEF Fits, RowsLive, GoneDead
<1>12. ~Dropping(c)
  <2>1. handler[r].op \in {"create", "call", "add"}
    BY DEF Phases, Phased
  <2>2. CASE handler[r].op = "call"
    BY <2>2, CallAlone DEF Dropping
  <2>3. CASE handler[r].op \in Adding
    <3>1. ~On(c, Removing)
      BY <2>3 DEF Fits, OneKind, On
    <3>2. QED
      BY <3>1 DEF Dropping, On, Phases, Phased, Removing
  <2>4. QED
    BY <2>1, <2>2, <2>3 DEF Adding
<1>13. DropsLast(c)' /\ Deserted(c)'
  BY <1>3, <1>9, <1>12 DEF DropsLast, Deserted
<1>14. QED
  BY <1>5, <1>6, <1>7, <1>8, <1>10, <1>11, <1>13 DEF Fits

\* A conversation is created, for a call or not.
LEMMA FitsCreated ==
  ASSUME TypeOK, Work, Sound(created + 1), NEW r \in Requests, NEW c \in Convs, c = created + 1, NEW us \in SUBSET Users,
         us # {}, NEW op \in {"create", "call"}, NEW h, handler' = [handler EXCEPT ![r] = h],
         h.op = op, h.conv = c, h.at = "conversation", h.todo = us, op = "create" => h.shared,
         conv'[c].members = us, c \in listed' <=> op = "create",
         type' = type, members' = members, gone' = gone
  PROVE  Fits(c)' /\ type[c] = "none" /\ members[c] = {}
<1>1. ~(c <= created)
  BY DEF TypeOK
<1>2. type[c] = "none" /\ c \notin gone /\ c \notin listed /\ \A q \in Requests : handler[q].conv # c
  BY <1>1 DEF Work, Numbered
<1>3. members[c] = {}
  BY <1>2 DEF Sound
<1>4. handler'[r] = h /\ \A q \in Requests : handler'[q].conv = c <=> q = r
  BY <1>2 DEF TypeOK
<1>5. Calling(r)' <=> op = "call"
  BY <1>4 DEF Calling
<1>6. Live(c)'
  BY <1>4, <1>5 DEF Live
<1>7. OneKind(c)' /\ AddersListed(c)'
  BY <1>4 DEF OneKind, AddersListed, On, Adding, Removing
<1>8. Written(c)' /\ RowComing(c)'
  BY <1>4 DEF Written, RowComing
<1>9. RowsGoing(c)' /\ RowsLive(c)' /\ GoneDead(c)' /\ DropsLast(c)' /\ Deserted(c)'
  BY <1>2, <1>3 DEF RowsGoing, RowsLive, GoneDead, DropsLast, Deserted
<1>10. RowsComing(c)'
  BY <1>4 DEF RowsComing, Awaiting
<1>11. QED
  BY <1>2, <1>3, <1>7, <1>8, <1>9, <1>10 DEF Fits

\* What a step does to the rows of conversation c: what is sound stays so, and
\* what fits, unless a statement failed or an addition met a removal.
RowsKept(c) == Sound(c)' /\ (failures' = 0 /\ c \notin mixed' => Fits(c)')

LEMMA UntouchedKept ==
  ASSUME NEW c \in Convs, Untouched(c), restarts' = restarts, Sound(c), failures' = 0 /\ c \notin mixed' => Fits(c)
  PROVE  RowsKept(c)
<1>1. Sound(c)'
  BY DEF Sound, Untouched
<1>2. QED
  BY <1>1, FitsUntouched DEF RowsKept

LEMMA KeptPostGroup ==
  ASSUME TypeOK, Phases, Work, \A d \in Convs : Sound(d), restarts' = restarts, NEW r \in Requests,
         NEW us \in SUBSET Users, PostGroup(r, us), NEW c \in Convs, failures' = 0 /\ c \notin mixed' => Fits(c)
  PROVE  RowsKept(c)
<1> DEFINE h == Awaits("create", created + 1, "conversation", us, TRUE)
<1>1. /\ created < MaxConvs /\ conv' = [conv EXCEPT ![created + 1] = [group |-> TRUE, members |-> us]]
      /\ listed' = listed \cup {created + 1} /\ handler' = [handler EXCEPT ![r] = h]
      /\ type' = type /\ members' = members /\ gone' = gone /\ escalated' = escalated /\ selfRemoved' = selfRemoved
      /\ handler[r] = Idle /\ us # {}
  BY DEF PostGroup, Create, Begin, rows, past
<1>2. /\ h.op = "create" /\ h.conv = created + 1 /\ h.at = "conversation" /\ h.todo = us /\ h.shared
      /\ created + 1 \in Convs
  BY <1>1, NewNumber DEF Awaits
<1>3. CASE c # created + 1
  <2>1. Untouched(c)
    BY <1>1, <1>2, <1>3, IdleAll, Positive DEF Untouched, TypeOK
  <2>2. QED
    BY <2>1, UntouchedKept
<1>4. CASE c = created + 1
  <2>1. conv'[c].members = us /\ c \in listed'
    BY <1>1, <1>4 DEF TypeOK
  <2>2. Fits(c)' /\ type[c] = "none" /\ members[c] = {}
    <3> HIDE DEF h
    <3>1. QED
      BY <1>1, <1>2, <1>4, <2>1, FitsCreated
  <2>3. QED
    BY <1>1, <2>2 DEF RowsKept, Sound
<1>5. QED
  BY <1>3, <1>4

LEMMA KeptPostDirect ==
  ASSUME TypeOK, Phases, Work, \A d \in Convs : Sound(d), restarts' = restarts, NEW r \in Requests,
         NEW u \in Users, NEW v \in Users, PostDirect(r, u, v), NEW c \in Convs, failures' = 0 /\ c \notin mixed' => Fits(c)
  PROVE  RowsKept(c)
<1> DEFINE h == Awaits("create", created + 1, "conversation", Pair(u, v), TRUE)
<1>1. /\ created < MaxConvs /\ conv' = [conv EXCEPT ![created + 1] = [group |-> FALSE, members |-> Pair(u, v)]]
      /\ listed' = listed \cup {created + 1} /\ handler' = [handler EXCEPT ![r] = h]
      /\ type' = type /\ members' = members /\ gone' = gone /\ escalated' = escalated /\ selfRemoved' = selfRemoved
      /\ handler[r] = Idle
  BY DEF PostDirect, Create, Begin, rows
<1>2. /\ h.op = "create" /\ h.conv = created + 1 /\ h.at = "conversation" /\ h.todo = Pair(u, v) /\ h.shared
      /\ created + 1 \in Convs
  BY <1>1, NewNumber DEF Awaits
<1>3. CASE c # created + 1
  <2>1. Untouched(c)
    BY <1>1, <1>2, <1>3, IdleAll, Positive DEF Untouched, TypeOK
  <2>2. QED
    BY <2>1, UntouchedKept
<1>4. CASE c = created + 1
  <2>1. conv'[c].members = Pair(u, v) /\ c \in listed'
    BY <1>1, <1>4 DEF TypeOK
  <2>2. Pair(u, v) \in SUBSET Users /\ Pair(u, v) # {}
    BY DEF Pair
  <2>3. Fits(c)' /\ type[c] = "none" /\ members[c] = {}
    <3> HIDE DEF h
    <3>1. QED
      BY <1>1, <1>2, <1>4, <2>1, <2>2, FitsCreated
  <2>4. QED
    BY <1>1, <2>3 DEF RowsKept, Sound
<1>5. QED
  BY <1>3, <1>4

LEMMA KeptInvite ==
  ASSUME TypeOK, restarts' = restarts, NEW r \in Requests, NEW u \in Users, NEW v \in Users, Invite(r, u, v),
         NEW c \in Convs, Sound(c), failures' = 0 /\ c \notin mixed' => Fits(c)
  PROVE  RowsKept(c)
<1>1. /\ conv' = conv /\ listed' = listed /\ type' = type /\ members' = members /\ gone' = gone
      /\ escalated' = escalated /\ selfRemoved' = selfRemoved /\ handler[r] = Idle
  BY DEF Invite, Begin, memory, rows, past
<1>2. (\A q \in Requests \ {r} : handler'[q] = handler[q]) /\ handler'[r].conv = 0
  BY DEF Invite, TypeOK, Awaits
<1>3. Untouched(c)
  BY <1>1, <1>2, IdleAll, Positive DEF Untouched
<1>4. QED
  BY <1>3, UntouchedKept

LEMMA KeptFindOrCreate ==
  ASSUME TypeOK, Phases, Work, \A d \in Convs : Sound(d), restarts' = restarts, NEW r \in Requests,
         NEW u \in Users, NEW v \in Users, FindOrCreate(r, u, v), NEW c \in Convs, failures' = 0 /\ c \notin mixed' => Fits(c)
  PROVE  RowsKept(c)
<1> DEFINE h == Awaits("call", created + 1, "conversation", Pair(u, v), FALSE)
<1>1. /\ listed' = listed /\ type' = type /\ members' = members /\ gone' = gone
      /\ escalated' = escalated /\ selfRemoved' = selfRemoved /\ handler[r].conv = 0
  BY DEF FindOrCreate, rows, Phases, Phased
<1>2. CASE \E d \in Convs : IsDirect(d, u, v)
  <2>1. conv' = conv /\ handler' = [handler EXCEPT ![r] = Idle]
    BY <1>2 DEF FindOrCreate
  <2>2. Untouched(c)
    BY <1>1, <2>1, IdleAll, Positive DEF Untouched, TypeOK
  <2>3. QED
    BY <2>2, UntouchedKept
<1>3. CASE ~\E d \in Convs : IsDirect(d, u, v)
  <2>1. /\ created < MaxConvs /\ conv' = [conv EXCEPT ![created + 1] = [group |-> FALSE, members |-> Pair(u, v)]]
        /\ handler' = [handler EXCEPT ![r] = h]
    BY <1>3 DEF FindOrCreate
  <2>2. /\ h.op = "call" /\ h.conv = created + 1 /\ h.at = "conversation" /\ h.todo = Pair(u, v)
        /\ created + 1 \in Convs
    BY <2>1, NewNumber DEF Awaits
  <2>3. CASE c # created + 1
    <3>1. Untouched(c)
      BY <1>1, <2>1, <2>2, <2>3, Positive DEF Untouched, TypeOK
    <3>2. QED
      BY <3>1, UntouchedKept
  <2>4. CASE c = created + 1
    <3>1. conv'[c].members = Pair(u, v)
      BY <2>1, <2>4 DEF TypeOK
    <3>2. Pair(u, v) \in SUBSET Users /\ Pair(u, v) # {}
      BY DEF Pair
    <3>3. c \notin listed'
      <4>1. ~(c <= created)
        BY <2>4 DEF TypeOK
      <4>2. QED
        BY <1>1, <4>1 DEF Work, Numbered
    <3>4. Fits(c)' /\ type[c] = "none" /\ members[c] = {}
      <4> HIDE DEF h
      <4>1. QED
        BY <1>1, <2>1, <2>2, <2>4, <3>1, <3>2, <3>3, FitsCreated
    <3>5. QED
      BY <1>1, <3>4 DEF RowsKept, Sound
  <2>5. QED
    BY <2>3, <2>4
<1>4. QED
  BY <1>2, <1>3

LEMMA KeptInsertConversation ==
  ASSUME TypeOK, Phases, Work, restarts' = restarts, NEW r \in Requests, InsertConversation(r),
         NEW c \in Convs, Sound(c), failures' = 0 /\ c \notin mixed' => Fits(c)
  PROVE  RowsKept(c)
<1>1. /\ conv' = conv /\ listed' = listed /\ members' = members /\ gone' = gone
      /\ escalated' = escalated /\ selfRemoved' = selfRemoved
      /\ type' = [type EXCEPT ![handler[r].conv] = IF conv[handler[r].conv].group THEN "Group" ELSE "Direct"]
  BY DEF InsertConversation, memory, past
<1>2. handler[r] \in Handlers
  BY DEF TypeOK
<1>3. (\A q \in Requests \ {r} : handler'[q] = handler[q]) /\ handler'[r].conv = handler[r].conv
  BY <1>2, AtAll DEF InsertConversation, TypeOK
<1>4. CASE c # handler[r].conv
  <2>1. Untouched(c)
    BY <1>1, <1>3, <1>4 DEF Untouched, TypeOK
  <2>2. QED
    BY <2>1, UntouchedKept
<1>5. CASE c = handler[r].conv
  <2>1. type'[c] = IF conv[c].group THEN "Group" ELSE "Direct"
    BY <1>1, <1>5 DEF TypeOK
  <2>2. conv[c].group \in BOOLEAN
    BY DEF TypeOK
  <2>3. Sound(c)'
    BY <1>1, <2>1, <2>2 DEF Sound
  <2>4. QED
    BY <1>5, <2>3, FitsInsertConversation DEF RowsKept
<1>6. QED
  BY <1>4, <1>5

LEMMA KeptInsertMember ==
  ASSUME TypeOK, Phases, Work, restarts' = restarts, NEW r \in Requests, NEW u \in Users, InsertMember(r, u),
         NEW c \in Convs, Sound(c), failures' = 0 /\ c \notin mixed' => Fits(c)
  PROVE  RowsKept(c)
<1> DEFINE h == handler[r]
           rest == [h EXCEPT !.todo = h.todo \ {u}]
           last == h.todo = {u} \/ type[h.conv] = "none"
<1>1. /\ h.at = "members" /\ u \in h.todo /\ conv' = conv /\ type' = type /\ gone' = gone
      /\ escalated' = escalated /\ selfRemoved' = selfRemoved
      /\ handler' = [handler EXCEPT ![r] = IF last THEN Idle ELSE rest]
      /\ members' = IF type[h.conv] = "none" THEN members ELSE [members EXCEPT ![h.conv] = @ \cup {u}]
      /\ listed' = IF last /\ h.op = "call" /\ type[h.conv] # "none" THEN listed \cup {h.conv} ELSE listed
  BY DEF InsertMember, past
<1>2. h \in Handlers
  BY DEF TypeOK
<1>3. rest.op = h.op /\ rest.conv = h.conv /\ rest.at = h.at /\ rest.todo = h.todo \ {u}
  BY <1>2, TodoAll
<1>4. (\A q \in Requests \ {r} : handler'[q] = handler[q]) /\ handler'[r] = IF last THEN Idle ELSE rest
  BY <1>1 DEF TypeOK
<1>5. CASE c # h.conv
  <2>1. Untouched(c)
    BY <1>1, <1>3, <1>4, <1>5, IdleAll, Positive DEF Untouched, TypeOK
  <2>2. QED
    BY <2>1, UntouchedKept
<1>6. CASE c = h.conv /\ type[c] = "none"
  <2>1. Sound(c)'
    BY <1>1, <1>6 DEF Sound
  <2>2. handler' = [handler EXCEPT ![r] = Idle] /\ listed' = listed /\ members' = members
    BY <1>1, <1>6
  <2>3. QED
    BY <1>1, <1>6, <2>1, <2>2, FitsRefused DEF RowsKept
<1>7. CASE c = h.conv /\ type[c] # "none"
  <2>1. members'[c] = members[c] \cup {u}
    BY <1>1, <1>7 DEF TypeOK
  <2>2. Sound(c)'
    BY <1>1, <1>7 DEF Sound
  <2>3. last <=> h.todo = {u}
    BY <1>7
  <2>4. \/ h.todo = {u} /\ handler'[r] = Idle
        \/ /\ handler'[r].op = h.op /\ handler'[r].conv = c /\ handler'[r].at = "members" /\ handler'[r].todo = h.todo \ {u}
    BY <1>1, <1>3, <1>4, <1>7, <2>3
  <2>5. handler'[r] = Idle <=> last
    BY <1>1, <1>3, <1>4, IdleAll
  <2>6. c \in listed' <=> c \in listed \/ (h.op = "call" /\ handler'[r] = Idle)
    BY <1>1, <1>7, <2>5
  <2>7. QED
    BY <1>1, <1>4, <1>7, <2>1, <2>2, <2>4, <2>6, FitsInserted DEF RowsKept
<1>8. QED
  BY <1>5, <1>6, <1>7

LEMMA KeptAdd ==
  ASSUME TypeOK, Phases, Work, restarts' = restarts, NEW r \in Requests, NEW u \in Users, NEW d \in Convs, NEW w \in Users,
         Add(r, u, d, w), NEW c \in Convs, Sound(c), failures' = 0 /\ c \notin mixed' => Fits(c)
  PROVE  RowsKept(c)
<1>1. /\ handler[r] = Idle /\ d \in listed /\ u \in conv[d].members
      /\ listed' = listed /\ type' = type /\ members' = members /\ gone' = gone /\ selfRemoved' = selfRemoved
  BY DEF Add, Begin, Member, rows
<1>2. d \notin mixed' => ~On(d, Removing)
  BY DEF Add, Mixes
<1>3. CASE conv[d].group
  <2> DEFINE h == Awaits("add", d, "members", {w}, FALSE)
  <2>1. h.op = "add" /\ h.conv = d /\ h.at = "members" /\ h.todo = {w}
    <3>1. ASSUME NEW todo PROVE LET k == Awaits("add", d, "members", todo, FALSE)
                                IN k.op = "add" /\ k.conv = d /\ k.at = "members" /\ k.todo = todo
      BY DEF Awaits
    <3>2. QED
      BY <3>1, Zenon
  <2> HIDE DEF h
  <2>2. conv' = [conv EXCEPT ![d].members = @ \cup {w}] /\ handler' = Pushed(r, d, w, h) /\ escalated' = escalated
    BY <1>3 DEF Add, h
  <2>3. conv'[d].group = conv[d].group /\ \A e \in Convs \ {d} : conv'[e] = conv[e]
    BY <2>2 DEF TypeOK
  <2>4. CASE c # d
    <3>1. /\ \A q \in Requests \ {r} : /\ handler'[q].conv = handler[q].conv
                                       /\ handler[q].conv # d => handler'[q] = handler[q]
          /\ handler'[r].conv = d /\ handler[r].conv # c
      BY <1>1, <2>1, <2>2, PushedTodo, PushedOthers, IdleAll, Positive
    <3>2. Untouched(c)
      BY <1>1, <2>2, <2>3, <2>4, <3>1 DEF Untouched
    <3>3. QED
      BY <3>2, UntouchedKept
  <2>5. CASE c = d
    <3>1. Sound(c)'
      BY <1>1, <2>2, <2>3, <2>5 DEF Sound
    <3>2. QED
      BY <1>1, <1>2, <2>1, <2>2, <2>5, <3>1, FitsPutIn DEF RowsKept
  <2>6. QED
    BY <2>4, <2>5
<1>4. CASE ~conv[d].group
  <2>1. /\ conv' = [conv EXCEPT ![d].group = TRUE] /\ escalated' = escalated \cup {d}
        /\ handler' = [handler EXCEPT ![r] = Awaits("add", d, "name", {w}, FALSE)]
    BY <1>4 DEF Add
  <2>2. /\ handler'[r].op = "add" /\ handler'[r].conv = d /\ handler'[r].at = "name"
        /\ \A q \in Requests \ {r} : handler'[q] = handler[q]
    <3>1. ASSUME NEW todo, handler' = [handler EXCEPT ![r] = Awaits("add", d, "name", todo, FALSE)]
          PROVE  /\ handler'[r].op = "add" /\ handler'[r].conv = d /\ handler'[r].at = "name"
                 /\ \A q \in Requests \ {r} : handler'[q] = handler[q]
      BY <3>1 DEF Awaits, TypeOK
    <3>2. QED
      BY <2>1, <3>1, Zenon
  <2>3. conv'[d].members = conv[d].members /\ \A e \in Convs \ {d} : conv'[e] = conv[e]
    BY <2>1 DEF TypeOK
  <2>4. CASE c # d
    <3>1. Untouched(c)
      BY <1>1, <2>1, <2>2, <2>3, <2>4, IdleAll, Positive DEF Untouched
    <3>2. QED
      BY <3>1, UntouchedKept
  <2>5. CASE c = d
    <3>1. Sound(c)'
      BY <1>1, <2>1, <2>5 DEF Sound
    <3>2. conv[c].members # {}
      BY <1>1, <2>5
    <3>3. QED
      BY <1>1, <1>2, <2>2, <2>3, <2>5, <3>1, <3>2, FitsBegun DEF RowsKept
  <2>6. QED
    BY <2>4, <2>5
<1>5. QED
  BY <1>3, <1>4

LEMMA KeptNameWritten ==
  ASSUME TypeOK, Phases, Work, restarts' = restarts, NEW r \in Requests, NameWritten(r),
         NEW c \in Convs, Sound(c), failures' = 0 /\ c \notin mixed' => Fits(c)
  PROVE  RowsKept(c)
<1> DEFINE d == handler[r].conv
           h == [handler[r] EXCEPT !.at = "members"]
<1>1. PICK w \in handler[r].todo : /\ conv' = [conv EXCEPT ![d].members = @ \cup {w}]
                                   /\ handler' = Pushed(r, d, w, h)
  BY DEF NameWritten
<1>2. /\ listed' = listed /\ type' = type /\ members' = members /\ gone' = gone
      /\ escalated' = escalated /\ selfRemoved' = selfRemoved /\ handler[r].at = "name"
  BY DEF NameWritten, rows, past
<1>3. handler[r] \in Handlers /\ handler[r].op = "add" /\ w \in Users /\ handler[r].todo = {w} /\ d \in Convs
  BY <1>1, <1>2, FieldTypes DEF TypeOK, Phases, Phased
<1>4. h.op = "add" /\ h.conv = d /\ h.at = "members" /\ h.todo = {w}
  BY <1>3, AtAll
<1> HIDE DEF h
<1>5. conv'[d].group = conv[d].group /\ \A e \in Convs \ {d} : conv'[e] = conv[e]
  BY <1>1, <1>3 DEF TypeOK
<1>6. CASE c # d
  <2>1. /\ \A q \in Requests \ {r} : /\ handler'[q].conv = handler[q].conv
                                     /\ handler[q].conv # d => handler'[q] = handler[q]
        /\ handler'[r].conv = d
    BY <1>1, <1>4, PushedTodo, PushedOthers
  <2>2. Untouched(c)
    BY <1>2, <1>5, <1>6, <2>1 DEF Untouched
  <2>3. QED
    BY <2>2, UntouchedKept
<1>7. CASE c = d
  <2>1. Sound(c)'
    BY <1>2, <1>5, <1>7 DEF Sound
  <2>2. ASSUME Fits(c) PROVE c \in listed /\ ~On(c, Removing)
    <3>1. On(c, Adding)
      BY <1>3, <1>7 DEF On, Adding
    <3>2. QED
      BY <2>2, <3>1 DEF Fits, AddersListed, OneKind
  <2>3. QED
    BY <1>1, <1>2, <1>3, <1>4, <1>7, <2>1, <2>2, FitsPutIn DEF RowsKept
<1>8. QED
  BY <1>6, <1>7

LEMMA FilteredElsewhere ==
  ASSUME TypeOK, NEW r \in Requests, NEW d, NEW h, handler' = Filtered(r, d, h)
  PROVE  /\ \A q \in Requests \ {r} : /\ handler'[q].conv = handler[q].conv
                                      /\ handler[q].conv # d => handler'[q] = handler[q]
         /\ handler'[r] = h
  BY FilteredTodo, FilteredOthers

LEMMA FilteredAt ==
  ASSUME TypeOK, NEW r \in Requests, NEW d, NEW h, handler' = Filtered(r, d, h), h.conv = d
  PROVE  /\ \A q \in Requests \ {r} : /\ handler'[q].conv = handler[q].conv
                                      /\ handler[q].conv # d => handler'[q] = handler[q]
         /\ handler'[r].conv = d
  BY FilteredElsewhere

\* A handler that takes a member out touches no other conversation.
LEMMA TakenOutElsewhere ==
  ASSUME TypeOK, NEW r \in Requests, NEW d \in Convs, NEW u, NEW op, NEW c \in Convs, c # d, handler[r] = Idle,
         handler' = Filtered(r, d, Awaits(op, d, "member", {u}, FALSE)), conv' = [conv EXCEPT ![d].members = @ \ {u}],
         listed' = listed, type' = type, members' = members, gone' = gone,
         escalated' = escalated, selfRemoved \subseteq selfRemoved'
  PROVE  Untouched(c)
<1> DEFINE h == Awaits(op, d, "member", {u}, FALSE)
<1>0. handler' = Filtered(r, d, h)
  OBVIOUS
<1>1. h.conv = d
  <2>1. ASSUME NEW todo PROVE Awaits(op, d, "member", todo, FALSE).conv = d
    BY DEF Awaits
  <2>2. QED
    BY <2>1, Zenon
<1> HIDE DEF h
<1>2. /\ \A q \in Requests \ {r} : /\ handler'[q].conv = handler[q].conv
                                   /\ handler[q].conv # d => handler'[q] = handler[q]
      /\ handler'[r].conv = d
  BY <1>0, <1>1, FilteredAt, Zenon
<1>3. conv'[c] = conv[c]
  BY DEF TypeOK
<1>4. handler[r].conv # c
  BY IdleAll, Positive
<1>5. QED
  BY <1>1, <1>2, <1>3, <1>4 DEF Untouched

LEMMA KeptRemove ==
  ASSUME TypeOK, Phases, Work, restarts' = restarts, NEW r \in Requests, NEW u \in Users, NEW d \in Convs, NEW w \in Users,
         Remove(r, u, d, w), NEW c \in Convs, Sound(c), failures' = 0 /\ c \notin mixed' => Fits(c)
  PROVE  RowsKept(c)
<1>1. /\ handler[r] = Idle /\ d \in listed /\ u \in conv[d].members
      /\ listed' = listed /\ type' = type /\ members' = members /\ gone' = gone /\ escalated' = escalated
      /\ selfRemoved' = (IF u = w THEN selfRemoved \cup {d} ELSE selfRemoved)
      /\ conv' = [conv EXCEPT ![d].members = @ \ {w}]
      /\ handler' = Filtered(r, d, Awaits("remove", d, "member", {w}, FALSE))
  BY DEF Remove, Begin, Member, rows
<1>2. d \notin mixed' => ~On(d, Adding)
  BY DEF Remove, Mixes
<1>3. CASE c # d
  <2>1. Untouched(c)
    BY <1>1, <1>3, TakenOutElsewhere
  <2>2. QED
    BY <2>1, UntouchedKept
<1>4. CASE c = d
  <2>1. conv'[d].group = conv[d].group /\ conv'[d].members = conv[d].members \ {w}
    BY <1>1 DEF TypeOK
  <2>2. Sound(c)'
    BY <1>1, <1>4, <2>1 DEF Sound
  <2>3. c \notin selfRemoved' => conv'[c].members # {}
    BY <1>1, <1>4, <2>1
  <2>4. QED
    BY <1>1, <1>2, <1>4, <2>2, <2>3, FitsTakenOut DEF RowsKept
<1>5. QED
  BY <1>3, <1>4

LEMMA KeptLeave ==
  ASSUME TypeOK, Phases, Work, restarts' = restarts, NEW r \in Requests, NEW u \in Users, NEW d \in Convs,
         Leave(r, u, d), NEW c \in Convs, Sound(c), failures' = 0 /\ c \notin mixed' => Fits(c)
  PROVE  RowsKept(c)
<1>1. /\ handler[r] = Idle /\ d \in listed
      /\ listed' = listed /\ type' = type /\ members' = members /\ gone' = gone /\ escalated' = escalated
      /\ selfRemoved' = selfRemoved /\ conv' = [conv EXCEPT ![d].members = @ \ {u}]
      /\ handler' = Filtered(r, d, Awaits("leave", d, "member", {u}, FALSE))
  BY DEF Leave, Begin, Member, rows
<1>2. d \notin mixed' => ~On(d, Adding)
  BY DEF Leave, Mixes
<1>3. CASE c # d
  <2>1. Untouched(c)
    BY <1>1, <1>3, TakenOutElsewhere
  <2>2. QED
    BY <2>1, UntouchedKept
<1>4. CASE c = d
  <2>1. conv'[d].group = conv[d].group
    BY <1>1 DEF TypeOK
  <2>2. Sound(c)'
    BY <1>1, <1>4, <2>1 DEF Sound
  <2>3. QED
    BY <1>1, <1>2, <1>4, <2>2, FitsTakenOut DEF RowsKept
<1>5. QED
  BY <1>3, <1>4

LEMMA KeptDeleteMember ==
  ASSUME TypeOK, Phases, Work, restarts' = restarts, NEW r \in Requests, DeleteMember(r),
         NEW c \in Convs, Sound(c), failures' = 0 /\ c \notin mixed' => Fits(c)
  PROVE  RowsKept(c)
<1> DEFINE h == handler[r]
           d == h.conv
           left == IF h.conv \in listed THEN conv[h.conv].members \ h.todo ELSE conv[h.conv].members
<1>1. /\ members' = [members EXCEPT ![d] = @ \ h.todo] /\ conv' = [conv EXCEPT ![d].members = left]
      /\ handler' = Filtered(r, d, AfterRemoval(h, left)) /\ h.at = "member"
      /\ listed' = listed /\ type' = type /\ gone' = gone /\ escalated' = escalated /\ selfRemoved' = selfRemoved
  BY DEF DeleteMember, past
<1>2. h \in Handlers /\ d \in Convs
  BY <1>1, FieldTypes DEF TypeOK
<1>3. AfterRemoval(h, left).conv \in {0, d}
  BY <1>2, AfterRemovalFields
<1>4. CASE c # d
  <2>1. /\ \A q \in Requests \ {r} : /\ handler'[q].conv = handler[q].conv
                                     /\ handler[q].conv # d => handler'[q] = handler[q]
        /\ handler'[r] = AfterRemoval(h, left)
    <3> DEFINE k == AfterRemoval(h, left)
    <3>1. handler' = Filtered(r, d, k)
      BY <1>1
    <3> HIDE DEF k
    <3>2. /\ \A q \in Requests \ {r} : /\ handler'[q].conv = handler[q].conv
                                       /\ handler[q].conv # d => handler'[q] = handler[q]
          /\ handler'[r] = k
      BY <3>1, FilteredElsewhere
    <3>3. QED
      BY <3>2 DEF k
  <2>2. conv'[c] = conv[c] /\ members'[c] = members[c]
    BY <1>1, <1>2, <1>4 DEF TypeOK
  <2>3. Untouched(c)
    BY <1>1, <1>3, <1>4, <2>1, <2>2, Positive DEF Untouched
  <2>4. QED
    BY <2>3, UntouchedKept
<1>5. CASE c = d
  <2>1. conv'[c].group = conv[c].group /\ members'[c] \subseteq members[c]
    BY <1>1, <1>2, <1>5 DEF TypeOK
  <2>2. Sound(c)'
    BY <1>1, <2>1 DEF Sound
  <2>3. QED
    BY <1>5, <2>2, FitsDeleteMember DEF RowsKept
<1>6. QED
  BY <1>4, <1>5

LEMMA KeptDelete ==
  ASSUME TypeOK, Phases, Work, restarts' = restarts, NEW r \in Requests, NEW u \in Users, NEW d \in Convs,
         Delete(r, u, d), NEW c \in Convs, Sound(c), failures' = 0 /\ c \notin mixed' => Fits(c)
  PROVE  RowsKept(c)
<1>1. /\ handler[r] = Idle /\ d \in listed /\ u \in conv[d].members /\ conv' = conv
      /\ listed' = listed /\ type' = type /\ members' = members /\ gone' = gone
      /\ escalated' = escalated /\ selfRemoved' = selfRemoved
      /\ handler' = [handler EXCEPT ![r] = Awaits("delete", d, "purge", {}, FALSE)]
  BY DEF Delete, Begin, Member, memory, rows
<1>2. d \notin mixed' => ~On(d, Adding)
  BY DEF Delete, Mixes
<1>3. /\ handler'[r].op = "delete" /\ handler'[r].conv = d /\ handler'[r].at = "purge"
      /\ \A q \in Requests \ {r} : handler'[q] = handler[q]
  <2>1. ASSUME NEW todo, handler' = [handler EXCEPT ![r] = Awaits("delete", d, "purge", todo, FALSE)]
        PROVE  /\ handler'[r].op = "delete" /\ handler'[r].conv = d /\ handler'[r].at = "purge"
               /\ \A q \in Requests \ {r} : handler'[q] = handler[q]
    BY <2>1 DEF Awaits, TypeOK
  <2>2. QED
    BY <1>1, <2>1, Zenon
<1>4. CASE c # d
  <2>1. Untouched(c)
    BY <1>1, <1>3, <1>4, IdleAll, Positive DEF Untouched
  <2>2. QED
    BY <2>1, UntouchedKept
<1>5. CASE c = d
  <2>1. Sound(c)'
    BY <1>1 DEF Sound
  <2>2. conv'[c].members = conv[c].members /\ conv[c].members # {}
    BY <1>1, <1>5
  <2>3. ASSUME Fits(c), c \notin mixed' PROVE Fits(c)'
    BY <1>1, <1>2, <1>3, <1>5, <2>2, <2>3, FitsBegun
  <2>4. QED
    BY <2>1, <2>3 DEF RowsKept
<1>6. QED
  BY <1>4, <1>5

LEMMA KeptDropMembers ==
  ASSUME TypeOK, Phases, Work, restarts' = restarts, NEW r \in Requests, DropMembers(r),
         NEW c \in Convs, Sound(c), failures' = 0 /\ c \notin mixed' => Fits(c)
  PROVE  RowsKept(c)
<1>1. /\ conv' = conv /\ listed' = listed /\ type' = type /\ gone' = gone
      /\ escalated' = escalated /\ selfRemoved' = selfRemoved
      /\ members' = [members EXCEPT ![handler[r].conv] = {}]
  BY DEF DropMembers, memory, past
<1>2. handler[r] \in Handlers
  BY DEF TypeOK
<1>3. (\A q \in Requests \ {r} : handler'[q] = handler[q]) /\ handler'[r].conv = handler[r].conv
  BY <1>2, AtAll DEF DropMembers, TypeOK
<1>4. CASE c # handler[r].conv
  <2>1. Untouched(c)
    BY <1>1, <1>3, <1>4 DEF Untouched, TypeOK
  <2>2. QED
    BY <2>1, UntouchedKept
<1>5. CASE c = handler[r].conv
  <2>1. Sound(c)'
    BY <1>1, <1>5 DEF Sound, TypeOK
  <2>2. QED
    BY <1>5, <2>1, FitsDropMembers DEF RowsKept
<1>6. QED
  BY <1>4, <1>5

LEMMA KeptDropConversation ==
  ASSUME TypeOK, Phases, Work, restarts' = restarts, NEW r \in Requests, DropConversation(r),
         NEW c \in Convs, Sound(c), failures' = 0 /\ c \notin mixed' => Fits(c)
  PROVE  RowsKept(c)
<1>1. /\ conv' = conv /\ members' = members /\ escalated' = escalated /\ selfRemoved' = selfRemoved
      /\ type' = (IF members[handler[r].conv] = {} THEN [type EXCEPT ![handler[r].conv] = "none"] ELSE type)
      /\ listed' = (IF members[handler[r].conv] = {} THEN listed \ {handler[r].conv} ELSE listed)
      /\ gone' \subseteq gone \cup {handler[r].conv}
  BY DEF DropConversation, Answered
<1>2. (\A q \in Requests \ {r} : handler'[q] = handler[q]) /\ handler'[r] = Idle
  BY DEF DropConversation, TypeOK
<1>3. CASE c # handler[r].conv
  <2>1. Untouched(c)
    BY <1>1, <1>2, <1>3, IdleAll, Positive DEF Untouched, TypeOK
  <2>2. QED
    BY <2>1, UntouchedKept
<1>4. CASE c = handler[r].conv
  <2>1. Sound(c)'
    BY <1>1, <1>4 DEF Sound, TypeOK
  <2>2. QED
    BY <1>4, <2>1, FitsDropConversation DEF RowsKept
<1>5. QED
  BY <1>3, <1>4

\* After a restart the memory is what the rows are.
LEMMA KeptRestart ==
  ASSUME TypeOK, Restart, NEW c \in Convs, Sound(c), failures' = 0 /\ c \notin mixed' => Fits(c)
  PROVE  RowsKept(c)
<1>1. /\ handler' = [r \in Requests |-> Idle] /\ type' = type /\ members' = members /\ gone' = gone
      /\ conv'[c].group = (type[c] = "Group") /\ conv'[c].members = members[c]
      /\ c \in listed' <=> type[c] # "none"
      /\ restarts' # 0 /\ escalated' = escalated
  BY DEF Restart, rows, past, TypeOK
<1>2. \A q \in Requests : handler'[q].conv # c
  BY <1>1, IdleAll, Positive
<1>3. Sound(c)'
  BY <1>1 DEF Sound
<1>4. ASSUME Fits(c) PROVE Fits(c)'
  <2>1. ~On(c, Adding)' /\ ~On(c, Removing)' /\ ~Dropping(c)' /\ (Live(c)' <=> type[c] # "none")
    BY <1>1, <1>2 DEF On, Adding, Removing, Dropping, Live
  <2>2. c \in gone => type[c] = "none"
    BY <1>4 DEF Fits, GoneDead, RowsLive
  <2>3. Written(c)'
    BY <1>2 DEF Written
  <2>4. RowsGoing(c)' /\ RowsComing(c)'
    BY <1>1 DEF RowsGoing, RowsComing
  <2>5. QED
    BY <1>1, <2>1, <2>2, <2>3, <2>4
    DEF Fits, OneKind, AddersListed, RowComing, RowsLive, GoneDead, DropsLast, Deserted
<1>5. QED
  BY <1>3, <1>4 DEF RowsKept

\* Every step leaves the handlers at what they may be at.
LEMMA ReplacedPhases ==
  ASSUME TypeOK, Phases, NEW r \in Requests, NEW h, handler' = [handler EXCEPT ![r] = h], Phased(h) PROVE Phases'
  BY DEF TypeOK, Phases

LEMMA PushedPhases ==
  ASSUME TypeOK, Phases, NEW r \in Requests, NEW c, NEW u, NEW h, handler' = Pushed(r, c, u, h), Phased(h)
  PROVE  Phases'
<1>1. ASSUME NEW q \in Requests, q # r PROVE Phased(handler'[q])
  <2>1. /\ handler'[q].op = handler[q].op /\ handler'[q].conv = handler[q].conv
        /\ handler'[q].at = handler[q].at /\ handler'[q].shared = handler[q].shared
        /\ ~handler[q].shared => handler'[q] = handler[q]
    BY <1>1, PushedTodo
  <2>2. Phased(handler[q])
    BY DEF Phases
  <2>3. CASE ~handler[q].shared
    BY <2>1, <2>2, <2>3
  <2>4. CASE handler[q].shared
    <3>1. handler[q].at # "done"
      BY <2>2, <2>4 DEF Phased, Idle
    <3>2. QED
      BY <2>1, <2>2, <2>4, <3>1 DEF Phased
  <2>5. QED
    BY <2>3, <2>4
<1>2. handler'[r] = h
  BY PushedOthers
<1>3. QED
  BY <1>1, <1>2 DEF Phases

LEMMA FilteredPhases ==
  ASSUME TypeOK, Phases, NEW r \in Requests, NEW c \in Convs, NEW h, handler' = Filtered(r, c, h), Phased(h)
  PROVE  Phases'
<1>1. ASSUME NEW q \in Requests, q # r PROVE Phased(handler'[q])
  <2>1. handler[q] \in Handlers /\ Phased(handler[q])
    BY DEF TypeOK, Phases
  <2>2. handler'[q] = IF handler[q].conv = c THEN [handler[q] EXCEPT !.shared = FALSE] ELSE handler[q]
    BY <1>1 DEF Filtered
  <2>3. CASE handler[q].conv # c
    BY <2>1, <2>2, <2>3
  <2>4. CASE handler[q].conv = c
    <3>1. handler[q].at # "done"
      BY <2>1, <2>4, IdleAll, Positive DEF Phased
    <3>2. /\ handler'[q].op = handler[q].op /\ handler'[q].conv = handler[q].conv
          /\ handler'[q].at = handler[q].at /\ handler'[q].todo = handler[q].todo /\ handler'[q].shared = FALSE
      BY <2>1, <2>2, <2>4 DEF Handlers
    <3>3. QED
      BY <2>1, <3>1, <3>2 DEF Phased
  <2>5. QED
    BY <2>3, <2>4
<1>2. handler'[r] = h
  BY FilteredOthers
<1>3. QED
  BY <1>1, <1>2 DEF Phases

LEMMA IdlePhased == Phased(Idle)
  BY DEF Phased, Idle

\* Which records a handler may become.
LEMMA AwaitsPhased ==
  ASSUME NEW c, NEW todo, NEW shared
  PROVE  /\ \A op \in {"create", "call"} : Phased(Awaits(op, c, "conversation", todo, shared))
         /\ Phased(Awaits("call", 0, "select", todo, shared))
         /\ Phased(Awaits("add", c, "members", todo, shared))
         /\ \A w \in Users : todo = {w} /\ ~shared => Phased(Awaits("add", c, "name", todo, shared))
         /\ \A op \in {"remove", "leave"} : Phased(Awaits(op, c, "member", todo, shared))
         /\ Phased(Awaits("delete", c, "purge", todo, shared))
  BY DEF Phased, Awaits

LEMMA AfterRemovalPhased ==
  ASSUME NEW h \in Handlers, NEW left, h.op \in {"remove", "leave"} PROVE Phased(AfterRemoval(h, left))
<1>1. CASE h.op = "leave" /\ left = {}
  <2>1. AfterRemoval(h, left) = [h EXCEPT !.at = "purge"]
    BY <1>1 DEF AfterRemoval
  <2> DEFINE k == [h EXCEPT !.at = "purge"]
  <2>2. k.op = "leave" /\ k.at = "purge"
    BY <1>1, AtAll
  <2>3. Phased(k)
    BY <2>2 DEF Phased
  <2>4. QED
    BY <2>1, <2>3
<1>2. CASE ~(h.op = "leave" /\ left = {})
  BY <1>2, IdlePhased DEF AfterRemoval
<1>3. QED
  BY <1>1, <1>2

LEMMA PhasesStatement == ASSUME TypeOK, Phases, NEW r \in Requests, Statement(r) PROVE Phases'
<1>0. handler[r] \in Handlers /\ Phased(handler[r])
  BY DEF TypeOK, Phases
<1>1. ASSUME InsertConversation(r) PROVE Phases'
  <2> DEFINE h == [handler[r] EXCEPT !.at = "members"]
  <2>1. h.at = "members" /\ h.op \in {"create", "call"}
    BY <1>0, <1>1, AtAll DEF InsertConversation
  <2>2. Phased(h)
    BY <2>1 DEF Phased
  <2>3. handler' = [handler EXCEPT ![r] = h]
    BY <1>1 DEF InsertConversation
  <2>4. QED
    BY <2>2, <2>3, ReplacedPhases
<1>2. ASSUME NameWritten(r) PROVE Phases'
  <2> DEFINE h == [handler[r] EXCEPT !.at = "members"]
  <2>1. h.at = "members" /\ h.op = "add"
    BY <1>0, <1>2, AtAll DEF NameWritten, Phased
  <2>2. Phased(h)
    BY <2>1 DEF Phased
  <2>3. PICK w \in handler[r].todo : handler' = Pushed(r, handler[r].conv, w, h)
    BY <1>2 DEF NameWritten
  <2> HIDE DEF h
  <2>4. QED
    BY <2>2, <2>3, PushedPhases
<1>3. ASSUME DeleteMember(r) PROVE Phases'
  <2>1. PICK left : handler' = Filtered(r, handler[r].conv, AfterRemoval(handler[r], left))
    BY <1>3 DEF DeleteMember
  <2> DEFINE h == AfterRemoval(handler[r], left)
  <2>2. Phased(h)
    BY <1>0, <1>3, AfterRemovalPhased DEF DeleteMember, Phased
  <2>3. handler[r].conv \in Convs
    BY <1>0, <1>3, FieldTypes DEF DeleteMember
  <2>4. handler' = Filtered(r, handler[r].conv, h)
    BY <2>1
  <2> HIDE DEF h
  <2>5. QED
    BY <2>2, <2>3, <2>4, FilteredPhases
<1>4. ASSUME DropMembers(r) PROVE Phases'
  <2> DEFINE h == [handler[r] EXCEPT !.at = "drop"]
  <2>1. h.at = "drop" /\ h.op \in {"leave", "delete"}
    BY <1>0, <1>4, AtAll DEF DropMembers, Phased
  <2>2. Phased(h)
    BY <2>1 DEF Phased
  <2>3. handler' = [handler EXCEPT ![r] = h]
    BY <1>4 DEF DropMembers
  <2>4. QED
    BY <2>2, <2>3, ReplacedPhases
<1>5. ASSUME DropConversation(r) PROVE Phases'
  BY <1>5, IdlePhased, ReplacedPhases DEF DropConversation
<1>6. ASSUME Fail(r) PROVE Phases'
  <2> DEFINE h == IF handler[r].at = "member" THEN AfterRemoval(handler[r], conv[handler[r].conv].members) ELSE Idle
  <2>1. Phased(h)
    <3>1. handler[r].at = "member" => Phased(AfterRemoval(handler[r], conv[handler[r].conv].members))
      BY <1>0, AfterRemovalPhased DEF Phased
    <3>2. QED
      BY <3>1, IdlePhased
  <2>2. handler' = [handler EXCEPT ![r] = h]
    BY <1>6 DEF Fail
  <2> HIDE DEF h
  <2>3. QED
    BY <2>1, <2>2, ReplacedPhases
<1>7. ASSUME NEW u \in Users, InsertMember(r, u) PROVE Phases'
  <2> DEFINE rest == [handler[r] EXCEPT !.todo = handler[r].todo \ {u}]
  <2>1. rest.at = "members" /\ rest.op = handler[r].op
    BY <1>0, <1>7, TodoAll DEF InsertMember
  <2>2. Phased(rest)
    BY <1>0, <1>7, <2>1 DEF Phased, InsertMember
  <2>3. handler' = [handler EXCEPT ![r] = Idle] \/ handler' = [handler EXCEPT ![r] = rest]
    BY <1>7 DEF InsertMember
  <2> HIDE DEF rest
  <2>4. QED
    BY <2>2, <2>3, IdlePhased, ReplacedPhases
<1>8. QED
  BY <1>1, <1>2, <1>3, <1>4, <1>5, <1>6, <1>7 DEF Statement

LEMMA PhasesRequest == ASSUME TypeOK, Phases, NEW r \in Requests, Request(r) PROVE Phases'
<1>1. ASSUME NEW us \in SUBSET Users, PostGroup(r, us) PROVE Phases'
  BY <1>1, AwaitsPhased, ReplacedPhases DEF PostGroup, Create
<1>2. ASSUME NEW u \in Users, NEW v \in Users, PostDirect(r, u, v) PROVE Phases'
  BY <1>2, AwaitsPhased, ReplacedPhases DEF PostDirect, Create
<1>3. ASSUME NEW u \in Users, NEW v \in Users, Invite(r, u, v) PROVE Phases'
  BY <1>3, AwaitsPhased, ReplacedPhases DEF Invite
<1>4. ASSUME NEW u \in Users, NEW v \in Users, FindOrCreate(r, u, v) PROVE Phases'
  <2>1. \/ handler' = [handler EXCEPT ![r] = Idle]
        \/ handler' = [handler EXCEPT ![r] = Awaits("call", created', "conversation", Pair(u, v), FALSE)]
    BY <1>4 DEF FindOrCreate
  <2>2. QED
    BY <2>1, IdlePhased, AwaitsPhased, ReplacedPhases
<1>5. ASSUME NEW u \in Users, NEW c \in Convs, Leave(r, u, c) PROVE Phases'
  <2> DEFINE h == Awaits("leave", c, "member", {u}, FALSE)
  <2>1. Phased(h)
    BY AwaitsPhased, Zenon
  <2>2. handler' = Filtered(r, c, h)
    BY <1>5 DEF Leave
  <2> HIDE DEF h
  <2>3. QED
    BY <2>1, <2>2, FilteredPhases
<1>6. ASSUME NEW u \in Users, NEW c \in Convs, Delete(r, u, c) PROVE Phases'
  <2> DEFINE h == Awaits("delete", c, "purge", {}, FALSE)
  <2>1. Phased(h)
    BY AwaitsPhased, Zenon
  <2>2. handler' = [handler EXCEPT ![r] = h]
    BY <1>6 DEF Delete
  <2> HIDE DEF h
  <2>3. QED
    BY <2>1, <2>2, ReplacedPhases
<1>7. ASSUME NEW u \in Users, NEW c \in Convs, NEW w \in Users, Add(r, u, c, w) PROVE Phases'
  <2> DEFINE h == Awaits("add", c, "members", {w}, FALSE)
             k == Awaits("add", c, "name", {w}, FALSE)
  <2>1. Phased(h) /\ Phased(k)
    BY AwaitsPhased, Zenon
  <2>2. handler' = Pushed(r, c, w, h) \/ handler' = [handler EXCEPT ![r] = k]
    BY <1>7 DEF Add
  <2> HIDE DEF h, k
  <2>3. QED
    BY <2>1, <2>2, PushedPhases, ReplacedPhases
<1>8. ASSUME NEW u \in Users, NEW c \in Convs, NEW w \in Users, Remove(r, u, c, w) PROVE Phases'
  <2> DEFINE h == Awaits("remove", c, "member", {w}, FALSE)
  <2>1. Phased(h)
    BY AwaitsPhased, Zenon
  <2>2. handler' = Filtered(r, c, h)
    BY <1>8 DEF Remove
  <2> HIDE DEF h
  <2>3. QED
    BY <2>1, <2>2, FilteredPhases
<1>9. QED
  BY <1>1, <1>2, <1>3, <1>4, <1>5, <1>6, <1>7, <1>8 DEF Request

\* Failures are counted, and who overlapped is remembered.
LEMMA PastGrows ==
  ASSUME TypeOK, [Next]_vars
  PROVE  mixed \subseteq mixed' /\ (failures' = 0 => failures = 0 /\ \A r \in Requests : ~Fail(r))
<1>1. ASSUME NEW r \in Requests, Statement(r) PROVE mixed' = mixed /\ (failures' = failures \/ failures' = failures + 1)
  BY <1>1 DEF Statement, InsertConversation, InsertMember, NameWritten, DeleteMember, DropMembers,
     DropConversation, Fail, past, counts
<1>2. ASSUME NEW r \in Requests, Request(r) PROVE mixed \subseteq mixed' /\ failures' = failures
  BY <1>2 DEF Request, PostGroup, PostDirect, Invite, FindOrCreate, Leave, Delete, Add, Remove, Begin, Mixes, past, counts
<1>3. CASE Restart \/ UNCHANGED vars
  <2>1. mixed' = mixed /\ failures' = failures
    BY <1>3 DEF Restart, vars, past, counts
  <2>2. \A r \in Requests : Fail(r) => failures' = failures + 1
    BY DEF Fail
  <2>3. QED
    BY <2>1, <2>2 DEF TypeOK
<1>4. \A r \in Requests : Fail(r) => failures' = failures + 1
  BY DEF Fail
<1>5. CASE ~(Restart \/ UNCHANGED vars)
  <2>1. mixed \subseteq mixed' /\ (failures' = failures \/ failures' = failures + 1)
    BY <1>1, <1>2, <1>5 DEF Next
  <2>2. QED
    BY <1>4, <2>1 DEF TypeOK
<1>6. QED
  BY <1>3, <1>5

\* Every step keeps the invariant.
LEMMA RowsStep == RowsInv /\ Inv /\ [Next]_vars => RowsInv'
<1> SUFFICES ASSUME RowsInv, Inv, [Next]_vars PROVE RowsInv'
  OBVIOUS
<1>1. TypeOK /\ Work /\ Phases /\ (\A c \in Convs : Sound(c)) /\ Inv' /\ TypeOK'
  BY InvStep, TypeStep DEF RowsInv
<1>2. Phases'
  <2>1. ASSUME Restart PROVE Phases'
    BY <2>1, IdlePhased DEF Restart, Phases
  <2>2. ASSUME UNCHANGED vars PROVE Phases'
    BY <1>1, <2>2 DEF vars, Phases
  <2>3. QED
    BY <1>1, <2>1, <2>2, PhasesStatement, PhasesRequest DEF Next
<1>3. ASSUME NEW c \in Convs PROVE RowsKept(c)
  <2>1. Sound(c) /\ (failures' = 0 /\ c \notin mixed' => Fits(c) /\ \A r \in Requests : ~Fail(r))
    BY <1>1, PastGrows DEF RowsInv
  <2>2. ASSUME NEW r \in Requests, Statement(r) PROVE RowsKept(c)
    <3>1. restarts' = restarts
      BY <1>1, <2>2, RowsOfRequest DEF OwnRows
    <3>2. CASE Fail(r)
      <4>1. Sound(c)'
        BY <2>1, <3>2 DEF Fail, Sound, memory, rows
      <4>2. QED
        BY <2>1, <3>2, <4>1 DEF RowsKept
    <3>3. QED
      BY <1>1, <2>1, <2>2, <3>1, <3>2, KeptInsertConversation, KeptNameWritten, KeptDeleteMember, KeptDropMembers,
         KeptDropConversation, KeptInsertMember DEF Statement
  <2>3. ASSUME NEW r \in Requests, Request(r) PROVE RowsKept(c)
    <3>1. restarts' = restarts
      BY <1>1, <2>3, RowsOfRequest DEF OwnRows
    <3>2. QED
      BY <1>1, <2>1, <2>3, <3>1, KeptPostGroup, KeptPostDirect, KeptInvite, KeptFindOrCreate, KeptLeave,
         KeptDelete, KeptAdd, KeptRemove DEF Request
  <2>4. ASSUME UNCHANGED vars PROVE RowsKept(c)
    <3>1. Untouched(c) /\ restarts' = restarts
      BY <2>4 DEF vars, memory, rows, past, counts, Untouched
    <3>2. QED
      BY <2>1, <3>1, UntouchedKept
  <2>5. QED
    BY <1>1, <2>1, <2>2, <2>3, <2>4, KeptRestart DEF Next
<1>4. QED
  BY <1>1, <1>2, <1>3 DEF RowsInv, RowsKept, Inv

LEMMA InitRows == Init => RowsInv
<1> SUFFICES ASSUME Init PROVE RowsInv
  OBVIOUS
<1>1. TypeOK /\ Work
  BY InitInv DEF Inv
<1>2. \A r \in Requests : handler[r] = Idle
  BY DEF Init
<1>3. Phases
  BY <1>2, IdlePhased DEF Phases
<1>4. ASSUME NEW c \in Convs PROVE Sound(c) /\ Fits(c)
  <2>1. \A r \in Requests : handler[r].conv # c
    BY <1>2, IdleAll, Positive
  <2>2. ~On(c, Adding) /\ ~On(c, Removing) /\ ~Dropping(c) /\ ~Live(c)
    BY <2>1 DEF On, Dropping, Live, Init
  <2>3. QED
    BY <2>1, <2>2 DEF Init, Sound, Fits, OneKind, AddersListed, Written, RowComing, RowsGoing, RowsComing, RowsLive,
       GoneDead, DropsLast, Deserted
<1>5. QED
  BY <1>1, <1>3, <1>4 DEF RowsInv

\* What fits, and has nobody at work on it, agrees with its rows.
LEMMA QuietAgrees == RowsInv => RowsAgree /\ NoneDeserted
<1> SUFFICES ASSUME RowsInv, failures = 0, NEW c \in Convs \ mixed
             PROVE  /\ c \in gone => c \notin listed /\ type[c] = "none"
                    /\ Quiet(c) => /\ c \in listed <=> type[c] # "none"
                                   /\ c \in listed => members[c] = conv[c].members
                                   /\ c \in listed \ escalated => conv[c].group = (type[c] = "Group")
                    /\ restarts = 0 /\ c \in listed /\ Quiet(c) /\ c \notin selfRemoved => conv[c].members # {}
  BY DEF RowsAgree, NoneDeserted, RowsInv, TypeOK
<1>1. Sound(c) /\ Fits(c)
  BY DEF RowsInv
<1>2. c \in gone => c \notin listed /\ type[c] = "none"
  BY <1>1 DEF Fits, GoneDead, RowsLive, Live
<1>3. ASSUME Quiet(c), c \in listed
      PROVE  /\ type[c] # "none" /\ members[c] = conv[c].members
             /\ restarts = 0 /\ c \notin selfRemoved => conv[c].members # {}
  <2>1. Live(c)
    BY <1>3 DEF Live
  <2>2. type[c] # "none"
    BY <1>1, <1>3, <2>1 DEF Quiet, Fits, RowComing
  <2>3. \A u \in members[c] : u \in conv[c].members
    BY <1>1, <1>3, <2>1 DEF Quiet, Fits, RowsGoing, Awaiting
  <2>4. \A u \in conv[c].members : u \in members[c]
    BY <1>1, <1>3, <2>1 DEF Quiet, Fits, RowsComing, Awaiting, Dropping
  <2>5. members[c] = conv[c].members
    BY <2>3, <2>4 DEF RowsInv, TypeOK
  <2>6. restarts = 0 /\ c \notin selfRemoved => conv[c].members # {}
    BY <1>1, <1>3 DEF Quiet, Fits, Deserted
  <2>7. QED
    BY <2>2, <2>5, <2>6
<1>4. Quiet(c) /\ type[c] # "none" => c \in listed
  BY <1>1 DEF Quiet, Fits, RowsLive, Live
<1>5. QED
  BY <1>1, <1>2, <1>3, <1>4 DEF Sound

\* Once nobody is at work on a conversation its rows are what the memory holds,
\* and what was answered to be gone stays gone: for any requests, members,
\* interleaving and restarts, unless an addition overlapped a removal or a
\* statement failed.
THEOREM RowsAgreeHolds == Spec => []RowsAgree
<1>1. Init => Inv /\ RowsInv
  BY InitInv, InitRows
<1>2. Inv /\ RowsInv /\ [Next]_vars => (Inv /\ RowsInv)'
  BY InvStep, RowsStep
<1>3. Inv /\ RowsInv => RowsAgree
  BY QuietAgrees
<1>4. QED
  BY <1>1, <1>2, <1>3, PTL DEF Spec

\* No conversation stays when its members have left it, however they leave.
THEOREM NoneDesertedHolds == Spec => []NoneDeserted
<1>1. Init => Inv /\ RowsInv
  BY InitInv, InitRows
<1>2. Inv /\ RowsInv /\ [Next]_vars => (Inv /\ RowsInv)'
  BY InvStep, RowsStep
<1>3. Inv /\ RowsInv => NoneDeserted
  BY QuietAgrees
<1>4. QED
  BY <1>1, <1>2, <1>3, PTL DEF Spec
=============================================================================
