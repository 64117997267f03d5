--------------------------- MODULE Conversations ---------------------------
(***************************************************************************)
(* Direct and group conversations: the handlers of                         *)
(* server/routes/conversations.ts, the conversation that a call finds or   *)
(* creates (server/db.ts), and the rows they write.                        *)
(*                                                                         *)
(* A handler runs from one await to the next without interruption.  A step *)
(* is the statement it awaits and the code behind it; between two steps    *)
(* other handlers run, or the process starts again and loads the rows.     *)
(* Members are kept as sets.  Left out: names, who is notified, messages   *)
(* (see MessageSend), users of different organizations.                    *)
(***************************************************************************)
EXTENDS Naturals

CONSTANTS
    Users,
    Requests,    \* handlers that run at once
    MaxConvs,    \* bound: conversations created
    MaxActs,     \* bound: requests
    MaxFailures, \* bound: statements that fail
    MaxRestarts  \* bound: restarts

ASSUME BoundsAssumption ==
    /\ MaxConvs \in Nat /\ MaxActs \in Nat /\ MaxFailures \in Nat /\ MaxRestarts \in Nat

Convs == 1..MaxConvs

VARIABLES
    conv,       \* the object of each conversation: isGroup and memberIds
    listed,     \* db.conversations
    type,       \* rows of conversations: "Direct", "Group", or "none"
    members,    \* rows of conversation_members, by conversation
    handler,    \* the requests under way
    created,    \* conversations created so far
    gone,       \* history: conversations whose deletion was answered
    mixed,      \* history: a handler added members while another removed some
    raced,      \* history: a call and another request looked for the same pair
    escalated,  \* history: was direct when a member was added
    selfRemoved, \* history: somebody removed himself instead of leaving
    acts, failures, restarts

memory == <<conv, listed>>
rows == <<type, members>>
past == <<gone, mixed, raced, escalated, selfRemoved>>
counts == <<acts, failures, restarts>>
vars == <<memory, rows, handler, created, past, counts>>

Idle == [op |-> "idle", conv |-> 0, at |-> "done", todo |-> {}, shared |-> FALSE]

(* A handler of conversation c that awaits the statement at, with the      *)
(* members todo still to write or delete.  shared: the array the handler   *)
(* iterates is the memberIds of the object.                                *)
Awaits(op, c, at, todo, shared) ==
    [op |-> op, conv |-> c, at |-> at, todo |-> todo, shared |-> shared]

Adding == {"create", "add"}
Removing == {"remove", "leave", "delete"}
On(c, ops) == \E r \in Requests : handler[r].conv = c /\ handler[r].op \in ops

Pair(u, v) == {u, v}
IsDirect(c, u, v) == c \in listed /\ ~conv[c].group /\ conv[c].members = Pair(u, v)

(* A call has looked for the conversation of the pair and will create one. *)
CallCreates(u, v) ==
    \E r \in Requests : /\ handler[r].op = "call" /\ handler[r].at # "select"
                        /\ conv[handler[r].conv].members = Pair(u, v)

Begin(r) == handler[r] = Idle /\ acts < MaxActs /\ acts' = acts + 1 /\ UNCHANGED <<failures, restarts>>

Init ==
    /\ conv = [c \in Convs |-> [group |-> FALSE, members |-> {}]] /\ listed = {}
    /\ type = [c \in Convs |-> "none"] /\ members = [c \in Convs |-> {}]
    /\ handler = [r \in Requests |-> Idle] /\ created = 0
    /\ gone = {} /\ mixed = {} /\ raced = FALSE /\ escalated = {} /\ selfRemoved = {}
    /\ acts = 0 /\ failures = 0 /\ restarts = 0

(***************************************************************************)
(* Creation.                                                               *)
(***************************************************************************)
Create(r, c, group, us) ==
    /\ created < MaxConvs /\ created' = c
    /\ conv' = [conv EXCEPT ![c] = [group |-> group, members |-> us]]
    /\ listed' = listed \cup {c}
    /\ handler' = [handler EXCEPT ![r] = Awaits("create", c, "conversation", us, TRUE)]
    /\ UNCHANGED rows

\* Mutant of PostDirect: the table is asked, not the memory.
PostDirectFromRows(r, u, v) ==
    /\ Begin(r) /\ u # v /\ ~\E c \in Convs : type[c] = "Direct" /\ members[c] = Pair(u, v)
    /\ Create(r, created + 1, FALSE, Pair(u, v))
    /\ raced' = (raced \/ CallCreates(u, v))
    /\ UNCHANGED <<gone, mixed, escalated, selfRemoved>>

(* POST / for a pair: one that exists is returned. *)
PostDirect(r, u, v) ==
    /\ Begin(r) /\ u # v /\ ~\E c \in Convs : IsDirect(c, u, v)
    /\ Create(r, created + 1, FALSE, Pair(u, v))
    /\ raced' = (raced \/ CallCreates(u, v))
    /\ UNCHANGED <<gone, mixed, escalated, selfRemoved>>

(* POST / for a group. *)
PostGroup(r, us) ==
    /\ Begin(r) /\ \E u, v \in us : u # v
    /\ Create(r, created + 1, TRUE, us)
    /\ UNCHANGED past

(* POST /calls/invite asks whether the call has a conversation ... *)
Invite(r, u, v) ==
    /\ Begin(r) /\ u # v
    /\ handler' = [handler EXCEPT ![r] = Awaits("call", 0, "select", Pair(u, v), FALSE)]
    /\ UNCHANGED <<memory, rows, created, past>>

(* ... and when it has not, looks for one of the pair, in memory. *)
FindOrCreate(r, u, v) ==
    /\ handler[r].at = "select" /\ handler[r].todo = Pair(u, v)
    /\ IF \E c \in Convs : IsDirect(c, u, v)
       THEN /\ handler' = [handler EXCEPT ![r] = Idle]
            /\ UNCHANGED <<conv, created, raced>>
       ELSE /\ created < MaxConvs /\ created' = created + 1
            /\ conv' = [conv EXCEPT ![created'] = [group |-> FALSE, members |-> Pair(u, v)]]
            /\ handler' = [handler EXCEPT ![r] =
                             Awaits("call", created', "conversation", Pair(u, v), FALSE)]
            /\ raced' = (raced \/ CallCreates(u, v))
    /\ UNCHANGED <<listed, rows, gone, mixed, escalated, selfRemoved, counts>>

(* INSERT INTO conversations *)
InsertConversation(r) ==
    LET h == handler[r]
    IN /\ h.op \in {"create", "call"} /\ h.at = "conversation"
       /\ type' = [type EXCEPT ![h.conv] = IF conv[h.conv].group THEN "Group" ELSE "Direct"]
       /\ handler' = [handler EXCEPT ![r].at = "members"]
       /\ UNCHANGED <<memory, members, created, past, counts>>

(* INSERT INTO conversation_members, after which the handler goes on to    *)
(* the next member or answers.  A call puts its conversation in memory     *)
(* only then.  Without the row of the conversation the statement fails.    *)
InsertMember(r, u) ==
    LET h == handler[r]
        last == h.todo = {u} \/ type[h.conv] = "none"
    IN /\ h.at = "members" /\ u \in h.todo
       /\ members' = IF type[h.conv] = "none" THEN members
                     ELSE [members EXCEPT ![h.conv] = @ \cup {u}]
       /\ handler' = [handler EXCEPT ![r] = IF last THEN Idle ELSE [h EXCEPT !.todo = @ \ {u}]]
       /\ listed' = IF last /\ h.op = "call" /\ type[h.conv] # "none"
                    THEN listed \cup {h.conv} ELSE listed
       /\ UNCHANGED <<conv, type, created, past, counts>>

(***************************************************************************)
(* Members.                                                                *)
(***************************************************************************)
Member(u, c) == c \in listed /\ u \in conv[c].members
Mixes(c, ops) == mixed' = IF On(c, ops) THEN mixed \cup {c} ELSE mixed

(* memberIds.push(u): a creation that iterates the array will insert u.    *)
(* memberIds = memberIds.filter(...): it goes on with the old array.       *)
Pushed(r, c, u, h) ==
    [q \in Requests |-> IF q = r THEN h
                        ELSE IF handler[q].conv = c /\ handler[q].shared
                        THEN [handler[q] EXCEPT !.todo = @ \cup {u}] ELSE handler[q]]
Filtered(r, c, h) ==
    [q \in Requests |-> IF q = r THEN h
                        ELSE IF handler[q].conv = c THEN [handler[q] EXCEPT !.shared = FALSE]
                        ELSE handler[q]]

(* POST /:id/members for user w: a direct conversation becomes a group, in *)
(* memory, and its name is written first.                                  *)
Add(r, u, c, w) ==
    /\ Begin(r) /\ Member(u, c) /\ w \notin conv[c].members
    /\ IF conv[c].group
       THEN /\ conv' = [conv EXCEPT ![c].members = @ \cup {w}]
            /\ handler' = Pushed(r, c, w, Awaits("add", c, "members", {w}, FALSE))
            /\ UNCHANGED escalated
       ELSE /\ conv' = [conv EXCEPT ![c].group = TRUE]
            /\ handler' = [handler EXCEPT ![r] = Awaits("add", c, "name", {w}, FALSE)]
            /\ escalated' = escalated \cup {c}
    /\ Mixes(c, Removing)
    /\ UNCHANGED <<listed, rows, created, gone, raced, selfRemoved>>

NameWritten(r) ==
    LET h == handler[r]
    IN /\ h.at = "name"
       /\ \E w \in h.todo :
            /\ conv' = [conv EXCEPT ![h.conv].members = @ \cup {w}]
            /\ handler' = Pushed(r, h.conv, w, [h EXCEPT !.at = "members"])
       /\ UNCHANGED <<listed, rows, created, past, counts>>

(* DELETE /:id/members/:userId, by any member, of any member. *)
Remove(r, u, c, w) ==
    /\ Begin(r) /\ Member(u, c) /\ conv[c].group /\ w \in conv[c].members
    /\ conv' = [conv EXCEPT ![c].members = @ \ {w}]
    /\ handler' = Filtered(r, c, Awaits("remove", c, "member", {w}, FALSE))
    /\ selfRemoved' = IF u = w THEN selfRemoved \cup {c} ELSE selfRemoved
    /\ Mixes(c, Adding)
    /\ UNCHANGED <<listed, rows, created, gone, raced, escalated>>

(* POST /:id/leave *)
Leave(r, u, c) ==
    /\ Begin(r) /\ Member(u, c)
    /\ conv' = [conv EXCEPT ![c].members = @ \ {u}]
    /\ handler' = Filtered(r, c, Awaits("leave", c, "member", {u}, FALSE))
    /\ Mixes(c, Adding)
    /\ UNCHANGED <<listed, rows, created, gone, raced, escalated, selfRemoved>>

\* Mutant of AfterRemoval: nobody looks whether somebody is left.
AfterRemovalNothing(h, left) == Idle

(* Whoever leaves last deletes the conversation. *)
AfterRemoval(h, left) ==
    IF h.op = "leave" /\ left = {} THEN [h EXCEPT !.at = "purge"] ELSE Idle

\* Mutant of DeleteMember: only the memory is changed.
DeleteMemberMemory(r) ==
    LET h == handler[r]
    IN /\ h.at = "member"
       /\ conv' = [conv EXCEPT ![h.conv].members = @ \ h.todo]
       /\ handler' = Filtered(r, h.conv, AfterRemoval(h, conv[h.conv].members))
       /\ UNCHANGED <<rows, listed, created, past, counts>>

(* DELETE FROM conversation_members of one member, who is taken out of the *)
(* memory once more when the conversation is still there.                  *)
DeleteMember(r) ==
    LET h == handler[r]
        left == IF h.conv \in listed THEN conv[h.conv].members \ h.todo ELSE conv[h.conv].members
    IN /\ h.at = "member"
       /\ members' = [members EXCEPT ![h.conv] = @ \ h.todo]
       /\ conv' = [conv EXCEPT ![h.conv].members = left]
       /\ handler' = Filtered(r, h.conv, AfterRemoval(h, left))
       /\ UNCHANGED <<listed, type, created, past, counts>>

(***************************************************************************)
(* Deletion.                                                               *)
(***************************************************************************)

(* DELETE /:id, by any member *)
Delete(r, u, c) ==
    /\ Begin(r) /\ Member(u, c)
    /\ handler' = [handler EXCEPT ![r] = Awaits("delete", c, "purge", {}, FALSE)]
    /\ Mixes(c, Adding)
    /\ UNCHANGED <<memory, rows, created, gone, raced, escalated, selfRemoved>>

(* DELETE FROM conversation_members of all *)
DropMembers(r) ==
    LET h == handler[r]
    IN /\ h.at = "purge"
       /\ members' = [members EXCEPT ![h.conv] = {}]
       /\ handler' = [handler EXCEPT ![r].at = "drop"]
       /\ UNCHANGED <<memory, type, created, past, counts>>

Answered(h) == IF h.op = "delete" THEN gone \cup {h.conv} ELSE gone

(* DELETE FROM conversations, which fails while a row refers to it; the    *)
(* memory follows, and either way the answer is that it is gone.           *)
DropConversation(r) ==
    LET h == handler[r]
        ok == members[h.conv] = {}
    IN /\ h.at = "drop"
       /\ type' = IF ok THEN [type EXCEPT ![h.conv] = "none"] ELSE type
       /\ listed' = IF ok THEN listed \ {h.conv} ELSE listed
       /\ handler' = [handler EXCEPT ![r] = Idle]
       /\ gone' = Answered(h)
       /\ UNCHANGED <<conv, members, created, mixed, raced, escalated, selfRemoved, counts>>

(***************************************************************************)
(* Faults.                                                                 *)
(***************************************************************************)

(* A statement fails; the error is logged and what follows it in the same  *)
(* function is skipped.  A leave goes on to look who is left.              *)
Fail(r) ==
    LET h == handler[r]
    IN /\ h.at \notin {"done", "name"}
       /\ failures < MaxFailures /\ failures' = failures + 1
       /\ handler' = [handler EXCEPT ![r] =
                        IF h.at = "member" THEN AfterRemoval(h, conv[h.conv].members) ELSE Idle]
       /\ gone' = Answered(h)
       /\ UNCHANGED <<memory, rows, created, mixed, raced, escalated, selfRemoved, acts, restarts>>

(* The process dies and loads the rows. *)
Restart ==
    /\ restarts < MaxRestarts /\ restarts' = restarts + 1
    /\ handler' = [r \in Requests |-> Idle]
    /\ listed' = {c \in Convs : type[c] # "none"}
    /\ conv' = [c \in Convs |-> [group |-> type[c] = "Group", members |-> members[c]]]
    /\ UNCHANGED <<rows, created, past, acts, failures>>

Statement(r) ==
    \/ InsertConversation(r) \/ NameWritten(r) \/ DeleteMember(r) \/ DropMembers(r)
    \/ DropConversation(r) \/ Fail(r)
    \/ \E u \in Users : InsertMember(r, u)

Request(r) ==
    \/ \E us \in SUBSET Users : PostGroup(r, us)
    \/ \E u, v \in Users : PostDirect(r, u, v) \/ Invite(r, u, v) \/ FindOrCreate(r, u, v)
    \/ \E u \in Users, c \in Convs :
         \/ Leave(r, u, c) \/ Delete(r, u, c)
         \/ \E w \in Users : Add(r, u, c, w) \/ Remove(r, u, c, w)

Next == Restart \/ \E r \in Requests : Statement(r) \/ Request(r)

Spec == Init /\ [][Next]_vars

(***************************************************************************)
(* Properties.                                                             *)
(***************************************************************************)

(* What a handler may be at.  It has a conversation, unless it is idle or   *)
(* of a call that has yet to look for one.                                 *)
Handlers ==
    {h \in [op : {"idle", "create", "call", "add", "remove", "leave", "delete"},
            conv : Convs \cup {0},
            at : {"done", "select", "conversation", "members", "name", "member", "purge", "drop"},
            todo : SUBSET Users, shared : BOOLEAN] :
       h.conv = 0 => <<h.op, h.at>> \in {<<"idle", "done">>, <<"call", "select">>}}

(* Every variable has its type. *)
TypeOK ==
    /\ conv \in [Convs -> [group : BOOLEAN, members : SUBSET Users]] /\ listed \subseteq Convs
    /\ type \in [Convs -> {"none", "Direct", "Group"}] /\ members \in [Convs -> SUBSET Users]
    /\ handler \in [Requests -> Handlers]
    /\ created \in 0..MaxConvs
    /\ gone \subseteq Convs /\ mixed \subseteq Convs /\ raced \in BOOLEAN
    /\ escalated \subseteq Convs /\ selfRemoved \subseteq Convs
    /\ acts \in Nat /\ failures \in Nat /\ restarts \in Nat

Quiet(c) == \A r \in Requests : handler[r].conv # c

(* Two users have one direct conversation, however requests for it         *)
(* interleave: a POST looks and adds without an await between.  A call     *)
(* looks, and adds after three statements or more: it is excluded when     *)
(* another request for the pair comes in between.                          *)
OneDirect ==
    ~raced /\ restarts = 0 =>
      \A u, v \in Users : \A c, d \in Convs : u # v /\ IsDirect(c, u, v) /\ IsDirect(d, u, v) => c = d

(* Once nobody is at work on a conversation, its rows are what the memory  *)
(* holds, so that a restart changes nothing: whoever was removed stays     *)
(* out, and a group stays a group unless it was made of a direct           *)
(* conversation.  One whose deletion was answered is gone from both, and   *)
(* does not come back.  Excluded are additions that overlapped a removal,  *)
(* whose statements may come in the other order, and statements that       *)
(* failed.                                                                 *)
RowsAgree ==
    failures = 0 => \A c \in Convs \ mixed :
      /\ c \in gone => c \notin listed /\ type[c] = "none"
      /\ Quiet(c) =>
           /\ c \in listed <=> type[c] # "none"
           /\ c \in listed => members[c] = conv[c].members
           /\ c \in listed \ escalated => conv[c].group = (type[c] = "Group")

(* No conversation stays when its members have left, in whatever order     *)
(* they leave, unless the last one was removed by himself or the process   *)
(* died before the last one had deleted it.                                *)
NoneDeserted ==
    failures = 0 /\ restarts = 0 =>
      \A c \in listed : Quiet(c) /\ c \notin mixed \cup selfRemoved => conv[c].members # {}

(***************************************************************************)
(* The inductive strengthening of OneDirect.                               *)
(***************************************************************************)

(* The handler of a call that has created its conversation, which the      *)
(* others do not see before it is listed.                                  *)
Calling(r) == handler[r].op = "call" /\ handler[r].at # "select"

(* Conversations that are, or will be, listed as direct ones. *)
Direct(c) == \/ c \in listed /\ ~conv[c].group
             \/ \E r \in Requests : Calling(r) /\ handler[r].conv = c

(* Conversations are numbered as they are created. *)
Numbered ==
    /\ \A c \in listed \cup gone : c <= created
    /\ \A c \in Convs : type[c] # "none" => c <= created
    /\ \A r \in Requests : handler[r].conv <= created

(* Only a group gets further members. *)
OnlyGroupsGrow ==
    \A r \in Requests : handler[r].at = "name" =>
        handler[r].conv \in Convs /\ conv[handler[r].conv].group

(* Nobody else is at work on the conversation of a call. *)
CallsAlone ==
    \A r \in Requests : Calling(r) =>
        /\ handler[r].conv \in Convs \ listed /\ ~conv[handler[r].conv].group
        /\ \A q \in Requests \ {r} : handler[q].conv # handler[r].conv

(* A direct conversation only loses members, so that it is of no pair but  *)
(* the one it was created for.                                             *)
DirectHasPair == \A c \in Convs : Direct(c) => \E u, v \in Users : conv[c].members \subseteq Pair(u, v)

NoTwin ==
    ~raced => \A u, v \in Users : \A c, d \in Convs :
      u # v /\ Direct(c) /\ Direct(d) /\ conv[c].members = Pair(u, v) /\ conv[d].members = Pair(u, v) => c = d

Work == Numbered /\ OnlyGroupsGrow /\ CallsAlone

Inv == TypeOK /\ Work /\ (restarts = 0 => DirectHasPair /\ NoTwin)

(***************************************************************************)
(* The inductive strengthening of RowsAgree and NoneDeserted.              *)
(***************************************************************************)

(* Which handlers await which statement. *)
Phased(h) ==
    /\ h.at = "conversation" => h.op \in {"create", "call"}
    /\ h.at = "members" => h.op \in {"create", "call", "add"}
    /\ h.at = "name" => h.op = "add" /\ ~h.shared /\ \E w \in Users : h.todo = {w}
    /\ h.at = "member" => h.op \in {"remove", "leave"}
    /\ h.at \in {"purge", "drop"} => h.op \in {"leave", "delete"}
    /\ h.at = "select" => h.op = "call" /\ h.conv = 0
    /\ h.at = "done" => h = Idle

Phases == \A r \in Requests : Phased(handler[r])

(* The rows of members refer to that of their conversation, which tells    *)
(* what it is unless it was made a group.                                  *)
Sound(c) ==
    /\ members[c] # {} => type[c] # "none"
    /\ c \notin escalated /\ type[c] # "none" => conv[c].group = (type[c] = "Group")

(* Handlers of c that await one of the statements ats, with u in todo. *)
Awaiting(c, ats, u) == \E r \in Requests : handler[r].conv = c /\ handler[r].at \in ats /\ u \in handler[r].todo

Dropping(c) == \E r \in Requests : handler[r].conv = c /\ handler[r].at = "drop"

(* In memory, or to be put there by the call that creates it. *)
Live(c) == c \in listed \/ \E r \in Requests : Calling(r) /\ handler[r].conv = c

(* Nobody adds members while another removes some. *)
OneKind(c) == ~(On(c, Adding) /\ On(c, Removing))

AddersListed(c) == On(c, Adding) => c \in listed

(* Whoever writes a member does so for one in memory, and whoever deletes  *)
(* one has taken him out.                                                  *)
Written(c) ==
    \A r \in Requests : handler[r].conv = c =>
      /\ handler[r].at \in {"conversation", "members"} => handler[r].todo \subseteq conv[c].members
      /\ handler[r].at = "member" => handler[r].todo \cap conv[c].members = {}

(* A row that is not there yet will be written by the handler that created *)
(* the conversation, and after it all the members.                         *)
RowComing(c) ==
    Live(c) /\ type[c] = "none" =>
      \E r \in Requests :
        /\ handler[r].conv = c /\ handler[r].at = "conversation" /\ conv[c].members \subseteq handler[r].todo
        /\ handler[r].shared \/ handler[r].op = "call"

(* A row of a member that the memory does not have will be deleted, and a  *)
(* member who has no row gets one, unless the conversation is dropped.     *)
RowsGoing(c) == Live(c) => \A u \in members[c] \ conv[c].members : Awaiting(c, {"member"}, u)
RowsComing(c) ==
    Live(c) => \/ Dropping(c)
               \/ \A u \in conv[c].members \ members[c] : Awaiting(c, {"conversation", "members"}, u)

(* A row belongs to a conversation in memory, which is not gone; where it  *)
(* is dropped its members were.                                            *)
RowsLive(c) == type[c] # "none" => Live(c)
GoneDead(c) == c \in gone => ~Live(c)
DropsLast(c) == Dropping(c) => members[c] = {}

(* Whoever left last is at work to delete the conversation. *)
Deserted(c) ==
    restarts = 0 /\ c \in listed \ selfRemoved /\ conv[c].members = {} =>
      \E r \in Requests : /\ handler[r].conv = c
                          /\ handler[r].at \in {"purge", "drop"} \/ (handler[r].op = "leave" /\ handler[r].at = "member")

Fits(c) ==
    /\ OneKind(c) /\ AddersListed(c) /\ Written(c) /\ RowComing(c) /\ RowsGoing(c) /\ RowsComing(c)
    /\ RowsLive(c) /\ GoneDead(c) /\ DropsLast(c) /\ Deserted(c)

RowsInv ==
    /\ TypeOK /\ Work /\ Phases /\ \A c \in Convs : Sound(c)
    /\ failures = 0 => \A c \in Convs \ mixed : Fits(c)
=============================================================================
