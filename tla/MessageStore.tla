---------------------------- MODULE MessageStore ----------------------------
(***************************************************************************)
(* The life of the messages of ONE channel in the server                   *)
(* (server/routes/messages.ts): posting, editing, soft deletion, reactions *)
(* and pins, with the statements of server/db.ts that store them.          *)
(*                                                                         *)
(* db.messages is the authority while the server runs.  A handler changes  *)
(* the object first and then awaits ONE statement whose values were        *)
(* captured when it was issued; statements of different handlers travel on *)
(* different connections of the pool and reach PostgreSQL in any order.    *)
(* After a restart the table is the authority, except for the list of pins,*)
(* which is neither stored nor loaded.  A handler is a slot:               *)
(*                                                                         *)
(*   "write"  the statement is on its way, with the captured values        *)
(*   "ack"    the statement is applied or rejected; the handler ends with  *)
(*            its next step                                                *)
(*                                                                         *)
(* One emoji stands for all: reactions of different emojis never meet.     *)
(***************************************************************************)
EXTENDS Naturals, FiniteSets

CONSTANTS
    Messages,     \* the messages of the channel
    Nothing,      \* an idle handler
    Users,        \* the members that react
    NoUser,       \* a statement that is not about a reaction
    Contents,     \* what a message may say
    Tombstone,    \* what a deleted message says
    Slots,        \* contexts for the requests that are in flight together
    PinLimit,     \* the largest number of pins of a channel (50 in the code)
    MaxRequests,  \* bound: requests served in a behavior
    MaxRejections,  \* bound: rejected PostgreSQL statements
    MaxBoots      \* bound: restarts of the server process

ASSUME NullAssumption == Nothing \notin Messages /\ NoUser \notin Users
ASSUME ContentAssumption == Tombstone \notin Contents /\ Contents # {}
ASSUME StoreBoundAssumption ==
    PinLimit \in Nat /\ MaxRequests \in Nat /\ MaxRejections \in Nat /\ MaxBoots \in Nat

VARIABLES
    objects,    \* db.messages
    pins,       \* db.pinnedMessages: the messages it has an entry for
    row,        \* the rows of tables messages and message_reactions
    handler,    \* the handlers in flight
    requests, rejections, boots,    \* what the bounds count
    raced       \* history: messages with two statements in flight at once

storeBounds == <<requests, rejections, boots>>
storeVars == <<objects, pins, row, handler, storeBounds, raced>>

-----------------------------------------------------------------------------
(* Data *)

\* The same record serves as an object of db.messages and as a row.  The
\* reactions count the entries of each user: the array of the object is loaded
\* from rows, and table message_reactions has no unique key.
Message == [exists : BOOLEAN, content : Contents \cup {Tombstone}, deleted : BOOLEAN,
            pinned : BOOLEAN, reactions : [Users -> Nat]]
Absent == [exists |-> FALSE, content |-> Tombstone, deleted |-> FALSE,
           pinned |-> FALSE, reactions |-> [u \in Users |-> 0]]
Posted(c) == [Absent EXCEPT !.exists = TRUE, !.content = c]

Ops == {"idle", "post", "edit", "delete", "react", "unreact"}
Handlers == [op : Ops, pc : {"idle", "write", "ack"}, message : Messages \cup {Nothing},
             user : Users \cup {NoUser}, val : Message]
Idle == [op |-> "idle", pc |-> "idle", message |-> Nothing, user |-> NoUser, val |-> Absent]

Busy(s) == handler[s].op # "idle"
Writing(m) == \E s \in Slots : handler[s].pc = "write" /\ handler[s].message = m

\* The handlers answer 404 for a message that is not in memory or is deleted.
Visible(m) == objects[m].exists /\ ~objects[m].deleted

StoreTypeOK ==
    /\ objects \in [Messages -> Message]
    /\ pins \subseteq Messages
    /\ row \in [Messages -> Message]
    /\ handler \in [Slots -> Handlers]
    /\ \A s \in Slots : Busy(s) <=> handler[s].message \in Messages
    /\ requests \in Nat /\ rejections \in Nat /\ boots \in Nat
    /\ raced \subseteq Messages

StoreInit ==
    /\ objects = [m \in Messages |-> Absent]
    /\ pins = {}
    /\ row = [m \in Messages |-> Absent]
    /\ handler = [s \in Slots |-> Idle]
    /\ requests = 0 /\ rejections = 0 /\ boots = 0
    /\ raced = {}

-----------------------------------------------------------------------------
(* Requests *)

Request ==
    /\ requests < MaxRequests
    /\ requests' = requests + 1
    /\ UNCHANGED <<rejections, boots>>

\* The object of m becomes c and the handler of s awaits the statement of op.
Change(s, op, m, u, c) ==
    /\ ~Busy(s)
    /\ Request
    /\ objects' = [objects EXCEPT ![m] = c]
    /\ handler' = [handler EXCEPT ![s] =
          [op |-> op, pc |-> "write", message |-> m, user |-> u, val |-> c]]
    /\ raced' = IF Writing(m) THEN raced \cup {m} ELSE raced
    /\ UNCHANGED <<pins, row>>

\* POST / from the push to the await of persistMessage.  The object is visible
\* to the other handlers before its row is there.
PostMessage(s, m, c) ==
    /\ ~objects[m].exists /\ ~row[m].exists
    /\ Change(s, "post", m, NoUser, Posted(c))

\* Mutant of Edit: whether the message was deleted is not checked.
EditDeleted(s, m, c) ==
    /\ objects[m].exists
    /\ Change(s, "edit", m, NoUser, [objects[m] EXCEPT !.content = c])

\* PUT /:id.
Edit(s, m, c) ==
    /\ Visible(m)
    /\ Change(s, "edit", m, NoUser, [objects[m] EXCEPT !.content = c])

\* DELETE /:id.  It may be repeated; a deleted message is found again.
Delete(s, m) ==
    /\ objects[m].exists
    /\ Change(s, "delete", m, NoUser,
              [objects[m] EXCEPT !.deleted = TRUE, !.content = Tombstone])

\* Mutant of React: the entries of the user are not looked at.
ReactAlwaysAdds(s, m, u) ==
    /\ Visible(m)
    /\ Change(s, "react", m, u, [objects[m] EXCEPT !.reactions[u] = @ + 1])

\* POST /:id/reactions of user u: it toggles.  Only one entry is spliced out
\* of the array.
React(s, m, u) ==
    /\ Visible(m)
    /\ IF objects[m].reactions[u] > 0
       THEN Change(s, "unreact", m, u, [objects[m] EXCEPT !.reactions[u] = @ - 1])
       ELSE Change(s, "react", m, u, [objects[m] EXCEPT !.reactions[u] = 1])

\* Mutant of Unreact: an entry is spliced out without having been found.
UnreactUnchecked(s, m, u) ==
    /\ Visible(m)
    /\ Change(s, "unreact", m, u, [objects[m] EXCEPT !.reactions[u] = @ - 1])

\* DELETE /:id/reactions/:reaction of user u.
Unreact(s, m, u) ==
    /\ Visible(m)
    /\ objects[m].reactions[u] > 0
    /\ Change(s, "unreact", m, u, [objects[m] EXCEPT !.reactions[u] = @ - 1])

\* POST /:id/pin: a toggle without an await, for messages of channels.
Pin(m) ==
    /\ Visible(m)
    /\ objects[m].pinned \/ Cardinality(pins) < PinLimit
    /\ Request
    /\ objects' = [objects EXCEPT ![m].pinned = ~@]
    /\ pins' = IF objects[m].pinned THEN pins \ {m} ELSE pins \cup {m}
    /\ UNCHANGED <<row, handler, raced>>

-----------------------------------------------------------------------------
(* The statements *)

\* Mutant of Applied: the DELETE of a reaction has no condition on the user.
AppliedAllUsers(h, r) ==
    IF h.op = "post" THEN h.val
    ELSE IF ~r.exists THEN r
    ELSE CASE h.op = "edit"    -> [r EXCEPT !.content = h.val.content, !.pinned = h.val.pinned,
                                            !.deleted = h.val.deleted]
           [] h.op = "delete"  -> [r EXCEPT !.content = Tombstone, !.deleted = TRUE]
           [] h.op = "react"   -> [r EXCEPT !.reactions[h.user] = @ + 1]
           [] h.op = "unreact" -> [r EXCEPT !.reactions = [u \in Users |-> 0]]

\* What the statement of a handler does to the row of its message: an INSERT,
\* the UPDATE of persistMessageUpdate (with deletedAt as captured), the UPDATE
\* of persistMessageSoftDelete, an INSERT or a DELETE of message_reactions.
\* An UPDATE or a DELETE that comes before the INSERT touches no row, and the
\* foreign key of message_reactions rejects a reaction that comes before it.
Applied(h, r) ==
    IF h.op = "post" THEN h.val
    ELSE IF ~r.exists THEN r
    ELSE CASE h.op = "edit"    -> [r EXCEPT !.content = h.val.content, !.pinned = h.val.pinned,
                                            !.deleted = h.val.deleted]
           [] h.op = "delete"  -> [r EXCEPT !.content = Tombstone, !.deleted = TRUE]
           [] h.op = "react"   -> [r EXCEPT !.reactions[h.user] = @ + 1]
           [] h.op = "unreact" -> [r EXCEPT !.reactions[h.user] = 0]

Write(s) ==
    /\ handler[s].pc = "write"
    /\ row' = [row EXCEPT ![handler[s].message] = Applied(handler[s], @)]
    /\ handler' = [handler EXCEPT ![s].pc = "ack"]
    /\ UNCHANGED <<objects, pins, storeBounds, raced>>

\* The statement is rejected: the function logs it and the handler goes on.
WriteFails(s) ==
    /\ handler[s].pc = "write"
    /\ rejections < MaxRejections
    /\ rejections' = rejections + 1
    /\ handler' = [handler EXCEPT ![s].pc = "ack"]
    /\ UNCHANGED <<objects, pins, row, requests, boots, raced>>

\* Mutant of Finish: DELETE does not unpin.
FinishKeepsPin(s) ==
    /\ handler[s].pc = "ack"
    /\ handler' = [handler EXCEPT ![s] = Idle]
    /\ UNCHANGED <<objects, pins, row, storeBounds, raced>>

\* The handler resumes, broadcasts and answers; DELETE unpins the message.
Finish(s) ==
    /\ handler[s].pc = "ack"
    /\ LET m == handler[s].message
       IN  IF handler[s].op = "delete" /\ objects[m].pinned
           THEN /\ objects' = [objects EXCEPT ![m].pinned = FALSE]
                /\ pins' = pins \ {m}
           ELSE UNCHANGED <<objects, pins>>
    /\ handler' = [handler EXCEPT ![s] = Idle]
    /\ UNCHANGED <<row, storeBounds, raced>>

\* The process dies and boots from the tables.
Boot ==
    /\ boots < MaxBoots
    /\ boots' = boots + 1
    /\ objects' = row
    /\ pins' = {}
    /\ handler' = [s \in Slots |-> Idle]
    /\ UNCHANGED <<row, requests, rejections, raced>>

-----------------------------------------------------------------------------

RequestStep(s) ==
    \E m \in Messages :
        \/ \E c \in Contents : PostMessage(s, m, c) \/ Edit(s, m, c)
        \/ Delete(s, m)
        \/ \E u \in Users : React(s, m, u) \/ Unreact(s, m, u)

StoreNext ==
    \/ \E s \in Slots : RequestStep(s) \/ Write(s) \/ WriteFails(s) \/ Finish(s)
    \/ \E m \in Messages : Pin(m)
    \/ Boot

StoreSpec == StoreInit /\ [][StoreNext]_storeVars

-----------------------------------------------------------------------------
(* Properties *)

\* While the server runs, a message that was deleted stays deleted and says
\* nothing any more, whatever edits, reactions and pins overlap its deletion.
\* However their statements are reordered, the row of a deleted message never
\* shows its content, and a tombstone is never the row of a visible message.
DeletionIsFinal ==
    [][\A m \in Messages :
         /\ boots' = boots /\ objects[m].deleted
              => objects'[m].deleted /\ objects'[m].content = Tombstone
         /\ row'[m].exists => (row'[m].deleted <=> row'[m].content = Tombstone)]_storeVars

\* Memory and table agree about every message that no handler is working on,
\* as long as its statements were issued one after the other and none failed:
\* the order of the statements is the only thing the code does not control.
SerialStore ==
    \A m \in Messages :
        /\ m \notin raced
        /\ rejections = 0
        /\ \A s \in Slots : handler[s].message # m
        => [objects[m] EXCEPT !.pinned = row[m].pinned] = row[m]

\* A user has one reaction at most on a message, unless a restart loaded rows
\* of reactions whose statements had been reordered or rejected.
OneReaction ==
    \A m \in Messages, u \in Users :
        boots = 0 \/ (m \notin raced /\ rejections = 0) => objects[m].reactions[u] <= 1

\* Until a restart loses the list of pins, it lists exactly the messages that
\* are marked as pinned, a deleted message only while its DELETE is at work.
PinsAgree ==
    boots = 0 =>
        \A m \in Messages :
            /\ m \in pins <=> objects[m].pinned
            /\ m \in pins /\ objects[m].deleted
                 => \E s \in Slots : handler[s].op = "delete" /\ handler[s].message = m

-----------------------------------------------------------------------------
(* The inductive strengthening of the properties that are proved *)

\* A handler at work has a statement, about a message, and about a user when it
\* is a reaction; it wrote or edited while the message was not deleted.
HandlerInv ==
    \A s \in Slots :
        /\ Busy(s) <=> handler[s].pc # "idle"
        /\ handler[s].op \in {"react", "unreact"} => handler[s].user \in Users
        /\ handler[s].op \in {"post", "edit"} =>
              handler[s].val.exists /\ ~handler[s].val.deleted /\ handler[s].val.content \in Contents

\* A message that is not there has no mark, and one that says nothing is deleted.
Sound(r) == IF r.exists THEN r.deleted <=> r.content = Tombstone ELSE r = Absent
SoundInv == \A m \in Messages : Sound(objects[m]) /\ Sound(row[m])

\* The statement that is on its way, if there is one, is the only one, and makes
\* the row what memory is.
Same(r, q) ==
    /\ r.exists = q.exists /\ r.content = q.content
    /\ r.deleted = q.deleted /\ r.reactions = q.reactions
Serial(m) == m \notin raced /\ rejections = 0
SerialRows ==
    \A m \in Messages : Serial(m) =>
        /\ ~Writing(m) => Same(objects[m], row[m])
        /\ \A s \in Slots : handler[s].pc = "write" /\ handler[s].message = m =>
              /\ Same(objects[m], Applied(handler[s], row[m]))
              /\ \A t \in Slots : handler[t].pc = "write" /\ handler[t].message = m => t = s
        /\ \A u \in Users : row[m].reactions[u] <= 1

ChannelInv == StoreTypeOK /\ HandlerInv /\ SoundInv /\ SerialRows /\ OneReaction /\ PinsAgree
=============================================================================
