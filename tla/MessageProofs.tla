------------------------- MODULE MessageProofs ----------------------------
(***************************************************************************)
(* What is proved about the sending of messages (MessageSend) and about    *)
(* their store (MessageStore), for any number of attempts, requests,       *)
(* failures and restarts. The two specifications share no name; no theorem *)
(* is about both.                                                          *)
(*                                                                         *)
(* MessageSend: Inv is inductive; its parts build on each other: what a    *)
(* handler in flight works with (StageInv), how memory, table and map are  *)
(* related (StoreInv), that attempts are in flight one at a time           *)
(* (SerialInv) and therefore find the message that is there (FoundInv).    *)
(*                                                                         *)
(* MessageStore: ChannelInv is inductive.  A message that is not there has *)
(* no content, no reaction and no pin (SoundInv); the values a handler     *)
(* captured fit its statement (HandlerInv); while the statements of a      *)
(* message neither overlap nor fail, the one that is on its way makes the  *)
(* row what memory is (SerialRows).  A request is judged by what it makes  *)
(* of the object (Lawful), whichever endpoint it came from.                *)
(***************************************************************************)
EXTENDS MessageSend, MessageStore, FiniteSetTheorems, TLAPS

-----------------------------------------------------------------------------
(* MessageSend: the steps *)

\* The initial states satisfy the invariant.
LEMMA InitInv == Init => Inv
<1> USE MessageAssumption, BoundAssumption
<1> SUFFICES ASSUME Init PROVE Inv
  OBVIOUS
<1>1. TypeOK
  BY DEF Init, TypeOK, At, MaybeMessage, Stages
<1>2. StageInv /\ StoreInv /\ SerialInv
  BY DEF Init, StageInv, StoreInv, SerialInv, At, InFlight
<1>3. FoundInv /\ AnsweredIsStored
  BY DEF Init, FoundInv, AnsweredIsStored, At
<1>4. QED
  BY <1>1, <1>2, <1>3 DEF Inv

\* POST /messages: the map knows the message, or the message is pushed.
LEMMA PostStep == ASSUME NEW a \in Attempts, Inv, Post(a) PROVE Inv'
<1> USE MessageAssumption, BoundAssumption DEF Inv, boundVars, Post, Arrives, Push, Duplicate, Moves
<1>a. ~overlapped' => ~overlapped /\ \A b \in Attempts : ~InFlight(b)
  OBVIOUS
<1>1. TypeOK'
  BY DEF TypeOK, MaybeMessage, Stages, At
<1>2. StageInv'
  BY DEF TypeOK, MaybeMessage, StageInv, StoreInv, At
<1>3. StoreInv'
  BY DEF TypeOK, MaybeMessage, StageInv, StoreInv, At
<1>4. SerialInv'
  BY DEF TypeOK, MaybeMessage, SerialInv, InFlight
<1>5. FoundInv'
  <2>1. SUFFICES ASSUME ~overlapped', Remembers' PROVE FoundInv'
    BY DEF FoundInv
  <2>2. \A m \in memory : processed = m
    BY <1>a, <2>1 DEF TypeOK, FoundInv, Remembers, InFlight, At
  <2>3. CASE processed \in memory
    BY <1>a, <2>1, <2>2, <2>3 DEF TypeOK, FoundInv, Remembers, InFlight, At
  <2>4. CASE processed \notin memory
    <3>1. memory = {}
      BY <2>2, <2>4
    <3>2. QED
      BY <1>a, <2>1, <2>4, <3>1 DEF TypeOK, FoundInv, Remembers, InFlight, At
  <2>5. QED
    BY <2>3, <2>4
<1>6. AnsweredIsStored'
  BY DEF TypeOK, MaybeMessage, StageInv, StoreInv, SerialInv, AnsweredIsStored, InFlight, At
<1>7. QED
  BY <1>1, <1>2, <1>3, <1>4, <1>5, <1>6

\* POST /conversations/:id/messages up to its SELECT.
LEMMA PostToConversationStep == ASSUME NEW a \in Attempts, Inv, PostToConversation(a) PROVE Inv'
<1> USE MessageAssumption, BoundAssumption DEF Inv, boundVars, PostToConversation, Arrives, Duplicate, Moves
<1>a. ~overlapped' => ~overlapped /\ \A b \in Attempts : ~InFlight(b)
  OBVIOUS
<1>1. TypeOK'
  BY DEF TypeOK, MaybeMessage, Stages, At
<1>2. StageInv'
  BY DEF TypeOK, MaybeMessage, StageInv, StoreInv, At
<1>3. StoreInv'
  BY DEF TypeOK, MaybeMessage, StageInv, StoreInv, At
<1>4. SerialInv'
  BY DEF TypeOK, MaybeMessage, SerialInv, InFlight
<1>5. FoundInv'
  <2>1. SUFFICES ASSUME ~overlapped', Remembers' PROVE FoundInv'
    BY DEF FoundInv
  <2>2. failures = 0 => memory = table
    BY <1>a, <2>1 DEF TypeOK, StoreInv, InFlight, At
  <2>3. CASE tagged # {}
    BY <1>a, <2>1, <2>3 DEF TypeOK, MaybeMessage, FoundInv, Remembers, InFlight, At
  <2>4. CASE tagged = {}
    <3>1. restarts = 0 => memory = {} /\ table = {}
      BY <2>4 DEF StoreInv
    <3>2. memory = table
      BY <2>1, <2>2, <3>1 DEF Remembers
    <3>3. QED
      BY <1>a, <2>1, <2>4, <3>1, <3>2 DEF TypeOK, FoundInv, Remembers, InFlight, At
  <2>5. QED
    BY <2>3, <2>4
<1>6. AnsweredIsStored'
  <2>1. SUFFICES ASSUME ~overlapped', failures = 0 PROVE AnsweredIsStored'
    BY DEF AnsweredIsStored
  <2>2. memory = table
    BY <1>a, <2>1 DEF TypeOK, StoreInv, InFlight, At
  <2>3. QED
    BY <1>a, <2>1, <2>2 DEF TypeOK, AnsweredIsStored, At
<1>7. QED
  BY <1>1, <1>2, <1>3, <1>4, <1>5, <1>6

\* The SELECT by client id.
LEMMA FindStep == ASSUME NEW a \in Attempts, Inv, Find(a) PROVE Inv'
<1> USE MessageAssumption, BoundAssumption DEF Inv, boundVars, Find, Moves
<1>a. \A b \in Attempts : InFlight(b)' => InFlight(b)
  BY DEF TypeOK, InFlight, At
<1>1. TypeOK'
  BY DEF TypeOK, MaybeMessage, Stages, At
<1>2. StageInv'
  BY DEF TypeOK, MaybeMessage, StageInv, StoreInv, At
<1>3. StoreInv'
  BY DEF TypeOK, MaybeMessage, StageInv, StoreInv, At
<1>4. SerialInv'
  BY <1>a DEF SerialInv
<1>5. FoundInv'
  BY DEF TypeOK, MaybeMessage, StageInv, StoreInv, SerialInv, FoundInv, Remembers, InFlight, At
<1>6. AnsweredIsStored'
  BY DEF TypeOK, MaybeMessage, StageInv, StoreInv, SerialInv, AnsweredIsStored, InFlight, At
<1>7. QED
  BY <1>1, <1>2, <1>3, <1>4, <1>5, <1>6

\* The handler goes on with what the SELECT found.
LEMMA AfterFindStep == ASSUME NEW a \in Attempts, Inv, AfterFind(a) PROVE Inv'
<1> USE MessageAssumption, BoundAssumption DEF Inv, boundVars, AfterFind, Duplicate, Push, Moves
<1>a. \A b \in Attempts : InFlight(b)' => InFlight(b)
  BY DEF TypeOK, InFlight, At
<1>1. TypeOK'
  BY DEF TypeOK, MaybeMessage, Stages, At
<1>2. StageInv'
  BY DEF TypeOK, MaybeMessage, StageInv, StoreInv, At
<1>3. StoreInv'
  <2>1. endpoint = "conversation"
    BY DEF StageInv, At
  <2>2. CASE attempt[a].message \in memory
    BY <2>1, <2>2 DEF TypeOK, MaybeMessage, StageInv, StoreInv, At
  <2>3. CASE attempt[a].message \notin memory
    <3>1. /\ memory' = memory \cup {a} /\ tagged' = tagged \cup {a}
          /\ UNCHANGED <<endpoint, table, processed, failures, restarts>>
      BY <2>1, <2>3
    <3>2. At(a, "insert")' /\ \A m \in Attempts \ {a} : At(m, "insert") => At(m, "insert")'
      BY <2>3 DEF TypeOK, At
    <3>3. QED
      BY <2>1, <3>1, <3>2 DEF TypeOK, StoreInv
  <2>4. QED
    BY <2>2, <2>3
<1>4. SerialInv'
  BY <1>a DEF SerialInv
<1>5. FoundInv'
  BY DEF TypeOK, MaybeMessage, StageInv, StoreInv, SerialInv, FoundInv, Remembers, InFlight, At
<1>6. AnsweredIsStored'
  BY DEF TypeOK, MaybeMessage, StageInv, StoreInv, SerialInv, AnsweredIsStored, InFlight, At
<1>7. QED
  BY <1>1, <1>2, <1>3, <1>4, <1>5, <1>6

\* The INSERT is applied.
LEMMA InsertStep == ASSUME NEW a \in Attempts, Inv, Insert(a) PROVE Inv'
<1> USE MessageAssumption, BoundAssumption DEF Inv, boundVars, Insert, Moves
<1>a. \A b \in Attempts : InFlight(b)' => InFlight(b)
  BY DEF TypeOK, InFlight, At
<1>1. TypeOK'
  BY DEF TypeOK, MaybeMessage, Stages, At
<1>2. StageInv'
  BY DEF TypeOK, MaybeMessage, StageInv, StoreInv, At
<1>3. StoreInv'
  BY DEF TypeOK, MaybeMessage, StageInv, StoreInv, At
<1>4. SerialInv'
  BY <1>a DEF SerialInv
<1>5. FoundInv'
  BY DEF TypeOK, MaybeMessage, StageInv, StoreInv, SerialInv, FoundInv, Remembers, InFlight, At
<1>6. AnsweredIsStored'
  BY DEF TypeOK, MaybeMessage, StageInv, StoreInv, SerialInv, AnsweredIsStored, InFlight, At
<1>7. QED
  BY <1>1, <1>2, <1>3, <1>4, <1>5, <1>6

\* The handler writes the map and answers.
LEMMA AfterInsertStep == ASSUME NEW a \in Attempts, Inv, AfterInsert(a) PROVE Inv'
<1> USE MessageAssumption, BoundAssumption DEF Inv, boundVars, AfterInsert, Moves
<1>a. \A b \in Attempts : InFlight(b)' => InFlight(b)
  BY DEF TypeOK, InFlight, At
<1>1. TypeOK'
  BY DEF TypeOK, MaybeMessage, Stages, At
<1>2. StageInv'
  BY DEF TypeOK, MaybeMessage, StageInv, StoreInv, At
<1>3. StoreInv'
  BY DEF TypeOK, MaybeMessage, StageInv, StoreInv, At
<1>4. SerialInv'
  BY <1>a DEF SerialInv
<1>5. FoundInv'
  BY DEF TypeOK, MaybeMessage, StageInv, StoreInv, SerialInv, FoundInv, Remembers, InFlight, At
<1>6. AnsweredIsStored'
  BY DEF TypeOK, MaybeMessage, StageInv, StoreInv, SerialInv, AnsweredIsStored, InFlight, At
<1>7. QED
  BY <1>1, <1>2, <1>3, <1>4, <1>5, <1>6

\* The SELECT is rejected.
LEMMA FindFailsStep == ASSUME NEW a \in Attempts, Inv, FindFails(a) PROVE Inv'
<1> USE MessageAssumption, BoundAssumption DEF Inv, boundVars, FindFails, Moves
<1>a. \A b \in Attempts : InFlight(b)' => InFlight(b)
  BY DEF TypeOK, InFlight, At
<1>1. TypeOK'
  BY DEF TypeOK, MaybeMessage, Stages, At
<1>2. StageInv'
  BY DEF TypeOK, MaybeMessage, StageInv, StoreInv, At
<1>3. StoreInv'
  BY DEF TypeOK, MaybeMessage, StageInv, StoreInv, At
<1>4. SerialInv'
  BY <1>a DEF SerialInv
<1>5. FoundInv'
  BY DEF TypeOK, MaybeMessage, StageInv, StoreInv, SerialInv, FoundInv, Remembers, InFlight, At
<1>6. AnsweredIsStored'
  BY DEF TypeOK, MaybeMessage, StageInv, StoreInv, SerialInv, AnsweredIsStored, InFlight, At
<1>7. QED
  BY <1>1, <1>2, <1>3, <1>4, <1>5, <1>6

\* The INSERT is rejected.
LEMMA InsertFailsStep == ASSUME NEW a \in Attempts, Inv, InsertFails(a) PROVE Inv'
<1> USE MessageAssumption, BoundAssumption DEF Inv, boundVars, InsertFails, Moves
<1>a. \A b \in Attempts : InFlight(b)' => InFlight(b)
  BY DEF TypeOK, InFlight, At
<1>1. TypeOK'
  BY DEF TypeOK, MaybeMessage, Stages, At
<1>2. StageInv'
  BY DEF TypeOK, MaybeMessage, StageInv, StoreInv, At
<1>3. StoreInv'
  BY DEF TypeOK, MaybeMessage, StageInv, StoreInv, At
<1>4. SerialInv'
  BY <1>a DEF SerialInv
<1>5. FoundInv'
  BY DEF TypeOK, MaybeMessage, StageInv, StoreInv, SerialInv, FoundInv, Remembers, InFlight, At
<1>6. AnsweredIsStored'
  BY DEF TypeOK, MaybeMessage, StageInv, StoreInv, SerialInv, AnsweredIsStored, InFlight, At
<1>7. QED
  BY <1>1, <1>2, <1>3, <1>4, <1>5, <1>6

\* The cleanup timer.
LEMMA ForgetStep == ASSUME Inv, Forget PROVE Inv'
<1> USE MessageAssumption, BoundAssumption DEF Inv, boundVars, Forget
<1>1. TypeOK'
  BY DEF TypeOK, MaybeMessage, Stages, At
<1>2. StageInv'
  BY DEF TypeOK, MaybeMessage, StageInv, StoreInv, At
<1>3. StoreInv'
  BY DEF TypeOK, MaybeMessage, StageInv, StoreInv, At
<1>4. SerialInv'
  BY DEF TypeOK, MaybeMessage, SerialInv, InFlight
<1>5. FoundInv'
  BY DEF TypeOK, MaybeMessage, StageInv, StoreInv, SerialInv, FoundInv, Remembers, InFlight, At
<1>6. AnsweredIsStored'
  BY DEF TypeOK, MaybeMessage, StageInv, StoreInv, SerialInv, AnsweredIsStored, InFlight, At
<1>7. QED
  BY <1>1, <1>2, <1>3, <1>4, <1>5, <1>6

\* The server dies and boots.
LEMMA RestartStep == ASSUME Inv, Restart PROVE Inv'
<1> USE MessageAssumption, BoundAssumption DEF Inv, boundVars, Restart
<1>1. TypeOK'
  BY DEF TypeOK, MaybeMessage, Stages, At
<1>2. StageInv'
  BY DEF TypeOK, StageInv, StoreInv, At, InFlight
<1>3. StoreInv'
  BY DEF TypeOK, MaybeMessage, StageInv, StoreInv, At
<1>4. SerialInv'
  BY DEF TypeOK, MaybeMessage, SerialInv, InFlight
<1>5. FoundInv'
  BY DEF TypeOK, MaybeMessage, StageInv, StoreInv, SerialInv, FoundInv, Remembers, InFlight, At
<1>6. AnsweredIsStored'
  BY DEF TypeOK, MaybeMessage, StageInv, StoreInv, SerialInv, AnsweredIsStored, InFlight, At
<1>7. QED
  BY <1>1, <1>2, <1>3, <1>4, <1>5, <1>6

\* Every step keeps the invariant.
LEMMA NextInv == Inv /\ [Next]_vars => Inv'
<1> SUFFICES ASSUME Inv, [Next]_vars PROVE Inv'
  OBVIOUS
<1>1. ASSUME NEW a \in Attempts, Post(a) PROVE Inv'
  BY <1>1, PostStep
<1>2. ASSUME NEW a \in Attempts, PostToConversation(a) PROVE Inv'
  BY <1>2, PostToConversationStep
<1>3. ASSUME NEW a \in Attempts, HandlerStep(a) PROVE Inv'
  BY <1>3, FindStep, AfterFindStep, InsertStep, AfterInsertStep DEF HandlerStep
<1>4. ASSUME NEW a \in Attempts, FindFails(a) PROVE Inv'
  BY <1>4, FindFailsStep
<1>5. ASSUME NEW a \in Attempts, InsertFails(a) PROVE Inv'
  BY <1>5, InsertFailsStep
<1>6. CASE Forget
  BY <1>6, ForgetStep
<1>7. CASE Restart
  BY <1>7, RestartStep
<1>8. CASE UNCHANGED vars
  BY <1>8 DEF vars, boundVars, Inv, TypeOK, StageInv, StoreInv, SerialInv, FoundInv,
              AnsweredIsStored, Remembers, At, InFlight
<1>9. QED
  BY <1>1, <1>2, <1>3, <1>4, <1>5, <1>6, <1>7, <1>8 DEF Next

LEMMA InvHolds == Spec => []Inv
<1>1. QED
  BY InitInv, NextInv, PTL DEF Spec

\* Every reachable state is well typed.
THEOREM TypeCorrect == Spec => []TypeOK
<1>1. Inv => TypeOK
  BY DEF Inv
<1>2. QED
  BY <1>1, InvHolds, PTL

\* Retries that do not overlap create one message, on either endpoint, through
\* restarts (conversations endpoint) and rejected statements (both).
THEOREM NoSerialDuplicates == Spec => []SerialRetriesSafe
<1>1. ASSUME Inv, ~overlapped, Remembers PROVE Cardinality(memory) <= 1
  <2>1. \A m, n \in memory : m = n
    BY <1>1 DEF Inv, FoundInv
  <2>2. CASE memory = {}
    BY <2>2, FS_EmptySet
  <2>3. CASE memory # {}
    <3>1. PICK m \in memory : TRUE
      BY <2>3
    <3>2. memory = {m}
      BY <2>1, <3>1
    <3>3. QED
      BY <3>2, FS_Singleton
  <2>4. QED
    BY <2>2, <2>3
<1>2. Inv => SerialRetriesSafe
  BY <1>1 DEF SerialRetriesSafe
<1>3. QED
  BY <1>2, InvHolds, PTL

\* As long as no statement is rejected, whatever POST /messages answers, and
\* whatever the conversations endpoint answers to attempts that do not overlap,
\* is a message of the table.
THEOREM AnswersAreDurable == Spec => []AnsweredIsStored
<1>1. Inv => AnsweredIsStored
  BY DEF Inv
<1>2. QED
  BY <1>1, InvHolds, PTL

-----------------------------------------------------------------------------
(* MessageStore: messages and statements *)

\* The values the handlers start from are messages.
LEMMA MessageTypes ==
    /\ Absent \in Message /\ ~Absent.exists /\ ~Absent.deleted /\ ~Absent.pinned
    /\ \A u \in Users : Absent.reactions[u] = 0
    /\ \A c \in Contents : /\ Posted(c) \in Message /\ Posted(c).exists
                           /\ ~Posted(c).deleted /\ ~Posted(c).pinned
                           /\ Posted(c).content = c /\ Posted(c).reactions = Absent.reactions
    /\ Idle \in Handlers /\ Idle.op = "idle"
    /\ Idle.pc = "idle" /\ Idle.message = Nothing
<1>1. /\ Absent \in Message /\ ~Absent.exists
      /\ ~Absent.deleted /\ ~Absent.pinned
      /\ \A u \in Users : Absent.reactions[u] = 0
  BY DEF Absent, Message
<1>2. ASSUME NEW c \in Contents
      PROVE  /\ Posted(c) \in Message /\ Posted(c).exists
             /\ ~Posted(c).deleted /\ ~Posted(c).pinned
             /\ Posted(c).content = c /\ Posted(c).reactions = Absent.reactions
  BY DEF Posted, Absent, Message
<1>3. /\ Idle \in Handlers /\ Idle.op = "idle"
      /\ Idle.pc = "idle" /\ Idle.message = Nothing
  BY <1>1 DEF Idle, Handlers, Ops
<1>4. QED
  BY <1>1, <1>2, <1>3

\* Two messages whose other fields agree are the same but for the pin.
LEMMA SameMessages ==
  ASSUME NEW r \in Message, NEW q \in Message, Same(r, q)
  PROVE  [r EXCEPT !.pinned = q.pinned] = q
BY DEF Same, Message

\* What a statement does to a row, field by field.
LEMMA AppliedFields ==
  ASSUME NEW h \in Handlers, h.op # "idle", h.op \in {"react", "unreact"} => h.user \in Users,
         NEW r \in Message
  PROVE  /\ Applied(h, r) \in Message
         /\ h.op = "post" => Applied(h, r) = h.val
         /\ h.op # "post" /\ ~r.exists => Applied(h, r) = r
         /\ h.op # "post" /\ r.exists =>
              /\ Applied(h, r).exists
              /\ Applied(h, r).content =
                   IF h.op = "edit" THEN h.val.content ELSE IF h.op = "delete" THEN Tombstone ELSE r.content
              /\ Applied(h, r).deleted =
                   IF h.op = "edit" THEN h.val.deleted ELSE h.op = "delete" \/ r.deleted
              /\ h.op \in {"edit", "delete"} => Applied(h, r).reactions = r.reactions
<1>1. h.val \in Message /\ h.op \in {"post", "edit", "delete", "react", "unreact"}
  BY DEF Handlers, Ops
<1>2. CASE h.op = "post"
  <2>1. Applied(h, r) = h.val
    BY <1>2 DEF Applied
  <2>2. QED
    BY <1>1, <1>2, <2>1
<1>3. CASE h.op # "post" /\ ~r.exists
  <2>1. Applied(h, r) = r
    BY <1>3 DEF Applied
  <2>2. QED
    BY <1>3, <2>1
<1>4. CASE h.op = "edit" /\ r.exists
  BY <1>1, <1>4 DEF Applied, Message
<1>5. CASE h.op = "delete" /\ r.exists
  BY <1>5 DEF Applied, Message
<1>6. CASE h.op = "react" /\ r.exists
  BY <1>6 DEF Applied, Message
<1>7. CASE h.op = "unreact" /\ r.exists
  BY <1>7 DEF Applied, Message
<1>8. QED
  BY <1>1, <1>2, <1>3, <1>4, <1>5, <1>6, <1>7 DEF Ops

\* The statement of a reaction changes the count of its user only.
LEMMA AppliedReaction ==
  ASSUME NEW h \in Handlers, h.op \in {"react", "unreact"}, h.user \in Users,
         NEW r \in Message, r.exists
  PROVE  /\ Applied(h, r).exists /\ Applied(h, r).content = r.content
         /\ Applied(h, r).deleted = r.deleted
         /\ h.op = "react" => Applied(h, r).reactions = [r.reactions EXCEPT ![h.user] = @ + 1]
         /\ h.op = "unreact" => Applied(h, r).reactions = [r.reactions EXCEPT ![h.user] = 0]
<1>1. CASE h.op = "react"
  BY <1>1 DEF Applied, Message
<1>2. CASE h.op = "unreact"
  BY <1>2 DEF Applied, Message
<1>3. QED
  BY <1>1, <1>2

-----------------------------------------------------------------------------
(* MessageStore: the steps *)

\* The initial states satisfy the invariant.
LEMMA ChannelInit == StoreInit => ChannelInv
<1> SUFFICES ASSUME StoreInit PROVE ChannelInv
  OBVIOUS
<1>1. \A m \in Messages : objects[m] = Absent /\ row[m] = Absent
  BY DEF StoreInit
<1>2. \A s \in Slots : handler[s] = Idle
  BY DEF StoreInit
<1>3. StoreTypeOK
  BY <1>2, MessageTypes, NullAssumption DEF StoreInit, StoreTypeOK, Busy
<1>4. HandlerInv
  BY <1>2, MessageTypes DEF HandlerInv, Busy
<1>5. SoundInv
  BY <1>1, MessageTypes DEF SoundInv, Sound
<1>6. SerialRows
  BY <1>1, <1>2, MessageTypes, NullAssumption DEF SerialRows, Same
<1>7. OneReaction /\ PinsAgree
  BY <1>1, MessageTypes DEF StoreInit, OneReaction, PinsAgree
<1>8. QED
  BY <1>3, <1>4, <1>5, <1>6, <1>7 DEF ChannelInv

\* What a request asks of the message m as it is and as it becomes, c.
Lawful(op, m, u, c) ==
    /\ op \in Ops \ {"idle"} /\ u \in Users \cup {NoUser} /\ c \in Message
    /\ op \in {"react", "unreact"} => u \in Users
    /\ c.exists /\ Sound(c) /\ c.pinned = objects[m].pinned
    /\ op \in {"post", "edit"} => ~c.deleted /\ c.content \in Contents
    /\ c.deleted => op = "delete" \/ objects[m].deleted
    /\ (\A v \in Users : objects[m].reactions[v] <= 1) => \A v \in Users : c.reactions[v] <= 1
    /\ \A r \in Message : Same(objects[m], r) /\ (\A v \in Users : objects[m].reactions[v] <= 1)
         => Same(c, Applied([op |-> op, pc |-> "write", message |-> m, user |-> u, val |-> c], r))

\* A request that changes a message and issues a statement.
LEMMA ChangeStep ==
  ASSUME NEW s \in Slots, NEW op, NEW m \in Messages, NEW u, NEW c, ChannelInv, Lawful(op,
         m, u, c), Change(s, op, m, u, c)
  PROVE  ChannelInv'
<1> DEFINE h == [op |-> op, pc |-> "write", message |-> m, user |-> u, val |-> c]
<1>1. /\ h \in Handlers /\ h.op = op /\ h.pc = "write" /\ h.message = m /\ h.user = u /\ h.val = c
      /\ op # "idle" /\ op \in Ops
  BY DEF Lawful, Handlers
<1>2. handler' = [handler EXCEPT ![s] = h]
  BY DEF Change
<1>3. \A r \in Message : Same(objects[m], r) /\ (\A v \in Users : objects[m].reactions[v] <= 1)
         => Same(c, Applied(h, r))
  BY DEF Lawful
<1> HIDE DEF h
<1>4. /\ handler[s].op = "idle" /\ handler[s].pc = "idle" /\ handler[s].message = Nothing
  BY DEF ChannelInv, HandlerInv, StoreTypeOK, Change, Busy, Handlers
<1>5. /\ handler'[s] = h /\ \A t \in Slots \ {s} : handler'[t] = handler[t]
      /\ objects'[m] = c /\ \A n \in Messages \ {m} : objects'[n] = objects[n]
      /\ row' = row /\ pins' = pins /\ rejections' = rejections /\ boots' = boots
      /\ raced' = IF Writing(m) THEN raced \cup {m} ELSE raced
  BY <1>2 DEF ChannelInv, StoreTypeOK, Change, Request
<1>6. c \in Message /\ c.exists /\ Sound(c) /\ c.pinned = objects[m].pinned
  BY DEF Lawful
<1>7. StoreTypeOK'
  BY <1>1, <1>2, <1>6, NullAssumption DEF ChannelInv, StoreTypeOK, Change, Request, Busy
<1>8. HandlerInv'
  BY <1>1, <1>5, <1>6 DEF Lawful, ChannelInv, HandlerInv, Busy
<1>9. SoundInv'
  BY <1>5, <1>6 DEF ChannelInv, SoundInv
<1>10. SerialRows'
  <2>1. SUFFICES ASSUME NEW n \in Messages, n \notin raced', rejections' = 0
                 PROVE  /\ ~Writing(n)' => Same(objects'[n], row'[n])
                        /\ \A t \in Slots : handler'[t].pc = "write" /\ handler'[t].message = n =>
                              /\ Same(objects'[n], Applied(handler'[t], row'[n]))
                              /\ \A w \in Slots : handler'[w].pc = "write" /\ handler'[w].message = n => w = t
                        /\ \A v \in Users : row'[n].reactions[v] <= 1
    BY DEF SerialRows, Serial
  <2>2. n \notin raced /\ rejections = 0
    BY <1>5, <2>1
  <2>3. CASE n = m
    <3>1. ~Writing(m)
      BY <1>5, <2>1, <2>3
    <3>2. Same(objects[m], row[m]) /\ \A v \in Users : row[m].reactions[v] <= 1
      BY <2>2, <2>3, <3>1 DEF ChannelInv, SerialRows, Serial
    <3>3. \A v \in Users : objects[m].reactions[v] <= 1
      BY <2>2, <2>3 DEF ChannelInv, OneReaction
    <3>4. Same(c, Applied(h, row[m]))
      BY <1>3, <3>2, <3>3 DEF ChannelInv, StoreTypeOK
    <3>5. \A t \in Slots : handler'[t].pc = "write" /\ handler'[t].message = m => t = s
      BY <1>5, <3>1 DEF Writing
    <3>6. handler'[s].pc = "write" /\ handler'[s].message = m
      BY <1>1, <1>5
    <3>7. QED
      BY <1>5, <2>3, <3>2, <3>4, <3>5, <3>6 DEF Writing
  <2>4. CASE n # m
    <3>1. objects'[n] = objects[n] /\ row'[n] = row[n]
      BY <1>5, <2>4
    <3>2. \A t \in Slots : handler'[t].pc = "write" /\ handler'[t].message = n
                             => handler'[t] = handler[t] /\ handler[t].pc = "write" /\ handler[t].message = n
      BY <1>1, <1>5, <2>4
    <3>3. Writing(n) => Writing(n)'
      BY <1>4, <1>5 DEF Writing
    <3>4. QED
      BY <2>2, <3>1, <3>2, <3>3 DEF ChannelInv, SerialRows, Serial
  <2>5. QED
    BY <2>3, <2>4
<1>11. OneReaction'
  <2>1. SUFFICES ASSUME NEW n \in Messages, NEW v \in Users,
                        boots' = 0 \/ (n \notin raced' /\ rejections' = 0)
                 PROVE  objects'[n].reactions[v] <= 1
    BY DEF OneReaction
  <2>2. \A w \in Users : objects[n].reactions[w] <= 1
    BY <1>5, <2>1 DEF ChannelInv, OneReaction
  <2>3. QED
    BY <1>5, <2>2 DEF Lawful
<1>12. PinsAgree'
  <2>1. SUFFICES ASSUME boots = 0, NEW n \in Messages
                 PROVE  /\ n \in pins <=> objects'[n].pinned
                        /\ n \in pins /\ objects'[n].deleted
                             => \E t \in Slots : handler'[t].op = "delete" /\ handler'[t].message = n
    BY <1>5 DEF PinsAgree
  <2>2. objects'[n].pinned = objects[n].pinned
    BY <1>5, <1>6
  <2>3. ASSUME n \in pins, objects'[n].deleted
        PROVE  \E t \in Slots : handler'[t].op = "delete" /\ handler'[t].message = n
    <3>1. CASE objects[n].deleted
      <4>1. PICK t \in Slots : handler[t].op = "delete" /\ handler[t].message = n
        BY <2>1, <2>3, <3>1 DEF ChannelInv, PinsAgree
      <4>2. QED
        BY <1>4, <1>5, <4>1
    <3>2. CASE ~objects[n].deleted
      <4>1. n = m /\ op = "delete"
        BY <1>5, <2>3, <3>2 DEF Lawful
      <4>2. QED
        BY <1>1, <1>5, <4>1
    <3>3. QED
      BY <3>1, <3>2
  <2>4. QED
    BY <2>1, <2>2, <2>3 DEF ChannelInv, PinsAgree
<1>13. QED
  BY <1>7, <1>8, <1>9, <1>10, <1>11, <1>12 DEF ChannelInv

\* POST /.
LEMMA StorePost ==
  ASSUME NEW s \in Slots, NEW m \in Messages, NEW c \in Contents, ChannelInv,
         PostMessage(s, m, c)
  PROVE  ChannelInv'
<1> DEFINE d == Posted(c)
           h == [op |-> "post", pc |-> "write", message |-> m, user |-> NoUser, val |-> d]
<1>1. /\ d \in Message /\ d.exists /\ ~d.deleted /\ ~d.pinned /\ d.content = c
      /\ \A v \in Users : d.reactions[v] = 0
  BY MessageTypes
<1>2. Change(s, "post", m, NoUser, d)
  BY DEF PostMessage
<1>3. h \in Handlers /\ h.op = "post" /\ h.val = d
  <2> HIDE DEF d
  <2> QED
    BY <1>1 DEF Handlers, Ops
<1> HIDE DEF d
<1>4. objects[m] = Absent /\ ~objects[m].exists
  BY DEF PostMessage, ChannelInv, SoundInv, Sound
<1>5. ~objects[m].pinned
  BY <1>4, MessageTypes
<1>6. \A r \in Message : Same(d, Applied(h, r))
  <2> SUFFICES ASSUME NEW r \in Message PROVE Same(d, Applied(h, r))
    OBVIOUS
  <2> HIDE DEF h
  <2>1. Applied(h, r) = d
    BY <1>3 DEF Applied
  <2>2. QED
    BY <2>1 DEF Same
<1>7. Sound(d)
  BY <1>1, ContentAssumption DEF Sound
<1>8. objects[m] \in Message
  BY DEF ChannelInv, StoreTypeOK
<1>9. Lawful("post", m, NoUser, d)
  BY <1>1, <1>5, <1>6, <1>7, <1>8 DEF Lawful, Ops, Message
<1>10. QED
  BY <1>2, <1>9, ChangeStep

\* PUT /:id.
LEMMA StoreEdit ==
  ASSUME NEW s \in Slots, NEW m \in Messages, NEW c \in Contents, ChannelInv,
         Edit(s, m, c)
  PROVE  ChannelInv'
<1> DEFINE d == [objects[m] EXCEPT !.content = c]
           h == [op |-> "edit", pc |-> "write", message |-> m, user |-> NoUser, val |-> d]
<1>1. objects[m] \in Message /\ objects[m].exists /\ ~objects[m].deleted /\ Sound(objects[m])
  BY DEF ChannelInv, StoreTypeOK, SoundInv, Edit, Visible
<1>2. /\ d \in Message /\ d.exists /\ ~d.deleted /\ d.content = c /\ d.pinned = objects[m].pinned
      /\ d.reactions = objects[m].reactions
  BY <1>1 DEF Message
<1>3. Change(s, "edit", m, NoUser, d)
  BY DEF Edit
<1>4. h \in Handlers /\ h.op = "edit" /\ h.val = d
  <2> HIDE DEF d
  <2> QED
    BY <1>2 DEF Handlers, Ops
<1> HIDE DEF d
<1>5. \A r \in Message : Same(objects[m], r) => Same(d, Applied(h, r))
  <2> SUFFICES ASSUME NEW r \in Message, Same(objects[m], r)
               PROVE  Same(d, Applied(h, r))
    OBVIOUS
  <2> HIDE DEF h
  <2>1. r.exists /\ r.reactions = d.reactions
    BY <1>1, <1>2 DEF Same
  <2>2. /\ Applied(h, r).exists /\ Applied(h, r).content = h.val.content
        /\ Applied(h, r).deleted = h.val.deleted /\ Applied(h, r).reactions = r.reactions
    BY <1>4, <2>1, AppliedFields
  <2>3. QED
    BY <1>2, <1>4, <2>1, <2>2 DEF Same
<1>6. Sound(d)
  BY <1>2, ContentAssumption DEF Sound
<1>7. Lawful("edit", m, NoUser, d)
  BY <1>2, <1>5, <1>6 DEF Lawful, Ops
<1>8. QED
  BY <1>3, <1>7, ChangeStep

\* DELETE /:id.
LEMMA StoreDelete ==
  ASSUME NEW s \in Slots, NEW m \in Messages, ChannelInv, Delete(s, m)
  PROVE  ChannelInv'
<1> DEFINE d == [objects[m] EXCEPT !.deleted = TRUE, !.content = Tombstone]
           h == [op |-> "delete", pc |-> "write", message |-> m, user |-> NoUser, val |-> d]
<1>1. objects[m] \in Message /\ objects[m].exists
  BY DEF ChannelInv, StoreTypeOK, Delete
<1>2. /\ d \in Message /\ d.exists /\ d.deleted /\ d.content = Tombstone /\ d.pinned = objects[m].pinned
      /\ d.reactions = objects[m].reactions
  BY <1>1 DEF Message
<1>3. Change(s, "delete", m, NoUser, d)
  BY DEF Delete
<1>4. h \in Handlers /\ h.op = "delete" /\ h.val = d
  <2> HIDE DEF d
  <2> QED
    BY <1>2 DEF Handlers, Ops
<1> HIDE DEF d
<1>5. \A r \in Message : Same(objects[m], r) => Same(d, Applied(h, r))
  <2> SUFFICES ASSUME NEW r \in Message, Same(objects[m], r)
               PROVE  Same(d, Applied(h, r))
    OBVIOUS
  <2> HIDE DEF h
  <2>1. r.exists /\ r.reactions = d.reactions
    BY <1>1, <1>2 DEF Same
  <2>2. /\ Applied(h, r).exists /\ Applied(h, r).content = Tombstone
        /\ Applied(h, r).deleted = TRUE /\ Applied(h, r).reactions = r.reactions
    BY <1>4, <2>1, AppliedFields
  <2>3. QED
    BY <1>2, <1>4, <2>1, <2>2 DEF Same
<1>6. Sound(d)
  BY <1>2 DEF Sound
<1>7. Lawful("delete", m, NoUser, d)
  BY <1>2, <1>5, <1>6 DEF Lawful, Ops
<1>8. QED
  BY <1>3, <1>7, ChangeStep

\* A reaction of a user is added to a message on which the user has none.
LEMMA StoreAddReaction ==
  ASSUME NEW s \in Slots, NEW m \in Messages, NEW u \in Users, ChannelInv,
         Visible(m), objects[m].reactions[u] = 0,
         Change(s, "react", m, u, [objects[m] EXCEPT !.reactions[u] = 1])
  PROVE  ChannelInv'
<1> DEFINE d == [objects[m] EXCEPT !.reactions[u] = 1]
           h == [op |-> "react", pc |-> "write", message |-> m, user |-> u, val |-> d]
<1>1. /\ objects[m] \in Message /\ objects[m].exists /\ Sound(objects[m])
      /\ objects[m].reactions \in [Users -> Nat]
  BY DEF ChannelInv, StoreTypeOK, SoundInv, Visible, Message
<1>2. /\ d \in Message /\ d.exists /\ d.deleted = objects[m].deleted /\ d.content = objects[m].content
      /\ d.pinned = objects[m].pinned /\ d.reactions = [objects[m].reactions EXCEPT ![u] = 1]
  BY <1>1 DEF Message
<1>3. h \in Handlers /\ h.op = "react" /\ h.val = d /\ h.user = u
  <2> HIDE DEF d
  <2> QED
    BY <1>2 DEF Handlers, Ops
<1>4. Change(s, "react", m, u, d)
  OBVIOUS
<1> HIDE DEF d
<1>5. \A r \in Message : Same(objects[m], r) => Same(d, Applied(h, r))
  <2> SUFFICES ASSUME NEW r \in Message, Same(objects[m], r)
               PROVE  Same(d, Applied(h, r))
    OBVIOUS
  <2> HIDE DEF h
  <2>1. /\ r.exists /\ r.reactions = objects[m].reactions
        /\ r.content = d.content /\ r.deleted = d.deleted
    BY <1>1, <1>2 DEF Same
  <2>2. [r.reactions EXCEPT ![h.user] = @ + 1] = d.reactions
    BY <1>1, <1>2, <1>3, <2>1
  <2>3. /\ Applied(h, r).exists /\ Applied(h, r).content = r.content
        /\ Applied(h, r).deleted = r.deleted
        /\ Applied(h, r).reactions = [r.reactions EXCEPT ![h.user] = @ + 1]
    BY <1>3, <2>1, AppliedReaction
  <2>4. QED
    BY <1>2, <2>1, <2>2, <2>3 DEF Same
<1>6. Sound(d)
  BY <1>1, <1>2 DEF Sound
<1>7. \A v \in Users : d.reactions[v] <= objects[m].reactions[v] \/ d.reactions[v] = 1
  BY <1>1, <1>2
<1>8. Lawful("react", m, u, d)
  BY <1>1, <1>2, <1>5, <1>6, <1>7 DEF Lawful, Ops
<1>9. QED
  BY <1>4, <1>8, ChangeStep

\* One of the reactions of a user is taken from a message.
LEMMA StoreRemoveReaction ==
  ASSUME NEW s \in Slots, NEW m \in Messages, NEW u \in Users, ChannelInv,
         Visible(m), objects[m].reactions[u] > 0,
         Change(s, "unreact", m, u, [objects[m] EXCEPT !.reactions[u] = @ - 1])
  PROVE  ChannelInv'
<1> DEFINE d == [objects[m] EXCEPT !.reactions[u] = @ - 1]
           h == [op |-> "unreact", pc |-> "write", message |-> m, user |-> u, val |-> d]
<1>1. /\ objects[m] \in Message /\ objects[m].exists /\ Sound(objects[m])
      /\ objects[m].reactions \in [Users -> Nat]
  BY DEF ChannelInv, StoreTypeOK, SoundInv, Visible, Message
<1>2. /\ d \in Message /\ d.exists /\ d.deleted = objects[m].deleted /\ d.content = objects[m].content
      /\ d.pinned = objects[m].pinned /\ d.reactions = [objects[m].reactions EXCEPT ![u] = @ - 1]
  BY <1>1 DEF Message
<1>3. h \in Handlers /\ h.op = "unreact" /\ h.val = d /\ h.user = u
  <2> HIDE DEF d
  <2> QED
    BY <1>2 DEF Handlers, Ops
<1>4. Change(s, "unreact", m, u, d)
  OBVIOUS
<1> HIDE DEF d
<1>5. ASSUME NEW r \in Message, Same(objects[m], r), \A v \in Users : objects[m].reactions[v] <= 1
      PROVE  Same(d, Applied(h, r))
  <2> HIDE DEF h
  <2>1. /\ r.exists /\ r.reactions = objects[m].reactions
        /\ r.content = d.content /\ r.deleted = d.deleted
    BY <1>1, <1>2, <1>5 DEF Same
  <2>2. objects[m].reactions[u] = 1
    BY <1>1, <1>5
  <2>3. [r.reactions EXCEPT ![h.user] = 0] = d.reactions
    BY <1>1, <1>2, <1>3, <2>1, <2>2
  <2>4. /\ Applied(h, r).exists /\ Applied(h, r).content = r.content
        /\ Applied(h, r).deleted = r.deleted
        /\ Applied(h, r).reactions = [r.reactions EXCEPT ![h.user] = 0]
    BY <1>3, <2>1, AppliedReaction
  <2>5. QED
    BY <1>2, <2>1, <2>3, <2>4 DEF Same
<1>6. Sound(d)
  BY <1>1, <1>2 DEF Sound
<1>7. \A v \in Users : /\ d.reactions[v] <= objects[m].reactions[v]
                       /\ objects[m].reactions[v] \in Nat /\ d.reactions[v] \in Nat
  BY <1>1, <1>2 DEF Message
<1>8. (\A v \in Users : objects[m].reactions[v] <= 1) => \A v \in Users : d.reactions[v] <= 1
  BY <1>7
<1>9. Lawful("unreact", m, u, d)
  BY <1>2, <1>5, <1>6, <1>8 DEF Lawful, Ops
<1>10. QED
  BY <1>4, <1>9, ChangeStep

\* The two endpoints for reactions.
LEMMA StoreReaction ==
  ASSUME NEW s \in Slots, NEW m \in Messages, NEW u \in Users, ChannelInv, React(s,
         m, u) \/ Unreact(s, m, u)
  PROVE  ChannelInv'
<1>1. objects[m].reactions[u] \in Nat
  BY DEF ChannelInv, StoreTypeOK, Message
<1>2. CASE React(s, m, u) /\ objects[m].reactions[u] > 0
  BY <1>2, StoreRemoveReaction DEF React
<1>3. CASE React(s, m, u) /\ ~(objects[m].reactions[u] > 0)
  BY <1>1, <1>3, StoreAddReaction DEF React
<1>4. CASE Unreact(s, m, u)
  BY <1>4, StoreRemoveReaction DEF Unreact
<1>5. QED
  BY <1>2, <1>3, <1>4

\* A statement makes a sound row sound again.
LEMMA AppliedSound ==
  ASSUME NEW s \in Slots, ChannelInv, handler[s].pc = "write"
  PROVE  /\ handler[s].message \in Messages /\ handler[s] \in Handlers
         /\ Applied(handler[s], row[handler[s].message]) \in Message
         /\ Sound(Applied(handler[s], row[handler[s].message]))
<1> DEFINE h == handler[s]
           r == row[handler[s].message]
<1>1. h \in Handlers /\ h.op # "idle" /\ h.op \in Ops /\ h.message \in Messages
  BY DEF ChannelInv, StoreTypeOK, HandlerInv, Busy, Handlers
<1>2. /\ h.op \in {"react", "unreact"} => h.user \in Users
      /\ h.op \in {"post", "edit"} => h.val.exists /\ ~h.val.deleted /\ h.val.content \in Contents
  BY DEF ChannelInv, HandlerInv
<1>3. r \in Message /\ Sound(r)
  BY <1>1 DEF ChannelInv, StoreTypeOK, SoundInv
<1> HIDE DEF h, r
<1>4. Applied(h, r) \in Message
  BY <1>1, <1>2, <1>3, AppliedFields
<1>5. CASE h.op = "post"
  <2>1. Applied(h, r) = h.val
    BY <1>5 DEF Applied
  <2>2. Sound(h.val)
    BY <1>2, <1>5, ContentAssumption DEF Sound
  <2>3. QED
    BY <1>1, <1>4, <2>1, <2>2 DEF h, r
<1>6. CASE h.op # "post" /\ ~r.exists
  <2>1. Applied(h, r) = r
    BY <1>6 DEF Applied
  <2>2. QED
    BY <1>1, <1>3, <2>1 DEF h, r
<1>7. CASE h.op \in {"edit", "delete"} /\ r.exists
  <2>1. /\ Applied(h, r).exists
        /\ h.op = "edit" => /\ Applied(h, r).content = h.val.content
                            /\ Applied(h, r).deleted = h.val.deleted
        /\ h.op = "delete" => Applied(h, r).content = Tombstone /\ Applied(h, r).deleted = TRUE
    BY <1>1, <1>2, <1>3, <1>7, AppliedFields
  <2>2. Sound(Applied(h, r))
    BY <1>2, <1>7, <2>1, ContentAssumption DEF Sound
  <2>3. QED
    BY <1>1, <1>4, <2>2 DEF h, r
<1>8. CASE h.op \in {"react", "unreact"} /\ r.exists
  <2>1. /\ Applied(h, r).exists /\ Applied(h, r).content = r.content
        /\ Applied(h, r).deleted = r.deleted
    BY <1>1, <1>2, <1>3, <1>8, AppliedReaction
  <2>2. Sound(Applied(h, r))
    BY <1>3, <1>8, <2>1 DEF Sound
  <2>3. QED
    BY <1>1, <1>4, <2>2 DEF h, r
<1>9. QED
  BY <1>1, <1>5, <1>6, <1>7, <1>8 DEF Ops

\* The statement of a handler is applied.
LEMMA StoreWrite == ASSUME NEW s \in Slots, ChannelInv, Write(s) PROVE ChannelInv'
<1> DEFINE m == handler[s].message
           q == Applied(handler[s], row[m])
<1>1. /\ m \in Messages /\ handler[s] \in Handlers /\ q \in Message
      /\ Sound(q) /\ handler[s].pc = "write"
  BY AppliedSound DEF Write
<1>2. /\ row' = [row EXCEPT ![m] = q] /\ objects' = objects /\ pins' = pins /\ raced' = raced
      /\ rejections' = rejections /\ boots' = boots /\ requests' = requests
      /\ handler' = [handler EXCEPT ![s].pc = "ack"]
  BY DEF Write, storeBounds
<1>3. (~(m \in raced) /\ rejections = 0)
        => /\ Same(objects[m], q)
           /\ \A t \in Slots : handler[t].pc = "write" /\ handler[t].message = m => t = s
  BY <1>1 DEF ChannelInv, SerialRows, Serial
<1> HIDE DEF m, q
<1>4. row'[m] = q /\ \A n \in Messages \ {m} : row'[n] = row[n]
  BY <1>1, <1>2 DEF ChannelInv, StoreTypeOK
<1>5. \A t \in Slots : /\ handler'[t] \in Handlers /\ handler'[t].op = handler[t].op
                       /\ handler'[t].message = handler[t].message /\ handler'[t].user = handler[t].user
                       /\ handler'[t].val = handler[t].val
                       /\ t # s => handler'[t] = handler[t]
  BY <1>2 DEF ChannelInv, StoreTypeOK, Handlers
<1>6. handler'[s].pc = "ack" /\ handler'[s].message = m
  BY <1>2, <1>5 DEF ChannelInv, StoreTypeOK, Handlers, m
<1>7. StoreTypeOK'
  <2>1. handler' \in [Slots -> Handlers]
    BY <1>2, <1>5 DEF ChannelInv, StoreTypeOK
  <2>2. row' \in [Messages -> Message]
    BY <1>1, <1>2 DEF ChannelInv, StoreTypeOK
  <2>3. QED
    BY <1>2, <1>5, <2>1, <2>2 DEF ChannelInv, StoreTypeOK, Busy
<1>8. HandlerInv'
  <2>1. handler[s].op # "idle"
    BY <1>1 DEF ChannelInv, HandlerInv, Busy
  <2>2. QED
    BY <1>5, <1>6, <2>1 DEF ChannelInv, HandlerInv, Busy
<1>9. SoundInv'
  BY <1>1, <1>2, <1>4 DEF ChannelInv, SoundInv
<1>10. SerialRows'
  <2>1. SUFFICES ASSUME NEW n \in Messages, n \notin raced, rejections = 0
                 PROVE  /\ ~Writing(n)' => Same(objects[n], row'[n])
                        /\ \A t \in Slots : handler'[t].pc = "write" /\ handler'[t].message = n =>
                              /\ Same(objects[n], Applied(handler'[t], row'[n]))
                              /\ \A w \in Slots : handler'[w].pc = "write" /\ handler'[w].message = n => w = t
                        /\ \A v \in Users : row'[n].reactions[v] <= 1
    BY <1>2 DEF SerialRows, Serial
  <2>2. CASE n = m
    <3>1. /\ Same(objects[m], q)
          /\ \A t \in Slots : handler[t].pc = "write" /\ handler[t].message = m => t = s
      BY <1>3, <2>1, <2>2
    <3>2. \A t \in Slots : ~(handler'[t].pc = "write" /\ handler'[t].message = m)
      BY <1>5, <1>6, <3>1
    <3>3. \A v \in Users : objects[m].reactions[v] <= 1
      BY <1>1, <2>1, <2>2 DEF ChannelInv, OneReaction
    <3>4. \A v \in Users : q.reactions[v] <= 1
      BY <3>1, <3>3 DEF Same
    <3>5. QED
      BY <1>4, <2>2, <3>1, <3>2, <3>4
  <2>3. CASE n # m
    <3>1. row'[n] = row[n]
      BY <1>4, <2>3
    <3>2. \A t \in Slots : handler'[t].message = n => handler'[t] = handler[t]
      BY <1>5, <1>6, <2>3
    <3>3. Writing(n) => Writing(n)'
      BY <1>5, <2>3 DEF Writing, m
    <3>4. QED
      BY <2>1, <3>1, <3>2, <3>3 DEF ChannelInv, SerialRows, Serial
  <2>4. QED
    BY <2>2, <2>3
<1>11. OneReaction' /\ PinsAgree'
  BY <1>2, <1>5 DEF ChannelInv, OneReaction, PinsAgree
<1>12. QED
  BY <1>7, <1>8, <1>9, <1>10, <1>11 DEF ChannelInv

\* The statement of a handler is rejected: nothing is serial any more.
LEMMA StoreWriteFails == ASSUME NEW s \in Slots, ChannelInv, WriteFails(s) PROVE ChannelInv'
<1>1. /\ row' = row /\ objects' = objects /\ pins' = pins /\ raced' = raced
      /\ rejections' = rejections + 1 /\ rejections \in Nat /\ boots' = boots /\ requests' = requests
      /\ handler' = [handler EXCEPT ![s].pc = "ack"] /\ handler[s].pc = "write"
  BY DEF WriteFails, ChannelInv, StoreTypeOK
<1>2. rejections' # 0 /\ rejections' \in Nat
  BY <1>1
<1>3. \A t \in Slots : /\ handler'[t] \in Handlers /\ handler'[t].op = handler[t].op
                       /\ handler'[t].message = handler[t].message /\ handler'[t].user = handler[t].user
                       /\ handler'[t].val = handler[t].val
                       /\ handler'[t].pc = IF t = s THEN "ack" ELSE handler[t].pc
  BY <1>1 DEF ChannelInv, StoreTypeOK, Handlers
<1>4. StoreTypeOK'
  <2>1. handler' \in [Slots -> Handlers]
    BY <1>1, <1>3 DEF ChannelInv, StoreTypeOK
  <2>2. QED
    BY <1>1, <1>2, <1>3, <2>1 DEF ChannelInv, StoreTypeOK, Busy
<1>5. HandlerInv'
  BY <1>1, <1>3 DEF ChannelInv, HandlerInv, Busy
<1>6. SoundInv' /\ SerialRows' /\ OneReaction'
  BY <1>1, <1>2 DEF ChannelInv, SoundInv, SerialRows, Serial, OneReaction
<1>7. PinsAgree'
  BY <1>1, <1>3 DEF ChannelInv, PinsAgree
<1>8. QED
  BY <1>4, <1>5, <1>6, <1>7 DEF ChannelInv

\* The handler resumes; DELETE unpins its message.
LEMMA StoreFinish == ASSUME NEW s \in Slots, ChannelInv, Finish(s) PROVE ChannelInv'
<1> DEFINE m == handler[s].message
<1>1. m \in Messages /\ handler[s] \in Handlers /\ handler[s].pc = "ack"
  BY DEF Finish, ChannelInv, StoreTypeOK, HandlerInv, Busy, Handlers
<1>2. /\ handler' = [handler EXCEPT ![s] = Idle] /\ row' = row /\ raced' = raced
      /\ rejections' = rejections /\ boots' = boots /\ requests' = requests
  BY DEF Finish, storeBounds
<1>3. \/ /\ handler[s].op = "delete" /\ objects[m].pinned
         /\ objects' = [objects EXCEPT ![m].pinned = FALSE] /\ pins' = pins \ {m}
      \/ ~(handler[s].op = "delete" /\ objects[m].pinned) /\ objects' = objects /\ pins' = pins
  BY DEF Finish
<1> HIDE DEF m
<1>4. \A t \in Slots : /\ t # s => handler'[t] = handler[t]
                       /\ handler'[t].pc = "write" => t # s
  BY <1>2, MessageTypes DEF ChannelInv, StoreTypeOK
<1>5. \A n \in Messages : /\ objects'[n] \in Message /\ objects'[n].exists = objects[n].exists
                          /\ objects'[n].content = objects[n].content /\ objects'[n].deleted = objects[n].deleted
                          /\ objects'[n].reactions = objects[n].reactions
                          /\ objects[n].pinned = FALSE => objects'[n] = objects[n]
  <2>1. CASE objects' = objects
    BY <2>1 DEF ChannelInv, StoreTypeOK
  <2>2. CASE objects' = [objects EXCEPT ![m].pinned = FALSE] /\ objects[m].pinned
    BY <1>1, <2>2 DEF ChannelInv, StoreTypeOK, Message
  <2>3. QED
    BY <1>3, <2>1, <2>2
<1>6. StoreTypeOK'
  <2>1. objects' \in [Messages -> Message]
    BY <1>1, <1>3, <1>5 DEF ChannelInv, StoreTypeOK
  <2>2. /\ handler' \in [Slots -> Handlers]
        /\ \A t \in Slots : Busy(t)' <=> handler'[t].message \in Messages
    BY <1>2, MessageTypes, NullAssumption DEF ChannelInv, StoreTypeOK, Busy
  <2>3. pins' \subseteq Messages
    BY <1>3 DEF ChannelInv, StoreTypeOK
  <2>4. QED
    BY <1>2, <2>1, <2>2, <2>3 DEF ChannelInv, StoreTypeOK
<1>7. HandlerInv'
  BY <1>2, MessageTypes DEF ChannelInv, StoreTypeOK, HandlerInv, Busy
<1>8. SoundInv'
  <2>1. SUFFICES ASSUME NEW n \in Messages PROVE Sound(objects'[n])
    BY <1>2 DEF ChannelInv, SoundInv
  <2>2. CASE objects[n].exists
    BY <1>5, <2>2 DEF ChannelInv, SoundInv, Sound
  <2>3. CASE ~objects[n].exists
    BY <1>5, <2>3, MessageTypes DEF ChannelInv, SoundInv, Sound
  <2>4. QED
    BY <2>2, <2>3
<1>9. SerialRows'
  <2>1. SUFFICES ASSUME NEW n \in Messages, n \notin raced, rejections = 0
                 PROVE  /\ ~Writing(n)' => Same(objects'[n], row[n])
                        /\ \A t \in Slots : handler'[t].pc = "write" /\ handler'[t].message = n =>
                              /\ Same(objects'[n], Applied(handler'[t], row[n]))
                              /\ \A w \in Slots : handler'[w].pc = "write" /\ handler'[w].message = n => w = t
                        /\ \A v \in Users : row[n].reactions[v] <= 1
    BY <1>2 DEF SerialRows, Serial
  <2>2. Writing(n) => Writing(n)'
    BY <1>1, <1>4 DEF Writing
  <2>3. \A q : Same(objects[n], q) => Same(objects'[n], q)
    BY <1>5 DEF Same
  <2>4. QED
    BY <1>4, <2>1, <2>2, <2>3 DEF ChannelInv, SerialRows, Serial
<1>10. OneReaction'
  BY <1>2, <1>5 DEF ChannelInv, OneReaction
<1>11. PinsAgree'
  <2>1. SUFFICES ASSUME boots = 0, NEW n \in Messages
                 PROVE  /\ n \in pins' <=> objects'[n].pinned
                        /\ n \in pins' /\ objects'[n].deleted
                             => \E t \in Slots : handler'[t].op = "delete" /\ handler'[t].message = n
    BY <1>2 DEF PinsAgree
  <2>2. n \in pins <=> objects[n].pinned
    BY <2>1 DEF ChannelInv, PinsAgree
  <2>3. n \in pins' <=> objects'[n].pinned
    <3>1. CASE objects' = objects /\ pins' = pins
      BY <2>2, <3>1
    <3>2. CASE objects' = [objects EXCEPT ![m].pinned = FALSE] /\ pins' = pins \ {m}
      BY <1>1, <2>2, <3>2 DEF ChannelInv, StoreTypeOK, Message
    <3>3. QED
      BY <1>3, <3>1, <3>2
  <2>4. ASSUME n \in pins', objects'[n].deleted
        PROVE  \E t \in Slots : handler'[t].op = "delete" /\ handler'[t].message = n
    <3>1. n \in pins /\ objects[n].deleted
      BY <1>3, <1>5, <2>4
    <3>2. PICK t \in Slots : handler[t].op = "delete" /\ handler[t].message = n
      BY <2>1, <3>1 DEF ChannelInv, PinsAgree
    <3>3. t # s
      BY <1>3, <2>2, <2>4, <3>1, <3>2 DEF m
    <3>4. QED
      BY <1>4, <3>2, <3>3
  <2>5. QED
    BY <2>3, <2>4
<1>12. QED
  BY <1>6, <1>7, <1>8, <1>9, <1>10, <1>11 DEF ChannelInv

\* POST /:id/pin.
LEMMA StorePin == ASSUME NEW m \in Messages, ChannelInv, Pin(m) PROVE ChannelInv'
<1>1. /\ handler' = handler /\ row' = row /\ raced' = raced /\ requests' = requests + 1
      /\ rejections' = rejections /\ boots' = boots
      /\ objects' = [objects EXCEPT ![m].pinned = ~@]
      /\ pins' = IF objects[m].pinned THEN pins \ {m} ELSE pins \cup {m}
      /\ objects[m].exists /\ ~objects[m].deleted
  BY DEF Pin, Request, Visible
<1>2. \A n \in Messages : /\ objects'[n] \in Message /\ objects'[n].exists = objects[n].exists
                          /\ objects'[n].content = objects[n].content /\ objects'[n].deleted = objects[n].deleted
                          /\ objects'[n].reactions = objects[n].reactions
                          /\ n # m => objects'[n] = objects[n]
  BY <1>1 DEF ChannelInv, StoreTypeOK, Message
<1>3. objects'[m].pinned = ~objects[m].pinned /\ objects[m].pinned \in BOOLEAN
  BY <1>1 DEF ChannelInv, StoreTypeOK, Message
<1>4. StoreTypeOK'
  <2>1. objects' \in [Messages -> Message]
    BY <1>1, <1>2 DEF ChannelInv, StoreTypeOK
  <2>2. pins' \subseteq Messages
    BY <1>1 DEF ChannelInv, StoreTypeOK
  <2>3. QED
    BY <1>1, <2>1, <2>2 DEF ChannelInv, StoreTypeOK, Busy
<1>5. HandlerInv'
  BY <1>1 DEF ChannelInv, HandlerInv, Busy
<1>6. SoundInv'
  BY <1>1, <1>2 DEF ChannelInv, SoundInv, Sound
<1>7. SerialRows'
  <2>1. \A n \in Messages : /\ Writing(n) <=> Writing(n)'
                            /\ \A q : Same(objects[n], q) => Same(objects'[n], q)
    BY <1>1, <1>2 DEF Writing, Same
  <2>2. QED
    BY <1>1, <2>1 DEF ChannelInv, SerialRows, Serial
<1>8. OneReaction'
  BY <1>1, <1>2 DEF ChannelInv, OneReaction
<1>9. PinsAgree'
  <2>1. SUFFICES ASSUME boots = 0, NEW n \in Messages
                 PROVE  /\ n \in pins' <=> objects'[n].pinned
                        /\ n \in pins' /\ objects'[n].deleted
                             => \E t \in Slots : handler'[t].op = "delete" /\ handler'[t].message = n
    BY <1>1 DEF PinsAgree
  <2>2. CASE n = m
    BY <1>1, <1>2, <1>3, <2>2
  <2>3. CASE n # m
    <3>1. objects'[n] = objects[n] /\ (n \in pins' <=> n \in pins)
      BY <1>1, <1>2, <2>3
    <3>2. QED
      BY <1>1, <2>1, <3>1 DEF ChannelInv, PinsAgree
  <2>4. QED
    BY <2>2, <2>3
<1>10. QED
  BY <1>4, <1>5, <1>6, <1>7, <1>8, <1>9 DEF ChannelInv

\* The server boots from its tables.
LEMMA StoreRestart == ASSUME ChannelInv, Boot PROVE ChannelInv'
<1>1. /\ objects' = row /\ row' = row /\ pins' = {} /\ raced' = raced /\ requests' = requests
      /\ rejections' = rejections /\ boots' = boots + 1 /\ handler' = [s \in Slots |-> Idle]
  BY DEF Boot
<1>2. boots' # 0 /\ boots' \in Nat
  BY <1>1 DEF ChannelInv, StoreTypeOK
<1>3. \A s \in Slots : handler'[s] = Idle
  BY <1>1
<1>4. StoreTypeOK'
  BY <1>1, <1>2, MessageTypes, NullAssumption DEF ChannelInv, StoreTypeOK, Busy
<1>5. HandlerInv'
  BY <1>3, MessageTypes DEF HandlerInv, Busy
<1>6. SoundInv' /\ PinsAgree'
  BY <1>1, <1>2 DEF ChannelInv, SoundInv, PinsAgree
<1>7. SerialRows'
  BY <1>1, <1>3, MessageTypes DEF ChannelInv, SerialRows, Serial, Same
<1>8. OneReaction'
  BY <1>1, <1>2 DEF ChannelInv, SerialRows, Serial, OneReaction
<1>9. QED
  BY <1>4, <1>5, <1>6, <1>7, <1>8 DEF ChannelInv

\* Every step keeps the invariant.
LEMMA ChannelNext == ChannelInv /\ [StoreNext]_storeVars => ChannelInv'
<1> SUFFICES ASSUME ChannelInv, [StoreNext]_storeVars PROVE ChannelInv'
  OBVIOUS
<1>1. ASSUME NEW s \in Slots, RequestStep(s) PROVE ChannelInv'
  BY <1>1, StorePost, StoreEdit, StoreDelete, StoreReaction DEF RequestStep
<1>2. CASE Boot
  BY <1>2, StoreRestart
<1>3. CASE UNCHANGED storeVars
  BY <1>3 DEF storeVars, storeBounds, ChannelInv, StoreTypeOK, HandlerInv, SoundInv,
     SerialRows, OneReaction, PinsAgree,
              Busy, Writing, Serial
<1>4. QED
  BY <1>1, <1>2, <1>3, StoreWrite, StoreWriteFails, StoreFinish, StorePin DEF StoreNext

\* The invariant holds in every state the store reaches.
LEMMA ChannelInvHolds == StoreSpec => []ChannelInv
<1>1. StoreInit => ChannelInv
  BY ChannelInit
<1>2. ChannelInv /\ [StoreNext]_storeVars => ChannelInv'
  BY ChannelNext
<1>3. QED
  BY <1>1, <1>2, PTL DEF StoreSpec

-----------------------------------------------------------------------------
(* MessageStore: the theorems *)

\* The store of the messages of a channel is well-typed.
THEOREM StoreTypes == StoreSpec => []StoreTypeOK
<1>1. ChannelInv => StoreTypeOK
  BY DEF ChannelInv
<1>2. QED
  BY <1>1, ChannelInvHolds, PTL

\* Memory and table agree about a message that no handler works on, as long as
\* its statements did not overlap and none failed.
THEOREM SerialStoreHolds == StoreSpec => []SerialStore
<1>1. ChannelInv => SerialStore
  <2>1. SUFFICES ASSUME ChannelInv, NEW m \in Messages, m \notin raced, rejections = 0,
                        \A s \in Slots : handler[s].message # m
                 PROVE  [objects[m] EXCEPT !.pinned = row[m].pinned] = row[m]
    BY DEF SerialStore
  <2>2. Same(objects[m], row[m])
    BY <2>1 DEF ChannelInv, SerialRows, Serial, Writing
  <2>3. QED
    BY <2>1, <2>2, SameMessages DEF ChannelInv, StoreTypeOK
<1>2. QED
  BY <1>1, ChannelInvHolds, PTL

\* A user has one reaction at most on a message, until a restart loads rows of
\* reactions whose statements overlapped or failed.
THEOREM ReactionsSingle == StoreSpec => []OneReaction
<1>1. ChannelInv => OneReaction
  BY DEF ChannelInv
<1>2. QED
  BY <1>1, ChannelInvHolds, PTL

\* The list of pins and the marks of the messages agree until a restart, and
\* a deleted message is unpinned when its DELETE is done.
THEOREM PinsListed == StoreSpec => []PinsAgree
<1>1. ChannelInv => PinsAgree
  BY DEF ChannelInv
<1>2. QED
  BY <1>1, ChannelInvHolds, PTL

\* A request that finds the message deleted deletes it again.
LEMMA RequestKeepsDeleted ==
  ASSUME NEW s \in Slots, RequestStep(s), ChannelInv, NEW m \in Messages, objects[m].deleted
  PROVE  objects'[m].deleted /\ objects'[m].content = Tombstone
<1>1. objects[m].exists /\ objects[m].content = Tombstone
  BY MessageTypes DEF ChannelInv, SoundInv, Sound
<1>2. objects \in [Messages -> Message]
  BY DEF ChannelInv, StoreTypeOK
<1>3. PICK n \in Messages : \/ \E c \in Contents : PostMessage(s, n, c) \/ Edit(s, n, c)
                            \/ Delete(s, n)
                            \/ \E u \in Users : React(s, n, u) \/ Unreact(s, n, u)
  BY DEF RequestStep
<1>4. CASE Delete(s, n) /\ n = m
  BY <1>2, <1>4 DEF Delete, Change, Message
<1>5. CASE ~(Delete(s, n) /\ n = m)
  <2>1. n # m
    BY <1>1, <1>3, <1>5 DEF PostMessage, Edit, React, Unreact, Visible
  <2>2. objects'[m] = objects[m]
    BY <1>2, <1>3, <2>1 DEF PostMessage, Edit, Delete, React, Unreact, Change
  <2>3. QED
    BY <1>1, <2>2
<1>6. QED
  BY <1>4, <1>5

\* While the server runs no request brings a deleted message back, and no order
\* of the statements makes a row that is deleted and shows its content.
THEOREM DeletionFinal == StoreSpec => DeletionIsFinal
<1> DEFINE Stays == \A m \in Messages :
             /\ boots' = boots /\ objects[m].deleted
                  => objects'[m].deleted /\ objects'[m].content = Tombstone
             /\ row'[m].exists => (row'[m].deleted <=> row'[m].content = Tombstone)
<1>1. ChannelInv /\ ChannelInv' /\ [StoreNext]_storeVars => [Stays]_storeVars
  <2> SUFFICES ASSUME ChannelInv, ChannelInv', StoreNext, NEW m \in Messages
               PROVE  /\ boots' = boots /\ objects[m].deleted
                            => objects'[m].deleted /\ objects'[m].content = Tombstone
                      /\ row'[m].exists => (row'[m].deleted <=> row'[m].content = Tombstone)
    OBVIOUS
  <2>1. row'[m].exists => (row'[m].deleted <=> row'[m].content = Tombstone)
    BY DEF ChannelInv, SoundInv, Sound
  <2>2. ASSUME boots' = boots, objects[m].deleted
        PROVE  objects'[m].deleted /\ objects'[m].content = Tombstone
    <3>1. objects[m].content = Tombstone /\ objects \in [Messages -> Message]
      BY <2>2, MessageTypes DEF ChannelInv, StoreTypeOK, SoundInv, Sound
    <3>2. ASSUME NEW s \in Slots, Write(s) \/ WriteFails(s) \/ Finish(s)
          PROVE  objects'[m].deleted /\ objects'[m].content = Tombstone
      BY <2>2, <3>1, <3>2 DEF Write, WriteFails, Finish, Message
    <3>3. ASSUME NEW n \in Messages, Pin(n)
          PROVE  objects'[m].deleted /\ objects'[m].content = Tombstone
      BY <2>2, <3>1, <3>3 DEF Pin, Message
    <3>4. ~Boot
      BY <2>2 DEF Boot, ChannelInv, StoreTypeOK
    <3>5. QED
      BY <2>2, <3>2, <3>3, <3>4, RequestKeepsDeleted DEF StoreNext
  <2>3. QED
    BY <2>1, <2>2
<1>2. QED
  BY <1>1, ChannelInvHolds, PTL DEF StoreSpec, DeletionIsFinal
=============================================================================
