---------------------------- MODULE MessageSend ----------------------------
(***************************************************************************)
(* Sending ONE chat message, identified by the clientMessageId that the    *)
(* client chose, under retries: every attempt is a POST that carries the   *)
(* same id.  The server has two endpoints for it and they remember ids in  *)
(* different places:                                                       *)
(*                                                                         *)
(*   "messages"      POST /messages keeps a map from client ids to message *)
(*                   ids (server/routes/messages.ts); the map is written   *)
(*                   after the await of persistMessage and is not stored   *)
(*   "conversation"  POST /conversations/:id/messages looks for the id on  *)
(*                   the messages in memory, then in the table             *)
(*                   (server/routes/conversations.ts)                      *)
(*                                                                         *)
(* A handler runs atomically between its awaits.  The stages of an attempt:*)
(*                                                                         *)
(*   "new"       not sent yet                                              *)
(*   "find"      "conversation": the SELECT by client id is on its way     *)
(*   "found"     its result is captured, the promise is not resumed        *)
(*   "insert"    the message is in db.messages, its INSERT is on its way   *)
(*   "inserted"  the INSERT is applied, the promise is not resumed         *)
(*   "answered"  200 or 201 with the message of the attempt                *)
(*   "lost"      the server died before it answered                        *)
(*                                                                         *)
(* A message is named after the attempt that created it.                   *)
(***************************************************************************)
EXTENDS Naturals, FiniteSets

CONSTANTS
    Attempts,     \* the POSTs that carry the client id; also message ids
    NoMessage,    \* no such message
    MaxFailures,  \* bound: rejected PostgreSQL statements
    MaxRestarts   \* bound: restarts of the server process

ASSUME MessageAssumption == NoMessage \notin Attempts
ASSUME BoundAssumption == MaxFailures \in Nat /\ MaxRestarts \in Nat

VARIABLES
    endpoint,    \* the endpoint the client uses for this id
    memory,      \* db.messages: the messages of this client id
    tagged,      \* those whose object carries the client id
    table,       \* the rows of the messages
    processed,   \* processedClientMessageIds.get(client id)
    attempt,     \* the stage of each attempt and the message it works with
    failures, restarts,   \* what the bounds count
    overlapped,  \* history: an attempt arrived while another was in flight
    forgotten    \* history: the cleanup timer dropped the entry of the map

boundVars == <<failures, restarts>>
vars == <<endpoint, memory, tagged, table, processed, attempt, boundVars, overlapped, forgotten>>

Stages == {"new", "find", "found", "insert", "inserted", "answered", "lost"}
MaybeMessage == Attempts \cup {NoMessage}

At(a, stage) == attempt[a].stage = stage
InFlight(a) == attempt[a].stage \in {"find", "found", "insert", "inserted"}
Moves(a, stage, m) == attempt' = [attempt EXCEPT ![a] = [stage |-> stage, message |-> m]]

TypeOK ==
    /\ endpoint \in {"messages", "conversation"}
    /\ memory \subseteq Attempts
    /\ tagged \subseteq memory
    /\ table \subseteq Attempts
    /\ processed \in MaybeMessage
    /\ attempt \in [Attempts -> [stage : Stages, message : MaybeMessage]]
    /\ \A a \in Attempts : At(a, "answered") => attempt[a].message \in Attempts
    /\ failures \in Nat /\ restarts \in Nat
    /\ overlapped \in BOOLEAN /\ forgotten \in BOOLEAN

Init ==
    /\ endpoint \in {"messages", "conversation"}
    /\ memory = {} /\ tagged = {} /\ table = {}
    /\ processed = NoMessage
    /\ attempt = [a \in Attempts |-> [stage |-> "new", message |-> NoMessage]]
    /\ failures = 0 /\ restarts = 0
    /\ overlapped = FALSE /\ forgotten = FALSE

-----------------------------------------------------------------------------
(* The handlers *)

Arrives(a) ==
    /\ At(a, "new")
    /\ overlapped' = (overlapped \/ \E b \in Attempts : InFlight(b))
    /\ UNCHANGED <<endpoint, table, processed, boundVars, forgotten>>

\* db.messages.push and the call of persistMessage.
Push(a) ==
    /\ memory' = memory \cup {a}
    /\ tagged' = IF endpoint = "conversation" THEN tagged \cup {a} ELSE tagged
    /\ Moves(a, "insert", a)

\* 200 with duplicate: true.
Duplicate(a, m) ==
    /\ Moves(a, "answered", m)
    /\ UNCHANGED <<memory, tagged>>

\* Mutants of Post: the map is not consulted; it is written before the await.
PostUnchecked(a) ==
    /\ endpoint = "messages"
    /\ Arrives(a)
    /\ Push(a)

PostMarksFirst(a) ==
    /\ endpoint = "messages"
    /\ At(a, "new")
    /\ overlapped' = (overlapped \/ \E b \in Attempts : InFlight(b))
    /\ IF processed \in memory
       THEN Duplicate(a, processed) /\ processed' = processed
       ELSE Push(a) /\ processed' = a
    /\ UNCHANGED <<endpoint, table, boundVars, forgotten>>

\* POST /messages, from the idempotency check to the await of persistMessage.
Post(a) ==
    /\ endpoint = "messages"
    /\ Arrives(a)
    /\ IF processed \in memory THEN Duplicate(a, processed) ELSE Push(a)

\* POST /conversations/:id/messages up to its first await: the answer when a
\* message in memory carries the id, the SELECT by client id otherwise.
PostToConversation(a) ==
    /\ endpoint = "conversation"
    /\ Arrives(a)
    /\ IF tagged # {}
       THEN \E m \in tagged : Duplicate(a, m)
       ELSE Moves(a, "find", NoMessage) /\ UNCHANGED <<memory, tagged>>

\* findMessageByClientId reads the table (LIMIT 1: any of the rows).
Find(a) ==
    /\ At(a, "find")
    /\ \E m \in MaybeMessage :
          /\ m \in table \/ (table = {} /\ m = NoMessage)
          /\ Moves(a, "found", m)
    /\ UNCHANGED <<endpoint, memory, tagged, table, processed, boundVars, overlapped, forgotten>>

\* ... and the handler goes on with what it read; memory is not looked at again.
AfterFind(a) ==
    /\ At(a, "found")
    /\ IF attempt[a].message \in memory
       THEN Duplicate(a, attempt[a].message)
       ELSE Push(a)
    /\ UNCHANGED <<endpoint, table, processed, boundVars, overlapped, forgotten>>

Insert(a) ==
    /\ At(a, "insert")
    /\ table' = table \cup {a}
    /\ Moves(a, "inserted", a)
    /\ UNCHANGED <<endpoint, memory, tagged, processed, boundVars, overlapped, forgotten>>

\* persistMessage resumes: POST /messages writes its map, and the message is
\* broadcast and answered with 201.
AfterInsert(a) ==
    /\ At(a, "inserted")
    /\ processed' = IF endpoint = "messages" THEN a ELSE processed
    /\ Moves(a, "answered", a)
    /\ UNCHANGED <<endpoint, memory, tagged, table, boundVars, overlapped, forgotten>>

-----------------------------------------------------------------------------
(* Failures *)

\* The SELECT is rejected: findMessageByClientId answers null.
FindFails(a) ==
    /\ At(a, "find")
    /\ failures < MaxFailures
    /\ failures' = failures + 1
    /\ Moves(a, "found", NoMessage)
    /\ UNCHANGED <<endpoint, memory, tagged, table, processed, restarts, overlapped, forgotten>>

\* The INSERT is rejected: persistMessage logs the error and the handler goes
\* on as if the message were stored.
InsertFails(a) ==
    /\ At(a, "insert")
    /\ failures < MaxFailures
    /\ failures' = failures + 1
    /\ Moves(a, "inserted", a)
    /\ UNCHANGED <<endpoint, memory, tagged, table, processed, restarts, overlapped, forgotten>>

\* The cleanup timer drops entries older than 30 minutes.
Forget ==
    /\ processed # NoMessage
    /\ processed' = NoMessage
    /\ forgotten' = TRUE
    /\ UNCHANGED <<endpoint, memory, tagged, table, attempt, boundVars, overlapped>>

\* The process dies and boots.  db.messages is loaded from the table; the
\* objects it builds do not carry the client id.
Restart ==
    /\ restarts < MaxRestarts
    /\ restarts' = restarts + 1
    /\ memory' = table
    /\ tagged' = {}
    /\ processed' = NoMessage
    /\ attempt' = [a \in Attempts |->
                     IF InFlight(a) THEN [stage |-> "lost", message |-> NoMessage]
                     ELSE attempt[a]]
    /\ UNCHANGED <<endpoint, table, failures, overlapped, forgotten>>

-----------------------------------------------------------------------------

HandlerStep(a) == Find(a) \/ AfterFind(a) \/ Insert(a) \/ AfterInsert(a)

Next ==
    \/ \E a \in Attempts : \/ Post(a)
                           \/ PostToConversation(a)
                           \/ HandlerStep(a)
                           \/ FindFails(a)
                           \/ InsertFails(a)
    \/ Forget
    \/ Restart

Spec == Init /\ [][Next]_vars

-----------------------------------------------------------------------------
(* Properties *)

\* What each endpoint needs to recognise a retry: the map of POST /messages
\* must not have been dropped by the timer or by a restart, and the look-up in
\* the table, which only matters after a restart, must not have failed.
Remembers ==
    IF endpoint = "messages" THEN restarts = 0 /\ ~forgotten
                             ELSE restarts = 0 \/ failures = 0

\* Retries that arrive one after the other create one message: a client that
\* waits for the answer, or for the server to come back, never sends twice.
SerialRetriesSafe == ~overlapped /\ Remembers => Cardinality(memory) <= 1

\* A message the client was told is sent is in the table, so that it survives
\* a crash.  POST /conversations/:id/messages promises it only to retries that
\* do not overlap: it answers a duplicate from memory before the row is there.
AnsweredIsStored ==
    failures = 0 /\ (endpoint = "messages" \/ ~overlapped)
        => \A a \in Attempts : At(a, "answered") => attempt[a].message \in table

-----------------------------------------------------------------------------
(* The inductive strengthening of the properties that are proved *)

\* A handler that stores a message stores its own, which is in memory; only
\* the conversations endpoint looks in the table.
StageInv ==
    \A a \in Attempts :
        /\ At(a, "insert") \/ At(a, "inserted") => attempt[a].message = a /\ a \in memory
        /\ At(a, "found") => attempt[a].message \in table \cup {NoMessage}
        /\ At(a, "find") \/ At(a, "found") => endpoint = "conversation"

\* Memory holds what the table holds, and more only while an INSERT is on its
\* way or after one was rejected.
StoreInv ==
    /\ table \subseteq memory
    /\ endpoint = "messages" => tagged = {}
    /\ endpoint = "conversation" /\ restarts = 0 => memory = tagged
    /\ processed \in memory \cup {NoMessage}
    /\ failures = 0 => \A m \in memory : m \in table \/ At(m, "insert")
    /\ failures = 0 => processed \in table \cup {NoMessage}

\* Attempts that do not overlap are in flight one at a time, ...
SerialInv == ~overlapped => \A a, b \in Attempts : InFlight(a) /\ InFlight(b) => a = b

\* ... and each of them finds the message if there is one: the map points to
\* it, or the attempt that creates it is still in flight, or the table has it.
FoundInv ==
    ~overlapped /\ Remembers =>
        /\ \A m, n \in memory : m = n
        /\ endpoint = "messages" =>
              \A m \in memory : processed = m \/ At(m, "insert") \/ At(m, "inserted")
        /\ \A a \in Attempts :
              /\ At(a, "find") => memory = table /\ (restarts = 0 => memory = {})
              /\ At(a, "found") => memory = {} \/ attempt[a].message \in memory

Inv == TypeOK /\ StageInv /\ StoreInv /\ SerialInv /\ FoundInv /\ AnsweredIsStored
=============================================================================
