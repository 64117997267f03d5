----------------------------- MODULE CallServer -----------------------------
(***************************************************************************)
(* The 1:1 call engine of the server (server/routes/calls.ts together with *)
(* persistCall and the boot-time sync of server/db.ts), for ONE call.  The *)
(* in-memory registries of the engine are maps keyed by call id and no     *)
(* handler touches two keys, so one call at a time loses nothing.          *)
(*                                                                         *)
(* The server is single threaded: a handler runs atomically up to its next *)
(* await, and the awaits are where handlers interleave.  A handler of this *)
(* module is a slot with a program counter:                                *)
(*                                                                         *)
(*   "write"    persistCall was called: the column values are captured,    *)
(*              the upsert has not reached PostgreSQL yet                  *)
(*   "ack"      the upsert is applied, its promise is not resumed yet      *)
(*   "select"   /hold or /resume of a call that memory does not hold       *)
(*   "update"   the direct UPDATE of the same                              *)
(*   "history"  persistCallHistory is awaited; what follows it (the        *)
(*              realtime event and the response) ends the handler          *)
(*                                                                         *)
(* db.calls holds a REFERENCE to a session object.  persistCall replaces   *)
(* the entry by a fresh object when it resumes, so a handler that is still *)
(* waiting keeps mutating, and finally merges, an object that the array no *)
(* longer holds.  The objects are therefore modelled as a small heap.      *)
(***************************************************************************)
EXTENDS Naturals, FiniteSets

CONSTANTS
    Tabs,         \* the browser tabs (and devices) of the callee
    NoTab,        \* a request without a tab id; no claim in the registry
    Slots,        \* contexts for the requests that are in flight together
    TimerSlot,    \* the context of the 30 second timeout callback
    Refs,         \* identities of the session objects on the heap
    NoRef,        \* db.calls has no entry for the call
    MaxRequests,  \* bound: requests served in a behavior
    MaxFailures,  \* bound: rejected PostgreSQL statements
    MaxRestarts   \* bound: restarts of the server process

ASSUME TabAssumption == NoTab \notin Tabs
ASSUME SlotAssumption == TimerSlot \notin Slots
ASSUME RefAssumption == NoRef \notin Refs
ASSUME BoundAssumption ==
    MaxRequests \in Nat /\ MaxFailures \in Nat /\ MaxRestarts \in Nat

VARIABLES
    known,     \* /invite has answered: the parties know the call id
    heap,      \* the CallSession objects
    mem,       \* the reference db.calls holds for this call
    row,       \* the row of table calls
    claim,     \* activeCallClaims
    timer,     \* outgoingCallTimeouts: "none", "armed", or "fired"
    handler,   \* the handlers in flight
    requests, failures, restarts,   \* what the bounds count
    granted,   \* history: the tabs told that the call is theirs
    released,  \* history: the claim registry was emptied (an /end or a restart)
    answered,  \* history: the callee answered, or somebody ended the call
    raced      \* history: two persistCall of the call overlapped

callVars == <<known, heap, mem, row, claim, timer, handler>>
boundVars == <<requests, failures, restarts>>
historyVars == <<granted, released, answered, raced>>
vars == <<callVars, boundVars, historyVars>>

-----------------------------------------------------------------------------
(* Data *)

\* What a session carries beyond its identity: the state, whether connectedAt
\* is set, and the endReason (set together with endedAt; "none" is undefined).
\* "in_progress" is written by the direct UPDATE of /resume only.
States == {"ringing_outgoing", "initiating", "connecting", "active", "held",
           "in_progress", "ended"}
Reasons == {"none", "timeout", "declined", "cancelled", "completed"}
Session == [state : States, connected : BOOLEAN, reason : Reasons]

NewSession == [state |-> "ringing_outgoing", connected |-> FALSE, reason |-> "none"]
\* The value of an object nobody refers to; and, as a row, "no such row".
Blank == [state |-> "initiating", connected |-> FALSE, reason |-> "none"]

Ringing(c) == c.state \in {"ringing_outgoing", "initiating"}
\* No mark of an answer or of an end.
Clean(c) == c.reason = "none" /\ ~c.connected

\* Mutant of Merge: the entry is replaced, not merged.
MergeReplaces(current, c) == c

\* { ...current, ...c } : an optional field that c never had keeps the value
\* it has in the current entry.
Merge(current, c) ==
    [state     |-> c.state,
     connected |-> c.connected \/ current.connected,
     reason    |-> IF c.reason = "none" THEN current.reason ELSE c.reason]

Rows == [exists : BOOLEAN, val : Session]
NoRow == [exists |-> FALSE, val |-> Blank]

Contexts == Slots \cup {TimerSlot}
Ops == {"idle", "invite", "patch", "accept", "decline", "cancel", "end", "hold",
        "resume", "timeout"}
PCs == {"idle", "write", "ack", "select", "update", "history"}
Handlers == [op : Ops, pc : PCs, ref : Refs \cup {NoRef}, val : Session]
Idle == [op |-> "idle", pc |-> "idle", ref |-> NoRef, val |-> Blank]

Busy(s) == handler[s].op # "idle"
InMemory == mem # NoRef
InPersist(s) == handler[s].pc \in {"write", "ack"}

TypeOK ==
    /\ known \in BOOLEAN
    /\ heap \in [Refs -> Session]
    /\ mem \in Refs \cup {NoRef}
    /\ row \in Rows
    /\ claim \in Tabs \cup {NoTab}
    /\ timer \in {"none", "armed", "fired"}
    /\ handler \in [Contexts -> Handlers]
    /\ requests \in Nat /\ failures \in Nat /\ restarts \in Nat
    /\ granted \subseteq Tabs
    /\ released \in BOOLEAN
    /\ answered \in BOOLEAN
    /\ raced \in BOOLEAN

Init ==
    /\ known = FALSE
    /\ heap = [r \in Refs |-> Blank]
    /\ mem = NoRef
    /\ row = NoRow
    /\ claim = NoTab
    /\ timer = "none"
    /\ handler = [s \in Contexts |-> Idle]
    /\ requests = 0 /\ failures = 0 /\ restarts = 0
    /\ granted = {} /\ released = FALSE /\ answered = FALSE /\ raced = FALSE

-----------------------------------------------------------------------------
(* The heap.  An object lives while db.calls or a handler refers to it. *)

ReferredTo(r, m, h) == r = m \/ \E s \in Contexts : h[s].ref = r

Collected(hp, m, h) == [r \in Refs |-> IF ReferredTo(r, m, h) THEN hp[r] ELSE Blank]

\* Enter persistCall with object r holding c: the statement captures c now.
Persisting(op, r, c) == [op |-> op, pc |-> "write", ref |-> r, val |-> c]
\* Go straight to persistCallHistory.
Recording(op) == [Idle EXCEPT !.op = op, !.pc = "history"]

-----------------------------------------------------------------------------
(* Requests.  Every request takes a free slot and counts against the bound. *)

Request(s) ==
    /\ ~Busy(s)
    /\ requests < MaxRequests
    /\ requests' = requests + 1
    /\ UNCHANGED <<failures, restarts>>

\* POST /invite, up to its first await.
Invite(s) ==
    /\ requests = 0
    /\ Request(s)
    /\ \E r \in Refs :
        /\ heap' = [heap EXCEPT ![r] = NewSession]
        /\ handler' = [handler EXCEPT ![s] = Persisting("invite", r, NewSession)]
    /\ UNCHANGED <<known, mem, row, claim, timer, historyVars>>

\* Mutant of FinishInvite: the timer is never set.
FinishInviteNoTimer(s) ==
    /\ handler[s].op = "patch" /\ handler[s].pc = "history"
    /\ known' = TRUE
    /\ handler' = [handler EXCEPT ![s] = Idle]
    /\ UNCHANGED <<heap, mem, row, claim, timer, boundVars, historyVars>>

\* The end of /invite: IncomingCall is sent, the 30 second timer is armed and
\* the response carries the call id.
FinishInvite(s) ==
    /\ handler[s].op = "patch" /\ handler[s].pc = "history"
    /\ known' = TRUE
    /\ timer' = "armed"
    /\ handler' = [handler EXCEPT ![s] = Idle]
    /\ UNCHANGED <<heap, mem, row, claim, boundVars, historyVars>>

\* Mutants of Claim: the registry is not consulted; the timer is not cleared.
ClaimUnchecked(t) ==
    /\ known
    /\ requests < MaxRequests
    /\ requests' = requests + 1
    /\ claim' = t
    /\ timer' = "none"
    /\ granted' = granted \cup {t}
    /\ UNCHANGED <<known, heap, mem, row, handler, failures, restarts, released, answered, raced>>

ClaimKeepsTimer(t) ==
    /\ known
    /\ claim = NoTab
    /\ requests < MaxRequests
    /\ requests' = requests + 1
    /\ claim' = t
    /\ granted' = granted \cup {t}
    /\ UNCHANGED <<known, heap, mem, row, timer, handler, failures, restarts, released, answered, raced>>

\* POST /claim of tab t.  It has no await.  A claim of another tab answers
\* 409 and changes nothing; a repeated claim of the same tab answers 200.
Claim(t) ==
    /\ known
    /\ claim = NoTab
    /\ requests < MaxRequests
    /\ requests' = requests + 1
    /\ claim' = t
    /\ timer' = "none"
    /\ granted' = granted \cup {t}
    /\ UNCHANGED <<known, heap, mem, row, handler, failures, restarts, released, answered, raced>>

\* Mutant of Update: persistCall is called before the fields are set.
UpdatePersistsFirst(s, op, c) ==
    IF InMemory
    THEN /\ heap' = [heap EXCEPT ![mem] = c]
         /\ handler' = [handler EXCEPT ![s] = Persisting(op, mem, heap[mem])]
         /\ raced' = (raced \/ \E t \in Contexts : InPersist(t))
    ELSE /\ heap' = heap
         /\ handler' = [handler EXCEPT ![s] = Recording(op)]
         /\ raced' = raced

\* What a handler does with the session: set fields of the object db.calls
\* holds and await persistCall, or record history only when there is none.
Update(s, op, c) ==
    IF InMemory
    THEN /\ heap' = [heap EXCEPT ![mem] = c]
         /\ handler' = [handler EXCEPT ![s] = Persisting(op, mem, c)]
         /\ raced' = (raced \/ \E t \in Contexts : InPersist(t))
    ELSE /\ heap' = heap
         /\ handler' = [handler EXCEPT ![s] = Recording(op)]
         /\ raced' = raced

Current == IF InMemory THEN heap[mem] ELSE Blank

\* POST /response with accepted = true.  t is the tab id of the body, NoTab
\* when it has none.  A claim of another tab answers 409 and changes nothing.
Accept(s, t) ==
    /\ known
    /\ t # NoTab => claim \in {NoTab, t}
    /\ Request(s)
    /\ claim' = IF t = NoTab THEN claim ELSE t
    /\ timer' = "none"
    /\ Update(s, "accept", [Current EXCEPT !.state = "connecting", !.connected = TRUE])
    /\ granted' = granted \cup ({t} \ {NoTab})
    /\ answered' = TRUE
    /\ UNCHANGED <<known, mem, row, released>>

\* POST /response with accepted = false.
Decline(s) ==
    /\ known
    /\ Request(s)
    /\ timer' = "none"
    /\ Update(s, "decline", [Current EXCEPT !.state = "ended", !.reason = "declined"])
    /\ answered' = TRUE
    /\ UNCHANGED <<known, mem, row, claim, granted, released>>

\* POST /cancel.
Cancel(s) ==
    /\ known
    /\ Request(s)
    /\ timer' = "none"
    /\ Update(s, "cancel", [Current EXCEPT !.state = "ended", !.reason = "cancelled"])
    /\ answered' = TRUE
    /\ UNCHANGED <<known, mem, row, claim, granted, released>>

\* POST /end.  It is the only handler that empties the claim registry.
End(s) ==
    /\ known
    /\ Request(s)
    /\ timer' = "none"
    /\ claim' = NoTab
    /\ Update(s, "end", [Current EXCEPT !.state = "ended", !.reason = "completed"])
    /\ answered' = TRUE
    /\ released' = TRUE
    /\ UNCHANGED <<known, mem, row, granted>>

\* POST /hold and POST /resume.  Neither looks at the state of the call nor
\* at the timer.  Without an entry in memory they go to the table.
HoldOrResume(s, op, st) ==
    /\ known
    /\ Request(s)
    /\ IF InMemory
       THEN Update(s, op, [Current EXCEPT !.state = st])
       ELSE /\ handler' = [handler EXCEPT ![s] = [Idle EXCEPT !.op = op, !.pc = "select"]]
            /\ UNCHANGED <<heap, raced>>
    /\ UNCHANGED <<known, mem, row, claim, timer, granted, released, answered>>

Hold(s) == HoldOrResume(s, "hold", "held")
Resume(s) == HoldOrResume(s, "resume", "active")

-----------------------------------------------------------------------------
(* The timeout callback *)

\* The callback of setTimeout up to its first await.  Its finally clause
\* deletes the registry entry, at once when the call is not ringing any more.
Fire ==
    /\ timer = "armed"
    /\ IF InMemory /\ Ringing(heap[mem])
       THEN /\ Update(TimerSlot, "timeout",
                      [Current EXCEPT !.state = "ended", !.reason = "timeout"])
            /\ timer' = "fired"
       ELSE /\ timer' = "none"
            /\ UNCHANGED <<heap, handler, raced>>
    /\ UNCHANGED <<known, mem, row, claim, boundVars, granted, released, answered>>

-----------------------------------------------------------------------------
(* persistCall and what follows it *)

\* PostgreSQL applies the upsert.  Statements of different handlers travel on
\* different pool connections, so they may be applied in any order.
DbWrite(s) ==
    /\ handler[s].pc = "write"
    /\ row' = [exists |-> TRUE, val |-> handler[s].val]
    /\ handler' = [handler EXCEPT ![s].pc = "ack"]
    /\ UNCHANGED <<known, heap, mem, claim, timer, boundVars, historyVars>>

\* The handler after its persistCall: /invite calls it a second time with the
\* same object (the conversation id patched in), everyone else goes on to the
\* call history.
AfterPersist(h, c) ==
    CASE h.op = "invite" -> [h EXCEPT !.op = "patch", !.pc = "write", !.val = c]
      [] OTHER           -> Recording(h.op)

\* persistCall resumes: the array entry is replaced by a fresh merged object,
\* or the object itself becomes the entry.
DbAck(s) ==
    /\ handler[s].pc = "ack"
    /\ LET h  == handler[s]
           hs == [handler EXCEPT ![s] = AfterPersist(h, heap[h.ref])]
       IN  /\ handler' = hs
           /\ IF InMemory
              THEN \E r \in Refs :
                    /\ \A t \in Contexts : hs[t].ref # r
                    /\ mem' = r
                    /\ heap' = Collected([heap EXCEPT ![r] = Merge(heap[mem], heap[h.ref])],
                                         r, hs)
              ELSE /\ mem' = h.ref
                   /\ heap' = Collected(heap, h.ref, hs)
    /\ UNCHANGED <<known, row, claim, timer, boundVars, historyVars>>

\* The statement is rejected, with or without having been applied: persistCall
\* logs the error and returns, so memory keeps the entry it has.
DbFail(s) ==
    /\ handler[s].pc \in {"write", "ack"}
    /\ failures < MaxFailures
    /\ failures' = failures + 1
    /\ LET h  == handler[s]
           hs == [handler EXCEPT ![s] = AfterPersist(h, heap[h.ref])]
       IN  /\ handler' = hs
           /\ heap' = Collected(heap, mem, hs)
    /\ UNCHANGED <<known, mem, row, claim, timer, requests, restarts, historyVars>>

\* /hold and /resume without an entry in memory: the SELECT (404 when there is
\* no row), then the UPDATE of the status column alone.
DirectSelect(s) ==
    /\ handler[s].pc = "select"
    /\ handler' = [handler EXCEPT ![s] = IF row.exists THEN [@ EXCEPT !.pc = "update"]
                                         ELSE Idle]
    /\ UNCHANGED <<known, heap, mem, row, claim, timer, boundVars, historyVars>>

DirectUpdate(s) ==
    /\ handler[s].pc = "update"
    /\ row' = [row EXCEPT !.val.state = IF handler[s].op = "hold" THEN "held"
                                        ELSE "in_progress"]
    /\ handler' = [handler EXCEPT ![s] = Recording(handler[s].op)]
    /\ UNCHANGED <<known, heap, mem, claim, timer, boundVars, historyVars>>

\* persistCallHistory resumes, the realtime event goes out and the handler is
\* done; the callback's finally clause deletes the registry entry.
Finish(s) ==
    /\ handler[s].pc = "history" /\ handler[s].op # "patch"
    /\ handler' = [handler EXCEPT ![s] = Idle]
    /\ timer' = IF s = TimerSlot THEN "none" ELSE timer
    /\ UNCHANGED <<known, heap, mem, row, claim, boundVars, historyVars>>

-----------------------------------------------------------------------------
(* Restart *)

\* The process dies and boots: handlers, timers and claims are gone, and
\* db.calls is loaded from the table.  The entry is missing when the row is
\* not among the newest 500 or the load fails.
Restart(loaded) ==
    /\ restarts < MaxRestarts
    /\ restarts' = restarts + 1
    /\ handler' = [s \in Contexts |-> Idle]
    /\ timer' = "none"
    /\ claim' = NoTab
    /\ IF loaded
       THEN \E r \in Refs :
                /\ row.exists
                /\ mem' = r
                /\ heap' = [q \in Refs |-> IF q = r THEN row.val ELSE Blank]
       ELSE /\ mem' = NoRef
            /\ heap' = [q \in Refs |-> Blank]
    /\ released' = TRUE
    /\ UNCHANGED <<known, row, requests, failures, granted, answered, raced>>

-----------------------------------------------------------------------------

HandlerStep(s) ==
    \/ FinishInvite(s)
    \/ DbWrite(s)
    \/ DbAck(s)
    \/ DirectSelect(s)
    \/ DirectUpdate(s)
    \/ Finish(s)

RequestStep(s) ==
    \/ Invite(s)
    \/ \E t \in Tabs \cup {NoTab} : Accept(s, t)
    \/ Decline(s)
    \/ Cancel(s)
    \/ End(s)
    \/ Hold(s)
    \/ Resume(s)

Next ==
    \/ \E s \in Slots : RequestStep(s)
    \/ \E t \in Tabs : Claim(t)
    \/ Fire
    \/ \E s \in Contexts : HandlerStep(s) \/ DbFail(s)
    \/ \E loaded \in BOOLEAN : Restart(loaded)

Spec == Init /\ [][Next]_vars

\* What the runtime guarantees: a pending promise is resumed and an expired
\* timer is called.  Requests, failures and restarts need never happen.
Fairness == WF_vars(Fire) /\ \A s \in Contexts : WF_vars(HandlerStep(s))

FairSpec == Spec /\ Fairness

-----------------------------------------------------------------------------
(* Properties *)

\* Between the first claim and the next /end or restart, at most one tab is
\* ever told that the call is its own: by /claim, or by an accepted /response
\* that carries its tab id.
OneOwner == ~released => \A t, u \in granted : t = u

\* The 30 second timer is armed only while the call is really unanswered: no
\* tab owns it, nobody accepted, declined, cancelled or ended it, and no
\* object of the call, stale ones included, carries the mark of an end.
ArmedMeansUnanswered ==
    timer = "armed" =>
        /\ claim = NoTab
        /\ ~answered
        /\ \A r \in Refs : Clean(heap[r])

\* The write-through promise of db.ts, as far as it goes: when no handler is
\* at work, the row equals the entry in memory, provided that no statement
\* failed and no two persistCall of the call ever overlapped.
Quiescent == \A s \in Contexts : ~Busy(s)
SerialWriteThrough ==
    Quiescent /\ InMemory /\ failures = 0 /\ ~raced
        => row.exists /\ row.val = heap[mem]

\* However persistCall calls interleave, the merge { ...entry, ...c } never
\* makes memory forget that the call was connected or why it ended.
FactsSurviveStep ==
    restarts' = restarts /\ InMemory =>
        /\ mem' # NoRef
        /\ heap[mem].connected => heap'[mem'].connected
        /\ heap[mem].reason # "none" => heap'[mem'].reason # "none"
FactsSurvive == [][FactsSurviveStep]_vars

\* A call that somebody claimed, answered or ended never times out.
TimeoutStep ==
    handler'[TimerSlot].op = "timeout" /\ handler[TimerSlot].op = "idle"
        => claim = NoTab /\ ~answered
NoTimeoutOnceAnswered == [][TimeoutStep]_vars

\* A ringing call that nobody claims stops ringing, unless the server dies.
RingingNow == known /\ InMemory /\ Ringing(heap[mem])
UnclaimedCallExpires ==
    RingingNow /\ claim = NoTab /\ restarts = 0
        ~> ~RingingNow \/ claim # NoTab \/ restarts > 0

-----------------------------------------------------------------------------
(* The inductive strengthening of the properties that are proved *)

\* persistCall is always called with an object.
PersistHasObject == \A s \in Contexts : InPersist(s) => handler[s].ref \in Refs

\* While the registry was not emptied, every tab that was told it owns the
\* call is the one in the registry.
GrantedIsClaimed == ~released => \A t \in granted : claim = t

Inviting(s) == handler[s].op \in {"invite", "patch"}

\* One /invite at most is in flight, before anybody knows the call, ...
OneInvite ==
    /\ requests = 0 => ~known /\ \A s \in Contexts : ~Inviting(s)
    /\ \A s, t \in Contexts : Inviting(s) /\ Inviting(t) => s = t
    /\ \A s \in Contexts : Inviting(s) => ~known

\* ... and until then nothing has happened to the call, in memory, in the
\* table or in a statement on its way.
NothingBeforeKnown ==
    ~known =>
        /\ claim = NoTab
        /\ timer = "none"
        /\ ~answered
        /\ Clean(row.val)
        /\ \A r \in Refs : Clean(heap[r])
        /\ \A s \in Contexts : Clean(handler[s].val)

\* Before the /invite there is nothing at all, ...
NothingBeforeInvite ==
    requests = 0 =>
        /\ mem = NoRef
        /\ ~row.exists
        /\ \A s \in Contexts : handler[s] = Idle

\* ... and before it has answered no other handler is at work.
OnlyInviteBeforeKnown ==
    ~known => \A s \in Contexts : Inviting(s) \/ handler[s] = Idle

\* Only a busy handler is in persistCall, and an /invite goes through its two
\* persistCall and the history, in that order.
HandlerPhases ==
    /\ \A s \in Contexts : InPersist(s) => Busy(s)
    /\ \A s \in Contexts : handler[s].op = "invite" => InPersist(s)
    /\ \A s \in Contexts : handler[s].op = "patch" => InPersist(s) \/ handler[s].pc = "history"

\* Which handlers meet an empty memory: the /invite up to its first
\* persistCall, and a direct UPDATE.  Everybody else persists the entry.
WhoMeetsNoEntry ==
    /\ \A s \in Contexts : handler[s].pc \in {"select", "update"} => ~InMemory
    /\ \A s \in Contexts : handler[s].op = "invite" => ~InMemory
    /\ \A s \in Contexts : InPersist(s) => InMemory \/ Inviting(s)

\* A persistCall that nothing disturbs: it is alone, it works on the entry (or
\* on the first object of the call), and the value it captured is the one the
\* object still has.
UndisturbedPersist ==
    failures = 0 /\ ~raced =>
        /\ \A s, t \in Contexts : InPersist(s) /\ InPersist(t) => s = t
        /\ \A s \in Contexts : InPersist(s) =>
             /\ mem \in {NoRef, handler[s].ref}
             /\ handler[s].pc = "write" => handler[s].val = heap[handler[s].ref]
             /\ handler[s].pc = "ack" => row.exists /\ row.val = heap[handler[s].ref]

\* The row equals the entry whenever no persistCall is on its way.
RowIsEntry ==
    failures = 0 /\ ~raced /\ InMemory /\ (\A s \in Contexts : ~InPersist(s))
        => row.exists /\ row.val = heap[mem]

TypeInv == TypeOK /\ PersistHasObject
ArmedInv == OneInvite /\ NothingBeforeKnown /\ ArmedMeansUnanswered
EntryInv == NothingBeforeInvite /\ OnlyInviteBeforeKnown /\ HandlerPhases /\ WhoMeetsNoEntry
WriteThroughInv == EntryInv /\ UndisturbedPersist /\ RowIsEntry
=============================================================================
