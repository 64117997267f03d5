------------------------------ MODULE GroupCall ------------------------------
(***************************************************************************)
(* The group calls of the server (server/routes/groupCalls.ts), for ONE    *)
(* call.  All of their state is in PostgreSQL, in group_calls and          *)
(* group_call_participants, and every handler is a sequence of single      *)
(* statements without a transaction: between any two of its statements the *)
(* statements of other handlers and of the LiveKit webhook run.  A handler *)
(* is a slot whose pc names its NEXT statement:                            *)
(*                                                                         *)
(*   create   "host"                                INSERT the host        *)
(*   invite   "member", "insert" (once per target)                         *)
(*   join     "count", "existing", "write"                                 *)
(*   leave    "left", "remaining", "close" or "transfer"                   *)
(*   end      "close", "clear"                                             *)
(*                                                                         *)
(* A SELECT without ORDER BY answers its rows in any order, so rows[0] is  *)
(* any of them; the table has no key on (call, user), so a user may have   *)
(* several rows.  group_call_events is only written, never read: left out. *)
(***************************************************************************)
EXTENDS Naturals, FiniteSets

CONSTANTS
    Users,            \* the members of the tenant
    Creator,          \* the one who creates the call
    NoUser,           \* the user of a row that is not there yet
    Rows,             \* identities of participant rows; bounds the inserts
    NoRow,            \* a handler that has no row, or found none
    Slots,            \* contexts for the requests that are in flight together
    MaxParticipants,  \* max_participants of the call
    MaxRequests,      \* bound: requests served in a behavior
    MaxWebhooks,      \* bound: webhooks delivered
    MaxFailures       \* bound: failed statements (a crash is several of them)

ASSUME UserAssumption == Creator \in Users /\ NoUser \notin Users
ASSUME RowAssumption == IsFiniteSet(Rows) /\ NoRow \notin Rows
ASSUME SlotAssumption == IsFiniteSet(Slots)
ASSUME CapacityAssumption == MaxParticipants \in Nat \ {0}
ASSUME BoundAssumption ==
    MaxRequests \in Nat /\ MaxWebhooks \in Nat /\ MaxFailures \in Nat

VARIABLES
    call,      \* group_calls: "none" before the INSERT, then its status
    part,      \* group_call_participants
    handler,   \* the handlers in flight
    requests, webhooks, failures   \* what the bounds count

boundVars == <<requests, webhooks, failures>>
vars == <<call, part, handler, boundVars>>

-----------------------------------------------------------------------------
(* Data *)

Participant == [user : Users \cup {NoUser}, role : {"participant", "host"},
                status : {"invited", "joined", "left"}]
Absent == [user |-> NoUser, role |-> "participant", status |-> "invited"]

\* below: join counted fewer participants than max_participants; host: leave
\* found the role "host" in the leaver's row; byId: end was called with the
\* id of the call and not with its room id.
Handlers == [op : {"idle", "create", "invite", "join", "leave", "end"},
             pc : {"idle", "host", "member", "insert", "count", "existing", "write",
                   "left", "remaining", "close", "transfer", "clear"},
             user : Users \cup {NoUser}, row : Rows \cup {NoRow},
             below : BOOLEAN, host : BOOLEAN, byId : BOOLEAN]
Idle == [op |-> "idle", pc |-> "idle", user |-> NoUser, row |-> NoRow,
         below |-> FALSE, host |-> FALSE, byId |-> FALSE]

Busy(s) == handler[s].op # "idle"
Quiescent == \A s \in Slots : ~Busy(s)

Free(r) == part[r].user = NoUser
RowsOf(u) == {r \in Rows : part[r].user = u}
JoinedRows == {r \in Rows : ~Free(r) /\ part[r].status = "joined"}

TypeOK ==
    /\ call \in {"none", "active", "ended"}
    /\ part \in [Rows -> Participant]
    /\ handler \in [Slots -> Handlers]
    /\ requests \in Nat /\ webhooks \in Nat /\ failures \in Nat

Init ==
    /\ call = "none"
    /\ part = [r \in Rows |-> Absent]
    /\ handler = [s \in Slots |-> Idle]
    /\ requests = 0 /\ webhooks = 0 /\ failures = 0

-----------------------------------------------------------------------------
(* How handlers move *)

\* The first statement of a request of user u; h is where it leads.
Request(s, h) ==
    /\ ~Busy(s)
    /\ requests < MaxRequests
    /\ requests' = requests + 1
    /\ handler' = [handler EXCEPT ![s] = h]
    /\ UNCHANGED <<webhooks, failures>>

\* The next statement of a handler.
Continue(s, h) ==
    /\ handler' = [handler EXCEPT ![s] = h]
    /\ UNCHANGED boundVars

At(s, op, pc) == handler[s].op = op /\ handler[s].pc = pc
Goto(s, pc) == [handler[s] EXCEPT !.pc = pc]

Insert(r, u, role, status) ==
    /\ Free(r)
    /\ part' = [part EXCEPT ![r] = [user |-> u, role |-> role, status |-> status]]

-----------------------------------------------------------------------------
(* POST / *)

\* INSERT of the call, active from the start.
Create(s) ==
    /\ call = "none"
    /\ call' = "active"
    /\ Request(s, [Idle EXCEPT !.op = "create", !.pc = "host", !.user = Creator])
    /\ UNCHANGED part

\* INSERT of its host.
CreateHost(s) ==
    /\ At(s, "create", "host")
    /\ \E r \in Rows : Insert(r, handler[s].user, "host", "joined")
    /\ Continue(s, Idle)
    /\ UNCHANGED call

-----------------------------------------------------------------------------
(* POST /:id/invite *)

\* The call is active.
Invite(s, u) ==
    /\ call = "active"
    /\ Request(s, [Idle EXCEPT !.op = "invite", !.pc = "member", !.user = u])
    /\ UNCHANGED <<call, part>>

\* Has the caller a joined row?
InviteMember(s) ==
    /\ At(s, "invite", "member")
    /\ Continue(s, IF RowsOf(handler[s].user) \cap JoinedRows # {}
                   THEN Goto(s, "insert") ELSE Idle)
    /\ UNCHANGED <<call, part>>

\* One target: a fresh row, whether or not the target has one already.  The
\* loop goes on with the next target or ends.
InviteInsert(s) ==
    /\ At(s, "invite", "insert")
    /\ \E r \in Rows, t \in Users : Insert(r, t, "participant", "invited")
    /\ \E h \in {handler[s], Idle} : Continue(s, h)
    /\ UNCHANGED call

-----------------------------------------------------------------------------
(* POST /:id/join *)

\* The call is active; 410 otherwise.
Join(s, u) ==
    /\ call = "active"
    /\ Request(s, [Idle EXCEPT !.op = "join", !.pc = "count", !.user = u])
    /\ UNCHANGED <<call, part>>

\* Mutant of JoinCount: off by one.
JoinCountLoose(s) ==
    /\ At(s, "join", "count")
    /\ Continue(s, [Goto(s, "existing") EXCEPT
                       !.below = Cardinality(JoinedRows) <= MaxParticipants])
    /\ UNCHANGED <<call, part>>

\* SELECT COUNT(*) of the joined rows.
JoinCount(s) ==
    /\ At(s, "join", "count")
    /\ Continue(s, [Goto(s, "existing") EXCEPT
                       !.below = Cardinality(JoinedRows) < MaxParticipants])
    /\ UNCHANGED <<call, part>>

\* SELECT of the user's rows, and the capacity check: 409 unless the count
\* was below the limit or rows[0] is joined.
JoinExisting(s) ==
    /\ At(s, "join", "existing")
    /\ LET mine == RowsOf(handler[s].user)
       IN  \E r \in IF mine = {} THEN {NoRow} ELSE mine :
              Continue(s, IF handler[s].below \/ r \in JoinedRows
                          THEN [Goto(s, "write") EXCEPT !.row = r]
                          ELSE Idle)
    /\ UNCHANGED <<call, part>>

\* UPDATE of rows[0], which keeps its role, or INSERT of a row.  What follows
\* (event, broadcast, the call conversation) reads nothing of this state.
JoinWrite(s) ==
    /\ At(s, "join", "write")
    /\ LET h == handler[s]
       IN  IF h.row # NoRow
           THEN part' = [part EXCEPT ![h.row].status = "joined"]
           ELSE \E r \in Rows :
                  Insert(r, h.user, IF h.user = Creator THEN "host" ELSE "participant",
                         "joined")
    /\ Continue(s, Idle)
    /\ UNCHANGED call

-----------------------------------------------------------------------------
(* POST /:id/leave *)

\* SELECT of the user's rows, whatever the status of the call; 400 without one.
Leave(s, u) ==
    /\ call # "none"
    /\ \E r \in RowsOf(u) :
          Request(s, [Idle EXCEPT !.op = "leave", !.pc = "left", !.user = u, !.row = r,
                                  !.host = (part[r].role = "host")])
    /\ UNCHANGED <<call, part>>

\* UPDATE of rows[0].
LeaveLeft(s) ==
    /\ At(s, "leave", "left")
    /\ part' = [part EXCEPT ![handler[s].row].status = "left"]
    /\ Continue(s, Goto(s, "remaining"))
    /\ UNCHANGED call

\* Mutants of LeaveRemaining: the last one does not close the call; a leaving
\* host hands the call to nobody.
LeaveRemainingKeepsCall(s) ==
    /\ At(s, "leave", "remaining")
    /\ IF JoinedRows # {} /\ handler[s].host
       THEN \E r \in JoinedRows : Continue(s, [Goto(s, "transfer") EXCEPT !.row = r])
       ELSE Continue(s, Idle)
    /\ UNCHANGED <<call, part>>

LeaveRemainingNoTransfer(s) ==
    /\ At(s, "leave", "remaining")
    /\ Continue(s, IF JoinedRows = {} THEN Goto(s, "close") ELSE Idle)
    /\ UNCHANGED <<call, part>>

\* SELECT of the joined rows: none closes the call, a leaving host hands it to
\* rows[0].
LeaveRemaining(s) ==
    /\ At(s, "leave", "remaining")
    /\ CASE JoinedRows = {}  -> Continue(s, Goto(s, "close"))
         [] JoinedRows # {} /\ handler[s].host ->
                \E r \in JoinedRows : Continue(s, [Goto(s, "transfer") EXCEPT !.row = r])
         [] OTHER            -> Continue(s, Idle)
    /\ UNCHANGED <<call, part>>

LeaveClose(s) ==
    /\ At(s, "leave", "close")
    /\ call' = "ended"
    /\ Continue(s, Idle)
    /\ UNCHANGED part

LeaveTransfer(s) ==
    /\ At(s, "leave", "transfer")
    /\ part' = [part EXCEPT ![handler[s].row].role = "host"]
    /\ Continue(s, Idle)
    /\ UNCHANGED call

-----------------------------------------------------------------------------
(* POST /:id/end *)

\* The lookup takes the id or the room id; then the role check: rows[0] is a
\* host, or the caller created the call.  403 otherwise.
End(s, u) ==
    /\ call # "none"
    /\ \/ u = Creator
       \/ \E r \in RowsOf(u) : part[r].role = "host"
    /\ \E byId \in BOOLEAN :
          Request(s, [Idle EXCEPT !.op = "end", !.pc = "close", !.user = u, !.byId = byId])
    /\ UNCHANGED <<call, part>>

\* UPDATE ... WHERE id = the parameter, which is not callId.
EndClose(s) ==
    /\ At(s, "end", "close")
    /\ call' = IF handler[s].byId THEN "ended" ELSE call
    /\ Continue(s, Goto(s, "clear"))
    /\ UNCHANGED part

\* UPDATE of the joined participants, by the same parameter.
EndClear(s) ==
    /\ At(s, "end", "clear")
    /\ part' = IF handler[s].byId
               THEN [r \in Rows |-> IF r \in JoinedRows
                                    THEN [part[r] EXCEPT !.status = "left"] ELSE part[r]]
               ELSE part
    /\ Continue(s, Idle)
    /\ UNCHANGED call

-----------------------------------------------------------------------------
(* The LiveKit webhook, and failures *)

\* participant_left: every row of the user.
WebhookLeft(u) ==
    /\ webhooks < MaxWebhooks
    /\ webhooks' = webhooks + 1
    /\ part' = [r \in Rows |-> IF part[r].user = u
                               THEN [part[r] EXCEPT !.status = "left"] ELSE part[r]]
    /\ UNCHANGED <<call, handler, requests, failures>>

\* room_finished: the call, not its participants.
WebhookFinished ==
    /\ call = "active"
    /\ webhooks < MaxWebhooks
    /\ webhooks' = webhooks + 1
    /\ call' = "ended"
    /\ UNCHANGED <<part, handler, requests, failures>>

\* The next statement fails: the handler answers 500 and leaves what it has
\* written so far.
Fail(s) ==
    /\ Busy(s)
    /\ failures < MaxFailures
    /\ failures' = failures + 1
    /\ handler' = [handler EXCEPT ![s] = Idle]
    /\ UNCHANGED <<call, part, requests, webhooks>>

-----------------------------------------------------------------------------

CreateStep(s) == Create(s) \/ CreateHost(s)
InviteStep(s) == (\E u \in Users : Invite(s, u)) \/ InviteMember(s) \/ InviteInsert(s)
JoinStep(s) ==
    (\E u \in Users : Join(s, u)) \/ JoinCount(s) \/ JoinExisting(s) \/ JoinWrite(s)
LeaveStep(s) ==
    \/ \E u \in Users : Leave(s, u)
    \/ LeaveLeft(s) \/ LeaveRemaining(s) \/ LeaveClose(s) \/ LeaveTransfer(s)
EndStep(s) == (\E u \in Users : End(s, u)) \/ EndClose(s) \/ EndClear(s)

Next ==
    \/ \E s \in Slots :
          \/ CreateStep(s)
          \/ InviteStep(s)
          \/ JoinStep(s)
          \/ LeaveStep(s)
          \/ EndStep(s)
          \/ Fail(s)
    \/ \E u \in Users : WebhookLeft(u)
    \/ WebhookFinished

Spec == Init /\ [][Next]_vars

-----------------------------------------------------------------------------
(* Properties *)

\* The capacity check of /join is a check-then-act over three statements; it
\* still bounds the call: at most one participant too many for every further
\* request that is in flight, whatever leaves, re-invitations, webhooks and
\* failures come in between.
BoundedOvershoot ==
    Cardinality(JoinedRows) + 1 <= MaxParticipants + Cardinality(Slots)

\* However leaves, joins and ends interleave, a call that everybody has left
\* is ended once the handlers are done; only a webhook or a failed statement
\* can leave an empty call active.
NoEmptyCall ==
    Quiescent /\ call = "active" /\ webhooks = 0 /\ failures = 0 => JoinedRows # {}

\* For requests served one at a time: an active call has a host among its
\* participants, through every transfer, re-join and duplicate row.
HostPresent ==
    Quiescent /\ call = "active" /\ webhooks = 0 /\ failures = 0
        => \E r \in JoinedRows : part[r].role = "host"

\* For requests served one at a time: when a call has ended, nobody is in it.
EndedMeansEmpty ==
    Quiescent /\ call = "ended" /\ webhooks = 0 /\ failures = 0 => JoinedRows = {}

-----------------------------------------------------------------------------
(* The inductive strengthening of the properties that are proved *)

\* The slots whose handler may still add a joined row that is not counted ...
Adding(s) ==
    \/ At(s, "create", "host")
    \/ At(s, "join", "existing") /\ handler[s].below
    \/ At(s, "join", "write") /\ handler[s].row = NoRow
Updating(s) == At(s, "join", "write") /\ handler[s].row # NoRow
Approved == {s \in Slots : Adding(s)}
\* ... and the rows that are joined or about to be updated to joined.
Claimed == JoinedRows \cup {handler[s].row : s \in {q \in Slots : Updating(q)}}

OvershootInv ==
    /\ Cardinality(Claimed) + Cardinality(Approved) + 1
           <= MaxParticipants + Cardinality(Slots)
    /\ call = "none" => Quiescent /\ JoinedRows = {}

\* An active call without participants has a handler that will add one or
\* notice; an /end that clears the participants has ended the call.
EmptyNoticed ==
    call = "active" /\ JoinedRows = {} /\ webhooks = 0 /\ failures = 0
        => \E s \in Slots : \/ At(s, "create", "host")
                            \/ At(s, "leave", "remaining")
                            \/ At(s, "leave", "close")
EndingClears ==
    \A s \in Slots : At(s, "end", "clear") /\ handler[s].byId => call = "ended"
RowsTaken == \A s \in Slots : handler[s].row # NoRow => ~Free(handler[s].row)

\* A handler at work has a user; a leave or a transfer has a row.
HandlerInv ==
    \A s \in Slots :
        /\ Busy(s) => handler[s].user \in Users
        /\ handler[s].pc \in {"left", "transfer"} => handler[s].row \in Rows
TypeInv == TypeOK /\ HandlerInv
EmptyInv == EmptyNoticed /\ EndingClears /\ RowsTaken
=============================================================================
