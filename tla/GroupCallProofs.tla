--------------------------- MODULE GroupCallProofs ---------------------------
(***************************************************************************)
(* What is proved about group calls (GroupCall, GroupCallSerial) and about *)
(* the negotiation of a 1:1 call (PeerLink).  The specifications share no  *)
(* name; no theorem is about both.                                         *)
(*                                                                         *)
(* Group calls, for any number of users, rows, requests in flight,         *)
(* webhooks and failures: their types, the bound on how far the capacity   *)
(* check can be overshot, that no active call stays empty, and that        *)
(* requests served one at a time keep a host in an active call.            *)
(*                                                                         *)
(* PeerLink, for any number of tabs, candidates, prefixes and ICE          *)
(* disconnections: LinkInv is inductive.  A call between the caller and    *)
(* one tab is at one of the Points of its negotiation (StageInv): each     *)
(* action first gets a relation that says what it does to one tab          *)
(* (AcquireStep, LocalOfferStep, ..., NetworkStep), and from a point that  *)
(* relation leads to the same point or to the next (DeliveryMoves, ...,    *)
(* NetworkMoves).  With the point known, the candidates of the first       *)
(* negotiation are followed from POST to connection (Follows).             *)
(***************************************************************************)
EXTENDS GroupCallSerial, PeerLink, FiniteSetTheorems, TLAPS

\* The rows and handlers the calls start from have the declared types.
LEMMA InitialTypes ==
    /\ Absent \in Participant
    /\ Idle \in Handlers /\ Idle.op = "idle" /\ Idle.pc = "idle" /\ Idle.row = NoRow
  BY DEF Absent, Participant, Idle, Handlers

\* A handler that moves on is still a handler.
LEMMA GotoType ==
  ASSUME TypeOK, NEW s \in Slots,
         NEW stage \in {"insert", "existing", "write", "remaining", "close", "transfer",
                     "clear"}
  PROVE  /\ Goto(s, stage) \in Handlers
         /\ Goto(s, stage).op = handler[s].op /\ Goto(s, stage).pc = stage
         /\ Goto(s, stage).row = handler[s].row /\ Goto(s, stage).byId = handler[s].byId
         /\ Goto(s, stage).user = handler[s].user
  BY DEF TypeOK, Goto, Handlers

\* The same for one that moves on with a row.
LEMMA GotoRowType ==
  ASSUME TypeOK, NEW s \in Slots, NEW stage \in {"write", "transfer"},
         NEW r \in Rows \cup {NoRow}
  PROVE  LET h == [Goto(s, stage) EXCEPT !.row = r]
         IN  /\ h \in Handlers
             /\ h.op = handler[s].op /\ h.pc = stage
             /\ h.user = handler[s].user /\ h.row = r
  BY DEF TypeOK, Goto, Handlers

\* A step that only moves one handler, and possibly counts, keeps the types.
LEMMA MoveType ==
  ASSUME TypeInv, NEW s \in Slots, NEW h \in Handlers,
         handler' = [handler EXCEPT ![s] = h],
         h.op # "idle" => h.user \in Users,
         h.pc \in {"left", "transfer"} => h.row \in Rows,
         part' \in [Rows -> Participant],
         call' \in {"none", "active", "ended"},
         requests' \in Nat /\ webhooks' \in Nat /\ failures' \in Nat
  PROVE  TypeInv'
  BY DEF TypeInv, TypeOK, HandlerInv, Busy

\* The first statement of a request: the same, with the handler it leads to.
LEMMA RequestType ==
  ASSUME TypeInv, NEW s \in Slots, NEW h \in Handlers, Request(s, h),
         h.op # "idle" => h.user \in Users,
         h.pc \in {"left", "transfer"} => h.row \in Rows,
         part' \in [Rows -> Participant],
         call' \in {"none", "active", "ended"}
  PROVE  TypeInv'
<1>1. handler' = [handler EXCEPT ![s] = h]
  BY DEF Request
<1>2. requests' \in Nat /\ webhooks' \in Nat /\ failures' \in Nat
  BY DEF Request, TypeInv, TypeOK
<1>3. QED BY <1>1, <1>2, MoveType

\* A later statement of a handler.
LEMMA ContinueType ==
  ASSUME TypeInv, NEW s \in Slots, NEW h \in Handlers, Continue(s, h),
         h.op # "idle" => h.user \in Users,
         h.pc \in {"left", "transfer"} => h.row \in Rows,
         part' \in [Rows -> Participant],
         call' \in {"none", "active", "ended"}
  PROVE  TypeInv'
  BY MoveType DEF Continue, boundVars, TypeInv, TypeOK

\* Inserting a row keeps the table well typed.
LEMMA InsertType ==
  ASSUME TypeOK, NEW r \in Rows, NEW u \in Users \cup {NoUser},
         NEW role \in {"participant", "host"},
         NEW status \in {"invited", "joined", "left"}, Insert(r, u, role, status)
  PROVE  part' \in [Rows -> Participant]
  BY DEF TypeOK, Insert, Participant

-----------------------------------------------------------------------------

\* Every step preserves the types, and leaves and transfers always know a row.
LEMMA TypeStep == TypeInv /\ [Next]_vars => TypeInv'
<1> SUFFICES ASSUME TypeInv, [Next]_vars PROVE TypeInv'
  OBVIOUS
<1>0. /\ TypeOK /\ part \in [Rows -> Participant]
      /\ call \in {"none", "active", "ended"} /\ handler \in [Slots -> Handlers]
      /\ \A s \in Slots : handler[s].op # "idle" => handler[s].user \in Users
  BY DEF TypeInv, TypeOK, HandlerInv, Busy
<1>1. CASE UNCHANGED vars
  BY <1>1 DEF vars, boundVars, TypeInv, TypeOK, HandlerInv, Busy
<1>2. ASSUME NEW s \in Slots, Create(s) PROVE TypeInv'
  <2> DEFINE h == [Idle EXCEPT !.op = "create", !.pc = "host", !.user = Creator]
  <2>1. h \in Handlers /\ h.pc = "host" /\ h.user \in Users
    BY InitialTypes, UserAssumption DEF Handlers, Idle
  <2>2. Request(s, h) /\ call' = "active" /\ part' = part
    BY <1>2 DEF Create
  <2> HIDE DEF h
  <2>3. QED BY <1>0, <2>1, <2>2, RequestType
<1>3. ASSUME NEW s \in Slots, CreateHost(s) PROVE TypeInv'
  <2>1. part' \in [Rows -> Participant]
    BY <1>0, <1>3, InsertType DEF CreateHost, Handlers
  <2>2. QED BY <1>0, <1>3, <2>1, InitialTypes, ContinueType DEF CreateHost
<1>4. ASSUME NEW s \in Slots, NEW u \in Users, Invite(s, u) PROVE TypeInv'
  <2> DEFINE h == [Idle EXCEPT !.op = "invite", !.pc = "member", !.user = u]
  <2>1. h \in Handlers /\ h.pc = "member" /\ h.user = u
    BY InitialTypes DEF Handlers, Idle
  <2>2. Request(s, h) /\ call' = call /\ part' = part
    BY <1>4 DEF Invite
  <2> HIDE DEF h
  <2>3. QED BY <1>0, <2>1, <2>2, RequestType
<1>5. ASSUME NEW s \in Slots, InviteMember(s) PROVE TypeInv'
  <2>1. \E h \in {Goto(s, "insert"), Idle} : Continue(s, h)
    BY <1>5 DEF InviteMember
  <2>2. QED BY <1>0, <1>5, <2>1, GotoType, InitialTypes, ContinueType DEF InviteMember
<1>6. ASSUME NEW s \in Slots, InviteInsert(s) PROVE TypeInv'
  <2>1. part' \in [Rows -> Participant]
    BY <1>0, <1>6, InsertType DEF InviteInsert
  <2>2. handler[s] \in Handlers /\ handler[s].pc = "insert"
    BY <1>0, <1>6 DEF InviteInsert, At
  <2>3. QED BY <1>0, <1>6, <2>1, <2>2, InitialTypes, ContinueType DEF InviteInsert
<1>7. ASSUME NEW s \in Slots, NEW u \in Users, Join(s, u) PROVE TypeInv'
  <2> DEFINE h == [Idle EXCEPT !.op = "join", !.pc = "count", !.user = u]
  <2>1. h \in Handlers /\ h.pc = "count" /\ h.user = u
    BY InitialTypes DEF Handlers, Idle
  <2>2. Request(s, h) /\ call' = call /\ part' = part
    BY <1>7 DEF Join
  <2> HIDE DEF h
  <2>3. QED BY <1>0, <2>1, <2>2, RequestType
<1>8. ASSUME NEW s \in Slots, JoinCount(s) PROVE TypeInv'
  <2> DEFINE h == [Goto(s, "existing") EXCEPT
                       !.below = Cardinality(JoinedRows) < MaxParticipants]
  <2>1. h \in Handlers /\ h.pc = "existing" /\ h.op = handler[s].op /\ h.user = handler[s].user
    <3>1. (Cardinality(JoinedRows) < MaxParticipants) \in BOOLEAN
      OBVIOUS
    <3>2. QED BY <1>0, <3>1 DEF Goto, Handlers
  <2>2. Continue(s, h) /\ call' = call /\ part' = part
    BY <1>8 DEF JoinCount
  <2> HIDE DEF h
  <2>3. QED BY <1>0, <2>1, <2>2, ContinueType
<1>9. ASSUME NEW s \in Slots, JoinExisting(s) PROVE TypeInv'
  <2>1. PICK r \in Rows \cup {NoRow} :
          \/ Continue(s, [Goto(s, "write") EXCEPT !.row = r])
          \/ Continue(s, Idle)
    BY <1>9 DEF JoinExisting, RowsOf
  <2>2. part' = part /\ call' = call
    BY <1>9 DEF JoinExisting
  <2>3. CASE Continue(s, [Goto(s, "write") EXCEPT !.row = r])
    <3> DEFINE h == [Goto(s, "write") EXCEPT !.row = r]
    <3>1. h \in Handlers /\ h.pc = "write" /\ h.op = handler[s].op /\ h.user = handler[s].user
      BY <1>0, GotoRowType
    <3> HIDE DEF h
    <3>2. QED BY <1>0, <2>2, <2>3, <3>1, ContinueType DEF h
  <2>4. CASE Continue(s, Idle)
    BY <1>0, <2>2, <2>4, InitialTypes, ContinueType
  <2>5. QED BY <2>1, <2>3, <2>4
<1>10. ASSUME NEW s \in Slots, JoinWrite(s) PROVE TypeInv'
  <2>1. part' \in [Rows -> Participant]
    <3>1. CASE handler[s].row # NoRow
      BY <1>0, <1>10, <3>1 DEF JoinWrite, Participant
    <3>2. CASE handler[s].row = NoRow
      <4>1. PICK r \in Rows, role \in {"participant", "host"} :
                Insert(r, handler[s].user, role, "joined")
        BY <1>10, <3>2 DEF JoinWrite
      <4>2. handler[s].user \in Users \cup {NoUser}
        BY <1>0 DEF Handlers
      <4>3. QED BY <1>0, <4>1, <4>2, InsertType
    <3>3. QED BY <3>1, <3>2
  <2>2. Continue(s, Idle) /\ call' = call
    BY <1>10 DEF JoinWrite
  <2>3. QED BY <1>0, <2>1, <2>2, InitialTypes, ContinueType
<1>11. ASSUME NEW s \in Slots, NEW u \in Users, Leave(s, u) PROVE TypeInv'
  <2>1. PICK r \in RowsOf(u) :
          Request(s, [Idle EXCEPT !.op = "leave", !.pc = "left", !.user = u, !.row = r,
                                  !.host = (part[r].role = "host")])
    BY <1>11 DEF Leave
  <2> DEFINE h == [Idle EXCEPT !.op = "leave", !.pc = "left", !.user = u, !.row = r,
                               !.host = (part[r].role = "host")]
  <2>2. h \in Handlers /\ h.row \in Rows /\ h.user = u
    BY InitialTypes DEF Handlers, Idle, RowsOf
  <2>3. Request(s, h) /\ call' = call /\ part' = part
    BY <1>11, <2>1 DEF Leave
  <2> HIDE DEF h
  <2>4. QED BY <1>0, <2>2, <2>3, RequestType
<1>12. ASSUME NEW s \in Slots, LeaveLeft(s) PROVE TypeInv'
  <2>1. part' \in [Rows -> Participant]
    BY <1>0, <1>12 DEF LeaveLeft, Participant
  <2>2. QED BY <1>0, <1>12, <2>1, GotoType, ContinueType DEF LeaveLeft
<1>13. ASSUME NEW s \in Slots, LeaveRemaining(s) PROVE TypeInv'
  <2>1. \/ Continue(s, Goto(s, "close"))
        \/ \E r \in Rows : Continue(s, [Goto(s, "transfer") EXCEPT !.row = r])
        \/ Continue(s, Idle)
    BY <1>13 DEF LeaveRemaining, JoinedRows
  <2>2. part' = part /\ call' = call
    BY <1>13 DEF LeaveRemaining
  <2>3. ASSUME NEW r \in Rows, Continue(s, [Goto(s, "transfer") EXCEPT !.row = r])
        PROVE  TypeInv'
    <3> DEFINE h == [Goto(s, "transfer") EXCEPT !.row = r]
    <3>1. h \in Handlers /\ h.row = r /\ h.op = handler[s].op /\ h.user = handler[s].user
      BY <1>0, GotoRowType
    <3> HIDE DEF h
    <3>2. QED BY <1>0, <2>2, <2>3, <3>1, ContinueType DEF h
  <2>4. CASE Continue(s, Idle)
    BY <1>0, <2>2, <2>4, InitialTypes, ContinueType
  <2>5. CASE Continue(s, Goto(s, "close"))
    BY <1>0, <2>2, <2>5, GotoType, ContinueType
  <2>6. QED BY <2>1, <2>3, <2>4, <2>5
<1>14. ASSUME NEW s \in Slots, LeaveClose(s) PROVE TypeInv'
  BY <1>0, <1>14, InitialTypes, ContinueType DEF LeaveClose
<1>15. ASSUME NEW s \in Slots, LeaveTransfer(s) PROVE TypeInv'
  <2>1. part' \in [Rows -> Participant]
    BY <1>0, <1>15 DEF LeaveTransfer, Participant
  <2>2. QED BY <1>0, <1>15, <2>1, InitialTypes, ContinueType DEF LeaveTransfer
<1>16. ASSUME NEW s \in Slots, NEW u \in Users, End(s, u) PROVE TypeInv'
  <2>1. PICK byId \in BOOLEAN :
          Request(s, [Idle EXCEPT !.op = "end", !.pc = "close", !.user = u, !.byId = byId])
    BY <1>16 DEF End
  <2> DEFINE h == [Idle EXCEPT !.op = "end", !.pc = "close", !.user = u, !.byId = byId]
  <2>2. h \in Handlers /\ h.pc = "close" /\ h.user = u
    BY InitialTypes DEF Handlers, Idle
  <2>3. Request(s, h) /\ call' = call /\ part' = part
    BY <1>16, <2>1 DEF End
  <2> HIDE DEF h
  <2>4. QED BY <1>0, <2>2, <2>3, RequestType
<1>17. ASSUME NEW s \in Slots, EndClose(s) PROVE TypeInv'
  BY <1>0, <1>17, GotoType, ContinueType DEF EndClose
<1>18. ASSUME NEW s \in Slots, EndClear(s) PROVE TypeInv'
  <2>1. part' \in [Rows -> Participant]
    BY <1>0, <1>18 DEF EndClear, Participant
  <2>2. QED BY <1>0, <1>18, <2>1, InitialTypes, ContinueType DEF EndClear
<1>19. ASSUME NEW s \in Slots, Fail(s) PROVE TypeInv'
  <2>1. /\ handler' = [handler EXCEPT ![s] = Idle] /\ part' = part /\ call' = call
        /\ requests' \in Nat /\ webhooks' \in Nat /\ failures' \in Nat
    BY <1>19 DEF Fail, TypeInv, TypeOK
  <2>2. QED BY <1>0, <2>1, InitialTypes, MoveType
<1>20. ASSUME NEW u \in Users, WebhookLeft(u) PROVE TypeInv'
  <2>1. part' \in [Rows -> Participant]
    BY <1>0, <1>20 DEF WebhookLeft, Participant
  <2>2. QED BY <1>20, <2>1 DEF WebhookLeft, TypeInv, TypeOK, HandlerInv, Busy
<1>21. CASE WebhookFinished
  BY <1>21 DEF WebhookFinished, TypeInv, TypeOK, HandlerInv, Busy
<1>22. QED
  BY <1>1, <1>2, <1>3, <1>4, <1>5, <1>6, <1>7, <1>8, <1>9, <1>10, <1>11, <1>12, <1>13,
     <1>14, <1>15, <1>16, <1>17, <1>18, <1>19, <1>20, <1>21
  DEF Next, CreateStep, InviteStep, JoinStep, LeaveStep, EndStep

\* The tables and handlers always have their types.
THEOREM TypeCorrect == Spec => []TypeOK
<1>1. Init => TypeInv
  BY InitialTypes DEF Init, TypeInv, TypeOK, HandlerInv, Busy
<1>2. TypeInv => TypeOK
  BY DEF TypeInv
<1>3. QED BY <1>1, <1>2, TypeStep, PTL DEF Spec

-----------------------------------------------------------------------------
(* How far the capacity check can be overshot *)

Targets == {handler[s].row : s \in {q \in Slots : Updating(q)}}
Weight == Cardinality(Claimed) + Cardinality(Approved)

\* Everything that is counted is finite.
LEMMA Finite ==
  ASSUME TypeInv
  PROVE  /\ Claimed \subseteq Rows /\ IsFiniteSet(Claimed) /\ Cardinality(Claimed) \in Nat
         /\ IsFiniteSet(JoinedRows) /\ Cardinality(JoinedRows) \in Nat
         /\ JoinedRows \subseteq Claimed
         /\ IsFiniteSet(Approved) /\ Cardinality(Approved) \in Nat
         /\ Cardinality(Slots) \in Nat
<1>1. Claimed \subseteq Rows /\ JoinedRows \subseteq Claimed /\ Approved \subseteq Slots
  BY DEF Claimed, JoinedRows, Approved, Updating, TypeInv, TypeOK, Handlers
<1>2. JoinedRows \subseteq Rows
  BY <1>1
<1>3. QED
  BY <1>1, <1>2, RowAssumption, SlotAssumption, FS_Subset, FS_CardinalityType

\* The same of the next state.
LEMMA FiniteNext ==
  ASSUME TypeInv'
  PROVE  /\ IsFiniteSet(Claimed') /\ Cardinality(Claimed') \in Nat
         /\ IsFiniteSet(Approved') /\ Cardinality(Approved') \in Nat
         /\ Weight' \in Nat
<1>1. Claimed' \subseteq Rows /\ Approved' \subseteq Slots
  BY DEF Claimed, JoinedRows, Approved, Updating, TypeInv, TypeOK, Handlers
<1>2. /\ IsFiniteSet(Claimed') /\ Cardinality(Claimed') \in Nat
      /\ IsFiniteSet(Approved') /\ Cardinality(Approved') \in Nat
  BY <1>1, RowAssumption, SlotAssumption, FS_Subset, FS_CardinalityType
<1>3. QED BY <1>2 DEF Weight

\* The weight does not grow when neither set does.
LEMMA WeightSmaller ==
  ASSUME TypeInv, TypeInv', Claimed' \subseteq Claimed, Approved' \subseteq Approved
  PROVE  Weight' <= Weight
<1>1. Cardinality(Claimed') <= Cardinality(Claimed)
  BY Finite, FS_Subset
<1>2. Cardinality(Approved') <= Cardinality(Approved)
  BY Finite, FS_Subset
<1>3. Cardinality(Claimed') \in Nat /\ Cardinality(Approved') \in Nat
  BY Finite, FS_Subset, FS_CardinalityType
<1>4. QED BY <1>1, <1>2, <1>3, Finite DEF Weight

\* One more element is at most one more.
LEMMA AddOne ==
  ASSUME NEW S, IsFiniteSet(S), NEW x
  PROVE  /\ IsFiniteSet(S \cup {x})
         /\ Cardinality(S \cup {x}) <= Cardinality(S) + 1
         /\ Cardinality(S \cup {x}) \in Nat
<1>1. Cardinality(S) \in Nat
  BY FS_CardinalityType
<1>2. /\ IsFiniteSet(S \cup {x})
      /\ Cardinality(S \cup {x}) = IF x \in S THEN Cardinality(S) ELSE Cardinality(S) + 1
  BY FS_AddElement
<1>3. QED BY <1>1, <1>2

\* Nor when a handler that was approved turns into the row it adds.
LEMMA WeightTraded ==
  ASSUME TypeInv, NEW r, NEW s \in Approved,
         Claimed' \subseteq Claimed \cup {r}, Approved' \subseteq Approved \ {s}
  PROVE  Weight' <= Weight
<1>1. /\ IsFiniteSet(Claimed \cup {r})
      /\ Cardinality(Claimed \cup {r}) <= Cardinality(Claimed) + 1
      /\ Cardinality(Claimed \cup {r}) \in Nat
  BY Finite, AddOne
<1>2. Cardinality(Claimed') <= Cardinality(Claimed) + 1 /\ Cardinality(Claimed') \in Nat
  BY <1>1, Finite, FS_Subset, FS_CardinalityType
<1>3. /\ IsFiniteSet(Approved \ {s})
      /\ Cardinality(Approved \ {s}) = Cardinality(Approved) - 1
  BY Finite, FS_RemoveElement
<1>4. Cardinality(Approved') <= Cardinality(Approved) - 1 /\ Cardinality(Approved') \in Nat
  BY <1>3, FS_Subset, FS_CardinalityType
<1>5. QED BY <1>2, <1>4, Finite DEF Weight

\* A handler that does not become one of the counted ones adds nothing.
LEMMA HandlerQuiet ==
  ASSUME TypeInv, NEW s \in Slots, NEW h, handler' = [handler EXCEPT ![s] = h],
         ~(h.op = "create" /\ h.pc = "host"),
         ~(h.op = "join" /\ h.pc \in {"existing", "write"})
  PROVE  /\ Approved' \subseteq Approved \ {s}
         /\ Targets' \subseteq {handler[q].row : q \in {q \in Slots : Updating(q) /\ q # s}}
<1>1. \A q \in Slots : handler'[q] = IF q = s THEN h ELSE handler[q]
  BY DEF TypeInv, TypeOK
<1>2. \A q \in Slots : Adding(q)' => q # s /\ Adding(q)
  BY <1>1 DEF Adding, At
<1>3. \A q \in Slots : Updating(q)' => q # s /\ Updating(q) /\ handler'[q].row = handler[q].row
  BY <1>1 DEF Updating, At
<1>4. QED BY <1>2, <1>3 DEF Approved, Targets

\* Hence a quiet step that makes no row joined adds nothing.
LEMMA QuietStep ==
  ASSUME TypeInv, TypeInv', NEW s \in Slots, NEW h, handler' = [handler EXCEPT ![s] = h],
         ~(h.op = "create" /\ h.pc = "host"),
         ~(h.op = "join" /\ h.pc \in {"existing", "write"}),
         JoinedRows' \subseteq JoinedRows
  PROVE  Weight' <= Weight
<1>1. /\ Approved' \subseteq Approved \ {s}
      /\ Targets' \subseteq {handler[q].row : q \in {q \in Slots : Updating(q) /\ q # s}}
  BY HandlerQuiet
<1>2. Claimed = JoinedRows \cup Targets /\ Claimed' = JoinedRows' \cup Targets'
  BY DEF Claimed, Targets
<1>3. {handler[q].row : q \in {q \in Slots : Updating(q) /\ q # s}} \subseteq Targets
  BY DEF Targets
<1>4. QED BY <1>1, <1>2, <1>3, WeightSmaller

\* Inserting a row that is not joined, or marking rows left, joins nobody.
LEMMA JoinsNobody ==
  ASSUME TypeInv,
         \/ part' = part
         \/ \E r \in Rows, t \in Users : Insert(r, t, "participant", "invited")
         \/ \E S \in SUBSET Rows :
               part' = [r \in Rows |-> IF r \in S THEN [part[r] EXCEPT !.status = "left"]
                                                  ELSE part[r]]
         \/ \E r \in Rows : part' = [part EXCEPT ![r].role = "host"]
  PROVE  JoinedRows' \subseteq JoinedRows
<1>1. CASE part' = part
  BY <1>1 DEF JoinedRows, Free
<1>2. CASE \E r \in Rows, t \in Users : Insert(r, t, "participant", "invited")
  BY <1>2 DEF Insert, JoinedRows, Free, TypeInv, TypeOK
<1>3. CASE \E S \in SUBSET Rows :
              part' = [r \in Rows |-> IF r \in S THEN [part[r] EXCEPT !.status = "left"]
                                                 ELSE part[r]]
  BY <1>3 DEF JoinedRows, Free, TypeInv, TypeOK, Participant
<1>4. CASE \E r \in Rows : part' = [part EXCEPT ![r].role = "host"]
  BY <1>4 DEF JoinedRows, Free, TypeInv, TypeOK, Participant
<1>5. QED BY <1>1, <1>2, <1>3, <1>4

\* The webhook marks rows left.
LEMMA WebhookJoinsNobody ==
  ASSUME TypeInv, NEW u \in Users, WebhookLeft(u)
  PROVE  JoinedRows' \subseteq JoinedRows
<1> DEFINE S == RowsOf(u)
<1>1. S \in SUBSET Rows
  BY DEF RowsOf
<1>2. part' = [r \in Rows |-> IF r \in S THEN [part[r] EXCEPT !.status = "left"]
                                         ELSE part[r]]
  BY DEF WebhookLeft, RowsOf
<1> HIDE DEF S
<1>3. QED BY <1>1, <1>2, JoinsNobody

\* An approved handler that adds one joined row and is done adds nothing.
LEMMA TradeStep ==
  ASSUME TypeInv, NEW r, NEW s \in Approved,
         handler' = [handler EXCEPT ![s] = Idle], JoinedRows' \subseteq JoinedRows \cup {r}
  PROVE  Weight' <= Weight
<1>1. s \in Slots /\ Idle.op = "idle"
  BY InitialTypes DEF Approved
<1>2. /\ Approved' \subseteq Approved \ {s}
      /\ Targets' \subseteq {handler[q].row : q \in {q \in Slots : Updating(q) /\ q # s}}
  BY <1>1, HandlerQuiet
<1>3. Claimed = JoinedRows \cup Targets /\ Claimed' = JoinedRows' \cup Targets'
  BY DEF Claimed, Targets
<1>4. {handler[q].row : q \in {q \in Slots : Updating(q) /\ q # s}} \subseteq Targets
  BY DEF Targets
<1>5. Claimed' \subseteq Claimed \cup {r}
  BY <1>2, <1>3, <1>4
<1>6. QED BY <1>2, <1>5, WeightTraded

\* The handlers that do not count: where each of their steps leads.
LEMMA QuietHandlers ==
  ASSUME TypeInv, NEW s \in Slots,
         \/ InviteStep(s) \/ LeaveStep(s) \/ EndStep(s) \/ Fail(s)
         \/ \E u \in Users : Join(s, u)
  PROVE  \E h : /\ handler' = [handler EXCEPT ![s] = h]
                /\ ~(h.op = "create" /\ h.pc = "host")
                /\ ~(h.op = "join" /\ h.pc \in {"existing", "write"})
<1> DEFINE Quiet(h) == /\ ~(h.op = "create" /\ h.pc = "host")
                       /\ ~(h.op = "join" /\ h.pc \in {"existing", "write"})
<1>1. Quiet(Idle)
  BY InitialTypes
<1>2. CASE \E u \in Users : Invite(s, u)
  <2>1. PICK u \in Users : Invite(s, u)
    BY <1>2
  <2> DEFINE h == [Idle EXCEPT !.op = "invite", !.pc = "member", !.user = u]
  <2>2. Quiet(h)
    BY DEF Idle
  <2>3. handler' = [handler EXCEPT ![s] = h]
    BY <2>1 DEF Invite, Request
  <2>4. QED BY <2>2, <2>3
<1>3. CASE \E u \in Users : Join(s, u)
  <2>1. PICK u \in Users : Join(s, u)
    BY <1>3
  <2> DEFINE h == [Idle EXCEPT !.op = "join", !.pc = "count", !.user = u]
  <2>2. Quiet(h)
    BY DEF Idle
  <2>3. handler' = [handler EXCEPT ![s] = h]
    BY <2>1 DEF Join, Request
  <2>4. QED BY <2>2, <2>3
<1>4. CASE \E u \in Users : Leave(s, u)
  <2>1. PICK u \in Users, r \in Rows :
          Request(s, [Idle EXCEPT !.op = "leave", !.pc = "left", !.user = u, !.row = r,
                                  !.host = (part[r].role = "host")])
    BY <1>4 DEF Leave, RowsOf
  <2> DEFINE h == [Idle EXCEPT !.op = "leave", !.pc = "left", !.user = u, !.row = r,
                               !.host = (part[r].role = "host")]
  <2>2. Quiet(h)
    BY DEF Idle
  <2>3. handler' = [handler EXCEPT ![s] = h]
    BY <2>1 DEF Request
  <2>4. QED BY <2>2, <2>3
<1>5. CASE \E u \in Users : End(s, u)
  <2>1. PICK u \in Users, byId \in BOOLEAN :
          Request(s, [Idle EXCEPT !.op = "end", !.pc = "close", !.user = u, !.byId = byId])
    BY <1>5 DEF End
  <2> DEFINE h == [Idle EXCEPT !.op = "end", !.pc = "close", !.user = u, !.byId = byId]
  <2>2. Quiet(h)
    BY DEF Idle
  <2>3. handler' = [handler EXCEPT ![s] = h]
    BY <2>1 DEF Request
  <2>4. QED BY <2>2, <2>3
<1>6. ASSUME NEW stage \in {"insert", "remaining", "close", "transfer", "clear"},
             NEW r \in Rows \cup {NoRow}
      PROVE  Quiet(Goto(s, stage)) /\ Quiet([Goto(s, stage) EXCEPT !.row = r])
  BY GotoType DEF TypeInv, Goto, TypeOK, Handlers
<1>7. CASE InviteMember(s)
  BY <1>1, <1>6, <1>7 DEF InviteMember, Continue
<1>8. CASE InviteInsert(s)
  BY <1>1, <1>8 DEF InviteInsert, Continue, At
<1>9. CASE LeaveLeft(s) \/ LeaveClose(s) \/ LeaveTransfer(s) \/ EndClose(s) \/ EndClear(s)
  BY <1>1, <1>6, <1>9
  DEF LeaveLeft, LeaveClose, LeaveTransfer, EndClose, EndClear, Continue
<1>10. CASE LeaveRemaining(s)
  <2>1. \E h : /\ Continue(s, h)
               /\ \/ h = Goto(s, "close")
                  \/ h = Idle
                  \/ \E r \in Rows : h = [Goto(s, "transfer") EXCEPT !.row = r]
    BY <1>10 DEF LeaveRemaining, JoinedRows
  <2>2. QED BY <1>1, <1>6, <2>1 DEF Continue
<1>11. CASE Fail(s)
  BY <1>1, <1>11 DEF Fail
<1>12. QED
  BY <1>2, <1>3, <1>4, <1>5, <1>7, <1>8, <1>9, <1>10, <1>11
  DEF InviteStep, LeaveStep, EndStep

\* The same steps join nobody.
LEMMA QuietRows ==
  ASSUME TypeInv, NEW s \in Slots,
         \/ InviteStep(s) \/ LeaveStep(s) \/ EndStep(s) \/ Fail(s)
         \/ \E u \in Users : Join(s, u)
  PROVE  JoinedRows' \subseteq JoinedRows
<1>1. CASE part' = part
  BY <1>1, JoinsNobody
<1>2. CASE InviteInsert(s)
  BY <1>2, JoinsNobody DEF InviteInsert
<1>3. CASE LeaveLeft(s)
  BY <1>3 DEF LeaveLeft, JoinedRows, Free, TypeInv, TypeOK, Participant
<1>4. CASE LeaveTransfer(s)
  <2>1. handler[s].row \in Rows
    BY <1>4 DEF LeaveTransfer, At, TypeInv, HandlerInv
  <2>2. QED BY <1>4, <2>1, JoinsNobody DEF LeaveTransfer
<1>5. CASE EndClear(s)
  BY <1>5 DEF EndClear, JoinedRows, Free, TypeInv, TypeOK, Participant
<1>6. QED
  BY <1>1, <1>2, <1>3, <1>4, <1>5
  DEF InviteStep, Invite, InviteMember, Join, LeaveStep, Leave, LeaveRemaining,
      LeaveClose, EndStep, End, EndClose, Fail

\* The weight of any state: the joined rows, and one per slot.
LEMMA WeightBound ==
  ASSUME TypeInv', JoinedRows' = JoinedRows, TypeInv
  PROVE  Weight' <= Cardinality(JoinedRows) + Cardinality(Slots)
<1> DEFINE U == {s \in Slots : Updating(s)'}
           T == {handler'[s].row : s \in U}
           f == [s \in U |-> handler'[s].row]
<1>1. f \in Surjection(U, T)
  BY DEF Surjection
<1>2. IsFiniteSet(U) /\ IsFiniteSet(JoinedRows)
  BY SlotAssumption, Finite, FS_Subset
<1>3. IsFiniteSet(T) /\ Cardinality(T) <= Cardinality(U)
  BY <1>1, <1>2, FS_Surjection
<1>4. Claimed' = JoinedRows \cup T
  BY DEF Claimed
<1>5. U \cap Approved' = {} /\ U \cup Approved' \subseteq Slots
  BY DEF Approved, Adding, Updating, At
<1>6. Cardinality(U) + Cardinality(Approved') <= Cardinality(Slots)
  <2>1. Cardinality(U \cup Approved') <= Cardinality(Slots)
    BY <1>5, SlotAssumption, FS_Subset
  <2>2. Cardinality(U \cup Approved') = Cardinality(U) + Cardinality(Approved') - 0
    <3>1. Cardinality(U \cap Approved') = 0
      BY <1>5, FS_EmptySet
    <3>2. QED BY <1>2, <3>1, FiniteNext, FS_Union
  <2>3. Cardinality(U) \in Nat /\ Cardinality(Approved') \in Nat
    BY <1>2, FiniteNext, FS_CardinalityType
  <2>4. QED BY <2>1, <2>2, <2>3
<1> HIDE DEF U, T
<1>7. Cardinality(Claimed') <= Cardinality(JoinedRows) + Cardinality(T)
  <2>1. /\ Cardinality(JoinedRows \cup T) =
             Cardinality(JoinedRows) + Cardinality(T) - Cardinality(JoinedRows \cap T)
    BY <1>2, <1>3, FS_Union
  <2>2. Cardinality(JoinedRows \cap T) \in Nat
    <3>1. (JoinedRows \cap T) \in SUBSET T
      OBVIOUS
    <3>2. QED BY <1>3, <3>1, FS_Subset, FS_CardinalityType
  <2>3. Cardinality(JoinedRows) \in Nat /\ Cardinality(T) \in Nat
    BY <1>2, <1>3, FS_CardinalityType
  <2>4. QED BY <1>4, <2>1, <2>2, <2>3
<1>8. /\ Cardinality(T) \in Nat /\ Cardinality(U) \in Nat /\ Cardinality(JoinedRows) \in Nat
      /\ Cardinality(Slots) \in Nat /\ Cardinality(Claimed') \in Nat
      /\ Cardinality(Approved') \in Nat
  BY <1>2, <1>3, Finite, FiniteNext, FS_CardinalityType
<1>9. QED BY <1>3, <1>6, <1>7, <1>8 DEF Weight

\* Every step keeps the bound on the weight.
LEMMA OvershootStep ==
  ASSUME TypeInv, TypeInv', OvershootInv, [Next]_vars
  PROVE  OvershootInv'
<1> DEFINE Limit == MaxParticipants + Cardinality(Slots)
<1>0. /\ Weight + 1 <= Limit /\ Limit \in Nat
      /\ Weight \in Nat /\ Weight' \in Nat
  <2>1. Cardinality(Slots) \in Nat /\ Weight \in Nat
    BY Finite DEF Weight
  <2>2. Limit \in Nat
    BY <2>1, CapacityAssumption
  <2>3. Weight + 1 <= Limit
    BY DEF OvershootInv, Weight
  <2>4. QED BY <2>1, <2>2, <2>3, FiniteNext
<1>a. ASSUME Weight' + 1 <= Limit, call' = "none" => Quiescent' /\ JoinedRows' = {}
      PROVE  OvershootInv'
  BY <1>a DEF OvershootInv, Weight
<1> HIDE DEF Limit
<1>1. ASSUME Weight' <= Weight PROVE Weight' + 1 <= Limit
  <2>1. \A v, w, l \in Nat : v <= w /\ w + 1 <= l => v + 1 <= l
    OBVIOUS
  <2>2. QED BY <1>0, <1>1, <2>1
<1>2. ASSUME call' = "none" PROVE Quiescent' /\ JoinedRows' = {}
  <2>1. call = "none" /\ Quiescent /\ JoinedRows = {}
    BY <1>2
    DEF OvershootInv, Next, vars, CreateStep, Create, CreateHost, InviteStep, Invite,
        InviteMember, InviteInsert, JoinStep, Join, JoinCount, JoinExisting, JoinWrite,
        LeaveStep, Leave, LeaveLeft, LeaveRemaining, LeaveClose, LeaveTransfer, EndStep,
        End, EndClose, EndClear, Fail, WebhookLeft, WebhookFinished
  <2>2. UNCHANGED vars \/ \E u \in Users : WebhookLeft(u)
    BY <1>2, <2>1
    DEF Quiescent, Busy, At, Next, CreateStep, Create, CreateHost, InviteStep, Invite,
        InviteMember, InviteInsert, JoinStep, Join, JoinCount, JoinExisting, JoinWrite,
        LeaveStep, Leave, LeaveLeft, LeaveRemaining, LeaveClose, LeaveTransfer, EndStep,
        End, EndClose, EndClear, Fail, WebhookFinished
  <2>3. CASE UNCHANGED vars
    BY <2>1, <2>3 DEF vars, Quiescent, Busy, JoinedRows, Free
  <2>4. ASSUME NEW u \in Users, WebhookLeft(u) PROVE Quiescent' /\ JoinedRows' = {}
    <3>1. JoinedRows' \subseteq JoinedRows
      BY <2>4, WebhookJoinsNobody
    <3>2. handler' = handler
      BY <2>4 DEF WebhookLeft
    <3>3. QED BY <2>1, <3>1, <3>2 DEF Quiescent, Busy
  <2>5. QED BY <2>2, <2>3, <2>4
<1>3. CASE UNCHANGED vars
  <2>1. Claimed' = Claimed /\ Approved' = Approved
    BY <1>3 DEF vars, Claimed, Approved, Adding, Updating, At, JoinedRows, Free
  <2>2. QED BY <1>1, <1>2, <1>a, <2>1, WeightSmaller
<1>4. CASE WebhookFinished \/ \E u \in Users : WebhookLeft(u)
  <2>1. JoinedRows' \subseteq JoinedRows
    BY <1>4, JoinsNobody, WebhookJoinsNobody DEF WebhookFinished
  <2>2. handler' = handler
    BY <1>4 DEF WebhookLeft, WebhookFinished
  <2>3. Claimed' \subseteq Claimed /\ Approved' \subseteq Approved
    BY <2>1, <2>2 DEF Claimed, Approved, Adding, Updating, At
  <2>4. QED BY <1>1, <1>2, <1>a, <2>3, WeightSmaller
<1>5. ASSUME NEW s \in Slots, Create(s) PROVE OvershootInv'
  <2>1. Quiescent /\ JoinedRows = {}
    BY <1>5 DEF Create, OvershootInv
  <2>2. \A q \in Slots : q # s => ~Adding(q)' /\ ~Updating(q)'
    BY <1>5, <2>1 DEF Create, Request, Quiescent, Busy, Adding, Updating, At, TypeInv, TypeOK
  <2>3. ~Updating(s)'
    BY <1>5 DEF Create, Request, Updating, At, TypeInv, TypeOK, Idle
  <2>4. JoinedRows' = {}
    BY <1>5, <2>1 DEF Create, JoinedRows, Free
  <2>5. Claimed' = {} /\ Approved' \subseteq {s}
    BY <2>2, <2>3, <2>4 DEF Claimed, Approved
  <2>6. Cardinality(Claimed') = 0 /\ Cardinality(Approved') <= 1
    <3>1. IsFiniteSet({s}) /\ Cardinality({s}) = 1
      BY FS_Singleton
    <3>2. Cardinality(Approved') <= 1
      BY <2>5, <3>1, FS_Subset
    <3>3. QED BY <2>5, <3>2, FS_EmptySet
  <2>7. 1 <= Cardinality(Slots)
    <3>1. {s} \subseteq Slots
      OBVIOUS
    <3>2. Cardinality({s}) = 1
      BY FS_Singleton
    <3>3. QED BY <3>1, <3>2, SlotAssumption, FS_Subset
  <2>8. Weight' + 1 <= Limit
    <3>1. Cardinality(Approved') \in Nat /\ Cardinality(Slots) \in Nat
      BY Finite, FiniteNext
    <3>2. QED BY <2>6, <2>7, <3>1, CapacityAssumption DEF Weight, Limit
  <2>9. QED BY <1>2, <1>a, <2>8
<1>6. ASSUME NEW s \in Slots, CreateHost(s) PROVE OvershootInv'
  <2>1. PICK r \in Rows : part' = [part EXCEPT ![r] = [user |-> handler[s].user,
                                     role |-> "host", status |-> "joined"]]
    BY <1>6 DEF CreateHost, Insert
  <2>2. JoinedRows' \subseteq JoinedRows \cup {r}
    BY <2>1 DEF JoinedRows, Free, TypeInv, TypeOK
  <2>3. s \in Approved
    BY <1>6 DEF CreateHost, Approved, Adding
  <2>4. handler' = [handler EXCEPT ![s] = Idle]
    BY <1>6 DEF CreateHost, Continue
  <2>5. QED BY <1>1, <1>2, <1>a, <2>2, <2>3, <2>4, TradeStep
<1>7. ASSUME NEW s \in Slots, JoinCount(s) PROVE OvershootInv'
  <2> DEFINE b == Cardinality(JoinedRows) < MaxParticipants
             h == [Goto(s, "existing") EXCEPT !.below = b]
  <2>1. /\ handler' = [handler EXCEPT ![s] = h] /\ JoinedRows' = JoinedRows
        /\ handler[s].op = "join" /\ handler[s].pc = "count"
    BY <1>7 DEF JoinCount, Continue, At, JoinedRows, Free
  <2>2. h.op = "join" /\ h.pc = "existing" /\ h.below = b
    BY <2>1 DEF Goto, TypeInv, TypeOK, Handlers
  <2> HIDE DEF h
  <2>3. \A q \in Slots : handler'[q] = IF q = s THEN h ELSE handler[q]
    BY <2>1 DEF TypeInv, TypeOK
  <2>4. \A q \in Slots : Updating(q)' => Updating(q) /\ handler'[q].row = handler[q].row
    BY <2>2, <2>3 DEF Updating, At
  <2>5. Claimed' \subseteq Claimed
    BY <2>1, <2>4 DEF Claimed
  <2>6. \A q \in Slots : Adding(q)' => (q = s /\ b) \/ Adding(q)
    BY <2>2, <2>3 DEF Adding, At
  <2>7. CASE ~b
    BY <1>1, <1>2, <1>a, <2>5, <2>6, <2>7, WeightSmaller DEF Approved
  <2>8. CASE b
    <3>1. Weight' <= Cardinality(JoinedRows) + Cardinality(Slots)
      BY <2>1, WeightBound
    <3>2. Cardinality(JoinedRows) + 1 <= MaxParticipants
      BY <2>8, Finite, CapacityAssumption
    <3>3. Weight' + 1 <= Limit
      <4>1. Cardinality(JoinedRows) \in Nat /\ Cardinality(Slots) \in Nat
        BY Finite
      <4>2. Limit = MaxParticipants + Cardinality(Slots) /\ MaxParticipants \in Nat
        BY CapacityAssumption DEF Limit
      <4>3. Weight' \in Nat
        BY <1>0
      <4>4. QED BY <3>1, <3>2, <4>1, <4>2, <4>3
    <3>4. QED BY <1>2, <1>a, <3>3
  <2>9. QED BY <2>7, <2>8
<1>10. ASSUME NEW s \in Slots, NEW h, handler' = [handler EXCEPT ![s] = h],
              ~(h.op = "create" /\ h.pc = "host"),
              ~(h.op = "join" /\ h.pc \in {"existing", "write"}),
              JoinedRows' \subseteq JoinedRows
       PROVE  OvershootInv'
  BY <1>1, <1>2, <1>a, <1>10, QuietStep
<1>8. ASSUME NEW s \in Slots, JoinExisting(s) PROVE OvershootInv'
  <2>1. PICK r \in Rows \cup {NoRow} :
          Continue(s, IF handler[s].below \/ r \in JoinedRows
                      THEN [Goto(s, "write") EXCEPT !.row = r] ELSE Idle)
    BY <1>8 DEF JoinExisting, RowsOf
  <2>2. JoinedRows' = JoinedRows /\ handler[s].op = "join" /\ handler[s].pc = "existing"
    BY <1>8 DEF JoinExisting, JoinedRows, Free, At
  <2>3. CASE ~(handler[s].below \/ r \in JoinedRows)
    <3>1. handler' = [handler EXCEPT ![s] = Idle]
      BY <2>1, <2>3 DEF Continue
    <3>2. QED BY <1>10, <2>2, <3>1, InitialTypes
  <2>4. CASE handler[s].below \/ r \in JoinedRows
    <3> DEFINE h == [Goto(s, "write") EXCEPT !.row = r]
    <3>1. handler' = [handler EXCEPT ![s] = h]
      BY <2>1, <2>4 DEF Continue
    <3>2. h.op = "join" /\ h.pc = "write" /\ h.row = r
      BY <2>2, GotoRowType DEF TypeInv
    <3> HIDE DEF h
    <3>3. \A q \in Slots : handler'[q] = IF q = s THEN h ELSE handler[q]
      BY <3>1 DEF TypeInv, TypeOK
    <3>4. \A q \in Slots : Updating(q)' =>
             \/ q = s /\ handler'[q].row = r
             \/ Updating(q) /\ handler'[q].row = handler[q].row
      BY <3>2, <3>3 DEF Updating, At
    <3>5. Claimed' \subseteq Claimed \cup {r}
      BY <2>2, <3>4 DEF Claimed
    <3>6. \A q \in Slots : Adding(q)' => (q = s /\ r = NoRow) \/ (q # s /\ Adding(q))
      BY <3>2, <3>3 DEF Adding, At
    <3>7. CASE r \in JoinedRows
      <4>1. r # NoRow
        BY <3>7, RowAssumption DEF JoinedRows
      <4>2. Claimed' \subseteq Claimed /\ Approved' \subseteq Approved
        BY <3>5, <3>6, <3>7, <4>1 DEF Approved, Claimed
      <4>3. QED BY <1>1, <1>2, <1>a, <4>2, WeightSmaller
    <3>8. CASE handler[s].below /\ r # NoRow
      <4>1. s \in Approved
        BY <2>2, <3>8 DEF Approved, Adding, At
      <4>2. Approved' \subseteq Approved \ {s}
        BY <3>6, <3>8 DEF Approved
      <4>3. QED BY <1>1, <1>2, <1>a, <3>5, <4>1, <4>2, WeightTraded
    <3>9. CASE handler[s].below /\ r = NoRow
      <4>1. s \in Approved
        BY <2>2, <3>9 DEF Approved, Adding, At
      <4>2. Approved' \subseteq Approved
        BY <3>6, <4>1 DEF Approved
      <4>3. ~Updating(s)'
        BY <3>2, <3>3, <3>9 DEF Updating
      <4>4. Claimed' \subseteq Claimed
        BY <2>2, <3>4, <4>3 DEF Claimed
      <4>5. QED BY <1>1, <1>2, <1>a, <4>2, <4>4, WeightSmaller
    <3>10. QED BY <2>4, <3>7, <3>8, <3>9
  <2>5. QED BY <2>3, <2>4
<1>9. ASSUME NEW s \in Slots, JoinWrite(s) PROVE OvershootInv'
  <2>1. handler' = [handler EXCEPT ![s] = Idle] /\ At(s, "join", "write")
    BY <1>9 DEF JoinWrite, Continue
  <2>2. CASE handler[s].row # NoRow
    <3>1. Updating(s) /\ part' = [part EXCEPT ![handler[s].row].status = "joined"]
      BY <1>9, <2>1, <2>2 DEF JoinWrite, Updating
    <3>2. handler[s].row \in Claimed
      BY <3>1 DEF Claimed
    <3>3. JoinedRows' \subseteq JoinedRows \cup {handler[s].row}
      BY <3>1 DEF JoinedRows, Free, TypeInv, TypeOK
    <3>4. /\ Approved' \subseteq Approved
          /\ Targets' \subseteq Targets
      BY <2>1, HandlerQuiet, InitialTypes DEF Targets
    <3>5. Claimed' \subseteq Claimed
      BY <3>2, <3>3, <3>4 DEF Claimed, Targets
    <3>6. QED BY <1>1, <1>2, <1>a, <3>4, <3>5, WeightSmaller
  <2>3. CASE handler[s].row = NoRow
    <3>1. PICK r \in Rows, role \in {"participant", "host"} :
              Insert(r, handler[s].user, role, "joined")
      BY <1>9, <2>3 DEF JoinWrite
    <3>2. JoinedRows' \subseteq JoinedRows \cup {r}
      BY <3>1 DEF Insert, JoinedRows, Free, TypeInv, TypeOK
    <3>3. s \in Approved
      BY <2>1, <2>3 DEF Approved, Adding
    <3>4. QED BY <1>1, <1>2, <1>a, <2>1, <3>2, <3>3, TradeStep
  <2>4. QED BY <2>2, <2>3
<1>11. ASSUME NEW s \in Slots,
              \/ InviteStep(s) \/ LeaveStep(s) \/ EndStep(s) \/ Fail(s)
              \/ \E u \in Users : Join(s, u)
       PROVE  OvershootInv'
  <2>1. PICK h : handler' = [handler EXCEPT ![s] = h]
                 /\ ~(h.op = "create" /\ h.pc = "host")
                 /\ ~(h.op = "join" /\ h.pc \in {"existing", "write"})
    BY <1>11, QuietHandlers
  <2>2. JoinedRows' \subseteq JoinedRows
    BY <1>11, QuietRows
  <2>3. QED BY <1>10, <2>1, <2>2
<1>12. QED
  BY <1>3, <1>4, <1>5, <1>6, <1>7, <1>8, <1>9, <1>11 DEF Next, CreateStep, JoinStep

\* At first nobody is joined and nobody about to.
LEMMA OvershootInit ==
  ASSUME Init
  PROVE  TypeInv /\ OvershootInv
<1>1. TypeInv
  BY InitialTypes DEF Init, TypeInv, TypeOK, HandlerInv, Busy
<1>2. Quiescent /\ JoinedRows = {}
  BY InitialTypes DEF Init, Quiescent, Busy, JoinedRows, Free, Absent
<1>3. Claimed = {} /\ Approved = {}
  BY <1>2 DEF Claimed, Approved, Updating, Adding, At, Quiescent, Busy
<1>4. Cardinality(Claimed) = 0 /\ Cardinality(Approved) = 0
  BY <1>3, FS_EmptySet
<1>5. Cardinality(Slots) \in Nat
  BY SlotAssumption, FS_CardinalityType
<1>6. QED BY <1>1, <1>2, <1>4, <1>5, CapacityAssumption DEF OvershootInv

\* The check-then-act of /join is overshot by at most one participant for each
\* further request in flight.
THEOREM OvershootBounded == Spec => []BoundedOvershoot
<1>1. Init => TypeInv /\ OvershootInv
  BY OvershootInit
<1>2. TypeInv /\ OvershootInv /\ [Next]_vars => (TypeInv /\ OvershootInv)'
  BY TypeStep, OvershootStep
<1>3. TypeInv /\ OvershootInv => BoundedOvershoot
  <2> SUFFICES ASSUME TypeInv, OvershootInv PROVE BoundedOvershoot
    OBVIOUS
  <2>1. Cardinality(JoinedRows) <= Cardinality(Claimed)
    BY Finite, FS_Subset
  <2>2. /\ Cardinality(JoinedRows) \in Nat /\ Cardinality(Claimed) \in Nat
        /\ Cardinality(Approved) \in Nat /\ Cardinality(Slots) \in Nat
    BY Finite
  <2>3. QED BY <2>1, <2>2, CapacityAssumption DEF OvershootInv, BoundedOvershoot
<1>4. QED BY <1>1, <1>2, <1>3, PTL DEF Spec

-----------------------------------------------------------------------------
(* No active call stays empty *)

Noticing(s) == At(s, "create", "host") \/ At(s, "leave", "remaining") \/ At(s, "leave", "close")

\* A handler that moves on disturbs no other handler.
LEMMA OthersKeep ==
  ASSUME TypeInv, NEW s \in Slots, NEW h, handler' = [handler EXCEPT ![s] = h]
  PROVE  /\ handler'[s] = h
         /\ \A q \in Slots : q # s => handler'[q] = handler[q]
         /\ \A q \in Slots : q # s /\ Noticing(q) => Noticing(q)'
  BY DEF TypeInv, TypeOK, Noticing, At

\* What a step makes of its handler: it comes to clear the participants from
\* the close of the call only, and it finds its row among those in use.
Shape(s, h) ==
    /\ h.op = "end" /\ h.pc = "clear" => EndClose(s) /\ h.byId = handler[s].byId
    /\ \/ h.row \in {NoRow, handler[s].row}
       \/ h.row \in Rows /\ ~Free(h.row)

SlotStep(s) ==
    CreateStep(s) \/ InviteStep(s) \/ JoinStep(s) \/ LeaveStep(s) \/ EndStep(s) \/ Fail(s)

LEMMA StepShape ==
  ASSUME TypeInv, NEW s \in Slots, SlotStep(s)
  PROVE  \E h : handler' = [handler EXCEPT ![s] = h] /\ Shape(s, h)
<1>1. Shape(s, Idle)
  BY InitialTypes DEF Shape
<1>2. ASSUME NEW stage \in {"insert", "remaining", "close"} PROVE Shape(s, Goto(s, stage))
  BY GotoType DEF Shape, TypeInv
<1>3. ASSUME handler' = [handler EXCEPT ![s] = Idle]
      PROVE  \E h : handler' = [handler EXCEPT ![s] = h] /\ Shape(s, h)
  BY <1>1, <1>3
<1>4. ASSUME NEW stage \in {"insert", "remaining", "close"},
             handler' = [handler EXCEPT ![s] = Goto(s, stage)]
      PROVE  \E h : handler' = [handler EXCEPT ![s] = h] /\ Shape(s, h)
  BY <1>2, <1>4
<1>5. ASSUME NEW stage \in {"write", "transfer"}, NEW r \in Rows \cup {NoRow},
             r = NoRow \/ ~Free(r),
             handler' = [handler EXCEPT ![s] = [Goto(s, stage) EXCEPT !.row = r]]
      PROVE  \E h : handler' = [handler EXCEPT ![s] = h] /\ Shape(s, h)
  <2> DEFINE h == [Goto(s, stage) EXCEPT !.row = r]
  <2>1. h.pc = stage /\ h.row = r
    BY DEF Goto, TypeInv, TypeOK, Handlers
  <2>2. Shape(s, h)
    BY <1>5, <2>1 DEF Shape
  <2>3. QED BY <1>5, <2>2
<1>6. ASSUME NEW h, Request(s, h), h.pc # "clear", h.row = NoRow \/ (h.row \in Rows /\ ~Free(h.row))
      PROVE  \E g : handler' = [handler EXCEPT ![s] = g] /\ Shape(s, g)
  BY <1>6 DEF Request, Shape
<1>7. CASE CreateStep(s)
  <2>1. CASE Create(s)
    <3> DEFINE h == [Idle EXCEPT !.op = "create", !.pc = "host", !.user = Creator]
    <3>1. Request(s, h) /\ h.pc = "host" /\ h.row = NoRow
      BY <2>1 DEF Create, Idle
    <3>2. handler' = [handler EXCEPT ![s] = h] /\ Shape(s, h)
      BY <3>1 DEF Request, Shape
    <3> HIDE DEF h
    <3>3. QED BY <3>2
  <2>2. CASE CreateHost(s)
    BY <1>3, <2>2 DEF CreateHost, Continue
  <2>3. QED BY <1>7, <2>1, <2>2 DEF CreateStep
<1>8. CASE InviteStep(s)
  <2>1. CASE \E u \in Users : Invite(s, u)
    <3>1. PICK u \in Users : Invite(s, u)
      BY <2>1
    <3> DEFINE h == [Idle EXCEPT !.op = "invite", !.pc = "member", !.user = u]
    <3>2. Request(s, h) /\ h.pc = "member" /\ h.row = NoRow
      BY <3>1 DEF Invite, Idle
    <3>3. handler' = [handler EXCEPT ![s] = h] /\ Shape(s, h)
      BY <3>2 DEF Request, Shape
    <3> HIDE DEF h
    <3>4. QED BY <3>3
  <2>2. CASE InviteMember(s)
    BY <1>3, <1>4, <2>2 DEF InviteMember, Continue
  <2>3. CASE InviteInsert(s)
    <3>1. Shape(s, handler[s])
      BY <2>3 DEF InviteInsert, At, Shape
    <3>2. QED BY <1>3, <2>3, <3>1 DEF InviteInsert, Continue
  <2>4. QED BY <1>8, <2>1, <2>2, <2>3 DEF InviteStep
<1>9. CASE JoinStep(s)
  <2>1. CASE \E u \in Users : Join(s, u)
    <3>1. PICK u \in Users : Join(s, u)
      BY <2>1
    <3> DEFINE h == [Idle EXCEPT !.op = "join", !.pc = "count", !.user = u]
    <3>2. Request(s, h) /\ h.pc = "count" /\ h.row = NoRow
      BY <3>1 DEF Join, Idle
    <3>3. handler' = [handler EXCEPT ![s] = h] /\ Shape(s, h)
      BY <3>2 DEF Request, Shape
    <3> HIDE DEF h
    <3>4. QED BY <3>3
  <2>2. CASE JoinCount(s)
    <3> DEFINE b == Cardinality(JoinedRows) < MaxParticipants
               h == [Goto(s, "existing") EXCEPT !.below = b]
    <3>1. h.pc = "existing" /\ h.row = handler[s].row
      BY DEF Goto, TypeInv, TypeOK, Handlers
    <3>2. Shape(s, h)
      BY <3>1 DEF Shape
    <3>3. QED BY <2>2, <3>2 DEF JoinCount, Continue
  <2>3. CASE JoinExisting(s)
    <3>1. handler[s].user \in Users
      BY <2>3 DEF JoinExisting, At, TypeInv, HandlerInv, Busy
    <3>2. PICK r \in Rows \cup {NoRow} :
             /\ r = NoRow \/ ~Free(r)
             /\ Continue(s, IF handler[s].below \/ r \in JoinedRows
                            THEN [Goto(s, "write") EXCEPT !.row = r] ELSE Idle)
      BY <2>3, <3>1, UserAssumption DEF JoinExisting, RowsOf, Free
    <3>3. QED BY <1>3, <1>5, <3>2 DEF Continue
  <2>4. CASE JoinWrite(s)
    BY <1>3, <2>4 DEF JoinWrite, Continue
  <2>5. QED BY <1>9, <2>1, <2>2, <2>3, <2>4 DEF JoinStep
<1>10. CASE LeaveStep(s)
  <2>1. CASE \E u \in Users : Leave(s, u)
    <3>0. PICK u \in Users : Leave(s, u)
      BY <2>1
    <3>1. PICK r \in RowsOf(u) :
            Request(s, [Idle EXCEPT !.op = "leave", !.pc = "left", !.user = u, !.row = r,
                                    !.host = (part[r].role = "host")])
      BY <3>0 DEF Leave
    <3>2. r \in Rows /\ ~Free(r)
      BY UserAssumption DEF RowsOf, Free
    <3> DEFINE h == [Idle EXCEPT !.op = "leave", !.pc = "left", !.user = u, !.row = r,
                                 !.host = (part[r].role = "host")]
    <3>3. h.pc = "left" /\ h.row = r
      BY DEF Idle
    <3> HIDE DEF h
    <3>4. QED BY <1>6, <3>1, <3>2, <3>3 DEF h
  <2>2. CASE LeaveLeft(s)
    BY <1>4, <2>2 DEF LeaveLeft, Continue
  <2>3. CASE LeaveRemaining(s)
    <3>1. \/ Continue(s, Goto(s, "close"))
          \/ Continue(s, Idle)
          \/ \E r \in Rows : ~Free(r) /\ Continue(s, [Goto(s, "transfer") EXCEPT !.row = r])
      BY <2>3 DEF LeaveRemaining, JoinedRows
    <3>2. QED BY <1>3, <1>4, <1>5, <3>1 DEF Continue
  <2>4. CASE LeaveClose(s) \/ LeaveTransfer(s)
    BY <1>3, <2>4 DEF LeaveClose, LeaveTransfer, Continue
  <2>5. QED BY <1>10, <2>1, <2>2, <2>3, <2>4 DEF LeaveStep
<1>11. CASE EndStep(s)
  <2>1. CASE \E u \in Users : End(s, u)
    <3>1. PICK u \in Users : End(s, u)
      BY <2>1
    <3>2. PICK byId \in BOOLEAN :
            Request(s, [Idle EXCEPT !.op = "end", !.pc = "close", !.user = u, !.byId = byId])
      BY <3>1 DEF End
    <3> DEFINE h == [Idle EXCEPT !.op = "end", !.pc = "close", !.user = u, !.byId = byId]
    <3>3. Request(s, h) /\ h.pc = "close" /\ h.row = NoRow
      BY <3>2 DEF Idle
    <3>4. handler' = [handler EXCEPT ![s] = h] /\ Shape(s, h)
      BY <3>3 DEF Request, Shape
    <3> HIDE DEF h
    <3>5. QED BY <3>4
  <2>2. CASE EndClose(s)
    <3>1. Shape(s, Goto(s, "clear"))
      BY <2>2, GotoType DEF Shape, TypeInv
    <3>2. QED BY <2>2, <3>1 DEF EndClose, Continue
  <2>3. CASE EndClear(s)
    BY <1>3, <2>3 DEF EndClear, Continue
  <2>4. QED BY <1>11, <2>1, <2>2, <2>3 DEF EndStep
<1>12. CASE Fail(s)
  BY <1>3, <1>12 DEF Fail
<1>13. QED BY <1>7, <1>8, <1>9, <1>10, <1>11, <1>12 DEF SlotStep

\* An ended call stays ended, and a row in use stays in use.
LEMMA Stable ==
  ASSUME TypeInv, [Next]_vars
  PROVE  /\ call = "ended" => call' = "ended"
         /\ \A r \in Rows : ~Free(r) => ~Free(r)'
<1>1. call = "ended" => call' = "ended"
  BY DEF Next, vars, CreateStep, Create, CreateHost, InviteStep, Invite, InviteMember,
         InviteInsert, JoinStep, Join, JoinCount, JoinExisting, JoinWrite, LeaveStep,
         Leave, LeaveLeft, LeaveRemaining, LeaveClose, LeaveTransfer, EndStep, End,
         EndClose, EndClear, Fail, WebhookLeft, WebhookFinished
<1>2. ASSUME part' = part PROVE \A r \in Rows : ~Free(r) => ~Free(r)'
  BY <1>2 DEF Free
<1>3. ASSUME NEW r \in Rows, NEW u, NEW role, NEW status, Insert(r, u, role, status)
      PROVE  \A q \in Rows : ~Free(q) => ~Free(q)'
  BY <1>3 DEF Insert, Free, TypeInv, TypeOK
<1>4. ASSUME NEW s \in Slots, JoinWrite(s) \/ LeaveLeft(s) \/ LeaveTransfer(s) \/ EndClear(s)
      PROVE  \A q \in Rows : ~Free(q) => ~Free(q)'
  <2>1. CASE JoinWrite(s) /\ handler[s].row = NoRow
    BY <1>3, <2>1 DEF JoinWrite
  <2>2. CASE JoinWrite(s) /\ handler[s].row # NoRow
    BY <2>2 DEF JoinWrite, Free, TypeInv, TypeOK, Participant
  <2>3. CASE LeaveLeft(s) \/ LeaveTransfer(s) \/ EndClear(s)
    BY <2>3 DEF LeaveLeft, LeaveTransfer, EndClear, Free, TypeInv, TypeOK, Participant
  <2>4. QED BY <1>4, <2>1, <2>2, <2>3
<1>5. ASSUME NEW u \in Users, WebhookLeft(u) PROVE \A q \in Rows : ~Free(q) => ~Free(q)'
  BY <1>5 DEF WebhookLeft, Free, TypeInv, TypeOK, Participant
<1>6. ASSUME NEW s \in Slots, CreateHost(s) \/ InviteInsert(s)
      PROVE  \A q \in Rows : ~Free(q) => ~Free(q)'
  BY <1>3, <1>6 DEF CreateHost, InviteInsert
<1>7. QED
  BY <1>1, <1>2, <1>4, <1>5, <1>6
  DEF Next, vars, CreateStep, Create, InviteStep, Invite, InviteMember, JoinStep, Join,
      JoinCount, JoinExisting, LeaveStep, Leave, LeaveRemaining, LeaveClose, EndStep, End,
      EndClose, Fail, WebhookFinished

\* Every step keeps: an /end that goes on to clear the participants by the id
\* of the call has ended the call; and handlers hold rows in use.
LEMMA EndingStep ==
  ASSUME TypeInv, EndingClears, RowsTaken, [Next]_vars
  PROVE  EndingClears' /\ RowsTaken'
<1>1. CASE handler' = handler
  BY <1>1, Stable DEF EndingClears, RowsTaken, At, Free, TypeInv, TypeOK, Handlers
<1>2. ASSUME NEW s \in Slots, SlotStep(s) PROVE EndingClears' /\ RowsTaken'
  <2>1. PICK h : handler' = [handler EXCEPT ![s] = h] /\ Shape(s, h)
    BY <1>2, StepShape
  <2>2. \A q \in Slots : handler'[q] = IF q = s THEN h ELSE handler[q]
    BY <2>1 DEF TypeInv, TypeOK
  <2>3. EndingClears'
    BY <2>1, <2>2, Stable DEF EndingClears, At, Shape, EndClose
  <2>4. \A q \in Slots : handler[q].row \in Rows \cup {NoRow}
    BY DEF TypeInv, TypeOK, Handlers
  <2>5. RowsTaken'
    BY <2>1, <2>2, <2>4, Stable DEF RowsTaken, Shape, Free
  <2>6. QED BY <2>3, <2>5
<1>3. QED BY <1>1, <1>2 DEF Next, vars, SlotStep, WebhookLeft, WebhookFinished

\* Every step keeps: an active call that is empty has a handler that notices.
LEMMA EmptyStep ==
  ASSUME TypeInv, EmptyInv, [Next]_vars
  PROVE  EmptyNoticed'
<1> SUFFICES ASSUME call' = "active", JoinedRows' = {}, webhooks' = 0, failures' = 0
             PROVE  \E s \in Slots : Noticing(s)'
  BY DEF EmptyNoticed, Noticing
<1>1. /\ webhooks = 0 /\ failures = 0
      /\ ~WebhookFinished
      /\ \A u \in Users : ~WebhookLeft(u)
      /\ \A s \in Slots : ~Fail(s)
  <2>1. ASSUME NEW s \in Slots, SlotStep(s), ~Fail(s) PROVE webhooks' = webhooks /\ failures' = failures
    BY <2>1
    DEF SlotStep, CreateStep, Create, CreateHost, InviteStep, Invite, InviteMember,
        InviteInsert, JoinStep, Join, JoinCount, JoinExisting, JoinWrite, LeaveStep, Leave,
        LeaveLeft, LeaveRemaining, LeaveClose, LeaveTransfer, EndStep, End, EndClose,
        EndClear, Request, Continue, boundVars
  <2>2. \A n \in Nat : n + 1 # 0
    OBVIOUS
  <2>3. ~WebhookFinished /\ (\A u \in Users : ~WebhookLeft(u)) /\ \A s \in Slots : ~Fail(s)
    BY <2>2 DEF WebhookFinished, WebhookLeft, Fail, TypeInv, TypeOK
  <2>4. QED BY <2>1, <2>3 DEF Next, SlotStep, vars, boundVars
<1>0. call = "active" \/ \E s \in Slots : Create(s)
  BY <1>1
  DEF Next, vars, CreateStep, CreateHost, InviteStep, Invite, InviteMember, InviteInsert,
      JoinStep, Join, JoinCount, JoinExisting, JoinWrite, LeaveStep, Leave, LeaveLeft,
      LeaveRemaining, LeaveClose, LeaveTransfer, EndStep, End, EndClose, EndClear
<1>2. ASSUME NEW s \in Slots, Create(s) PROVE \E q \in Slots : Noticing(q)'
  BY <1>2 DEF Create, Request, Noticing, At, Idle, TypeInv, TypeOK
<1>3. ASSUME JoinedRows = {}, call = "active" PROVE \E s \in Slots : Noticing(s)
  BY <1>1, <1>3 DEF EmptyInv, EmptyNoticed, Noticing
\* A handler that does not itself notice leaves the one that does in place.
<1>4. ASSUME NEW s \in Slots, ~Noticing(s), JoinedRows = {}, call = "active",
             NEW h, handler' = [handler EXCEPT ![s] = h]
      PROVE  \E q \in Slots : Noticing(q)'
  BY <1>3, <1>4, OthersKeep
<1>5. ASSUME NEW s \in Slots, LeaveLeft(s) PROVE \E q \in Slots : Noticing(q)'
  <2>1. handler' = [handler EXCEPT ![s] = Goto(s, "remaining")] /\ handler[s].op = "leave"
    BY <1>5 DEF LeaveLeft, Continue, At
  <2>2. Goto(s, "remaining").op = "leave" /\ Goto(s, "remaining").pc = "remaining"
    BY <2>1, GotoType DEF TypeInv
  <2>3. QED BY <2>1, <2>2 DEF Noticing, At, TypeInv, TypeOK
<1>6. ASSUME NEW s \in Slots, LeaveRemaining(s), call = "active"
      PROVE  \E q \in Slots : Noticing(q)'
  <2>1. JoinedRows = {}
    BY <1>6 DEF LeaveRemaining, JoinedRows, Free
  <2>2. handler' = [handler EXCEPT ![s] = Goto(s, "close")] /\ handler[s].op = "leave"
    BY <1>6, <2>1 DEF LeaveRemaining, Continue, At
  <2>3. Goto(s, "close").op = "leave" /\ Goto(s, "close").pc = "close"
    BY <2>2, GotoType DEF TypeInv
  <2>4. QED BY <2>2, <2>3 DEF Noticing, At, TypeInv, TypeOK
<1>7. ASSUME NEW s \in Slots, LeaveClose(s) PROVE FALSE
  BY <1>7 DEF LeaveClose
<1>8. ASSUME NEW s \in Slots, CreateHost(s) \/ JoinWrite(s) PROVE FALSE
  <2>1. handler[s].user \in Users /\ handler[s] \in Handlers
    BY <1>8 DEF CreateHost, JoinWrite, At, TypeInv, TypeOK, HandlerInv, Busy
  <2>2. CASE \E r \in Rows, role \in {"participant", "host"} :
                Insert(r, handler[s].user, role, "joined")
    BY <2>1, <2>2, UserAssumption DEF Insert, JoinedRows, Free, TypeInv, TypeOK
  <2>3. CASE /\ handler[s].row \in Rows /\ ~Free(handler[s].row)
             /\ part' = [part EXCEPT ![handler[s].row].status = "joined"]
    BY <2>3 DEF JoinedRows, Free, TypeInv, TypeOK, Participant
  <2>4. handler[s].row # NoRow => handler[s].row \in Rows /\ ~Free(handler[s].row)
    BY <2>1 DEF EmptyInv, RowsTaken, Handlers
  <2>5. QED BY <1>8, <2>2, <2>3, <2>4 DEF CreateHost, JoinWrite
<1>9. ASSUME NEW s \in Slots, EndClear(s), call = "active"
      PROVE  \E q \in Slots : Noticing(q)'
  <2>1. ~handler[s].byId
    BY <1>9 DEF EndClear, EmptyInv, EndingClears
  <2>2. part' = part /\ handler' = [handler EXCEPT ![s] = Idle] /\ ~Noticing(s)
    BY <1>9, <2>1 DEF EndClear, Continue, Noticing, At
  <2>3. JoinedRows = {}
    BY <2>2 DEF JoinedRows, Free
  <2>4. QED BY <1>4, <1>9, <2>2, <2>3
<1>10. ASSUME NEW s \in Slots, call = "active",
              \/ InviteStep(s) \/ (\E u \in Users : Join(s, u)) \/ JoinCount(s)
              \/ JoinExisting(s) \/ (\E u \in Users : Leave(s, u)) \/ LeaveTransfer(s)
              \/ (\E u \in Users : End(s, u)) \/ EndClose(s)
       PROVE  \E q \in Slots : Noticing(q)'
  <2>1. ~Noticing(s) /\ \E h : handler' = [handler EXCEPT ![s] = h]
    BY <1>10
    DEF InviteStep, Invite, InviteMember, InviteInsert, Join, JoinCount, JoinExisting,
        Leave, LeaveTransfer, End, EndClose, Request, Continue, Busy, Noticing, At
  <2>2. JoinedRows = {}
    <3>1. CASE part' = part
      BY <3>1 DEF JoinedRows, Free
    <3>2. CASE InviteInsert(s)
      BY <3>2 DEF InviteInsert, Insert, JoinedRows, Free, TypeInv, TypeOK
    <3>3. CASE LeaveTransfer(s)
      BY <3>3 DEF LeaveTransfer, JoinedRows, Free, TypeInv, TypeOK, Participant
    <3>4. QED
      BY <1>10, <3>1, <3>2, <3>3
      DEF InviteStep, Invite, InviteMember, Join, JoinCount, JoinExisting, Leave, End,
          EndClose
  <2>3. QED BY <1>4, <1>10, <2>1, <2>2
<1>11. CASE UNCHANGED vars
  <2>1. JoinedRows = {} /\ call = "active" /\ handler' = handler
    BY <1>11 DEF vars, JoinedRows, Free
  <2>2. QED BY <1>3, <2>1 DEF Noticing, At
<1>12. QED
  BY <1>0, <1>1, <1>2, <1>5, <1>6, <1>7, <1>8, <1>9, <1>10, <1>11
  DEF Next, CreateStep, JoinStep, LeaveStep, EndStep

\* However leaves, joins and ends interleave, a call that everybody has left
\* is ended once the handlers are done.
THEOREM EmptyCallEnds == Spec => []NoEmptyCall
<1>1. Init => TypeInv /\ EmptyInv
  <2> SUFFICES ASSUME Init PROVE TypeInv /\ EmptyInv
    OBVIOUS
  <2>1. TypeInv
    BY InitialTypes DEF Init, TypeInv, TypeOK, HandlerInv, Busy
  <2>2. EmptyInv
    BY InitialTypes DEF Init, EmptyInv, EmptyNoticed, EndingClears, RowsTaken, At
  <2>3. QED BY <2>1, <2>2
<1>2. TypeInv /\ EmptyInv /\ [Next]_vars => (TypeInv /\ EmptyInv)'
  BY TypeStep, EndingStep, EmptyStep DEF EmptyInv
<1>3. EmptyInv => NoEmptyCall
  BY DEF EmptyInv, EmptyNoticed, NoEmptyCall, Quiescent, Busy, At
<1>4. QED BY <1>1, <1>2, <1>3, PTL DEF Spec

-----------------------------------------------------------------------------
(* Requests served one at a time *)

\* A set with at most one element has no two.
LEMMA AtMostOne ==
  ASSUME NEW S, IsFiniteSet(S), ~(Cardinality(S) > 1), NEW a \in S, NEW b \in S
  PROVE  a = b
<1> SUFFICES ASSUME a # b PROVE FALSE
  OBVIOUS
<1>1. IsFiniteSet(S \ {a}) /\ Cardinality(S \ {a}) = Cardinality(S) - 1
  BY FS_RemoveElement
<1>2. b \in S \ {a}
  OBVIOUS
<1>3. Cardinality(S \ {a}) \in Nat /\ Cardinality(S \ {a}) # 0
  BY <1>1, <1>2, FS_CardinalityType, FS_EmptySet
<1>4. Cardinality(S) \in Nat
  BY FS_CardinalityType
<1>5. QED BY <1>1, <1>3, <1>4

\* As long as the history variable stays FALSE, one request at most is in flight.
LEMMA OneStep ==
  ASSUME HistoryNext, ~overlapped'
  PROVE  OneAtATime' /\ ~overlapped
<1> DEFINE B == {s \in Slots : Busy(s)'}
<1>1. ~(Cardinality(B) > 1) /\ ~overlapped
  BY DEF HistoryNext
<1>2. IsFiniteSet(B)
  BY SlotAssumption, FS_Subset
<1>3. ASSUME NEW s \in Slots, NEW t \in Slots, Busy(s)', Busy(t)' PROVE s = t
  <2>1. s \in B /\ t \in B
    BY <1>3
  <2> HIDE DEF B
  <2>2. QED BY <1>1, <1>2, <2>1, AtMostOne
<1>4. QED BY <1>1, <1>3 DEF OneAtATime

\* What the statements do to the joined rows and their hosts.
LEMMA HostedAfter ==
  ASSUME TypeInv
  PROVE  /\ part' = part => JoinedRows' = JoinedRows /\ Hosted' = Hosted
         /\ \A r \in Rows, u \in Users : \A role : Insert(r, u, role, "joined") =>
               (Hosted => Hosted') /\ (role = "host" => Hosted')
         /\ \A r \in Rows, u \in Users : \A role : Insert(r, u, role, "invited") =>
               JoinedRows' = JoinedRows /\ (Hosted => Hosted')
         /\ \A r \in Rows : part' = [part EXCEPT ![r].status = "joined"] =>
               (Hosted => Hosted')
         /\ \A r \in Rows : part' = [part EXCEPT ![r].status = "left"] =>
               /\ JoinedRows' \subseteq JoinedRows
               /\ Hosted /\ part[r].role # "host" => Hosted'
         /\ \A r \in JoinedRows : part' = [part EXCEPT ![r].role = "host"] => Hosted'
<1>0. part \in [Rows -> Participant]
  BY DEF TypeInv, TypeOK
<1>1. part' = part => JoinedRows' = JoinedRows /\ Hosted' = Hosted
  BY DEF JoinedRows, Free, Hosted
<1>2. ASSUME NEW r \in Rows, NEW u \in Users, NEW role, Insert(r, u, role, "joined")
      PROVE  (Hosted => Hosted') /\ (role = "host" => Hosted')
  <2>1. /\ part[r].user = NoUser
        /\ part'[r].user = u /\ part'[r].role = role /\ part'[r].status = "joined"
        /\ \A q \in Rows : q # r => part'[q] = part[q]
    BY <1>0, <1>2 DEF Insert, Free
  <2>2. QED BY <2>1, UserAssumption DEF Hosted, JoinedRows, Free
<1>3. ASSUME NEW r \in Rows, NEW u \in Users, NEW role, Insert(r, u, role, "invited")
      PROVE  JoinedRows' = JoinedRows /\ (Hosted => Hosted')
  <2>1. /\ part[r].user = NoUser /\ part'[r].status = "invited"
        /\ \A q \in Rows : q # r => part'[q] = part[q]
    BY <1>0, <1>3 DEF Insert, Free
  <2>2. JoinedRows' = JoinedRows
    BY <2>1 DEF JoinedRows, Free
  <2>3. r \notin JoinedRows /\ JoinedRows \subseteq Rows
    BY <2>1 DEF JoinedRows, Free
  <2>4. QED BY <2>1, <2>2, <2>3 DEF Hosted
<1>4. ASSUME NEW r \in Rows, part' = [part EXCEPT ![r].status = "joined"]
      PROVE  Hosted => Hosted'
  <2>1. \A q \in Rows : /\ part'[q].user = part[q].user /\ part'[q].role = part[q].role
                        /\ part[q].status = "joined" => part'[q].status = "joined"
    BY <1>0, <1>4 DEF Participant
  <2>2. QED BY <2>1 DEF Hosted, JoinedRows, Free
<1>5. ASSUME NEW r \in Rows, part' = [part EXCEPT ![r].status = "left"]
      PROVE  JoinedRows' \subseteq JoinedRows /\ (Hosted /\ part[r].role # "host" => Hosted')
  <2>1. /\ \A q \in Rows : q # r => part'[q] = part[q]
        /\ part'[r].status = "left"
    BY <1>0, <1>5 DEF Participant
  <2>2. QED BY <2>1 DEF Hosted, JoinedRows, Free
<1>6. ASSUME NEW r \in JoinedRows, part' = [part EXCEPT ![r].role = "host"] PROVE Hosted'
  <2>1. r \in Rows /\ part'[r].user = part[r].user /\ part'[r].status = part[r].status
        /\ part'[r].role = "host"
    BY <1>0, <1>6 DEF Participant, JoinedRows
  <2>2. QED BY <2>1 DEF Hosted, JoinedRows, Free
<1>7. QED BY <1>1, <1>2, <1>3, <1>4, <1>5, <1>6

\* The only request in flight makes a step.
LEMMA UnderwayStep ==
  ASSUME TypeInv, OvershootInv, NEW s \in Slots,
         IF Busy(s) THEN Underway(s) ELSE Settled,
         CreateStep(s) \/ InviteStep(s) \/ JoinStep(s) \/ LeaveStep(s) \/ EndStep(s)
  PROVE  IF Busy(s)' THEN Underway(s)' ELSE Settled'
<1> DEFINE Goal == IF Busy(s)' THEN Underway(s)' ELSE Settled'
<1>0. /\ handler \in [Slots -> Handlers] /\ handler[s] \in Handlers
      /\ part \in [Rows -> Participant] /\ call \in {"none", "active", "ended"}
      /\ Busy(s) => handler[s].user \in Users
      /\ handler[s].pc \in {"left", "transfer"} => handler[s].row \in Rows
  BY DEF TypeInv, TypeOK, HandlerInv
<1>1. \A h : handler' = [handler EXCEPT ![s] = h] => handler'[s] = h
  BY <1>0
<1>2. ASSUME NEW h, Continue(s, h) \/ Request(s, h)
      PROVE  /\ handler'[s] = h
             /\ Busy(s)' <=> h.op # "idle"
  BY <1>1, <1>2 DEF Continue, Request, Busy
<1>3. ASSUME Continue(s, Idle), Settled' PROVE Goal
  BY <1>2, <1>3, InitialTypes
<1>4. CASE CreateStep(s)
  <2>1. CASE Create(s)
    <3> DEFINE h == [Idle EXCEPT !.op = "create", !.pc = "host", !.user = Creator]
    <3>1. Request(s, h) /\ h.op = "create" /\ h.pc = "host" /\ call' = "active"
      BY <2>1 DEF Create, Idle
    <3> HIDE DEF h
    <3>2. Underway(s)' /\ Busy(s)'
      BY <1>2, <3>1 DEF Underway, At
    <3>3. QED BY <3>2
  <2>2. CASE CreateHost(s)
    <3>1. Busy(s) /\ call = "active"
      BY <2>2 DEF CreateHost, At, Busy, Underway
    <3>2. Hosted' /\ call' = call
      BY <1>0, <2>2, <3>1, HostedAfter DEF CreateHost
    <3>3. Continue(s, Idle)
      BY <2>2 DEF CreateHost
    <3>4. Settled'
      BY <3>1, <3>2 DEF Settled
    <3> HIDE DEF Goal
    <3>5. Goal
      BY <1>3, <3>3, <3>4
    <3>6. QED BY <3>5 DEF Goal
  <2>3. QED BY <1>4, <2>1, <2>2 DEF CreateStep
\* An invitation or a join finds an active call with a host and keeps it.
<1>5. ASSUME NEW h, Continue(s, h) \/ Request(s, h), h.op \in {"idle", "invite", "join"},
             call' = "active", Hosted'
      PROVE  Goal
  <2>1. Settled'
    BY <1>5 DEF Settled
  <2>2. h.op # "idle" => Underway(s)'
    BY <1>2, <1>5 DEF Underway
  <2>3. QED BY <1>2, <1>5, <2>1, <2>2
<1>6. CASE InviteStep(s) \/ JoinStep(s)
  <2>1. call = "active" /\ call' = "active" /\ Hosted
    <3>1. ASSUME NEW u \in Users, Invite(s, u) \/ Join(s, u)
          PROVE  call = "active" /\ call' = "active" /\ Hosted
      BY <3>1 DEF Invite, Join, Request, Settled
    <3>2. CASE InviteMember(s) \/ InviteInsert(s) \/ JoinCount(s) \/ JoinExisting(s)
               \/ JoinWrite(s)
      <4>1. handler[s].op \in {"invite", "join"} /\ call' = call
        BY <3>2 DEF InviteMember, InviteInsert, JoinCount, JoinExisting, JoinWrite, At
      <4>2. QED BY <4>1 DEF Underway, Busy, At
    <3>3. QED BY <1>6, <3>1, <3>2 DEF InviteStep, JoinStep
  <2>2. Hosted'
    <3>1. CASE part' = part
      BY <2>1, <3>1, HostedAfter
    <3>2. CASE InviteInsert(s)
      BY <2>1, <3>2, HostedAfter DEF InviteInsert
    <3>3. CASE JoinWrite(s) /\ handler[s].row # NoRow
      <4>1. handler[s].row \in Rows
        BY <1>0, <3>3 DEF Handlers
      <4>2. QED BY <2>1, <3>3, <4>1, HostedAfter DEF JoinWrite
    <3>4. CASE JoinWrite(s) /\ handler[s].row = NoRow
      <4>1. handler[s].user \in Users
        BY <1>0, <3>4 DEF JoinWrite, At, Busy
      <4>2. QED BY <2>1, <3>4, <4>1, HostedAfter DEF JoinWrite
    <3>5. QED
      BY <1>6, <3>1, <3>2, <3>3, <3>4
      DEF InviteStep, JoinStep, Invite, InviteMember, Join, JoinCount, JoinExisting
  <2>3. \E h : (Continue(s, h) \/ Request(s, h)) /\ h.op \in {"idle", "invite", "join"}
    <3>1. ASSUME NEW u \in Users, Invite(s, u)
          PROVE  \E h : Request(s, h) /\ h.op = "invite"
      <4> DEFINE h == [Idle EXCEPT !.op = "invite", !.pc = "member", !.user = u]
      <4>1. Request(s, h) /\ h.op = "invite"
        BY <3>1 DEF Invite, Idle
      <4> HIDE DEF h
      <4>2. QED BY <4>1
    <3>2. ASSUME NEW u \in Users, Join(s, u)
          PROVE  \E h : Request(s, h) /\ h.op = "join"
      <4> DEFINE h == [Idle EXCEPT !.op = "join", !.pc = "count", !.user = u]
      <4>1. Request(s, h) /\ h.op = "join"
        BY <3>2 DEF Join, Idle
      <4> HIDE DEF h
      <4>2. QED BY <4>1
    <3>3. CASE InviteMember(s)
      <4>1. Goto(s, "insert").op = "invite"
        BY <3>3, GotoType DEF InviteMember, At, TypeInv
      <4>2. QED BY <3>3, <4>1, InitialTypes DEF InviteMember
    <3>4. CASE InviteInsert(s)
      BY <3>4, InitialTypes DEF InviteInsert, At
    <3>5. CASE JoinCount(s)
      <4> DEFINE b == Cardinality(JoinedRows) < MaxParticipants
                 h == [Goto(s, "existing") EXCEPT !.below = b]
      <4>1. h.op = "join"
        BY <1>0, <3>5 DEF JoinCount, At, Goto, Handlers
      <4>2. Continue(s, h)
        BY <3>5 DEF JoinCount
      <4> HIDE DEF h
      <4>3. QED BY <4>1, <4>2
    <3>6. CASE JoinExisting(s)
      <4>1. PICK r : \/ Continue(s, [Goto(s, "write") EXCEPT !.row = r])
                     \/ Continue(s, Idle)
        BY <3>6 DEF JoinExisting
      <4> DEFINE h == [Goto(s, "write") EXCEPT !.row = r]
      <4>2. h.op = "join"
        BY <1>0, <3>6 DEF JoinExisting, At, Goto, Handlers
      <4>3. Continue(s, h) \/ Continue(s, Idle)
        BY <4>1
      <4> HIDE DEF h
      <4>4. QED BY <4>2, <4>3, InitialTypes
    <3>7. CASE JoinWrite(s)
      BY <3>7, InitialTypes DEF JoinWrite
    <3>8. QED BY <1>6, <3>1, <3>2, <3>3, <3>4, <3>5, <3>6, <3>7 DEF InviteStep, JoinStep
  <2> HIDE DEF Goal
  <2>4. Goal
    BY <1>5, <2>1, <2>2, <2>3
  <2>5. QED BY <2>4 DEF Goal
<1>7. CASE LeaveStep(s)
  <2>1. ASSUME NEW u \in Users, Leave(s, u) PROVE Goal
    <3>1. PICK r \in RowsOf(u) :
            Request(s, [Idle EXCEPT !.op = "leave", !.pc = "left", !.user = u, !.row = r,
                                    !.host = (part[r].role = "host")])
      BY <2>1 DEF Leave
    <3> DEFINE h == [Idle EXCEPT !.op = "leave", !.pc = "left", !.user = u, !.row = r,
                                 !.host = (part[r].role = "host")]
    <3>2. /\ h.op = "leave" /\ h.pc = "left" /\ h.row = r
          /\ h.host = (part[r].role = "host")
      BY DEF Idle
    <3>3. Request(s, h) /\ call' = call /\ part' = part
      BY <2>1, <3>1 DEF Leave
    <3> HIDE DEF h
    <3>4. handler'[s] = h /\ Busy(s)'
      BY <1>2, <3>2, <3>3
    <3>5. Settled'
      <4>1. Settled
        BY <3>3 DEF Request
      <4>2. QED BY <3>3, <4>1, HostedAfter DEF Settled
    <3>6. Underway(s)'
      BY <3>2, <3>3, <3>4, <3>5 DEF Underway, At
    <3>7. QED BY <3>4, <3>6
  <2>2. CASE LeaveLeft(s)
    <3>1. /\ At(s, "leave", "left") /\ Busy(s) /\ handler[s].row \in Rows
          /\ part' = [part EXCEPT ![handler[s].row].status = "left"]
          /\ call' = call /\ Continue(s, Goto(s, "remaining"))
      BY <1>0, <2>2 DEF LeaveLeft, At, Busy
    <3>2. Settled /\ handler[s].host = (part[handler[s].row].role = "host")
      BY <3>1 DEF Underway, At
    <3> DEFINE h == Goto(s, "remaining")
    <3>3. h.op = "leave" /\ h.pc = "remaining" /\ h.host = handler[s].host
      BY <1>0, <3>1 DEF Goto, At, Handlers
    <3> HIDE DEF h
    <3>4. handler'[s] = h /\ Busy(s)'
      BY <1>2, <3>1, <3>3 DEF h
    <3>5. /\ JoinedRows' \subseteq JoinedRows
          /\ Hosted /\ part[handler[s].row].role # "host" => Hosted'
      BY <3>1, HostedAfter
    <3>6. call' = "active" => Hosted' \/ h.host
      BY <3>1, <3>2, <3>3, <3>5 DEF Settled
    <3>7. call' = "ended" => JoinedRows' = {}
      BY <3>1, <3>2, <3>5 DEF Settled
    <3>8. Underway(s)'
      BY <3>3, <3>4, <3>6, <3>7 DEF Underway, At
    <3>9. QED BY <3>4, <3>8
  <2>3. CASE LeaveRemaining(s)
    <3>1. /\ At(s, "leave", "remaining") /\ Busy(s) /\ part' = part /\ call' = call
          /\ JoinedRows' = JoinedRows /\ Hosted' = Hosted
      BY <2>3, HostedAfter DEF LeaveRemaining, At, Busy
    <3>2. /\ call = "active" => Hosted \/ handler[s].host \/ JoinedRows = {}
          /\ call = "ended" => JoinedRows = {}
      BY <3>1 DEF Underway, At
    <3>3. CASE JoinedRows = {}
      <4>1. Continue(s, Goto(s, "close"))
        BY <2>3, <3>3 DEF LeaveRemaining
      <4>2. Goto(s, "close").op = "leave" /\ Goto(s, "close").pc = "close"
        BY <3>1, GotoType DEF At, TypeInv
      <4>3. handler'[s] = Goto(s, "close") /\ Busy(s)'
        BY <1>2, <4>1, <4>2
      <4>4. Underway(s)'
        BY <3>1, <3>3, <4>2, <4>3 DEF Underway, At
      <4>5. QED BY <4>3, <4>4
    <3>4. CASE JoinedRows # {} /\ handler[s].host
      <4>1. PICK r \in JoinedRows : Continue(s, [Goto(s, "transfer") EXCEPT !.row = r])
        BY <2>3, <3>4 DEF LeaveRemaining
      <4> DEFINE h == [Goto(s, "transfer") EXCEPT !.row = r]
      <4>2. h.op = "leave" /\ h.pc = "transfer" /\ h.row = r
        BY <1>0, <3>1 DEF At, Goto, Handlers
      <4>3. Continue(s, h)
        BY <4>1
      <4> HIDE DEF h
      <4>4. handler'[s] = h /\ Busy(s)'
        BY <1>2, <4>2, <4>3
      <4>5. call = "active"
        <5>1. call # "none"
          BY <3>1 DEF OvershootInv, Quiescent
        <5>2. QED BY <1>0, <3>2, <3>4, <5>1
      <4>6. Underway(s)'
        BY <3>1, <4>2, <4>4, <4>5 DEF Underway, At
      <4>7. QED BY <4>4, <4>6
    <3>5. CASE JoinedRows # {} /\ ~handler[s].host
      <4>1. Continue(s, Idle)
        BY <2>3, <3>5 DEF LeaveRemaining
      <4>2. Settled'
        BY <3>1, <3>2, <3>5 DEF Settled
      <4> HIDE DEF Goal
      <4>3. Goal
        BY <1>3, <4>1, <4>2
      <4>4. QED BY <4>3 DEF Goal
    <3>6. QED BY <3>3, <3>4, <3>5
  <2>4. CASE LeaveClose(s)
    <3>1. /\ Busy(s) /\ call' = "ended" /\ part' = part /\ Continue(s, Idle)
          /\ JoinedRows = {}
      BY <2>4 DEF LeaveClose, At, Busy, Underway
    <3>2. Settled'
      BY <3>1, HostedAfter DEF Settled
    <3> HIDE DEF Goal
    <3>3. Goal
      BY <1>3, <3>1, <3>2
    <3>4. QED BY <3>3 DEF Goal
  <2>5. CASE LeaveTransfer(s)
    <3>1. /\ Busy(s) /\ call' = call /\ Continue(s, Idle)
          /\ part' = [part EXCEPT ![handler[s].row].role = "host"]
          /\ call = "active" /\ handler[s].row \in JoinedRows
      BY <2>5 DEF LeaveTransfer, At, Busy, Underway
    <3>2. Settled'
      BY <3>1, HostedAfter DEF Settled
    <3> HIDE DEF Goal
    <3>3. Goal
      BY <1>3, <3>1, <3>2
    <3>4. QED BY <3>3 DEF Goal
  <2>6. QED BY <1>7, <2>1, <2>2, <2>3, <2>4, <2>5 DEF LeaveStep
<1>8. CASE EndStep(s)
  <2>1. ASSUME NEW u \in Users, End(s, u) PROVE Goal
    <3>1. PICK byId \in BOOLEAN :
            Request(s, [Idle EXCEPT !.op = "end", !.pc = "close", !.user = u, !.byId = byId])
      BY <2>1 DEF End
    <3> DEFINE h == [Idle EXCEPT !.op = "end", !.pc = "close", !.user = u, !.byId = byId]
    <3>2. h.op = "end" /\ h.pc = "close"
      BY DEF Idle
    <3>3. Request(s, h) /\ call' = call /\ part' = part
      BY <2>1, <3>1 DEF End
    <3> HIDE DEF h
    <3>4. handler'[s] = h /\ Busy(s)'
      BY <1>2, <3>2, <3>3
    <3>5. Settled'
      <4>1. Settled
        BY <3>3 DEF Request
      <4>2. QED BY <3>3, <4>1, HostedAfter DEF Settled
    <3>6. Underway(s)'
      BY <3>2, <3>4, <3>5 DEF Underway, At
    <3>7. QED BY <3>4, <3>6
  <2>2. CASE EndClose(s)
    <3>1. /\ Busy(s) /\ Settled /\ part' = part
          /\ call' = IF handler[s].byId THEN "ended" ELSE call
          /\ At(s, "end", "close") /\ Continue(s, Goto(s, "clear"))
      BY <2>2 DEF EndClose, At, Busy, Underway
    <3>2. /\ Goto(s, "clear").op = "end" /\ Goto(s, "clear").pc = "clear"
          /\ Goto(s, "clear").byId = handler[s].byId
      BY <3>1, GotoType DEF At, TypeInv
    <3>3. handler'[s] = Goto(s, "clear") /\ Busy(s)'
      BY <1>2, <3>1, <3>2
    <3>4. ~handler[s].byId => Settled'
      BY <3>1, HostedAfter DEF Settled
    <3>5. Underway(s)'
      BY <3>1, <3>2, <3>3, <3>4 DEF Underway, At
    <3>6. QED BY <3>3, <3>5
  <2>3. CASE EndClear(s)
    <3>1. /\ Busy(s) /\ call' = call /\ Continue(s, Idle)
          /\ IF handler[s].byId THEN call = "ended" ELSE Settled
      BY <2>3 DEF EndClear, At, Busy, Underway
    <3>2. Settled'
      <4>1. CASE ~handler[s].byId
        BY <2>3, <3>1, <4>1, HostedAfter DEF Settled, EndClear
      <4>2. CASE handler[s].byId
        <5>1. \A r \in Rows :
                 part'[r] = IF r \in JoinedRows THEN [part[r] EXCEPT !.status = "left"]
                            ELSE part[r]
          BY <2>3, <4>2 DEF EndClear
        <5>2. \A r \in JoinedRows : part'[r].status = "left"
          BY <1>0, <5>1 DEF JoinedRows, Participant
        <5>3. JoinedRows' = {}
          BY <5>1, <5>2 DEF JoinedRows, Free
        <5>4. QED BY <3>1, <4>2, <5>3 DEF Settled
      <4>3. QED BY <4>1, <4>2
    <3> HIDE DEF Goal
    <3>3. Goal
      BY <1>3, <3>1, <3>2
    <3>4. QED BY <3>3 DEF Goal
  <2>4. QED BY <1>8, <2>1, <2>2, <2>3 DEF EndStep
<1>9. QED BY <1>4, <1>6, <1>7, <1>8

\* The history variable observes: a step of the history is a step of the calls.
LEMMA HistoryIsStep ==
  ASSUME [HistoryNext]_historyVars
  PROVE  [Next]_vars
  BY DEF HistoryNext, historyVars

\* While requests are served one at a time, whatever is left behind is settled.
LEMMA SerialStep ==
  ASSUME TypeInv, OvershootInv, SerialInv, [HistoryNext]_historyVars
  PROVE  SerialInv'
<1>1. CASE UNCHANGED historyVars
  BY <1>1
  DEF historyVars, vars, boundVars, SerialInv, OneAtATime, Busy, Quiescent, Settled, Hosted,
      JoinedRows, Free, Underway, At
<1>2. CASE HistoryNext /\ overlapped'
  BY <1>2 DEF SerialInv
<1>3. ASSUME HistoryNext, ~overlapped' PROVE SerialInv'
  <2>1. OneAtATime' /\ ~overlapped
    BY <1>3, OneStep
  <2>2. OneAtATime
    BY <2>1 DEF SerialInv
  <2>3. SUFFICES ASSUME webhooks' = 0, failures' = 0
                 PROVE  (Quiescent => Settled)' /\ \A q \in Slots : Busy(q)' => Underway(q)'
    BY <2>1 DEF SerialInv
  <2>4. webhooks = 0 /\ failures = 0
    <3>1. /\ webhooks \in Nat /\ webhooks' \in {webhooks, webhooks + 1}
          /\ failures \in Nat /\ failures' \in {failures, failures + 1}
      BY <1>3
      DEF HistoryNext, Next, CreateStep, Create, CreateHost, InviteStep, Invite,
          InviteMember, InviteInsert, JoinStep, Join, JoinCount, JoinExisting, JoinWrite,
          LeaveStep, Leave, LeaveLeft, LeaveRemaining, LeaveClose, LeaveTransfer, EndStep,
          End, EndClose, EndClear, Request, Continue, boundVars, Fail, WebhookLeft,
          WebhookFinished, TypeInv, TypeOK
    <3>2. QED BY <2>3, <3>1
  <2>5. /\ Quiescent => Settled
        /\ \A q \in Slots : Busy(q) => Underway(q)
    BY <2>1, <2>4 DEF SerialInv
  <2>6. PICK s \in Slots :
          CreateStep(s) \/ InviteStep(s) \/ JoinStep(s) \/ LeaveStep(s) \/ EndStep(s)
    BY <1>3, <2>3, <2>4 DEF HistoryNext, Next, Fail, WebhookLeft, WebhookFinished
  <2>7. PICK h : handler' = [handler EXCEPT ![s] = h] /\ Shape(s, h)
    BY <2>6, StepShape DEF SlotStep
  <2>8. handler'[s] = h /\ \A q \in Slots : q # s => handler'[q] = handler[q]
    BY <2>7 DEF TypeInv, TypeOK
  <2>9. Busy(s) \/ Busy(s)'
    <3>1. CASE (\E g : Request(s, g))
      <4>1. \/ Create(s)
            \/ \E u \in Users : Invite(s, u) \/ Join(s, u) \/ Leave(s, u) \/ End(s, u)
            \/ Busy(s)
        BY <2>6
        DEF CreateStep, CreateHost, InviteStep, InviteMember, InviteInsert, JoinStep,
            JoinCount, JoinExisting, JoinWrite, LeaveStep, LeaveLeft, LeaveRemaining,
            LeaveClose, LeaveTransfer, EndStep, EndClose, EndClear, At, Busy
      <4>2. ASSUME NEW g, Request(s, g), g.op # "idle" PROVE Busy(s)'
        BY <4>2 DEF Request, Busy, TypeInv, TypeOK
      <4>3. CASE Create(s)
        <5> DEFINE g == [Idle EXCEPT !.op = "create", !.pc = "host", !.user = Creator]
        <5>1. Request(s, g) /\ g.op = "create"
          BY <4>3 DEF Create, Idle
        <5> HIDE DEF g
        <5>2. QED BY <4>2, <5>1
      <4>4. ASSUME NEW u \in Users, Invite(s, u) PROVE Busy(s)'
        <5> DEFINE g == [Idle EXCEPT !.op = "invite", !.pc = "member", !.user = u]
        <5>1. Request(s, g) /\ g.op = "invite"
          BY <4>4 DEF Invite, Idle
        <5> HIDE DEF g
        <5>2. QED BY <4>2, <5>1
      <4>5. ASSUME NEW u \in Users, Join(s, u) PROVE Busy(s)'
        <5> DEFINE g == [Idle EXCEPT !.op = "join", !.pc = "count", !.user = u]
        <5>1. Request(s, g) /\ g.op = "join"
          BY <4>5 DEF Join, Idle
        <5> HIDE DEF g
        <5>2. QED BY <4>2, <5>1
      <4>6. ASSUME NEW u \in Users, Leave(s, u) PROVE Busy(s)'
        <5>1. PICK r \in RowsOf(u) :
                Request(s, [Idle EXCEPT !.op = "leave", !.pc = "left", !.user = u, !.row = r,
                                        !.host = (part[r].role = "host")])
          BY <4>6 DEF Leave
        <5> DEFINE g == [Idle EXCEPT !.op = "leave", !.pc = "left", !.user = u, !.row = r,
                                     !.host = (part[r].role = "host")]
        <5>2. Request(s, g) /\ g.op = "leave"
          BY <5>1 DEF Idle
        <5> HIDE DEF g
        <5>3. QED BY <4>2, <5>2
      <4>7. ASSUME NEW u \in Users, End(s, u) PROVE Busy(s)'
        <5>1. PICK byId \in BOOLEAN :
                Request(s, [Idle EXCEPT !.op = "end", !.pc = "close", !.user = u,
                                        !.byId = byId])
          BY <4>7 DEF End
        <5> DEFINE g == [Idle EXCEPT !.op = "end", !.pc = "close", !.user = u, !.byId = byId]
        <5>2. Request(s, g) /\ g.op = "end"
          BY <5>1 DEF Idle
        <5> HIDE DEF g
        <5>3. QED BY <4>2, <5>2
      <4>8. QED BY <4>1, <4>3, <4>4, <4>5, <4>6, <4>7
    <3>2. CASE ~(\E g : Request(s, g))
      BY <2>6, <3>2
      DEF CreateStep, Create, CreateHost, InviteStep, Invite, InviteMember, InviteInsert,
          JoinStep, Join, JoinCount, JoinExisting, JoinWrite, LeaveStep, Leave, LeaveLeft,
          LeaveRemaining, LeaveClose, LeaveTransfer, EndStep, End, EndClose, EndClear, At,
          Busy
    <3>3. QED BY <3>1, <3>2
  <2>10. \A q \in Slots : q # s => ~Busy(q) /\ ~Busy(q)'
    BY <2>1, <2>2, <2>8, <2>9 DEF OneAtATime, Busy
  <2>11. IF Busy(s) THEN Underway(s) ELSE Settled
    BY <2>5, <2>10 DEF Quiescent
  <2>12. IF Busy(s)' THEN Underway(s)' ELSE Settled'
    BY <2>6, <2>11, UnderwayStep
  <2>13. QED BY <2>10, <2>12 DEF Quiescent
<1>4. QED BY <1>1, <1>2, <1>3

\* For requests served one at a time, of any number of users and rows: an
\* active call has a host among its participants, through every transfer,
\* re-join and duplicate row, and nobody is in a call that has ended.
THEOREM SerialCallsSettled == HistorySpec => []SerialCall
<1>1. HistoryInit => TypeInv /\ OvershootInv /\ SerialInv
  <2> SUFFICES ASSUME HistoryInit PROVE TypeInv /\ OvershootInv /\ SerialInv
    OBVIOUS
  <2>1. TypeInv /\ OvershootInv
    BY OvershootInit DEF HistoryInit
  <2>2. SerialInv
    BY InitialTypes DEF HistoryInit, Init, SerialInv, OneAtATime, Busy, Settled
  <2>3. QED BY <2>1, <2>2
<1>2. /\ TypeInv /\ OvershootInv /\ SerialInv /\ [HistoryNext]_historyVars
      => (TypeInv /\ OvershootInv /\ SerialInv)'
  BY HistoryIsStep, TypeStep, OvershootStep, SerialStep
<1>3. SerialInv => SerialCall
  BY DEF SerialInv, SerialCall, HostPresent, EndedMeansEmpty, Settled, Hosted
<1>4. QED BY <1>1, <1>2, <1>3, PTL DEF HistorySpec

-----------------------------------------------------------------------------
(* PeerLink: types *)

\* What a connection starts from, and the changes it is subject to, are connections.
LEMMA ContextTypes ==
  ASSUME NEW p \in Contexts
  PROVE  /\ NoPc \in Contexts
         /\ \A id \in Nat : [NoPc EXCEPT !.id = id] \in Contexts
         /\ \A id \in Nat : [NoPc EXCEPT !.id = id, !.state = "stable"] \in Contexts
         /\ \A state \in {"stable", "remote-offer"}, desc \in Descs : WithRemote(p, state, desc) \in Contexts
         /\ \A s \in Signals : WithCandidate(p, s) \in Contexts
         /\ \A state \in {"stable", "local-offer"}, desc \in Descs :
               [p EXCEPT !.state = state, !.local = desc] \in Contexts
         /\ \A ice \in {"checking", "connected", "disconnected", "failed"}, timer \in {"none", "set", "fired"} :
               [p EXCEPT !.ice = ice, !.timer = timer] \in Contexts
<1>1. NoDesc \in Descs
  BY DEF NoDesc, Descs
<1>2. NoPc \in Contexts
  BY <1>1 DEF NoPc, Contexts
<1>3. \A id \in Nat : [NoPc EXCEPT !.id = id] \in Contexts
  BY <1>2 DEF Contexts
<1>4. \A id \in Nat : [NoPc EXCEPT !.id = id, !.state = "stable"] \in Contexts
  BY <1>2 DEF Contexts
<1>5. \A state \in {"stable", "remote-offer"}, desc \in Descs : WithRemote(p, state, desc) \in Contexts
  BY DEF WithRemote, Contexts
<1>6. \A s \in Signals : WithCandidate(p, s) \in Contexts
  BY DEF WithCandidate, Contexts
<1>7. \A state \in {"stable", "local-offer"}, desc \in Descs :
         [p EXCEPT !.state = state, !.local = desc] \in Contexts
  BY DEF Contexts
<1>8. \A ice \in {"checking", "connected", "disconnected", "failed"}, timer \in {"none", "set", "fired"} :
         [p EXCEPT !.ice = ice, !.timer = timer] \in Contexts
  BY DEF Contexts
<1>9. QED
  BY <1>2, <1>3, <1>4, <1>5, <1>6, <1>7, <1>8

\* The signals and jobs that handlers make.
LEMMA SignalTypes ==
  ASSUME NEW t \in Tabs
  PROVE  /\ \A type \in {"accepted", "ended"} : Signal(type, t, NoDesc, NoCandidate) \in Signals
         /\ \A desc \in Descs : desc.kind \in {"offer", "answer"} =>
               /\ Signal(desc.kind, t, desc, NoCandidate) \in Signals
               /\ \A c \in Candidates : Signal("ice-candidate", t, desc, c) \in Signals
         /\ \A n \in Nat : Offer(t, n) \in Descs /\ Offer(t, n).kind = "offer"
         /\ \A n \in Nat, desc \in Descs : Answer(t, n, desc) \in Descs /\ Answer(t, n, desc).kind = "answer"
         /\ \A kind \in {"call", "answer", "restart", "timed restart"}, stage \in {"media", "local", "remote"},
               id \in Nat, s \in Signals \cup {NoSignal} : Job(kind, stage, id, s) \in Jobs
  BY DEF Signal, Signals, NoDesc, Descs, NoCandidate, Offer, Answer, Job, Jobs, NoSignal

\* The keys of the signals that are deduplicated are keys.
LEMMA KeyTypes ==
  ASSUME NEW s \in Signals, s.type \in {"offer", "answer"} \/ (s.type = "ice-candidate" /\ s.cand \in Candidates)
  PROVE  Key(s) \in Keys
  BY PrefixAssumption DEF Key, Keys, User

\* The connection of a tab, a new one and the closed one are connections.
LEMMA OwnContexts ==
  ASSUME LinkTypeOK, NEW t \in Tabs
  PROVE  pc[t] \in Contexts /\ NewPc(t) \in Contexts /\ Closed(t) \in Contexts
<1>1. pc[t] \in Contexts
  BY DEF LinkTypeOK
<1>2. pc[t].id \in Nat /\ pc[t].id + 1 \in Nat
  BY <1>1 DEF Contexts
<1>3. QED
  BY <1>1, <1>2, ContextTypes DEF NewPc, Closed

\* Setting a local description keeps the types of the connections and of what is under way.
LEMMA SetLocalTypes ==
  ASSUME LinkTypeOK, NEW t \in Tabs, NEW state \in {"stable", "local-offer"}, NEW desc \in Descs,
         desc.kind \in {"offer", "answer"}, SetLocal(t, state, desc)
  PROVE  pc' \in [Tabs -> Contexts] /\ posts' \subseteq Signals
<1>1. pc' = [pc EXCEPT ![t] = [pc[t] EXCEPT !.state = state, !.local = desc]]
  BY DEF SetLocal, LinkTypeOK
<1>2. [pc[t] EXCEPT !.state = state, !.local = desc] \in Contexts
  BY ContextTypes DEF LinkTypeOK
<1>3. /\ Signal(desc.kind, t, desc, NoCandidate) \in Signals
      /\ \A c \in Candidates : Signal("ice-candidate", t, desc, c) \in Signals
  BY SignalTypes
<1>4. QED
  BY <1>1, <1>2, <1>3 DEF SetLocal, LinkTypeOK

\* A change of the ICE state keeps the types of the connections.
LEMMA IceTypes ==
  ASSUME LinkTypeOK, NEW t \in Tabs, NEW ice \in {"checking", "connected", "disconnected", "failed"},
         NEW timer \in {"none", "set", "fired"}, IceSet(t, ice, timer)
  PROVE  pc' \in [Tabs -> Contexts]
<1>1. pc' = [pc EXCEPT ![t] = [pc[t] EXCEPT !.ice = ice, !.timer = timer]]
  BY DEF IceSet, LinkTypeOK
<1>2. [pc[t] EXCEPT !.ice = ice, !.timer = timer] \in Contexts
  BY ContextTypes DEF LinkTypeOK
<1>3. QED
  BY <1>1, <1>2 DEF LinkTypeOK

\* Taking down a call keeps the types of all it writes.
LEMMA TeardownTypes ==
  ASSUME LinkTypeOK, NEW tabs, Teardown(tabs)
  PROVE  /\ pc' \in [Tabs -> Contexts] /\ media' \in [Tabs -> BOOLEAN]
         /\ session' \in [Tabs -> {"none", "live", "over"}] /\ late' \in BOOLEAN
<1>1. \A t \in Tabs : Closed(t) \in Contexts /\ pc[t] \in Contexts
  BY OwnContexts
<1>2. pc' \in [Tabs -> Contexts]
  BY <1>1 DEF Teardown
<1>3. session' \in [Tabs -> {"none", "live", "over"}]
  BY DEF Teardown, LinkTypeOK
<1>4. media' \in [Tabs -> BOOLEAN]
  <2>1. media' = [t \in Tabs |-> media[t] /\ t \notin tabs]
    BY DEF Teardown
  <2>2. QED
    BY <2>1, Zenon
<1>5. late' \in BOOLEAN
  <2>1. late' = (late \/ OfferUnderWay)
    BY DEF Teardown
  <2>2. QED
    BY <2>1, Zenon
<1>6. QED
  BY <1>2, <1>3, <1>4, <1>5

\* The arrival of a signal keeps every type.
LEMMA DeliveryTypes ==
  ASSUME LinkTypeOK, SignalInv, NEW s \in posts, Deliver(s)
  PROVE  LinkTypeOK'
<1> USE DEF Arrives
<1>1. s \in Signals /\ \A t \in Tabs : pc[t] \in Contexts
  BY DEF LinkTypeOK
<1>2. CASE OnAccepted(s)
  <2>1. Job("call", "media", 0, NoSignal) \in Jobs
    BY SignalTypes DEF Tabs
  <2>2. jobs' \in [Tabs -> SUBSET Jobs]
    BY <1>2, <2>1 DEF OnAccepted, LinkTypeOK
  <2>3. QED
    BY <1>2, <2>2 DEF OnAccepted, LinkTypeOK
<1>3. ASSUME NEW type \in {"offer", "answer", "ice-candidate"}, Signalled(s, type)
      PROVE  /\ seen' \in [Tabs -> SUBSET Keys] /\ posts' \subseteq Signals
             /\ UNCHANGED <<open, owner, session, media, offers, answers, drops, late>>
  <2>1. Key(s) \in Keys
    BY <1>1, <1>3, KeyTypes DEF Signalled, SignalInv
  <2>2. QED
    BY <1>3, <2>1 DEF Signalled, LinkTypeOK
<1>4. CASE OnOffer(s)
  <2>1. Job("answer", "media", 0, s) \in Jobs
    BY <1>1, SignalTypes DEF Tabs
  <2>2. jobs' \in [Tabs -> SUBSET Jobs]
    BY <1>4, <2>1 DEF OnOffer, LinkTypeOK
  <2>3. QED
    BY <1>3, <1>4, <2>2 DEF OnOffer, LinkTypeOK
<1>5. CASE OnAnswer(s)
  <2>1. \A t \in Tabs : WithRemote(pc[t], "stable", s.desc) \in Contexts
    BY <1>1, ContextTypes DEF Signals
  <2>2. pc' \in [Tabs -> Contexts]
    BY <1>1, <1>5, <2>1 DEF OnAnswer
  <2>3. QED
    BY <1>3, <1>5, <2>2 DEF OnAnswer, LinkTypeOK
<1>6. CASE OnCandidate(s)
  <2>1. \A t \in Tabs : WithCandidate(pc[t], s) \in Contexts
    BY <1>1, ContextTypes
  <2>2. pc' \in [Tabs -> Contexts]
    BY <1>1, <1>6, <2>1 DEF OnCandidate
  <2>3. QED
    BY <1>3, <1>6, <2>2 DEF OnCandidate, LinkTypeOK
<1>7. CASE OnEnded(s)
  BY <1>7, TeardownTypes DEF OnEnded, LinkTypeOK
<1>8. QED
  BY <1>2, <1>4, <1>5, <1>6, <1>7 DEF Deliver

\* A step of a handler keeps every type.
LEMMA WorkTypes ==
  ASSUME LinkTypeOK, NEW t \in Tabs, Work(t)
  PROVE  LinkTypeOK'
<1> USE DEF JobUnchanged
<1>1. pc[t] \in Contexts /\ jobs[t] \subseteq Jobs /\ offers[t] \in Nat /\ answers[t] \in Nat
  BY DEF LinkTypeOK
<1>2. \A j \in Jobs : Finish(t, j) => jobs' \in [Tabs -> SUBSET Jobs]
  BY DEF Finish, LinkTypeOK
<1>3. \A j, k \in Jobs : Advance(t, j, k) => jobs' \in [Tabs -> SUBSET Jobs]
  BY DEF Advance, LinkTypeOK
<1>4. CASE AcquireMedia(t)
  <2>1. PICK j \in jobs[t] :
          /\ media' = [media EXCEPT ![t] = TRUE]
          /\ pc' = IF IsOpen(t) THEN pc ELSE [pc EXCEPT ![t] = NewPc(t)]
          /\ Advance(t, j, [j EXCEPT !.id = pc'[t].id, !.stage = IF j.kind = "call" THEN "local" ELSE "remote"])
          /\ UNCHANGED <<open, owner, posts, seen, session, offers, answers, drops, late>>
    BY <1>4 DEF AcquireMedia
  <2>2. NewPc(t) \in Contexts
    BY OwnContexts
  <2>3. pc' \in [Tabs -> Contexts]
    BY <2>1, <2>2 DEF LinkTypeOK
  <2>4. pc'[t].id \in Nat
    BY <2>3 DEF Contexts
  <2>5. [j EXCEPT !.id = pc'[t].id, !.stage = IF j.kind = "call" THEN "local" ELSE "remote"] \in Jobs
    BY <1>1, <2>1, <2>4 DEF Jobs
  <2>6. jobs' \in [Tabs -> SUBSET Jobs]
    BY <1>1, <1>3, <2>1, <2>5
  <2>7. media' \in [Tabs -> BOOLEAN]
    BY <2>1 DEF LinkTypeOK
  <2>8. QED
    BY <2>1, <2>3, <2>6, <2>7 DEF LinkTypeOK
<1>5. CASE SetLocalOffer(t)
  <2>1. PICK j \in jobs[t] :
          /\ Finish(t, j)
          /\ \/ /\ offers' = [offers EXCEPT ![t] = @ + 1]
                /\ SetLocal(t, "local-offer", Offer(t, offers'[t]))
             \/ UNCHANGED <<offers, pc, posts>>
          /\ UNCHANGED answers /\ JobUnchanged
    BY <1>5 DEF SetLocalOffer
  <2>2. offers' \in [Tabs -> Nat]
    BY <2>1 DEF LinkTypeOK
  <2>3. offers'[t] \in Nat
    BY <2>2
  <2>4. Offer(t, offers'[t]) \in Descs /\ Offer(t, offers'[t]).kind = "offer"
    BY <2>3, SignalTypes
  <2>5. pc' \in [Tabs -> Contexts] /\ posts' \subseteq Signals
    BY <2>1, <2>4, SetLocalTypes DEF LinkTypeOK
  <2>6. QED
    BY <1>1, <1>2, <2>1, <2>2, <2>5 DEF LinkTypeOK
<1>6. CASE SetRemoteOffer(t)
  <2>1. PICK j \in jobs[t] :
          /\ \/ /\ pc' = [pc EXCEPT ![t] = WithRemote(@, "remote-offer", j.sig.desc)]
                /\ Advance(t, j, [j EXCEPT !.stage = "local"])
             \/ Finish(t, j) /\ UNCHANGED pc
          /\ UNCHANGED <<posts, offers, answers>> /\ JobUnchanged
    BY <1>6 DEF SetRemoteOffer
  <2>2. j \in Jobs /\ j.sig.desc \in Descs /\ [j EXCEPT !.stage = "local"] \in Jobs
    BY <1>1, <2>1 DEF Jobs, Signals
  <2>3. WithRemote(pc[t], "remote-offer", j.sig.desc) \in Contexts
    BY <1>1, <2>2, ContextTypes
  <2>4. pc' \in [Tabs -> Contexts]
    BY <2>1, <2>3 DEF LinkTypeOK
  <2>5. jobs' \in [Tabs -> SUBSET Jobs]
    BY <1>2, <1>3, <2>1, <2>2
  <2>6. QED
    BY <2>1, <2>4, <2>5 DEF LinkTypeOK
<1>7. CASE SetLocalAnswer(t)
  <2>1. PICK j \in jobs[t] :
          /\ Finish(t, j)
          /\ \/ /\ answers' = [answers EXCEPT ![t] = @ + 1]
                /\ SetLocal(t, "stable", Answer(t, answers'[t], pc[t].remote))
             \/ UNCHANGED <<answers, pc, posts>>
          /\ UNCHANGED offers /\ JobUnchanged
    BY <1>7 DEF SetLocalAnswer
  <2>2. answers' \in [Tabs -> Nat]
    BY <2>1 DEF LinkTypeOK
  <2>3. answers'[t] \in Nat /\ pc[t].remote \in Descs
    BY <1>1, <2>2 DEF Contexts
  <2>4. Answer(t, answers'[t], pc[t].remote) \in Descs /\ Answer(t, answers'[t], pc[t].remote).kind = "answer"
    BY <2>3, SignalTypes
  <2>5. pc' \in [Tabs -> Contexts] /\ posts' \subseteq Signals
    BY <2>1, <2>4, SetLocalTypes DEF LinkTypeOK
  <2>6. QED
    BY <1>1, <1>2, <2>1, <2>2, <2>5 DEF LinkTypeOK
<1>8. QED
  BY <1>4, <1>5, <1>6, <1>7 DEF Work

\* An ICE restart that begins keeps the types.
LEMMA RestartTypes ==
  ASSUME LinkTypeOK, NEW t \in Tabs, NEW kind \in {"restart", "timed restart"}, Restart(t, kind)
  PROVE  jobs' \in [Tabs -> SUBSET Jobs] /\ late' \in BOOLEAN
<1>1. pc[t].id \in Nat
  BY DEF LinkTypeOK, Contexts
<1>2. Job(kind, "local", pc[t].id, NoSignal) \in Jobs
  BY <1>1, SignalTypes
<1>3. jobs' \in [Tabs -> SUBSET Jobs]
  BY <1>2 DEF Restart, LinkTypeOK
<1>4. late' \in BOOLEAN
  <2>1. late' = (late \/ \E u \in Tabs : session[u] = "over")
    BY DEF Restart
  <2>2. QED
    BY <2>1, Zenon
<1>5. QED
  BY <1>3, <1>4

\* A change of the network, and the timer that follows it, keep every type.
LEMMA NetworkTypes ==
  ASSUME LinkTypeOK, NEW t \in Tabs, Connect(t) \/ Network(t) \/ RestartTimer(t)
  PROVE  LinkTypeOK'
<1> USE DEF IceUnchanged
<1>1. pc[t].ice \in {"checking", "connected", "disconnected", "failed"} /\ pc[t].timer \in {"none", "set", "fired"}
  BY DEF LinkTypeOK, Contexts
<1>2. CASE Connect(t)
  BY <1>2, IceTypes DEF Connect, LinkTypeOK
<1>3. CASE IceDrop(t)
  <2>1. pc' \in [Tabs -> Contexts]
    BY <1>1, <1>3, IceTypes DEF IceDrop
  <2>2. QED
    BY <1>3, <2>1 DEF IceDrop, LinkTypeOK
<1>4. CASE IceFail(t)
  <2>1. pc' \in [Tabs -> Contexts]
    BY <1>1, <1>4, IceTypes DEF IceFail
  <2>2. QED
    BY <1>4, <2>1, RestartTypes DEF IceFail, LinkTypeOK
<1>5. CASE RestartTimer(t)
  <2>1. pc' \in [Tabs -> Contexts]
    BY <1>1, <1>5, IceTypes DEF RestartTimer
  <2>2. QED
    BY <1>5, <2>1, RestartTypes DEF RestartTimer, LinkTypeOK
<1>6. QED
  BY <1>2, <1>3, <1>4, <1>5 DEF Network

\* Every step keeps the types.
LEMMA LinkTypeStep ==
  ASSUME LinkTypeOK, SignalInv, [LinkNext]_linkVars
  PROVE  LinkTypeOK'
<1>1. CASE UNCHANGED linkVars
  BY <1>1 DEF LinkTypeOK, linkVars, tabVars
<1>2. ASSUME NEW t \in Tabs, Accept(t) PROVE LinkTypeOK'
  <2>1. Signal("accepted", t, NoDesc, NoCandidate) \in Signals
    BY SignalTypes
  <2>2. NewPc(t) \in Contexts
    BY OwnContexts
  <2>3. posts' \subseteq Signals /\ pc' \in [Tabs -> Contexts]
    BY <1>2, <2>1, <2>2 DEF Accept, Post, LinkTypeOK
  <2>4. media' \in [Tabs -> BOOLEAN] /\ session' \in [Tabs -> {"none", "live", "over"}]
    BY <1>2 DEF Accept, LinkTypeOK
  <2>5. QED
    BY <1>2, <2>3, <2>4 DEF Accept, LinkTypeOK
<1>3. ASSUME NEW t \in Tabs, Hangup(t) PROVE LinkTypeOK'
  <2>1. Signal("ended", t, NoDesc, NoCandidate) \in Signals
    BY SignalTypes
  <2>2. posts' \subseteq Signals
    BY <1>3, <2>1 DEF Hangup, Post, LinkTypeOK
  <2>3. QED
    BY <1>3, <2>2, TeardownTypes DEF Hangup, LinkTypeOK
<1>4. QED
  BY <1>1, <1>2, <1>3, DeliveryTypes, WorkTypes, NetworkTypes DEF LinkNext

-----------------------------------------------------------------------------
(* PeerLink: what a step does to a connection *)

\* A description is set: the rest of the connection, and the others, are as before.
LEMMA SetLocalFacts ==
  ASSUME LinkTypeOK, NEW t \in Tabs, NEW state, NEW desc, SetLocal(t, state, desc)
  PROVE  /\ \A u \in Tabs \ {t} : pc'[u] = pc[u]
         /\ pc'[t].state = state /\ pc'[t].local = desc /\ pc'[t].remote = pc[t].remote
         /\ pc'[t].id = pc[t].id /\ pc'[t].hasRemote = pc[t].hasRemote
         /\ pc'[t].queue = pc[t].queue /\ pc'[t].applied = pc[t].applied
         /\ pc'[t].ice = pc[t].ice /\ pc'[t].timer = pc[t].timer
<1>1. pc' = [pc EXCEPT ![t] = [pc[t] EXCEPT !.state = state, !.local = desc]]
  BY DEF SetLocal, LinkTypeOK
<1>2. QED
  BY <1>1 DEF LinkTypeOK, Contexts

\* What changes in the state of the network leaves the negotiation alone.
LEMMA IceFacts ==
  ASSUME LinkTypeOK, NEW t \in Tabs, NEW ice, NEW timer, IceSet(t, ice, timer)
  PROVE  /\ \A u \in Tabs \ {t} : pc'[u] = pc[u]
         /\ pc'[t].state = pc[t].state /\ pc'[t].local = pc[t].local /\ pc'[t].remote = pc[t].remote
         /\ pc'[t].id = pc[t].id /\ pc'[t].hasRemote = pc[t].hasRemote
         /\ pc'[t].queue = pc[t].queue /\ pc'[t].applied = pc[t].applied
         /\ pc'[t].ice = ice /\ pc'[t].timer = timer
<1>1. pc' = [pc EXCEPT ![t] = [pc[t] EXCEPT !.ice = ice, !.timer = timer]]
  BY DEF IceSet, LinkTypeOK
<1>2. QED
  BY <1>1 DEF LinkTypeOK, Contexts

\* A remote description is set.
LEMMA RemoteFacts ==
  ASSUME NEW p \in Contexts, NEW state, NEW desc
  PROVE  LET q == WithRemote(p, state, desc)
         IN  /\ q.state = state /\ q.remote = desc /\ q.hasRemote /\ q.local = p.local /\ q.id = p.id
             /\ q.queue = {} /\ q.applied = p.applied \cup {s \in p.queue : s.desc = desc}
             /\ q.timer = p.timer /\ (p.ice = "checking" => q.ice = "checking")
BY DEF WithRemote, Contexts

\* A candidate is queued, added or refused: nothing else changes.
LEMMA CandidateFacts ==
  ASSUME NEW p \in Contexts, NEW s
  PROVE  LET q == WithCandidate(p, s)
         IN  /\ q.state = p.state /\ q.remote = p.remote /\ q.hasRemote = p.hasRemote /\ q.local = p.local
             /\ q.id = p.id /\ q.timer = p.timer /\ q.ice = p.ice
             /\ q.queue = (IF p.state # "closed" /\ ~p.hasRemote THEN p.queue \cup {s} ELSE p.queue)
             /\ q.applied = IF p.state # "closed" /\ p.hasRemote /\ s.desc = p.remote
                            THEN p.applied \cup {s} ELSE p.applied
BY DEF WithCandidate, Fits, Contexts

\* A connection is created, or closed.
LEMMA FreshFacts ==
  ASSUME LinkTypeOK, NEW t \in Tabs
  PROVE  /\ LET q == NewPc(t)
            IN  /\ q.id = pc[t].id + 1 /\ q.state = "stable" /\ q.local = NoDesc /\ q.remote = NoDesc
                /\ ~q.hasRemote /\ q.queue = {} /\ q.applied = {} /\ q.ice = "checking" /\ q.timer = "none"
         /\ LET q == Closed(t)
            IN  /\ q.id = pc[t].id /\ q.state = "closed" /\ q.local = NoDesc /\ q.remote = NoDesc
                /\ ~q.hasRemote /\ q.queue = {} /\ q.applied = {} /\ q.ice = "checking" /\ q.timer = "none"
BY DEF NewPc, Closed, NoPc

\* A job of a tab comes to an end, goes on, or is added: those of the others stay.
LEMMA JobFacts ==
  ASSUME LinkTypeOK, NEW t \in Tabs, NEW j, NEW k
  PROVE  /\ Finish(t, j) => jobs'[t] = jobs[t] \ {j} /\ \A u \in Tabs \ {t} : jobs'[u] = jobs[u]
         /\ Advance(t, j, k) => jobs'[t] = (jobs[t] \ {j}) \cup {k} /\ \A u \in Tabs \ {t} : jobs'[u] = jobs[u]
BY DEF LinkTypeOK, Finish, Advance

\* The steps of a job, one outcome each.
AcquireStep(t, j, k) ==
    /\ j.stage = "media" /\ j \in Jobs
    /\ k = Job(j.kind, IF j.kind = "call" THEN "local" ELSE "remote", pc'[t].id, j.sig)
    /\ k.kind = j.kind /\ k.sig = j.sig /\ k.id = pc'[t].id
    /\ k.stage = (IF j.kind = "call" THEN "local" ELSE "remote")
    /\ jobs'[t] = (jobs[t] \ {j}) \cup {k} /\ \A u \in Tabs \ {t} : jobs'[u] = jobs[u]
    /\ \A u \in Tabs \ {t} : pc'[u] = pc[u]
    /\ pc'[t] = (IF IsOpen(t) THEN pc[t] ELSE NewPc(t))
    /\ media' = [media EXCEPT ![t] = TRUE]
    /\ UNCHANGED <<open, owner, posts, seen, session, offers, answers, drops, late>>

LocalOfferStep(t, j) ==
    /\ j.kind # "answer" /\ j.stage = "local" /\ j \in Jobs
    /\ jobs'[t] = jobs[t] \ {j} /\ \A u \in Tabs \ {t} : jobs'[u] = jobs[u]
    /\ IF Held(t, j) /\ pc[t].state \in {"stable", "local-offer"}
       THEN offers' = [offers EXCEPT ![t] = @ + 1] /\ SetLocal(t, "local-offer", Offer(t, offers[t] + 1))
       ELSE UNCHANGED <<offers, pc, posts>>
    /\ UNCHANGED <<open, owner, seen, session, media, answers, drops, late>>

RemoteOfferStep(t, j, k) ==
    /\ j.kind = "answer" /\ j.stage = "remote" /\ j \in Jobs
    /\ \A u \in Tabs \ {t} : jobs'[u] = jobs[u]
    /\ \A u \in Tabs \ {t} : pc'[u] = pc[u]
    /\ k = Job("answer", "local", j.id, j.sig)
    /\ k.kind = "answer" /\ k.stage = "local" /\ k.id = j.id /\ k.sig = j.sig
    /\ IF Held(t, j)
       THEN pc'[t] = WithRemote(pc[t], "remote-offer", j.sig.desc) /\ jobs'[t] = (jobs[t] \ {j}) \cup {k}
       ELSE pc'[t] = pc[t] /\ jobs'[t] = jobs[t] \ {j}
    /\ UNCHANGED <<open, owner, posts, seen, session, media, offers, answers, drops, late>>

LocalAnswerStep(t, j) ==
    /\ j.kind = "answer" /\ j.stage = "local" /\ j \in Jobs
    /\ jobs'[t] = jobs[t] \ {j} /\ \A u \in Tabs \ {t} : jobs'[u] = jobs[u]
    /\ IF Held(t, j) /\ pc[t].state = "remote-offer"
       THEN /\ answers' = [answers EXCEPT ![t] = @ + 1]
            /\ SetLocal(t, "stable", Answer(t, answers[t] + 1, pc[t].remote))
       ELSE UNCHANGED <<answers, pc, posts>>
    /\ UNCHANGED <<open, owner, seen, session, media, offers, drops, late>>

\* Two jobs that agree in every field are one.
LEMMA JobsEqual ==
  ASSUME NEW j \in Jobs, NEW k \in Jobs, j.kind = k.kind, j.stage = k.stage, j.id = k.id, j.sig = k.sig
  PROVE  j = k
<1>1. j = [kind |-> j.kind, stage |-> j.stage, id |-> j.id, sig |-> j.sig]
  BY DEF Jobs
<1>2. k = [kind |-> k.kind, stage |-> k.stage, id |-> k.id, sig |-> k.sig]
  BY DEF Jobs
<1>3. QED
  BY <1>1, <1>2

\* The camera has been opened: the job goes on with a connection.
LEMMA AcquireFacts ==
  ASSUME LinkTypeOK, NEW t \in Tabs, AcquireMedia(t)
  PROVE  \E j \in jobs[t], k \in Jobs : AcquireStep(t, j, k)
<1>1. PICK j \in jobs[t] :
        /\ j.stage = "media"
        /\ media' = [media EXCEPT ![t] = TRUE]
        /\ pc' = IF IsOpen(t) THEN pc ELSE [pc EXCEPT ![t] = NewPc(t)]
        /\ Advance(t, j, [j EXCEPT !.id = pc'[t].id, !.stage = IF j.kind = "call" THEN "local" ELSE "remote"])
        /\ UNCHANGED <<open, owner, posts, seen, session, offers, answers, drops, late>>
  BY DEF AcquireMedia
<1> DEFINE k == [j EXCEPT !.id = pc'[t].id, !.stage = IF j.kind = "call" THEN "local" ELSE "remote"]
<1>2. j \in Jobs
  BY DEF LinkTypeOK
<1>3. /\ \A u \in Tabs \ {t} : pc'[u] = pc[u]
      /\ pc'[t] = IF IsOpen(t) THEN pc[t] ELSE NewPc(t)
  BY <1>1 DEF LinkTypeOK
<1>4. pc'[t].id \in Nat
  BY <1>3, OwnContexts DEF Contexts
<1>5. /\ k \in Jobs /\ k.kind = j.kind /\ k.sig = j.sig /\ k.id = pc'[t].id
      /\ k.stage = IF j.kind = "call" THEN "local" ELSE "remote"
  BY <1>2, <1>4 DEF Jobs
<1>6. jobs'[t] = (jobs[t] \ {j}) \cup {k} /\ \A u \in Tabs \ {t} : jobs'[u] = jobs[u]
  BY <1>1, JobFacts
<1>7. k = Job(j.kind, IF j.kind = "call" THEN "local" ELSE "remote", pc'[t].id, j.sig)
  <2>1. Job(j.kind, IF j.kind = "call" THEN "local" ELSE "remote", pc'[t].id, j.sig) \in Jobs
    BY <1>2, <1>4 DEF Jobs, Job
  <2>2. QED
    BY <1>5, <2>1, JobsEqual DEF Job
<1> HIDE DEF k
<1>8. QED
  BY <1>1, <1>2, <1>3, <1>5, <1>6, <1>7 DEF AcquireStep

\* What SetLocalOffer does, for the handler that takes the step.
LEMMA LocalOfferFacts ==
  ASSUME LinkTypeOK, NEW t \in Tabs, SetLocalOffer(t)
  PROVE  \E j \in jobs[t] : LocalOfferStep(t, j)
<1>1. PICK j \in jobs[t] :
        /\ j.kind # "answer" /\ j.stage = "local"
        /\ Finish(t, j)
        /\ IF Held(t, j) /\ pc[t].state \in {"stable", "local-offer"}
           THEN offers' = [offers EXCEPT ![t] = @ + 1] /\ SetLocal(t, "local-offer", Offer(t, offers'[t]))
           ELSE UNCHANGED <<offers, pc, posts>>
        /\ UNCHANGED answers /\ JobUnchanged
  BY DEF SetLocalOffer
<1>2. offers' = [offers EXCEPT ![t] = @ + 1] => offers'[t] = offers[t] + 1
  BY DEF LinkTypeOK
<1>3. j \in Jobs /\ jobs'[t] = jobs[t] \ {j} /\ \A u \in Tabs \ {t} : jobs'[u] = jobs[u]
  BY <1>1, JobFacts DEF LinkTypeOK
<1>4. QED
  BY <1>1, <1>2, <1>3 DEF JobUnchanged, LocalOfferStep

\* What SetRemoteOffer does, for the handler that takes the step.
LEMMA RemoteOfferFacts ==
  ASSUME LinkTypeOK, NEW t \in Tabs, SetRemoteOffer(t)
  PROVE  \E j \in jobs[t], k \in Jobs : RemoteOfferStep(t, j, k)
<1>1. PICK j \in jobs[t] :
        /\ j.kind = "answer" /\ j.stage = "remote"
        /\ IF Held(t, j)
           THEN /\ pc' = [pc EXCEPT ![t] = WithRemote(@, "remote-offer", j.sig.desc)]
                /\ Advance(t, j, [j EXCEPT !.stage = "local"])
           ELSE Finish(t, j) /\ UNCHANGED pc
        /\ UNCHANGED <<posts, offers, answers>> /\ JobUnchanged
  BY DEF SetRemoteOffer
<1> DEFINE k == [j EXCEPT !.stage = "local"]
<1>2. j \in Jobs
  BY DEF LinkTypeOK
<1>3. k \in Jobs /\ k.kind = "answer" /\ k.stage = "local" /\ k.id = j.id /\ k.sig = j.sig
  BY <1>1, <1>2 DEF Jobs
<1>4. k = Job("answer", "local", j.id, j.sig)
  <2>1. Job("answer", "local", j.id, j.sig) \in Jobs
    BY <1>2 DEF Jobs, Job
  <2>2. QED
    BY <1>3, <2>1, JobsEqual DEF Job
<1>5. Held(t, j) => /\ pc'[t] = WithRemote(pc[t], "remote-offer", j.sig.desc) /\ \A u \in Tabs \ {t} : pc'[u] = pc[u]
  BY <1>1 DEF LinkTypeOK
<1>6. Held(t, j) => jobs'[t] = (jobs[t] \ {j}) \cup {k} /\ \A u \in Tabs \ {t} : jobs'[u] = jobs[u]
  BY <1>1, JobFacts
<1>7. ~Held(t, j) => /\ \A u \in Tabs : pc'[u] = pc[u]
                     /\ jobs'[t] = jobs[t] \ {j} /\ \A u \in Tabs \ {t} : jobs'[u] = jobs[u]
  BY <1>1, JobFacts
<1> HIDE DEF k
<1>8. UNCHANGED <<open, owner, posts, seen, session, media, offers, answers, drops, late>>
  BY <1>1 DEF JobUnchanged
<1>9. CASE Held(t, j)
  BY <1>1, <1>2, <1>3, <1>4, <1>5, <1>6, <1>8, <1>9 DEF RemoteOfferStep
<1>10. CASE ~Held(t, j)
  BY <1>1, <1>2, <1>3, <1>4, <1>7, <1>8, <1>10 DEF RemoteOfferStep
<1>11. QED
  BY <1>9, <1>10

\* What SetLocalAnswer does, for the handler that takes the step.
LEMMA LocalAnswerFacts ==
  ASSUME LinkTypeOK, NEW t \in Tabs, SetLocalAnswer(t)
  PROVE  \E j \in jobs[t] : LocalAnswerStep(t, j)
<1>1. PICK j \in jobs[t] :
        /\ j.kind = "answer" /\ j.stage = "local"
        /\ Finish(t, j)
        /\ IF Held(t, j) /\ pc[t].state = "remote-offer"
           THEN /\ answers' = [answers EXCEPT ![t] = @ + 1]
                /\ SetLocal(t, "stable", Answer(t, answers'[t], pc[t].remote))
           ELSE UNCHANGED <<answers, pc, posts>>
        /\ UNCHANGED offers /\ JobUnchanged
  BY DEF SetLocalAnswer
<1>2. answers' = [answers EXCEPT ![t] = @ + 1] => answers'[t] = answers[t] + 1
  BY DEF LinkTypeOK
<1>3. j \in Jobs /\ jobs'[t] = jobs[t] \ {j} /\ \A u \in Tabs \ {t} : jobs'[u] = jobs[u]
  BY <1>1, JobFacts DEF LinkTypeOK
<1>4. QED
  BY <1>1, <1>2, <1>3 DEF JobUnchanged, LocalAnswerStep

\* A state of the network changes: the connection of one tab, and perhaps a restart begins.
NetworkStep(t) ==
    /\ \A u \in Tabs \ {t} : pc'[u] = pc[u]
    /\ pc'[t].state = pc[t].state /\ pc'[t].local = pc[t].local /\ pc'[t].remote = pc[t].remote
    /\ pc'[t].id = pc[t].id /\ pc'[t].hasRemote = pc[t].hasRemote
    /\ pc'[t].queue = pc[t].queue /\ pc'[t].applied = pc[t].applied
    /\ \A u \in Tabs \ {t} : jobs'[u] = jobs[u]
    /\ \/ jobs'[t] = jobs[t] /\ late' = late
       \/ \E j \in Jobs : /\ j.kind \in {"restart", "timed restart"} /\ IsOpen(t)
                          /\ jobs'[t] = jobs[t] \cup {j}
                          /\ late' = (late \/ \E u \in Tabs : session[u] = "over")
    /\ \/ owner # NoTab /\ t \in {Caller, owner} /\ Agreed(owner)
       \/ IsOpen(t) /\ ~(pc[t].ice = "checking" /\ pc[t].timer = "none")
    /\ UNCHANGED <<open, owner, posts, seen, session, media, offers, answers>>

\* The steps of the network are of that kind.
LEMMA NetworkFacts ==
  ASSUME LinkTypeOK, NEW t \in Tabs, Connect(t) \/ Network(t) \/ RestartTimer(t)
  PROVE  NetworkStep(t)
<1>1. ASSUME NEW kind \in {"restart", "timed restart"}, Restart(t, kind), IsOpen(t)
      PROVE  /\ \A u \in Tabs \ {t} : jobs'[u] = jobs[u]
             /\ \E j \in Jobs : /\ j.kind \in {"restart", "timed restart"} /\ IsOpen(t)
                                /\ jobs'[t] = jobs[t] \cup {j}
                                /\ late' = (late \/ \E u \in Tabs : session[u] = "over")
  <2> DEFINE j == Job(kind, "local", pc[t].id, NoSignal)
  <2>1. pc[t].id \in Nat
    BY DEF LinkTypeOK, Contexts
  <2>2. j \in Jobs /\ j.kind = kind
    BY <2>1, SignalTypes DEF Job
  <2>3. jobs'[t] = jobs[t] \cup {j} /\ \A u \in Tabs \ {t} : jobs'[u] = jobs[u]
    BY <1>1 DEF Restart, LinkTypeOK
  <2> HIDE DEF j
  <2>4. late' = (late \/ \E u \in Tabs : session[u] = "over")
    BY <1>1 DEF Restart
  <2>5. QED
    BY <1>1, <2>2, <2>3, <2>4
<1>2. CASE Connect(t)
  BY <1>2, IceFacts DEF Connect, NetworkStep, IceUnchanged
<1>3. CASE IceDrop(t)
  <2>1. IceSet(t, "disconnected", IF pc[t].timer = "none" THEN "set" ELSE pc[t].timer)
    BY <1>3 DEF IceDrop
  <2>2. QED
    BY <1>3, <2>1, IceFacts DEF IceDrop, NetworkStep, IceUnchanged
<1>4. CASE IceFail(t)
  BY <1>1, <1>4, IceFacts DEF IceFail, NetworkStep, IceUnchanged
<1>5. CASE RestartTimer(t)
  <2>1. IceSet(t, pc[t].ice, "fired")
    BY <1>5 DEF RestartTimer
  <2>2. Restart(t, "timed restart") \/ (jobs' = jobs /\ late' = late)
    BY <1>5 DEF RestartTimer
  <2>3. QED
    BY <1>1, <1>5, <2>1, <2>2, IceFacts DEF RestartTimer, NetworkStep, IceUnchanged
<1>6. QED
  BY <1>2, <1>3, <1>4, <1>5 DEF Network

-----------------------------------------------------------------------------
(* PeerLink: signals, jobs and keys *)

\* A description is sent with the candidates that were gathered for it.
LEMMA SetLocalPosts ==
  ASSUME NEW t, NEW state, NEW desc, SetLocal(t, state, desc)
  PROVE  /\ posts \subseteq posts'
         /\ \A s \in posts' \ posts :
               /\ s.by = t /\ s.desc = desc
               /\ \/ s = Signal(desc.kind, t, desc, NoCandidate) /\ s.type = desc.kind
                  \/ \E c \in Candidates : s = Signal("ice-candidate", t, desc, c) /\ s.type = "ice-candidate" /\ s.cand = c
         /\ Signal(desc.kind, t, desc, NoCandidate) \in posts'
         /\ \A c \in Candidates : Signal("ice-candidate", t, desc, c) \in posts'
  BY DEF SetLocal, Signal

\* What a signal that arrives does to the signals and the jobs.
LEMMA ArrivalFacts ==
  ASSUME LinkTypeOK, NEW s \in posts, Deliver(s)
  PROVE  /\ posts' = posts \ {s}
         /\ UNCHANGED <<open, owner, offers, answers, drops>>
         /\ \/ /\ s.type = "accepted" /\ OnAccepted(s)
               /\ jobs'[Caller] = jobs[Caller] \cup {Job("call", "media", 0, NoSignal)}
               /\ \A u \in Tabs \ {Caller} : jobs'[u] = jobs[u]
               /\ UNCHANGED <<seen, session, media, pc, late>>
            \/ /\ s.type = "offer" /\ OnOffer(s)
               /\ \A u \in Tabs : jobs'[u] = IF u \in Fresh(s) THEN jobs[u] \cup {Job("answer", "media", 0, s)} ELSE jobs[u]
               /\ \A u \in Tabs : seen'[u] = IF u \in Audience(s.by) THEN seen[u] \cup {Key(s)} ELSE seen[u]
               /\ UNCHANGED <<session, media, pc, late>>
            \/ /\ s.type = "answer" /\ OnAnswer(s)
               /\ \A u \in Tabs : pc'[u] = IF u \in Fresh(s) /\ pc[u].state = "local-offer"
                                           THEN WithRemote(pc[u], "stable", s.desc) ELSE pc[u]
               /\ \A u \in Tabs : seen'[u] = IF u \in Audience(s.by) THEN seen[u] \cup {Key(s)} ELSE seen[u]
               /\ UNCHANGED <<jobs, session, media, late>>
            \/ /\ s.type = "ice-candidate" /\ OnCandidate(s)
               /\ \A u \in Tabs : pc'[u] = IF u \in Fresh(s) THEN WithCandidate(pc[u], s) ELSE pc[u]
               /\ \A u \in Tabs : seen'[u] = IF u \in Audience(s.by) THEN seen[u] \cup {Key(s)} ELSE seen[u]
               /\ UNCHANGED <<jobs, session, media, late>>
            \/ /\ s.type = "ended" /\ OnEnded(s) /\ Teardown(Audience(s.by))
               /\ UNCHANGED <<jobs, seen>>
<1>1. ASSUME NEW type, Signalled(s, type)
      PROVE  /\ posts' = posts \ {s} /\ s.type = type
             /\ \A u \in Tabs : seen'[u] = IF u \in Audience(s.by) THEN seen[u] \cup {Key(s)} ELSE seen[u]
             /\ UNCHANGED <<open, owner, session, media, offers, answers, drops, late>>
  BY <1>1 DEF Signalled, Arrives
<1>2. CASE OnAccepted(s)
  BY <1>2 DEF OnAccepted, Arrives, LinkTypeOK, Tabs
<1>3. CASE OnOffer(s)
  <2>1. \A u \in Tabs : jobs'[u] = IF u \in Fresh(s) THEN jobs[u] \cup {Job("answer", "media", 0, s)} ELSE jobs[u]
    BY <1>3 DEF OnOffer
  <2>2. Signalled(s, "offer") /\ UNCHANGED pc
    BY <1>3 DEF OnOffer
  <2>3. QED
    BY <1>1, <1>3, <2>1, <2>2
<1>4. CASE OnAnswer(s)
  <2>1. \A u \in Tabs : pc'[u] = IF u \in Fresh(s) /\ pc[u].state = "local-offer"
                                 THEN WithRemote(pc[u], "stable", s.desc) ELSE pc[u]
    BY <1>4 DEF OnAnswer
  <2>2. Signalled(s, "answer") /\ UNCHANGED jobs
    BY <1>4 DEF OnAnswer
  <2>3. QED
    BY <1>1, <1>4, <2>1, <2>2
<1>5. CASE OnCandidate(s)
  <2>1. \A u \in Tabs : pc'[u] = IF u \in Fresh(s) THEN WithCandidate(pc[u], s) ELSE pc[u]
    BY <1>5 DEF OnCandidate
  <2>2. Signalled(s, "ice-candidate") /\ UNCHANGED jobs
    BY <1>5 DEF OnCandidate
  <2>3. QED
    BY <1>1, <1>5, <2>1, <2>2
<1>6. CASE OnEnded(s)
  BY <1>6 DEF OnEnded, Arrives
<1>7. QED
  BY <1>2, <1>3, <1>4, <1>5, <1>6 DEF Deliver

\* Signals carry descriptions of their own type, and only offers are answered.
LEMMA SignalStep ==
  ASSUME LinkTypeOK, SignalInv, [LinkNext]_linkVars
  PROVE  SignalInv'
<1> DEFINE Sound(s) == /\ s.by \in Tabs
                       /\ s.type \in {"offer", "answer"} => s.desc.kind = s.type
                       /\ s.type = "ice-candidate" => s.cand \in Candidates
           Fits1(j) == j.kind = "answer" => j.sig.type = "offer" /\ j.sig.desc.kind = "offer"
<1>1. (\A s \in posts : Sound(s)) /\ \A t \in Tabs : \A j \in jobs[t] : Fits1(j)
  BY DEF SignalInv
<1>2. SUFFICES (\A s \in posts' : Sound(s)) /\ \A t \in Tabs : \A j \in jobs'[t] : Fits1(j)
  BY DEF SignalInv
<1>3. ASSUME NEW t \in Tabs, NEW state, NEW desc, SetLocal(t, state, desc), desc.kind \in {"offer", "answer"}
      PROVE  \A s \in posts' : Sound(s)
  BY <1>1, <1>3, SetLocalPosts
<1>4. ASSUME NEW t \in Tabs, NEW type \in {"accepted", "ended"}, Post(Signal(type, t, NoDesc, NoCandidate))
      PROVE  \A s \in posts' : Sound(s)
  BY <1>1, <1>4 DEF Post, Signal
<1>5. CASE UNCHANGED linkVars
  BY <1>1, <1>5 DEF linkVars, tabVars
<1>6. ASSUME NEW s \in posts, Deliver(s)
      PROVE  (\A r \in posts' : Sound(r)) /\ \A t \in Tabs : \A j \in jobs'[t] : Fits1(j)
  <2>1. \A r \in posts' : Sound(r)
    BY <1>1, <1>6, ArrivalFacts
  <2>2. Fits1(Job("call", "media", 0, NoSignal))
    BY DEF Job
  <2>3. s.type = "offer" => Fits1(Job("answer", "media", 0, s))
    BY <1>1 DEF Job
  <2>4. \A t \in Tabs : \A j \in jobs'[t] :
           \/ j \in jobs[t] \/ j = Job("call", "media", 0, NoSignal)
           \/ s.type = "offer" /\ j = Job("answer", "media", 0, s)
    BY <1>6, ArrivalFacts
  <2> HIDE DEF Fits1
  <2>5. \A t \in Tabs : \A j \in jobs'[t] : Fits1(j)
    BY <1>1, <2>2, <2>3, <2>4
  <2>6. QED
    BY <2>1, <2>5
<1>7. ASSUME NEW t \in Tabs, Accept(t) \/ Hangup(t)
      PROVE  (\A r \in posts' : Sound(r)) /\ \A u \in Tabs : \A j \in jobs'[u] : Fits1(j)
  BY <1>1, <1>4, <1>7 DEF Accept, Hangup
<1>8. ASSUME NEW t \in Tabs, Work(t)
      PROVE  (\A r \in posts' : Sound(r)) /\ \A u \in Tabs : \A j \in jobs'[u] : Fits1(j)
  <2>1. CASE AcquireMedia(t)
    <3>1. PICK j \in jobs[t], k \in Jobs : AcquireStep(t, j, k)
      BY <2>1, AcquireFacts
    <3>2. Fits1(k) /\ posts' = posts
      BY <1>1, <3>1 DEF AcquireStep
    <3> HIDE DEF Fits1
    <3>3. QED
      BY <1>1, <3>1, <3>2 DEF AcquireStep
  <2>2. CASE SetLocalOffer(t)
    <3>1. PICK j \in jobs[t] : LocalOfferStep(t, j)
      BY <2>2, LocalOfferFacts
    <3>2. Offer(t, offers[t] + 1).kind \in {"offer", "answer"}
      BY DEF Offer
    <3>3. QED
      BY <1>1, <1>3, <3>1, <3>2 DEF LocalOfferStep
  <2>3. CASE SetRemoteOffer(t)
    <3>1. PICK j \in jobs[t], k \in Jobs : RemoteOfferStep(t, j, k)
      BY <2>3, RemoteOfferFacts
    <3>2. QED
      BY <1>1, <3>1 DEF RemoteOfferStep
  <2>4. CASE SetLocalAnswer(t)
    <3>1. PICK j \in jobs[t] : LocalAnswerStep(t, j)
      BY <2>4, LocalAnswerFacts
    <3>2. Answer(t, answers[t] + 1, pc[t].remote).kind \in {"offer", "answer"}
      BY DEF Answer
    <3>3. QED
      BY <1>1, <1>3, <3>1, <3>2 DEF LocalAnswerStep
  <2>5. QED
    BY <1>8, <2>1, <2>2, <2>3, <2>4 DEF Work
<1>9. ASSUME NEW t \in Tabs, Connect(t) \/ Network(t) \/ RestartTimer(t)
      PROVE  (\A r \in posts' : Sound(r)) /\ \A u \in Tabs : \A j \in jobs'[u] : Fits1(j)
  <2>1. NetworkStep(t)
    BY <1>9, NetworkFacts
  <2>2. \A u \in Tabs \ {t} : jobs'[u] = jobs[u]
    BY <2>1 DEF NetworkStep
  <2>3. jobs'[t] = jobs[t] \/ \E j \in Jobs : j.kind \in {"restart", "timed restart"} /\ jobs'[t] = jobs[t] \cup {j}
    BY <2>1 DEF NetworkStep
  <2>4. posts' = posts
    BY <2>1 DEF NetworkStep
  <2>5. QED
    BY <1>1, <2>2, <2>3, <2>4
<1>10. QED
  BY <1>5, <1>6, <1>7, <1>8, <1>9 DEF LinkNext

\* The keys under which a tab that gets a signal remembers it.
LEMMA KeyFacts ==
  ASSUME LinkTypeOK, NEW s, s.by \in Tabs, NEW t \in Audience(s.by)
  PROVE  /\ t \in Tabs /\ (t = Caller <=> s.by # Caller)
         /\ \A type \in {"offer", "answer"} : s.type = type => Key(s) = KeyTo(t, type)
         /\ s.type = "ice-candidate" => Key(s) = IceKeyTo(t, PrefixOf[s.cand])
  BY TabsAssumption DEF Audience, Key, KeyTo, IceKeyTo, Other, User, Tabs, LinkTypeOK

-----------------------------------------------------------------------------
(* PeerLink: remote descriptions *)

\* The remote description of a tab stays, is forgotten with the connection, is
\* an offer, or is an answer that is the first it reads.
RemoteMoves(t) ==
    /\ seen[t] \subseteq seen'[t]
    /\ \/ pc'[t].remote = pc[t].remote /\ pc'[t].hasRemote = pc[t].hasRemote
       \/ pc'[t].remote = NoDesc /\ pc'[t].hasRemote = FALSE
       \/ pc'[t].remote.kind = "offer" /\ pc'[t].hasRemote = TRUE
       \/ /\ pc'[t].remote.kind = "answer" /\ pc'[t].hasRemote = TRUE
          /\ KeyTo(t, "answer") \in seen'[t] \ seen[t]

\* What Teardown leaves at every tab: those it takes down lose connection and camera.
LEMMA TeardownFacts ==
  ASSUME LinkTypeOK, NEW tabs, Teardown(tabs)
  PROVE  /\ \A u \in Tabs : pc'[u] = IF u \in tabs THEN Closed(u) ELSE pc[u]
         /\ \A u \in Tabs : session'[u] = IF u \in tabs THEN "over" ELSE session[u]
         /\ \A u \in Tabs : media'[u] = (media[u] /\ u \notin tabs)
         /\ late' = (late \/ OfferUnderWay)
<1>1. /\ \A u \in Tabs : pc'[u] = IF u \in tabs THEN Closed(u) ELSE pc[u]
      /\ \A u \in Tabs : session'[u] = IF u \in tabs THEN "over" ELSE session[u]
  BY DEF Teardown
<1>2. media' = [u \in Tabs |-> media[u] /\ u \notin tabs]
  BY DEF Teardown
<1>3. \A u \in Tabs : media'[u] = (media[u] /\ u \notin tabs)
  BY <1>2, Zenon
<1>4. QED
  BY <1>1, <1>3 DEF Teardown

\* Every step treats the remote description of a tab in one of those ways.
LEMMA RemoteMovesStep ==
  ASSUME LinkTypeOK, SignalInv, [LinkNext]_linkVars, NEW t \in Tabs
  PROVE  RemoteMoves(t)
<1>1. pc[t] \in Contexts
  BY DEF LinkTypeOK
<1>2. CASE UNCHANGED linkVars
  BY <1>2 DEF linkVars, tabVars, RemoteMoves
<1>3. ASSUME NEW s \in posts, Deliver(s) PROVE RemoteMoves(t)
  <2>1. s.by \in Tabs /\ (s.type \in {"offer", "answer"} => s.desc.kind = s.type)
    BY DEF SignalInv
  <2>2. CASE s.type = "answer"
    <3>1. /\ pc'[t] = IF t \in Fresh(s) /\ pc[t].state = "local-offer"
                      THEN WithRemote(pc[t], "stable", s.desc) ELSE pc[t]
          /\ seen'[t] = IF t \in Audience(s.by) THEN seen[t] \cup {Key(s)} ELSE seen[t]
      BY <1>3, <2>2, ArrivalFacts
    <3>2. CASE t \in Fresh(s) /\ pc[t].state = "local-offer"
      <4>1. t \in Audience(s.by) /\ Key(s) \notin seen[t] /\ Key(s) = KeyTo(t, "answer")
        BY <2>1, <2>2, <3>2, KeyFacts DEF Fresh
      <4>2. pc'[t].remote = s.desc /\ pc'[t].hasRemote = TRUE
        BY <1>1, <3>1, <3>2, RemoteFacts DEF WithRemote
      <4>3. QED
        BY <2>1, <2>2, <3>1, <4>1, <4>2 DEF RemoteMoves
    <3>3. CASE ~(t \in Fresh(s) /\ pc[t].state = "local-offer")
      BY <3>1, <3>3 DEF RemoteMoves
    <3>4. QED
      BY <3>2, <3>3
  <2>3. CASE s.type = "ice-candidate"
    <3>1. /\ pc'[t] = IF t \in Fresh(s) THEN WithCandidate(pc[t], s) ELSE pc[t]
          /\ seen'[t] = IF t \in Audience(s.by) THEN seen[t] \cup {Key(s)} ELSE seen[t]
      BY <1>3, <2>3, ArrivalFacts
    <3>2. pc'[t].remote = pc[t].remote /\ pc'[t].hasRemote = pc[t].hasRemote
      BY <1>1, <3>1 DEF WithCandidate, Contexts
    <3>3. QED
      BY <3>1, <3>2 DEF RemoteMoves
  <2>4. CASE s.type = "ended"
    <3>1. seen' = seen /\ pc'[t] = IF t \in Audience(s.by) THEN Closed(t) ELSE pc[t]
      BY <1>3, <2>4, ArrivalFacts, TeardownFacts
    <3>2. QED
      BY <3>1 DEF RemoteMoves, Closed, NoPc
  <2>5. CASE s.type \in {"accepted", "offer"}
    <3>1. pc' = pc /\ (seen' = seen \/ seen'[t] = IF t \in Audience(s.by) THEN seen[t] \cup {Key(s)} ELSE seen[t])
      BY <1>3, <2>5, ArrivalFacts
    <3>2. QED
      BY <3>1 DEF RemoteMoves
  <2>6. QED
    BY <1>3, <2>2, <2>3, <2>4, <2>5, ArrivalFacts
<1>4. ASSUME NEW u \in Tabs, Accept(u) PROVE RemoteMoves(t)
  <2>1. seen' = seen /\ pc'[t] = IF t = u THEN NewPc(t) ELSE pc[t]
    BY <1>4 DEF Accept, LinkTypeOK
  <2>2. QED
    BY <2>1 DEF RemoteMoves, NewPc, NoPc
<1>5. ASSUME NEW u \in Tabs, Hangup(u) PROVE RemoteMoves(t)
  <2>1. seen' = seen /\ pc'[t] = IF t \in {u} THEN Closed(t) ELSE pc[t]
    BY <1>5, TeardownFacts DEF Hangup
  <2>2. QED
    BY <2>1 DEF RemoteMoves, Closed, NoPc
<1>6. ASSUME NEW u \in Tabs, Work(u) PROVE RemoteMoves(t)
  <2>1. CASE AcquireMedia(u)
    <3>1. PICK j \in jobs[u], k \in Jobs : AcquireStep(u, j, k)
      BY <2>1, AcquireFacts
    <3>2. seen' = seen /\ (pc'[t] = pc[t] \/ pc'[t] = NewPc(t))
      BY <3>1 DEF AcquireStep
    <3>3. QED
      BY <3>2 DEF RemoteMoves, NewPc, NoPc
  <2>2. CASE SetLocalOffer(u)
    <3>1. PICK j \in jobs[u] : LocalOfferStep(u, j)
      BY <2>2, LocalOfferFacts
    <3>2. seen' = seen /\ (pc' = pc \/ SetLocal(u, "local-offer", Offer(u, offers[u] + 1)))
      BY <3>1 DEF LocalOfferStep
    <3>3. pc'[t].remote = pc[t].remote /\ pc'[t].hasRemote = pc[t].hasRemote
      BY <3>2, SetLocalFacts
    <3>4. QED
      BY <3>2, <3>3 DEF RemoteMoves
  <2>3. CASE SetRemoteOffer(u)
    <3>1. PICK j \in jobs[u], k \in Jobs : RemoteOfferStep(u, j, k)
      BY <2>3, RemoteOfferFacts
    <3>2. j.sig.desc.kind = "offer" /\ pc[u] \in Contexts
      BY <3>1 DEF RemoteOfferStep, SignalInv, LinkTypeOK
    <3>3. seen' = seen /\ (pc'[t] = pc[t] \/ (t = u /\ pc'[t] = WithRemote(pc[t], "remote-offer", j.sig.desc)))
      BY <3>1 DEF RemoteOfferStep
    <3>4. pc'[t] = pc[t] \/ (pc'[t].remote.kind = "offer" /\ pc'[t].hasRemote = TRUE)
      BY <3>2, <3>3 DEF WithRemote, Contexts
    <3>5. QED
      BY <3>3, <3>4 DEF RemoteMoves
  <2>4. CASE SetLocalAnswer(u)
    <3>1. PICK j \in jobs[u] : LocalAnswerStep(u, j)
      BY <2>4, LocalAnswerFacts
    <3>2. seen' = seen /\ (pc' = pc \/ SetLocal(u, "stable", Answer(u, answers[u] + 1, pc[u].remote)))
      BY <3>1 DEF LocalAnswerStep
    <3>3. pc'[t].remote = pc[t].remote /\ pc'[t].hasRemote = pc[t].hasRemote
      BY <3>2, SetLocalFacts
    <3>4. QED
      BY <3>2, <3>3 DEF RemoteMoves
  <2>5. QED
    BY <1>6, <2>1, <2>2, <2>3, <2>4 DEF Work
<1>7. ASSUME NEW u \in Tabs, Connect(u) \/ Network(u) \/ RestartTimer(u) PROVE RemoteMoves(t)
  <2>1. NetworkStep(u)
    BY <1>7, NetworkFacts
  <2>2. QED
    BY <2>1 DEF RemoteMoves, NetworkStep
<1>8. QED
  BY <1>2, <1>3, <1>4, <1>5, <1>6, <1>7 DEF LinkNext

\* A tab has a remote description when it says so, and an answer only by its key.
LEMMA RemoteInvStep ==
  ASSUME LinkTypeOK, SignalInv, RemoteInv, [LinkNext]_linkVars
  PROVE  RemoteInv'
<1>1. ASSUME NEW t \in Tabs
      PROVE  /\ pc'[t].hasRemote <=> pc'[t].remote.kind # "none"
             /\ pc'[t].remote.kind = "answer" => KeyTo(t, "answer") \in seen'[t]
  <2>1. RemoteMoves(t)
    BY RemoteMovesStep
  <2>2. /\ pc[t].hasRemote <=> pc[t].remote.kind # "none"
        /\ pc[t].remote.kind = "answer" => KeyTo(t, "answer") \in seen[t]
    BY DEF RemoteInv
  <2>3. NoDesc.kind = "none"
    BY DEF NoDesc
  <2>4. QED
    BY <2>1, <2>2, <2>3 DEF RemoteMoves
<1>2. QED
  BY <1>1 DEF RemoteInv, KeyTo, Other

-----------------------------------------------------------------------------
(* PeerLink: before a tab accepts, and after one leaves *)

\* Nothing happens before a tab accepts, except that one does.
LEMMA BeforeStep ==
  ASSUME LinkTypeOK, BeforeInv, [LinkNext]_linkVars
  PROVE  BeforeInv' /\ (owner = NoTab => UNCHANGED linkVars \/ \E t \in CalleeTabs : Accept(t))
<1>1. CASE owner # NoTab
  <2>1. owner' # NoTab
    <3>1. ASSUME NEW t \in Tabs, Work(t) PROVE owner' = owner
      BY <3>1 DEF Work, AcquireMedia, SetLocalOffer, SetRemoteOffer, SetLocalAnswer, JobUnchanged
    <3>2. ASSUME NEW s \in posts, Deliver(s) PROVE owner' = owner
      BY <3>2, ArrivalFacts
    <3>3. ASSUME NEW t \in Tabs, Connect(t) \/ Network(t) \/ RestartTimer(t) PROVE owner' = owner
      BY <3>3 DEF Connect, Network, IceDrop, IceFail, RestartTimer, IceUnchanged
    <3>4. QED
      BY <1>1, <3>1, <3>2, <3>3 DEF LinkNext, linkVars, Accept, Hangup
  <2>2. QED
    BY <1>1, <2>1 DEF BeforeInv
<1>2. CASE owner = NoTab
  <2>1. posts = {} /\ \A t \in Tabs : jobs[t] = {} /\ pc[t] = NoPc
    BY <1>2 DEF BeforeInv
  <2>2. \A t \in Tabs : ~IsOpen(t) /\ pc[t].timer = "none" /\ pc[t].ice = "checking"
    BY <2>1 DEF NoPc, IsOpen
  <2>3. \A t \in Tabs : ~Work(t)
    BY <2>1 DEF Work, AcquireMedia, SetLocalOffer, SetRemoteOffer, SetLocalAnswer
  <2>4. \A t \in Tabs : ~(Hangup(t) \/ Connect(t) \/ Network(t) \/ RestartTimer(t))
    BY <1>2, <2>2 DEF Hangup, Connect, Network, IceDrop, IceFail, RestartTimer
  <2>5. UNCHANGED linkVars \/ \E t \in Tabs : Accept(t)
    BY <2>1, <2>3, <2>4 DEF LinkNext
  <2>6. \A t \in Tabs : Accept(t) => t \in CalleeTabs
    BY DEF Accept, LinkTypeOK
  <2>7. BeforeInv'
    <3>1. CASE UNCHANGED linkVars
      BY <3>1 DEF BeforeInv, linkVars, tabVars
    <3>2. CASE \E t \in Tabs : Accept(t)
      <4>1. owner' # NoTab
        BY <3>2, TabsAssumption DEF Accept
      <4>2. QED
        BY <4>1 DEF BeforeInv
    <3>3. QED
      BY <2>5, <3>1, <3>2
  <2>8. QED
    BY <2>5, <2>6, <2>7
<1>3. QED
  BY <1>1, <1>2

\* Once a tab has accepted, no other tab comes to have the call; who has left has left.
LEMMA SessionStep ==
  ASSUME LinkTypeOK, SignalInv, BeforeInv, [LinkNext]_linkVars
  PROVE  \/ \E t \in CalleeTabs : Accept(t) /\ owner = NoTab
         \/ /\ owner' = owner /\ open' = open
            /\ \A t \in Tabs : session'[t] = session[t] \/ session'[t] = "over"
<1>1. CASE UNCHANGED linkVars
  BY <1>1 DEF linkVars, tabVars
<1>2. ASSUME NEW s \in posts, Deliver(s)
      PROVE  owner' = owner /\ open' = open /\ \A t \in Tabs : session'[t] = session[t] \/ session'[t] = "over"
  <2>1. owner' = owner /\ open' = open /\ (session' = session \/ Teardown(Audience(s.by)))
    BY <1>2, ArrivalFacts
  <2>2. QED
    BY <2>1, TeardownFacts
<1>3. ASSUME NEW u \in Tabs, Hangup(u)
      PROVE  owner' = owner /\ open' = open /\ \A t \in Tabs : session'[t] = session[t] \/ session'[t] = "over"
  BY <1>3, TeardownFacts DEF Hangup
<1>4. ASSUME NEW u \in Tabs, Work(u)
      PROVE  owner' = owner /\ open' = open /\ session' = session
  BY <1>4 DEF Work, AcquireMedia, SetLocalOffer, SetRemoteOffer, SetLocalAnswer, JobUnchanged
<1>5. ASSUME NEW u \in Tabs, Connect(u) \/ Network(u) \/ RestartTimer(u)
      PROVE  owner' = owner /\ open' = open /\ session' = session
  BY <1>5 DEF Connect, Network, IceDrop, IceFail, RestartTimer, IceUnchanged
<1>6. ASSUME NEW u \in Tabs, Accept(u)
      PROVE  u \in CalleeTabs /\ owner = NoTab
  BY <1>6 DEF Accept, LinkTypeOK
<1>7. QED
  BY <1>1, <1>2, <1>3, <1>4, <1>5, <1>6 DEF LinkNext

\* Whoever says that the call has ended has left it.
LEMMA EndedByStep ==
  ASSUME LinkTypeOK, SignalInv, BeforeInv, EndInv, [LinkNext]_linkVars
  PROVE  \A s \in posts' : s.type = "ended" => s.by \in {Caller, owner'} /\ session'[s.by] = "over"
<1>1. \A s \in posts : s.type = "ended" => s.by \in Tabs /\ s.by \in {Caller, owner} /\ session[s.by] = "over"
  BY DEF EndInv, SignalInv
<1>2. CASE \E t \in CalleeTabs : Accept(t) /\ owner = NoTab
  <2>1. posts = {}
    BY <1>2 DEF BeforeInv
  <2>2. \A s \in posts' : s.type = "accepted"
    BY <1>2, <2>1 DEF Accept, Post, Signal
  <2>3. QED
    BY <2>2
<1>3. CASE /\ owner' = owner /\ open' = open
           /\ \A t \in Tabs : session'[t] = session[t] \/ session'[t] = "over"
  <2>1. \A s \in posts : s.type = "ended" => s.by \in {Caller, owner'} /\ session'[s.by] = "over"
    BY <1>1, <1>3
  <2>2. CASE UNCHANGED linkVars
    BY <2>1, <2>2 DEF linkVars, tabVars
  <2>3. ASSUME NEW s \in posts, Deliver(s) PROVE posts' \subseteq posts
    BY <2>3, ArrivalFacts
  <2>4. ASSUME NEW t \in Tabs, Accept(t)
        PROVE  \A s \in posts' \ posts : s.type = "accepted"
    BY <2>4 DEF Accept, Post, Signal
  <2>5. ASSUME NEW t \in Tabs, Hangup(t)
        PROVE  \A s \in posts' \ posts : s.by = t /\ t \in {Caller, owner} /\ session'[t] = "over"
    <3>1. t \in {Caller, owner} /\ Teardown({t}) /\ Post(Signal("ended", t, NoDesc, NoCandidate))
      BY <2>5 DEF Hangup
    <3>2. session'[t] = "over"
      BY <3>1, TeardownFacts
    <3>3. QED
      BY <3>1, <3>2 DEF Post, Signal
  <2>6. ASSUME NEW t \in Tabs, NEW state, NEW desc, SetLocal(t, state, desc), desc.kind \in {"offer", "answer"}
        PROVE  \A s \in posts' \ posts : s.type # "ended"
    BY <2>6, SetLocalPosts
  <2>7. ASSUME NEW t \in Tabs, Work(t)
        PROVE  \A s \in posts' \ posts : s.type # "ended"
    <3>1. \A n : Offer(t, n).kind = "offer" /\ \A d : Answer(t, n, d).kind = "answer"
      BY DEF Offer, Answer
    <3>2. CASE AcquireMedia(t) \/ SetRemoteOffer(t)
      BY <3>2 DEF AcquireMedia, SetRemoteOffer
    <3>3. CASE SetLocalOffer(t)
      BY <2>6, <3>1, <3>3, LocalOfferFacts DEF LocalOfferStep
    <3>4. CASE SetLocalAnswer(t)
      BY <2>6, <3>1, <3>4, LocalAnswerFacts DEF LocalAnswerStep
    <3>5. QED
      BY <2>7, <3>2, <3>3, <3>4 DEF Work
  <2>8. ASSUME NEW t \in Tabs, Connect(t) \/ Network(t) \/ RestartTimer(t) PROVE posts' = posts
    BY <2>8 DEF Connect, Network, IceDrop, IceFail, RestartTimer, IceUnchanged
  <2>9. QED
    BY <1>3, <2>1, <2>2, <2>3, <2>4, <2>5, <2>7, <2>8 DEF LinkNext
<1>4. QED
  BY <1>2, <1>3, SessionStep

\* Unless an offer was on its way when a side left, nothing comes any more, and
\* whoever has left has let go.
LEMMA PartingStep ==
  ASSUME LinkTypeOK, SignalInv, BeforeInv, EndInv, [LinkNext]_linkVars
  PROVE  EndInv'
<1> DEFINE Gone == \E t \in Tabs : session[t] = "over"
           LetGo == \A t \in Tabs : session[t] = "over" => ~IsOpen(t) /\ ~media[t]
<1>1. ~late /\ Gone => ~OfferUnderWay /\ LetGo
  BY DEF EndInv
<1>2. ASSUME ~late', Gone' PROVE OfferUnderWay' = FALSE /\ LetGo'
  <2>1. ASSUME session' = session, media' = media, \A t \in Tabs : pc[t].state = "closed" => pc'[t].state = "closed", LetGo
        PROVE  LetGo'
    BY <2>1 DEF IsOpen
  <2>2. ASSUME jobs' = jobs, \A s \in posts' : s \in posts \/ ~Starts(s), ~OfferUnderWay
        PROVE  OfferUnderWay' = FALSE
    BY <2>2 DEF OfferUnderWay, Starts
  <2>3. ASSUME NEW tabs \in SUBSET Tabs, Teardown(tabs), jobs' = jobs, \A s \in posts' : s \in posts \/ ~Starts(s)
        PROVE  OfferUnderWay' = FALSE /\ LetGo'
    <3>1. ~late /\ ~OfferUnderWay
      BY <1>2, <2>3, TeardownFacts
    <3>2. OfferUnderWay' = FALSE
      BY <2>2, <2>3, <3>1
    <3>3. ASSUME NEW t \in Tabs, session'[t] = "over" PROVE pc'[t].state = "closed" /\ ~media'[t]
      <4>1. CASE t \in tabs
        BY <2>3, <4>1, TeardownFacts, FreshFacts
      <4>2. CASE t \notin tabs
        <5>1. session[t] = "over" /\ pc'[t] = pc[t] /\ (media'[t] <=> media[t])
          BY <2>3, <3>3, <4>2, TeardownFacts
        <5>2. ~IsOpen(t) /\ ~media[t]
          BY <1>1, <3>1, <5>1
        <5>3. QED
          BY <5>1, <5>2 DEF IsOpen
      <4>3. QED
        BY <4>1, <4>2
    <3>4. QED
      BY <3>2, <3>3 DEF IsOpen
  <2>4. CASE UNCHANGED linkVars
    BY <1>1, <1>2, <2>1, <2>2, <2>4 DEF linkVars, tabVars
  <2>5. ASSUME NEW s \in posts, Deliver(s) PROVE OfferUnderWay' = FALSE /\ LetGo'
    <3>1. posts' \subseteq posts /\ s.by \in Tabs
      BY <2>5, ArrivalFacts DEF SignalInv
    <3>2. CASE s.type = "ended"
      <4>1. Teardown(Audience(s.by)) /\ jobs' = jobs
        BY <2>5, <3>2, ArrivalFacts
      <4>2. Audience(s.by) \in SUBSET Tabs
        BY DEF Audience, Tabs, LinkTypeOK
      <4>3. QED
        BY <2>3, <3>1, <4>1, <4>2
    <3>3. CASE s.type # "ended"
      <4>1. session' = session /\ late' = late /\ media' = media
        BY <2>5, <3>3, ArrivalFacts
      <4>2. ~OfferUnderWay /\ LetGo
        BY <1>1, <1>2, <4>1
      <4>3. s.type \notin {"accepted", "offer"}
        BY <4>2 DEF OfferUnderWay, Starts
      <4>4. jobs' = jobs
        BY <2>5, <3>3, <4>3, ArrivalFacts
      <4>5. \A t \in Tabs : pc[t].state = "closed" => pc'[t].state = "closed"
        <5>1. CASE s.type = "answer"
          BY <2>5, <5>1, ArrivalFacts
        <5>2. CASE s.type = "ice-candidate"
          <6>1. \A t \in Tabs : pc'[t] = pc[t] \/ pc'[t] = WithCandidate(pc[t], s)
            BY <2>5, <5>2, ArrivalFacts
          <6>2. \A t \in Tabs : pc[t].state = "closed" => WithCandidate(pc[t], s) = pc[t]
            BY DEF WithCandidate
          <6>3. QED
            BY <6>1, <6>2
        <5>3. QED
          BY <2>5, <3>3, <4>3, <5>1, <5>2, ArrivalFacts
      <4>6. QED
        BY <2>1, <2>2, <3>1, <4>1, <4>2, <4>4, <4>5
    <3>4. QED
      BY <3>2, <3>3
  <2>6. ASSUME NEW u \in Tabs, Accept(u) PROVE FALSE
    <3>1. \A t \in Tabs : session[t] # "over"
      BY <2>6 DEF Accept, BeforeInv
    <3>2. \A t \in Tabs : session'[t] # "over"
      BY <2>6, <3>1 DEF Accept, LinkTypeOK
    <3>3. QED
      BY <1>2, <3>2
  <2>7. ASSUME NEW u \in Tabs, Hangup(u) PROVE OfferUnderWay' = FALSE /\ LetGo'
    <3>1. Teardown({u}) /\ jobs' = jobs /\ posts' = posts \cup {Signal("ended", u, NoDesc, NoCandidate)}
      BY <2>7 DEF Hangup, Post
    <3>2. ~Starts(Signal("ended", u, NoDesc, NoCandidate))
      BY DEF Starts, Signal
    <3>3. QED
      BY <2>3, <3>1, <3>2
  <2>8. ASSUME NEW u \in Tabs, Work(u) PROVE FALSE
    <3>1. session' = session /\ late' = late
      BY <2>8 DEF Work, AcquireMedia, SetLocalOffer, SetRemoteOffer, SetLocalAnswer, JobUnchanged
    <3>2. jobs[u] = {}
      BY <1>1, <1>2, <3>1 DEF OfferUnderWay
    <3>3. QED
      BY <2>8, <3>2 DEF Work, AcquireMedia, SetLocalOffer, SetRemoteOffer, SetLocalAnswer
  <2>9. ASSUME NEW u \in Tabs, Connect(u) \/ Network(u) \/ RestartTimer(u) PROVE OfferUnderWay' = FALSE /\ LetGo'
    <3>1. NetworkStep(u)
      BY <2>9, NetworkFacts
    <3>2. session' = session /\ media' = media /\ posts' = posts
      BY <3>1 DEF NetworkStep
    <3>3. ~late /\ late' = late /\ \A t \in Tabs : jobs'[t] = jobs[t]
      <4>1. \E t \in Tabs : session[t] = "over"
        BY <1>2, <3>2
      <4>2. ~(late' = (late \/ \E t \in Tabs : session[t] = "over"))
        BY <1>2, <4>1, Zenon
      <4>3. jobs'[u] = jobs[u] /\ late' = late /\ \A t \in Tabs \ {u} : jobs'[t] = jobs[t]
        BY <3>1, <4>2, Zenon DEF NetworkStep
      <4>4. QED
        BY <1>2, <4>3
    <3>4. jobs' = jobs
      BY <2>9, <3>2, <1>2 DEF Connect, Network, IceDrop, IceFail, RestartTimer, Restart
    <3>5. \A t \in Tabs : pc[t].state = pc'[t].state
      BY <3>1 DEF NetworkStep
    <3>6. ~OfferUnderWay /\ LetGo
      BY <1>1, <1>2, <3>2, <3>3
    <3>7. QED
      BY <2>1, <2>2, <3>2, <3>4, <3>5, <3>6
  <2>10. QED
    BY <2>4, <2>5, <2>6, <2>7, <2>8, <2>9 DEF LinkNext
<1>3. QED
  BY <1>2, EndedByStep DEF EndInv

-----------------------------------------------------------------------------
(* PeerLink: the points of a negotiation *)

\* Which points a signal, or a handler, can be found at.
LEMMA PointContents ==
  ASSUME NEW o, NEW p \in Points(o)
  PROVE  /\ \A s \in p.sent :
               \/ p = Accepted(o) /\ s = Signal("accepted", o, NoDesc, NoCandidate)
               \/ p = Offered(o) /\ s = Sent(FirstOffer)
               \/ p = Answered(o) /\ s = Sent(FirstAnswer(o))
               \/ p = Reoffered(o) /\ s = Sent(NextOffer(o))
               \/ p = Reanswered(o) /\ s = Sent(NextAnswer(o))
         /\ \A j \in p.calling :
               \/ p = CallMedia(o) /\ j = Job("call", "media", 0, NoSignal)
               \/ p = CallLocal(o) /\ j = Job("call", "local", 1, NoSignal)
               \/ p = ReanswerMedia(o) /\ j = Job("answer", "media", 0, Sent(NextOffer(o)))
               \/ p = ReanswerRemote(o) /\ j = Job("answer", "remote", 1, Sent(NextOffer(o)))
               \/ p = ReanswerLocal(o) /\ j = Job("answer", "local", 1, Sent(NextOffer(o)))
         /\ \A j \in p.answering :
               \/ p = AnswerMedia(o) /\ j = Job("answer", "media", 0, Sent(FirstOffer))
               \/ p = AnswerRemote(o) /\ j = Job("answer", "remote", 1, Sent(FirstOffer))
               \/ p = AnswerLocal(o) /\ j = Job("answer", "local", 1, Sent(FirstOffer))
  BY DEF Points, Point, Accepted, CallMedia, CallLocal, Offered, AnswerMedia, AnswerRemote, AnswerLocal, Answered,
         Connected, Reoffered, ReanswerMedia, ReanswerRemote, ReanswerLocal, Reanswered, Reconnected

\* Until the first answer is received the caller knows no remote description.
LEMMA PointStates ==
  ASSUME NEW o, NEW p \in Points(o)
  PROVE  /\ p.heard < 2 => p.here[3] = NoDesc
         /\ p.heard >= 2 => p.made >= 2 /\ p.here[1] # "closed"
         /\ p.there[1] # "closed" /\ p.made \in 0 .. 4 /\ p.heard \in 0 .. 4
         /\ p.made = 2 /\ p.heard >= 2 => p = Connected(o)
         /\ p.made >= 1 => p.here[1] # "closed"
         /\ p.here[1] = "closed" => p.here = Shut
  BY DEF Points, Point, Accepted, CallMedia, CallLocal, Offered, AnswerMedia, AnswerRemote, AnswerLocal, Answered,
         Connected, Reoffered, ReanswerMedia, ReanswerRemote, ReanswerLocal, Reanswered, Reconnected,
         Shut, Bare, Offering, Joined, Answers, Reoffering, Reanswers

\* The signals and descriptions of the negotiation.
LEMMA PointDescs ==
  ASSUME NEW o \in CalleeTabs
  PROVE  /\ Sent(FirstOffer).type = "offer" /\ Sent(FirstOffer).by = Caller /\ Sent(FirstOffer).desc = FirstOffer
         /\ Sent(FirstAnswer(o)).type = "answer" /\ Sent(FirstAnswer(o)).by = o
         /\ Sent(FirstAnswer(o)).desc = FirstAnswer(o)
         /\ Sent(NextOffer(o)).type = "offer" /\ Sent(NextOffer(o)).by = o /\ Sent(NextOffer(o)).desc = NextOffer(o)
         /\ Sent(NextAnswer(o)).type = "answer" /\ Sent(NextAnswer(o)).by = Caller
         /\ Sent(NextAnswer(o)).desc = NextAnswer(o)
         /\ FirstOffer.kind = "offer" /\ FirstAnswer(o).kind = "answer"
         /\ NextOffer(o).kind = "offer" /\ NextAnswer(o).kind = "answer"
         /\ FirstOffer.by = Caller /\ FirstAnswer(o).by = o /\ NextOffer(o).by = o /\ NextAnswer(o).by = Caller
         /\ NoDesc \notin {FirstOffer, FirstAnswer(o), NextOffer(o), NextAnswer(o)}
         /\ o # Caller /\ o \in Tabs /\ Caller \in Tabs
  BY TabsAssumption DEF Sent, Signal, FirstOffer, FirstAnswer, NextOffer, NextAnswer, Offer, Answer, NoDesc, Tabs

-----------------------------------------------------------------------------
(* PeerLink: every step leaves a negotiation at its point, or takes it to the next *)

\* A tab that is not open stays out of the call.
LEMMA AbsentStep ==
  ASSUME LinkTypeOK, SignalInv, BeforeInv, AbsentInv, [LinkNext]_linkVars
  PROVE  AbsentInv'
<1>1. open' = open
  BY SessionStep DEF Accept
<1>2. ASSUME NEW t \in CalleeTabs \ open PROVE jobs'[t] = {} /\ pc'[t].state = "closed"
  <2>1. jobs[t] = {} /\ pc[t].state = "closed" /\ t \in Tabs /\ t # Caller /\ pc[t] \in Contexts
    BY TabsAssumption DEF AbsentInv, IsOpen, Tabs, LinkTypeOK
  <2>2. \A u \in Tabs : t \notin Audience(u)
    BY <1>2, <2>1 DEF Audience
  <2>3. CASE UNCHANGED linkVars
    BY <2>1, <2>3 DEF linkVars, tabVars
  <2>4. ASSUME NEW s \in posts, Deliver(s) PROVE jobs'[t] = {} /\ pc'[t].state = "closed"
    <3>1. t \notin Audience(s.by) /\ t \notin Fresh(s)
      BY <2>2 DEF Fresh, SignalInv
    <3>2. CASE s.type = "ended"
      BY <2>1, <2>4, <3>1, <3>2, ArrivalFacts, TeardownFacts
    <3>3. CASE s.type # "ended"
      BY <2>1, <2>4, <3>1, <3>3, ArrivalFacts
    <3>4. QED
      BY <3>2, <3>3
  <2>5. ASSUME NEW u \in Tabs, Accept(u) PROVE jobs'[t] = {} /\ pc'[t].state = "closed"
    BY <2>1, <2>5 DEF Accept, LinkTypeOK
  <2>6. ASSUME NEW u \in Tabs, Hangup(u) PROVE jobs'[t] = {} /\ pc'[t].state = "closed"
    <3>1. jobs' = jobs /\ Teardown({u})
      BY <2>6 DEF Hangup
    <3>2. pc'[t] = pc[t] \/ pc'[t] = Closed(t)
      BY <2>1, <3>1, TeardownFacts
    <3>3. QED
      BY <2>1, <3>1, <3>2, FreshFacts
  <2>7. ASSUME NEW u \in Tabs, Work(u) PROVE jobs'[t] = {} /\ pc'[t].state = "closed"
    <3>1. u # t
      BY <2>1, <2>7 DEF Work, AcquireMedia, SetLocalOffer, SetRemoteOffer, SetLocalAnswer
    <3>2. \A k : SetLocal(u, "local-offer", k) \/ SetLocal(u, "stable", k) => pc'[t] = pc[t]
      BY <2>1, <3>1, SetLocalFacts
    <3>3. CASE AcquireMedia(u)
      BY <2>1, <3>1, <3>3, AcquireFacts DEF AcquireStep
    <3>4. CASE SetLocalOffer(u)
      BY <2>1, <3>1, <3>2, <3>4, LocalOfferFacts DEF LocalOfferStep
    <3>5. CASE SetRemoteOffer(u)
      BY <2>1, <3>1, <3>5, RemoteOfferFacts DEF RemoteOfferStep
    <3>6. CASE SetLocalAnswer(u)
      BY <2>1, <3>1, <3>2, <3>6, LocalAnswerFacts DEF LocalAnswerStep
    <3>7. QED
      BY <2>7, <3>3, <3>4, <3>5, <3>6 DEF Work
  <2>8. ASSUME NEW u \in Tabs, Connect(u) \/ Network(u) \/ RestartTimer(u) PROVE jobs'[t] = {} /\ pc'[t].state = "closed"
    <3>1. NetworkStep(u)
      BY <2>8, NetworkFacts
    <3>2. CASE u = t
      BY <2>1, <3>1, <3>2 DEF NetworkStep, IsOpen
    <3>3. CASE u # t
      BY <2>1, <3>1, <3>3 DEF NetworkStep
    <3>4. QED
      BY <3>2, <3>3
  <2>9. QED
    BY <2>3, <2>4, <2>5, <2>6, <2>7, <2>8 DEF LinkNext
<1>3. QED
  BY <1>1, <1>2 DEF AbsentInv, IsOpen

\* What keeps a tab where it stands.
SameTab(t) ==
    /\ pc'[t].state = pc[t].state /\ pc'[t].local = pc[t].local /\ pc'[t].remote = pc[t].remote
    /\ pc'[t].id = pc[t].id
    /\ {j \in jobs'[t] : j.kind \in {"call", "answer"}} = Tasks(t)
    /\ \A type \in {"offer", "answer"} : KeyTo(t, type) \in seen'[t] => KeyTo(t, type) \in seen[t]
    /\ offers'[t] = offers[t] /\ answers'[t] = answers[t]

\* A step that leaves both tabs and the control signals as they are stays at its point.
LEMMA SamePoint ==
  ASSUME NEW o, NEW p, Stands(o, p), SameTab(Caller), SameTab(o),
         {s \in posts' : s.type # "ice-candidate"} = Control,
         pc[Caller] = NoPc => pc'[Caller] = NoPc,
         p.heard < 2 => Undisturbed(Caller)' /\ Undisturbed(o)'
  PROVE  Stands(o, p)'
  BY DEF Stands, SameTab, Made, Unheard, Control, Tasks, Link

\* A negotiation that is at a point.
Negotiating(o, p) ==
    /\ LinkTypeOK /\ SignalInv /\ RemoteInv /\ AbsentInv /\ EndInv
    /\ o \in CalleeTabs /\ owner = o /\ InCall /\ Alone /\ ~Exhausted
    /\ p \in Points(o) /\ Stands(o, p)

\* The arrival of a signal stays at the point or leads to the next one.
LEMMA DeliveryMoves ==
  ASSUME NEW o, NEW p, Negotiating(o, p), NEW s \in posts, Deliver(s)
  PROVE  \E q \in Points(o) : Stands(o, q)'
<1>1. /\ LinkTypeOK /\ SignalInv /\ RemoteInv /\ EndInv /\ o \in CalleeTabs /\ owner = o
      /\ p \in Points(o) /\ Stands(o, p) /\ s.by \in Tabs /\ s \in posts
      /\ Caller \in Tabs /\ o \in Tabs /\ o # Caller
      /\ pc[Caller] \in Contexts /\ pc[o] \in Contexts
  BY PointDescs DEF Negotiating, SignalInv, LinkTypeOK
<1>2. Audience(Caller) = {o} /\ Audience(o) = {Caller}
  BY <1>1 DEF Negotiating, Alone, Audience
<1>3. s.type # "ice-candidate" => s \in p.sent
  BY <1>1 DEF Stands, Control
<1>4. s.type # "ended"
  BY <1>1 DEF EndInv, Negotiating, InCall
<1>5. posts' = posts \ {s} /\ offers' = offers /\ answers' = answers
  BY <1>1, ArrivalFacts
<1>6. CASE s.type = "accepted"
  <2>1. p = Accepted(o) /\ s = Signal("accepted", o, NoDesc, NoCandidate)
    BY <1>1, <1>3, <1>6, PointContents, PointDescs
  <2>2. /\ jobs'[Caller] = jobs[Caller] \cup {Job("call", "media", 0, NoSignal)} /\ jobs'[o] = jobs[o]
        /\ seen' = seen /\ pc' = pc
    BY <1>1, <1>6, ArrivalFacts
  <2>3. Job("call", "media", 0, NoSignal).kind = "call"
    BY DEF Job
  <2>4. Stands(o, CallMedia(o))'
    BY <1>1, <1>5, <1>6, <2>1, <2>2, <2>3
       DEF Stands, Accepted, CallMedia, Point, Made, Unheard, Control, Tasks, Link, Undisturbed
  <2>5. QED
    BY <2>4 DEF Points
<1>7. \A t \in Tabs, type \in {"offer", "answer"} :
        /\ \A c : KeyTo(t, type) # IceKeyTo(t, c)
        /\ KeyTo(t, "offer") # KeyTo(t, "answer")
  BY DEF KeyTo, IceKeyTo
<1>8. CASE s.type = "offer"
  <2>1. /\ \A u \in Tabs : jobs'[u] = IF u \in Fresh(s) THEN jobs[u] \cup {Job("answer", "media", 0, s)} ELSE jobs[u]
        /\ \A u \in Tabs : seen'[u] = IF u \in Audience(s.by) THEN seen[u] \cup {Key(s)} ELSE seen[u]
        /\ pc' = pc
    BY <1>1, <1>8, ArrivalFacts
  <2>2. Job("answer", "media", 0, s).kind = "answer"
    BY DEF Job
  <2>3. CASE p = Offered(o) /\ s = Sent(FirstOffer)
    <3>1. Audience(s.by) = {o} /\ Key(s) = KeyTo(o, "offer")
      BY <1>1, <1>2, <1>8, <2>3, KeyFacts, PointDescs
    <3>2. KeyTo(o, "offer") \notin seen[o]
      BY <1>1, <2>3 DEF Stands, Offered, Point, Unheard
    <3>3. o \in Fresh(s) /\ Caller \notin Fresh(s)
      BY <1>1, <3>1, <3>2 DEF Fresh
    <3>4. /\ jobs'[o] = jobs[o] \cup {Job("answer", "media", 0, s)} /\ jobs'[Caller] = jobs[Caller]
          /\ seen'[o] = seen[o] \cup {KeyTo(o, "offer")} /\ seen'[Caller] = seen[Caller]
      BY <1>1, <2>1, <3>1, <3>3
    <3>5. Stands(o, AnswerMedia(o))'
      BY <1>1, <1>5, <1>7, <1>8, <2>1, <2>2, <2>3, <3>4
         DEF Stands, Offered, AnswerMedia, Point, Made, Unheard, Control, Tasks, Link, Undisturbed
    <3>6. QED
      BY <3>5 DEF Points
  <2>4. CASE p = Reoffered(o) /\ s = Sent(NextOffer(o))
    <3>1. Audience(s.by) = {Caller} /\ Key(s) = KeyTo(Caller, "offer")
      BY <1>1, <1>2, <1>8, <2>4, KeyFacts, PointDescs
    <3>2. KeyTo(Caller, "offer") \notin seen[Caller]
      BY <1>1, <2>4 DEF Stands, Reoffered, Point, Unheard
    <3>3. o \notin Fresh(s) /\ Caller \in Fresh(s)
      BY <1>1, <3>1, <3>2 DEF Fresh
    <3>4. /\ jobs'[Caller] = jobs[Caller] \cup {Job("answer", "media", 0, s)} /\ jobs'[o] = jobs[o]
          /\ seen'[Caller] = seen[Caller] \cup {KeyTo(Caller, "offer")} /\ seen'[o] = seen[o]
      BY <1>1, <2>1, <3>1, <3>3
    <3>5. Stands(o, ReanswerMedia(o))'
      BY <1>1, <1>5, <1>7, <1>8, <2>1, <2>2, <2>4, <3>4
         DEF Stands, Reoffered, ReanswerMedia, Point, Made, Unheard, Control, Tasks, Link, Undisturbed
    <3>6. QED
      BY <3>5 DEF Points
  <2>5. QED
    BY <1>1, <1>3, <1>8, <2>3, <2>4, PointContents, PointDescs DEF Signal
<1>9. CASE s.type = "answer"
  <2>1. /\ \A u \in Tabs : pc'[u] = IF u \in Fresh(s) /\ pc[u].state = "local-offer"
                                    THEN WithRemote(pc[u], "stable", s.desc) ELSE pc[u]
        /\ \A u \in Tabs : seen'[u] = IF u \in Audience(s.by) THEN seen[u] \cup {Key(s)} ELSE seen[u]
        /\ jobs' = jobs
    BY <1>1, <1>9, ArrivalFacts
  <2>2. CASE p = Answered(o) /\ s = Sent(FirstAnswer(o))
    <3>1. Audience(s.by) = {Caller} /\ Key(s) = KeyTo(Caller, "answer") /\ s.desc = FirstAnswer(o)
      BY <1>1, <1>2, <1>9, <2>2, KeyFacts, PointDescs
    <3>2. KeyTo(Caller, "answer") \notin seen[Caller] /\ pc[Caller].state = "local-offer"
      BY <1>1, <2>2 DEF Stands, Answered, Point, Unheard, Link, Offering
    <3>3. o \notin Fresh(s) /\ Caller \in Fresh(s)
      BY <1>1, <3>1, <3>2 DEF Fresh
    <3>4. /\ pc'[Caller] = WithRemote(pc[Caller], "stable", FirstAnswer(o)) /\ pc'[o] = pc[o]
          /\ seen'[Caller] = seen[Caller] \cup {KeyTo(Caller, "answer")} /\ seen'[o] = seen[o]
      BY <1>1, <2>1, <3>1, <3>2, <3>3
    <3>5. /\ pc'[Caller].state = "stable" /\ pc'[Caller].remote = FirstAnswer(o)
          /\ pc'[Caller].local = pc[Caller].local /\ pc'[Caller].id = pc[Caller].id
      BY <1>1, <3>4, RemoteFacts
    <3>6. Stands(o, Connected(o))'
      BY <1>1, <1>5, <1>7, <1>9, <2>1, <2>2, <3>4, <3>5
         DEF Stands, Answered, Connected, Point, Made, Unheard, Control, Tasks, Link, Undisturbed, Offering, Joined, Shut
    <3>7. QED
      BY <3>6 DEF Points
  <2>3. CASE p = Reanswered(o) /\ s = Sent(NextAnswer(o))
    <3>1. Audience(s.by) = {o} /\ Key(s) = KeyTo(o, "answer") /\ s.desc = NextAnswer(o)
      BY <1>1, <1>2, <1>9, <2>3, KeyFacts, PointDescs
    <3>2. KeyTo(o, "answer") \notin seen[o] /\ pc[o].state = "local-offer"
      BY <1>1, <2>3 DEF Stands, Reanswered, Point, Unheard, Link, Reoffering
    <3>3. o \in Fresh(s) /\ Caller \notin Fresh(s)
      BY <1>1, <3>1, <3>2 DEF Fresh
    <3>4. /\ pc'[o] = WithRemote(pc[o], "stable", NextAnswer(o)) /\ pc'[Caller] = pc[Caller]
          /\ seen'[o] = seen[o] \cup {KeyTo(o, "answer")} /\ seen'[Caller] = seen[Caller]
      BY <1>1, <2>1, <3>1, <3>2, <3>3
    <3>5. /\ pc'[o].state = "stable" /\ pc'[o].remote = NextAnswer(o)
          /\ pc'[o].local = pc[o].local /\ pc'[o].id = pc[o].id
      BY <1>1, <3>4, RemoteFacts
    <3>6. Stands(o, Reconnected(o))'
      BY <1>1, <1>5, <1>7, <1>9, <2>1, <2>3, <3>4, <3>5
         DEF Stands, Reanswered, Reconnected, Point, Made, Unheard, Control, Tasks, Link, Reoffering, Reanswers
    <3>7. QED
      BY <3>6 DEF Points
  <2>4. QED
    BY <1>1, <1>3, <1>9, <2>2, <2>3, PointContents, PointDescs DEF Signal
<1>10. CASE s.type = "ice-candidate"
  <2>1. /\ \A u \in Tabs : pc'[u] = IF u \in Fresh(s) THEN WithCandidate(pc[u], s) ELSE pc[u]
        /\ \A u \in Tabs : seen'[u] = IF u \in Audience(s.by) THEN seen[u] \cup {Key(s)} ELSE seen[u]
        /\ jobs' = jobs
    BY <1>1, <1>10, ArrivalFacts
  <2>2. \A t \in {Caller, o} : \A type \in {"offer", "answer"} : KeyTo(t, type) \in seen'[t] => KeyTo(t, type) \in seen[t]
    <3>1. ASSUME NEW t \in {Caller, o}, t \in Audience(s.by) PROVE Key(s) = IceKeyTo(t, PrefixOf[s.cand])
      BY <1>1, <1>10, <3>1, KeyFacts
    <3>2. \A t \in {Caller, o} : seen'[t] = seen[t] \/ seen'[t] = seen[t] \cup {IceKeyTo(t, PrefixOf[s.cand])}
      BY <1>1, <2>1, <3>1
    <3>3. QED
      BY <1>1, <1>7, <3>2
  <2>3. \A t \in {Caller, o} : pc'[t] = pc[t] \/ pc'[t] = WithCandidate(pc[t], s)
    BY <1>1, <2>1
  <2>4. \A t \in {Caller, o} :
           /\ pc'[t].state = pc[t].state /\ pc'[t].local = pc[t].local /\ pc'[t].remote = pc[t].remote
           /\ pc'[t].id = pc[t].id /\ pc'[t].ice = pc[t].ice /\ pc'[t].timer = pc[t].timer
    <3>1. ASSUME NEW x \in Contexts
          PROVE  LET q == WithCandidate(x, s)
                 IN  q.state = x.state /\ q.local = x.local /\ q.remote = x.remote /\ q.id = x.id
                     /\ q.ice = x.ice /\ q.timer = x.timer
      BY DEF WithCandidate, Contexts
    <3>2. \A t \in {Caller, o} : pc[t] \in Contexts
      BY <1>1
    <3>3. QED
      BY <2>3, <3>1, <3>2
  <2>5. pc[Caller] = NoPc => pc'[Caller] = NoPc
    <3>1. WithCandidate(NoPc, s) = NoPc
      BY DEF WithCandidate, NoPc
    <3>2. QED
      BY <2>3, <3>1
  <2>6. SameTab(Caller) /\ SameTab(o)
    BY <1>1, <1>5, <2>1, <2>2, <2>4 DEF SameTab, Tasks
  <2>7. {r \in posts' : r.type # "ice-candidate"} = Control
    BY <1>5, <1>10 DEF Control
  <2>8. p.heard < 2 => Undisturbed(Caller)' /\ Undisturbed(o)'
    BY <1>1, <2>1, <2>4 DEF Stands, Undisturbed, Tasks
  <2>9. QED
    BY <1>1, <2>5, <2>6, <2>7, <2>8, SamePoint
<1>11. QED
  BY <1>1, <1>4, <1>6, <1>8, <1>9, <1>10, ArrivalFacts DEF Negotiating

\* A description that is set is the one that comes under way.
LEMMA SentPosts ==
  ASSUME NEW t, NEW state, NEW desc, SetLocal(t, state, desc), desc.by = t, desc.kind \in {"offer", "answer"}
  PROVE  {s \in posts' : s.type # "ice-candidate"} = Control \cup {Sent(desc)}
<1>1. Sent(desc) = Signal(desc.kind, t, desc, NoCandidate) /\ Sent(desc).type = desc.kind
  BY DEF Sent, Signal
<1>2. QED
  BY <1>1, SetLocalPosts DEF Control

\* What the steps of a negotiation go by.
LEMMA NegotiatingFacts ==
  ASSUME NEW o, NEW p, Negotiating(o, p)
  PROVE  /\ LinkTypeOK /\ o \in CalleeTabs /\ owner = o /\ p \in Points(o) /\ Stands(o, p)
         /\ Caller \in Tabs /\ o \in Tabs /\ o # Caller
         /\ pc[Caller] \in Contexts /\ pc[o] \in Contexts
         /\ Tasks(Caller) = p.calling /\ Tasks(o) = p.answering
         /\ \A u \in Tabs \ {Caller, o} : jobs[u] = {} /\ pc[u].state = "closed"
         /\ \A u \in {Caller, o}, j \in Jobs : j \in jobs[u] /\ j \notin Tasks(u) =>
               p.heard >= 2 /\ p.made >= 2 /\ IsOpen(u) /\ j.kind \in {"restart", "timed restart"}
<1>1. /\ LinkTypeOK /\ o \in CalleeTabs /\ owner = o /\ p \in Points(o) /\ Stands(o, p)
      /\ Caller \in Tabs /\ o \in Tabs /\ o # Caller
      /\ pc[Caller] \in Contexts /\ pc[o] \in Contexts
  BY PointDescs DEF Negotiating, LinkTypeOK
<1>2. Tasks(Caller) = p.calling /\ Tasks(o) = p.answering
  BY <1>1 DEF Stands
<1>3. \A u \in Tabs \ {Caller, o} : jobs[u] = {} /\ pc[u].state = "closed"
  BY DEF Negotiating, Alone, AbsentInv, IsOpen, Tabs
<1>4. ASSUME NEW u \in {Caller, o}, NEW j \in Jobs, j \in jobs[u], j \notin Tasks(u)
      PROVE  p.heard >= 2 /\ p.made >= 2 /\ IsOpen(u) /\ j.kind \in {"restart", "timed restart"}
  <2>1. j.kind \in {"restart", "timed restart"}
    BY <1>4 DEF Tasks, Jobs
  <2>2. p.heard >= 2 /\ p.made >= 2 /\ p.here[1] # "closed" /\ p.there[1] # "closed"
    BY <1>1, <1>4, PointStates DEF Stands, Undisturbed
  <2>3. pc[Caller].state = p.here[1] /\ pc[o].state = p.there[1]
    BY <1>1 DEF Stands, Link
  <2>4. QED
    BY <2>1, <2>2, <2>3 DEF IsOpen
<1>5. QED
  BY <1>1, <1>2, <1>3, <1>4

\* The end of a restart that makes no offer, or a step of one, is no step of the negotiation.
LEMMA RestartMoves ==
  ASSUME NEW o, NEW p, Negotiating(o, p), NEW u \in {Caller, o}, p.heard >= 2,
         \A t \in {Caller, o} : /\ pc'[t] = pc[t] /\ offers'[t] = offers[t] /\ answers'[t] = answers[t]
                                /\ {j \in jobs'[t] : j.kind \in {"call", "answer"}} = Tasks(t),
         posts' = posts, seen' = seen
  PROVE  Stands(o, p)'
<1>1. SameTab(Caller) /\ SameTab(o)
  BY DEF SameTab
<1>2. {s \in posts' : s.type # "ice-candidate"} = Control
  BY DEF Control
<1>3. Stands(o, p) /\ ~(p.heard < 2)
  BY PointStates DEF Negotiating
<1>4. QED
  BY <1>1, <1>2, <1>3, SamePoint

\* A handler that gets the camera stays at the point or leads to the next one.
LEMMA AcquireMoves ==
  ASSUME NEW o, NEW p, Negotiating(o, p), NEW u \in Tabs, AcquireMedia(u)
  PROVE  \E q \in Points(o) : Stands(o, q)'
<1>1. PICK j \in jobs[u], k \in Jobs : AcquireStep(u, j, k)
  BY NegotiatingFacts, AcquireFacts
<1>2. /\ LinkTypeOK /\ p \in Points(o) /\ Stands(o, p) /\ u \in {Caller, o} /\ j \in Jobs
      /\ Caller \in Tabs /\ o \in Tabs /\ o # Caller /\ o \in CalleeTabs
  BY <1>1, NegotiatingFacts DEF AcquireStep
<1>3. posts' = posts /\ seen' = seen /\ offers' = offers /\ answers' = answers
  BY <1>1 DEF AcquireStep
<1>4. CASE j \notin Tasks(u)
  <2>1. p.heard >= 2 /\ IsOpen(u) /\ j.kind \notin {"call", "answer"}
    BY <1>2, <1>4, NegotiatingFacts DEF Tasks
  <2>2. \A t \in {Caller, o} : /\ pc'[t] = pc[t]
                               /\ {i \in jobs'[t] : i.kind \in {"call", "answer"}} = Tasks(t)
    BY <1>1, <1>2, <2>1 DEF AcquireStep, Tasks
  <2>3. QED
    BY <1>2, <1>3, <2>1, <2>2, RestartMoves
<1>5. ASSUME j \in Tasks(u), u = Caller PROVE \E q \in Points(o) : Stands(o, q)'
  <2>1. \/ p = CallMedia(o) /\ j = Job("call", "media", 0, NoSignal)
        \/ p = ReanswerMedia(o) /\ j = Job("answer", "media", 0, Sent(NextOffer(o)))
    <3>1. j \in p.calling /\ j.stage = "media"
      BY <1>1, <1>2, <1>5 DEF Stands, AcquireStep
    <3>2. \A kind, id, s : Job(kind, "local", id, s).stage = "local" /\ Job(kind, "remote", id, s).stage = "remote"
      BY DEF Job
    <3>3. QED
      BY <1>2, <3>1, <3>2, PointContents
  <2>2. /\ jobs'[Caller] = (jobs[Caller] \ {j}) \cup {k} /\ jobs'[o] = jobs[o] /\ pc'[o] = pc[o]
        /\ pc'[Caller] = IF IsOpen(Caller) THEN pc[Caller] ELSE NewPc(Caller)
        /\ k = Job(j.kind, IF j.kind = "call" THEN "local" ELSE "remote", pc'[Caller].id, j.sig)
    BY <1>1, <1>2, <1>5 DEF AcquireStep
  <2>3. CASE p = CallMedia(o) /\ j = Job("call", "media", 0, NoSignal)
    <3>1. pc[Caller] = NoPc /\ jobs[Caller] = {j}
      BY <1>2, <2>3 DEF Stands, CallMedia, Point, Undisturbed
    <3>2. /\ pc'[Caller].id = 1 /\ pc'[Caller].state = "stable" /\ pc'[Caller].local = NoDesc
          /\ pc'[Caller].remote = NoDesc /\ pc'[Caller].ice = "checking" /\ pc'[Caller].timer = "none"
      BY <2>2, <3>1 DEF IsOpen, NewPc, NoPc
    <3>3. k = Job("call", "local", 1, NoSignal) /\ k.kind = "call"
      BY <2>2, <2>3, <3>2 DEF Job
    <3>4. jobs'[Caller] = {k}
      BY <2>2, <3>1
    <3>5. Stands(o, CallLocal(o))'
      BY <1>2, <1>3, <2>2, <2>3, <3>2, <3>3, <3>4
         DEF Stands, CallMedia, CallLocal, Point, Made, Unheard, Control, Tasks, Link, Undisturbed, Bare, Shut
    <3>6. QED
      BY <3>5 DEF Points
  <2>4. CASE p = ReanswerMedia(o) /\ j = Job("answer", "media", 0, Sent(NextOffer(o)))
    <3>1. Tasks(Caller) = {j} /\ pc[Caller].state = "stable" /\ pc[Caller].id = 1
      BY <1>2, <2>4 DEF Stands, ReanswerMedia, Point, Link, Joined, Shut
    <3>2. pc'[Caller] = pc[Caller]
      BY <2>2, <3>1 DEF IsOpen
    <3>3. k = Job("answer", "remote", 1, Sent(NextOffer(o))) /\ k.kind = "answer"
      BY <2>2, <2>4, <3>1, <3>2 DEF Job
    <3>4. {i \in jobs'[Caller] : i.kind \in {"call", "answer"}} = {k}
      BY <2>2, <3>1, <3>3 DEF Tasks
    <3>5. Stands(o, ReanswerRemote(o))'
      BY <1>2, <1>3, <2>2, <2>4, <3>2, <3>3, <3>4
         DEF Stands, ReanswerMedia, ReanswerRemote, Point, Made, Unheard, Control, Tasks, Link
    <3>6. QED
      BY <3>5 DEF Points
  <2>5. QED
    BY <2>1, <2>3, <2>4
<1>6. ASSUME j \in Tasks(u), u = o PROVE \E q \in Points(o) : Stands(o, q)'
  <2>1. p = AnswerMedia(o) /\ j = Job("answer", "media", 0, Sent(FirstOffer))
    <3>1. j \in p.answering /\ j.stage = "media"
      BY <1>1, <1>2, <1>6 DEF Stands, AcquireStep
    <3>2. \A kind, id, s : Job(kind, "local", id, s).stage = "local" /\ Job(kind, "remote", id, s).stage = "remote"
      BY DEF Job
    <3>3. QED
      BY <1>2, <3>1, <3>2, PointContents
  <2>2. /\ jobs'[o] = (jobs[o] \ {j}) \cup {k} /\ jobs'[Caller] = jobs[Caller] /\ pc'[Caller] = pc[Caller]
        /\ pc'[o] = IF IsOpen(o) THEN pc[o] ELSE NewPc(o)
        /\ k = Job(j.kind, IF j.kind = "call" THEN "local" ELSE "remote", pc'[o].id, j.sig)
    BY <1>1, <1>2, <1>6 DEF AcquireStep
  <2>3. jobs[o] = {j} /\ pc[o].state = "stable" /\ pc[o].id = 1
    BY <1>2, <2>1 DEF Stands, AnswerMedia, Point, Link, Bare, Undisturbed
  <2>4. pc'[o] = pc[o]
    BY <2>2, <2>3 DEF IsOpen
  <2>5. k = Job("answer", "remote", 1, Sent(FirstOffer)) /\ k.kind = "answer"
    BY <2>1, <2>2, <2>3, <2>4 DEF Job
  <2>6. jobs'[o] = {k}
    BY <2>2, <2>3
  <2>7. Stands(o, AnswerRemote(o))'
    BY <1>2, <1>3, <2>1, <2>2, <2>4, <2>5, <2>6
       DEF Stands, AnswerMedia, AnswerRemote, Point, Made, Unheard, Control, Tasks, Link, Undisturbed
  <2>8. QED
    BY <2>7 DEF Points
<1>7. QED
  BY <1>2, <1>4, <1>5, <1>6

\* What a handler is made of.
LEMMA JobParts ==
  ASSUME NEW kind, NEW stage, NEW id, NEW s
  PROVE  /\ Job(kind, stage, id, s).kind = kind /\ Job(kind, stage, id, s).stage = stage
         /\ Job(kind, stage, id, s).id = id /\ Job(kind, stage, id, s).sig = s
  BY DEF Job

\* A local offer, unless it is the second of its tab, stays at the point or leads to the next one.
LEMMA LocalOfferMoves ==
  ASSUME NEW o, NEW p, Negotiating(o, p), offers'[Caller] <= 1, offers'[o] <= 1, NEW u \in Tabs, SetLocalOffer(u)
  PROVE  \E q \in Points(o) : Stands(o, q)'
<1>1. PICK j \in jobs[u] : LocalOfferStep(u, j)
  BY NegotiatingFacts, LocalOfferFacts
<1>2. /\ LinkTypeOK /\ p \in Points(o) /\ Stands(o, p) /\ u \in {Caller, o} /\ j \in Jobs
      /\ Caller \in Tabs /\ o \in Tabs /\ o # Caller /\ o \in CalleeTabs
      /\ offers[Caller] \in Nat /\ offers[o] \in Nat
  BY <1>1, NegotiatingFacts DEF LocalOfferStep, LinkTypeOK
<1>3. /\ seen' = seen /\ answers' = answers /\ jobs'[u] = jobs[u] \ {j} /\ \A t \in Tabs \ {u} : jobs'[t] = jobs[t]
      /\ j.kind # "answer" /\ j.stage = "local"
  BY <1>1 DEF LocalOfferStep
<1>4. CASE j \in Tasks(u)
  <2>1. p = CallLocal(o) /\ j = Job("call", "local", 1, NoSignal) /\ u = Caller
    <3>1. u = Caller => j \in p.calling
      BY <1>2, <1>4 DEF Stands
    <3>2. u = o => j \in p.answering
      BY <1>2, <1>4 DEF Stands
    <3>3. QED
      BY <1>2, <1>3, <3>1, <3>2, PointContents, JobParts
  <2>2. jobs[Caller] = {j} /\ pc[Caller].id = 1 /\ pc[Caller].state = "stable" /\ offers[Caller] = 0
    BY <1>2, <2>1 DEF Stands, CallLocal, Point, Undisturbed, Link, Bare, Shut, Made
  <2>3. Held(Caller, j)
    BY <2>1, <2>2, JobParts DEF Held, IsOpen
  <2>4. offers' = [offers EXCEPT ![Caller] = @ + 1] /\ SetLocal(Caller, "local-offer", FirstOffer)
    BY <1>1, <2>1, <2>2, <2>3 DEF LocalOfferStep, FirstOffer
  <2>5. offers'[Caller] = 1 /\ offers'[o] = offers[o]
    BY <1>2, <2>2, <2>4 DEF LinkTypeOK
  <2>6. {s \in posts' : s.type # "ice-candidate"} = Control \cup {Sent(FirstOffer)}
    BY <1>2, <2>4, SentPosts, PointDescs
  <2>7. /\ pc'[Caller].state = "local-offer" /\ pc'[Caller].local = FirstOffer /\ pc'[Caller].remote = pc[Caller].remote
        /\ pc'[Caller].id = pc[Caller].id /\ pc'[Caller].ice = pc[Caller].ice /\ pc'[Caller].timer = pc[Caller].timer
        /\ pc'[o] = pc[o]
    BY <1>2, <2>4, SetLocalFacts
  <2>8. jobs'[Caller] = {} /\ jobs'[o] = jobs[o]
    BY <1>2, <1>3, <2>1, <2>2
  <2>9. Stands(o, Offered(o))'
    BY <1>2, <1>3, <2>1, <2>2, <2>5, <2>6, <2>7, <2>8
       DEF Stands, CallLocal, Offered, Point, Made, Unheard, Control, Tasks, Link, Undisturbed, Bare, Offering, Shut
  <2>10. QED
    BY <2>9 DEF Points
<1>5. CASE j \notin Tasks(u)
  <2>1. p.heard >= 2 /\ p.made >= 2 /\ j.kind \notin {"call", "answer"}
    BY <1>2, <1>5, NegotiatingFacts DEF Tasks
  <2>2. \A t \in {Caller, o} : {i \in jobs'[t] : i.kind \in {"call", "answer"}} = Tasks(t)
    BY <1>2, <1>3, <2>1 DEF Tasks
  <2>3. CASE UNCHANGED <<offers, pc, posts>>
    BY <1>2, <1>3, <2>1, <2>2, <2>3, RestartMoves
  <2>4. CASE offers' = [offers EXCEPT ![u] = @ + 1] /\ SetLocal(u, "local-offer", Offer(u, offers[u] + 1))
    <3>1. p.made \in 0 .. 4
      BY <1>2, PointStates
    <3>2. offers[Caller] = 1
      BY <1>2, <2>1, <3>1 DEF Stands, Made
    <3>3. u = o
      BY <1>2, <2>4, <3>2 DEF LinkTypeOK
    <3>4. offers[o] = 0 /\ p.made = 2
      BY <1>2, <2>1, <2>4, <3>1, <3>3 DEF Stands, Made, LinkTypeOK
    <3>5. p = Connected(o)
      BY <1>2, <2>1, <3>4, PointStates
    <3>6. SetLocal(o, "local-offer", NextOffer(o))
      BY <2>4, <3>3, <3>4 DEF NextOffer
    <3>7. offers'[o] = 1 /\ offers'[Caller] = offers[Caller]
      BY <1>2, <2>4, <3>3, <3>4 DEF LinkTypeOK
    <3>8. {s \in posts' : s.type # "ice-candidate"} = Control \cup {Sent(NextOffer(o))}
      BY <1>2, <3>6, SentPosts, PointDescs
    <3>9. /\ pc'[o].state = "local-offer" /\ pc'[o].local = NextOffer(o) /\ pc'[o].remote = pc[o].remote
          /\ pc'[o].id = pc[o].id /\ pc'[Caller] = pc[Caller]
      BY <1>2, <3>6, SetLocalFacts
    <3>10. Stands(o, Reoffered(o))'
      BY <1>2, <1>3, <2>2, <3>5, <3>7, <3>8, <3>9
         DEF Stands, Connected, Reoffered, Point, Made, Unheard, Control, Tasks, Link, Answers, Reoffering
    <3>11. QED
      BY <3>10 DEF Points
  <2>5. QED
    BY <1>1, <1>2, <2>3, <2>4 DEF LocalOfferStep
<1>6. QED
  BY <1>4, <1>5

\* A remote offer that is set stays at the point or leads to the next one.
LEMMA RemoteOfferMoves ==
  ASSUME NEW o, NEW p, Negotiating(o, p), NEW u \in Tabs, SetRemoteOffer(u)
  PROVE  \E q \in Points(o) : Stands(o, q)'
<1>1. PICK j \in jobs[u], k \in Jobs : RemoteOfferStep(u, j, k)
  BY NegotiatingFacts, RemoteOfferFacts
<1>2. /\ LinkTypeOK /\ p \in Points(o) /\ Stands(o, p) /\ u \in {Caller, o} /\ j \in Jobs
      /\ Caller \in Tabs /\ o \in Tabs /\ o # Caller /\ o \in CalleeTabs
      /\ pc[Caller] \in Contexts /\ pc[o] \in Contexts
  BY <1>1, NegotiatingFacts DEF RemoteOfferStep
<1>3. /\ seen' = seen /\ posts' = posts /\ offers' = offers /\ answers' = answers
      /\ j.kind = "answer" /\ j.stage = "remote" /\ k = Job("answer", "local", j.id, j.sig)
      /\ \A t \in Tabs \ {u} : jobs'[t] = jobs[t] /\ pc'[t] = pc[t]
  BY <1>1 DEF RemoteOfferStep
<1>4. j \in Tasks(u)
  BY <1>3 DEF Tasks
<1>5. CASE u = Caller
  <2>1. p = ReanswerRemote(o) /\ j = Job("answer", "remote", 1, Sent(NextOffer(o)))
    <3>1. j \in p.calling
      BY <1>2, <1>4, <1>5 DEF Stands
    <3>2. QED
      BY <1>2, <1>3, <3>1, PointContents, JobParts
  <2>2. Tasks(Caller) = {j} /\ pc[Caller].state = "stable" /\ pc[Caller].id = 1 /\ pc[Caller].local = FirstOffer
    BY <1>2, <2>1 DEF Stands, ReanswerRemote, Point, Link, Joined, Shut
  <2>3. Held(Caller, j) /\ j.sig.desc = NextOffer(o)
    BY <1>2, <2>1, <2>2, JobParts, PointDescs DEF Held, IsOpen
  <2>4. pc'[Caller] = WithRemote(pc[Caller], "remote-offer", NextOffer(o)) /\ jobs'[Caller] = (jobs[Caller] \ {j}) \cup {k}
    BY <1>1, <1>5, <2>3 DEF RemoteOfferStep
  <2>5. /\ pc'[Caller].state = "remote-offer" /\ pc'[Caller].remote = NextOffer(o)
        /\ pc'[Caller].local = FirstOffer /\ pc'[Caller].id = 1
    BY <1>2, <2>2, <2>4, RemoteFacts
  <2>6. k = Job("answer", "local", 1, Sent(NextOffer(o))) /\ k.kind = "answer"
    BY <1>3, <2>1, JobParts
  <2>7. {i \in jobs'[Caller] : i.kind \in {"call", "answer"}} = {k}
    BY <2>2, <2>4, <2>6 DEF Tasks
  <2>8. Stands(o, ReanswerLocal(o))'
    BY <1>2, <1>3, <1>5, <2>1, <2>5, <2>6, <2>7
       DEF Stands, ReanswerRemote, ReanswerLocal, Point, Made, Unheard, Control, Tasks, Link, Shut
  <2>9. QED
    BY <2>8 DEF Points
<1>6. CASE u = o
  <2>1. p = AnswerRemote(o) /\ j = Job("answer", "remote", 1, Sent(FirstOffer))
    <3>1. j \in p.answering
      BY <1>2, <1>4, <1>6 DEF Stands
    <3>2. QED
      BY <1>2, <1>3, <3>1, PointContents, JobParts
  <2>2. /\ jobs[o] = {j} /\ pc[o].state = "stable" /\ pc[o].id = 1 /\ pc[o].local = NoDesc
        /\ pc[o].ice = "checking" /\ pc[o].timer = "none"
    BY <1>2, <2>1 DEF Stands, AnswerRemote, Point, Link, Bare, Undisturbed
  <2>3. Held(o, j) /\ j.sig.desc = FirstOffer
    BY <1>2, <2>1, <2>2, JobParts, PointDescs DEF Held, IsOpen
  <2>4. pc'[o] = WithRemote(pc[o], "remote-offer", FirstOffer) /\ jobs'[o] = (jobs[o] \ {j}) \cup {k}
    BY <1>1, <1>6, <2>3 DEF RemoteOfferStep
  <2>5. /\ pc'[o].state = "remote-offer" /\ pc'[o].remote = FirstOffer
        /\ pc'[o].local = NoDesc /\ pc'[o].id = 1 /\ pc'[o].ice = "checking" /\ pc'[o].timer = "none"
    BY <1>2, <2>2, <2>4, RemoteFacts
  <2>6. k = Job("answer", "local", 1, Sent(FirstOffer)) /\ k.kind = "answer"
    BY <1>3, <2>1, JobParts
  <2>7. jobs'[o] = {k}
    BY <2>2, <2>4
  <2>8. Stands(o, AnswerLocal(o))'
    BY <1>2, <1>3, <1>6, <2>1, <2>5, <2>6, <2>7
       DEF Stands, AnswerRemote, AnswerLocal, Point, Made, Unheard, Control, Tasks, Link, Undisturbed
  <2>9. QED
    BY <2>8 DEF Points
<1>7. QED
  BY <1>2, <1>5, <1>6

\* A local answer stays at the point or leads to the next one.
LEMMA LocalAnswerMoves ==
  ASSUME NEW o, NEW p, Negotiating(o, p), NEW u \in Tabs, SetLocalAnswer(u)
  PROVE  \E q \in Points(o) : Stands(o, q)'
<1>1. PICK j \in jobs[u] : LocalAnswerStep(u, j)
  BY NegotiatingFacts, LocalAnswerFacts
<1>2. /\ LinkTypeOK /\ p \in Points(o) /\ Stands(o, p) /\ u \in {Caller, o} /\ j \in Jobs
      /\ Caller \in Tabs /\ o \in Tabs /\ o # Caller /\ o \in CalleeTabs
  BY <1>1, NegotiatingFacts DEF LocalAnswerStep
<1>3. /\ seen' = seen /\ offers' = offers /\ jobs'[u] = jobs[u] \ {j} /\ \A t \in Tabs \ {u} : jobs'[t] = jobs[t]
      /\ j.kind = "answer" /\ j.stage = "local"
  BY <1>1 DEF LocalAnswerStep
<1>4. j \in Tasks(u)
  BY <1>3 DEF Tasks
<1>5. CASE u = Caller
  <2>1. p = ReanswerLocal(o) /\ j = Job("answer", "local", 1, Sent(NextOffer(o)))
    <3>1. j \in p.calling
      BY <1>2, <1>4, <1>5 DEF Stands
    <3>2. QED
      BY <1>2, <1>3, <3>1, PointContents, JobParts
  <2>2. /\ Tasks(Caller) = {j} /\ pc[Caller].state = "remote-offer" /\ pc[Caller].id = 1
        /\ pc[Caller].remote = NextOffer(o) /\ answers[Caller] = 0
    BY <1>2, <2>1 DEF Stands, ReanswerLocal, Point, Link, Shut, Made
  <2>3. Held(Caller, j)
    BY <2>1, <2>2, JobParts DEF Held, IsOpen
  <2>4. answers' = [answers EXCEPT ![Caller] = @ + 1] /\ SetLocal(Caller, "stable", NextAnswer(o))
    BY <1>1, <1>5, <2>2, <2>3 DEF LocalAnswerStep, NextAnswer
  <2>5. answers'[Caller] = 1 /\ answers'[o] = answers[o]
    BY <1>2, <2>2, <2>4 DEF LinkTypeOK
  <2>6. {s \in posts' : s.type # "ice-candidate"} = Control \cup {Sent(NextAnswer(o))}
    BY <1>2, <2>4, SentPosts, PointDescs
  <2>7. /\ pc'[Caller].state = "stable" /\ pc'[Caller].local = NextAnswer(o)
        /\ pc'[Caller].remote = NextOffer(o) /\ pc'[Caller].id = 1 /\ pc'[o] = pc[o]
    BY <1>2, <2>2, <2>4, SetLocalFacts
  <2>8. {i \in jobs'[Caller] : i.kind \in {"call", "answer"}} = {} /\ jobs'[o] = jobs[o]
    BY <1>2, <1>3, <1>5, <2>2 DEF Tasks
  <2>9. Stands(o, Reanswered(o))'
    BY <1>2, <1>3, <2>1, <2>5, <2>6, <2>7, <2>8
       DEF Stands, ReanswerLocal, Reanswered, Point, Made, Unheard, Control, Tasks, Link, Reanswers, Shut
  <2>10. QED
    BY <2>9 DEF Points
<1>6. CASE u = o
  <2>1. p = AnswerLocal(o) /\ j = Job("answer", "local", 1, Sent(FirstOffer))
    <3>1. j \in p.answering
      BY <1>2, <1>4, <1>6 DEF Stands
    <3>2. QED
      BY <1>2, <1>3, <3>1, PointContents, JobParts
  <2>2. /\ jobs[o] = {j} /\ pc[o].state = "remote-offer" /\ pc[o].id = 1 /\ pc[o].remote = FirstOffer
        /\ pc[o].ice = "checking" /\ pc[o].timer = "none" /\ answers[o] = 0
    BY <1>2, <2>1 DEF Stands, AnswerLocal, Point, Link, Undisturbed, Made
  <2>3. Held(o, j)
    BY <2>1, <2>2, JobParts DEF Held, IsOpen
  <2>4. answers' = [answers EXCEPT ![o] = @ + 1] /\ SetLocal(o, "stable", FirstAnswer(o))
    BY <1>1, <1>6, <2>2, <2>3 DEF LocalAnswerStep, FirstAnswer
  <2>5. answers'[o] = 1 /\ answers'[Caller] = answers[Caller]
    BY <1>2, <2>2, <2>4 DEF LinkTypeOK
  <2>6. {s \in posts' : s.type # "ice-candidate"} = Control \cup {Sent(FirstAnswer(o))}
    BY <1>2, <2>4, SentPosts, PointDescs
  <2>7. /\ pc'[o].state = "stable" /\ pc'[o].local = FirstAnswer(o) /\ pc'[o].remote = FirstOffer
        /\ pc'[o].id = 1 /\ pc'[o].ice = "checking" /\ pc'[o].timer = "none" /\ pc'[Caller] = pc[Caller]
    BY <1>2, <2>2, <2>4, SetLocalFacts
  <2>8. jobs'[o] = {} /\ jobs'[Caller] = jobs[Caller]
    BY <1>2, <1>3, <1>6, <2>2
  <2>9. Stands(o, Answered(o))'
    BY <1>2, <1>3, <2>1, <2>5, <2>6, <2>7, <2>8
       DEF Stands, AnswerLocal, Answered, Point, Made, Unheard, Control, Tasks, Link, Undisturbed, Answers
  <2>10. QED
    BY <2>9 DEF Points
<1>7. QED
  BY <1>2, <1>5, <1>6

\* The network, and an ICE restart that only begins, stay at the point.
LEMMA NetworkMoves ==
  ASSUME NEW o, NEW p, Negotiating(o, p), NEW u \in Tabs, Connect(u) \/ Network(u) \/ RestartTimer(u)
  PROVE  Stands(o, p)'
<1>1. NetworkStep(u)
  BY NegotiatingFacts, NetworkFacts
<1>2. /\ LinkTypeOK /\ p \in Points(o) /\ Stands(o, p) /\ owner = o
      /\ Caller \in Tabs /\ o \in Tabs /\ o # Caller
  BY NegotiatingFacts
<1>3. /\ posts' = posts /\ seen' = seen /\ offers' = offers /\ answers' = answers
      /\ \A t \in Tabs \ {u} : pc'[t] = pc[t] /\ jobs'[t] = jobs[t]
      /\ pc'[u].state = pc[u].state /\ pc'[u].local = pc[u].local /\ pc'[u].remote = pc[u].remote
      /\ pc'[u].id = pc[u].id
  BY <1>1 DEF NetworkStep
<1>4. jobs'[u] = jobs[u] \/ \E j \in Jobs : j.kind \in {"restart", "timed restart"} /\ jobs'[u] = jobs[u] \cup {j}
  BY <1>1, Zenon DEF NetworkStep
<1>5. \A t \in Tabs : {j \in jobs'[t] : j.kind \in {"call", "answer"}} = Tasks(t)
  BY <1>3, <1>4 DEF Tasks
<1>6. SameTab(Caller) /\ SameTab(o)
  BY <1>2, <1>3, <1>5 DEF SameTab
<1>7. {s \in posts' : s.type # "ice-candidate"} = Control
  BY <1>3 DEF Control
<1>8. p.heard < 2 => u \notin {Caller, o}
  <2>1. ASSUME p.heard < 2 PROVE ~Agreed(o)
    <3>1. pc[Caller].remote = NoDesc
      BY <1>2, <2>1, PointStates DEF Stands, Link
    <3>2. QED
      BY <3>1 DEF Agreed
  <2>2. ASSUME p.heard < 2 PROVE Undisturbed(Caller) /\ Undisturbed(o)
    BY <1>2, <2>2 DEF Stands
  <2>3. QED
    BY <1>1, <1>2, <2>1, <2>2 DEF NetworkStep, Undisturbed
<1>9. p.heard < 2 => Undisturbed(Caller)' /\ Undisturbed(o)'
  <2>1. p.heard < 2 => pc'[Caller] = pc[Caller] /\ jobs'[Caller] = jobs[Caller] /\ pc'[o] = pc[o] /\ jobs'[o] = jobs[o]
    BY <1>2, <1>3, <1>8
  <2>2. p.heard < 2 => Undisturbed(Caller) /\ Undisturbed(o)
    BY <1>2 DEF Stands
  <2>3. QED
    BY <2>1, <2>2 DEF Undisturbed, Tasks
<1>10. pc[Caller] = NoPc => pc'[Caller] = NoPc
  <2>1. pc[Caller] = NoPc => ~IsOpen(Caller) /\ ~Agreed(o)
    BY DEF NoPc, IsOpen, Agreed
  <2>2. pc[Caller] = NoPc => u # Caller
    BY <1>1, <1>2, <2>1 DEF NetworkStep
  <2>3. QED
    BY <1>2, <1>3, <2>2
<1>11. QED
  BY <1>2, <1>6, <1>7, <1>9, <1>10, SamePoint

\* A point at which the call with its next owner stands is what StageInv asks for.
LEMMA StageNext ==
  ASSUME NEW o, o = owner', NEW q \in Points(o), Stands(o, q)'
  PROVE  StageInv'
<1>1. q \in Points(owner)'
  OBVIOUS
<1>2. Stands(owner, q)'
  BY DEF Stands, Made, Unheard, Link, Tasks, Control, Undisturbed
<1>3. QED
  BY <1>1, <1>2 DEF StageInv

\* Offers are counted up.
LEMMA OffersGrow ==
  ASSUME LinkTypeOK, [LinkNext]_linkVars, NEW t \in Tabs
  PROVE  offers[t] <= offers'[t]
<1>1. ASSUME NEW u \in Tabs, Work(u) PROVE offers' = offers \/ offers' = [offers EXCEPT ![u] = @ + 1]
  BY <1>1 DEF Work, AcquireMedia, SetLocalOffer, SetRemoteOffer, SetLocalAnswer
<1>2. offers' = offers \/ \E u \in Tabs : offers' = [offers EXCEPT ![u] = @ + 1]
  BY <1>1, ArrivalFacts
     DEF LinkNext, linkVars, tabVars, Accept, Hangup, Connect, Network, IceDrop, IceFail, RestartTimer, IceUnchanged
<1>3. QED
  BY <1>2 DEF LinkTypeOK

\* An accepted call is at its first point; every other step of a negotiation
\* leaves it at its point or takes it to the next.
LEMMA StageStep ==
  ASSUME LinkTypeOK, SignalInv, RemoteInv, BeforeInv, AbsentInv, EndInv, StageInv, [LinkNext]_linkVars
  PROVE  StageInv'
<1>1. SUFFICES ASSUME (InCall /\ Alone /\ ~Exhausted)' PROVE StageInv'
  BY DEF StageInv
<1>2. owner' # NoTab /\ session'[Caller] = "live" /\ session'[owner'] = "live" /\ open' = {owner'}
  BY <1>1 DEF InCall, Alone
<1>3. ~(offers'[Caller] > 1) /\ ~(offers'[owner'] > 1)
  BY <1>1 DEF Exhausted
<1>4. CASE \E t \in CalleeTabs : Accept(t) /\ owner = NoTab
  <2>1. PICK o \in CalleeTabs : Accept(o) /\ owner = NoTab
    BY <1>4
  <2>2. /\ Caller \in Tabs /\ o \in Tabs /\ o # Caller /\ owner' = o
        /\ posts = {} /\ offers = [t \in Tabs |-> 0] /\ answers = [t \in Tabs |-> 0]
        /\ \A t \in Tabs : seen[t] = {} /\ jobs[t] = {} /\ pc[t] = NoPc
    BY <2>1, PointDescs DEF Accept, BeforeInv
  <2>3. /\ posts' = {Signal("accepted", o, NoDesc, NoCandidate)} /\ seen' = seen /\ jobs' = jobs
        /\ offers' = offers /\ answers' = answers /\ pc' = [pc EXCEPT ![o] = NewPc(o)]
    BY <2>1, <2>2 DEF Accept, Post
  <2>4. pc'[Caller] = NoPc /\ pc'[o] = NewPc(o)
    BY <2>2, <2>3 DEF LinkTypeOK
  <2>5. /\ pc'[o].id = 1 /\ pc'[o].state = "stable" /\ pc'[o].local = NoDesc /\ pc'[o].remote = NoDesc
        /\ pc'[o].ice = "checking" /\ pc'[o].timer = "none"
    BY <2>2, <2>4 DEF NewPc, NoPc
  <2>6. /\ NoPc.state = "closed" /\ NoPc.local = NoDesc /\ NoPc.remote = NoDesc
        /\ NoPc.ice = "checking" /\ NoPc.timer = "none"
    BY DEF NoPc
  <2>7. Signal("accepted", o, NoDesc, NoCandidate).type = "accepted"
    BY DEF Signal
  <2>8. Stands(o, Accepted(o))'
    BY <2>2, <2>3, <2>4, <2>5, <2>6, <2>7
       DEF Stands, Accepted, Point, Made, Unheard, Control, Tasks, Link, Undisturbed, Bare, Shut
  <2>9. QED
    BY <2>2, <2>8, StageNext DEF Points
<1>5. CASE owner' = owner /\ open' = open /\ \A t \in Tabs : session'[t] = session[t] \/ session'[t] = "over"
  <2>1. PICK o : o = owner
    OBVIOUS
  <2>2. o \in CalleeTabs /\ Caller \in Tabs /\ o \in Tabs
    BY <1>2, <1>5, <2>1 DEF LinkTypeOK, Tabs
  <2>3. offers[Caller] \in Nat /\ offers[o] \in Nat /\ offers'[Caller] \in Nat /\ offers'[o] \in Nat
    BY <2>2, LinkTypeStep DEF LinkTypeOK
  <2>4. offers[Caller] <= offers'[Caller] /\ offers[o] <= offers'[o]
    BY <2>2, OffersGrow
  <2>5. InCall /\ Alone /\ ~Exhausted
    BY <1>2, <1>3, <1>5, <2>1, <2>2, <2>3, <2>4 DEF InCall, Alone, Exhausted
  <2>6. PICK p \in Points(o) : Stands(o, p)
    BY <2>1, <2>5 DEF StageInv
  <2>7. Negotiating(o, p)
    BY <2>1, <2>2, <2>5, <2>6 DEF Negotiating
  <2>8. offers'[Caller] <= 1 /\ offers'[o] <= 1
    BY <1>3, <1>5, <2>1, <2>3
  <2>9. CASE UNCHANGED linkVars
    <3>1. Stands(o, p)'
      BY <2>6, <2>9 DEF linkVars, tabVars, Stands, Made, Unheard, Link, Tasks, Control, Undisturbed
    <3>2. QED
      BY <1>5, <2>1, <2>6, <3>1, StageNext
  <2>10. ASSUME NEW t \in Tabs, Hangup(t) PROVE FALSE
    <3>1. t \in {Caller, o} /\ session'[t] = "over"
      BY <2>1, <2>10, TeardownFacts DEF Hangup
    <3>2. QED
      BY <1>2, <1>5, <2>1, <3>1
  <2>11. ASSUME NEW t \in Tabs, Accept(t) PROVE FALSE
    BY <1>2, <1>5, <2>11 DEF Accept
  <2>12. QED
    BY <1>5, <2>1, <2>6, <2>7, <2>8, <2>9, <2>10, <2>11, StageNext, DeliveryMoves, AcquireMoves,
       LocalOfferMoves, RemoteOfferMoves, LocalAnswerMoves, NetworkMoves DEF LinkNext, Work
<1>6. QED
  BY <1>4, <1>5, SessionStep

-----------------------------------------------------------------------------
(* PeerLink: the candidates of the first negotiation *)

\* What of a connection its candidates depend on.
SameContext(t) ==
    /\ pc'[t].queue = pc[t].queue /\ pc'[t].applied = pc[t].applied
    /\ pc'[t].hasRemote = pc[t].hasRemote /\ pc'[t].remote = pc[t].remote
SameKeys(t) == \A p \in Prefixes : IceKeyTo(t, p) \in seen'[t] <=> IceKeyTo(t, p) \in seen[t]
SameMail(t) ==
    \A s \in posts \cup posts' : s.type = "ice-candidate" /\ t \in Audience(s.by) => (s \in posts' <=> s \in posts)

\* Tab t still follows a description when its connection, the candidate keys it has seen and
\* the candidates under way to it are as they were.
LEMMA FollowsSame ==
  ASSUME NEW t, NEW desc, NEW made, Follows(t, desc, made), open' = open, t \in Audience(desc.by),
         SameContext(t), SameKeys(t), SameMail(t)
  PROVE  Follows(t, desc, made)'
<1>1. \A x : Audience(x)' = Audience(x)
  BY DEF Audience
<1>2. \A c \in Candidates : PrefixOf[c] \in Prefixes
  BY PrefixAssumption
<1>3. \A c \in Candidates : /\ Signal("ice-candidate", desc.by, desc, c).type = "ice-candidate"
                            /\ Signal("ice-candidate", desc.by, desc, c).by = desc.by
  BY DEF Signal
<1>4. \A s \in posts' : s.type = "ice-candidate" /\ t \in Audience(s.by) => made /\ s \in Gathered(desc)
  BY DEF Follows, SameMail
<1>5. made => \A c \in Candidates : \/ Signal("ice-candidate", desc.by, desc, c) \in posts'
                                    \/ IceKeyTo(t, PrefixOf[c]) \in seen'[t]
  BY <1>2, <1>3 DEF Follows, SameMail, SameKeys
<1>6. /\ pc'[t].queue \cup pc'[t].applied \subseteq Gathered(desc)
      /\ pc'[t].hasRemote => pc'[t].remote = desc
  BY DEF Follows, SameContext
<1>7. \A p \in Prefixes : IceKeyTo(t, p) \in seen'[t] => \E s \in Kept(t) : PrefixOf[s.cand] = p
  BY DEF Follows, SameKeys
<1>8. Kept(t)' = Kept(t)
  BY DEF Kept, SameContext
<1>9. QED
  BY <1>1, <1>4, <1>5, <1>6, <1>7, <1>8 DEF Follows, Gathered

\* The remote description is set: the queue is drained into it.
LEMMA FollowsRemote ==
  ASSUME NEW t, NEW desc, NEW made, Follows(t, desc, made), open' = open, t \in Audience(desc.by),
         ~pc[t].hasRemote, pc'[t].hasRemote, pc'[t].remote = desc, pc'[t].queue = {},
         pc'[t].applied = pc[t].applied \cup {s \in pc[t].queue : s.desc = desc},
         SameKeys(t), SameMail(t)
  PROVE  Follows(t, desc, made)'
<1>1. \A x : Audience(x)' = Audience(x)
  BY DEF Audience
<1>2. \A c \in Candidates : PrefixOf[c] \in Prefixes
  BY PrefixAssumption
<1>3. \A c \in Candidates : /\ Signal("ice-candidate", desc.by, desc, c).type = "ice-candidate"
                            /\ Signal("ice-candidate", desc.by, desc, c).by = desc.by
                            /\ Signal("ice-candidate", desc.by, desc, c).desc = desc
  BY DEF Signal
<1>4. \A s \in posts' : s.type = "ice-candidate" /\ t \in Audience(s.by) => made /\ s \in Gathered(desc)
  BY DEF Follows, SameMail
<1>5. made => \A c \in Candidates : \/ Signal("ice-candidate", desc.by, desc, c) \in posts'
                                    \/ IceKeyTo(t, PrefixOf[c]) \in seen'[t]
  BY <1>2, <1>3 DEF Follows, SameMail, SameKeys
<1>6. pc'[t].queue \cup pc'[t].applied \subseteq Gathered(desc)
  BY DEF Follows
<1>7. \A p \in Prefixes : IceKeyTo(t, p) \in seen'[t] => \E s \in pc[t].queue : PrefixOf[s.cand] = p
  BY DEF Follows, SameKeys, Kept
<1>8. pc[t].queue \subseteq pc'[t].applied
  BY <1>3 DEF Follows, Gathered
<1>9. Kept(t)' = pc'[t].applied
  BY DEF Kept
<1>10. QED
  BY <1>1, <1>4, <1>5, <1>6, <1>7, <1>8, <1>9 DEF Follows, Gathered

\* A description is made: its candidates come under way with it.
LEMMA FollowsMade ==
  ASSUME NEW t, NEW desc, NEW u, NEW state, Follows(t, desc, FALSE), open' = open,
         SetLocal(u, state, desc), desc.by = u, desc.kind \in {"offer", "answer"}, SameContext(t), SameKeys(t)
  PROVE  Follows(t, desc, TRUE)'
<1>1. \A x : Audience(x)' = Audience(x)
  BY DEF Audience
<1>2. \A s \in posts' : s.type = "ice-candidate" /\ t \in Audience(s.by) => s \in Gathered(desc)
  BY SetLocalPosts DEF Follows, Gathered
<1>3. \A c \in Candidates : Signal("ice-candidate", desc.by, desc, c) \in posts'
  BY SetLocalPosts
<1>4. /\ pc'[t].queue \cup pc'[t].applied \subseteq Gathered(desc)
      /\ pc'[t].hasRemote => pc'[t].remote = desc
  BY DEF Follows, SameContext
<1>5. \A p \in Prefixes : IceKeyTo(t, p) \in seen'[t] => \E s \in Kept(t) : PrefixOf[s.cand] = p
  BY DEF Follows, SameKeys
<1>6. Kept(t)' = Kept(t)
  BY DEF Kept, SameContext
<1>7. QED
  BY <1>1, <1>2, <1>3, <1>4, <1>5, <1>6 DEF Follows, Gathered

\* A candidate arrives: it is kept unless one with its prefix was.
LEMMA FollowsCandidate ==
  ASSUME LinkTypeOK, NEW t \in Tabs, NEW desc, NEW made, Follows(t, desc, made), open' = open, t \in Audience(desc.by),
         NEW s \in posts, s.type = "ice-candidate", s.by \in Tabs, posts' = posts \ {s},
         pc'[t] = (IF t \in Fresh(s) THEN WithCandidate(pc[t], s) ELSE pc[t]),
         seen'[t] = (IF t \in Audience(s.by) THEN seen[t] \cup {Key(s)} ELSE seen[t]),
         made => pc[t].state # "closed"
  PROVE  Follows(t, desc, made)'
<1>1. \A x : Audience(x)' = Audience(x)
  BY DEF Audience
<1>2. \A c \in Candidates : PrefixOf[c] \in Prefixes
  BY PrefixAssumption
<1>3. \A c \in Candidates : /\ Signal("ice-candidate", desc.by, desc, c).by = desc.by
                            /\ Signal("ice-candidate", desc.by, desc, c).desc = desc
                            /\ Signal("ice-candidate", desc.by, desc, c).cand = c
  BY DEF Signal
<1>4. CASE t \notin Audience(s.by)
  <2>1. SameContext(t) /\ SameKeys(t)
    BY <1>4 DEF Fresh, SameContext, SameKeys
  <2>2. SameMail(t)
    BY <1>4 DEF SameMail
  <2>3. QED
    BY <2>1, <2>2, FollowsSame
<1>5. CASE t \in Audience(s.by)
  <2>1. made /\ s \in Gathered(desc)
    BY <1>5 DEF Follows
  <2>2. s.desc = desc /\ s.cand \in Candidates /\ s = Signal("ice-candidate", desc.by, desc, s.cand)
    BY <1>3, <2>1 DEF Gathered
  <2>3. Key(s) = IceKeyTo(t, PrefixOf[s.cand])
    BY <1>5, KeyFacts
  <2>4. \A p : IceKeyTo(t, p) = Key(s) => p = PrefixOf[s.cand]
    BY <2>3 DEF IceKeyTo
  <2>5. \A r \in posts' : r.type = "ice-candidate" /\ t \in Audience(r.by) => made /\ r \in Gathered(desc)
    BY DEF Follows
  <2>6. \A c \in Candidates : \/ Signal("ice-candidate", desc.by, desc, c) \in posts'
                              \/ IceKeyTo(t, PrefixOf[c]) \in seen'[t]
    BY <1>3, <1>5, <2>1, <2>3 DEF Follows
  <2>7. pc[t] \in Contexts /\ pc[t].state # "closed"
    BY <2>1 DEF LinkTypeOK
  <2>8. CASE Key(s) \in seen[t]
    <3>1. pc'[t] = pc[t] /\ seen'[t] = seen[t]
      BY <1>5, <2>8 DEF Fresh
    <3>2. Kept(t)' = Kept(t)
      BY <3>1 DEF Kept
    <3>3. /\ pc'[t].queue \cup pc'[t].applied \subseteq Gathered(desc)
          /\ pc'[t].hasRemote => pc'[t].remote = desc
          /\ \A p \in Prefixes : IceKeyTo(t, p) \in seen'[t] => \E r \in Kept(t) : PrefixOf[r.cand] = p
      BY <3>1 DEF Follows
    <3>4. QED
      BY <1>1, <2>5, <2>6, <3>2, <3>3 DEF Follows, Gathered
  <2>9. CASE Key(s) \notin seen[t]
    <3>1. pc'[t] = WithCandidate(pc[t], s)
      BY <1>5, <2>9 DEF Fresh
    <3>2. /\ pc'[t].hasRemote = pc[t].hasRemote /\ pc'[t].remote = pc[t].remote
          /\ pc'[t].queue = IF pc[t].hasRemote THEN pc[t].queue ELSE pc[t].queue \cup {s}
          /\ pc'[t].applied = IF pc[t].hasRemote THEN pc[t].applied \cup {s} ELSE pc[t].applied
      <4>1. pc[t].hasRemote => s.desc = pc[t].remote
        BY <2>2 DEF Follows
      <4>2. QED
        BY <2>7, <3>1, <4>1 DEF WithCandidate, Fits, Contexts
    <3>3. Kept(t)' = Kept(t) \cup {s}
      BY <3>2 DEF Kept
    <3>4. pc'[t].queue \cup pc'[t].applied \subseteq Gathered(desc)
      BY <2>1, <3>2 DEF Follows
    <3>5. pc'[t].hasRemote => pc'[t].remote = desc
      BY <3>2 DEF Follows
    <3>6. \A p \in Prefixes : IceKeyTo(t, p) \in seen'[t] => \E r \in Kept(t) \cup {s} : PrefixOf[r.cand] = p
      BY <1>5, <2>4 DEF Follows
    <3>7. QED
      BY <1>1, <2>5, <2>6, <3>3, <3>4, <3>5, <3>6 DEF Follows, Gathered
  <2>10. QED
    BY <2>8, <2>9
<1>6. QED
  BY <1>4, <1>5

\* The first negotiation, with what is known of its candidates.
Gathering(o, p, offered, answered) ==
    /\ Negotiating(o, p) /\ offers[o] = 0
    /\ offered \in BOOLEAN /\ (offered <=> offers[Caller] = 1)
    /\ answered \in BOOLEAN /\ (answered <=> answers[o] = 1)
    /\ Follows(o, FirstOffer, offered) /\ Follows(Caller, FirstAnswer(o), answered)

Gathers(o) ==
    \E offered, answered \in BOOLEAN :
        /\ offered <=> offers'[Caller] = 1
        /\ answered <=> answers'[o] = 1
        /\ Follows(o, FirstOffer, offered)' /\ Follows(Caller, FirstAnswer(o), answered)'

\* What there is to know of a call in its first negotiation.
LEMMA GatheringFacts ==
  ASSUME NEW o, NEW p, NEW x, NEW y, Gathering(o, p, x, y)
  PROVE  /\ x \in BOOLEAN /\ y \in BOOLEAN /\ (x <=> offers[Caller] = 1) /\ (y <=> answers[o] = 1) /\ offers[o] = 0
         /\ Follows(o, FirstOffer, x) /\ Follows(Caller, FirstAnswer(o), y)
         /\ Negotiating(o, p) /\ p.made \in 0 .. 2
         /\ Audience(Caller) = {o} /\ Audience(o) = {Caller}
         /\ FirstOffer.by = Caller /\ FirstAnswer(o).by = o
         /\ y => pc[Caller].state # "closed"
         /\ pc[o].state # "closed"
<1>1. /\ x \in BOOLEAN /\ y \in BOOLEAN /\ (x <=> offers[Caller] = 1) /\ (y <=> answers[o] = 1) /\ offers[o] = 0
      /\ Follows(o, FirstOffer, x) /\ Follows(Caller, FirstAnswer(o), y) /\ Negotiating(o, p)
  BY DEF Gathering
<1>2. /\ p \in Points(o) /\ Stands(o, p) /\ o \in CalleeTabs /\ o # Caller
  BY <1>1, NegotiatingFacts
<1>3. p.made \in 0 .. 4 /\ (p.made >= 1 => p.here[1] # "closed") /\ p.there[1] # "closed"
  BY <1>2, PointStates
<1>4. p.made \in 0 .. 2
  BY <1>1, <1>2, <1>3 DEF Stands, Made
<1>5. Audience(Caller) = {o} /\ Audience(o) = {Caller}
  BY <1>1, <1>2 DEF Negotiating, Alone, Audience
<1>6. (y => pc[Caller].state # "closed") /\ pc[o].state # "closed"
  BY <1>1, <1>2, <1>3 DEF Stands, Made, Link
<1>7. QED
  BY <1>1, <1>2, <1>4, <1>5, <1>6, PointDescs

\* The number of the descriptions stays.
LEMMA GathersSame ==
  ASSUME NEW o, NEW p, NEW x, NEW y, Gathering(o, p, x, y),
         offers'[Caller] = offers[Caller], answers'[o] = answers[o],
         Follows(o, FirstOffer, x)', Follows(Caller, FirstAnswer(o), y)'
  PROVE  Gathers(o)
  BY GatheringFacts DEF Gathers

\* The arrival of a signal loses no candidate.
LEMMA DeliveryGathers ==
  ASSUME NEW o, NEW p, NEW x, NEW y, Gathering(o, p, x, y), NEW s \in posts, Deliver(s)
  PROVE  Gathers(o)
<1>1. /\ LinkTypeOK /\ o \in CalleeTabs /\ p \in Points(o) /\ Stands(o, p)
      /\ Caller \in Tabs /\ o \in Tabs /\ o # Caller /\ pc[Caller] \in Contexts /\ pc[o] \in Contexts
  BY GatheringFacts, NegotiatingFacts
<1>2. /\ s.by \in Tabs /\ s.type # "ended" /\ RemoteInv
  BY GatheringFacts DEF Negotiating, SignalInv, EndInv, InCall
<1>3. posts' = posts \ {s} /\ open' = open /\ offers' = offers /\ answers' = answers
  BY <1>1, ArrivalFacts
<1>4. o \in Audience(FirstOffer.by) /\ Caller \in Audience(FirstAnswer(o).by)
  BY GatheringFacts
<1>5. CASE s.type = "ice-candidate"
  <2>1. \A t \in {Caller, o} :
          /\ pc'[t] = (IF t \in Fresh(s) THEN WithCandidate(pc[t], s) ELSE pc[t])
          /\ seen'[t] = (IF t \in Audience(s.by) THEN seen[t] \cup {Key(s)} ELSE seen[t])
    BY <1>1, <1>5, ArrivalFacts
  <2>2. Follows(o, FirstOffer, x)'
    BY <1>1, <1>2, <1>3, <1>4, <1>5, <2>1, GatheringFacts, FollowsCandidate
  <2>3. Follows(Caller, FirstAnswer(o), y)'
    BY <1>1, <1>2, <1>3, <1>4, <1>5, <2>1, GatheringFacts, FollowsCandidate
  <2>4. QED
    BY <1>3, <2>2, <2>3, GathersSame
<1>6. CASE s.type # "ice-candidate"
  <2>1. \A t \in Tabs : seen'[t] = seen[t] \/ (seen'[t] = seen[t] \cup {Key(s)} /\ s.type \in {"offer", "answer"})
    BY <1>1, <1>2, <1>6, ArrivalFacts
  <2>2. \A t : s.type \in {"offer", "answer"} => \A c : Key(s) # IceKeyTo(t, c)
    BY DEF Key, IceKeyTo
  <2>3. \A t \in Tabs : SameKeys(t)
    BY <2>1, <2>2 DEF SameKeys
  <2>4. \A t : SameMail(t)
    BY <1>3, <1>6 DEF SameMail
  <2>5. \A t \in {Caller, o} : pc'[t] = pc[t] => SameContext(t)
    BY DEF SameContext
  <2>6. pc'[o] = pc[o] => Follows(o, FirstOffer, x)'
    BY <1>1, <1>3, <1>4, <2>3, <2>4, <2>5, GatheringFacts, FollowsSame
  <2>7. pc'[Caller] = pc[Caller] => Follows(Caller, FirstAnswer(o), y)'
    BY <1>1, <1>3, <1>4, <2>3, <2>4, <2>5, GatheringFacts, FollowsSame
  <2>8. CASE s.type = "answer"
    <3>1. \A t \in Tabs : pc'[t] = IF t \in Fresh(s) /\ pc[t].state = "local-offer"
                                   THEN WithRemote(pc[t], "stable", s.desc) ELSE pc[t]
      BY <1>1, <2>8, ArrivalFacts
    <3>2. p = Answered(o) /\ s = Sent(FirstAnswer(o))
      <4>1. s \in p.sent
        BY <1>1, <1>6 DEF Stands, Control
      <4>2. p # Reanswered(o)
        BY GatheringFacts DEF Reanswered, Point
      <4>3. QED
        BY <1>1, <2>8, <4>1, <4>2, PointContents, PointDescs DEF Signal
    <3>3. s.by = o /\ s.desc = FirstAnswer(o)
      BY <1>1, <3>2, PointDescs
    <3>4. pc'[o] = pc[o]
      BY <1>1, <3>1, <3>3, GatheringFacts DEF Fresh
    <3>5. pc'[Caller] = pc[Caller] \/ pc'[Caller] = WithRemote(pc[Caller], "stable", FirstAnswer(o))
      BY <1>1, <3>1, <3>3
    <3>6. ~pc[Caller].hasRemote
      <4>1. pc[Caller].remote = NoDesc
        BY <1>1, <3>2 DEF Stands, Answered, Point, Link, Offering
      <4>2. QED
        BY <1>1, <1>2, <4>1 DEF RemoteInv, NoDesc
    <3>7. ASSUME pc'[Caller] = WithRemote(pc[Caller], "stable", FirstAnswer(o))
          PROVE  Follows(Caller, FirstAnswer(o), y)'
      <4>1. /\ pc'[Caller].hasRemote /\ pc'[Caller].remote = FirstAnswer(o) /\ pc'[Caller].queue = {}
            /\ pc'[Caller].applied = pc[Caller].applied \cup {r \in pc[Caller].queue : r.desc = FirstAnswer(o)}
        BY <1>1, <3>7, RemoteFacts
      <4>2. QED
        BY <1>1, <1>3, <1>4, <2>3, <2>4, <3>6, <4>1, GatheringFacts, FollowsRemote
    <3>8. QED
      BY <1>3, <2>6, <2>7, <3>4, <3>5, <3>7, GathersSame
  <2>9. CASE s.type # "answer"
    <3>1. pc' = pc
      BY <1>1, <1>2, <1>6, <2>9, ArrivalFacts
    <3>2. QED
      BY <1>3, <2>6, <2>7, <3>1, GathersSame
  <2>10. QED
    BY <2>8, <2>9
<1>7. QED
  BY <1>5, <1>6

\* A step that brings no description and no candidate.
LEMMA QuietGathers ==
  ASSUME NEW o, NEW p, NEW x, NEW y, Gathering(o, p, x, y), open' = open, posts' = posts, seen' = seen,
         offers' = offers, answers' = answers, SameContext(Caller), SameContext(o)
  PROVE  Gathers(o)
<1>1. \A t : SameKeys(t) /\ SameMail(t)
  BY DEF SameKeys, SameMail
<1>2. Follows(o, FirstOffer, x)' /\ Follows(Caller, FirstAnswer(o), y)'
  BY <1>1, GatheringFacts, FollowsSame
<1>3. QED
  BY <1>2, GathersSame

\* A description is made by one side: the other follows it, its own candidates are as before.
LEMMA MadeMail ==
  ASSUME NEW t, NEW u, NEW state, NEW desc, SetLocal(u, state, desc), t \notin Audience(u), desc.kind # "ice-candidate"
  PROVE  SameMail(t)
  BY SetLocalPosts DEF SameMail

\* A step of a handler loses no candidate.
LEMMA WorkGathers ==
  ASSUME NEW o, NEW p, NEW x, NEW y, Gathering(o, p, x, y), offers'[Caller] <= 1, offers'[o] = 0,
         NEW u \in Tabs, Work(u)
  PROVE  Gathers(o)
<1>1. /\ LinkTypeOK /\ o \in CalleeTabs /\ p \in Points(o) /\ Stands(o, p)
      /\ Caller \in Tabs /\ o \in Tabs /\ o # Caller /\ pc[Caller] \in Contexts /\ pc[o] \in Contexts
      /\ \A t \in Tabs \ {Caller, o} : jobs[t] = {}
      /\ Tasks(Caller) = p.calling /\ Tasks(o) = p.answering /\ RemoteInv
      /\ offers[Caller] \in Nat /\ offers[o] \in Nat /\ answers[o] \in Nat
  BY GatheringFacts, NegotiatingFacts DEF LinkTypeOK, Negotiating
<1>2. u \in {Caller, o}
  BY <1>1 DEF Work, AcquireMedia, SetLocalOffer, SetRemoteOffer, SetLocalAnswer
<1>3. \A j \in p.calling : j.kind # "answer"
  <2>1. p \notin {ReanswerMedia(o), ReanswerRemote(o), ReanswerLocal(o)}
    BY GatheringFacts DEF ReanswerMedia, ReanswerRemote, ReanswerLocal, Point
  <2>2. QED
    BY <1>1, <2>1, PointContents, JobParts
<1>4. \A j \in jobs[Caller] : j.kind # "answer"
  BY <1>1, <1>3 DEF Tasks
<1>5. o \in Audience(FirstOffer.by) /\ Caller \in Audience(FirstAnswer(o).by)
      /\ o \notin Audience(o) /\ Caller \notin Audience(Caller)
  BY <1>1, GatheringFacts
<1>6. CASE AcquireMedia(u)
  <2>1. PICK j \in jobs[u], k \in Jobs : AcquireStep(u, j, k)
    BY <1>1, <1>6, AcquireFacts
  <2>2. \A t \in {Caller, o} : pc'[t] = pc[t] \/ (t = u /\ ~IsOpen(u) /\ pc'[u] = NewPc(u))
    BY <1>1, <2>1 DEF AcquireStep
  <2>3. IsOpen(o)
    BY GatheringFacts DEF IsOpen
  <2>4. ~IsOpen(Caller) => pc[Caller] = NoPc
    BY <1>1, PointStates DEF IsOpen, Stands, Link
  <2>5. SameContext(Caller) /\ SameContext(o)
    <3>1. pc'[o] = pc[o] /\ (pc'[Caller] = pc[Caller] \/ (pc[Caller] = NoPc /\ pc'[Caller] = NewPc(Caller)))
      BY <2>2, <2>3, <2>4
    <3>2. /\ NoPc.queue = {} /\ NoPc.applied = {} /\ NoPc.hasRemote = FALSE /\ NoPc.remote = NoDesc
          /\ NewPc(Caller).queue = {} /\ NewPc(Caller).applied = {}
          /\ NewPc(Caller).hasRemote = FALSE /\ NewPc(Caller).remote = NoDesc
      BY DEF NewPc, NoPc
    <3>3. QED
      BY <3>1, <3>2 DEF SameContext
  <2>6. /\ open' = open /\ posts' = posts /\ seen' = seen /\ offers' = offers /\ answers' = answers
    BY <2>1 DEF AcquireStep
  <2>7. QED
    BY <2>5, <2>6, QuietGathers
<1>7. CASE SetLocalOffer(u)
  <2>1. PICK j \in jobs[u] : LocalOfferStep(u, j)
    BY <1>1, <1>7, LocalOfferFacts
  <2>2. open' = open /\ seen' = seen /\ answers' = answers
    BY <2>1 DEF LocalOfferStep
  <2>3. CASE UNCHANGED <<offers, pc, posts>>
    BY <2>2, <2>3, QuietGathers DEF SameContext
  <2>4. CASE offers' = [offers EXCEPT ![u] = @ + 1] /\ SetLocal(u, "local-offer", Offer(u, offers[u] + 1))
    <3>1. u = Caller
      BY <1>1, <1>2, <2>4 DEF LinkTypeOK
    <3>2. offers[Caller] = 0 /\ offers'[Caller] = 1
      BY <1>1, <2>4, <3>1 DEF LinkTypeOK
    <3>3. SetLocal(Caller, "local-offer", FirstOffer)
      BY <2>4, <3>1, <3>2 DEF FirstOffer
    <3>4. SameContext(Caller) /\ SameContext(o)
      BY <1>1, <3>3, SetLocalFacts DEF SameContext
    <3>5. SameKeys(Caller) /\ SameKeys(o)
      BY <2>2 DEF SameKeys
    <3>6. FirstOffer.kind = "offer"
      BY <1>1, PointDescs
    <3>7. Follows(o, FirstOffer, FALSE)
      <4>1. x = FALSE
        BY <3>2, GatheringFacts
      <4>2. QED
        BY <4>1, GatheringFacts
    <3>8. Follows(o, FirstOffer, TRUE)'
      BY <2>2, <3>3, <3>4, <3>5, <3>6, <3>7, GatheringFacts, FollowsMade
    <3>9. SameMail(Caller)
      BY <1>5, <3>3, <3>6, MadeMail
    <3>10. Follows(Caller, FirstAnswer(o), y)'
      BY <1>5, <2>2, <3>4, <3>5, <3>9, GatheringFacts, FollowsSame
    <3>11. y \in BOOLEAN /\ (y <=> answers'[o] = 1)
      BY <2>2, GatheringFacts
    <3>12. QED
      BY <3>2, <3>8, <3>10, <3>11 DEF Gathers
  <2>5. QED
    BY <2>1, <2>3, <2>4 DEF LocalOfferStep
<1>8. CASE SetRemoteOffer(u)
  <2>1. PICK j \in jobs[u], k \in Jobs : RemoteOfferStep(u, j, k)
    BY <1>1, <1>8, RemoteOfferFacts
  <2>2. /\ open' = open /\ posts' = posts /\ seen' = seen /\ offers' = offers /\ answers' = answers
        /\ j.kind = "answer" /\ j.stage = "remote"
    BY <2>1 DEF RemoteOfferStep
  <2>3. u = o
    BY <1>2, <1>4, <2>2
  <2>4. p = AnswerRemote(o) /\ j = Job("answer", "remote", 1, Sent(FirstOffer))
    <3>1. j \in p.answering
      BY <1>1, <2>2, <2>3 DEF Tasks
    <3>2. QED
      BY <1>1, <2>2, <3>1, PointContents, JobParts
  <2>5. pc'[Caller] = pc[Caller] /\ (pc'[o] = pc[o] \/ pc'[o] = WithRemote(pc[o], "remote-offer", j.sig.desc))
    BY <1>1, <2>1, <2>3 DEF RemoteOfferStep
  <2>6. j.sig.desc = FirstOffer
    BY <1>1, <2>4, JobParts, PointDescs
  <2>7. CASE pc'[o] = pc[o]
    BY <2>2, <2>5, <2>7, QuietGathers DEF SameContext
  <2>8. CASE pc'[o] = WithRemote(pc[o], "remote-offer", FirstOffer)
    <3>1. ~pc[o].hasRemote
      <4>1. pc[o].remote = NoDesc
        BY <1>1, <2>4 DEF Stands, AnswerRemote, Point, Link, Bare
      <4>2. QED
        BY <1>1, <4>1 DEF RemoteInv, NoDesc
    <3>2. /\ pc'[o].hasRemote /\ pc'[o].remote = FirstOffer /\ pc'[o].queue = {}
          /\ pc'[o].applied = pc[o].applied \cup {r \in pc[o].queue : r.desc = FirstOffer}
      BY <1>1, <2>8, RemoteFacts
    <3>3. \A t : SameKeys(t) /\ SameMail(t)
      BY <2>2 DEF SameKeys, SameMail
    <3>4. Follows(o, FirstOffer, x)'
      BY <1>5, <2>2, <3>1, <3>2, <3>3, GatheringFacts, FollowsRemote
    <3>5. Follows(Caller, FirstAnswer(o), y)'
      BY <1>5, <2>2, <2>5, <3>3, GatheringFacts, FollowsSame DEF SameContext
    <3>6. QED
      BY <2>2, <3>4, <3>5, GathersSame
  <2>9. QED
    BY <2>5, <2>6, <2>7, <2>8
<1>9. CASE SetLocalAnswer(u)
  <2>1. PICK j \in jobs[u] : LocalAnswerStep(u, j)
    BY <1>1, <1>9, LocalAnswerFacts
  <2>2. open' = open /\ seen' = seen /\ offers' = offers /\ j.kind = "answer" /\ j.stage = "local"
    BY <2>1 DEF LocalAnswerStep
  <2>3. u = o
    BY <1>2, <1>4, <2>2
  <2>4. CASE UNCHANGED <<answers, pc, posts>>
    BY <2>2, <2>4, QuietGathers DEF SameContext
  <2>5. CASE /\ answers' = [answers EXCEPT ![o] = @ + 1]
             /\ SetLocal(o, "stable", Answer(o, answers[o] + 1, pc[o].remote))
    <3>1. p = AnswerLocal(o)
      <4>1. j \in p.answering
        BY <1>1, <2>2, <2>3 DEF Tasks
      <4>2. QED
        BY <1>1, <2>2, <4>1, PointContents, JobParts
    <3>2. answers[o] = 0 /\ pc[o].remote = FirstOffer
      BY <1>1, <3>1 DEF Stands, AnswerLocal, Point, Link, Made
    <3>3. answers'[o] = 1 /\ SetLocal(o, "stable", FirstAnswer(o))
      BY <1>1, <2>5, <3>2 DEF LinkTypeOK, FirstAnswer
    <3>4. SameContext(Caller) /\ SameContext(o)
      BY <1>1, <3>3, SetLocalFacts DEF SameContext
    <3>5. SameKeys(Caller) /\ SameKeys(o)
      BY <2>2 DEF SameKeys
    <3>6. FirstAnswer(o).kind = "answer"
      BY <1>1, PointDescs
    <3>7. Follows(Caller, FirstAnswer(o), FALSE)
      <4>1. y = FALSE
        BY <3>2, GatheringFacts
      <4>2. QED
        BY <4>1, GatheringFacts
    <3>8. Follows(Caller, FirstAnswer(o), TRUE)'
      BY <2>2, <3>3, <3>4, <3>5, <3>6, <3>7, GatheringFacts, FollowsMade
    <3>9. SameMail(o)
      BY <1>5, <3>3, <3>6, MadeMail
    <3>10. Follows(o, FirstOffer, x)'
      BY <1>5, <2>2, <3>4, <3>5, <3>9, GatheringFacts, FollowsSame
    <3>11. x \in BOOLEAN /\ (x <=> offers'[Caller] = 1)
      BY <2>2, GatheringFacts
    <3>12. QED
      BY <3>3, <3>8, <3>10, <3>11 DEF Gathers
  <2>6. QED
    BY <2>1, <2>3, <2>4, <2>5 DEF LocalAnswerStep
<1>10. QED
  BY <1>6, <1>7, <1>8, <1>9 DEF Work

\* What the candidates of a call have come to, in terms of one tab.
LEMMA CandidateNext ==
  ASSUME NEW o, o = owner', Gathers(o)
  PROVE  CandidateInv'
<1>1. PICK x, y \in BOOLEAN :
         /\ x <=> offers'[Caller] = 1
         /\ y <=> answers'[o] = 1
         /\ Follows(o, FirstOffer, x)' /\ Follows(Caller, FirstAnswer(o), y)'
  BY DEF Gathers
<1>2. Follows(owner, FirstOffer, offers[Caller] = 1)'
  BY <1>1 DEF Follows, Kept
<1>3. Follows(Caller, FirstAnswer(owner), answers[owner] = 1)'
  BY <1>1 DEF Follows, Kept
<1>4. QED
  BY <1>2, <1>3 DEF CandidateInv

\* Every step keeps what the candidates are subject to.
LEMMA CandidateStep ==
  ASSUME LinkInv, [LinkNext]_linkVars
  PROVE  CandidateInv'
<1> USE DEF LinkInv
<1>1. SUFFICES ASSUME (InCall /\ Alone /\ ~Exhausted /\ offers[owner] = 0)' PROVE CandidateInv'
  BY DEF CandidateInv
<1>2. /\ owner' # NoTab /\ session'[Caller] = "live" /\ session'[owner'] = "live" /\ open' = {owner'}
      /\ offers'[owner'] = 0
  BY <1>1 DEF InCall, Alone
<1>3. ~(offers'[Caller] > 1)
  BY <1>1 DEF Exhausted
<1>4. CASE \E t \in CalleeTabs : Accept(t) /\ owner = NoTab
  <2>1. PICK o \in CalleeTabs : Accept(o) /\ owner = NoTab
    BY <1>4
  <2>2. /\ Caller \in Tabs /\ o \in Tabs /\ o # Caller /\ owner' = o
        /\ posts = {} /\ offers = [t \in Tabs |-> 0] /\ answers = [t \in Tabs |-> 0]
        /\ \A t \in Tabs : seen[t] = {} /\ pc[t] = NoPc
    BY <2>1, PointDescs DEF Accept, BeforeInv
  <2>3. /\ posts' = {Signal("accepted", o, NoDesc, NoCandidate)} /\ seen' = seen
        /\ offers' = offers /\ answers' = answers /\ pc' = [pc EXCEPT ![o] = NewPc(o)]
    BY <2>1, <2>2 DEF Accept, Post
  <2>4. pc'[Caller] = NoPc /\ pc'[o] = NewPc(o)
    BY <2>2, <2>3 DEF LinkTypeOK
  <2>5. \A t \in {Caller, o} : pc'[t].queue = {} /\ pc'[t].applied = {} /\ pc'[t].hasRemote = FALSE /\ seen'[t] = {}
    BY <2>2, <2>3, <2>4 DEF NewPc, NoPc
  <2>6. \A s \in posts' : s.type # "ice-candidate"
    BY <2>3 DEF Signal
  <2>7. Follows(o, FirstOffer, FALSE)' /\ Follows(Caller, FirstAnswer(o), FALSE)'
    BY <2>5, <2>6 DEF Follows
  <2>8. offers'[Caller] # 1 /\ answers'[o] # 1
    BY <2>2, <2>3
  <2>9. Gathers(o)
    BY <2>7, <2>8 DEF Gathers
  <2>10. QED
    BY <2>2, <2>9, CandidateNext
<1>5. CASE owner' = owner /\ open' = open /\ \A t \in Tabs : session'[t] = session[t] \/ session'[t] = "over"
  <2>1. PICK o : o = owner
    OBVIOUS
  <2>2. o \in CalleeTabs /\ Caller \in Tabs /\ o \in Tabs
    BY <1>2, <1>5, <2>1 DEF LinkTypeOK, Tabs
  <2>3. offers[Caller] \in Nat /\ offers[o] \in Nat /\ offers'[Caller] \in Nat /\ offers'[o] \in Nat
    BY <2>2, LinkTypeStep DEF LinkTypeOK
  <2>4. offers[Caller] <= offers'[Caller] /\ offers[o] <= offers'[o]
    BY <2>2, OffersGrow
  <2>5. InCall /\ Alone /\ ~Exhausted /\ offers[o] = 0
    BY <1>2, <1>3, <1>5, <2>1, <2>2, <2>3, <2>4 DEF InCall, Alone, Exhausted
  <2>6. PICK p \in Points(o) : Stands(o, p)
    BY <2>1, <2>5 DEF StageInv
  <2>7. Negotiating(o, p)
    BY <2>1, <2>2, <2>5, <2>6 DEF Negotiating
  <2>8. PICK x, y \in BOOLEAN : (x <=> offers[Caller] = 1) /\ (y <=> answers[o] = 1)
    OBVIOUS
  <2>9. Gathering(o, p, x, y)
    <3>1. Follows(o, FirstOffer, offers[Caller] = 1) /\ Follows(Caller, FirstAnswer(o), answers[o] = 1)
      BY <2>1, <2>5 DEF CandidateInv
    <3>2. Follows(o, FirstOffer, x) /\ Follows(Caller, FirstAnswer(o), y)
      BY <2>8, <3>1 DEF Follows
    <3>3. QED
      BY <2>5, <2>7, <2>8, <3>2 DEF Gathering
  <2>10. offers'[Caller] <= 1 /\ offers'[o] = 0
    BY <1>2, <1>3, <1>5, <2>1, <2>3
  <2>11. CASE UNCHANGED linkVars
    <3>1. Gathers(o)
      BY <2>9, <2>11, QuietGathers DEF linkVars, tabVars, SameContext
    <3>2. QED
      BY <1>5, <2>1, <3>1, CandidateNext
  <2>12. ASSUME NEW t \in Tabs, Hangup(t) PROVE FALSE
    <3>1. t \in {Caller, o} /\ session'[t] = "over"
      BY <2>1, <2>12, TeardownFacts DEF Hangup
    <3>2. QED
      BY <1>2, <1>5, <2>1, <3>1
  <2>13. ASSUME NEW t \in Tabs, Accept(t) PROVE FALSE
    BY <1>2, <1>5, <2>13 DEF Accept
  <2>14. ASSUME NEW t \in Tabs, Connect(t) \/ Network(t) \/ RestartTimer(t) PROVE Gathers(o)
    <3>1. NetworkStep(t)
      BY <2>14, NetworkFacts
    <3>2. SameContext(Caller) /\ SameContext(o)
      BY <2>2, <3>1 DEF NetworkStep, SameContext
    <3>3. open' = open /\ posts' = posts /\ seen' = seen /\ offers' = offers /\ answers' = answers
      BY <3>1 DEF NetworkStep
    <3>4. QED
      BY <2>9, <3>2, <3>3, QuietGathers
  <2>15. Gathers(o) => CandidateInv'
    BY <1>5, <2>1, CandidateNext
  <2>16. QED
    BY <2>9, <2>10, <2>11, <2>12, <2>13, <2>14, <2>15, DeliveryGathers, WorkGathers DEF LinkNext
<1>6. QED
  BY <1>4, <1>5, SessionStep

-----------------------------------------------------------------------------
(* PeerLink: theorems *)

\* The invariant holds in the initial states.
LEMMA LinkInvInit ==
  ASSUME LinkInit
  PROVE  LinkInv
<1>1. /\ owner = NoTab /\ posts = {} /\ late = FALSE
      /\ seen = [t \in Tabs |-> {}] /\ jobs = [t \in Tabs |-> {}] /\ pc = [t \in Tabs |-> NoPc]
      /\ offers = [t \in Tabs |-> 0] /\ answers = [t \in Tabs |-> 0] /\ media = [t \in Tabs |-> FALSE]
      /\ session = [t \in Tabs |-> IF t = Caller THEN "live" ELSE "none"]
      /\ open \subseteq CalleeTabs /\ drops = 0
  BY DEF LinkInit
<1>2. NoPc \in Contexts
  BY DEF NoPc, Contexts, NoDesc, Descs
<1>3. LinkTypeOK
  BY <1>1, <1>2 DEF LinkTypeOK
<1>4. SignalInv
  BY <1>1 DEF SignalInv
<1>5. RemoteInv
  BY <1>1 DEF RemoteInv, NoPc, NoDesc
<1>6. BeforeInv
  BY <1>1 DEF BeforeInv
<1>7. AbsentInv
  BY <1>1 DEF AbsentInv, IsOpen, NoPc, Tabs
<1>8. EndInv
  BY <1>1 DEF EndInv
<1>9. StageInv /\ CandidateInv
  BY <1>1 DEF StageInv, CandidateInv, InCall
<1>10. QED
  BY <1>3, <1>4, <1>5, <1>6, <1>7, <1>8, <1>9 DEF LinkInv

\* Every step keeps the invariant.
LEMMA LinkInvNext ==
  ASSUME LinkInv, [LinkNext]_linkVars
  PROVE  LinkInv'
<1>1. LinkTypeOK /\ SignalInv /\ RemoteInv /\ BeforeInv /\ AbsentInv /\ EndInv /\ StageInv
  BY DEF LinkInv
<1>2. LinkTypeOK' /\ SignalInv' /\ RemoteInv'
  BY <1>1, LinkTypeStep, SignalStep, RemoteInvStep
<1>3. BeforeInv' /\ AbsentInv' /\ EndInv'
  BY <1>1, BeforeStep, AbsentStep, PartingStep
<1>4. StageInv' /\ CandidateInv'
  BY <1>1, StageStep, CandidateStep
<1>5. QED
  BY <1>2, <1>3, <1>4 DEF LinkInv

\* The parts of the inductive invariant: values, signals, keys, tabs that are
\* outside, the end of the call, the point of the negotiation, its candidates.
THEOREM LinkInvariant == LinkSpec => []LinkInv
<1>1. LinkInit => LinkInv
  BY LinkInvInit
<1>2. LinkInv /\ [LinkNext]_linkVars => LinkInv'
  BY LinkInvNext
<1>3. QED
  BY <1>1, <1>2, PTL DEF LinkSpec

\* The variables keep their types.
THEOREM LinkTypeCorrect == LinkSpec => []LinkTypeOK
<1>1. LinkInv => LinkTypeOK
  BY DEF LinkInv
<1>2. QED
  BY <1>1, LinkInvariant, PTL

\* A negotiation can only come to rest at its two points at which nothing is
\* under way, and at both the connections have each other's descriptions.
THEOREM SettledNegotiationAgrees == LinkSpec => []NegotiationSettles
<1>1. ASSUME LinkInv, AtRest, InCall, Alone, ~Exhausted
      PROVE  Agreed(owner)
  <2>1. PICK p \in Points(owner) : Stands(owner, p)
    BY <1>1 DEF LinkInv, StageInv
  <2>2. Caller \in Tabs /\ owner \in Tabs /\ owner \in CalleeTabs
    BY <1>1 DEF LinkInv, LinkTypeOK, InCall, Tabs
  <2>3. p.sent = {} /\ p.calling = {} /\ p.answering = {}
    BY <1>1, <2>1, <2>2 DEF AtRest, Stands, Control, Tasks
  <2>4. p = Connected(owner) \/ p = Reconnected(owner)
    BY <2>1, <2>3 DEF Points, Point, Accepted, CallMedia, CallLocal, Offered, AnswerMedia, AnswerRemote, AnswerLocal,
       Answered, Connected, Reoffered, ReanswerMedia, ReanswerRemote, ReanswerLocal, Reanswered, Reconnected
  <2>5. \/ Link(Caller) = Joined(owner) /\ Link(owner) = Answers(owner)
        \/ Link(Caller) = Reanswers(owner) /\ Link(owner) = <<"stable", NextOffer(owner), NextAnswer(owner)>>
    BY <2>1, <2>4 DEF Stands, Connected, Reconnected, Point
  <2>6. QED
    BY <2>2, <2>5, PointDescs DEF Agreed, Link, Joined, Answers, Reanswers
<1>2. LinkInv => NegotiationSettles
  BY <1>1 DEF NegotiationSettles
<1>3. QED
  BY <1>2, LinkInvariant, PTL

\* When the first negotiation is over no candidate is under way, so the key of
\* each prefix is in the set of those seen, and one with that prefix was kept.
THEOREM EarlyCandidatesAreKept == LinkSpec => []CandidatesArrive
<1>1. ASSUME LinkInv, AtRest, InCall, Alone, offers[Caller] = 1, offers[owner] = 0, NEW t \in {Caller, owner}
      PROVE  {PrefixOf[s.cand] : s \in pc[t].applied} = {PrefixOf[c] : c \in Candidates}
  <2>1. ~Exhausted
    BY <1>1 DEF Exhausted
  <2>2. PICK p \in Points(owner) : Stands(owner, p)
    BY <1>1, <2>1 DEF LinkInv, StageInv
  <2>3. Caller \in Tabs /\ owner \in Tabs /\ owner \in CalleeTabs
    BY <1>1 DEF LinkInv, LinkTypeOK, InCall, Tabs
  <2>4. p.sent = {} /\ p.calling = {} /\ p.answering = {} /\ p.made < 3
    <3>1. p.made \in 0 .. 4
      BY <2>2, PointStates
    <3>2. QED
      BY <1>1, <2>2, <2>3, <3>1 DEF AtRest, Stands, Control, Tasks, Made
  <2>5. p = Connected(owner)
    BY <2>2, <2>4 DEF Points, Point, Accepted, CallMedia, CallLocal, Offered, AnswerMedia, AnswerRemote, AnswerLocal,
       Answered, Connected, Reoffered, ReanswerMedia, ReanswerRemote, ReanswerLocal, Reanswered, Reconnected
  <2>6. /\ pc[Caller].remote = FirstAnswer(owner) /\ pc[owner].remote = FirstOffer
        /\ answers[owner] = 1
    BY <2>2, <2>5 DEF Stands, Connected, Point, Link, Joined, Answers, Made
  <2>7. pc[Caller].hasRemote /\ pc[owner].hasRemote
    BY <1>1, <2>3, <2>6, PointDescs DEF LinkInv, RemoteInv
  <2>8. Follows(owner, FirstOffer, TRUE) /\ Follows(Caller, FirstAnswer(owner), TRUE)
    <3>1. Follows(owner, FirstOffer, offers[Caller] = 1) /\ Follows(Caller, FirstAnswer(owner), answers[owner] = 1)
      BY <1>1, <2>1 DEF LinkInv, CandidateInv
    <3>2. QED
      BY <1>1, <2>6, <3>1 DEF Follows
  <2>9. PICK desc : Follows(t, desc, TRUE) /\ pc[t].hasRemote
    BY <2>7, <2>8
  <2>10. posts = {}
    BY <1>1 DEF AtRest
  <2>11. \A c \in Candidates : \E s \in pc[t].applied : PrefixOf[s.cand] = PrefixOf[c]
    BY <2>9, <2>10, PrefixAssumption DEF Follows, Kept
  <2>12. \A s \in pc[t].applied : s.cand \in Candidates
    BY <2>9 DEF Follows, Gathered, Signal
  <2>13. QED
    BY <2>11, <2>12
<1>2. LinkInv => CandidatesArrive
  BY <1>1 DEF CandidatesArrive
<1>3. QED
  BY <1>2, LinkInvariant, PTL

\* Once everything has been delivered, whoever has left the call has closed the
\* connection and released the camera, unless an offer was on its way then.
THEOREM MediaIsReleased == LinkSpec => []NoMediaAfterEnd
<1>1. LinkInv => NoMediaAfterEnd
  BY DEF LinkInv, EndInv, NoMediaAfterEnd
<1>2. QED
  BY <1>1, LinkInvariant, PTL

\* A tab that has an answer remembers its key, so a second one is dropped.
THEOREM FirstAnswerStays == LinkSpec => OneAnswer
<1>1. ASSUME LinkInv, [LinkNext]_linkVars, NEW t \in Tabs,
             pc[t].remote.kind = "answer", pc'[t].remote.kind = "answer"
      PROVE  pc'[t].remote = pc[t].remote
  <2>1. RemoteMoves(t)
    BY <1>1, RemoteMovesStep DEF LinkInv
  <2>2. KeyTo(t, "answer") \in seen[t]
    BY <1>1 DEF LinkInv, RemoteInv
  <2>3. NoDesc.kind = "none"
    BY DEF NoDesc
  <2>4. QED
    BY <1>1, <2>1, <2>2, <2>3 DEF RemoteMoves
<1>2. LinkInv /\ [LinkNext]_linkVars =>
        [\A t \in Tabs : pc[t].remote.kind = "answer" /\ pc'[t].id = pc[t].id
                            /\ pc'[t].remote.kind = "answer" => pc'[t].remote = pc[t].remote]_linkVars
  BY <1>1
<1>3. QED
  BY <1>2, LinkInvariant, PTL DEF LinkSpec, OneAnswer


=============================================================================
