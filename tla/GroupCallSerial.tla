-------------------------- MODULE GroupCallSerial --------------------------
(***************************************************************************)
(* Group calls with a history variable that tells the behaviours in which  *)
(* requests are served one at a time: a host and an empty end of the call  *)
(* (HostPresent and EndedMeansEmpty of GroupCall) are promised of those    *)
(* only.  The variable observes the handlers and restricts nothing but the *)
(* number of requests of the other behaviours, which is a bound.           *)
(***************************************************************************)
EXTENDS GroupCall

CONSTANT MaxParallel   \* bound: requests in a behaviour that has two in flight

ASSUME ParallelAssumption == MaxParallel \in Nat

VARIABLE overlapped    \* two requests have been in flight together

historyVars == <<vars, overlapped>>

HistoryInit == Init /\ overlapped = FALSE
HistoryNext ==
    /\ Next
    /\ overlapped' = (overlapped \/ Cardinality({s \in Slots : Busy(s)'}) > 1)
    /\ overlapped' => requests' <= MaxParallel
HistorySpec == HistoryInit /\ [][HistoryNext]_historyVars

-----------------------------------------------------------------------------
(* Properties *)

\* While requests are served one at a time, an active call has a host among its
\* participants, through every transfer, re-join and duplicate row, and nobody is
\* in a call that has ended.
SerialCall == ~overlapped => HostPresent /\ EndedMeansEmpty

-----------------------------------------------------------------------------
(* The inductive strengthening of the property that is proved *)

Hosted == \E r \in JoinedRows : part[r].role = "host"

\* What a request finds, and what it must leave behind.
Settled ==
    /\ call = "active" => Hosted
    /\ call = "ended" => JoinedRows = {}

\* What holds in the middle of the only request in flight.  A host that has
\* left leaves the call without one until it is handed over or closed; an /end
\* has ended the call before it clears the participants.
Underway(s) ==
    \/ At(s, "create", "host") /\ call = "active"
    \/ handler[s].op \in {"invite", "join"} /\ call = "active" /\ Hosted
    \/ /\ At(s, "leave", "left") /\ Settled
       /\ handler[s].host = (part[handler[s].row].role = "host")
    \/ /\ At(s, "leave", "remaining")
       /\ call = "active" => Hosted \/ handler[s].host \/ JoinedRows = {}
       /\ call = "ended" => JoinedRows = {}
    \/ At(s, "leave", "close") /\ JoinedRows = {}
    \/ At(s, "leave", "transfer") /\ call = "active" /\ handler[s].row \in JoinedRows
    \/ At(s, "end", "close") /\ Settled
    \/ At(s, "end", "clear") /\ IF handler[s].byId THEN call = "ended" ELSE Settled

OneAtATime == \A s, t \in Slots : Busy(s) /\ Busy(t) => s = t

SerialInv ==
    ~overlapped =>
        /\ OneAtATime
        /\ webhooks = 0 /\ failures = 0 =>
              /\ Quiescent => Settled
              /\ \A s \in Slots : Busy(s) => Underway(s)
=============================================================================
