----------------------------- MODULE CallDisplay -----------------------------
(***************************************************************************)
(* What a tab promises about the call state it displays                    *)
(* (src/context/CallContext.tsx): the state moves along the table of valid *)
(* transitions and nowhere else, with one exception: when a call ends and  *)
(* a held one is left, the tab falls back to "held" from wherever it is.   *)
(***************************************************************************)

VARIABLES
    state,    \* the state on display
    holding   \* a call on display is held

CallState == {"idle", "initiating", "ringing_outgoing", "ringing_incoming",
              "connecting", "active", "held", "reconnecting", "ended", "failed"}

ValidTransitions ==
    [idle             |-> {"initiating", "ringing_incoming", "connecting", "active"},
     initiating       |-> {"ringing_outgoing", "connecting", "ended", "failed"},
     ringing_outgoing |-> {"connecting", "ended", "failed"},
     ringing_incoming |-> {"connecting", "ended", "failed"},
     connecting       |-> {"active", "reconnecting", "ended", "failed"},
     active           |-> {"reconnecting", "held", "ended", "failed"},
     held             |-> {"active", "ended", "failed"},
     reconnecting     |-> {"active", "failed", "ended"},
     ended            |-> {"idle"},
     failed           |-> {"idle"}]

Init == state = "idle" /\ ~holding

Move == state' \in ValidTransitions[state] /\ holding' \in BOOLEAN
FallBack == holding /\ state' = "held" /\ holding' \in BOOLEAN
Count == state' = state /\ holding' \in BOOLEAN

Next == Move \/ FallBack \/ Count
Spec == Init /\ [][Next]_<<state, holding>>
=============================================================================
