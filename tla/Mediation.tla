----------------------------- MODULE Mediation -----------------------------
(***************************************************************************)
(* What a mediator promises of the requests that pass through it, whatever *)
(* it mediates: tool calls (Gateway) or HTTP requests (Proxy).  A request  *)
(* is acted on once, after a durable row about it, if that row allows it   *)
(* or says `ask` and a human approved it.  There is one row per request,   *)
(* none is written after the act, a critical request has no row that       *)
(* allows it, and a refusal is final.  Nothing is said of when a mediator  *)
(* refuses: it may always.                                                 *)
(***************************************************************************)
EXTENDS Actions

CONSTANT Requests

VARIABLES
    grave,      \* the requests known to be in a critical category
    rows,       \* the durable rows [request, decision]
    approvals,  \* the requests a human has chosen to approve
    acted,      \* the requests that were carried out
    refused     \* those the requester was refused

vars == <<grave, rows, approvals, acted, refused>>

Init ==
    /\ grave \in SUBSET Requests
    /\ rows = {}
    /\ approvals = {}
    /\ acted = {}
    /\ refused = {}

Unrecorded(r) == \A row \in rows : row.request # r

\* The request is found to be critical, before anything is decided of it.
Classify(r) ==
    /\ Unrecorded(r)
    /\ grave' = grave \cup {r}
    /\ UNCHANGED <<rows, approvals, acted, refused>>

Write(r, d) ==
    /\ Unrecorded(r)
    /\ d = "allow" => r \notin grave
    /\ rows' = rows \cup {[request |-> r, decision |-> d]}

Record(r, d) ==
    /\ r \notin acted
    /\ Write(r, d)
    /\ UNCHANGED <<grave, approvals, acted, refused>>

Approve(r) ==
    /\ approvals' = approvals \cup {r}
    /\ UNCHANGED <<grave, rows, acted, refused>>

Permits(row) ==
    row.decision = "allow" \/ (row.decision = "ask" /\ row.request \in approvals)

Act(r) ==
    /\ r \notin acted \cup refused
    /\ \E row \in rows : row.request = r /\ Permits(row)
    /\ acted' = acted \cup {r}
    /\ UNCHANGED <<grave, rows, approvals, refused>>

\* With a row that says so, or without one.
Refuse(r) ==
    /\ r \notin acted
    /\ refused' = refused \cup {r}
    /\ Write(r, "ask") \/ Write(r, "deny") \/ UNCHANGED rows
    /\ UNCHANGED <<grave, approvals, acted>>

Next ==
    \E r \in Requests :
        \/ Classify(r)
        \/ \E d \in Decision : Record(r, d)
        \/ Approve(r)
        \/ Act(r)
        \/ Refuse(r)

Spec == Init /\ [][Next]_vars
=============================================================================
