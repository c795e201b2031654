------------------------------ MODULE Approval ------------------------------
(***************************************************************************)
(* What the fail-closed approval of an `ask` decision promises its caller, *)
(* whatever carries it (a terminal prompt, the daemon's queue, a socket    *)
(* client).  A request is asked once and answered once.  The answer is     *)
(* Approved only if a human had chosen to approve THAT action before it    *)
(* was answered; Denied needs no reason: silence, a timeout or an error is *)
(* a denial.  And an asked request does not stay unanswered for ever.      *)
(***************************************************************************)
CONSTANT Requests

VARIABLES
    verdict,   \* verdict[r]: "unasked", "waiting", "approved" or "denied"
    approvals  \* the requests a human has chosen to approve

vars == <<verdict, approvals>>

\* `guardian_core::ApprovalResponse`.
ApprovalResponse == {"approved", "denied"}

Init ==
    /\ verdict = [r \in Requests |-> "unasked"]
    /\ approvals = {}

\* The caller suspends on the approver.
Ask(r) ==
    /\ verdict[r] = "unasked"
    /\ verdict' = [verdict EXCEPT ![r] = "waiting"]
    /\ UNCHANGED approvals

\* A human decides to approve the action in front of them.
Choose(r) ==
    /\ verdict[r] # "unasked"
    /\ approvals' = approvals \cup {r}
    /\ UNCHANGED verdict

Answer(r, v) ==
    /\ verdict[r] = "waiting"
    /\ v = "approved" => r \in approvals
    /\ verdict' = [verdict EXCEPT ![r] = v]
    /\ UNCHANGED approvals

Next ==
    \E r \in Requests :
        \/ Ask(r)
        \/ Choose(r)
        \/ \E v \in ApprovalResponse : Answer(r, v)

\* The safety half of the promise.
Safety == Init /\ [][Next]_vars

\* The liveness half: a waiting caller is answered.
Answered ==
    \A r \in Requests : verdict[r] = "waiting" ~> verdict[r] \in ApprovalResponse

Spec == Safety /\ Answered
=============================================================================
