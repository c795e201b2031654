------------------------------ MODULE Gateway ------------------------------
(***************************************************************************)
(* The mediation of tool calls: `Gateway::handle`                          *)
(* (crates/guardian-mcp-gateway/src/lib.rs) as the daemon runs it, many    *)
(* calls at a time, for front-ends that reach it over the control socket   *)
(* (crates/guardian-daemon/src/lib.rs).                                    *)
(*                                                                         *)
(* A call is checked against the kill switch and self-protection, decided  *)
(* by the policy, put to a human if the decision is `ask`, recorded in the *)
(* audit log, and only then handed to the upstream tool.  Meanwhile the    *)
(* STOP file comes and goes, the audit log may refuse a write, and the     *)
(* process may die between any two steps; the log, the STOP file and what  *)
(* the tools did survive it.                                               *)
(*                                                                         *)
(* The approver is the abstract Approval, which ApprovalQueue implements;  *)
(* the policy is any one that respects the critical floor, which           *)
(* PolicyEngine's does.  What is forwarded and returned (tokenization) is  *)
(* the subject of SessionVaults.                                           *)
(***************************************************************************)
EXTENDS Actions

CONSTANTS
    Calls,     \* tool calls, each submitted once
    Critical,  \* those whose capability is a critical category
    OwnFile    \* writes and deletes of Guardian's own files

ASSUME CallsAssumption == Critical \subseteq Calls /\ OwnFile \subseteq Calls

VARIABLES
    up,         \* the daemon process is running
    killSwitch, \* the STOP file exists
    pc,         \* where each call is
    decision,   \* the policy's decision ("none" until it is evaluated)
    verdict,    \* Approval: the state of each call's approval request
    approvals,  \* Approval: the calls a human chose to approve
    audit,      \* the durable audit rows [call, decision, response]
    executed,   \* the calls handed to the upstream
    outcome,    \* what `handle` returned
    reply,      \* what the front-end was told
    under       \* history: STOP has existed ever since the call arrived

vars == <<up, killSwitch, pc, decision, verdict, approvals, audit, executed,
          outcome, reply, under>>

Approver == INSTANCE Approval WITH Requests <- Calls

GatewayOutcome == {"allowed", "upstream_error", "blocked"}
Row == [call : Calls, decision : Decision, response : {"none", "approved", "denied"}]

\* The points at which `handle` can be overtaken, in the order of the code, and
\* "lost": the process died under the call.
PCs == {"new", "check", "asking", "record", "egress", "forwarding", "done", "lost"}

TypeOK ==
    /\ up \in BOOLEAN
    /\ killSwitch \in BOOLEAN
    /\ pc \in [Calls -> PCs]
    /\ decision \in [Calls -> Decision \cup {"none"}]
    /\ verdict \in [Calls -> {"unasked", "waiting", "approved", "denied"}]
    /\ approvals \in SUBSET Calls
    /\ audit \in SUBSET Row
    /\ executed \in SUBSET Calls
    /\ outcome \in [Calls -> GatewayOutcome \cup {"none"}]
    /\ reply \in [Calls -> GatewayOutcome \cup {"none"}]
    /\ under \in [Calls -> BOOLEAN]

Init ==
    /\ up = TRUE
    /\ killSwitch \in BOOLEAN
    /\ pc = [c \in Calls |-> "new"]
    /\ decision = [c \in Calls |-> "none"]
    /\ Approver!Init
    /\ audit = {}
    /\ executed = {}
    /\ outcome = [c \in Calls |-> "none"]
    /\ reply = [c \in Calls |-> "none"]
    /\ under = [c \in Calls |-> FALSE]
-----------------------------------------------------------------------------
(* `handle`, one action per await-free stretch. *)

Goto(c, from, to) ==
    /\ up
    /\ pc[c] = from
    /\ pc' = [pc EXCEPT ![c] = to]

\* `handle` returns o.
Return(c, from, o) ==
    /\ Goto(c, from, "done")
    /\ outcome' = [outcome EXCEPT ![c] = o]

\* `record`: the append commits the row, or fails and leaves the log as it was.
Recorded(c, d, response) ==
    audit' = audit \cup {[call |-> c, decision |-> d, response |-> response]}
NotRecorded == UNCHANGED audit

\* A request line reaches `dispatch`.
Submit(c) ==
    /\ Goto(c, "new", "check")
    /\ under' = [under EXCEPT ![c] = killSwitch]
    /\ UNCHANGED <<up, killSwitch, decision, verdict, approvals, audit, executed, outcome, reply>>

\* Faults (definitions named Bad...) that the properties below must detect; no
\* specification uses them.  Here: the STOP file is not looked at.
BadOverrideIgnoresStop(c) == c \in OwnFile

\* `SelfProtection::override_deny`.
OverrideDeny(c) == killSwitch \/ c \in OwnFile

\* A hard deny, recorded best-effort and returned before the policy is asked.
HardDeny(c) ==
    /\ OverrideDeny(c)
    /\ Return(c, "check", "blocked")
    /\ Recorded(c, "deny", "none") \/ NotRecorded
    /\ UNCHANGED <<up, killSwitch, decision, verdict, approvals, executed, reply, under>>

\* Fault: a policy without the critical floor.
BadNoCriticalFloor(c) == Decision

\* What `CompiledPolicy::evaluate` may return: any decision, but never a silent
\* allow for a critical capability.
EvaluatesTo(c) == {o[1] : o \in Outcomes(c \in Critical)}

\* Allow and deny go straight to the log, without checker or human.
Decide(c, d) ==
    /\ ~OverrideDeny(c)
    /\ d \in EvaluatesTo(c) \ {"ask"}
    /\ Goto(c, "check", "record")
    /\ decision' = [decision EXCEPT ![c] = d]
    /\ UNCHANGED <<up, killSwitch, verdict, approvals, audit, executed, outcome, reply, under>>

\* Ask: the (advisory) explanation, then the call suspends on the approver.
DecideAsk(c) ==
    /\ ~OverrideDeny(c)
    /\ Goto(c, "check", "asking")
    /\ decision' = [decision EXCEPT ![c] = "ask"]
    /\ Approver!Ask(c)
    /\ UNCHANGED <<up, killSwitch, audit, executed, outcome, reply, under>>

\* A human decides to approve what the cockpit shows them.
HumanApproves(c) ==
    /\ pc[c] = "asking"
    /\ Approver!Choose(c)
    /\ UNCHANGED <<up, killSwitch, pc, decision, audit, executed, outcome, reply, under>>

\* `request_approval` returns.
Resume(c, v) ==
    /\ Goto(c, "asking", "record")
    /\ Approver!Answer(c, v)
    /\ UNCHANGED <<up, killSwitch, decision, audit, executed, outcome, reply, under>>

\* Fault: whatever the human says, an `ask` proceeds.
BadProceedUnlessDeny(c) == decision[c] # "deny"

Proceed(c) ==
    \/ decision[c] = "allow"
    \/ decision[c] = "ask" /\ verdict[c] = "approved"

\* The `user_response` column.
Response(c) == IF decision[c] = "ask" THEN verdict[c] ELSE "none"

\* Fault: the tool is called while its row is being written.
BadRecordWhileForwarding(c) ==
    /\ Proceed(c)
    /\ Goto(c, "record", "forwarding")
    /\ Recorded(c, decision[c], Response(c))
    /\ executed' = executed \cup {c}
    /\ UNCHANGED <<up, killSwitch, decision, verdict, approvals, outcome, reply, under>>

\* `record`, then fail closed: an action that could not be recorded is not forwarded.
RecordProceed(c) ==
    /\ Proceed(c)
    /\ Goto(c, "record", "egress")
    /\ Recorded(c, decision[c], Response(c))
    /\ UNCHANGED <<up, killSwitch, decision, verdict, approvals, executed, outcome, reply, under>>

\* Fault: an append error is ignored (fail open).
BadRecordFailedForwards(c) ==
    /\ Proceed(c)
    /\ Goto(c, "record", "egress")
    /\ NotRecorded
    /\ UNCHANGED <<up, killSwitch, decision, verdict, approvals, executed, outcome, reply, under>>

RecordFailed(c) ==
    /\ Proceed(c)
    /\ Return(c, "record", "blocked")
    /\ NotRecorded
    /\ UNCHANGED <<up, killSwitch, decision, verdict, approvals, executed, reply, under>>

\* Denied by the policy or by the human: blocked whether or not the row was written.
RecordDenied(c) ==
    /\ ~Proceed(c)
    /\ Return(c, "record", "blocked")
    /\ Recorded(c, decision[c], Response(c)) \/ NotRecorded
    /\ UNCHANGED <<up, killSwitch, decision, verdict, approvals, executed, reply, under>>

\* `upstream.forward(..)`: from here the tool may act.
Forward(c) ==
    /\ Goto(c, "egress", "forwarding")
    /\ executed' = executed \cup {c}
    /\ UNCHANGED <<up, killSwitch, decision, verdict, approvals, audit, outcome, reply, under>>

\* Fault: an upstream error is reported as if the call had been blocked.
BadUpstreamErrorIsBlocked(c, o) ==
    /\ o \in {"allowed", "blocked"}
    /\ Return(c, "forwarding", o)
    /\ UNCHANGED <<up, killSwitch, decision, verdict, approvals, audit, executed, reply, under>>

\* The upstream answers, if it ever does: there is no timeout on it.
UpstreamReturns(c, o) ==
    /\ o \in {"allowed", "upstream_error"}
    /\ Return(c, "forwarding", o)
    /\ UNCHANGED <<up, killSwitch, decision, verdict, approvals, audit, executed, reply, under>>
-----------------------------------------------------------------------------
(* The front-end's side of the socket: `DaemonRouter::route`. *)

Told(c, o) ==
    /\ reply[c] = "none"
    /\ reply' = [reply EXCEPT ![c] = o]
    /\ UNCHANGED <<up, killSwitch, decision, verdict, approvals, audit, executed, outcome, under>>

Deliver(c) ==
    /\ up
    /\ pc[c] = "done"
    /\ Told(c, outcome[c])
    /\ UNCHANGED pc

\* Fault: an ended connection is not noticed.
BadUnreachableOnlyAtConnect(c) ==
    /\ pc[c] = "new" /\ ~up
    /\ Told(c, "blocked")
    /\ pc' = [pc EXCEPT ![c] = "lost"]

\* No daemon to connect to, or the connection ends without a response line.
Unreachable(c) ==
    /\ pc[c] = "lost" \/ (pc[c] = "new" /\ ~up)
    /\ Told(c, "blocked")
    /\ pc' = [pc EXCEPT ![c] = "lost"]
-----------------------------------------------------------------------------
(* The kill switch and the process. *)

\* `Request::KillSwitch`: the STOP file is written or removed.  A write that fails
\* changes nothing.
Engage ==
    /\ ~killSwitch
    /\ killSwitch' = TRUE
    /\ UNCHANGED <<up, pc, decision, verdict, approvals, audit, executed, outcome, reply, under>>

Disengage ==
    /\ killSwitch
    /\ killSwitch' = FALSE
    /\ under' = [c \in Calls |-> FALSE]
    /\ UNCHANGED <<up, pc, decision, verdict, approvals, audit, executed, outcome, reply>>

\* The process dies: every call whose answer was not delivered is lost.
Crash ==
    /\ up
    /\ up' = FALSE
    /\ pc' = [c \in Calls |-> IF pc[c] # "new" /\ reply[c] = "none" THEN "lost" ELSE pc[c]]
    /\ UNCHANGED <<killSwitch, decision, verdict, approvals, audit, executed, outcome, reply, under>>

\* `main` runs again: same log, same STOP file, empty queue.
Restart ==
    /\ ~up
    /\ up' = TRUE
    /\ UNCHANGED <<killSwitch, pc, decision, verdict, approvals, audit, executed, outcome, reply, under>>
-----------------------------------------------------------------------------
\* What the runtime drives a call through without waiting for anyone outside.
Handle(c) ==
    \/ HardDeny(c)
    \/ \E d \in Decision : Decide(c, d)
    \/ DecideAsk(c)
    \/ \E v \in Approver!ApprovalResponse : Resume(c, v)
    \/ RecordProceed(c)
    \/ RecordFailed(c)
    \/ RecordDenied(c)
    \/ Forward(c)

FrontEnd(c) == Deliver(c) \/ Unreachable(c)

Next ==
    \/ \E c \in Calls :
           \/ Submit(c)
           \/ Handle(c)
           \/ HumanApproves(c)
           \/ \E o \in GatewayOutcome : UpstreamReturns(c, o)
           \/ FrontEnd(c)
    \/ Engage
    \/ Disengage
    \/ Crash
    \/ Restart

Spec == Init /\ [][Next]_vars

\* The runtime runs what can run, and the approver answers (ApprovalQueue's
\* EveryRequestReturns).  Nothing is assumed of the human, the upstream, the STOP
\* file or the process's survival.
Fairness == \A c \in Calls : WF_vars(Handle(c)) /\ WF_vars(FrontEnd(c))

FairSpec == Spec /\ Fairness
-----------------------------------------------------------------------------
(* What mediation promises. *)

\* A row that lets its call through.
LetsThrough(row) ==
    row.decision = "allow" \/ (row.decision = "ask" /\ row.response = "approved")

\* Nothing is executed unlogged: for every call a tool was handed, the durable log
\* holds the row that let it through, an `allow` or an `ask` the human approved, even
\* if the process died right after forwarding or a write failed.
ExecutedIsRecorded ==
    \A c \in executed : \E row \in audit : row.call = c /\ LetsThrough(row)

\* A critical call runs only if a human chose to approve that very call.
CriticalNeedsHuman == executed \cap Critical \subseteq approvals

\* The log does not contradict what happened: a call the log says was denied, by
\* policy, override or human, was never handed to a tool.
DenialStands ==
    \A row \in audit :
        (row.decision = "deny" \/ row.response = "denied") => row.call \notin executed

\* A call that arrived under an engaged kill switch does not run while the switch
\* stays engaged; nor, ever, does one that modifies Guardian's own files.
OverridesHold == \A c \in executed : ~under[c] /\ c \notin OwnFile

\* What the front-end is told: an executed call is never reported blocked by
\* `handle`, and a call reported allowed did run.
OutcomeIsTruthful ==
    \A c \in Calls :
        /\ outcome[c] = "blocked" => c \notin executed
        /\ reply[c] \in {"allowed", "upstream_error"} => c \in executed

\* What the abstract mediation sees of the gateway: the rows without the human's answer,
\* and the calls `handle` blocked.  A critical call is critical from the start.
Logged == {[request |-> row.call, decision |-> row.decision] : row \in audit}
Blocked == {c \in Calls : outcome[c] = "blocked"}
Mediator == INSTANCE Mediation WITH
    Requests <- Calls, grave <- Critical, rows <- Logged, acted <- executed, refused <- Blocked

\* The gateway is a mediator: whatever crashes, fails or is switched, a call is handed to
\* its tool once, after its one row, as the row and its human permit, and never after
\* `handle` blocked it.
ImplementsMediation == Mediator!Spec

\* Guardian itself never hangs a call: once submitted it is answered, unless it is
\* at the upstream, which has no timeout.
CallsDoNotHang ==
    \A c \in Calls :
        pc[c] = "check" ~> (reply[c] # "none" \/ pc[c] = "forwarding")

(* The inductive strengthening the proofs rest on. *)

\* Before `upstream.forward` nothing ran; past the check, no override applied.
NotYet == {"new", "check", "asking", "record", "egress"}
ProgressAgrees ==
    \A c \in Calls :
        /\ pc[c] \in NotYet => c \notin executed /\ outcome[c] = "none"
        /\ pc[c] = "forwarding" => c \in executed /\ outcome[c] = "none"
        /\ pc[c] = "done" => outcome[c] # "none"
        /\ pc[c] \in {"asking", "record", "egress"} => c \notin OwnFile /\ ~under[c]
        /\ under[c] => killSwitch

\* The decision and the human's verdict the call is moving on.
DecisionsAgree ==
    \A c \in Calls :
        /\ pc[c] = "asking" => decision[c] = "ask"
        /\ pc[c] = "record" => decision[c] # "none"
        /\ pc[c] = "record" /\ decision[c] = "ask" => verdict[c] \in {"approved", "denied"}
        /\ decision[c] = "allow" => c \notin Critical
        /\ verdict[c] = "approved" => c \in approvals
        /\ pc[c] = "egress" \/ c \in executed => Proceed(c)

\* Rows are written last: a row that lets a call through precedes its forwarding, a
\* row that stops it ends it.
RowsAgree ==
    /\ \A c \in Calls : pc[c] = "egress" \/ c \in executed =>
           \E row \in audit : row.call = c /\ LetsThrough(row)
    /\ \A row \in audit :
           /\ pc[row.call] \notin {"new", "check", "asking", "record"}
           /\ (row.decision = "deny" \/ row.response = "denied") =>
                  pc[row.call] \in {"done", "lost"} /\ row.call \notin executed

\* An answer other than blocked comes from an upstream that was called.
AnswersAgree ==
    \A c \in Calls : outcome[c] \in {"allowed", "upstream_error"} => c \in executed

\* A row that says `approved` is of a call a human chose to approve.
ConsentAgrees == \A row \in audit : row.response = "approved" => row.call \in approvals

IInv ==
    /\ TypeOK
    /\ ProgressAgrees
    /\ DecisionsAgree
    /\ RowsAgree
    /\ OverridesHold
    /\ OutcomeIsTruthful
    /\ AnswersAgree

\* The documented kill switch (lib.rs:111): "while the sentinel file exists, every
\* action is denied": no call is handed to a tool while STOP exists.
KillSwitchDeniesEverything ==
    [][\A c \in Calls : c \in executed' \ executed => ~killSwitch]_vars
=============================================================================
