------------------------------- MODULE Proxy -------------------------------
(***************************************************************************)
(* The egress proxy (crates/guardian-proxy/src): requests of the agent, in *)
(* flight at the same time, are inspected, decided, recorded, put to a     *)
(* human if the decision is `ask`, checked against the caveats of the      *)
(* brokered credential (crates/guardian-broker/src) and forwarded.         *)
(*                                                                         *)
(* hudsucker is external: it hands the handler every CONNECT and every     *)
(* decrypted request.  The approver is the abstract Approval, an error of  *)
(* the daemon's socket being a denial; the policy is any one that respects *)
(* the critical floor, which PolicyEngine's does.  A held secret is one    *)
(* that is long enough for `body_leaks_secret`.                            *)
(***************************************************************************)
EXTENDS Actions

CONSTANTS
    Requests,  \* requests to the proxy, each of which arrives once
    Shapes,    \* what a request may look like: [connect, host, form, port, framing, secret]
    Hosts,     \* host names, lower case
    Trusted,   \* the trusted_hosts of the environment
    Brokered,  \* the targets the broker holds a secret for
    Caveats,   \* a function from the targets with caveats to records
    MaxTime    \* bound: how far the clock goes

\* "default" is port 80 or 443.
Ports == {"none", "default", "other"}
\* How the body is sent: with a length up to the cap, without a length or above the cap,
\* not as text, or so that reading it fails.
Framings == {"text", "unbounded", "binary", "broken"}
\* A host as the policy and the broker know it.
Key == [name : Hosts, port : {"none", "other"}]
Shape == [connect : BOOLEAN, host : Hosts, form : {"absolute", "origin"}, port : Ports,
          framing : Framings, secret : BOOLEAN]
\* `None` is the empty set.  The amount is left out: no request of the proxy has one.
Caveat == [not_after_ms : SUBSET Nat, allowed_hosts : SUBSET Key, require_fresh : BOOLEAN]

\* A CONNECT names its host in the URI and has no payload.
ASSUME ShapesAssumption ==
    /\ Shapes \subseteq Shape
    /\ \A shape \in Shapes : shape.connect => shape.form = "absolute" /\ ~shape.secret
ASSUME BrokerAssumption ==
    /\ Trusted \subseteq Key
    /\ Brokered \subseteq Key
    /\ Caveats \in [DOMAIN Caveats -> Caveat]
ASSUME TimeAssumption == MaxTime \in Nat

VARIABLES
    now,        \* the clock
    cockpit,    \* an approver is wired (--daemon)
    pc,         \* where each request is
    req,        \* what it looks like; no handler reads it before it arrives
    signals,    \* RequestSignals: [inspected, leaks]
    stamp,      \* the action's timestamp_ms
    decision,   \* the outcome's decision
    critical,   \* the outcome's critical flag
    verdict,    \* Approval: the state of each request's approval
    approvals,  \* Approval: the requests a human chose to approve
    audit,      \* the durable rows [request, decision]
    forwarded,  \* the requests that went out,
    exposed,    \* those of them whose body held a secret,
    attached    \* and those with the broker's Authorization

approvalVars == <<verdict, approvals>>
egress == <<forwarded, exposed, attached>>
vars == <<now, cockpit, pc, req, signals, stamp, decision, critical, verdict, approvals,
          audit, forwarded, exposed, attached>>

Approver == INSTANCE Approval

Row == [request : Requests, decision : Decision]
PCs == {"new", "inspect", "prepare", "record", "asking", "respond", "done"}
NoSignals == [inspected |-> FALSE, leaks |-> FALSE]

Init ==
    /\ now = 0
    /\ cockpit \in BOOLEAN
    /\ pc = [r \in Requests |-> "new"]
    /\ req \in [Requests -> Shapes]
    /\ signals = [r \in Requests |-> NoSignals]
    /\ stamp = [r \in Requests |-> 0]
    /\ decision = [r \in Requests |-> "none"]
    /\ critical = [r \in Requests |-> FALSE]
    /\ Approver!Init
    /\ audit = {}
    /\ forwarded = {}
    /\ exposed = {}
    /\ attached = {}

Goto(r, from, to) ==
    /\ pc[r] = from
    /\ pc' = [pc EXCEPT ![r] = to]
-----------------------------------------------------------------------------
(* `handle_request`: `inspect`. *)

Arrive(r) ==
    /\ Goto(r, "new", "inspect")
    /\ UNCHANGED <<now, cockpit, req, signals, stamp, decision, critical, approvalVars, audit,
                   egress>>

\* The body is buffered and scanned, unless it is a CONNECT, has no length or is above
\* the cap; what is not UTF-8 is not scanned; a body that cannot be read is dropped.
Bufferable(shape) == ~shape.connect /\ shape.framing # "unbounded"

\* `body_leaks_secret`: the text holds a secret the broker has, long enough to tell.
BodyLeaksSecret(shape) == shape.framing = "text" /\ shape.secret

Signals(shape) ==
    [inspected |-> Bufferable(shape) /\ shape.framing # "broken",
     leaks |-> Bufferable(shape) /\ BodyLeaksSecret(shape)]

Inspect(r) ==
    /\ Goto(r, "inspect", "prepare")
    /\ signals' = [signals EXCEPT ![r] = Signals(req[r])]
    /\ req' = IF Bufferable(req[r]) /\ req[r].framing = "broken"
              THEN [req EXCEPT ![r] = [@ EXCEPT !.secret = FALSE]] ELSE req
    /\ UNCHANGED <<now, cockpit, stamp, decision, critical, approvalVars, audit, egress>>
-----------------------------------------------------------------------------
(* `prepare`: the action and its evaluation. *)

\* `summarize`: the host of the URI, without its port, or the Host header; and
\* `normalize_host`, which strips a default port.
HostKey(shape) ==
    [name |-> shape.host,
     port |-> IF shape.form = "origin" /\ shape.port = "other" THEN "other" ELSE "none"]

\* Fault: a trusted host is found by its name alone.
BadExfiltration(r) ==
    /\ signals[r].leaks
    /\ \A t \in Trusted : t.name # req[r].host

\* `tag_exfiltration`.
Exfiltration(r) == signals[r].leaks /\ HostKey(req[r]) \notin Trusted

\* What `evaluate` may return: any decision and flag, but the floor makes the tagged
\* action critical and never allows it.
EvaluatesTo(r) == Outcomes(Exfiltration(r))

Prepare(r, outcome) ==
    /\ Goto(r, "prepare", "record")
    /\ outcome \in EvaluatesTo(r)
    /\ stamp' = [stamp EXCEPT ![r] = now]
    /\ decision' = [decision EXCEPT ![r] = outcome[1]]
    /\ critical' = [critical EXCEPT ![r] = outcome[2]]
    /\ UNCHANGED <<now, cockpit, req, signals, approvalVars, audit, egress>>
-----------------------------------------------------------------------------
(* `record_or_fail` and `resolve_and_respond`. *)

Recorded(r) == audit' = audit \cup {[request |-> r, decision |-> decision[r]]}

\* Fault: the request goes on although it could not be recorded.
BadRecordFails(r) ==
    /\ Goto(r, "record", "respond")
    /\ UNCHANGED <<now, cockpit, req, signals, stamp, decision, critical, approvalVars, audit,
                   egress>>

\* The row is not durable: 403.
RecordFails(r) ==
    /\ Goto(r, "record", "done")
    /\ UNCHANGED <<now, cockpit, req, signals, stamp, decision, critical, approvalVars, audit,
                   egress>>

\* Recorded first, then asked: the row says `ask` whatever the human says.
RecordAsk(r) ==
    /\ Goto(r, "record", "asking")
    /\ decision[r] = "ask" /\ cockpit
    /\ Recorded(r)
    /\ Approver!Ask(r)
    /\ UNCHANGED <<now, cockpit, req, signals, stamp, decision, critical, egress>>

RecordDecided(r) ==
    /\ Goto(r, "record", "respond")
    /\ ~(decision[r] = "ask" /\ cockpit)
    /\ Recorded(r)
    /\ UNCHANGED <<now, cockpit, req, signals, stamp, decision, critical, approvalVars, egress>>

HumanApproves(r) ==
    /\ pc[r] = "asking"
    /\ Approver!Choose(r)
    /\ UNCHANGED <<now, cockpit, pc, req, signals, stamp, decision, critical, audit, egress>>

\* The verdict replaces the decision.
Resolved(v) == IF v = "approved" THEN "allow" ELSE "deny"

Resume(r, v) ==
    /\ Goto(r, "asking", "respond")
    /\ Approver!Answer(r, v)
    /\ decision' = [decision EXCEPT ![r] = Resolved(v)]
    /\ UNCHANGED <<now, cockpit, req, signals, stamp, critical, audit, egress>>
-----------------------------------------------------------------------------
(* `respond`. *)

FreshlyApproved(r) == verdict[r] = "approved"

\* Fault: any grant will do for a critical use.
BadCaveatsPermit(caveats, key, r) ==
    /\ \A deadline \in caveats.not_after_ms : stamp[r] < deadline
    /\ caveats.allowed_hosts # {} => key \in caveats.allowed_hosts

\* `Caveats::check`, at the time the request was prepared; no amount is known here.
CaveatsPermit(caveats, key, r) ==
    /\ \A deadline \in caveats.not_after_ms : stamp[r] < deadline
    /\ caveats.allowed_hosts # {} => key \in caveats.allowed_hosts
    /\ caveats.require_fresh /\ critical[r] => FreshlyApproved(r)

\* `Broker::authorize`.
Authorized(r) ==
    LET key == HostKey(req[r]) IN
    key \in DOMAIN Caveats => CaveatsPermit(Caveats[key], key, r)

\* The credential goes with a real request to a target it is held for; a held secret is
\* taken to be a valid header value.
Attaches(r) == ~req[r].connect /\ HostKey(req[r]) \in Brokered

Forward(r) ==
    /\ decision[r] = "allow"
    /\ Authorized(r)
    /\ Goto(r, "respond", "done")
    /\ forwarded' = forwarded \cup {r}
    /\ exposed' = IF req[r].secret THEN exposed \cup {r} ELSE exposed
    /\ attached' = IF Attaches(r) THEN attached \cup {r} ELSE attached
    /\ UNCHANGED <<now, cockpit, req, signals, stamp, decision, critical, approvalVars, audit>>

\* A denial, an `ask` nobody was there for, or a caveat: 403.
Block(r) ==
    /\ ~(decision[r] = "allow" /\ Authorized(r))
    /\ Goto(r, "respond", "done")
    /\ UNCHANGED <<now, cockpit, req, signals, stamp, decision, critical, approvalVars, audit,
                   egress>>

\* The clock is coarse: it does not advance within `respond`, which awaits nothing.
Tick ==
    /\ now < MaxTime
    /\ \A r \in Requests : pc[r] # "respond"
    /\ now' = now + 1
    /\ UNCHANGED <<cockpit, pc, req, signals, stamp, decision, critical, approvalVars, audit,
                   egress>>
-----------------------------------------------------------------------------
\* The client goes away while its body is read or while its request is with the human:
\* hyper drops the handler's future, and whatever the human says finds nobody.
Hangup(r) ==
    /\ \/ Goto(r, "inspect", "done")
       \/ Goto(r, "asking", "done")
    /\ UNCHANGED <<now, cockpit, req, signals, stamp, decision, critical, approvalVars, audit,
                   egress>>

\* Fault: only an approval wakes the request.
BadDecideAndAct(r) ==
    \/ \E outcome \in EvaluatesTo(r) : Prepare(r, outcome)
    \/ RecordFails(r)
    \/ RecordAsk(r)
    \/ RecordDecided(r)
    \/ Resume(r, "approved")
    \/ Forward(r)
    \/ Block(r)

\* `handle_request`, once the body is read.
DecideAndAct(r) ==
    \/ \E outcome \in EvaluatesTo(r) : Prepare(r, outcome)
    \/ RecordFails(r)
    \/ RecordAsk(r)
    \/ RecordDecided(r)
    \/ \E v \in Approver!ApprovalResponse : Resume(r, v)
    \/ Forward(r)
    \/ Block(r)

Next ==
    \/ \E r \in Requests :
           \/ Arrive(r)
           \/ Inspect(r)
           \/ DecideAndAct(r)
           \/ HumanApproves(r)
           \/ Hangup(r)
    \/ Tick

Spec == Init /\ [][Next]_vars

\* The runtime runs what can run, and the approver answers (ApprovalQueue's
\* EveryRequestReturns, at the latest when its timeout denies).  Nothing makes a client
\* send the body it announced, so Inspect is not fair.
Fairness == \A r \in Requests : WF_vars(DecideAndAct(r))

FairSpec == Spec /\ Fairness
-----------------------------------------------------------------------------
(* Properties. *)

TypeOK ==
    /\ now \in 0..MaxTime
    /\ cockpit \in BOOLEAN
    /\ pc \in [Requests -> PCs]
    /\ req \in [Requests -> Shape]
    /\ signals \in [Requests -> [inspected : BOOLEAN, leaks : BOOLEAN]]
    /\ \A r \in Requests : signals[r].leaks => signals[r].inspected
    /\ stamp \in [Requests -> Nat]
    /\ decision \in [Requests -> Decision \cup {"none"}]
    /\ \A r \in Requests : pc[r] \in {"record", "asking", "respond"} => decision[r] # "none"
    /\ critical \in [Requests -> BOOLEAN]
    /\ verdict \in [Requests -> {"unasked", "waiting", "approved", "denied"}]
    /\ approvals \subseteq Requests
    /\ audit \subseteq Row
    /\ forwarded \subseteq Requests
    /\ exposed \subseteq forwarded
    /\ attached \subseteq forwarded

Rows(r) == {row \in audit : row.request = r}

RowsPermit(r) ==
    /\ Rows(r) # {}
    /\ \A row \in Rows(r) :
           row.decision = "allow" \/ (row.decision = "ask" /\ r \in approvals)

\* What went out has a durable row, written before it went: `allow`, or `ask` where a
\* human approved this request.  A request whose row says `deny`, whose row could not be
\* written or that waits for its human is not forwarded, whoever else is in flight.
ForwardedIsRecorded == \A r \in forwarded : RowsPermit(r)

\* Where a request really goes: the name and the port its client gave, in either form.
Destination(shape) ==
    [name |-> shape.host, port |-> IF shape.port = "other" THEN "other" ELSE "none"]

\* `summarize` takes a URI's host without its port: a request in absolute form to any port
\* of a name is seen as one to its default port.
PortUnseen(shape) ==
    /\ shape.form = "absolute" /\ shape.port = "other"
    /\ [name |-> shape.host, port |-> "none"] \in Trusted

\* The scan can see the body, and it goes where nobody trusts it to go.
VisiblyLeaves(r) ==
    /\ Bufferable(req[r]) /\ req[r].framing = "text"
    /\ Destination(req[r]) \notin Trusted
    /\ ~PortUnseen(req[r])

\* A held secret that the scan can see leaves for a destination that is not trusted, by
\* name and port, only if a human approved that very request, whatever the policy's rules
\* say.  The exception is real: in absolute form the port is not looked at, so a secret
\* leaves unasked for any port of a name that is trusted on its default port.
SecretsStayHome == \A r \in exposed : VisiblyLeaves(r) => r \in approvals

NeedsFreshApproval(r) ==
    LET key == HostKey(req[r]) IN
    critical[r] /\ key \in DOMAIN Caveats /\ Caveats[key].require_fresh

\* Where the caveats ask for it, a critical use of a brokered credential has a human's
\* approval of that very request; a rule that allows a critical action is not one.
CriticalCredentialIsFresh == \A r \in attached : NeedsFreshApproval(r) => r \in approvals

\* What the abstract mediation sees of the proxy: a request is known to be critical once
\* the inspection has found that it carries a secret to a host that is not trusted, and
\* refused when it ends without being forwarded.
Grave == {r \in Requests : Exfiltration(r)}
Refused == {r \in Requests : pc[r] = "done" /\ r \notin forwarded}
Mediator == INSTANCE Mediation WITH
    grave <- Grave, rows <- audit, acted <- forwarded, refused <- Refused

\* The proxy is a mediator, too: however many requests are in flight, one is forwarded
\* once, after its one row, as the row and its human permit; one that was refused or whose
\* client went away never is.
ImplementsMediation == Mediator!Spec

\* A request whose body has been read is forwarded or refused: a full log, a denial or an
\* absent human ends it too.
RequestsFinish ==
    \A r \in Requests : pc[r] = "prepare" ~> pc[r] = "done"

-----------------------------------------------------------------------------
(* The inductive invariant. *)

Decided == {"record", "asking", "respond"}

\* What is written of a request at each place, what the human said, what the inspection
\* found and what the floor made of it, and what has gone out.
RequestInv(r) ==
    /\ pc[r] \in {"new", "inspect", "prepare", "record"} => Rows(r) = {}
    /\ pc[r] = "asking" => Rows(r) = {[request |-> r, decision |-> "ask"]}
    /\ pc[r] = "respond" /\ decision[r] = "allow" => RowsPermit(r)
    /\ verdict[r] = "approved" => r \in approvals
    /\ pc[r] \in {"prepare"} \cup Decided /\ VisiblyLeaves(r) /\ req[r].secret
           => Exfiltration(r)
    /\ pc[r] \in {"new", "inspect"} => ~signals[r].leaks
    /\ pc[r] = "record" /\ Exfiltration(r) => decision[r] # "allow"
    /\ pc[r] \in Decided /\ Exfiltration(r) /\ decision[r] = "allow" => r \in approvals
    /\ r \in forwarded => pc[r] = "done" /\ RowsPermit(r)
    /\ r \in exposed /\ VisiblyLeaves(r) => r \in approvals
    /\ r \in attached /\ NeedsFreshApproval(r) => r \in approvals

Inv == TypeOK /\ \A r \in Requests : RequestInv(r)
=============================================================================
