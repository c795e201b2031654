-------------------------- MODULE FrontEndsProofs --------------------------
(***************************************************************************)
(* The programs a user starts beside the daemon keep their promises for    *)
(* instances of any size.  First the egress proxy: for any requests,       *)
(* hosts, trust, secrets and caveats, what it forwards was recorded, a     *)
(* visible secret does not leave for an untrusted host without a human,    *)
(* and neither does a critical credential.  Then the files under           *)
(* ~/.guardian: for any environments, policies, tools and number of edits, *)
(* init, the daemon's start, log, ui, exec and the hook agree on them, and *)
(* what the agent wrote does not come to govern it.                        *)
(* The two specifications share no state; each theorem names its own.      *)
(***************************************************************************)
EXTENDS Proxy, FrontEnds, TLAPS

-----------------------------------------------------------------------------
(* The egress proxy. *)

\* The initial states satisfy the invariant.
LEMMA InitInv == Init => Inv
<1> SUFFICES ASSUME Init PROVE Inv
  OBVIOUS
<1> USE DEF Init, Approver!Init
<1>1. TypeOK
  BY ShapesAssumption, TimeAssumption DEF TypeOK, PCs, NoSignals
<1>2. ASSUME NEW r \in Requests PROVE RequestInv(r)
  BY DEF RequestInv, Rows, Decided, NoSignals
<1> QED
  BY <1>1, <1>2 DEF Inv

\* Every step keeps the variables within their types.
LEMMA NextType == TypeOK /\ [Next]_vars => TypeOK'
<1> SUFFICES ASSUME TypeOK, [Next]_vars PROVE TypeOK'
  OBVIOUS
<1> USE TimeAssumption DEF TypeOK, PCs, Goto, egress, approvalVars
<1>1. ASSUME NEW r \in Requests, Arrive(r) \/ Hangup(r) \/ RecordFails(r) \/ Block(r)
      PROVE  TypeOK'
  BY <1>1 DEF Arrive, Hangup, RecordFails, Block
<1>2. ASSUME NEW r \in Requests, Inspect(r)
      PROVE  TypeOK'
  <2>1. Signals(req[r]) \in [inspected : BOOLEAN, leaks : BOOLEAN]
        /\ (Signals(req[r]).leaks => Signals(req[r]).inspected)
    BY DEF Signals, BodyLeaksSecret, Bufferable, Shape
  <2>2. req' \in [Requests -> Shape]
    <3>1. req[r] \in Shape
      OBVIOUS
    <3>2. [req[r] EXCEPT !.secret = FALSE] \in Shape
      BY <3>1 DEF Shape
    <3> HIDE DEF Goto
    <3>3. req' = req \/ req' = [req EXCEPT ![r] = [req[r] EXCEPT !.secret = FALSE]]
      BY <1>2 DEF Inspect
    <3> QED
      BY <3>2, <3>3
  <2> QED
    BY <1>2, <2>1, <2>2 DEF Inspect
<1>3. ASSUME NEW r \in Requests, NEW outcome \in EvaluatesTo(r), Prepare(r, outcome)
      PROVE  TypeOK'
  <2>1. outcome[1] \in Decision /\ outcome[2] \in BOOLEAN
    BY DEF EvaluatesTo, Outcomes, Decision
  <2> QED
    BY <1>3, <2>1 DEF Prepare, Decision
<1>4. ASSUME NEW r \in Requests, RecordAsk(r) \/ RecordDecided(r)
      PROVE  TypeOK'
  <2>1. audit' \subseteq Row
    <3>1. decision[r] \in Decision
      BY <1>4 DEF RecordAsk, RecordDecided
    <3> QED
      BY <1>4, <3>1 DEF RecordAsk, RecordDecided, Recorded, Row
  <2> QED
    BY <1>4, <2>1 DEF RecordAsk, RecordDecided, Approver!Ask
<1>5. ASSUME NEW r \in Requests, HumanApproves(r)
      PROVE  TypeOK'
  BY <1>5 DEF HumanApproves, Approver!Choose
<1>6. ASSUME NEW r \in Requests, NEW v \in Approver!ApprovalResponse, Resume(r, v)
      PROVE  TypeOK'
  BY <1>6 DEF Resume, Approver!Answer, Approver!ApprovalResponse, Resolved, Decision
<1>7. ASSUME NEW r \in Requests, Forward(r)
      PROVE  TypeOK'
  BY <1>7 DEF Forward
<1>8. CASE Tick
  BY <1>8 DEF Tick
<1>9. CASE UNCHANGED vars
  BY <1>9 DEF vars
<1> QED
  BY <1>1, <1>2, <1>3, <1>4, <1>5, <1>6, <1>7, <1>8, <1>9 DEF Next, DecideAndAct

\* What every step leaves of a request it is not about.
LEMMA OneRequest ==
    ASSUME TypeOK, NEW r \in Requests,
           Arrive(r) \/ Inspect(r) \/ DecideAndAct(r) \/ HumanApproves(r) \/ Hangup(r)
    PROVE  /\ \A q \in Requests \ {r} :
                 /\ pc'[q] = pc[q] /\ req'[q] = req[q] /\ signals'[q] = signals[q]
                 /\ decision'[q] = decision[q] /\ critical'[q] = critical[q]
                 /\ verdict'[q] = verdict[q] /\ Rows(q)' = Rows(q)
                 /\ q \in approvals' <=> q \in approvals
                 /\ q \in forwarded' <=> q \in forwarded
                 /\ q \in exposed' <=> q \in exposed
                 /\ q \in attached' <=> q \in attached
           /\ approvals \subseteq approvals'
<1> USE DEF TypeOK, Goto, egress, approvalVars
<1>1. ASSUME audit' = audit
      PROVE  \A q : Rows(q)' = Rows(q)
  BY <1>1 DEF Rows
<1>2. CASE Inspect(r)
  BY <1>1, <1>2 DEF Inspect
<1>3. CASE Arrive(r) \/ Hangup(r) \/ HumanApproves(r)
  BY <1>1, <1>3 DEF Arrive, Hangup, HumanApproves, Approver!Choose
<1>4. CASE \E outcome \in EvaluatesTo(r) : Prepare(r, outcome)
  BY <1>1, <1>4 DEF Prepare
<1>5. CASE RecordAsk(r) \/ RecordDecided(r)
  <2>1. \A q \in Requests \ {r} : Rows(q)' = Rows(q)
    BY <1>5 DEF RecordAsk, RecordDecided, Recorded, Rows
  <2> QED
    BY <1>5, <2>1 DEF RecordAsk, RecordDecided, Approver!Ask
<1>6. CASE \E v \in Approver!ApprovalResponse : Resume(r, v)
  BY <1>1, <1>6 DEF Resume, Approver!Answer
<1>7. CASE RecordFails(r) \/ Forward(r) \/ Block(r)
  BY <1>1, <1>7 DEF RecordFails, Forward, Block
<1> QED
  BY <1>2, <1>3, <1>4, <1>5, <1>6, <1>7 DEF DecideAndAct

\* A step about one request keeps the invariant of the others.
LEMMA OthersKeep ==
    ASSUME Inv, NEW r \in Requests, NEW q \in Requests \ {r},
           Arrive(r) \/ Inspect(r) \/ DecideAndAct(r) \/ HumanApproves(r) \/ Hangup(r)
    PROVE  RequestInv(q)'
<1>1. TypeOK /\ RequestInv(q)
  BY DEF Inv
<1>2. /\ pc'[q] = pc[q] /\ req'[q] = req[q] /\ signals'[q] = signals[q]
      /\ decision'[q] = decision[q] /\ critical'[q] = critical[q]
      /\ verdict'[q] = verdict[q] /\ Rows(q)' = Rows(q)
      /\ q \in approvals' <=> q \in approvals
      /\ q \in forwarded' <=> q \in forwarded
      /\ q \in exposed' <=> q \in exposed
      /\ q \in attached' <=> q \in attached
  BY <1>1, OneRequest, Zenon
<1>3. /\ VisiblyLeaves(q)' <=> VisiblyLeaves(q)
      /\ NeedsFreshApproval(q)' <=> NeedsFreshApproval(q)
      /\ Exfiltration(q)' <=> Exfiltration(q)
      /\ RowsPermit(q)' <=> RowsPermit(q)
  BY <1>2 DEF VisiblyLeaves, NeedsFreshApproval, Exfiltration, RowsPermit
<1> QED
  BY <1>1, <1>2, <1>3 DEF RequestInv

\* Where `summarize` sees the port, the key it looks up is the destination.
LEMMA KeyIsDestination ==
    ASSUME NEW shape \in Shape, Destination(shape) \notin Trusted, ~PortUnseen(shape)
    PROVE  HostKey(shape) \notin Trusted
BY DEF Shape, Ports, Destination, PortUnseen, HostKey

\* A step about a request keeps that request's invariant.
LEMMA OwnKeeps ==
    ASSUME Inv, NEW r \in Requests,
           Arrive(r) \/ Inspect(r) \/ DecideAndAct(r) \/ HumanApproves(r) \/ Hangup(r)
    PROVE  RequestInv(r)'
<1>1. TypeOK /\ RequestInv(r)
  BY DEF Inv
<1> USE <1>1 DEF TypeOK, Goto, egress, approvalVars
<1>2. ASSUME audit' = audit, approvals' = approvals
      PROVE  Rows(r)' = Rows(r) /\ RowsPermit(r)' = RowsPermit(r)
  BY <1>2 DEF Rows, RowsPermit
<1>3. ASSUME req' = req, signals' = signals
      PROVE  /\ VisiblyLeaves(r)' = VisiblyLeaves(r)
             /\ Exfiltration(r)' = Exfiltration(r)
  BY <1>3 DEF VisiblyLeaves, Exfiltration
<1>4. ASSUME req' = req, critical' = critical
      PROVE  NeedsFreshApproval(r)' = NeedsFreshApproval(r)
  BY <1>4 DEF NeedsFreshApproval
<1>5. CASE Arrive(r) \/ Hangup(r) \/ RecordFails(r) \/ Block(r)
  BY <1>2, <1>3, <1>4, <1>5
  DEF Arrive, Hangup, RecordFails, Block, RequestInv, Decided
<1>6. CASE Inspect(r)
  <2>0. /\ signals'[r] = Signals(req[r])
        /\ req'[r] = req[r] \/ req'[r] = [req[r] EXCEPT !.secret = FALSE]
        /\ req[r] \in Shape
    BY <1>6 DEF Inspect
  <2>1. /\ pc[r] = "inspect" /\ pc'[r] = "prepare" /\ r \notin forwarded
        /\ verdict' = verdict /\ approvals' = approvals /\ audit' = audit
        /\ forwarded' = forwarded /\ exposed' = exposed /\ attached' = attached
    BY <1>6 DEF Inspect, RequestInv
  <2>2. /\ signals'[r] = Signals(req[r])
        /\ HostKey(req'[r]) = HostKey(req[r])
        /\ req'[r].connect = req[r].connect /\ req'[r].framing = req[r].framing
        /\ req'[r].secret => req[r].secret
    BY <2>0 DEF HostKey, Shape
  <2>3. VisiblyLeaves(r)' /\ (req[r].secret)' => Exfiltration(r)'
    <3>1. Signals(req[r]).leaks =
              (Bufferable(req[r]) /\ req[r].framing = "text" /\ req[r].secret)
      BY DEF Signals, BodyLeaksSecret
    <3>2. Bufferable(req'[r]) = Bufferable(req[r])
      BY <2>2 DEF Bufferable
    <3>3. req'[r] \in Shape
      BY <2>0 DEF Shape
    <3>4. VisiblyLeaves(r)' => HostKey(req'[r]) \notin Trusted
      BY <3>3, KeyIsDestination DEF VisiblyLeaves
    <3> QED
      BY <2>2, <3>1, <3>2, <3>4 DEF VisiblyLeaves, Exfiltration
  <2> QED
    BY <1>2, <2>1, <2>3 DEF RequestInv, Decided
<1>7. CASE \E outcome \in EvaluatesTo(r) : Prepare(r, outcome)
  <2>1. PICK outcome \in EvaluatesTo(r) : Prepare(r, outcome)
    BY <1>7
  <2>2. /\ pc[r] = "prepare" /\ pc'[r] = "record" /\ r \notin forwarded
        /\ decision'[r] = outcome[1]
        /\ verdict' = verdict /\ approvals' = approvals /\ audit' = audit
        /\ forwarded' = forwarded /\ exposed' = exposed /\ attached' = attached
        /\ req' = req /\ signals' = signals
    BY <2>1 DEF Prepare, RequestInv
  <2>3. Exfiltration(r) => outcome[1] # "allow"
    BY DEF EvaluatesTo, Outcomes
  <2> QED
    BY <1>2, <1>3, <2>2, <2>3 DEF RequestInv, Decided
<1>8. CASE RecordAsk(r) \/ RecordDecided(r)
  <2>1. /\ pc[r] = "record" /\ pc'[r] \in {"asking", "respond"} /\ r \notin forwarded
        /\ pc'[r] = "asking" => decision[r] = "ask"
        /\ verdict'[r] = "approved" => verdict[r] = "approved"
        /\ approvals' = approvals /\ decision' = decision /\ critical' = critical
        /\ forwarded' = forwarded /\ exposed' = exposed /\ attached' = attached
        /\ req' = req /\ signals' = signals
    BY <1>8 DEF RecordAsk, RecordDecided, RequestInv, Approver!Ask
  <2>2. Rows(r)' = {[request |-> r, decision |-> decision[r]]}
    <3>1. Rows(r) = {}
      BY <2>1 DEF RequestInv
    <3>2. audit' = audit \cup {[request |-> r, decision |-> decision[r]]}
      BY <1>8 DEF RecordAsk, RecordDecided, Recorded
    <3> QED
      BY <3>1, <3>2 DEF Rows
  <2>3. decision[r] = "allow" => RowsPermit(r)'
    BY <2>2 DEF RowsPermit
  <2> QED
    BY <1>3, <1>4, <2>1, <2>2, <2>3 DEF RequestInv, Decided
<1>9. CASE HumanApproves(r)
  <2>1. /\ approvals' = approvals \cup {r} /\ verdict' = verdict /\ pc' = pc /\ audit' = audit
        /\ decision' = decision /\ pc[r] = "asking" /\ r \notin forwarded
        /\ forwarded' = forwarded /\ req' = req /\ signals' = signals
    BY <1>9 DEF HumanApproves, Approver!Choose, RequestInv
  <2>2. Rows(r)' = Rows(r)
    BY <2>1 DEF Rows
  <2> QED
    BY <1>3, <2>1, <2>2 DEF RequestInv, Decided
<1>10. CASE \E v \in Approver!ApprovalResponse : Resume(r, v)
  <2>1. PICK v \in Approver!ApprovalResponse : Resume(r, v)
    BY <1>10
  <2>2. /\ pc[r] = "asking" /\ pc'[r] = "respond" /\ r \notin forwarded
        /\ decision'[r] = Resolved(v) /\ verdict'[r] = v
        /\ v = "approved" => r \in approvals
        /\ approvals' = approvals /\ audit' = audit
        /\ forwarded' = forwarded /\ exposed' = exposed /\ attached' = attached
        /\ req' = req /\ signals' = signals
    BY <2>1 DEF Resume, Approver!Answer, RequestInv
  <2>3. decision'[r] = "allow" => r \in approvals
    BY <2>2 DEF Resolved
  <2>4. r \in approvals => RowsPermit(r)
    <3>1. Rows(r) = {[request |-> r, decision |-> "ask"]}
      BY <2>2 DEF RequestInv
    <3> QED
      BY <3>1 DEF RowsPermit
  <2> QED
    BY <1>2, <1>3, <2>2, <2>3, <2>4 DEF RequestInv, Decided
<1>11. CASE Forward(r)
  <2>1. /\ pc[r] = "respond" /\ pc'[r] = "done" /\ decision[r] = "allow" /\ Authorized(r)
        /\ verdict' = verdict /\ approvals' = approvals /\ audit' = audit
        /\ req' = req /\ signals' = signals /\ critical' = critical
        /\ r \in exposed' /\ r \notin exposed => req[r].secret
    BY <1>11 DEF Forward
  <2>2. NeedsFreshApproval(r) => r \in approvals
    BY <2>1 DEF NeedsFreshApproval, Authorized, CaveatsPermit, FreshlyApproved, RequestInv
  <2>3. req[r].secret /\ VisiblyLeaves(r) => r \in approvals
    BY <2>1 DEF RequestInv, Decided
  <2> QED
    BY <1>2, <1>3, <1>4, <2>1, <2>2, <2>3 DEF RequestInv, Decided
<1> QED
  BY <1>5, <1>6, <1>7, <1>8, <1>9, <1>10, <1>11 DEF DecideAndAct

\* The invariant is inductive.
LEMMA NextInv == Inv /\ [Next]_vars => Inv'
<1> SUFFICES ASSUME Inv, [Next]_vars PROVE Inv'
  OBVIOUS
<1>1. TypeOK'
  BY NextType DEF Inv
<1>2. ASSUME NEW r \in Requests,
             Arrive(r) \/ Inspect(r) \/ DecideAndAct(r) \/ HumanApproves(r) \/ Hangup(r)
      PROVE  \A q \in Requests : RequestInv(q)'
  <2> SUFFICES ASSUME NEW q \in Requests PROVE RequestInv(q)'
    OBVIOUS
  <2>1. CASE q = r
    BY <1>2, <2>1, OwnKeeps
  <2>2. CASE q # r
    BY <1>2, <2>2, OthersKeep, Zenon
  <2> QED
    BY <2>1, <2>2
<1>3. ASSUME Tick \/ UNCHANGED vars, NEW q \in Requests
      PROVE  RequestInv(q)'
  BY <1>3
  DEF Inv, Tick, vars, egress, approvalVars, RequestInv, Rows, RowsPermit, VisiblyLeaves,
      NeedsFreshApproval, Exfiltration
<1> QED
  BY <1>1, <1>2, <1>3 DEF Inv, Next

\* The types, which the code has from the compiler but for the order of the handler's
\* steps: nothing is said to leak that was not read, and nothing undecided is recorded.
THEOREM TypeCorrect == Spec => []TypeOK
<1>1. Inv => TypeOK
  BY DEF Inv
<1> QED
  BY <1>1, InitInv, NextInv, PTL DEF Spec

\* `record_or_fail` before `resolve_and_respond`: whatever is forwarded was recorded as
\* allowed, or as asked with a human's approval of that request.
THEOREM ForwardedRecorded == Spec => []ForwardedIsRecorded
<1>1. Inv => ForwardedIsRecorded
  BY DEF Inv, RequestInv, ForwardedIsRecorded, TypeOK
<1> QED
  BY <1>1, InitInv, NextInv, PTL DEF Spec

\* `tag_exfiltration` and the critical floor: a secret the scan sees does not leave for a
\* name and port that are not trusted unless a human approved that request.  (Another port
\* of a trusted name, in the URI of a request in absolute form, is excepted: `summarize`
\* drops it.)
THEOREM SecretsHome == Spec => []SecretsStayHome
<1>1. Inv => SecretsStayHome
  BY DEF Inv, RequestInv, SecretsStayHome, TypeOK
<1> QED
  BY <1>1, InitInv, NextInv, PTL DEF Spec

\* `Caveats::check`: a critical use of a credential under require_fresh_approval has the
\* human's approval of that request.
THEOREM CredentialFresh == Spec => []CriticalCredentialIsFresh
<1>1. Inv => CriticalCredentialIsFresh
  BY DEF Inv, RequestInv, CriticalCredentialIsFresh, TypeOK
<1> QED
  BY <1>1, InitInv, NextInv, PTL DEF Spec

(* The proxy as a mediator: every step is one of the abstract mediation's, or leaves what *)
(* it speaks of alone.                                                                    *)

\* What the abstract mediation sees of the proxy.
mediated == <<Grave, audit, approvals, forwarded, Refused>>

\* A request without rows.
LEMMA NoRowsYet ==
  ASSUME Inv, NEW r \in Requests, pc[r] \in {"new", "inspect", "prepare", "record"}
  PROVE  Mediator!Unrecorded(r) /\ r \notin forwarded
<1>1. Rows(r) = {} /\ r \notin forwarded
  BY DEF Inv, RequestInv
<1> QED
  BY <1>1 DEF Rows, Mediator!Unrecorded

\* What is known to be critical does not change with a step that inspects nothing.
LEMMA GraveKept == UNCHANGED <<req, signals>> => Grave' = Grave
BY DEF Grave, Exfiltration

LEMMA RefusedKept ==
  ASSUME TypeOK, NEW r \in Requests, NEW to, pc[r] # "done", to # "done",
         pc' = [pc EXCEPT ![r] = to], forwarded' = forwarded
  PROVE  Refused' = Refused
BY DEF Refused, TypeOK

\* The inspection that finds a secret on its way out is the abstract Classify.
LEMMA InspectClassifies ==
  ASSUME Inv, NEW r \in Requests, Inspect(r)
  PROVE  Mediator!Classify(r) \/ UNCHANGED mediated
<1>1. /\ TypeOK /\ pc[r] = "inspect" /\ pc' = [pc EXCEPT ![r] = "prepare"]
      /\ UNCHANGED <<audit, approvals, forwarded>>
      /\ ~signals[r].leaks
  BY DEF Inv, RequestInv, Inspect, Goto, approvalVars, egress
<1>2. /\ HostKey(req'[r]) = HostKey(req[r])
      /\ \A q \in Requests \ {r} : req'[q] = req[q] /\ signals'[q] = signals[q]
  BY <1>1 DEF TypeOK, Inspect, HostKey, Shape
<1>3. Grave' \in {Grave, Grave \cup {r}}
  BY <1>1, <1>2 DEF Grave, Exfiltration
<1>4. Refused' = Refused
  BY <1>1, RefusedKept
<1> QED
  BY <1>1, <1>3, <1>4, NoRowsYet DEF Mediator!Classify, mediated

\* A durable row, written before the human is asked, is the abstract Record.
LEMMA RecordIsRecord ==
  ASSUME Inv, NEW r \in Requests, RecordAsk(r) \/ RecordDecided(r)
  PROVE  Mediator!Record(r, decision[r]) /\ decision[r] \in Decision
<1>1. /\ TypeOK /\ pc[r] = "record" /\ decision[r] \in Decision
      /\ Exfiltration(r) => decision[r] # "allow"
  BY DEF Inv, TypeOK, RequestInv, RecordAsk, RecordDecided, Goto
<1>2. /\ audit' = audit \cup {[request |-> r, decision |-> decision[r]]}
      /\ UNCHANGED <<req, signals, approvals, forwarded>>
      /\ pc' = [pc EXCEPT ![r] = "asking"] \/ pc' = [pc EXCEPT ![r] = "respond"]
  BY DEF RecordAsk, RecordDecided, Recorded, Goto, approvalVars, egress, Approver!Ask
<1>3. Grave' = Grave /\ Refused' = Refused
  BY <1>1, <1>2, GraveKept, RefusedKept
<1>4. decision[r] = "allow" => r \notin Grave
  BY <1>1 DEF Grave
<1> QED
  BY <1>1, <1>2, <1>3, <1>4, NoRowsYet DEF Mediator!Record, Mediator!Write

\* Forwarding is the abstract Act.
LEMMA ForwardActs ==
  ASSUME Inv, NEW r \in Requests, Forward(r)
  PROVE  Mediator!Act(r)
<1>1. /\ TypeOK /\ pc[r] = "respond" /\ pc' = [pc EXCEPT ![r] = "done"]
      /\ forwarded' = forwarded \cup {r}
      /\ UNCHANGED <<req, signals, approvals, audit>>
      /\ RowsPermit(r) /\ r \notin forwarded
  BY DEF Inv, RequestInv, Forward, Goto, approvalVars
<1>2. Grave' = Grave
  BY <1>1, GraveKept
<1>3. Refused' = Refused /\ r \notin Refused
  BY <1>1 DEF Refused, TypeOK
<1>4. \E row \in audit : row.request = r /\ Mediator!Permits(row)
  BY <1>1 DEF RowsPermit, Rows, Mediator!Permits
<1> QED
  BY <1>1, <1>2, <1>3, <1>4 DEF Mediator!Act

\* Every other end of a request is the abstract Refuse.
LEMMA EndRefuses ==
  ASSUME Inv, NEW r \in Requests, RecordFails(r) \/ Block(r) \/ Hangup(r)
  PROVE  Mediator!Refuse(r)
<1>1. /\ TypeOK /\ pc[r] # "done" /\ pc' = [pc EXCEPT ![r] = "done"]
      /\ UNCHANGED <<req, signals, approvals, audit, forwarded>>
  BY DEF Inv, RecordFails, Block, Hangup, Goto, approvalVars, egress
<1>2. r \notin forwarded
  BY <1>1 DEF Inv, RequestInv
<1>3. Grave' = Grave
  BY <1>1, GraveKept
<1>4. Refused' = Refused \cup {r}
  BY <1>1, <1>2 DEF Refused, TypeOK
<1> QED
  BY <1>1, <1>2, <1>3, <1>4 DEF Mediator!Refuse

LEMMA StepMediates ==
  ASSUME Inv, [Next]_vars
  PROVE  Mediator!Next \/ UNCHANGED mediated
<1>1. ASSUME NEW r \in Requests, RecordAsk(r) \/ RecordDecided(r) PROVE Mediator!Next
  BY <1>1, RecordIsRecord DEF Mediator!Next, Mediator!Decision, Decision
<1>2. ASSUME NEW r \in Requests, Inspect(r) PROVE Mediator!Next \/ UNCHANGED mediated
  BY <1>2, InspectClassifies DEF Mediator!Next
<1>3. ASSUME NEW r \in Requests, Forward(r) \/ RecordFails(r) \/ Block(r) \/ Hangup(r)
      PROVE  Mediator!Next
  BY <1>3, ForwardActs, EndRefuses DEF Mediator!Next
<1>4. ASSUME NEW r \in Requests, HumanApproves(r) PROVE Mediator!Next
  <2>1. /\ approvals' = approvals \cup {r}
        /\ UNCHANGED <<pc, req, signals, audit, forwarded>>
    BY <1>4 DEF HumanApproves, Approver!Choose, egress
  <2>2. Grave' = Grave /\ Refused' = Refused
    BY <2>1, GraveKept DEF Refused
  <2> QED
    BY <2>1, <2>2 DEF Mediator!Next, Mediator!Approve
<1>5. ASSUME NEW r \in Requests, NEW to \in {"inspect", "record", "respond"},
             pc[r] # "done", pc' = [pc EXCEPT ![r] = to],
             UNCHANGED <<req, signals, approvals, audit, forwarded>>
      PROVE  UNCHANGED mediated
  BY <1>5, GraveKept, RefusedKept DEF Inv, mediated
<1>6. ASSUME NEW r \in Requests,
             \/ Arrive(r)
             \/ \E outcome \in EvaluatesTo(r) : Prepare(r, outcome)
             \/ \E v \in Approver!ApprovalResponse : Resume(r, v)
      PROVE  UNCHANGED mediated
  BY <1>5, <1>6 DEF Arrive, Prepare, Resume, Goto, approvalVars, egress, Approver!Answer
<1>7. CASE Tick \/ UNCHANGED vars
  <2>1. UNCHANGED <<pc, req, signals, approvals, audit, forwarded>>
    BY <1>7 DEF Tick, vars, approvalVars, egress
  <2> QED
    BY <2>1, GraveKept DEF Refused, mediated
<1> QED
  BY <1>1, <1>2, <1>3, <1>4, <1>6, <1>7 DEF Next, DecideAndAct

\* The proxy implements the abstract mediation: however many requests are in flight, one
\* is forwarded once, after its row, as the row and its human permit, and what was refused
\* or given up is never forwarded.
THEOREM ProxyImplementsMediation == Spec => ImplementsMediation
<1>1. Init => Mediator!Init
  BY DEF Init, Mediator!Init, Grave, Exfiltration, NoSignals, Refused, Approver!Init
<1>2. Inv /\ [Next]_vars => [Mediator!Next]_(Mediator!vars)
  BY StepMediates DEF Mediator!vars, mediated
<1> QED
  BY <1>1, <1>2, InitInv, NextInv, PTL DEF Spec, ImplementsMediation, Mediator!Spec
-----------------------------------------------------------------------------
(* The files under ~/.guardian. *)

LEMMA OptionIs ==
  /\ \A S : None \in Option(S)
  /\ \A S : \A x \in S : Some(x) \in Option(S)
  /\ \A x : Some(x) # None
BY DEF Option, None, Some

\* A step that changes none of init's two files, its run or its promise.
LEMMA SetupKept ==
  ASSUME SetupAgrees, PromisesAgree, UNCHANGED <<policies, configs, init, promised>>
  PROVE  SetupAgrees' /\ PromisesAgree'
BY DEF SetupAgrees, PromisesAgree

\* A step that leaves the daemon and the environment alone.
LEMMA DaemonKept ==
  ASSUME FilesInv, UNCHANGED <<env, daemon>>
  PROVE  /\ BootAgrees' /\ RoleTakesEffect' /\ ProtectionAgrees'
         /\ FrontEndsMeetTheDaemon'
BY DEF FilesInv, BootAgrees, RoleTakesEffect, ProtectionAgrees, Protected, PolicyPath, AuditPath,
       SocketPath, FrontEndsMeetTheDaemon, ConfigPath, StopPath, LogPath, UiPath

\* A step that taints nothing, and lets neither the config nor the daemon name another
\* policy file of the user's.
LEMMA TaintKept ==
  ASSUME TaintAgrees, tainted' \subseteq tainted, env' = env,
         "own" \in (ConfigFile.keys.policy)' \cup daemon'.cfg.policy =>
             \/ "own" \in ConfigFile.keys.policy \cup daemon.cfg.policy
             \/ \A t \in tainted' : t.file # <<"policy", "own">>
  PROVE  TaintAgrees'
BY DEF TaintAgrees, ConfigPath

LEMMA UntaintIs ==
  ASSUME NEW files, Untaint(files)
  PROVE  tainted' \subseteq tainted /\ \A t \in tainted' : t.file \notin files
BY DEF Untaint

LEMMA TaintTyped ==
  ASSUME FilesTypeOK, tainted' \subseteq tainted
  PROVE  \A t \in tainted' : t.outdated \in BOOLEAN
BY DEF FilesTypeOK

LEMMA ShotKept ==
  ASSUME OneShotsFailClosed, UNCHANGED shot
  PROVE  OneShotsFailClosed'
BY DEF OneShotsFailClosed

LEMMA KeysAre ==
  /\ Template \in Keys
  /\ InitKeys \in Keys
  /\ InitKeys.policy = Some("home")
  /\ \A keys \in Keys : File(keys) \in Config /\ File(keys).keys = keys
  /\ NoFile \in Config /\ NoFile.keys = Template
  /\ Template.policy = None
<1>1. Template \in Keys
  BY OptionIs DEF Template, Keys
<1>2. InitKeys = [policy |-> Some("home"), audit |-> None, socket |-> None]
  BY DEF InitKeys, Template
<1>3. Some("home") \in Option(Paths)
  BY OptionIs DEF Paths
<1>4. InitKeys \in Keys
  BY <1>2, <1>3, OptionIs DEF Keys
<1> QED
  BY <1>1, <1>2, <1>4 DEF File, NoFile, Config, Template

LEMMA DownIs ==
  Down \in Daemons /\ Down.at = "down" /\ Down.promise = None /\ Down.cfg = Template
BY KeysAre, OptionIs DEF Down, Daemons

\* The config the daemon would read.
LEMMA ConfigFileIs == ASSUME FilesTypeOK PROVE ConfigFile \in Config /\ ConfigFile.keys \in Keys
BY KeysAre DEF FilesTypeOK, ConfigFile, Config

LEMMA InitFilesInv == InitState => FilesInv
<1> SUFFICES ASSUME InitState PROVE FilesInv
  OBVIOUS
<1>1. FilesTypeOK
  <2>1. configs \in [Paths -> Config]
    BY KeysAre DEF InitState
  <2>2. init \in [at : {"idle", "config"}, role : Roles, force : BOOLEAN, written : BOOLEAN]
    BY DEF InitState, Idle, Roles
  <2>3. daemon \in Daemons
    BY DownIs DEF InitState
  <2> QED
    BY <2>1, <2>2, <2>3, OptionIs, FrontEndsAssumption DEF InitState, FilesTypeOK
<1>2. SetupAgrees /\ PromisesAgree /\ BootAgrees
  BY DEF InitState, SetupAgrees, PromisesAgree, BootAgrees, Idle, Down, None
<1>3. /\ RoleTakesEffect /\ ProtectionAgrees /\ TaintAgrees /\ FrontEndsMeetTheDaemon
      /\ OneShotsFailClosed
  BY DEF InitState, RoleTakesEffect, ProtectionAgrees, TaintAgrees, FrontEndsMeetTheDaemon,
         OneShotsFailClosed, Down, None
<1> QED
  BY <1>1, <1>2, <1>3 DEF FilesInv
-----------------------------------------------------------------------------
(* `guardian init`. *)

LEMMA InitPolicyStep ==
  ASSUME FilesInv, NEW role \in Roles, NEW force \in BOOLEAN, InitPolicy(role, force)
  PROVE  FilesInv'
<1> USE DEF FilesInv
<1>0. Roles \subseteq Contents /\ "home" \in Paths
  BY DEF Roles, Contents, Paths
<1>1. FilesTypeOK'
  <2>1. policies' \in [Paths -> Contents \cup {"absent", "broken"}]
    BY <1>0 DEF InitPolicy, FilesTypeOK
  <2>2. init' \in [at : {"idle", "config"}, role : Roles, force : BOOLEAN, written : BOOLEAN]
    BY DEF InitPolicy
  <2>3. promised' \in Option(Roles)
    BY OptionIs DEF InitPolicy, FilesTypeOK
  <2>4. \A t \in tainted' : t.outdated \in BOOLEAN
    BY UntaintIs, TaintTyped DEF InitPolicy
  <2> QED
    BY <2>1, <2>2, <2>3, <2>4 DEF InitPolicy, FilesTypeOK
<1>2. SetupAgrees'
  BY <1>0 DEF InitPolicy, SetupAgrees, FilesTypeOK
<1>3. PromisesAgree'
  BY DEF InitPolicy, PromisesAgree, None
<1>4. TaintAgrees'
  BY UntaintIs, TaintKept DEF InitPolicy, ConfigFile, ConfigPath
<1> QED
  BY <1>1, <1>2, <1>3, <1>4, DaemonKept, ShotKept DEF InitPolicy

LEMMA InitConfigStep == ASSUME FilesInv, InitConfig PROVE FilesInv'
<1> USE DEF FilesInv
<1>0. "home" \in Paths /\ File(InitKeys) \in Config
  BY KeysAre DEF Paths
<1>1. FilesTypeOK'
  <2>1. configs' \in [Paths -> Config]
    BY <1>0 DEF InitConfig, FilesTypeOK
  <2>2. init' \in [at : {"idle", "config"}, role : Roles, force : BOOLEAN, written : BOOLEAN]
    BY DEF InitConfig, Idle, Roles
  <2>3. promised' \in Option(Roles)
    BY OptionIs DEF InitConfig, FilesTypeOK
  <2>4. \A t \in tainted' : t.outdated \in BOOLEAN
    BY UntaintIs, TaintTyped DEF InitConfig
  <2> QED
    BY <2>1, <2>2, <2>3, <2>4 DEF InitConfig, FilesTypeOK
<1>2. SetupAgrees'
  BY DEF InitConfig, SetupAgrees, Idle
<1>3. PromisesAgree'
  BY <1>0 DEF InitConfig, PromisesAgree, SetupAgrees, FilesTypeOK, None, Some
<1>4. TaintAgrees'
  <2>1. ConfigFile' = ConfigFile \/ ConfigFile' = File(InitKeys)
    BY DEF InitConfig, FilesTypeOK, ConfigFile, ConfigPath
  <2>2. "own" \in (ConfigFile.keys.policy)' => "own" \in ConfigFile.keys.policy
    BY <2>1, KeysAre DEF Some
  <2> QED
    BY <2>2, UntaintIs, TaintKept DEF InitConfig
<1> QED
  BY <1>1, <1>2, <1>3, <1>4, DaemonKept, ShotKept DEF InitConfig

LEMMA InitAbortStep == ASSUME FilesInv, InitAbort PROVE FilesInv'
<1> USE DEF FilesInv
<1>1. FilesTypeOK'
  BY DEF InitAbort, FilesTypeOK, Idle, Roles
<1>2. SetupAgrees' /\ PromisesAgree'
  BY DEF InitAbort, SetupAgrees, PromisesAgree, Idle
<1>3. TaintAgrees'
  BY TaintKept DEF InitAbort, ConfigFile, ConfigPath
<1> QED
  BY <1>1, <1>2, <1>3, DaemonKept, ShotKept DEF InitAbort
-----------------------------------------------------------------------------
(* The daemon. *)

\* A daemon that is not up promises nothing yet.
LEMMA NotUp ==
  ASSUME daemon'.at # "up"
  PROVE  RoleTakesEffect' /\ ProtectionAgrees' /\ FrontEndsMeetTheDaemon'
BY DEF RoleTakesEffect, ProtectionAgrees, FrontEndsMeetTheDaemon

\* What a config file, the environment and the defaults name is a path.
LEMMA PathsAre ==
  ASSUME FilesTypeOK, NEW cfg \in Keys
  PROVE  /\ PolicyPath(cfg) \in Option(Paths)
         /\ AuditPath(cfg) \in Option(Paths)
         /\ SocketPath(cfg) \in Option(Paths)
         /\ ConfigPath \in Paths \cup {"empty"} /\ StopPath \in Paths
         /\ env.audit # "empty" /\ cfg.audit = None => AuditPath(cfg) = Some(LogPath)
         /\ env.socket # "empty" /\ cfg.socket = None => SocketPath(cfg) = Some(UiPath)
<1>1. EnvPath(env.policy) \in Option(Paths) /\ EnvPath(env.audit) \in Option(Paths)
      /\ EnvPath(env.socket) \in Option(Paths)
  BY OptionIs DEF EnvPath, Paths
<1>2. Option({"own"}) \subseteq Option(Paths) /\ Some("home") \in Option(Paths)
  BY DEF Option, Paths, Some
<1>3. cfg.policy \in Option(Paths) /\ cfg.audit \in Option(Paths) /\ cfg.socket \in Option(Paths)
  BY <1>2 DEF Keys
<1>4. ConfigPath \in Paths \cup {"empty"} /\ StopPath \in Paths
  BY DEF ConfigPath, StopPath, Paths, FilesTypeOK, EnvVars, Var
<1>5. ASSUME NEW var \in Var, var # "empty"
      PROVE  OrElse(OrElse(EnvPath(var), None), Some("home")) = Some(Resolve(var))
  BY <1>5 DEF Var, EnvPath, OrElse, Resolve, None, Some
<1>6. env.audit \in Var /\ env.socket \in Var
  BY DEF FilesTypeOK, EnvVars
<1> QED
  BY <1>1, <1>2, <1>3, <1>4, <1>5, <1>6
     DEF PolicyPath, AuditPath, SocketPath, OrElse, LogPath, UiPath

LEMMA LoadConfigStep == ASSUME FilesInv, LoadConfig PROVE FilesInv'
<1> USE DEF FilesInv
<1> DEFINE file == ConfigFile
<1>1. file \in Config
  BY ConfigFileIs
<1>2. \/ daemon' = [Down EXCEPT !.at = "boot", !.cfg = file.keys, !.promise = promised]
      \/ daemon' = [Down EXCEPT !.at = "fresh"]
      \/ daemon' = Down
  BY <1>1 DEF LoadConfig, Config
<1>3. FilesTypeOK'
  <2>1. file.keys \in Keys
    BY <1>1, KeysAre DEF Config
  <2>2. daemon' \in Daemons
    <3>1. CASE daemon' = [Down EXCEPT !.at = "boot", !.cfg = file.keys, !.promise = promised]
      BY <2>1, <3>1, DownIs DEF Daemons, FilesTypeOK
    <3>2. CASE daemon' = [Down EXCEPT !.at = "fresh"] \/ daemon' = Down
      BY <3>2, DownIs DEF Daemons
    <3> QED
      BY <1>2, <3>1, <3>2
  <2> QED
    BY <2>2 DEF LoadConfig, FilesTypeOK
<1>4. BootAgrees'
  <2> SUFFICES ASSUME daemon'.at = "boot", env.config = "unset", NEW role \in daemon'.promise
               PROVE  daemon'.cfg = InitKeys
    BY DEF BootAgrees, LoadConfig
  <2>1. daemon' = [Down EXCEPT !.at = "boot", !.cfg = file.keys, !.promise = promised]
    BY <1>2 DEF Down
  <2>2. daemon'.cfg = file.keys /\ role \in promised
    BY <2>1, DownIs DEF Daemons
  <2>3. file = File(InitKeys)
    BY <2>2 DEF ConfigFile, ConfigPath, Paths, PromisesAgree
  <2> QED
    BY <2>2, <2>3 DEF File
<1>5. daemon'.at # "up"
  BY <1>2, DownIs DEF Daemons
<1>6. TaintAgrees'
  <2>1. daemon'.cfg = ConfigFile.keys \/ daemon'.cfg.policy = None
    BY <1>2, DownIs, KeysAre DEF Daemons
  <2>2. ConfigFile' = ConfigFile
    BY DEF LoadConfig, ConfigFile, ConfigPath
  <2> QED
    BY <2>1, <2>2, TaintKept DEF LoadConfig, None
<1> QED
  BY <1>3, <1>4, <1>5, <1>6, NotUp, SetupKept, ShotKept DEF LoadConfig

LEMMA WriteTemplateStep ==
  ASSUME FilesInv, NEW written \in BOOLEAN, WriteTemplate(written)
  PROVE  FilesInv'
<1> USE DEF FilesInv
<1>1. File(Template) \in Config
  BY KeysAre
<1>2. /\ daemon' \in Daemons /\ daemon'.at = "boot" /\ daemon'.promise = None
      /\ daemon'.cfg = Template
  BY DownIs DEF WriteTemplate, Daemons
<1>3. FilesTypeOK'
  <2>1. configs' \in [Paths -> Config]
    BY <1>1 DEF WriteTemplate, FilesTypeOK
  <2>2. promised' \in Option(Roles)
    BY OptionIs DEF WriteTemplate, FilesTypeOK
  <2>3. \A t \in tainted' : t.outdated \in BOOLEAN
    BY UntaintIs, TaintTyped DEF WriteTemplate
  <2> QED
    BY <1>2, <2>1, <2>2, <2>3 DEF WriteTemplate, FilesTypeOK
<1>4. SetupAgrees'
  BY DEF WriteTemplate, SetupAgrees
<1>5. PromisesAgree'
  BY <1>1 DEF WriteTemplate, PromisesAgree, FilesTypeOK, None
<1>6. BootAgrees'
  BY <1>2 DEF BootAgrees, None
<1>7. TaintAgrees'
  <2>1. ConfigFile' = ConfigFile \/ ConfigFile' = File(Template)
    BY DEF WriteTemplate, FilesTypeOK, ConfigFile, ConfigPath
  <2>2. "own" \in (ConfigFile.keys.policy)' => "own" \in ConfigFile.keys.policy
    BY <2>1, KeysAre DEF None
  <2> QED
    BY <1>2, <2>2, KeysAre, UntaintIs, TaintKept DEF WriteTemplate, None
<1> QED
  BY <1>2, <1>3, <1>4, <1>5, <1>6, <1>7, NotUp, ShotKept DEF WriteTemplate

\* A policy that loads has one of the contents that do.
LEMMA LoadPolicyIs ==
  ASSUME NEW path, NEW builtin \in Contents
  PROVE  LoadPolicy(path, builtin) \subseteq Contents
BY DEF LoadPolicy, Loads, Some

\* The heart of the daemon's start: everything it reads or writes is protected, where
\* the front-ends look, and the policy is the promised one.
LEMMA BootStep == ASSUME FilesInv, NEW intact \in BOOLEAN, Boot(intact) PROVE FilesInv'
<1> USE DEF FilesInv
<1> DEFINE cfg == daemon.cfg
           loaded == LoadPolicy(PolicyPath(cfg), "personal-assistant")
           content == CHOOSE c \in loaded : TRUE
           started == [daemon EXCEPT !.at = "up", !.policy = content,
                      !.reads = PolicyPath(cfg), !.audit = AuditPath(cfg),
                      !.socket = SocketPath(cfg), !.protects = Protected(cfg),
                      !.promise = @ \cap promised]
<1>0. SetupAgrees' /\ PromisesAgree' /\ OneShotsFailClosed'
  BY SetupKept, ShotKept DEF Boot
<1>3. ConfigFile' = ConfigFile
  BY DEF Boot, ConfigFile, ConfigPath
<1>1. CASE daemon' = Down
  <2>1. TaintAgrees'
    BY <1>1, <1>3, DownIs, KeysAre, TaintKept DEF Boot, None
  <2> QED
    BY <1>0, <1>1, <2>1, DownIs, NotUp DEF Boot, FilesTypeOK, BootAgrees
<1>2. CASE loaded # None /\ daemon' = started
  <2>0. cfg \in Keys
    BY DEF FilesTypeOK, Daemons
  <2>1. content \in loaded /\ content \in Contents
    <3>1. loaded # {}
      BY <1>2 DEF None
    <3>2. content \in loaded
      BY <3>1
    <3>3. loaded \subseteq Contents
      BY LoadPolicyIs DEF Contents
    <3> QED
      BY <3>2, <3>3
  <2>2. Protected(cfg) \in SUBSET Places
    BY <2>0, PathsAre DEF Protected, Places, Option, None, Some, Paths
  <2>3. daemon.promise \cap promised \in Option(Roles)
    BY DEF FilesTypeOK, Daemons, Option, None, Some
  <2> HIDE DEF content, loaded, cfg
  <2>4. /\ daemon'.at = "up" /\ daemon'.policy = content /\ daemon'.cfg = cfg
        /\ daemon'.reads = PolicyPath(cfg) /\ daemon'.audit = AuditPath(cfg)
        /\ daemon'.socket = SocketPath(cfg) /\ daemon'.protects = Protected(cfg)
        /\ daemon'.promise = daemon.promise \cap promised
    BY <1>2 DEF FilesTypeOK, Daemons, cfg
  <2>5. daemon' \in Daemons
    BY <1>2, <2>0, <2>1, <2>2, <2>3, PathsAre DEF FilesTypeOK, Daemons
  <2>6. FilesTypeOK'
    BY <2>5 DEF Boot, FilesTypeOK
  <2>7. BootAgrees'
    BY <2>4 DEF BootAgrees
  <2>8. RoleTakesEffect'
    <3> SUFFICES ASSUME env.config = "unset", env.policy # "own",
                        NEW role \in daemon.promise \cap promised
                 PROVE  content = role
      BY <2>4 DEF RoleTakesEffect, Boot
    <3>1. daemon.at = "boot" /\ cfg = InitKeys /\ policies["home"] = role /\ role \in Roles
      BY DEF Boot, BootAgrees, PromisesAgree, FilesTypeOK, Option, None, Some, cfg
    <3>2. PolicyPath(cfg) = {"home"}
      BY <3>1, KeysAre DEF PolicyPath, EnvPath, OrElse, None, Some
    <3>3. Loads(policies["home"])
      BY <3>1 DEF Loads, Roles, Contents
    <3>4. loaded = {role}
      BY <3>1, <3>2, <3>3 DEF LoadPolicy, None, loaded
    <3> QED
      BY <2>1, <3>4
  <2>9. ProtectionAgrees' /\ TaintAgrees'
    <3>1. ProtectionAgrees'
      BY <2>4 DEF ProtectionAgrees, Protected, PolicyPath, AuditPath, SocketPath, ConfigPath,
                  StopPath, Boot
    <3>2. TaintAgrees'
      BY <1>3, <2>4, TaintKept DEF Boot, cfg
    <3> QED
      BY <3>1, <3>2
  <2>10. FrontEndsMeetTheDaemon'
    BY <2>0, <2>4, PathsAre DEF FrontEndsMeetTheDaemon, LogPath, UiPath, Boot
  <2> QED
    BY <1>0, <2>6, <2>7, <2>8, <2>9, <2>10
<1> QED
  BY <1>1, <1>2 DEF Boot

LEMMA StopStep == ASSUME FilesInv, Stop PROVE FilesInv'
<1>1. TaintAgrees'
  BY DownIs, KeysAre, TaintKept DEF FilesInv, Stop, ConfigFile, ConfigPath, None
<1> QED
  BY <1>1, SetupKept, ShotKept, DownIs, NotUp DEF FilesInv, Stop, FilesTypeOK, BootAgrees
-----------------------------------------------------------------------------
(* The one-shot deciders. *)

\* A step that changes only what the last decider let through.
LEMMA ShotStep ==
  ASSUME FilesInv, OneShotsFailClosed',
         UNCHANGED <<env, policies, configs, edits, init, daemon, backend, promised, tainted>>
  PROVE  FilesInv'
<1>1. TaintAgrees'
  BY TaintKept DEF FilesInv, ConfigFile, ConfigPath
<1> QED
  BY <1>1, SetupKept, DaemonKept DEF FilesInv, FilesTypeOK

LEMMA ExecStep ==
  ASSUME FilesInv, NEW flag \in Flag, NEW network \in BOOLEAN, Exec(flag, network)
  PROVE  FilesInv'
<1>1. PICK content \in LoadPolicy(flag, "demo") :
          LET says == Says[content]["Exec"]
          IN /\ says.decision = "allow"
             /\ says.sandbox => backend
             /\ shot' = Some([by |-> "exec", verdict |-> says, network |-> network,
                    how |-> IF says.sandbox THEN Wrap(network) ELSE Unconfined])
  BY DEF Exec
<1>2. OneShotsFailClosed'
  BY <1>1 DEF OneShotsFailClosed, Some, Wrap
<1> QED
  BY <1>2, ShotStep DEF Exec

\* The hook classifies a tool by what it knows of it, or as Other.
LEMMA HookKind ==
  ASSUME NEW tool
  PROVE  LET kind == BuildAction(ClaudeToolToCall(tool)).kind
         IN /\ kind \in ActionKind
            /\ kind # "Other" => kind \in DOMAIN KnownTools /\ tool.known \in KnownTools[kind]
<1> DEFINE kinds == {k \in DOMAIN KnownTools : tool.known \in KnownTools[k]}
           hint == OrElse(kinds, Some("Other"))
           kind == BuildAction(ClaudeToolToCall(tool)).kind
<1>1. DOMAIN KnownTools \subseteq ActionKind
  BY DEF KnownTools, ActionKind
<1>2. hint # {} /\ (hint = kinds \/ hint = {"Other"})
  BY DEF OrElse, None, Some
<1>3. kind = CHOOSE k \in hint : TRUE
  BY <1>2 DEF BuildAction, ClaudeToolToCall, None
<1>4. kind \in hint
  BY <1>2, <1>3
<1>5. kind = "Other" \/ kind \in kinds
  BY <1>2, <1>4
<1> QED
  BY <1>1, <1>5 DEF ActionKind

LEMMA HookStep ==
  ASSUME FilesInv, NEW flag \in Flag, NEW tool \in ToolNames, NEW input \in Inputs,
         Hook(flag, tool, input)
  PROVE  FilesInv'
<1> DEFINE loaded == LoadPolicy(flag, "demo")
           content == CHOOSE c \in loaded : TRUE
           kind == BuildAction(ClaudeToolToCall(tool)).kind
<1>1. CASE shot' = None
  <2>1. OneShotsFailClosed'
    BY <1>1 DEF OneShotsFailClosed, None
  <2> QED
    BY <2>1, ShotStep DEF Hook
<1>2. CASE /\ loaded # None /\ Says[content][kind].decision = "allow"
           /\ shot' = Some([by |-> "hook", tool |-> tool, policy |-> loaded])
  <2>1. content \in loaded
    BY <1>2 DEF None
  <2> HIDE DEF content, loaded, kind
  <2>2. kind \in ActionKind
        /\ (kind # "Other" => kind \in DOMAIN KnownTools /\ tool.known \in KnownTools[kind])
    BY HookKind DEF kind
  <2>3. OneShotsFailClosed'
    <3> DEFINE h == [by |-> "hook", tool |-> tool, policy |-> loaded]
    <3>1. h.by = "hook" /\ h.tool = tool /\ h.policy = loaded
      OBVIOUS
    <3>2. shot' = {h}
      BY <1>2 DEF Some
    <3>3. \E p \in h.policy, k \in ActionKind :
               /\ Says[p][k].decision = "allow"
               /\ k # "Other" => k \in DOMAIN KnownTools /\ h.tool.known \in KnownTools[k]
      BY <1>2, <2>1, <2>2, <3>1
    <3> HIDE DEF h
    <3> QED
      BY <3>1, <3>2, <3>3 DEF OneShotsFailClosed
  <2> QED
    BY <2>3, ShotStep DEF Hook
<1>3. \/ shot' = None
      \/ /\ loaded # None /\ Says[content][kind].decision = "allow"
         /\ shot' = Some([by |-> "hook", tool |-> tool, policy |-> loaded])
  BY DEF Hook
<1> QED
  BY <1>1, <1>2, <1>3
-----------------------------------------------------------------------------
(* The user's hand. *)

LEMMA EditPolicyStep ==
  ASSUME FilesInv, NEW path \in Paths, NEW content \in Contents \cup {"absent", "broken"},
         EditPolicy(path, content)
  PROVE  FilesInv'
<1> USE DEF FilesInv
<1>1. FilesTypeOK'
  <2>1. policies' \in [Paths -> Contents \cup {"absent", "broken"}]
    BY DEF EditPolicy, FilesTypeOK
  <2>2. promised' \in Option(Roles)
    BY OptionIs DEF EditPolicy, FilesTypeOK
  <2>3. edits' \in 0..MaxEdits
    BY FrontEndsAssumption DEF EditPolicy, Edited, FilesTypeOK
  <2>4. \A t \in tainted' : t.outdated \in BOOLEAN
    BY UntaintIs, TaintTyped DEF EditPolicy
  <2> QED
    BY <2>1, <2>2, <2>3, <2>4 DEF EditPolicy, FilesTypeOK
<1>2. SetupAgrees'
  BY DEF EditPolicy, Edited, SetupAgrees
<1>3. PromisesAgree'
  BY DEF EditPolicy, PromisesAgree, FilesTypeOK, None, Paths
<1>4. TaintAgrees'
  BY UntaintIs, TaintKept DEF EditPolicy, ConfigFile, ConfigPath
<1> QED
  BY <1>1, <1>2, <1>3, <1>4, DaemonKept, ShotKept DEF EditPolicy

LEMMA EditConfigStep ==
  ASSUME FilesInv, NEW path \in Paths, NEW config \in Config, EditConfig(path, config)
  PROVE  FilesInv'
<1> USE DEF FilesInv
<1>1. FilesTypeOK'
  <2>1. configs' \in [Paths -> Config]
    BY DEF EditConfig, FilesTypeOK
  <2>2. promised' \in Option(Roles)
    BY OptionIs DEF EditConfig, FilesTypeOK
  <2>3. edits' \in 0..MaxEdits
    BY FrontEndsAssumption DEF EditConfig, Edited, FilesTypeOK
  <2>4. \A t \in tainted' : t.outdated \in BOOLEAN
    BY UntaintIs, TaintTyped DEF EditConfig
  <2> QED
    BY <2>1, <2>2, <2>3, <2>4 DEF EditConfig, FilesTypeOK
<1>2. SetupAgrees'
  BY DEF EditConfig, Edited, SetupAgrees
<1>3. PromisesAgree'
  BY DEF EditConfig, PromisesAgree, FilesTypeOK, None, Paths
<1>4. TaintAgrees'
  <2>1. ConfigFile' = ConfigFile \/ ConfigFile' = config
    BY DEF EditConfig, FilesTypeOK, ConfigFile, ConfigPath
  <2>2. tainted' \subseteq tainted
        /\ ("own" \in config.keys.policy => \A t \in tainted' : t.file # <<"policy", "own">>)
    BY UntaintIs DEF EditConfig
  <2> QED
    BY <2>1, <2>2, TaintKept DEF EditConfig
<1> QED
  BY <1>1, <1>2, <1>3, <1>4, DaemonKept, ShotKept DEF EditConfig
-----------------------------------------------------------------------------
(* The agent. *)

\* It gets at the user's own files only, and at none that governs the running daemon.
LEMMA AgentWritesIs ==
  ASSUME FilesInv, NEW kind \in {"policy", "config"}, NEW path \in Paths,
         AgentWrites(<<kind, path>>)
  PROVE  /\ path = "own" /\ tainted' = tainted \cup
                {[file |-> <<kind, path>>, outdated |-> daemon.cfg # ConfigFile.keys]}
         /\ kind = "config" => ConfigPath # "own"
         /\ kind = "policy" => env.policy # "own" /\ "own" \notin daemon.cfg.policy
<1> USE DEF FilesInv
<1>1. /\ <<kind, path>> \notin Protected(daemon.cfg)
      /\ <<"dir", path>> \notin Protected(daemon.cfg)
      /\ tainted' = tainted \cup
             {[file |-> <<kind, path>>, outdated |-> daemon.cfg # ConfigFile.keys]}
  BY DEF AgentWrites, ProtectionAgrees
<1>2. path = "own"
  BY <1>1 DEF Protected, Paths
<1>3. kind = "config" => ConfigPath # "own"
  BY <1>1, <1>2 DEF Protected
<1>4. kind = "policy" => "own" \notin PolicyPath(daemon.cfg)
  BY <1>1, <1>2 DEF Protected
<1>5. kind = "policy" => env.policy # "own" /\ "own" \notin daemon.cfg.policy
  BY <1>4 DEF PolicyPath, EnvPath, OrElse, None, Some
<1> QED
  BY <1>1, <1>2, <1>3, <1>5

LEMMA AgentStep ==
  ASSUME FilesInv, NEW kind \in {"policy", "config"}, NEW path \in Paths,
         AgentWrites(<<kind, path>>), ConfigFile' = ConfigFile,
         policies' \in [Paths -> Contents \cup {"absent", "broken"}],
         configs' \in [Paths -> Config],
         policies'["home"] = policies["home"], configs'["home"] = configs["home"],
         UNCHANGED <<env, edits, init, daemon, backend, shot, promised>>
  PROVE  FilesInv'
<1> USE DEF FilesInv
<1> DEFINE outdated == daemon.cfg # ConfigFile.keys
           taint == [file |-> <<kind, path>>, outdated |-> outdated]
<1>1. /\ path = "own" /\ tainted' = tainted \cup {taint}
      /\ kind = "config" => ConfigPath # "own"
      /\ kind = "policy" => env.policy # "own" /\ "own" \notin daemon.cfg.policy
  BY AgentWritesIs
<1>2. /\ taint.file = <<kind, path>> /\ taint.outdated = outdated /\ outdated \in BOOLEAN
      /\ ~outdated => ConfigFile.keys = daemon.cfg
  OBVIOUS
<1> HIDE DEF outdated, taint
<1>3. FilesTypeOK'
  BY <1>1, <1>2 DEF FilesTypeOK
<1>4. TaintAgrees'
  <2> SUFFICES ASSUME NEW t \in tainted'
               PROVE  /\ t.file \in {<<"policy", "own">>, <<"config", "own">>}
                      /\ t.file = <<"config", "own">> => ConfigPath # "own"
                      /\ t.file = <<"policy", "own">> /\ ~t.outdated =>
                             /\ env.policy # "own"
                             /\ "own" \notin ConfigFile.keys.policy \cup daemon.cfg.policy
    BY DEF TaintAgrees, ConfigPath
  <2>1. CASE t \in tainted
    BY <2>1 DEF TaintAgrees
  <2>2. CASE t = taint
    BY <1>1, <1>2, <2>2
  <2> QED
    BY <1>1, <2>1, <2>2
<1>5. SetupAgrees' /\ PromisesAgree'
  BY DEF SetupAgrees, PromisesAgree
<1> QED
  BY <1>3, <1>4, <1>5, DaemonKept, ShotKept

LEMMA AgentWritesPolicyStep ==
  ASSUME FilesInv, NEW path \in Paths, NEW content \in Contents \cup {"absent", "broken"},
         AgentWritesPolicy(path, content)
  PROVE  FilesInv'
<1>1. path = "own" /\ AgentWrites(<<"policy", path>>)
  BY AgentWritesIs DEF AgentWritesPolicy
<1>2. ConfigFile' = ConfigFile
  BY DEF AgentWritesPolicy, ConfigFile, ConfigPath
<1>3. policies' \in [Paths -> Contents \cup {"absent", "broken"}]
      /\ policies'["home"] = policies["home"]
  BY <1>1 DEF AgentWritesPolicy, FilesInv, FilesTypeOK, Paths
<1> QED
  BY <1>1, <1>2, <1>3, AgentStep DEF AgentWritesPolicy, FilesInv, FilesTypeOK

LEMMA AgentWritesConfigStep ==
  ASSUME FilesInv, NEW path \in Paths, NEW config \in Config, AgentWritesConfig(path, config)
  PROVE  FilesInv'
<1>1. path = "own" /\ AgentWrites(<<"config", path>>) /\ ConfigPath # "own"
  BY AgentWritesIs DEF AgentWritesConfig
<1>2. ConfigFile' = ConfigFile
  BY <1>1 DEF AgentWritesConfig, ConfigFile, ConfigPath, FilesInv, FilesTypeOK
<1>3. configs' \in [Paths -> Config] /\ configs'["home"] = configs["home"]
  BY <1>1 DEF AgentWritesConfig, FilesInv, FilesTypeOK, Paths
<1> QED
  BY <1>1, <1>2, <1>3, AgentStep DEF AgentWritesConfig, FilesInv, FilesTypeOK
-----------------------------------------------------------------------------
\* No step of any of the programs, or of the user, breaks the invariant.
LEMMA FilesNextInv == FilesInv /\ [FilesNext]_fileVars => FilesInv'
<1> SUFFICES ASSUME FilesInv, [FilesNext]_fileVars PROVE FilesInv'
  OBVIOUS
<1>1. CASE Setup
  BY <1>1, InitPolicyStep, InitConfigStep, InitAbortStep DEF Setup
<1>2. CASE Daemon
  BY <1>2, LoadConfigStep, WriteTemplateStep, BootStep, StopStep DEF Daemon
<1>3. CASE OneShot
  BY <1>3, ExecStep, HookStep DEF OneShot
<1>4. CASE User
  BY <1>4, EditPolicyStep, EditConfigStep, FrontEndsAssumption DEF User
<1>6. CASE Agent
  <2>1. {"custom", "absent"} \subseteq Contents \cup {"absent", "broken"}
    BY DEF Contents
  <2>2. CASE \E path \in Paths, content \in {"custom", "absent"} : AgentWritesPolicy(path, content)
    BY <2>1, <2>2, AgentWritesPolicyStep
  <2>3. CASE \E path \in Paths, config \in Drafts : AgentWritesConfig(path, config)
    BY <2>3, AgentWritesConfigStep, FrontEndsAssumption
  <2> QED
    BY <1>6, <2>2, <2>3 DEF Agent
<1>5. CASE UNCHANGED fileVars
  <2>1. OneShotsFailClosed'
    BY <1>5, ShotKept DEF FilesInv, fileVars
  <2> QED
    BY <1>5, <2>1, ShotStep DEF fileVars
<1> QED
  BY <1>1, <1>2, <1>3, <1>4, <1>5, <1>6 DEF FilesNext

\* The inductive invariant, for every environment, policy, tool and number of edits.
THEOREM FilesInvariant == FilesSpec => []FilesInv
BY InitFilesInv, FilesNextInv, PTL DEF FilesSpec

\* The role `guardian init` set up is the policy the daemon enforces, however the two
\* programs' file operations interleave.
THEOREM RolesTakeEffect == FilesSpec => []RoleTakesEffect
<1>1. FilesInv => RoleTakesEffect
  BY DEF FilesInv
<1> QED
  BY <1>1, FilesInvariant, PTL

\* What the agent wrote governs nothing that runs, given what it can have written.
LEMMA TaintedNeverGovern ==
  ASSUME ProtectionAgrees, TaintAgrees
  PROVE  AgentNeverGoverns
<1> SUFFICES ASSUME daemon.at = "up", NEW t \in tainted, ~t.outdated,
                    t.file \in {<<"config", ConfigPath>>} \cup {<<"policy", p>> : p \in daemon.reads}
             PROVE  FALSE
  BY DEF AgentNeverGoverns
<1>1. CASE t.file = <<"config", "own">>
  BY <1>1 DEF TaintAgrees
<1>2. CASE t.file = <<"policy", "own">>
  <2>1. "own" \in PolicyPath(daemon.cfg)
    BY <1>2 DEF ProtectionAgrees
  <2>2. env.policy # "own" /\ "own" \notin daemon.cfg.policy
    BY <1>2 DEF TaintAgrees
  <2> QED
    BY <2>1, <2>2 DEF PolicyPath, EnvPath, OrElse, None, Some
<1> QED
  BY <1>1, <1>2 DEF TaintAgrees

\* `main`'s list of protected paths and `override_deny`: what the agent wrote does not come
\* to govern it, unless the daemon was older than its config when it was written.
THEOREM AgentsDoNotGovern == FilesSpec => []AgentNeverGoverns
<1>1. FilesInv => AgentNeverGoverns
  BY TaintedNeverGovern DEF FilesInv
<1> QED
  BY <1>1, FilesInvariant, PTL

\* `guardian log` and `guardian ui` find the running daemon's log and socket.
THEOREM FrontEndsFindTheDaemon == FilesSpec => []FrontEndsMeetTheDaemon
<1>1. FilesInv => FrontEndsMeetTheDaemon
  BY DEF FilesInv
<1> QED
  BY <1>1, FilesInvariant, PTL

\* `guardian exec` and the hook let through only what a loaded policy allows, confined
\* as it says, whatever files, flags and tools they meet.
THEOREM OneShotsAreClosed == FilesSpec => []OneShotsFailClosed
<1>1. FilesInv => OneShotsFailClosed
  BY DEF FilesInv
<1> QED
  BY <1>1, FilesInvariant, PTL
=============================================================================
