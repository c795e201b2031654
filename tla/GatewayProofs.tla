--------------------------- MODULE GatewayProofs ---------------------------
(***************************************************************************)
(* For any number of concurrent calls, any policy that respects the        *)
(* critical floor, and any interleaving of STOP, audit failures and        *)
(* crashes: the gateway's safety properties.                               *)
(***************************************************************************)
EXTENDS Gateway, TLAPS

\* A new call carries no history: it has not run and has no row.
LEMMA SubmitStep ==
  ASSUME IInv, NEW c \in Calls, Submit(c)
  PROVE  IInv'
<1> USE DEF IInv, Submit, Goto
<1>1. TypeOK'
  BY DEF TypeOK, PCs, GatewayOutcome, Decision
<1>2. ProgressAgrees'
  BY DEF ProgressAgrees, TypeOK, NotYet
<1>3. DecisionsAgree'
  BY DEF DecisionsAgree, TypeOK, Proceed, ProgressAgrees, NotYet
<1>4. RowsAgree'
  BY DEF RowsAgree, TypeOK, LetsThrough, Row, ProgressAgrees, NotYet
<1>5. OverridesHold'
  BY DEF OverridesHold, TypeOK, ProgressAgrees, NotYet
<1>6. OutcomeIsTruthful'
  BY DEF OutcomeIsTruthful, TypeOK, GatewayOutcome, ProgressAgrees, NotYet, AnswersAgree
<1>7. AnswersAgree'
  BY DEF AnswersAgree, TypeOK, ProgressAgrees, NotYet
<1>8. QED
  BY <1>1, <1>2, <1>3, <1>4, <1>5, <1>6, <1>7

\* The hard deny ends the call; its row, if written, denies.
LEMMA HardDenyStep ==
  ASSUME IInv, NEW c \in Calls, HardDeny(c)
  PROVE  IInv'
<1> USE DEF IInv, HardDeny, OverrideDeny, Return, Goto, Recorded, NotRecorded
<1>1. TypeOK'
  BY DEF TypeOK, PCs, GatewayOutcome, Decision, DecisionsAgree, Row
<1>2. ProgressAgrees'
  BY DEF ProgressAgrees, TypeOK, NotYet
<1>3. DecisionsAgree'
  BY DEF DecisionsAgree, TypeOK, Proceed, ProgressAgrees, NotYet
<1>4. RowsAgree'
  BY DEF RowsAgree, TypeOK, LetsThrough, Row, ProgressAgrees, NotYet, DecisionsAgree, Proceed
<1>5. OverridesHold'
  BY DEF OverridesHold, TypeOK, ProgressAgrees, NotYet
<1>6. OutcomeIsTruthful'
  BY DEF OutcomeIsTruthful, TypeOK, GatewayOutcome, ProgressAgrees, NotYet, AnswersAgree
<1>7. AnswersAgree'
  BY DEF AnswersAgree, TypeOK, ProgressAgrees, NotYet
<1>8. QED
  BY <1>1, <1>2, <1>3, <1>4, <1>5, <1>6, <1>7

\* Past the check, neither STOP nor self-protection applied to the call.
LEMMA DecideStep ==
  ASSUME IInv, NEW c \in Calls, NEW d \in Decision, Decide(c, d)
  PROVE  IInv'
<1> USE DEF IInv, Decide, OverrideDeny, Decision, Goto
<1>0. d \in Decision /\ (d = "allow" => c \notin Critical)
  BY DEF EvaluatesTo, Outcomes
<1>1. TypeOK'
  BY DEF TypeOK, PCs, GatewayOutcome
<1>2. ProgressAgrees'
  BY DEF ProgressAgrees, TypeOK, NotYet
<1>3. DecisionsAgree'
  BY <1>0 DEF DecisionsAgree, TypeOK, Proceed, ProgressAgrees, NotYet
<1>4. RowsAgree'
  BY DEF RowsAgree, TypeOK, LetsThrough, Row, ProgressAgrees, NotYet
<1>5. OverridesHold'
  BY DEF OverridesHold, TypeOK, ProgressAgrees, NotYet
<1>6. OutcomeIsTruthful'
  BY DEF OutcomeIsTruthful, TypeOK, GatewayOutcome, ProgressAgrees, NotYet, AnswersAgree
<1>7. AnswersAgree'
  BY DEF AnswersAgree, TypeOK, ProgressAgrees, NotYet
<1>8. QED
  BY <1>1, <1>2, <1>3, <1>4, <1>5, <1>6, <1>7

\* Asking opens the approval request.
LEMMA DecideAskStep ==
  ASSUME IInv, NEW c \in Calls, DecideAsk(c)
  PROVE  IInv'
<1> USE DEF IInv, DecideAsk, OverrideDeny, Goto, Approver!Ask
<1>1. TypeOK'
  BY DEF TypeOK, PCs, GatewayOutcome, Decision
<1>2. ProgressAgrees'
  BY DEF ProgressAgrees, TypeOK, NotYet
<1>3. DecisionsAgree'
  BY DEF DecisionsAgree, TypeOK, Proceed, ProgressAgrees, NotYet
<1>4. RowsAgree'
  BY DEF RowsAgree, TypeOK, LetsThrough, Row, ProgressAgrees, NotYet
<1>5. OverridesHold'
  BY DEF OverridesHold, TypeOK, ProgressAgrees, NotYet
<1>6. OutcomeIsTruthful'
  BY DEF OutcomeIsTruthful, TypeOK, GatewayOutcome, ProgressAgrees, NotYet, AnswersAgree
<1>7. AnswersAgree'
  BY DEF AnswersAgree, TypeOK, ProgressAgrees, NotYet
<1>8. QED
  BY <1>1, <1>2, <1>3, <1>4, <1>5, <1>6, <1>7

\* Choosing adds an approval and changes nothing else.
LEMMA HumanApprovesStep ==
  ASSUME IInv, NEW c \in Calls, HumanApproves(c)
  PROVE  IInv'
<1> USE DEF IInv, HumanApproves, Approver!Choose
<1>1. TypeOK'
  BY DEF TypeOK, PCs, GatewayOutcome, Decision
<1>2. ProgressAgrees'
  BY DEF ProgressAgrees, TypeOK, NotYet
<1>3. DecisionsAgree'
  BY DEF DecisionsAgree, TypeOK, Proceed, ProgressAgrees, NotYet
<1>4. RowsAgree'
  BY DEF RowsAgree, TypeOK, LetsThrough, Row, ProgressAgrees, NotYet
<1>5. OverridesHold'
  BY DEF OverridesHold, TypeOK, ProgressAgrees, NotYet
<1>6. OutcomeIsTruthful'
  BY DEF OutcomeIsTruthful, TypeOK, GatewayOutcome, ProgressAgrees, NotYet, AnswersAgree
<1>7. AnswersAgree'
  BY DEF AnswersAgree, TypeOK, ProgressAgrees, NotYet
<1>8. QED
  BY <1>1, <1>2, <1>3, <1>4, <1>5, <1>6, <1>7

\* The approver's answer is a human's approval or a denial.
LEMMA ResumeStep ==
  ASSUME IInv, NEW c \in Calls, NEW v \in Approver!ApprovalResponse, Resume(c, v)
  PROVE  IInv'
<1> USE DEF IInv, Resume, Goto, Approver!Answer, Approver!ApprovalResponse
<1>1. TypeOK'
  BY DEF TypeOK, PCs, GatewayOutcome, Decision
<1>2. ProgressAgrees'
  BY DEF ProgressAgrees, TypeOK, NotYet
<1>3. DecisionsAgree'
  BY DEF DecisionsAgree, TypeOK, Proceed, ProgressAgrees, NotYet
<1>4. RowsAgree'
  BY DEF RowsAgree, TypeOK, LetsThrough, Row, ProgressAgrees, NotYet
<1>5. OverridesHold'
  BY DEF OverridesHold, TypeOK, ProgressAgrees, NotYet
<1>6. OutcomeIsTruthful'
  BY DEF OutcomeIsTruthful, TypeOK, GatewayOutcome, ProgressAgrees, NotYet, AnswersAgree
<1>7. AnswersAgree'
  BY DEF AnswersAgree, TypeOK, ProgressAgrees, NotYet
<1>8. QED
  BY <1>1, <1>2, <1>3, <1>4, <1>5, <1>6, <1>7

\* The row that lets the call through is durable before the call moves to the egress.
LEMMA RecordProceedStep ==
  ASSUME IInv, NEW c \in Calls, RecordProceed(c)
  PROVE  IInv'
<1> USE DEF IInv, RecordProceed, Goto, Recorded, Response
<1>1. TypeOK'
  BY DEF TypeOK, PCs, GatewayOutcome, Decision, DecisionsAgree, Row
<1>2. ProgressAgrees'
  BY DEF ProgressAgrees, TypeOK, NotYet
<1>3. DecisionsAgree'
  BY DEF DecisionsAgree, TypeOK, Proceed, ProgressAgrees, NotYet
<1>4. RowsAgree'
  <2> DEFINE new == [call |-> c, decision |-> decision[c], response |-> Response(c)]
  <2>1. LetsThrough(new) /\ new.decision # "deny" /\ new.response # "denied"
    BY DEF Proceed, LetsThrough
  <2>2. audit' = audit \cup {new} /\ executed' = executed /\ pc'[c] = "egress"
    BY DEF TypeOK
  <2>3. \A q \in Calls : q # c => pc'[q] = pc[q]
    BY DEF TypeOK
  <2>4. ASSUME NEW q \in Calls, pc'[q] = "egress" \/ q \in executed'
        PROVE  \E row \in audit' : row.call = q /\ LetsThrough(row)
    <3>1. CASE q = c
      BY <2>1, <2>2, <3>1
    <3>2. CASE q # c
      BY <2>2, <2>3, <2>4, <3>2 DEF RowsAgree
    <3>3. QED
      BY <3>1, <3>2
  <2>5. ASSUME NEW row \in audit'
        PROVE  /\ pc'[row.call] \notin {"new", "check", "asking", "record"}
               /\ (row.decision = "deny" \/ row.response = "denied") =>
                      pc'[row.call] \in {"done", "lost"} /\ row.call \notin executed'
    <3>1. CASE row \in audit
      BY <2>2, <2>3, <3>1 DEF RowsAgree, TypeOK, Row
    <3>2. CASE row = new
      BY <2>1, <2>2, <3>2
    <3>3. QED
      BY <2>2, <3>1, <3>2
  <2>6. QED
    BY <2>4, <2>5 DEF RowsAgree
<1>5. OverridesHold'
  BY DEF OverridesHold, TypeOK, ProgressAgrees, NotYet
<1>6. OutcomeIsTruthful'
  BY DEF OutcomeIsTruthful, TypeOK, GatewayOutcome, ProgressAgrees, NotYet, AnswersAgree
<1>7. AnswersAgree'
  BY DEF AnswersAgree, TypeOK, ProgressAgrees, NotYet
<1>8. QED
  BY <1>1, <1>2, <1>3, <1>4, <1>5, <1>6, <1>7

\* A failed append blocks the call.
LEMMA RecordFailedStep ==
  ASSUME IInv, NEW c \in Calls, RecordFailed(c)
  PROVE  IInv'
<1> USE DEF IInv, RecordFailed, Return, Goto, NotRecorded
<1>1. TypeOK'
  BY DEF TypeOK, PCs, GatewayOutcome, Decision, DecisionsAgree, Row
<1>2. ProgressAgrees'
  BY DEF ProgressAgrees, TypeOK, NotYet
<1>3. DecisionsAgree'
  BY DEF DecisionsAgree, TypeOK, Proceed, ProgressAgrees, NotYet
<1>4. RowsAgree'
  BY DEF RowsAgree, TypeOK, LetsThrough, Row, ProgressAgrees, NotYet
<1>5. OverridesHold'
  BY DEF OverridesHold, TypeOK, ProgressAgrees, NotYet
<1>6. OutcomeIsTruthful'
  BY DEF OutcomeIsTruthful, TypeOK, GatewayOutcome, ProgressAgrees, NotYet, AnswersAgree
<1>7. AnswersAgree'
  BY DEF AnswersAgree, TypeOK, ProgressAgrees, NotYet
<1>8. QED
  BY <1>1, <1>2, <1>3, <1>4, <1>5, <1>6, <1>7

\* A denial ends the call.
LEMMA RecordDeniedStep ==
  ASSUME IInv, NEW c \in Calls, RecordDenied(c)
  PROVE  IInv'
<1> USE DEF IInv, RecordDenied, Return, Goto, Recorded, NotRecorded, Response
<1>1. TypeOK'
  BY DEF TypeOK, PCs, GatewayOutcome, Decision, DecisionsAgree, Row
<1>2. ProgressAgrees'
  BY DEF ProgressAgrees, TypeOK, NotYet
<1>3. DecisionsAgree'
  BY DEF DecisionsAgree, TypeOK, Proceed, ProgressAgrees, NotYet
<1>4. RowsAgree'
  BY DEF RowsAgree, TypeOK, LetsThrough, Row, ProgressAgrees, NotYet, DecisionsAgree, Proceed
<1>5. OverridesHold'
  BY DEF OverridesHold, TypeOK, ProgressAgrees, NotYet
<1>6. OutcomeIsTruthful'
  BY DEF OutcomeIsTruthful, TypeOK, GatewayOutcome, ProgressAgrees, NotYet, AnswersAgree
<1>7. AnswersAgree'
  BY DEF AnswersAgree, TypeOK, ProgressAgrees, NotYet
<1>8. QED
  BY <1>1, <1>2, <1>3, <1>4, <1>5, <1>6, <1>7

\* Forwarding starts from a recorded, authorised call.
LEMMA ForwardStep ==
  ASSUME IInv, NEW c \in Calls, Forward(c)
  PROVE  IInv'
<1> USE DEF IInv, Forward, Goto
<1>1. TypeOK'
  BY DEF TypeOK, PCs, GatewayOutcome, Decision
<1>2. ProgressAgrees'
  BY DEF ProgressAgrees, TypeOK, NotYet
<1>3. DecisionsAgree'
  BY DEF DecisionsAgree, TypeOK, Proceed, ProgressAgrees, NotYet
<1>4. RowsAgree'
  BY DEF RowsAgree, TypeOK, LetsThrough, Row, ProgressAgrees, NotYet, DecisionsAgree, Proceed
<1>5. OverridesHold'
  BY DEF OverridesHold, TypeOK, ProgressAgrees, NotYet
<1>6. OutcomeIsTruthful'
  BY DEF OutcomeIsTruthful, TypeOK, GatewayOutcome, ProgressAgrees, NotYet, AnswersAgree
<1>7. AnswersAgree'
  BY DEF AnswersAgree, TypeOK, ProgressAgrees, NotYet
<1>8. QED
  BY <1>1, <1>2, <1>3, <1>4, <1>5, <1>6, <1>7

\* Only an executed call gets the upstream's answer.
LEMMA UpstreamReturnsStep ==
  ASSUME IInv, NEW c \in Calls, NEW o \in GatewayOutcome, UpstreamReturns(c, o)
  PROVE  IInv'
<1> USE DEF IInv, UpstreamReturns, Return, Goto
<1>1. TypeOK'
  BY DEF TypeOK, PCs, GatewayOutcome, Decision
<1>2. ProgressAgrees'
  BY DEF ProgressAgrees, TypeOK, NotYet
<1>3. DecisionsAgree'
  BY DEF DecisionsAgree, TypeOK, Proceed, ProgressAgrees, NotYet
<1>4. RowsAgree'
  BY DEF RowsAgree, TypeOK, LetsThrough, Row, ProgressAgrees, NotYet
<1>5. OverridesHold'
  BY DEF OverridesHold, TypeOK, ProgressAgrees, NotYet
<1>6. OutcomeIsTruthful'
  BY DEF OutcomeIsTruthful, TypeOK, GatewayOutcome, ProgressAgrees, NotYet, AnswersAgree
<1>7. AnswersAgree'
  BY DEF AnswersAgree, TypeOK, ProgressAgrees, NotYet
<1>8. QED
  BY <1>1, <1>2, <1>3, <1>4, <1>5, <1>6, <1>7

\* The front-end is told what `handle` returned.
LEMMA DeliverStep ==
  ASSUME IInv, NEW c \in Calls, Deliver(c)
  PROVE  IInv'
<1> USE DEF IInv, Deliver, Told
<1>1. TypeOK'
  BY DEF TypeOK, PCs, GatewayOutcome, Decision
<1>2. ProgressAgrees'
  BY DEF ProgressAgrees, TypeOK, NotYet
<1>3. DecisionsAgree'
  BY DEF DecisionsAgree, TypeOK, Proceed, ProgressAgrees, NotYet
<1>4. RowsAgree'
  BY DEF RowsAgree, TypeOK, LetsThrough, Row, ProgressAgrees, NotYet
<1>5. OverridesHold'
  BY DEF OverridesHold, TypeOK, ProgressAgrees, NotYet
<1>6. OutcomeIsTruthful'
  BY DEF OutcomeIsTruthful, TypeOK, GatewayOutcome, ProgressAgrees, NotYet, AnswersAgree
<1>7. AnswersAgree'
  BY DEF AnswersAgree, TypeOK, ProgressAgrees, NotYet
<1>8. QED
  BY <1>1, <1>2, <1>3, <1>4, <1>5, <1>6, <1>7

\* A dead connection is reported as blocked.
LEMMA UnreachableStep ==
  ASSUME IInv, NEW c \in Calls, Unreachable(c)
  PROVE  IInv'
<1> USE DEF IInv, Unreachable, Told
<1>1. TypeOK'
  BY DEF TypeOK, PCs, GatewayOutcome, Decision
<1>2. ProgressAgrees'
  BY DEF ProgressAgrees, TypeOK, NotYet
<1>3. DecisionsAgree'
  BY DEF DecisionsAgree, TypeOK, Proceed, ProgressAgrees, NotYet
<1>4. RowsAgree'
  BY DEF RowsAgree, TypeOK, LetsThrough, Row, ProgressAgrees, NotYet
<1>5. OverridesHold'
  BY DEF OverridesHold, TypeOK, ProgressAgrees, NotYet
<1>6. OutcomeIsTruthful'
  BY DEF OutcomeIsTruthful, TypeOK, GatewayOutcome, ProgressAgrees, NotYet, AnswersAgree
<1>7. AnswersAgree'
  BY DEF AnswersAgree, TypeOK, ProgressAgrees, NotYet
<1>8. QED
  BY <1>1, <1>2, <1>3, <1>4, <1>5, <1>6, <1>7

\* The STOP file and the process come and go: no row, execution or answer changes.
LEMMA EnvironmentStep ==
  ASSUME IInv, Engage \/ Disengage \/ Crash \/ Restart
  PROVE  IInv'
<1> USE DEF IInv, Engage, Disengage, Crash, Restart
<1>1. TypeOK'
  <2>1. up' \in BOOLEAN /\ killSwitch' \in BOOLEAN /\ under' \in [Calls -> BOOLEAN]
    BY DEF TypeOK
  <2>2. pc' \in [Calls -> PCs]
    BY DEF TypeOK, PCs
  <2>3. UNCHANGED <<decision, verdict, approvals, audit, executed, outcome, reply>>
    OBVIOUS
  <2>4. QED
    BY <2>1, <2>2, <2>3 DEF TypeOK
<1>2. ProgressAgrees'
  BY DEF ProgressAgrees, NotYet, TypeOK
<1>3. DecisionsAgree'
  BY DEF DecisionsAgree, Proceed, TypeOK
<1>4. RowsAgree'
  BY DEF RowsAgree, LetsThrough, Row, TypeOK
<1>5. OverridesHold' /\ OutcomeIsTruthful' /\ AnswersAgree'
  BY DEF OverridesHold, OutcomeIsTruthful, AnswersAgree, TypeOK
<1>6. QED
  BY <1>1, <1>2, <1>3, <1>4, <1>5

\* Nothing has happened in an initial state.
LEMMA InitIInv == Init => IInv
<1> SUFFICES ASSUME Init PROVE IInv
  OBVIOUS
<1>1. TypeOK
  BY DEF Init, TypeOK, PCs, Approver!Init
<1>2. QED
  BY <1>1, CallsAssumption DEF Init, IInv, ProgressAgrees, NotYet, DecisionsAgree, Proceed,
       RowsAgree, OverridesHold, OutcomeIsTruthful, AnswersAgree, Approver!Init

\* Every step, and every stuttering step, preserves the inductive invariant.
LEMMA NextIInv == IInv /\ [Next]_vars => IInv'
<1> SUFFICES ASSUME IInv, [Next]_vars PROVE IInv'
  OBVIOUS
<1>1. ASSUME NEW c \in Calls, Handle(c) PROVE IInv'
  BY <1>1, HardDenyStep, DecideStep, DecideAskStep, ResumeStep, RecordProceedStep,
     RecordFailedStep, RecordDeniedStep, ForwardStep DEF Handle
<1>2. ASSUME NEW c \in Calls,
             \/ Submit(c)
             \/ HumanApproves(c)
             \/ \E o \in GatewayOutcome : UpstreamReturns(c, o)
             \/ FrontEnd(c)
      PROVE  IInv'
  BY <1>2, SubmitStep, HumanApprovesStep, UpstreamReturnsStep, DeliverStep, UnreachableStep
     DEF FrontEnd
<1>3. CASE UNCHANGED vars
  BY <1>3 DEF vars, IInv, TypeOK, ProgressAgrees, DecisionsAgree, Proceed, RowsAgree,
              OverridesHold, OutcomeIsTruthful, AnswersAgree
<1>4. QED
  BY <1>1, <1>2, <1>3, EnvironmentStep DEF Next

\* The inductive invariant holds in every reachable state of the gateway.
THEOREM GatewayInvariant == Spec => []IInv
BY InitIInv, NextIInv, PTL DEF Spec

\* The gateway's state is well typed in every reachable state.
THEOREM GatewayTypeOK == Spec => []TypeOK
<1>1. IInv => TypeOK
  BY DEF IInv
<1>2. QED
  BY <1>1, GatewayInvariant, PTL

\* Record before forward (lib.rs `handle`): across crashes and failed appends, what
\* a tool was handed is in the durable log with the row that let it through.
THEOREM NothingRunsUnlogged == Spec => []ExecutedIsRecorded
<1>1. IInv => ExecutedIsRecorded
  BY DEF IInv, TypeOK, RowsAgree, ExecutedIsRecorded
<1>2. QED
  BY <1>1, GatewayInvariant, PTL

\* No critical call runs without a human's approval of that very call.
THEOREM CriticalIsApproved == Spec => []CriticalNeedsHuman
<1>1. IInv => CriticalNeedsHuman
  BY DEF IInv, TypeOK, DecisionsAgree, Proceed, CriticalNeedsHuman
<1>2. QED
  BY <1>1, GatewayInvariant, PTL

\* The log and the tools agree on denials: what is recorded as stopped never ran.
THEOREM DenialsAreFinal == Spec => []DenialStands
<1>1. IInv => DenialStands
  BY DEF IInv, RowsAgree, DenialStands
<1> QED
  BY <1>1, GatewayInvariant, PTL

\* `override_deny` first: a call that arrives under STOP, or that would change Guardian's
\* own files, does not run.
THEOREM OverridesAreKept == Spec => []OverridesHold
<1>1. IInv => OverridesHold
  BY DEF IInv
<1> QED
  BY <1>1, GatewayInvariant, PTL

\* `handle` does not misreport what ran, failed audit writes and upstream errors included.
THEOREM OutcomesAreTrue == Spec => []OutcomeIsTruthful
<1>1. IInv => OutcomeIsTruthful
  BY DEF IInv
<1> QED
  BY <1>1, GatewayInvariant, PTL
-----------------------------------------------------------------------------
(* The refinement: every step of the gateway is one of the abstract mediation's *)
(* or leaves what it speaks of alone.                                           *)

\* What the abstract mediation sees of the gateway.
mediated == <<Critical, Logged, approvals, executed, Blocked>>

LEMMA LoggedKept == UNCHANGED audit => Logged' = Logged
BY DEF Logged

LEMMA LoggedGrows ==
  ASSUME NEW c, NEW d, NEW response, Recorded(c, d, response)
  PROVE  Logged' = Logged \cup {[request |-> c, decision |-> d]}
<1> DEFINE new == [call |-> c, decision |-> d, response |-> response]
           image(row) == [request |-> row.call, decision |-> row.decision]
<1>1. audit' = audit \cup {new} /\ image(new) = [request |-> c, decision |-> d]
  BY DEF Recorded
<1>2. Logged = {image(row) : row \in audit} /\ Logged' = {image(row) : row \in audit'}
  BY DEF Logged
<1> HIDE DEF new, image
<1> QED
  BY <1>1, <1>2

LEMMA BlockedKept ==
  ASSUME TypeOK, NEW c \in Calls, NEW o \in GatewayOutcome \ {"blocked"}, outcome[c] # "blocked",
         outcome' = [outcome EXCEPT ![c] = o]
  PROVE  Blocked' = Blocked
BY DEF Blocked, TypeOK

LEMMA BlockedGrows ==
  ASSUME TypeOK, NEW c \in Calls, outcome' = [outcome EXCEPT ![c] = "blocked"]
  PROVE  Blocked' = Blocked \cup {c}
BY DEF Blocked, TypeOK

\* Before its own row is written a call has none.
LEMMA NoRowYet ==
  ASSUME IInv, NEW c \in Calls, pc[c] \in {"new", "check", "asking", "record"}
  PROVE  Mediator!Unrecorded(c)
BY DEF IInv, RowsAgree, Mediator!Unrecorded, Logged

\* A block, with or without its row, is the abstract Refuse.
LEMMA BlockRefuses ==
  ASSUME IInv, NEW c \in Calls, NEW d \in {"ask", "deny"},
         pc[c] \in {"check", "record"},
         outcome' = [outcome EXCEPT ![c] = "blocked"],
         Logged' \in {Logged, Logged \cup {[request |-> c, decision |-> d]}},
         UNCHANGED <<approvals, executed>>
  PROVE  Mediator!Refuse(c)
<1>1. c \notin executed
  BY DEF IInv, ProgressAgrees, NotYet
<1>2. Blocked' = Blocked \cup {c}
  BY BlockedGrows DEF IInv
<1>3. Mediator!Write(c, d) \/ Logged' = Logged
  BY NoRowYet DEF Mediator!Write
<1> QED
  BY <1>1, <1>2, <1>3 DEF Mediator!Refuse

\* An append that succeeds before the call proceeds is the abstract Record.
LEMMA RecordRecords ==
  ASSUME IInv, NEW c \in Calls, RecordProceed(c)
  PROVE  Mediator!Record(c, decision[c]) /\ decision[c] \in Decision
<1>1. pc[c] = "record" /\ decision[c] \in Decision /\ c \notin executed
  BY DEF RecordProceed, Proceed, Goto, IInv, ProgressAgrees, NotYet, Decision
<1>2. decision[c] = "allow" => c \notin Critical
  BY DEF IInv, DecisionsAgree
<1>3. Logged' = Logged \cup {[request |-> c, decision |-> decision[c]]}
  BY LoggedGrows DEF RecordProceed
<1>4. UNCHANGED <<approvals, executed, Blocked>>
  BY DEF RecordProceed, Blocked
<1> QED
  BY <1>1, <1>2, <1>3, <1>4, NoRowYet DEF Mediator!Record, Mediator!Write

\* `upstream.forward` is the abstract Act: the row is there, and its human stands by it.
LEMMA ForwardActs ==
  ASSUME IInv, ConsentAgrees, NEW c \in Calls, Forward(c)
  PROVE  Mediator!Act(c)
<1>1. c \notin executed /\ c \notin Blocked
  BY DEF Forward, Goto, IInv, ProgressAgrees, NotYet, Blocked
<1>2. PICK row \in audit : row.call = c /\ LetsThrough(row)
  BY DEF Forward, Goto, IInv, RowsAgree
<1> DEFINE logged == [request |-> row.call, decision |-> row.decision]
<1>3. logged \in Logged /\ logged.request = c
  BY <1>2 DEF Logged
<1>4. Mediator!Permits(logged)
  BY <1>2 DEF LetsThrough, ConsentAgrees, Mediator!Permits
<1>5. executed' = executed \cup {c} /\ UNCHANGED <<Logged, approvals, Blocked>>
  BY DEF Forward, Logged, Blocked
<1> QED
  BY <1>1, <1>3, <1>4, <1>5 DEF Mediator!Act

\* Approvals are not taken back, and a row says `approved` only of an approved call.
LEMMA ConsentStep ==
  ASSUME IInv, ConsentAgrees, [Next]_vars
  PROVE  ConsentAgrees'
<1>1. ASSUME NEW c \in Calls, RecordProceed(c) \/ RecordDenied(c) PROVE ConsentAgrees'
  <2>1. Response(c) = "approved" => c \in approvals
    BY DEF Response, IInv, DecisionsAgree
  <2> QED
    BY <1>1, <2>1 DEF RecordProceed, RecordDenied, Recorded, NotRecorded, ConsentAgrees
<1>2. ASSUME NEW c \in Calls, HardDeny(c) PROVE ConsentAgrees'
  BY <1>2 DEF HardDeny, Recorded, NotRecorded, ConsentAgrees
<1>3. ASSUME NEW c \in Calls, HumanApproves(c) PROVE ConsentAgrees'
  BY <1>3 DEF HumanApproves, Approver!Choose, ConsentAgrees
<1>4. ASSUME UNCHANGED <<audit, approvals>> PROVE ConsentAgrees'
  BY <1>4 DEF ConsentAgrees
<1>5. ASSUME NEW c \in Calls,
             Submit(c) \/ DecideAsk(c) \/ RecordFailed(c) \/ Forward(c) \/ FrontEnd(c)
      PROVE  ConsentAgrees'
  BY <1>4, <1>5 DEF Submit, DecideAsk, RecordFailed, NotRecorded, Forward, FrontEnd, Deliver,
                    Unreachable, Told, Approver!Ask
<1>6. ASSUME NEW c \in Calls,
             \/ \E d \in Decision : Decide(c, d)
             \/ \E v \in Approver!ApprovalResponse : Resume(c, v)
             \/ \E o \in GatewayOutcome : UpstreamReturns(c, o)
      PROVE  ConsentAgrees'
  BY <1>4, <1>6 DEF Decide, Resume, UpstreamReturns, Approver!Answer
<1>7. CASE Engage \/ Disengage \/ Crash \/ Restart \/ UNCHANGED vars
  BY <1>4, <1>7 DEF Engage, Disengage, Crash, Restart, vars
<1> QED
  BY <1>1, <1>2, <1>3, <1>5, <1>6, <1>7 DEF Next, Handle

\* The steps of `handle`.
LEMMA HandleMediates ==
  ASSUME IInv, ConsentAgrees, NEW c \in Calls, Handle(c)
  PROVE  Mediator!Next \/ UNCHANGED mediated
<1>1. CASE HardDeny(c)
  <2>1. Mediator!Refuse(c)
    <3>1. /\ pc[c] = "check" /\ outcome' = [outcome EXCEPT ![c] = "blocked"]
          /\ Logged' \in {Logged, Logged \cup {[request |-> c, decision |-> "deny"]}}
          /\ UNCHANGED <<approvals, executed>>
      BY <1>1, LoggedGrows, LoggedKept DEF HardDeny, Return, Goto, NotRecorded
    <3> QED
      BY <3>1, BlockRefuses
  <2> QED
    BY <2>1 DEF Mediator!Next
<1>2. CASE RecordFailed(c) \/ RecordDenied(c)
  <2>1. Mediator!Refuse(c)
    <3>1. CASE RecordFailed(c)
      BY <3>1, BlockRefuses, LoggedKept DEF RecordFailed, Return, Goto, NotRecorded
    <3>2. CASE RecordDenied(c)
      <4>1. decision[c] \in {"ask", "deny"}
        BY <3>2 DEF RecordDenied, Return, Goto, Proceed, IInv, TypeOK, DecisionsAgree, Decision
      <4> QED
        <5>1. /\ pc[c] = "record" /\ outcome' = [outcome EXCEPT ![c] = "blocked"]
              /\ Logged' \in {Logged, Logged \cup {[request |-> c, decision |-> decision[c]]}}
              /\ UNCHANGED <<approvals, executed>>
          BY <3>2, LoggedGrows, LoggedKept DEF RecordDenied, Return, Goto, NotRecorded
        <5> QED
          BY <4>1, <5>1, BlockRefuses
    <3> QED
      BY <1>2, <3>1, <3>2
  <2> QED
    BY <2>1 DEF Mediator!Next
<1>3. CASE RecordProceed(c)
  BY <1>3, RecordRecords DEF Mediator!Next, Mediator!Decision, Decision
<1>4. CASE Forward(c)
  BY <1>4, ForwardActs DEF Mediator!Next
<1>5. CASE \/ \E d \in Decision : Decide(c, d)
           \/ DecideAsk(c)
           \/ \E v \in Approver!ApprovalResponse : Resume(c, v)
  BY <1>5 DEF Decide, DecideAsk, Resume, Approver!Ask, Approver!Answer, mediated, Logged, Blocked
<1> QED
  BY <1>1, <1>2, <1>3, <1>4, <1>5 DEF Handle

LEMMA StepMediates ==
  ASSUME IInv, ConsentAgrees, [Next]_vars
  PROVE  Mediator!Next \/ UNCHANGED mediated
<1>1. ASSUME NEW c \in Calls, HumanApproves(c) PROVE Mediator!Next
  <2>1. Mediator!Approve(c)
    BY <1>1 DEF HumanApproves, Approver!Choose, Mediator!Approve, Logged, Blocked
  <2> QED
    BY <2>1 DEF Mediator!Next
<1>2. ASSUME NEW c \in Calls, NEW o \in GatewayOutcome, UpstreamReturns(c, o)
      PROVE  UNCHANGED mediated
  <2>1. outcome[c] # "blocked" /\ o # "blocked" /\ outcome' = [outcome EXCEPT ![c] = o]
    BY <1>2 DEF UpstreamReturns, Return, Goto, IInv, ProgressAgrees
  <2>2. Blocked' = Blocked
    BY <2>1, BlockedKept DEF IInv
  <2> QED
    BY <1>2, <2>2 DEF UpstreamReturns, mediated, Logged
<1>3. ASSUME NEW c \in Calls, Submit(c) \/ FrontEnd(c) PROVE UNCHANGED mediated
  BY <1>3 DEF Submit, FrontEnd, Deliver, Unreachable, Told, mediated, Logged, Blocked
<1>4. CASE Engage \/ Disengage \/ Crash \/ Restart \/ UNCHANGED vars
  BY <1>4 DEF Engage, Disengage, Crash, Restart, vars, mediated, Logged, Blocked
<1> QED
  BY <1>1, <1>2, <1>3, <1>4, HandleMediates DEF Next

\* The gateway implements the abstract mediation: for any number of calls, whatever is
\* switched, refused, lost or restarted, a call is acted on once, after its row, and never
\* after a refusal.
THEOREM GatewayImplementsMediation == Spec => ImplementsMediation
<1>1. Init => Mediator!Init
  BY CallsAssumption DEF Init, Mediator!Init, Logged, Blocked, Approver!Init
<1>2. Init => ConsentAgrees
  BY DEF Init, ConsentAgrees
<1>3. IInv /\ ConsentAgrees /\ [Next]_vars => [Mediator!Next]_(Mediator!vars)
  BY StepMediates DEF Mediator!vars, mediated
<1>4. IInv /\ ConsentAgrees /\ [Next]_vars => ConsentAgrees'
  BY ConsentStep
<1> QED
  BY <1>1, <1>2, <1>3, <1>4, GatewayInvariant, PTL DEF Spec, ImplementsMediation, Mediator!Spec
=============================================================================
