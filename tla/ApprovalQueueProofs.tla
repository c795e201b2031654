------------------------ MODULE ApprovalQueueProofs ------------------------
(***************************************************************************)
(* For any number of concurrent asks and cockpits: the approval queue's    *)
(* safety invariants, and that it implements the abstract approval.        *)
(***************************************************************************)
EXTENDS ApprovalQueue, TLAPS

\* The initial state satisfies the inductive invariant.
LEMMA InitIInv == Init => IInv
<1> SUFFICES ASSUME Init PROVE IInv
  OBVIOUS
<1>1. TypeOK
  BY DEF Init, TypeOK, PCs, ApprovalResponse, Idle
<1>2. IdsUnique /\ EntriesGenuine /\ HandsGenuine /\ ChannelsAgree /\ WaiterIsAnswerable
  BY DEF Init, IdsUnique, EntriesGenuine, HandsGenuine, ChannelsAgree, WaiterIsAnswerable, Idle
<1>3. QED
  BY <1>1, <1>2 DEF IInv

\* Steps that only move a request's program counter between awaiting states.
LEMMA AwaitStep ==
  ASSUME IInv, NEW r \in Requests,
         PollEmpty(r) \/ PollDeadline(r) \/ DropReceiver(r)
  PROVE  IInv'
<1> USE DEF IInv
<1>1. /\ pc[r] \in {"wait", "polled", "expired"}
      /\ \E to \in {"wait", "polled", "expired", "cleanup"} : pc' = [pc EXCEPT ![r] = to]
      /\ UNCHANGED <<counter, id, pending, chan, elapsed, result, seen, hand, chosen, acked>>
  BY DEF PollEmpty, PollDeadline, DropReceiver, Goto
<1>2. TypeOK'
  BY <1>1 DEF TypeOK, PCs
<1>3. IdsUnique'
  BY <1>1 DEF TypeOK, IdsUnique
<1>4. EntriesGenuine'
  BY <1>1 DEF TypeOK, EntriesGenuine, Genuine, Entry
<1>5. HandsGenuine'
  BY <1>1 DEF TypeOK, HandsGenuine, Genuine, Sending, Entry
<1>6. ChannelsAgree'
  BY <1>1 DEF TypeOK, ChannelsAgree
<1>7. WaiterIsAnswerable'
  BY <1>1 DEF TypeOK, WaiterIsAnswerable
<1>8. QED
  BY <1>2, <1>3, <1>4, <1>5, <1>6, <1>7

LEMMA DrawIdStep ==
  ASSUME IInv, NEW r \in Requests, RequestDrawId(r)
  PROVE  IInv'
<1> USE DEF IInv, RequestDrawId, Goto
<1>1. TypeOK'
  BY DEF TypeOK, PCs
<1>2. IdsUnique'
  BY DEF TypeOK, IdsUnique
<1>3. EntriesGenuine'
  BY DEF TypeOK, EntriesGenuine, Genuine, Entry
<1>4. HandsGenuine'
  BY DEF TypeOK, HandsGenuine, Genuine, Sending, Entry
<1>5. ChannelsAgree'
  BY DEF TypeOK, ChannelsAgree
<1>6. WaiterIsAnswerable'
  BY DEF TypeOK, WaiterIsAnswerable
<1>7. QED
  BY <1>1, <1>2, <1>3, <1>4, <1>5, <1>6

\* Inserting replaces no one else's entry, because ids are unique.
LEMMA InsertStep ==
  ASSUME IInv, NEW r \in Requests, RequestInsert(r)
  PROVE  IInv'
<1> USE DEF IInv, RequestInsert, Goto
<1>0. [id |-> id[r], action |-> r] \in Entry
  BY DEF TypeOK, Entry
<1>1. TypeOK'
  BY <1>0 DEF TypeOK, PCs, Remove
<1>2. IdsUnique'
  BY DEF TypeOK, IdsUnique
<1>3. EntriesGenuine'
  <2>1. ASSUME NEW e \in pending'
        PROVE  (Genuine(e) /\ pc[e.action] # "done" /\ chan[e.action] = "empty")'
    <3>1. CASE e \in pending
      BY <3>1 DEF TypeOK, EntriesGenuine, Genuine, Entry
    <3>2. CASE e = [id |-> id[r], action |-> r]
      BY <3>2 DEF TypeOK, ChannelsAgree, Genuine
    <3>3. QED
      BY <3>1, <3>2 DEF Remove
  <2>2. ASSUME NEW c \in Cockpits, NEW e \in seen'[c]
        PROVE  Genuine(e)'
    BY <2>2 DEF TypeOK, EntriesGenuine, Genuine, Entry
  <2>3. QED
    BY <2>1, <2>2 DEF EntriesGenuine
<1>4. HandsGenuine'
  BY DEF TypeOK, HandsGenuine, Genuine, Sending, Entry, Remove
<1>5. ChannelsAgree'
  BY DEF TypeOK, ChannelsAgree
<1>6. WaiterIsAnswerable'
  BY DEF TypeOK, WaiterIsAnswerable, IdsUnique, Remove
<1>7. QED
  BY <1>1, <1>2, <1>3, <1>4, <1>5, <1>6

LEMMA ElapseStep ==
  ASSUME IInv, NEW r \in Requests, Elapse(r)
  PROVE  IInv'
<1> USE DEF IInv, Elapse
<1>1. TypeOK'
  BY DEF TypeOK
<1>2. QED
  BY <1>1 DEF IdsUnique, EntriesGenuine, HandsGenuine, ChannelsAgree, WaiterIsAnswerable, Genuine

LEMMA ReceivedStep ==
  ASSUME IInv, NEW r \in Requests, PollReceived(r)
  PROVE  IInv'
<1> USE DEF IInv, PollReceived, Goto
<1>1. TypeOK'
  BY DEF TypeOK, PCs
<1>2. IdsUnique'
  BY DEF TypeOK, IdsUnique
<1>3. EntriesGenuine'
  BY DEF TypeOK, EntriesGenuine, Genuine, Entry
<1>4. HandsGenuine'
  BY DEF TypeOK, HandsGenuine, Genuine, Sending, Entry
<1>5. ChannelsAgree'
  BY DEF TypeOK, ChannelsAgree, ApprovalResponse
<1>6. WaiterIsAnswerable'
  BY DEF TypeOK, WaiterIsAnswerable
<1>7. QED
  BY <1>1, <1>2, <1>3, <1>4, <1>5, <1>6

\* The timeout arm removes its own entry and no other.
LEMMA CleanupStep ==
  ASSUME IInv, NEW r \in Requests, RequestCleanup(r)
  PROVE  IInv'
<1> USE DEF IInv, RequestCleanup, Goto
<1>1. TypeOK'
  BY DEF TypeOK, PCs, Remove, ApprovalResponse
<1>2. IdsUnique'
  BY DEF TypeOK, IdsUnique
<1>3. EntriesGenuine'
  BY DEF TypeOK, EntriesGenuine, Genuine, Entry, Remove
<1>4. HandsGenuine'
  BY DEF TypeOK, HandsGenuine, Genuine, Sending, Entry, Remove
<1>5. ChannelsAgree'
  BY DEF TypeOK, ChannelsAgree
<1>6. WaiterIsAnswerable'
  BY DEF TypeOK, WaiterIsAnswerable, IdsUnique, Remove
<1>7. QED
  BY <1>1, <1>2, <1>3, <1>4, <1>5, <1>6

LEMMA PendingStep ==
  ASSUME IInv, NEW c \in Cockpits, Pending(c)
  PROVE  IInv'
<1> USE DEF IInv, Pending
<1>1. TypeOK'
  BY DEF TypeOK
<1>2. EntriesGenuine'
  BY DEF TypeOK, EntriesGenuine, Genuine
<1>3. QED
  BY <1>1, <1>2 DEF IdsUnique, HandsGenuine, ChannelsAgree, WaiterIsAnswerable, Genuine

\* `respond` takes the sender of the one entry listed under the id it was given,
\* which is the entry the human looked at.
LEMMA RemoveStep ==
  ASSUME IInv, NEW c \in Cockpits, NEW e \in seen[c], NEW v \in ApprovalResponse,
         RespondRemove(c, e, v)
  PROVE  IInv'
<1> USE DEF IInv
<1>1. PICK f \in pending :
         /\ f.id = e.id
         /\ hand' = [hand EXCEPT ![c] = [busy |-> TRUE, entry |-> f, verdict |-> v]]
  BY DEF RespondRemove
<1>2. /\ hand[c] = Idle
      /\ pending' = Remove(f.id)
      /\ chosen' = chosen \cup {[action |-> e.action, verdict |-> v]}
      /\ UNCHANGED <<counter, pc, id, chan, elapsed, result, seen, acked>>
  BY <1>1 DEF RespondRemove
<1>3. f \in Entry /\ e \in Entry
  BY DEF TypeOK
<1>4. f.action = e.action
  BY <1>1, <1>3 DEF EntriesGenuine, Genuine, IdsUnique, Entry
<1>5. hand'[c] # Idle /\ hand'[c].entry = f /\ hand'[c].verdict = v
  BY <1>1 DEF TypeOK, Idle
<1>6. \A d \in Cockpits : d # c => hand'[d] = hand[d]
  BY <1>1 DEF TypeOK
<1>7. \A g \in pending : g \in pending' <=> g.action # f.action
  BY <1>2, <1>3 DEF Remove, EntriesGenuine, Genuine, IdsUnique, TypeOK, Entry
<1>8. pending' \subseteq pending
  BY <1>2 DEF Remove
<1>9. TypeOK'
  <2>1. [busy |-> TRUE, entry |-> f, verdict |-> v] \in Sending
    BY <1>3 DEF Sending
  <2>2. [action |-> e.action, verdict |-> v] \in Choice
    BY <1>3 DEF Choice, Entry
  <2>3. QED
    BY <1>1, <1>2, <1>8, <2>1, <2>2 DEF TypeOK
<1>10. IdsUnique' /\ ChannelsAgree'
  BY <1>2 DEF IdsUnique, ChannelsAgree
<1>11. EntriesGenuine'
  BY <1>2, <1>8 DEF EntriesGenuine, Genuine
<1>12. HandsGenuine'
  <2> SUFFICES ASSUME NEW d \in Cockpits, hand'[d] # Idle
               PROVE  LET r == hand'[d].entry.action IN
                      /\ Genuine(hand[d].entry)'
                      /\ chan'[r] = "empty"
                      /\ [action |-> r, verdict |-> hand'[d].verdict] \in chosen'
                      /\ \A g \in pending' : g.action # r
                      /\ \A b \in Cockpits : b # d /\ hand'[b] # Idle => hand'[b].entry.action # r
    BY DEF HandsGenuine
  <2>1. CASE d = c
    <3>1. Genuine(f) /\ chan[f.action] = "empty"
      BY DEF EntriesGenuine
    <3>2. Genuine(hand[c].entry)'
      BY <1>2, <1>5, <3>1 DEF Genuine
    <3>3. [action |-> f.action, verdict |-> v] \in chosen'
      BY <1>2, <1>4
    <3>4. \A g \in pending' : g.action # f.action
      BY <1>7, <1>8
    <3>5. \A b \in Cockpits : b # c /\ hand'[b] # Idle => hand'[b].entry.action # f.action
      BY <1>6 DEF HandsGenuine
    <3>6. QED
      BY <1>2, <1>5, <2>1, <3>1, <3>2, <3>3, <3>4, <3>5
  <2>2. CASE d # c
    BY <1>2, <1>5, <1>6, <1>8, <2>2 DEF HandsGenuine, Genuine
  <2>3. QED
    BY <2>1, <2>2
<1>13. WaiterIsAnswerable'
  <2> SUFFICES ASSUME NEW r \in Requests, pc[r] \in {"wait", "polled", "expired"}
               PROVE  \/ [id |-> id[r], action |-> r] \in pending'
                      \/ \E d \in Cockpits : hand'[d] # Idle /\ hand'[d].entry.action = r
                      \/ chan[r] # "empty"
    BY <1>2 DEF WaiterIsAnswerable
  <2>1. CASE [id |-> id[r], action |-> r] \in pending
    BY <1>5, <1>7, <2>1
  <2>2. CASE \E d \in Cockpits : hand[d] # Idle /\ hand[d].entry.action = r
    BY <1>2, <1>6, <2>2
  <2>3. QED
    BY <2>1, <2>2 DEF WaiterIsAnswerable
<1>14. QED
  BY <1>9, <1>10, <1>11, <1>12, <1>13

LEMMA UnknownStep ==
  ASSUME IInv, NEW c \in Cockpits, NEW e \in seen[c], NEW v \in ApprovalResponse,
         RespondUnknown(c, e, v)
  PROVE  IInv'
<1> USE DEF IInv, RespondUnknown
<1>1. [action |-> e.action, verdict |-> v] \in Choice
  BY DEF TypeOK, Choice, Entry
<1>2. TypeOK'
  BY <1>1 DEF TypeOK
<1>3. QED
  BY <1>2 DEF IdsUnique, EntriesGenuine, HandsGenuine, ChannelsAgree, WaiterIsAnswerable, Genuine

\* The sender in hand is used once: the channel was empty and stays as written.
LEMMA SendStep ==
  ASSUME IInv, NEW c \in Cockpits, RespondSend(c)
  PROVE  IInv'
<1> USE DEF IInv
<1> DEFINE r == hand[c].entry.action
           v == hand[c].verdict
           a == [action |-> r, verdict |-> v]
<1>1. /\ hand[c] # Idle
      /\ hand' = [hand EXCEPT ![c] = Idle]
      /\ UNCHANGED <<counter, pc, id, pending, elapsed, result, seen, chosen>>
  BY DEF RespondSend
<1>2. hand[c] \in Sending
  BY <1>1 DEF TypeOK
<1>3. r \in Requests /\ v \in ApprovalResponse /\ a \in Choice
  BY <1>2 DEF Sending, Entry, Choice
<1>4. hand'[c] = Idle /\ \A d \in Cockpits : d # c => hand'[d] = hand[d]
  BY <1>1 DEF TypeOK
<1>5. chan[r] = "empty" /\ a \in chosen /\ Genuine(hand[c].entry)
  BY <1>1 DEF HandsGenuine
<1>6. \A d \in Cockpits : d # c /\ hand[d] # Idle => hand[d].entry.action # r
  BY <1>1 DEF HandsGenuine
<1>7. \A e \in pending : e.action # r
  BY <1>1 DEF HandsGenuine
<1>8. IdsUnique'
  BY <1>1 DEF IdsUnique
<1>9. CASE RxOpen(r)
  <2>1. chan' = [chan EXCEPT ![r] = v] /\ acked' = acked \cup {a}
    BY <1>9 DEF RespondSend
  <2>2. chan'[r] = v /\ \A q \in Requests : q # r => chan'[q] = chan[q]
    BY <1>3, <2>1 DEF TypeOK
  <2>3. TypeOK'
    BY <1>1, <1>3, <2>1 DEF TypeOK
  <2>4. EntriesGenuine'
    BY <1>1, <1>7, <2>2 DEF EntriesGenuine, Genuine, TypeOK, Entry
  <2>5. HandsGenuine'
    <3> SUFFICES ASSUME NEW d \in Cockpits, d # c, hand[d] # Idle
                 PROVE  LET q == hand[d].entry.action IN
                        /\ Genuine(hand[d].entry)'
                        /\ chan'[q] = "empty"
                        /\ [action |-> q, verdict |-> hand[d].verdict] \in chosen
                        /\ \A g \in pending : g.action # q
                        /\ \A b \in Cockpits : b # d /\ hand'[b] # Idle => hand'[b].entry.action # q
      BY <1>1, <1>4 DEF HandsGenuine
    <3>1. hand[d] \in Sending
      BY DEF TypeOK
    <3>2. hand[d].entry.action \in Requests \ {r}
      BY <1>6, <3>1 DEF Sending, Entry
    <3>3. hand'[d] = hand[d]
      BY <1>4
    <3>4. QED
      BY <1>1, <1>4, <2>2, <3>2, <3>3 DEF HandsGenuine, Genuine
  <2>6. ChannelsAgree'
    <3>1. v # "empty" /\ pc[r] \notin {"start", "insert"}
      BY <1>3, <1>5 DEF ApprovalResponse, Genuine
    <3>2. \A b \in acked : b.action # r
      BY <1>5 DEF ChannelsAgree, TypeOK, Choice, ApprovalResponse
    <3>3. result[r] # "approved"
      BY <1>3, <1>5 DEF ChannelsAgree
    <3>4. ASSUME NEW b \in acked'
          PROVE  b \in chosen' /\ chan'[b.action] = b.verdict
      BY <1>1, <1>5, <2>1, <2>2, <3>2 DEF ChannelsAgree, TypeOK, Choice
    <3>5. ASSUME NEW q \in Requests
          PROVE  /\ pc'[q] \in {"start", "insert"} => chan'[q] = "empty"
                 /\ chan'[q] # "empty" => [action |-> q, verdict |-> chan'[q]] \in acked'
                 /\ result'[q] = "none" <=> pc'[q] # "done"
                 /\ result'[q] = "approved" => chan'[q] = "approved"
      <4>1. CASE q = r
        <5>1. a \in acked' /\ chan'[r] = v
          BY <2>1, <2>2
        <5>2. result[r] = "none" <=> pc[r] # "done"
          BY <1>3 DEF ChannelsAgree
        <5>3. QED
          BY <1>1, <3>1, <3>3, <4>1, <5>1, <5>2
      <4>2. CASE q # r
        BY <1>1, <2>1, <2>2, <4>2 DEF ChannelsAgree
      <4>3. QED
        BY <4>1, <4>2
    <3>6. QED
      BY <3>4, <3>5 DEF ChannelsAgree
  <2>7. WaiterIsAnswerable'
    BY <1>1, <1>3, <1>4, <2>2 DEF WaiterIsAnswerable, ApprovalResponse
  <2>8. QED
    BY <1>8, <2>3, <2>4, <2>5, <2>6, <2>7
<1>10. CASE ~RxOpen(r)
  <2>1. UNCHANGED <<chan, acked>>
    BY <1>10 DEF RespondSend
  <2>2. TypeOK'
    BY <1>1, <2>1 DEF TypeOK
  <2>3. EntriesGenuine' /\ ChannelsAgree'
    BY <1>1, <2>1 DEF EntriesGenuine, ChannelsAgree, Genuine
  <2>4. HandsGenuine'
    BY <1>1, <1>4, <2>1 DEF HandsGenuine, Genuine
  <2>5. WaiterIsAnswerable'
    BY <1>1, <1>4, <1>10, <2>1 DEF WaiterIsAnswerable, RxOpen
  <2>6. QED
    BY <1>8, <2>2, <2>3, <2>4, <2>5
<1>11. QED
  BY <1>9, <1>10

\* Every step, and every stuttering step, preserves the inductive invariant.
LEMMA NextIInv == IInv /\ [Next]_vars => IInv'
<1> SUFFICES ASSUME IInv, [Next]_vars PROVE IInv'
  OBVIOUS
<1>1. ASSUME NEW r \in Requests, RequestDrawId(r) \/ Run(r) \/ Elapse(r)
      PROVE  IInv'
  BY <1>1, AwaitStep, DrawIdStep, InsertStep, ElapseStep, ReceivedStep, CleanupStep DEF Run
<1>2. ASSUME NEW c \in Cockpits, Cockpit(c)
      PROVE  IInv'
  BY <1>2, PendingStep, RemoveStep, UnknownStep, SendStep DEF Cockpit
<1>3. CASE UNCHANGED vars
  BY <1>3 DEF vars, IInv, TypeOK, IdsUnique, EntriesGenuine, HandsGenuine, ChannelsAgree,
              WaiterIsAnswerable, Genuine
<1>4. QED
  BY <1>1, <1>2, <1>3 DEF Next

\* The inductive invariant holds in every reachable state of the queue.
THEOREM QueueInvariant == Spec => []IInv
BY InitIInv, NextIInv, PTL DEF Spec

\* The queue's state is well typed in every reachable state.
THEOREM QueueTypeOK == Spec => []TypeOK
<1>1. IInv => TypeOK
  BY DEF IInv
<1> QED
  BY <1>1, QueueInvariant, PTL

\* Whatever `respond` calls race it, a waiting `request` has its entry listed, its sender
\* in somebody's hand, or its verdict in the channel.
THEOREM WaitersCanBeAnswered == Spec => []WaiterIsAnswerable
<1>1. IInv => WaiterIsAnswerable
  BY DEF IInv
<1> QED
  BY <1>1, QueueInvariant, PTL

\* `pending` lists no request that has returned, answered or timed out.
THEOREM SettledIsNotListed == Spec => []NothingPendingIsSettled
<1>1. IInv => NothingPendingIsSettled
  BY DEF IInv, EntriesGenuine, Genuine, NothingPendingIsSettled
<1> QED
  BY <1>1, QueueInvariant, PTL

\* `request` returns Approved only for an action a human chose to approve.
THEOREM ApprovalsAreAuthentic == Spec => []ApprovalIsAuthentic
<1>1. IInv => ApprovalIsAuthentic
  BY DEF IInv, ChannelsAgree, ApprovalIsAuthentic
<1> QED
  BY <1>1, QueueInvariant, PTL

\* A denial for which `respond` returned true is never overtaken by an approval.
THEOREM AckedDenialsAreFinal == Spec => []AckedDenialIsFinal
<1>1. IInv => AckedDenialIsFinal
  BY DEF IInv, ChannelsAgree, AckedDenialIsFinal
<1> QED
  BY <1>1, QueueInvariant, PTL

-----------------------------------------------------------------------------
(* Refinement: what each step does to the abstract verdicts and approvals. *)

verdictBar == [r \in Requests |->
                  IF pc[r] = "start" THEN "unasked"
                  ELSE IF pc[r] = "done" THEN result[r]
                  ELSE "waiting"]
approvalsBar == {r \in Requests : [action |-> r, verdict |-> "approved"] \in chosen}

\* A step that draws an id is the abstract Ask.
LEMMA DrawIdAsks ==
  ASSUME IInv, NEW r \in Requests, RequestDrawId(r)
  PROVE  A!Ask(r)
<1>1. verdictBar[r] = "unasked"
  BY DEF RequestDrawId, Goto, verdictBar
<1>2. verdictBar' = [verdictBar EXCEPT ![r] = "waiting"]
  BY DEF RequestDrawId, Goto, verdictBar, IInv, TypeOK
<1>3. approvalsBar' = approvalsBar
  BY DEF RequestDrawId, approvalsBar
<1>4. QED
  BY <1>1, <1>2, <1>3 DEF A!Ask, verdictBar, approvalsBar

\* Returning from `request` is the abstract Answer, with a human's approval behind
\* an Approved.
LEMMA ReturnAnswers ==
  ASSUME IInv, NEW r \in Requests, PollReceived(r) \/ RequestCleanup(r)
  PROVE  \E v \in ApprovalResponse : A!Answer(r, v)
<1>1. PICK v \in ApprovalResponse :
         /\ result' = [result EXCEPT ![r] = v]
         /\ v = "approved" => chan[r] = "approved"
  BY DEF PollReceived, RequestCleanup, IInv, TypeOK, ApprovalResponse
<1>2. pc[r] \in {"wait", "cleanup"} /\ pc' = [pc EXCEPT ![r] = "done"] /\ chosen' = chosen
  BY DEF PollReceived, RequestCleanup, Goto
<1>3. verdictBar[r] = "waiting"
  BY <1>2 DEF verdictBar
<1>4. verdictBar' = [verdictBar EXCEPT ![r] = v]
  BY <1>1, <1>2 DEF verdictBar, IInv, TypeOK
<1>5. approvalsBar' = approvalsBar
  BY <1>2 DEF approvalsBar
<1>6. v = "approved" => r \in approvalsBar
  BY <1>1 DEF IInv, ChannelsAgree, approvalsBar
<1>7. A!Answer(r, v)
  BY <1>3, <1>4, <1>5, <1>6 DEF A!Answer, verdictBar, approvalsBar
<1>8. QED
  BY <1>7

\* A human's decision is the abstract Choose when it approves, and a stutter when
\* it denies.
LEMMA DecisionChooses ==
  ASSUME IInv, NEW c \in Cockpits, NEW e \in seen[c], NEW v \in ApprovalResponse,
         RespondRemove(c, e, v) \/ RespondUnknown(c, e, v)
  PROVE  A!Choose(e.action) \/ UNCHANGED <<verdictBar, approvalsBar>>
<1>1. /\ chosen' = chosen \cup {[action |-> e.action, verdict |-> v]}
      /\ UNCHANGED <<pc, result>>
  BY DEF RespondRemove, RespondUnknown
<1>2. verdictBar' = verdictBar
  BY <1>1 DEF verdictBar
<1>3. e.action \in Requests /\ verdictBar[e.action] # "unasked"
  BY DEF IInv, TypeOK, Entry, EntriesGenuine, Genuine, ChannelsAgree, ApprovalResponse, verdictBar
<1>4. CASE v = "approved"
  <2>1. approvalsBar' = approvalsBar \cup {e.action}
    BY <1>1, <1>3, <1>4 DEF approvalsBar
  <2>2. QED
    BY <1>2, <1>3, <2>1 DEF A!Choose, verdictBar, approvalsBar
<1>5. CASE v = "denied"
  BY <1>1, <1>2, <1>5 DEF approvalsBar
<1>6. QED
  BY <1>4, <1>5 DEF ApprovalResponse

\* The queue implements the abstract approval: every behaviour of the daemon's queue
\* is one the fail-closed approval contract allows, for any number of asks and cockpits.
THEOREM QueueImplementsApproval == Spec => ImplementsApproval
<1>1. Init => A!Init
  BY DEF Init, A!Init
<1>2. IInv /\ [Next]_vars => [A!Next]_(A!vars)
  <2> SUFFICES ASSUME IInv, [Next]_vars PROVE [A!Next]_(A!vars)
    OBVIOUS
  <2>0. ASSUME UNCHANGED <<verdictBar, approvalsBar>> PROVE [A!Next]_(A!vars)
    BY <2>0 DEF A!vars, verdictBar, approvalsBar
  <2>1. ASSUME NEW r \in Requests, RequestDrawId(r) PROVE [A!Next]_(A!vars)
    BY <2>1, DrawIdAsks DEF A!Next
  <2>2. ASSUME NEW r \in Requests, PollReceived(r) \/ RequestCleanup(r)
        PROVE  [A!Next]_(A!vars)
    BY <2>2, ReturnAnswers DEF A!Next, A!ApprovalResponse, ApprovalResponse
  <2>3. ASSUME NEW r \in Requests,
               RequestInsert(r) \/ PollEmpty(r) \/ PollDeadline(r) \/ DropReceiver(r) \/ Elapse(r)
        PROVE  [A!Next]_(A!vars)
    <3>1. UNCHANGED <<result, chosen>>
      BY <2>3 DEF RequestInsert, PollEmpty, PollDeadline, DropReceiver, Elapse
    <3>2. \A q \in Requests : (pc'[q] = "start" <=> pc[q] = "start") /\ (pc'[q] = "done" <=> pc[q] = "done")
      BY <2>3 DEF RequestInsert, PollEmpty, PollDeadline, DropReceiver, Elapse, Goto, IInv, TypeOK
    <3>3. UNCHANGED <<verdictBar, approvalsBar>>
      BY <3>1, <3>2 DEF verdictBar, approvalsBar
    <3>4. QED
      BY <2>0, <3>3
  <2>4. ASSUME NEW c \in Cockpits, NEW e \in seen[c], NEW v \in ApprovalResponse,
               RespondRemove(c, e, v) \/ RespondUnknown(c, e, v)
        PROVE  [A!Next]_(A!vars)
    <3>1. e.action \in Requests
      BY DEF IInv, TypeOK, Entry
    <3>2. QED
      BY <2>0, <2>4, <3>1, DecisionChooses DEF A!Next
  <2>5. ASSUME NEW c \in Cockpits, Pending(c) \/ RespondSend(c) PROVE [A!Next]_(A!vars)
    <3>1. UNCHANGED <<verdictBar, approvalsBar>>
      BY <2>5 DEF Pending, RespondSend, verdictBar, approvalsBar
    <3>2. QED
      BY <2>0, <3>1
  <2>6. CASE UNCHANGED vars
    <3>1. UNCHANGED <<verdictBar, approvalsBar>>
      BY <2>6 DEF vars, verdictBar, approvalsBar
    <3>2. QED
      BY <2>0, <3>1
  <2>7. QED
    BY <2>1, <2>2, <2>3, <2>4, <2>5, <2>6 DEF Next, Run, Cockpit
<1>3. QED
  BY <1>1, <1>2, QueueInvariant, PTL DEF Spec, ImplementsApproval, A!Safety
=============================================================================
