--------------------------- MODULE ApprovalQueue ---------------------------
(***************************************************************************)
(* The daemon's queue of pending human approvals                           *)
(* (crates/guardian-daemon/src/lib.rs, `ApprovalQueue`).                   *)
(*                                                                         *)
(* A gateway call that is decided `ask` runs `request`: it draws an id,    *)
(* inserts an entry under the lock and awaits a oneshot channel inside     *)
(* tokio's `timeout`.  A cockpit takes a snapshot with `pending`, a human  *)
(* picks an entry of that (possibly stale) snapshot, and `respond` removes *)
(* the entry under the lock and only then sends.  Each lock region and     *)
(* each poll is one action, so `respond` races the deadline and the other  *)
(* cockpits at every point the code lets it.                               *)
(*                                                                         *)
(* tokio's `Timeout::poll` polls the inner future first and the deadline   *)
(* second; the receiver is dropped when the `.await` is left, before the   *)
(* timeout arm of the match removes the entry.                             *)
(***************************************************************************)
EXTENDS Naturals

CONSTANTS
    Requests,  \* the calls that ask; each is one action and runs `request` once
    Cockpits   \* the clients that list and resolve approvals

VARIABLES
    counter,   \* the AtomicU64 ids are drawn from
    pc,        \* where each request's task is
    id,        \* the id a request drew
    pending,   \* the HashMap: entries [id, action]
    chan,      \* each request's oneshot channel: "empty" or the value sent
    elapsed,   \* whether the request's deadline has passed
    result,    \* what `request` returned ("none" while it runs)
    seen,      \* each cockpit's last snapshot of `pending`
    hand,      \* the entry a cockpit's `respond` removed and is about to send on
    chosen,    \* history: the verdicts humans chose, [action, verdict]
    acked      \* history: the verdicts for which `respond` returned true

vars == <<counter, pc, id, pending, chan, elapsed, result, seen, hand, chosen, acked>>

ApprovalResponse == {"approved", "denied"}
Entry == [id : Nat, action : Requests]
Choice == [action : Requests, verdict : ApprovalResponse]
Idle == [busy |-> FALSE]
Sending == [busy : {TRUE}, entry : Entry, verdict : ApprovalResponse]

\* The states of a request's task, in the order of the code.
PCs == {"start", "insert", "wait", "polled", "expired", "cleanup", "done"}

\* The receiver lives from the channel's creation until the await is left.
RxOpen(r) == pc[r] \in {"insert", "wait", "polled", "expired"}

Remove(i) == {e \in pending : e.id # i}

TypeOK ==
    /\ counter \in Nat
    /\ pc \in [Requests -> PCs]
    /\ id \in [Requests -> Nat]
    /\ pending \in SUBSET Entry
    /\ chan \in [Requests -> ApprovalResponse \cup {"empty"}]
    /\ elapsed \in [Requests -> BOOLEAN]
    /\ result \in [Requests -> ApprovalResponse \cup {"none"}]
    /\ seen \in [Cockpits -> SUBSET Entry]
    /\ hand \in [Cockpits -> Sending \cup {Idle}]
    /\ chosen \in SUBSET Choice
    /\ acked \in SUBSET Choice

Init ==
    /\ counter = 0
    /\ pc = [r \in Requests |-> "start"]
    /\ id = [r \in Requests |-> 0]
    /\ pending = {}
    /\ chan = [r \in Requests |-> "empty"]
    /\ elapsed = [r \in Requests |-> FALSE]
    /\ result = [r \in Requests |-> "none"]
    /\ seen = [c \in Cockpits |-> {}]
    /\ hand = [c \in Cockpits |-> Idle]
    /\ chosen = {}
    /\ acked = {}
-----------------------------------------------------------------------------
(* `request`: the caller's task. *)

Goto(r, from, to) ==
    /\ pc[r] = from
    /\ pc' = [pc EXCEPT ![r] = to]

\* Faults (definitions named Bad...) that the properties below must detect; no
\* specification uses them.  Here: the id is loaded but the counter not advanced,
\* and the counter runs the wrong way.
BadDrawIdNoIncrement(r) ==
    /\ Goto(r, "start", "insert")
    /\ id' = [id EXCEPT ![r] = counter]
    /\ UNCHANGED <<counter, pending, chan, elapsed, result, seen, hand, chosen, acked>>

\* `counter.fetch_add(1)` and the creation of the channel.
RequestDrawId(r) ==
    /\ Goto(r, "start", "insert")
    /\ id' = [id EXCEPT ![r] = counter]
    /\ counter' = counter + 1
    /\ UNCHANGED <<pending, chan, elapsed, result, seen, hand, chosen, acked>>

\* `pending.insert(id, Entry { .. })` under the lock (a HashMap insert replaces).
RequestInsert(r) ==
    /\ Goto(r, "insert", "wait")
    /\ pending' = Remove(id[r]) \cup {[id |-> id[r], action |-> r]}
    /\ UNCHANGED <<counter, id, chan, elapsed, result, seen, hand, chosen, acked>>

\* The timer of `timeout(self.timeout, rx)` passes while the call waits.
Elapse(r) ==
    /\ pc[r] \in {"wait", "polled"}
    /\ ~elapsed[r]
    /\ elapsed' = [elapsed EXCEPT ![r] = TRUE]
    /\ UNCHANGED <<counter, pc, id, pending, chan, result, seen, hand, chosen, acked>>

\* `Timeout::poll`, first half: a value in the channel is the answer.
PollReceived(r) ==
    /\ chan[r] # "empty"
    /\ Goto(r, "wait", "done")
    /\ result' = [result EXCEPT ![r] = chan[r]]
    /\ UNCHANGED <<counter, id, pending, chan, elapsed, seen, hand, chosen, acked>>

PollEmpty(r) ==
    /\ chan[r] = "empty"
    /\ Goto(r, "wait", "polled")
    /\ UNCHANGED <<counter, id, pending, chan, elapsed, result, seen, hand, chosen, acked>>

\* Fault: the await has no deadline.
BadPollNoDeadline(r) ==
    /\ Goto(r, "polled", "wait")
    /\ UNCHANGED <<counter, id, pending, chan, elapsed, result, seen, hand, chosen, acked>>

\* `Timeout::poll`, second half: the deadline.  Not reached: suspend again.
PollDeadline(r) ==
    /\ Goto(r, "polled", IF elapsed[r] THEN "expired" ELSE "wait")
    /\ UNCHANGED <<counter, id, pending, chan, elapsed, result, seen, hand, chosen, acked>>

\* Leaving the await drops the receiver; whatever was sent into it is lost.
DropReceiver(r) ==
    /\ Goto(r, "expired", "cleanup")
    /\ UNCHANGED <<counter, id, pending, chan, elapsed, result, seen, hand, chosen, acked>>

\* Fault: the timeout arm leaves the entry behind.
BadCleanupKeepsEntry(r) ==
    /\ Goto(r, "cleanup", "done")
    /\ result' = [result EXCEPT ![r] = "denied"]
    /\ UNCHANGED <<counter, id, pending, chan, elapsed, seen, hand, chosen, acked>>

\* The timeout arm: `self.lock().remove(&id)` and `ApprovalResponse::Denied`.
RequestCleanup(r) ==
    /\ Goto(r, "cleanup", "done")
    /\ pending' = Remove(id[r])
    /\ result' = [result EXCEPT ![r] = "denied"]
    /\ UNCHANGED <<counter, id, chan, elapsed, seen, hand, chosen, acked>>
-----------------------------------------------------------------------------
(* The cockpit's side. *)

\* `pending()`: a snapshot taken under the lock.
Pending(c) ==
    /\ hand[c] = Idle
    /\ seen' = [seen EXCEPT ![c] = pending]
    /\ UNCHANGED <<counter, pc, id, pending, chan, elapsed, result, hand, chosen, acked>>

\* Fault: `respond` looks the entry up without removing it.
BadRespondKeepsEntry(c, e, v) ==
    /\ hand[c] = Idle
    /\ e \in seen[c]
    /\ \E f \in pending :
           /\ f.id = e.id
           /\ hand' = [hand EXCEPT ![c] = [busy |-> TRUE, entry |-> f, verdict |-> v]]
    /\ chosen' = chosen \cup {[action |-> e.action, verdict |-> v]}
    /\ UNCHANGED <<counter, pc, id, pending, chan, elapsed, result, seen, acked>>

\* A human picks entry e of the snapshot and `respond` looks its id up under the
\* lock.  Still there: it is removed, and the sender is in hand.
RespondRemove(c, e, v) ==
    /\ hand[c] = Idle
    /\ e \in seen[c]
    /\ \E f \in pending :
           /\ f.id = e.id
           /\ hand' = [hand EXCEPT ![c] = [busy |-> TRUE, entry |-> f, verdict |-> v]]
    /\ pending' = Remove(e.id)
    /\ chosen' = chosen \cup {[action |-> e.action, verdict |-> v]}
    /\ UNCHANGED <<counter, pc, id, chan, elapsed, result, seen, acked>>

\* Answered or timed out since the snapshot: `respond` returns false.
RespondUnknown(c, e, v) ==
    /\ hand[c] = Idle
    /\ e \in seen[c]
    /\ \A f \in pending : f.id # e.id
    /\ chosen' = chosen \cup {[action |-> e.action, verdict |-> v]}
    /\ UNCHANGED <<counter, pc, id, pending, chan, elapsed, result, seen, hand, acked>>

\* `entry.responder.send(response).is_ok()`: fails once the receiver is gone.
RespondSend(c) ==
    /\ hand[c] # Idle
    /\ LET r == hand[c].entry.action
           v == hand[c].verdict
       IN IF RxOpen(r)
          THEN /\ chan' = [chan EXCEPT ![r] = v]
               /\ acked' = acked \cup {[action |-> r, verdict |-> v]}
          ELSE UNCHANGED <<chan, acked>>
    /\ hand' = [hand EXCEPT ![c] = Idle]
    /\ UNCHANGED <<counter, pc, id, pending, elapsed, result, seen, chosen>>
-----------------------------------------------------------------------------
\* Everything the executor drives a request's task through.
Run(r) ==
    \/ RequestInsert(r)
    \/ PollReceived(r)
    \/ PollEmpty(r)
    \/ PollDeadline(r)
    \/ DropReceiver(r)
    \/ RequestCleanup(r)

Cockpit(c) ==
    \/ Pending(c)
    \/ \E e \in seen[c], v \in ApprovalResponse :
           RespondRemove(c, e, v) \/ RespondUnknown(c, e, v)
    \/ RespondSend(c)

Next ==
    \/ \E r \in Requests : RequestDrawId(r) \/ Run(r) \/ Elapse(r)
    \/ \E c \in Cockpits : Cockpit(c)

\* The runtime polls a woken task and the clock passes every deadline.  Nothing
\* is assumed of the humans or of the cockpits.
Fairness == \A r \in Requests : WF_vars(Run(r)) /\ WF_vars(Elapse(r))

Spec == Init /\ [][Next]_vars

FairSpec == Spec /\ Fairness
-----------------------------------------------------------------------------
(* What the queue promises. *)

\* A request that is awaiting can still be answered: its entry is listed, or a
\* `respond` holds its sender, or the value is already in the channel.  Whatever
\* the cockpits race for, no sender is dropped unsent under a waiting caller (so
\* the `responder was dropped` arm of `request` never runs).
WaiterIsAnswerable ==
    \A r \in Requests : pc[r] \in {"wait", "polled", "expired"} =>
        \/ [id |-> id[r], action |-> r] \in pending
        \/ \E c \in Cockpits : hand[c] # Idle /\ hand[c].entry.action = r
        \/ chan[r] # "empty"

\* `pending()` lists no request that has returned: a human is never shown, and
\* asked to decide, an action whose fate is settled.
NothingPendingIsSettled ==
    \A e \in pending : pc[e.action] \notin {"start", "insert", "done"}

\* An approval is authentic: `request` returns Approved only for an action some
\* human looked at and chose to approve, never for another action's approval.
ApprovalIsAuthentic ==
    \A r \in Requests :
        result[r] = "approved" => [action |-> r, verdict |-> "approved"] \in chosen

\* A denial for which `respond` returned true is final: the action is not approved,
\* although a second cockpit may have chosen to approve it at the same time.
AckedDenialIsFinal ==
    \A r \in Requests :
        [action |-> r, verdict |-> "denied"] \in acked => result[r] # "approved"

(* The inductive strengthening the proofs rest on. *)

\* Entry e is, or was, the one its action inserted.
Genuine(e) == pc[e.action] \notin {"start", "insert"} /\ id[e.action] = e.id

\* Ids are drawn once.
IdsUnique ==
    /\ \A r \in Requests : pc[r] # "start" => id[r] < counter
    /\ \A r, q \in Requests :
           r # q /\ pc[r] # "start" /\ pc[q] # "start" => id[r] # id[q]

\* A listed entry is unanswered and unsettled; a snapshot may be stale, but it
\* never shows an action under another action's id.
EntriesGenuine ==
    /\ \A e \in pending : Genuine(e) /\ pc[e.action] # "done" /\ chan[e.action] = "empty"
    /\ \A c \in Cockpits : \A e \in seen[c] : Genuine(e)

\* A sender in hand is the only one for its action, its verdict a human's.
HandsGenuine ==
    \A c \in Cockpits : hand[c] # Idle =>
        LET r == hand[c].entry.action IN
        /\ Genuine(hand[c].entry)
        /\ chan[r] = "empty"
        /\ [action |-> r, verdict |-> hand[c].verdict] \in chosen
        /\ \A e \in pending : e.action # r
        /\ \A d \in Cockpits : d # c /\ hand[d] # Idle => hand[d].entry.action # r

\* The channel holds exactly the acknowledged verdict, and Approved comes out of
\* `request` only through the channel.
ChannelsAgree ==
    /\ \A a \in acked : a \in chosen /\ chan[a.action] = a.verdict
    /\ \A r \in Requests :
           /\ pc[r] \in {"start", "insert"} => chan[r] = "empty"
           /\ chan[r] # "empty" => [action |-> r, verdict |-> chan[r]] \in acked
           /\ result[r] = "none" <=> pc[r] # "done"
           /\ result[r] = "approved" => chan[r] = "approved"

IInv ==
    /\ TypeOK
    /\ IdsUnique
    /\ EntriesGenuine
    /\ HandsGenuine
    /\ ChannelsAgree
    /\ WaiterIsAnswerable

\* The queue implements the abstract approval.
A == INSTANCE Approval WITH
        verdict <- [r \in Requests |->
                       IF pc[r] = "start" THEN "unasked"
                       ELSE IF pc[r] = "done" THEN result[r]
                       ELSE "waiting"],
        approvals <- {r \in Requests : [action |-> r, verdict |-> "approved"] \in chosen}

ImplementsApproval == A!Safety

\* Fail closed and never hang: every request that entered the queue returns.
EveryRequestReturns == A!Answered
=============================================================================
