------------------------------- MODULE Ledger -------------------------------
(***************************************************************************)
(* What the audit log promises those who write to it, whatever stores it:  *)
(* one sequence of entries that every append extends by its entry or not   *)
(* at all, and an answer that says which.  Who dies before the answer does *)
(* not learn it.  Somebody who tampers with the store may cut the sequence *)
(* short, once; the log goes on from there, and only an `ok` given before  *)
(* or since may then be of an entry that is gone.                          *)
(***************************************************************************)
EXTENDS Sequences, Naturals

CONSTANT Entries

VARIABLES
    log,      \* the entries, oldest first
    status,   \* of each entry: "new", "open", then "ok", "err" or "lost"
    tampered  \* somebody has cut the log short

vars == <<log, status, tampered>>

Answers == {"ok", "err", "lost"}
In(e, s) == \E n \in 1..Len(s) : s[n] = e

Init ==
    /\ log = <<>>
    /\ status = [e \in Entries |-> "new"]
    /\ tampered = FALSE

\* An append begins, or is refused at once.
Begin(e) ==
    /\ status[e] = "new"
    /\ \E s \in {"open", "err"} : status' = [status EXCEPT ![e] = s]
    /\ UNCHANGED <<log, tampered>>

Commit(e) ==
    /\ status[e] = "open"
    /\ ~In(e, log)
    /\ log' = Append(log, e)
    /\ UNCHANGED <<status, tampered>>

Answer(e, s) ==
    /\ status[e] = "open"
    /\ s = "ok" => In(e, log) \/ tampered
    /\ s = "err" => ~In(e, log)
    /\ status' = [status EXCEPT ![e] = s]
    /\ UNCHANGED <<log, tampered>>

Tamper ==
    /\ ~tampered
    /\ tampered' = TRUE
    /\ \E n \in 0..Len(log) : log' = SubSeq(log, 1, n)
    /\ UNCHANGED status

Next ==
    \/ \E e \in Entries : Begin(e) \/ Commit(e) \/ \E s \in Answers : Answer(e, s)
    \/ Tamper

Spec == Init /\ [][Next]_vars
=============================================================================
