------------------------------ MODULE AuditLog ------------------------------
(***************************************************************************)
(* The hash-chained audit log (crates/guardian-audit/src/lib.rs) in one    *)
(* SQLite file that several processes open at once: the daemon, `guardian  *)
(* exec`, `guardian proxy`, `guardian pack`, `guardian log`.  A connection *)
(* is an AuditLog value, used by one thread at a time.                     *)
(*                                                                         *)
(* SQLite is external: a rollback journal, so a reader holds SHARED, one   *)
(* writer at a time holds RESERVED, and a commit takes PENDING (no new     *)
(* readers) and waits for the readers there are; `transaction()` is        *)
(* deferred, so `append` reads under SHARED and only then becomes the      *)
(* writer.  Waiting ends with SQLITE_BUSY after rusqlite's timeout; a      *)
(* reader that finds a writer when it wants to write gets it at once.      *)
(*                                                                         *)
(* blake3 is modelled as free of collisions: the hash of an entry after a  *)
(* previous hash is the sequence of all entries hashed so far.  A          *)
(* signature of the head is the head that was signed.                      *)
(***************************************************************************)
EXTENDS Integers, Sequences, FiniteSets

CONSTANTS
    Conns,      \* connections to the database file
    Signers,    \* those opened with a signing key
    MaxEntries  \* bound: how many appends there are

ASSUME ConnsAssumption == Signers \subseteq Conns
ASSUME EntriesAssumption == MaxEntries \in Nat

\* The entries, numbered in the order in which their appends begin.
Entries == 1..MaxEntries

VARIABLES
    \* The file: the tables audit_log, audit_head and audit_head_sig.
    rows, head, sig,
    \* A connection: where it is, the row it writes, what it verified.
    pc, tx, walked, verdict,
    status,     \* of each entry: "new", "open", then "ok", "err" or "lost"
    \* History: the file was edited behind the log's back; it was when a verification
    \* began; somebody committed while a verification was between its two reads.
    damaged, seenDamage, overlapped

fileVars == <<rows, head, sig>>
history == <<damaged, seenDamage, overlapped>>
vars == <<rows, head, sig, pc, tx, walked, verdict, status,
          damaged, seenDamage, overlapped>>

GENESIS == <<>>
NoHead == [seq |-> -1, hash |-> GENESIS]
\* Entry 0 is none.
NoTx == [entry |-> 0, seq |-> 0, prev_hash |-> GENESIS, hash |-> GENESIS]
\* Nothing signed yet.
NoSig == NoHead

\* `chain_hash`.
ChainHash(prev, content) == Append(prev, content)

NextEntry(e) == status[e] = "new" /\ \A d \in 1..(e - 1) : status[d] # "new"

\* The connection is used for something else: its last verdict was taken note of.
Forget(c) ==
    /\ verdict' = [verdict EXCEPT ![c] = "none"]
    /\ seenDamage' = [seenDamage EXCEPT ![c] = FALSE]
    /\ overlapped' = [overlapped EXCEPT ![c] = FALSE]

Goto(c, loc) == pc' = [pc EXCEPT ![c] = loc]

\* What the other connections hold of the file.
Readers(c) == {d \in Conns \ {c} : pc[d] \in {"shared", "reserved", "pending", "walk"}}
Writers(c) == {d \in Conns \ {c} : pc[d] \in {"reserved", "pending"}}
Committing(c) == {d \in Conns \ {c} : pc[d] = "pending"}
-----------------------------------------------------------------------------
Init ==
    /\ rows = <<>>
    /\ head = NoHead
    /\ sig = NoSig
    /\ pc = [c \in Conns |-> "closed"]
    /\ tx = [c \in Conns |-> NoTx]
    /\ walked = [c \in Conns |-> NoHead]
    /\ verdict = [c \in Conns |-> "none"]
    /\ status = [e \in Entries |-> "new"]
    /\ damaged = FALSE
    /\ seenDamage = [c \in Conns |-> FALSE]
    /\ overlapped = [c \in Conns |-> FALSE]

\* `open` and `open_signed`: `from_conn` makes the head of an empty log, once.
Open(c) ==
    /\ pc[c] = "closed"
    /\ Writers(c) = {}
    /\ head' = IF head = NoHead THEN [seq |-> 0, hash |-> GENESIS] ELSE head
    /\ Goto(c, "idle")
    /\ UNCHANGED <<rows, sig, tx, walked, verdict, status, history>>
-----------------------------------------------------------------------------
(* `append`, a deferred transaction. *)

\* BEGIN and the SELECT of the head.
AppendRead(c, e) ==
    /\ pc[c] = "idle"
    /\ NextEntry(e)
    /\ Committing(c) = {}
    /\ Forget(c)
    /\ tx' = [tx EXCEPT ![c] = [entry |-> e, seq |-> head.seq + 1, prev_hash |-> head.hash,
                                hash |-> ChainHash(head.hash, e)]]
    /\ status' = [status EXCEPT ![e] = "open"]
    /\ Goto(c, "shared")
    /\ UNCHANGED <<fileVars, walked, damaged>>

\* ... which waits for a commit in progress, too long.
AppendReadBusy(c, e) ==
    /\ pc[c] = "idle"
    /\ NextEntry(e)
    /\ Committing(c) # {}
    /\ status' = [status EXCEPT ![e] = "err"]
    /\ UNCHANGED <<fileVars, pc, tx, walked, verdict, history>>

\* Fault: INSERT OR REPLACE.
BadAppendInsertReplaces(c) ==
    /\ pc[c] = "shared"
    /\ Writers(c) = {}
    /\ Goto(c, "reserved")
    /\ UNCHANGED <<fileVars, tx, walked, verdict, status, history>>

\* The INSERT makes the connection the writer; the UPDATE of the head and the
\* signature follow under the same lock and show only once committed.
AppendInsert(c) ==
    /\ pc[c] = "shared"
    /\ Writers(c) = {}
    /\ tx[c].seq \notin DOMAIN rows
    /\ Goto(c, "reserved")
    /\ UNCHANGED <<fileVars, tx, walked, verdict, status, history>>

\* `append` returns an error, and dropping the transaction rolls it back.
Rollback(c) ==
    /\ status' = [e \in Entries |-> IF e = tx[c].entry THEN "err" ELSE status[e]]
    /\ tx' = [tx EXCEPT ![c] = NoTx]
    /\ Goto(c, "idle")
    /\ UNCHANGED <<fileVars, walked, verdict, history>>

\* Fault: the error of the INSERT is dropped on the way.
BadAppendInsertFailsSilently(c) ==
    /\ pc[c] = "shared"
    /\ Writers(c) # {} \/ tx[c].seq \in DOMAIN rows
    /\ status' = [e \in Entries |-> IF e = tx[c].entry THEN "ok" ELSE status[e]]
    /\ tx' = [tx EXCEPT ![c] = NoTx]
    /\ Goto(c, "idle")
    /\ UNCHANGED <<fileVars, walked, verdict, history>>

\* Another writer, or the row is there already (the primary key).
AppendInsertFails(c) ==
    /\ pc[c] = "shared"
    /\ Writers(c) # {} \/ tx[c].seq \in DOMAIN rows
    /\ Rollback(c)

\* COMMIT: no new readers from here.
AppendPending(c) ==
    /\ pc[c] = "reserved"
    /\ Goto(c, "pending")
    /\ UNCHANGED <<fileVars, tx, walked, verdict, status, history>>

Between == {d \in Conns : pc[d] \in {"head", "sig"}}

\* Fault: the head is not moved.
BadAppendCommitKeepsHead(c) ==
    /\ pc[c] = "pending"
    /\ Readers(c) = {}
    /\ rows' = [n \in DOMAIN rows \cup {tx[c].seq} |->
                    IF n = tx[c].seq
                    THEN [content |-> tx[c].entry,
                          prev_hash |-> tx[c].prev_hash, hash |-> tx[c].hash]
                    ELSE rows[n]]
    /\ overlapped' = [d \in Conns |-> overlapped[d] \/ d \in Between]
    /\ Goto(c, "committed")
    /\ UNCHANGED <<head, sig, tx, walked, verdict, status, damaged, seenDamage>>

AppendCommit(c) ==
    /\ pc[c] = "pending"
    /\ Readers(c) = {}
    /\ rows' = [n \in DOMAIN rows \cup {tx[c].seq} |->
                    IF n = tx[c].seq
                    THEN [content |-> tx[c].entry,
                          prev_hash |-> tx[c].prev_hash, hash |-> tx[c].hash]
                    ELSE rows[n]]
    /\ head' = [seq |-> tx[c].seq, hash |-> tx[c].hash]
    /\ sig' = IF c \in Signers THEN head' ELSE sig
    /\ overlapped' = [d \in Conns |-> overlapped[d] \/ d \in Between]
    /\ Goto(c, "committed")
    /\ UNCHANGED <<tx, walked, verdict, status, damaged, seenDamage>>

\* Fault: a COMMIT that times out is tried again, for ever.
BadAppendCommitBusyRetries(c) ==
    /\ pc[c] = "pending"
    /\ Readers(c) # {}
    /\ Goto(c, "reserved")
    /\ UNCHANGED <<fileVars, tx, walked, verdict, status, history>>

\* A reader outlasts the timeout of the COMMIT.
AppendCommitBusy(c) ==
    /\ pc[c] = "pending"
    /\ Readers(c) # {}
    /\ Rollback(c)

\* The disk is full, or fails.
AppendIoError(c) ==
    /\ pc[c] \in {"reserved", "pending"}
    /\ Rollback(c)

AppendReturn(c) ==
    /\ pc[c] = "committed"
    /\ status' = [e \in Entries |-> IF e = tx[c].entry THEN "ok" ELSE status[e]]
    /\ tx' = [tx EXCEPT ![c] = NoTx]
    /\ Goto(c, "idle")
    /\ UNCHANGED <<fileVars, walked, verdict, history>>
-----------------------------------------------------------------------------
(* `verify`: the walk of `verify_chain` is one SELECT, the head is a second and *)
(* the signature a third, each a read transaction of its own.                   *)

VerifyStart(c) ==
    /\ pc[c] = "idle"
    /\ Committing(c) = {}
    /\ seenDamage' = [seenDamage EXCEPT ![c] = damaged]
    /\ overlapped' = [overlapped EXCEPT ![c] = FALSE]
    /\ verdict' = [verdict EXCEPT ![c] = "none"]
    /\ Goto(c, "walk")
    /\ UNCHANGED <<fileVars, tx, walked, status, damaged>>

\* The hash the walk holds before row n.
PrevHash(n) == IF n = 1 THEN GENESIS ELSE rows[n - 1].hash

\* Fault: the walk checks the links and not the contents.
BadLinks(n) == rows[n].prev_hash = PrevHash(n)

Links(n) ==
    /\ rows[n].prev_hash = PrevHash(n)
    /\ rows[n].hash = ChainHash(PrevHash(n), rows[n].content)

\* Row by row the sequence numbers are 1, 2, 3, ...
WalkPasses ==
    /\ DOMAIN rows = 1..Cardinality(DOMAIN rows)
    /\ \A n \in DOMAIN rows : Links(n)

ChainEnd ==
    LET n == Cardinality(DOMAIN rows) IN [seq |-> n, hash |-> PrevHash(n + 1)]

Conclude(c, v) ==
    /\ verdict' = [verdict EXCEPT ![c] = v]
    /\ walked' = [walked EXCEPT ![c] = NoHead]
    /\ Goto(c, "idle")

VerifyWalk(c) ==
    /\ pc[c] = "walk"
    /\ \/ /\ WalkPasses
          /\ walked' = [walked EXCEPT ![c] = ChainEnd]
          /\ Goto(c, "head")
          /\ UNCHANGED verdict
       \/ /\ ~WalkPasses
          /\ Conclude(c, "tampered")
    /\ UNCHANGED <<fileVars, tx, status, history>>

VerifyHead(c) ==
    /\ pc[c] = "head"
    /\ Committing(c) = {}
    /\ \/ /\ head # walked[c]
          /\ Conclude(c, "tampered")
       \/ /\ head = walked[c] /\ c \notin Signers
          /\ Conclude(c, "ok")
       \/ /\ head = walked[c] /\ c \in Signers
          /\ Goto(c, "sig")
          /\ UNCHANGED <<verdict, walked>>
    /\ UNCHANGED <<fileVars, tx, status, history>>

\* `verify_head_sig`: no signature, or that of another head, is tampering.
VerifySig(c) ==
    /\ pc[c] = "sig"
    /\ Committing(c) = {}
    /\ Conclude(c, IF sig = walked[c] THEN "ok" ELSE "tampered")
    /\ UNCHANGED <<fileVars, tx, status, history>>

\* A read waits for a commit in progress, too long; of the signature's, no error is told
\* from a signature that is missing.
VerifyBusy(c) ==
    /\ pc[c] \in {"head", "sig"}
    /\ Committing(c) # {}
    /\ Conclude(c, IF pc[c] = "sig" THEN "tampered" ELSE "error")
    /\ UNCHANGED <<fileVars, tx, status, history>>
-----------------------------------------------------------------------------
(* The environment. *)

\* The process dies: its locks go, its transaction is rolled back by the next
\* reader of the journal, and nobody learns what became of its append.
Crash(c) ==
    /\ pc[c] # "closed"
    /\ status' = [e \in Entries |-> IF e = tx[c].entry THEN "lost" ELSE status[e]]
    /\ tx' = [tx EXCEPT ![c] = NoTx]
    /\ walked' = [walked EXCEPT ![c] = NoHead]
    /\ Forget(c)
    /\ Goto(c, "closed")
    /\ UNCHANGED <<fileVars, damaged>>

\* One change of the file that is not an append: a row edited, a row deleted (the
\* tail or the middle), or an older head restored.
Damage ==
    /\ ~damaged
    /\ \A c \in Conns : pc[c] \notin {"shared", "reserved", "pending", "walk"}
    /\ \/ \E n \in DOMAIN rows : \E e \in Entries \ {rows[n].content} :
              rows' = [rows EXCEPT ![n] = [@ EXCEPT !.content = e]] /\ head' = head
       \/ \E n \in DOMAIN rows :
              rows' = [m \in DOMAIN rows \ {n} |-> rows[m]] /\ head' = head
       \/ \E n \in DOMAIN rows :
              head' = [seq |-> n - 1, hash |-> PrevHash(n)] /\ rows' = rows
    /\ damaged' = TRUE
    /\ UNCHANGED <<sig, pc, tx, walked, verdict, status, seenDamage, overlapped>>
-----------------------------------------------------------------------------
AppendSteps(c) ==
    AppendInsert(c) \/ AppendInsertFails(c) \/ AppendPending(c) \/ AppendCommit(c)
    \/ AppendCommitBusy(c) \/ AppendReturn(c)

VerifySteps(c) == VerifyWalk(c) \/ VerifyHead(c) \/ VerifySig(c) \/ VerifyBusy(c)

Next ==
    \/ \E c \in Conns :
           \/ Open(c)
           \/ \E e \in Entries : AppendRead(c, e) \/ AppendReadBusy(c, e)
           \/ AppendSteps(c)
           \/ AppendIoError(c)
           \/ VerifyStart(c)
           \/ VerifySteps(c)
           \/ Crash(c)
    \/ Damage

Spec == Init /\ [][Next]_vars

\* A process that has begun an append or a verification goes on.
Fairness == \A c \in Conns : WF_vars(AppendSteps(c)) /\ WF_vars(VerifySteps(c))

FairSpec == Spec /\ Fairness
-----------------------------------------------------------------------------
Row == [content : Entries, prev_hash : Seq(Entries), hash : Seq(Entries)]
Tx == [entry : Nat, seq : Nat, prev_hash : Seq(Entries), hash : Seq(Entries)]
HeadRow == [seq : Int, hash : Seq(Entries)]
Location == {"closed", "idle", "shared", "reserved", "pending", "committed",
             "walk", "head", "sig"}

TypeOK ==
    /\ DOMAIN rows \subseteq Nat \ {0} /\ IsFiniteSet(DOMAIN rows)
    /\ rows \in [DOMAIN rows -> Row]
    /\ head \in HeadRow /\ sig \in HeadRow
    /\ pc \in [Conns -> Location]
    /\ tx \in [Conns -> Tx]
    /\ walked \in [Conns -> HeadRow]
    /\ verdict \in [Conns -> {"none", "ok", "tampered", "error"}]
    /\ status \in [Entries -> {"new", "open", "ok", "err", "lost"}]
    /\ damaged \in BOOLEAN
    /\ seenDamage \in [Conns -> BOOLEAN]
    /\ overlapped \in [Conns -> BOOLEAN]

\* The entries of the first n rows, in order.
Contents(n) == [m \in 1..n |-> rows[m].content]

\* However the appends of several processes interleave, fail and crash, the file
\* holds one chain without gaps: the hash of a row commits to exactly the entries up
\* to it, and the head is the last row.
LogIsChain ==
    (~damaged /\ head # NoHead) =>
        /\ DOMAIN rows = 1..head.seq
        /\ \A n \in 1..head.seq :
               /\ rows[n].hash = Contents(n)
               /\ rows[n].prev_hash = Contents(n - 1)
        /\ head.hash = Contents(head.seq)

\* `append` tells the truth, which fail-closed recording rests on: an entry reported
\* appended is in the log, exactly once; one reported failed is not in it and never
\* will be.
AppendsAreTruthful ==
    ~damaged =>
        \A e \in Entries :
            LET places == {n \in DOMAIN rows : rows[n].content = e} IN
            /\ status[e] = "ok" => \E n \in places : places = {n}
            /\ status[e] \in {"new", "err"} => places = {}

\* What the abstract ledger sees of the file: the entries of the rows up to the head, and
\* once the file was damaged, those the head's hash commits to.
Committed == IF damaged THEN head.hash ELSE Contents(head.seq)
Abstract == INSTANCE Ledger WITH log <- Committed, tampered <- damaged

\* The log is a ledger: each append of any process puts its entry at the end of one
\* sequence or leaves it alone, and reports which; an entry reported failed is never in
\* it, not even after the head was rolled back.
ImplementsLedger == Abstract!Spec

\* No operation of the log changes or removes a row that is there, not even of a log
\* that was damaged: the evidence is kept.
AppendOnly ==
    [][Damage \/ \A n \in DOMAIN rows : n \in DOMAIN rows' /\ rows'[n] = rows[n]]_vars

\* A verification that began after the damage does not pass, whatever was appended
\* since; and one of the chain (without a key) raises the alarm only over damage, or
\* if somebody committed between its two reads.
VerdictIsRight ==
    \A c \in Conns :
        /\ verdict[c] = "ok" => ~seenDamage[c]
        /\ (verdict[c] = "tampered" /\ c \notin Signers) => damaged \/ overlapped[c]

\* Two deferred transactions that wait for each other do not wait for ever: every
\* append returns, unless its process dies.
AppendReturns == \A e \in Entries : status[e] = "open" ~> status[e] # "open"
-----------------------------------------------------------------------------
(* The inductive invariant the proofs rest on. *)

\* There is a head once somebody opened the log, and rows only with a head.
HeadIsMade ==
    /\ head = NoHead => DOMAIN rows = {} /\ ~damaged /\ \A c \in Conns : pc[c] = "closed"
    /\ head # NoHead => head.seq >= 0

\* A connection in an append has an open entry of its own and the head as it is: while
\* it holds a lock nobody else can commit.
TxIsFresh ==
    \A c \in Conns :
        /\ pc[c] \in {"shared", "reserved", "pending", "committed"} =>
               /\ tx[c].entry \in Entries
               /\ status[tx[c].entry] = "open"
               /\ \A d \in Conns \ {c} : tx[d].entry # tx[c].entry
        /\ pc[c] \notin {"shared", "reserved", "pending", "committed"} => tx[c] = NoTx
        /\ pc[c] \in {"shared", "reserved", "pending"} =>
               /\ tx[c].seq = head.seq + 1
               /\ tx[c].prev_hash = head.hash
               /\ tx[c].hash = ChainHash(head.hash, tx[c].entry)
        /\ pc[c] \in {"reserved", "pending"} =>
               Writers(c) = {} /\ tx[c].seq \notin DOMAIN rows

\* An entry that was committed and not yet reported is in the log, once.
CommitIsThere ==
    ~damaged =>
        \A c \in Conns : pc[c] = "committed" =>
            /\ tx[c].seq \in DOMAIN rows
            /\ \A n \in DOMAIN rows : rows[n].content = tx[c].entry <=> n = tx[c].seq

\* An entry that is being appended is in the log only once its commit is done.
OpenIsAbsent ==
    ~damaged =>
        \A e \in Entries : \A n \in DOMAIN rows :
            (rows[n].content = e /\ status[e] = "open") =>
                \E c \in Conns : pc[c] = "committed" /\ tx[c].entry = e

\* Damage or not, what the head commits to was appended: an entry that is still open
\* has been committed, and none was reported failed.
HeadIsOwned ==
    \A n \in 1..Len(head.hash) :
        LET e == head.hash[n] IN
        /\ status[e] \notin {"new", "err"}
        /\ status[e] = "open" => \E c \in Conns : pc[c] = "committed" /\ tx[c].entry = e

\* Where the file shows the damage: a row that does not hash, a row missing below
\* the head, or a row above it.
Evident ==
    \/ \E n \in DOMAIN rows : rows[n].hash # ChainHash(rows[n].prev_hash, rows[n].content)
    \/ \E n \in 1..head.seq : n \notin DOMAIN rows
    \/ head.seq + 1 \in DOMAIN rows

\* A verification between its reads: what it walked is the head, or there is a reason;
\* and if it walked a damaged log, the head will not be what it walked.
WalkIsRight ==
    /\ damaged => Evident
    /\ \A c \in Conns : pc[c] \in {"walk", "head", "sig"} =>
           /\ seenDamage[c] => damaged
           /\ pc[c] = "head" /\ ~damaged /\ ~overlapped[c] => walked[c] = head
           /\ seenDamage[c] /\ pc[c] = "head" =>
                  \/ walked[c].seq < head.seq
                  \/ walked[c].seq > head.seq /\ head.seq + 1 \in DOMAIN rows
           /\ pc[c] = "sig" => ~seenDamage[c] /\ c \in Signers

IInv ==
    /\ TypeOK /\ HeadIsMade /\ TxIsFresh /\ CommitIsThere /\ OpenIsAbsent /\ WalkIsRight
    /\ LogIsChain /\ AppendsAreTruthful /\ VerdictIsRight
-----------------------------------------------------------------------------
\* The documented verdict (main.rs:907 "the integrity status"; open_audit, main.rs:47
\* of the daemon, "refuse to start on a broken/tampered chain"): the chain of a log
\* that nobody touched is never reported tampered.
NoFalseAlarm ==
    \A c \in Conns : (verdict[c] = "tampered" /\ c \notin Signers) => damaged
=============================================================================
