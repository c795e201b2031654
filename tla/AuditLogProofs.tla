--------------------------- MODULE AuditLogProofs ---------------------------
(***************************************************************************)
(* The audit log for any number of processes and appends: the file holds   *)
(* one chain, append tells the truth, rows are never rewritten, damage is  *)
(* never passed over.  One lemma per conjunct of IInv shows that a step    *)
(* preserves it.                                                           *)
(***************************************************************************)
EXTENDS AuditLog, FiniteSetTheorems, TLAPS

\* A commit writes this row.
NewRow(c) == [content |-> tx[c].entry, prev_hash |-> tx[c].prev_hash, hash |-> tx[c].hash]

\* Hashing on is appending.
LEMMA ChainHashType ==
    ASSUME NEW h \in Seq(Entries), NEW e \in Entries
    PROVE  ChainHash(h, e) \in Seq(Entries)
BY DEF ChainHash

\* Every step keeps the types.
LEMMA TypeStep ==
    ASSUME TypeOK, TxIsFresh, HeadIsMade, LogIsChain, [Next]_vars
    PROVE  TypeOK'
<1> USE DEF TypeOK, Goto, Location
<1>0. GENESIS \in Seq(Entries) /\ NoHead \in HeadRow /\ NoTx \in Tx
  BY DEF GENESIS, NoHead, NoTx, HeadRow, Tx
<1>1. ASSUME NEW c \in Conns, Open(c)
      PROVE  TypeOK'
  <2>1. [seq |-> 0, hash |-> GENESIS] \in HeadRow
    BY <1>0 DEF HeadRow
  <2> QED
    BY <1>1, <2>1 DEF Open, history
<1>2. ASSUME NEW c \in Conns, NEW e \in Entries, AppendRead(c, e)
      PROVE  TypeOK'
  <2>1. head.seq + 1 \in Nat
    BY <1>2 DEF HeadIsMade, AppendRead, HeadRow, NoHead
  <2>2. [entry |-> e, seq |-> head.seq + 1, prev_hash |-> head.hash,
         hash |-> ChainHash(head.hash, e)] \in Tx
    BY <2>1, ChainHashType DEF Tx, HeadRow, Entries
  <2> QED
    BY <1>2, <2>2 DEF AppendRead, Forget, fileVars
<1>3. ASSUME NEW c \in Conns, NEW e \in Entries, AppendReadBusy(c, e)
      PROVE  TypeOK'
  BY <1>3 DEF AppendReadBusy, fileVars, history
<1>4. ASSUME NEW c \in Conns, Rollback(c)
      PROVE  TypeOK'
  BY <1>0, <1>4 DEF Rollback, fileVars, history
<1>5. ASSUME NEW c \in Conns, AppendInsert(c) \/ AppendPending(c)
      PROVE  TypeOK'
  BY <1>5 DEF AppendInsert, AppendPending, fileVars, history
<1>6. ASSUME NEW c \in Conns, AppendCommit(c)
      PROVE  TypeOK'
  <2>1. tx[c] \in Tx /\ tx[c].entry \in Entries /\ tx[c].seq \in Nat \ {0}
    <3>1. tx[c].seq = head.seq + 1 /\ tx[c].entry \in Entries
      BY <1>6 DEF AppendCommit, TxIsFresh
    <3>2. head.seq \in Nat
      BY <1>6 DEF AppendCommit, HeadIsMade, HeadRow
    <3> QED
      BY <3>1, <3>2
  <2>2. NewRow(c) \in Row /\ [seq |-> tx[c].seq, hash |-> tx[c].hash] \in HeadRow
    BY <2>1 DEF NewRow, Row, HeadRow, Tx
  <2>3. rows' = [n \in DOMAIN rows \cup {tx[c].seq} |->
                     IF n = tx[c].seq THEN NewRow(c) ELSE rows[n]]
    BY <1>6 DEF AppendCommit, NewRow
  <2>4. /\ DOMAIN rows' \subseteq Nat \ {0} /\ IsFiniteSet(DOMAIN rows')
        /\ rows' \in [DOMAIN rows' -> Row]
    <3>1. DOMAIN rows' = DOMAIN rows \cup {tx[c].seq}
      BY <2>3
    <3> QED
      BY <2>1, <2>2, <2>3, <3>1, FS_AddElement
  <2>5. head' \in HeadRow /\ sig' \in HeadRow
    BY <1>6, <2>2 DEF AppendCommit
  <2>6. overlapped' \in [Conns -> BOOLEAN]
    BY <1>6 DEF AppendCommit
  <2> QED
    BY <1>6, <2>4, <2>5, <2>6 DEF AppendCommit
<1>7. ASSUME NEW c \in Conns, AppendReturn(c)
      PROVE  TypeOK'
  BY <1>0, <1>7 DEF AppendReturn, fileVars, history
<1>8. ASSUME NEW c \in Conns, VerifyStart(c)
      PROVE  TypeOK'
  BY <1>8 DEF VerifyStart, fileVars
<1>9. ASSUME NEW c \in Conns, VerifySteps(c)
      PROVE  TypeOK'
  <2>1. WalkPasses => ChainEnd \in HeadRow
    <3> DEFINE k == Cardinality(DOMAIN rows)
    <3> SUFFICES ASSUME WalkPasses PROVE ChainEnd \in HeadRow
      OBVIOUS
    <3>1. DOMAIN rows = 1..k
      BY DEF WalkPasses
    <3>2. k \in Nat
      BY FS_CardinalityType
    <3>3. PrevHash(k + 1) \in Seq(Entries)
      BY <1>0, <3>1, <3>2 DEF PrevHash, Row
    <3> QED
      BY <3>2, <3>3 DEF ChainEnd, HeadRow
  <2>2. CASE VerifyWalk(c)
    <3>1. \/ Conclude(c, "tampered")
          \/ /\ WalkPasses
             /\ walked' = [walked EXCEPT ![c] = ChainEnd]
             /\ Goto(c, "head")
             /\ UNCHANGED verdict
      BY <2>2 DEF VerifyWalk
    <3>2. pc' \in [Conns -> Location]
      BY <3>1 DEF Conclude
    <3>3. walked' \in [Conns -> HeadRow]
      BY <1>0, <2>1, <3>1 DEF Conclude
    <3>4. verdict' \in [Conns -> {"none", "ok", "tampered", "error"}]
      BY <3>1 DEF Conclude
    <3> QED
      BY <2>2, <3>2, <3>3, <3>4 DEF VerifyWalk, fileVars, history
  <2>3. CASE VerifyHead(c)
    <3>1. \/ Conclude(c, "tampered")
          \/ Conclude(c, "ok")
          \/ Goto(c, "sig") /\ UNCHANGED <<verdict, walked>>
      BY <2>3 DEF VerifyHead
    <3>2. /\ pc' \in [Conns -> Location] /\ walked' \in [Conns -> HeadRow]
          /\ verdict' \in [Conns -> {"none", "ok", "tampered", "error"}]
      BY <1>0, <3>1 DEF Conclude
    <3> QED
      BY <2>3, <3>2 DEF VerifyHead, fileVars, history
  <2>4. CASE VerifySig(c)
    BY <1>0, <2>4 DEF VerifySig, Conclude, fileVars, history
  <2>5. CASE VerifyBusy(c)
    BY <1>0, <2>5 DEF VerifyBusy, Conclude, fileVars, history
  <2> QED
    BY <1>9, <2>2, <2>3, <2>4, <2>5 DEF VerifySteps
<1>10. ASSUME NEW c \in Conns, Crash(c)
       PROVE  TypeOK'
  BY <1>0, <1>10 DEF Crash, Forget, fileVars
<1>11. ASSUME Damage
       PROVE  TypeOK'
  <2>1. /\ DOMAIN rows' \subseteq Nat \ {0} /\ IsFiniteSet(DOMAIN rows')
        /\ rows' \in [DOMAIN rows' -> Row]
        /\ head' \in HeadRow
    <3>1. CASE \E n \in DOMAIN rows : \E e \in Entries \ {rows[n].content} :
                   rows' = [rows EXCEPT ![n] = [@ EXCEPT !.content = e]] /\ head' = head
      <4>1. PICK n \in DOMAIN rows : \E e \in Entries \ {rows[n].content} :
                   rows' = [rows EXCEPT ![n] = [@ EXCEPT !.content = e]] /\ head' = head
        BY <3>1
      <4>2. PICK e \in Entries :
                   rows' = [rows EXCEPT ![n] = [rows[n] EXCEPT !.content = e]] /\ head' = head
        BY <4>1
      <4>3. [rows[n] EXCEPT !.content = e] \in Row
        <5>1. rows[n] \in Row
          OBVIOUS
        <5> HIDE DEF TypeOK
        <5> QED
          BY <5>1 DEF Row
      <4>4. DOMAIN rows' = DOMAIN rows /\ rows' \in [DOMAIN rows -> Row]
        BY <4>2, <4>3
      <4> QED
        BY <4>2, <4>4
    <3>2. CASE \E n \in DOMAIN rows :
                   rows' = [m \in DOMAIN rows \ {n} |-> rows[m]] /\ head' = head
      BY <3>2, FS_RemoveElement
    <3>3. CASE \E n \in DOMAIN rows :
                   head' = [seq |-> n - 1, hash |-> PrevHash(n)] /\ rows' = rows
      <4>1. PICK n \in DOMAIN rows :
                head' = [seq |-> n - 1, hash |-> PrevHash(n)] /\ rows' = rows
        BY <3>3
      <4>2. PrevHash(n) \in Seq(Entries)
        <5>1. head # NoHead /\ ~damaged /\ head.seq \in Int
          BY <1>11, <4>1 DEF HeadIsMade, Damage, HeadRow
        <5>2. n \in 1..head.seq /\ DOMAIN rows = 1..head.seq
          BY <5>1 DEF LogIsChain
        <5> QED
          BY <1>0, <5>1, <5>2 DEF PrevHash, Row
      <4> QED
        BY <4>1, <4>2 DEF HeadRow
    <3> QED
      BY <1>11, <3>1, <3>2, <3>3 DEF Damage
  <2> QED
    BY <1>11, <2>1 DEF Damage
<1>12. CASE UNCHANGED vars
  BY <1>12 DEF vars
<1> QED
  BY <1>1, <1>2, <1>3, <1>4, <1>5, <1>6, <1>7, <1>8, <1>9, <1>10, <1>11, <1>12
  DEF Next, AppendSteps, AppendInsertFails, AppendCommitBusy, AppendIoError
\* Only `from_conn` makes the head, and nothing unmakes it.
LEMMA HeadStep ==
    ASSUME TypeOK, HeadIsMade, TxIsFresh, [Next]_vars
    PROVE  HeadIsMade'
<1> USE DEF TypeOK, HeadIsMade, Goto
<1>1. ASSUME NEW c \in Conns, Open(c)
      PROVE  HeadIsMade'
  BY <1>1 DEF Open, NoHead, history
<1>2. ASSUME NEW c \in Conns, pc[c] # "closed", UNCHANGED <<rows, head, damaged>>
      PROVE  HeadIsMade'
  BY <1>2 DEF NoHead
<1>3. ASSUME NEW c \in Conns, AppendCommit(c)
      PROVE  HeadIsMade'
  <2>1. tx[c].seq = head.seq + 1 /\ head.seq \in Nat
    BY <1>3 DEF AppendCommit, TxIsFresh, HeadRow
  <2> QED
    BY <1>3, <2>1 DEF AppendCommit, NoHead
<1>4. ASSUME Damage
      PROVE  HeadIsMade'
  <2>1. /\ \E n : n \in DOMAIN rows
        /\ head' = head \/ \E n \in DOMAIN rows : head' = [seq |-> n - 1, hash |-> PrevHash(n)]
    BY <1>4, Zenon DEF Damage
  <2>2. head # NoHead /\ head.seq >= 0
    BY <2>1
  <2>3. head'.seq >= 0
    BY <2>1, <2>2
  <2> QED
    BY <2>3 DEF NoHead
<1>5. CASE UNCHANGED vars
  BY <1>5 DEF vars
<1> QED
  BY <1>1, <1>2, <1>3, <1>4, <1>5
  DEF Next, AppendSteps, VerifySteps, AppendRead, AppendReadBusy, AppendInsert,
      AppendInsertFails, AppendPending, AppendCommitBusy, AppendIoError, AppendReturn,
      Rollback, VerifyStart, VerifyWalk, VerifyHead, VerifySig, VerifyBusy, Crash,
      fileVars, history

\* A lock keeps the head as it was read: a commit waits for every other reader.
LEMMA TxStep ==
    ASSUME TypeOK, HeadIsMade, TxIsFresh, [Next]_vars
    PROVE  TxIsFresh'
<1> USE DEF TypeOK, TxIsFresh, Goto, Writers
<1>1. ASSUME NEW c \in Conns, Open(c)
      PROVE  TxIsFresh'
  BY <1>1 DEF Open, HeadIsMade, history
<1>2. ASSUME NEW c \in Conns, NEW e \in Entries, AppendRead(c, e)
      PROVE  TxIsFresh'
  <2>1. \A d \in Conns : tx[d].entry # e
    BY <1>2 DEF AppendRead, NextEntry, NoTx, Entries
  <2> QED
    BY <1>2, <2>1 DEF AppendRead, fileVars
<1>3. ASSUME NEW c \in Conns, NEW e \in Entries, AppendReadBusy(c, e)
      PROVE  TxIsFresh'
  BY <1>3 DEF AppendReadBusy, NextEntry, fileVars, history
<1>4. ASSUME NEW c \in Conns, Rollback(c)
      PROVE  TxIsFresh'
  BY <1>4 DEF Rollback, NoTx, Entries, fileVars, history
<1>5. ASSUME NEW c \in Conns, AppendInsert(c)
      PROVE  TxIsFresh'
  BY <1>5 DEF AppendInsert, fileVars, history
<1>6. ASSUME NEW c \in Conns, AppendPending(c)
      PROVE  TxIsFresh'
  BY <1>6 DEF AppendPending, fileVars, history
<1>7. ASSUME NEW c \in Conns, AppendCommit(c)
      PROVE  TxIsFresh'
  BY <1>7 DEF AppendCommit, Readers
<1>8. ASSUME NEW c \in Conns, AppendReturn(c)
      PROVE  TxIsFresh'
  BY <1>8 DEF AppendReturn, NoTx, Entries, fileVars, history
<1>9. ASSUME NEW c \in Conns, VerifyStart(c)
      PROVE  TxIsFresh'
  BY <1>9 DEF VerifyStart, fileVars
<1>10. ASSUME NEW c \in Conns, VerifySteps(c)
       PROVE  TxIsFresh'
  <2>1. /\ pc[c] \in {"walk", "head", "sig"} /\ UNCHANGED <<rows, head, tx, status>>
        /\ Goto(c, "head") \/ Goto(c, "sig") \/ Goto(c, "idle")
    BY <1>10 DEF VerifySteps, VerifyWalk, VerifyHead, VerifySig, VerifyBusy, Conclude, fileVars
  <2> QED
    BY <2>1
<1>11. ASSUME NEW c \in Conns, Crash(c)
       PROVE  TxIsFresh'
  BY <1>11 DEF Crash, NoTx, Entries, fileVars
<1>12. ASSUME Damage
       PROVE  TxIsFresh'
  BY <1>12 DEF Damage
<1>13. CASE UNCHANGED vars
  BY <1>13 DEF vars
<1> QED
  BY <1>1, <1>2, <1>3, <1>4, <1>5, <1>6, <1>7, <1>8, <1>9, <1>10, <1>11, <1>12, <1>13
  DEF Next, AppendSteps, AppendInsertFails, AppendCommitBusy, AppendIoError
\* What a commit does to the file: one row is added, at the next number.
LEMMA CommitRows ==
    ASSUME TypeOK, HeadIsMade, TxIsFresh, NEW c \in Conns, AppendCommit(c)
    PROVE  LET seq == tx[c].seq IN
           /\ head.seq \in Nat /\ seq = head.seq + 1 /\ seq \notin DOMAIN rows
           /\ DOMAIN rows' = DOMAIN rows \cup {seq}
           /\ rows'[seq] = NewRow(c)
           /\ \A n \in DOMAIN rows : rows'[n] = rows[n]
           /\ head' = [seq |-> seq, hash |-> tx[c].hash]
           /\ tx[c].entry \in Entries
           /\ tx[c].prev_hash = head.hash
           /\ tx[c].hash = ChainHash(head.hash, tx[c].entry)
<1>1. /\ tx[c].seq = head.seq + 1 /\ tx[c].seq \notin DOMAIN rows
      /\ tx[c].entry \in Entries
      /\ tx[c].prev_hash = head.hash
      /\ tx[c].hash = ChainHash(head.hash, tx[c].entry)
  BY DEF AppendCommit, TxIsFresh
<1>2. head.seq \in Nat
  BY DEF AppendCommit, HeadIsMade, TypeOK, HeadRow
<1>3. rows' = [n \in DOMAIN rows \cup {tx[c].seq} |->
                   IF n = tx[c].seq THEN NewRow(c) ELSE rows[n]]
  BY DEF AppendCommit, NewRow
<1>4. head' = [seq |-> tx[c].seq, hash |-> tx[c].hash]
  BY DEF AppendCommit
<1> QED
  BY <1>1, <1>2, <1>3, <1>4

\* Hashing one more entry onto the hash of the first k gives the hash of k + 1.
LEMMA HashOneMore ==
    ASSUME NEW k \in Nat, NEW f \in [1..k -> Entries], NEW e \in Entries,
           NEW g \in [1..(k + 1) -> Entries],
           \A m \in 1..k : g[m] = f[m], g[k + 1] = e
    PROVE  ChainHash(f, e) = g
<1>1. f \in Seq(Entries) /\ Len(f) = k
  OBVIOUS
<1>2. /\ Append(f, e) \in Seq(Entries) /\ Len(Append(f, e)) = k + 1
      /\ \A m \in 1..k : Append(f, e)[m] = f[m]
      /\ Append(f, e)[k + 1] = e
  BY <1>1
<1>3. \A m \in 1..(k + 1) : Append(f, e)[m] = g[m]
  BY <1>2
<1>4. Append(f, e) \in [1..(k + 1) -> Entries]
  <2> DEFINE h == Append(f, e)
  <2>1. h \in Seq(Entries) /\ Len(h) = k + 1
    BY <1>2
  <2> HIDE DEF h
  <2>2. h \in [1..Len(h) -> Entries]
    BY <2>1
  <2> QED
    BY <2>1, <2>2 DEF h
<1>5. Append(f, e) = g
  BY <1>3, <1>4
<1> QED
  BY <1>5 DEF ChainHash

\* The file stays a chain.
LEMMA ChainStep ==
    ASSUME TypeOK, HeadIsMade, TxIsFresh, LogIsChain, [Next]_vars
    PROVE  LogIsChain'
<1>1. ASSUME NEW c \in Conns, Open(c)
      PROVE  LogIsChain'
  <2>1. CASE head # NoHead
    BY <1>1, <2>1 DEF Open, LogIsChain, Contents, history
  <2>2. CASE head = NoHead
    <3>1. head'.seq = 0 /\ head'.hash = GENESIS /\ DOMAIN rows' = {}
      BY <1>1, <2>2 DEF Open, HeadIsMade
    <3>2. Contents(0)' = <<>>
      BY DEF Contents
    <3> QED
      BY <3>1, <3>2 DEF LogIsChain, GENESIS
  <2> QED
    BY <2>1, <2>2
<1>2. ASSUME UNCHANGED <<rows, head, damaged>>
      PROVE  LogIsChain'
  BY <1>2 DEF LogIsChain, Contents
<1>3. ASSUME NEW c \in Conns, AppendCommit(c)
      PROVE  LogIsChain'
  <2> SUFFICES ASSUME ~damaged
               PROVE  LogIsChain'
    BY <1>3 DEF AppendCommit, LogIsChain
  <2>0. PICK k : k = head.seq
    OBVIOUS
  <2>1. /\ k \in Nat /\ tx[c].seq = k + 1
        /\ DOMAIN rows = 1..k
        /\ \A n \in 1..k : rows[n].hash = Contents(n) /\ rows[n].prev_hash = Contents(n - 1)
        /\ head.hash = Contents(k)
    BY <1>3, <2>0, CommitRows DEF LogIsChain, AppendCommit, HeadIsMade
  <2>2. /\ DOMAIN rows' = 1..(k + 1)
        /\ \A n \in 1..k : rows'[n] = rows[n]
        /\ rows'[k + 1] = NewRow(c)
        /\ head' = [seq |-> k + 1, hash |-> tx[c].hash]
    <3>1. /\ DOMAIN rows' = DOMAIN rows \cup {k + 1}
          /\ \A n \in DOMAIN rows : rows'[n] = rows[n]
          /\ rows'[k + 1] = NewRow(c)
          /\ head' = [seq |-> k + 1, hash |-> tx[c].hash]
      BY <1>3, <2>1, CommitRows, Zenon
    <3> QED
      BY <2>1, <3>1
  <2>3. \A n \in 0..k : Contents(n)' = Contents(n)
    BY <2>1, <2>2 DEF Contents
  <2>4. tx[c].hash = Contents(k + 1)'
    <3> DEFINE f == Contents(k)
               g == [m \in 1..(k + 1) |-> rows'[m].content]
    <3>1. tx[c].entry \in Entries /\ tx[c].hash = ChainHash(f, tx[c].entry)
      BY <1>3, <2>1, CommitRows
    <3>2. f \in [1..k -> Entries]
      BY <2>1 DEF TypeOK, Row, Contents
    <3>3. \A m \in 1..k : f[m] = rows[m].content
      BY DEF Contents
    <3>4. /\ \A m \in 1..k : g[m] = f[m]
          /\ g[k + 1] = tx[c].entry
      BY <2>1, <2>2, <3>3 DEF NewRow
    <3>5. g \in [1..(k + 1) -> Entries]
      <4>1. \A m \in 1..(k + 1) : g[m] \in Entries
        <5>1. \A m \in 1..(k + 1) : m \in 1..k \/ m = k + 1
          BY <2>1
        <5>2. \A m \in 1..k : f[m] \in Entries
          BY <3>2
        <5> HIDE DEF f, g
        <5> QED
          BY <3>1, <3>4, <5>1, <5>2
      <4> QED
        BY <4>1
    <3> HIDE DEF f, g
    <3>6. ChainHash(f, tx[c].entry) = g
      <4>1. k \in Nat
        BY <2>1
      <4>2. tx[c].entry \in Entries
        BY <3>1
      <4> QED
        BY <3>2, <3>4, <3>5, <4>1, <4>2, HashOneMore, SMTT(60)
    <3> QED
      BY <3>1, <3>6 DEF Contents, g
  <2>5. tx[c].prev_hash = Contents(k)
    BY <1>3, <2>1, CommitRows
  <2>6. \A n \in 1..(k + 1) :
            rows'[n].hash = Contents(n)' /\ rows'[n].prev_hash = Contents(n - 1)'
    <3> SUFFICES ASSUME NEW n \in 1..(k + 1)
                 PROVE  rows'[n].hash = Contents(n)' /\ rows'[n].prev_hash = Contents(n - 1)'
      OBVIOUS
    <3>1. CASE n = k + 1
      BY <2>1, <2>2, <2>3, <2>4, <2>5, <3>1 DEF NewRow
    <3>2. CASE n \in 1..k
      BY <2>1, <2>2, <2>3, <3>2
    <3> QED
      BY <2>1, <3>1, <3>2
  <2> QED
    BY <2>1, <2>2, <2>4, <2>6 DEF LogIsChain
<1>4. CASE damaged'
  BY <1>4 DEF LogIsChain
<1> QED
  BY <1>1, <1>2, <1>3, <1>4
  DEF Next, AppendSteps, VerifySteps, AppendRead, AppendReadBusy, AppendInsert,
      AppendInsertFails, AppendPending, AppendCommitBusy, AppendIoError, AppendReturn,
      Rollback, VerifyStart, VerifyWalk, VerifyHead, VerifySig, VerifyBusy, Crash, Damage,
      fileVars, history, vars
\* The entry of an append that has not committed is not in the log.
LEMMA UncommittedIsAbsent ==
    ASSUME TypeOK, TxIsFresh, OpenIsAbsent, ~damaged,
           NEW c \in Conns, pc[c] \in {"shared", "reserved", "pending"}
    PROVE  \A n \in DOMAIN rows : rows[n].content # tx[c].entry
BY DEF TxIsFresh, OpenIsAbsent

\* Entries are where `append` says they are.
LEMMA EntriesStep ==
    ASSUME TypeOK, HeadIsMade, TxIsFresh, CommitIsThere, OpenIsAbsent, AppendsAreTruthful,
           [Next]_vars
    PROVE  CommitIsThere' /\ OpenIsAbsent' /\ AppendsAreTruthful'
<1> USE DEF TypeOK, CommitIsThere, OpenIsAbsent, AppendsAreTruthful, Goto
<1> DEFINE Goal == CommitIsThere' /\ OpenIsAbsent' /\ AppendsAreTruthful'
<1>1. ASSUME NEW c \in Conns, UNCHANGED <<rows, tx, status, damaged>>,
             NEW l \in Location, Goto(c, l), pc[c] # "committed", l # "committed"
      PROVE  Goal
  BY <1>1
<1>2. ASSUME NEW c \in Conns, NEW e \in Entries, AppendRead(c, e)
      PROVE  Goal
  <2>1. /\ status[e] = "new" /\ pc[c] = "idle"
        /\ status' = [status EXCEPT ![e] = "open"]
        /\ pc' = [pc EXCEPT ![c] = "shared"]
        /\ \A d \in Conns : d # c => tx'[d] = tx[d]
        /\ UNCHANGED <<rows, damaged>>
    BY <1>2 DEF AppendRead, NextEntry, fileVars
  <2>2. CommitIsThere'
    BY <2>1
  <2>3. OpenIsAbsent'
    BY <2>1
  <2>4. AppendsAreTruthful'
    BY <2>1
  <2> QED
    BY <2>2, <2>3, <2>4
<1>3. ASSUME NEW c \in Conns, NEW e \in Entries, AppendReadBusy(c, e)
      PROVE  Goal
  BY <1>3 DEF AppendReadBusy, NextEntry, fileVars, history
<1>4. ASSUME NEW c \in Conns, Rollback(c), pc[c] \in {"shared", "reserved", "pending"}
      PROVE  Goal
  <2>1. ~damaged => \A n \in DOMAIN rows : rows[n].content # tx[c].entry
    BY <1>4, UncommittedIsAbsent
  <2>2. \A d \in Conns : pc[d] = "committed" => d # c /\ tx'[d] = tx[d] /\ pc'[d] = "committed"
                                             /\ tx[d].entry # tx[c].entry
    BY <1>4 DEF Rollback, TxIsFresh
  <2>3. /\ UNCHANGED <<rows, damaged>>
        /\ \A d \in Conns : pc'[d] = "committed" => pc[d] = "committed"
        /\ \A e \in Entries : status'[e] = IF e = tx[c].entry THEN "err" ELSE status[e]
    BY <1>4 DEF Rollback, fileVars, history
  <2>4. CommitIsThere'
    BY <2>2, <2>3
  <2>5. OpenIsAbsent'
    BY <2>1, <2>2, <2>3
  <2>6. AppendsAreTruthful'
    BY <2>1, <2>3
  <2> QED
    BY <2>4, <2>5, <2>6
<1>5. ASSUME NEW c \in Conns, AppendCommit(c)
      PROVE  Goal
  <2> SUFFICES ASSUME ~damaged PROVE Goal
    BY <1>5 DEF AppendCommit
  <2> DEFINE seq == tx[c].seq
             e == tx[c].entry
  <2>1. \A n \in DOMAIN rows : rows[n].content # e
    BY <1>5, UncommittedIsAbsent DEF AppendCommit
  <2>2. /\ seq \notin DOMAIN rows /\ DOMAIN rows' = DOMAIN rows \cup {seq}
        /\ rows'[seq].content = e
        /\ \A n \in DOMAIN rows : rows'[n] = rows[n]
        /\ e \in Entries
    <3> HIDE DEF TypeOK, CommitIsThere, OpenIsAbsent, AppendsAreTruthful
    <3>1. /\ seq \notin DOMAIN rows /\ DOMAIN rows' = DOMAIN rows \cup {seq}
          /\ rows'[seq] = NewRow(c)
          /\ \A n \in DOMAIN rows : rows'[n] = rows[n]
          /\ e \in Entries
      BY <1>5, CommitRows
    <3> QED
      BY <3>1 DEF NewRow
  <2>3. /\ UNCHANGED <<tx, status, damaged>>
        /\ \A d \in Conns : pc'[d] = IF d = c THEN "committed" ELSE pc[d]
    BY <1>5 DEF AppendCommit
  <2>4. status[e] = "open" /\ \A d \in Conns \ {c} : tx[d].entry # e
    BY <1>5 DEF AppendCommit, TxIsFresh
  <2> HIDE DEF seq, e
  <2>5. CommitIsThere'
    <3> SUFFICES ASSUME NEW d \in Conns, pc'[d] = "committed"
                 PROVE  /\ tx[d].seq \in DOMAIN rows'
                        /\ \A n \in DOMAIN rows' :
                               rows'[n].content = tx[d].entry <=> n = tx[d].seq
      BY <2>3
    <3>1. CASE d = c
      BY <2>1, <2>2, <3>1 DEF seq, e
    <3>2. CASE d # c
      BY <2>2, <2>3, <2>4, <3>2
    <3> QED
      BY <3>1, <3>2
  <2>6. OpenIsAbsent'
    <3> SUFFICES ASSUME NEW x \in Entries, NEW n \in DOMAIN rows',
                        rows'[n].content = x, status[x] = "open"
                 PROVE  \E d \in Conns : pc'[d] = "committed" /\ tx[d].entry = x
      BY <2>3
    <3>1. CASE n = seq
      BY <2>2, <2>3, <3>1 DEF e
    <3>2. CASE n # seq
      BY <2>2, <2>3, <3>2
    <3> QED
      BY <3>1, <3>2
  <2>7. AppendsAreTruthful'
    <3> SUFFICES ASSUME NEW x \in Entries, status[x] # "open"
                 PROVE  {n \in DOMAIN rows' : rows'[n].content = x}
                            = {n \in DOMAIN rows : rows[n].content = x}
      BY <2>3
    <3> QED
      BY <2>2, <2>4
  <2> QED
    BY <2>5, <2>6, <2>7
<1>6. ASSUME NEW c \in Conns, AppendReturn(c)
      PROVE  Goal
  <2>1. /\ UNCHANGED <<rows, damaged>>
        /\ \A x \in Entries : status'[x] = IF x = tx[c].entry THEN "ok" ELSE status[x]
        /\ \A d \in Conns : d # c => tx'[d] = tx[d] /\ pc'[d] = pc[d]
        /\ pc[c] = "committed" /\ pc'[c] = "idle"
    BY <1>6 DEF AppendReturn, fileVars, history
  <2>2. /\ tx[c].entry \in Entries /\ status[tx[c].entry] = "open"
        /\ \A d \in Conns \ {c} : tx[d].entry # tx[c].entry
    BY <2>1 DEF TxIsFresh
  <2>3. CommitIsThere'
    BY <2>1
  <2>4. OpenIsAbsent'
    BY <2>1, <2>2
  <2>5. AppendsAreTruthful'
    <3> SUFFICES ASSUME ~damaged, NEW x \in Entries
                 PROVE  LET places == {n \in DOMAIN rows : rows[n].content = x} IN
                        /\ status'[x] = "ok" => \E n \in places : places = {n}
                        /\ status'[x] \in {"new", "err"} => places = {}
      BY <2>1
    <3>1. CASE x = tx[c].entry
      <4>1. {n \in DOMAIN rows : rows[n].content = x} = {tx[c].seq}
        BY <2>1, <3>1
      <4> QED
        BY <2>1, <3>1, <4>1
    <3>2. CASE x # tx[c].entry
      BY <2>1, <3>2
    <3> QED
      BY <3>1, <3>2
  <2> QED
    BY <2>3, <2>4, <2>5
<1>7. ASSUME NEW c \in Conns, Crash(c)
      PROVE  Goal
  <2>1. /\ UNCHANGED <<rows, damaged>>
        /\ \A x \in Entries : status'[x] = IF x = tx[c].entry THEN "lost" ELSE status[x]
        /\ \A d \in Conns : d # c => tx'[d] = tx[d] /\ pc'[d] = pc[d]
        /\ pc'[c] = "closed"
    BY <1>7 DEF Crash, fileVars
  <2>2. CommitIsThere'
    BY <2>1
  <2>3. OpenIsAbsent'
    BY <2>1
  <2>4. AppendsAreTruthful'
    BY <2>1
  <2> QED
    BY <2>2, <2>3, <2>4
<1>8. ASSUME damaged'
      PROVE  Goal
  BY <1>8
<1>9. ASSUME UNCHANGED vars
      PROVE  Goal
  BY <1>9 DEF vars
<1>10. ASSUME NEW c \in Conns, VerifySteps(c)
       PROVE  Goal
  <2>1. /\ pc[c] \in {"walk", "head", "sig"} /\ UNCHANGED <<rows, tx, status, damaged>>
        /\ Goto(c, "head") \/ Goto(c, "sig") \/ Goto(c, "idle")
    BY <1>10 DEF VerifySteps, VerifyWalk, VerifyHead, VerifySig, VerifyBusy, Conclude, fileVars,
                 history
  <2> QED
    BY <1>1, <2>1 DEF Location
<1>11. ASSUME NEW c \in Conns,
              Open(c) \/ AppendInsert(c) \/ AppendPending(c) \/ VerifyStart(c)
       PROVE  Goal
  <2>1. /\ pc[c] # "committed" /\ UNCHANGED <<rows, tx, status, damaged>>
        /\ Goto(c, "idle") \/ Goto(c, "reserved") \/ Goto(c, "pending") \/ Goto(c, "walk")
    BY <1>11 DEF Open, AppendInsert, AppendPending, VerifyStart, fileVars, history
  <2> QED
    BY <1>1, <2>1 DEF Location
<1> HIDE DEF Goal, TypeOK, CommitIsThere, OpenIsAbsent, AppendsAreTruthful
<1>12. ASSUME NEW c \in Conns, AppendInsertFails(c) \/ AppendCommitBusy(c) \/ AppendIoError(c)
       PROVE  Goal
  BY <1>4, <1>12 DEF AppendInsertFails, AppendCommitBusy, AppendIoError
<1>13. ASSUME Damage
       PROVE  Goal
  BY <1>8, <1>13 DEF Damage
<1>14. Goal
  BY <1>2, <1>3, <1>5, <1>6, <1>7, <1>9, <1>10, <1>11, <1>12, <1>13 DEF Next, AppendSteps
<1> QED
  BY <1>14 DEF Goal
\* An undamaged log passes its verification.
LEMMA IntactPasses ==
    ASSUME TypeOK, HeadIsMade, LogIsChain, ~damaged, head # NoHead
    PROVE  WalkPasses /\ ChainEnd = head
<1> DEFINE k == head.seq
<1>1. /\ k \in Nat /\ DOMAIN rows = 1..k /\ head.hash = Contents(k)
      /\ \A n \in 1..k : rows[n].hash = Contents(n) /\ rows[n].prev_hash = Contents(n - 1)
  BY DEF LogIsChain, HeadIsMade, TypeOK, HeadRow
<1>2. Cardinality(DOMAIN rows) = k
  BY <1>1, FS_Interval
<1>3. Contents(0) = <<>>
  BY DEF Contents
<1> HIDE DEF k
<1>4. \A n \in 1..(k + 1) : PrevHash(n) = Contents(n - 1)
  <2> SUFFICES ASSUME NEW n \in 1..(k + 1) PROVE PrevHash(n) = Contents(n - 1)
    OBVIOUS
  <2>1. CASE n = 1
    BY <1>3, <2>1 DEF PrevHash, GENESIS
  <2>2. CASE n # 1
    BY <1>1, <2>2 DEF PrevHash
  <2> QED
    BY <2>1, <2>2
<1>5. ASSUME NEW n \in 1..k
      PROVE  Links(n)
  <2>0. n \in Nat /\ n - 1 \in Nat /\ 1..n \subseteq 1..k /\ n \in 1..(k + 1)
    BY <1>1
  <2>1. /\ Contents(n - 1) \in [1..(n - 1) -> Entries] /\ Contents(n) \in [1..n -> Entries]
        /\ \A m \in 1..(n - 1) : Contents(n)[m] = Contents(n - 1)[m]
        /\ Contents(n)[n] = rows[n].content /\ rows[n].content \in Entries
    BY <1>1, <2>0 DEF Contents, TypeOK, Row
  <2>2. (n - 1) + 1 = n
    BY <2>0
  <2>3. ChainHash(Contents(n - 1), rows[n].content) = Contents(n)
    BY <2>0, <2>1, <2>2, HashOneMore
  <2> QED
    BY <1>1, <1>4, <2>0, <2>3 DEF Links
<1>6. WalkPasses
  BY <1>1, <1>2, <1>5 DEF WalkPasses
<1>7. ChainEnd = [seq |-> k, hash |-> head.hash]
  <2>1. PrevHash(k + 1) = Contents(k)
    BY <1>1, <1>4
  <2> QED
    BY <1>1, <1>2, <2>1 DEF ChainEnd
<1> QED
  BY <1>6, <1>7 DEF k, TypeOK, HeadRow

\* A walk of a damaged log fails, or ends somewhere else than at the head.
LEMMA EvidentShows ==
    ASSUME TypeOK, Evident, WalkPasses, head.seq \in Nat
    PROVE  \/ ChainEnd.seq < head.seq
           \/ ChainEnd.seq > head.seq /\ head.seq + 1 \in DOMAIN rows
<1> DEFINE k == Cardinality(DOMAIN rows)
<1>1. k \in Nat /\ DOMAIN rows = 1..k /\ ChainEnd.seq = k
  BY FS_CardinalityType DEF TypeOK, WalkPasses, ChainEnd
<1>2. \A n \in DOMAIN rows : rows[n].hash = ChainHash(rows[n].prev_hash, rows[n].content)
  BY DEF WalkPasses, Links
<1> HIDE DEF k
<1> QED
  BY <1>1, <1>2 DEF Evident

\* Damage stays evident, and a verification between its reads stays right.
LEMMA WalkStep ==
    ASSUME TypeOK, HeadIsMade, TxIsFresh, LogIsChain, WalkIsRight, [Next]_vars
    PROVE  WalkIsRight'
<1> USE DEF TypeOK, Goto
<1>1. ASSUME NEW c \in Conns, Open(c)
      PROVE  WalkIsRight'
  <2>1. CASE head = NoHead
    BY <1>1, <2>1 DEF Open, HeadIsMade, WalkIsRight, history
  <2>2. CASE head # NoHead
    BY <1>1, <2>2 DEF Open, WalkIsRight, Evident, history
  <2> QED
    BY <2>1, <2>2
<1>2. ASSUME NEW c \in Conns, UNCHANGED <<rows, head, damaged>>, NEW l,
             Goto(c, l), l \notin {"walk", "head", "sig"},
             \A d \in Conns \ {c} : /\ walked'[d] = walked[d] /\ seenDamage'[d] = seenDamage[d]
                                    /\ overlapped'[d] = overlapped[d]
      PROVE  WalkIsRight'
  BY <1>2 DEF WalkIsRight, Evident
<1>3. ASSUME UNCHANGED <<rows, head, damaged, pc, walked, seenDamage, overlapped>>
      PROVE  WalkIsRight'
  BY <1>3 DEF WalkIsRight, Evident
<1>4. ASSUME NEW c \in Conns, AppendCommit(c)
      PROVE  WalkIsRight'
  <2>1. /\ head.seq \in Nat /\ head'.seq = head.seq + 1 /\ head.seq + 1 \notin DOMAIN rows
        /\ DOMAIN rows' = DOMAIN rows \cup {head.seq + 1}
        /\ \A n \in DOMAIN rows : rows'[n] = rows[n]
    <3> HIDE DEF TypeOK
    <3>1. /\ head.seq \in Nat /\ tx[c].seq = head.seq + 1 /\ tx[c].seq \notin DOMAIN rows
          /\ DOMAIN rows' = DOMAIN rows \cup {tx[c].seq}
          /\ \A n \in DOMAIN rows : rows'[n] = rows[n]
          /\ head' = [seq |-> tx[c].seq, hash |-> tx[c].hash]
      BY <1>4, CommitRows
    <3> QED
      BY <3>1
  <2>2. damaged => Evident'
    <3> SUFFICES ASSUME damaged PROVE Evident'
      OBVIOUS
    <3>1. CASE \E n \in DOMAIN rows :
                   rows[n].hash # ChainHash(rows[n].prev_hash, rows[n].content)
      BY <2>1, <3>1 DEF Evident
    <3>2. CASE \E n \in 1..head.seq : n \notin DOMAIN rows
      BY <2>1, <3>2 DEF Evident
    <3> QED
      BY <2>1, <3>1, <3>2 DEF WalkIsRight, Evident
  <2>3. /\ UNCHANGED <<damaged, seenDamage, walked>>
        /\ \A d \in Conns : pc'[d] = IF d = c THEN "committed" ELSE pc[d]
        /\ \A d \in Conns : pc[d] = "head" => overlapped'[d]
    BY <1>4 DEF AppendCommit, Between
  <2>4. ASSUME NEW d \in Conns, pc'[d] \in {"walk", "head", "sig"}
        PROVE  /\ seenDamage[d] => damaged
               /\ pc[d] = "head" => overlapped'[d]
               /\ seenDamage[d] /\ pc[d] = "head" => walked[d].seq < head'.seq
               /\ pc[d] = "sig" => ~seenDamage[d] /\ d \in Signers
    <3>1. pc[d] = pc'[d]
      BY <2>3, <2>4
    <3>2. walked[d].seq \in Int
      BY DEF HeadRow
    <3> QED
      BY <2>1, <2>3, <2>4, <3>1, <3>2 DEF WalkIsRight
  <2> QED
    BY <2>2, <2>3, <2>4 DEF WalkIsRight
<1>5. ASSUME NEW c \in Conns, VerifyStart(c)
      PROVE  WalkIsRight'
  BY <1>5 DEF VerifyStart, WalkIsRight, Evident, fileVars
<1>6. ASSUME NEW c \in Conns, VerifyWalk(c), WalkPasses,
             walked' = [walked EXCEPT ![c] = ChainEnd], Goto(c, "head")
      PROVE  WalkIsRight'
  <2>1. head # NoHead /\ head.seq \in Nat
    BY <1>6 DEF VerifyWalk, HeadIsMade, HeadRow
  <2>2. ~damaged => ChainEnd = head
    BY <2>1, IntactPasses
  <2>3. damaged => \/ ChainEnd.seq < head.seq
                   \/ ChainEnd.seq > head.seq /\ head.seq + 1 \in DOMAIN rows
    BY <1>6, <2>1, EvidentShows DEF WalkIsRight
  <2>4. pc[c] = "walk" /\ UNCHANGED <<rows, head, damaged, seenDamage, overlapped>>
    BY <1>6 DEF VerifyWalk, fileVars, history
  <2>5. seenDamage[c] => damaged
    BY <2>4 DEF WalkIsRight
  <2> HIDE DEF TypeOK
  <2>6. /\ walked'[c] = ChainEnd /\ pc'[c] = "head"
        /\ \A d \in Conns \ {c} : walked'[d] = walked[d] /\ pc'[d] = pc[d]
    BY <1>6 DEF TypeOK
  <2>7. Evident' <=> Evident
    BY <2>4 DEF Evident
  <2> QED
    BY <2>2, <2>3, <2>4, <2>5, <2>6, <2>7 DEF WalkIsRight
<1>7. ASSUME NEW c \in Conns, VerifyHead(c), head = walked[c], c \in Signers,
             Goto(c, "sig"), UNCHANGED walked
      PROVE  WalkIsRight'
  <2>1. ~seenDamage[c]
    <3>1. head.seq \in Int
      BY DEF HeadRow
    <3> QED
      BY <1>7, <3>1 DEF VerifyHead, WalkIsRight
  <2>2. pc[c] = "head" /\ UNCHANGED <<rows, head, damaged, seenDamage, overlapped>>
    BY <1>7 DEF VerifyHead, fileVars, history
  <2> QED
    BY <1>7, <2>1, <2>2 DEF WalkIsRight, Evident
<1>8. ASSUME NEW c \in Conns, Crash(c)
      PROVE  WalkIsRight'
  <2>1. /\ UNCHANGED <<rows, head, damaged>> /\ Goto(c, "closed")
        /\ \A d \in Conns \ {c} : /\ walked'[d] = walked[d] /\ seenDamage'[d] = seenDamage[d]
                                   /\ overlapped'[d] = overlapped[d]
    BY <1>8 DEF Crash, Forget, fileVars
  <2> QED
    BY <1>2, <2>1
<1>9. ASSUME Damage
      PROVE  WalkIsRight'
  <2>1. /\ ~damaged /\ damaged' /\ UNCHANGED <<pc, walked, seenDamage, overlapped>>
        /\ \A d \in Conns : pc[d] \in {"walk", "head", "sig"} => ~seenDamage[d]
    BY <1>9 DEF Damage, WalkIsRight
  <2>2. Evident'
    <3>1. PICK k : k = head.seq
      OBVIOUS
    <3>2. (\E n : n \in DOMAIN rows) /\ ~damaged
      BY <1>9, Zenon DEF Damage
    <3>3. /\ k \in Nat /\ DOMAIN rows = 1..k
          /\ \A n \in 1..k : rows[n].hash = Contents(n) /\ rows[n].prev_hash = Contents(n - 1)
      BY <3>1, <3>2 DEF HeadIsMade, LogIsChain, HeadRow
    <3>4. CASE \E n \in DOMAIN rows : \E e \in Entries \ {rows[n].content} :
                   rows' = [rows EXCEPT ![n] = [@ EXCEPT !.content = e]] /\ head' = head
      <4>1. PICK n \in DOMAIN rows : \E e \in Entries \ {rows[n].content} :
                   rows' = [rows EXCEPT ![n] = [@ EXCEPT !.content = e]]
        BY <3>4
      <4>2. PICK e \in Entries \ {rows[n].content} :
                   rows' = [rows EXCEPT ![n] = [rows[n] EXCEPT !.content = e]]
        BY <4>1
      <4>3. rows[n] \in Row
        OBVIOUS
      <4> HIDE DEF TypeOK
      <4>4. [rows[n] EXCEPT !.content = e] =
                [content |-> e, prev_hash |-> rows[n].prev_hash, hash |-> rows[n].hash]
        BY <4>3 DEF Row
      <4>5. /\ n \in DOMAIN rows' /\ rows'[n].content = e
            /\ rows'[n].hash = Contents(n) /\ rows'[n].prev_hash = Contents(n - 1)
        BY <3>3, <4>2, <4>4
      <4>6. Contents(n) # ChainHash(Contents(n - 1), e)
        <5>1. n \in Nat \ {0} /\ 1..(n - 1) \subseteq 1..k
          BY <3>3
        <5>2. Contents(n)[n] = rows[n].content
          BY <5>1 DEF Contents
        <5>3. Contents(n - 1) \in [1..(n - 1) -> Entries]
          BY <3>3, <5>1 DEF Contents, TypeOK, Row
        <5>4. Contents(n - 1) \in Seq(Entries) /\ Len(Contents(n - 1)) = n - 1
          BY <5>1, <5>3
        <5>5. ChainHash(Contents(n - 1), e)[n] = e
          BY <5>1, <5>4 DEF ChainHash
        <5> QED
          BY <5>2, <5>5, <4>2
      <4> QED
        BY <4>5, <4>6 DEF Evident
    <3>5. CASE \E n \in DOMAIN rows :
                   rows' = [m \in DOMAIN rows \ {n} |-> rows[m]] /\ head' = head
      BY <3>1, <3>3, <3>5 DEF Evident
    <3>6. CASE \E n \in DOMAIN rows :
                   head' = [seq |-> n - 1, hash |-> PrevHash(n)] /\ rows' = rows
      BY <3>3, <3>6 DEF Evident
    <3> QED
      BY <1>9, <3>4, <3>5, <3>6 DEF Damage
  <2> QED
    BY <2>1, <2>2 DEF WalkIsRight
<1>10. ASSUME NEW c \in Conns, VerifySteps(c)
       PROVE  WalkIsRight'
  <2>1. CASE Goto(c, "idle") /\ walked' = [walked EXCEPT ![c] = NoHead]
    <3>1. UNCHANGED <<rows, head, damaged, seenDamage, overlapped>>
      BY <1>10 DEF VerifySteps, VerifyWalk, VerifyHead, VerifySig, VerifyBusy, fileVars, history
    <3> QED
      BY <1>2, <2>1, <3>1
  <2> HIDE DEF Goto, TypeOK
  <2> QED
    BY <1>6, <1>7, <1>10, <2>1
    DEF VerifySteps, VerifyWalk, VerifyHead, VerifySig, VerifyBusy, Conclude
<1>11. ASSUME NEW c \in Conns, NEW e \in Entries, AppendRead(c, e)
       PROVE  WalkIsRight'
  BY <1>2, <1>11 DEF AppendRead, Forget, fileVars
<1>12. ASSUME NEW c \in Conns, AppendInsert(c) \/ AppendPending(c) \/ AppendReturn(c) \/ Rollback(c)
       PROVE  WalkIsRight'
  BY <1>2, <1>12 DEF AppendInsert, AppendPending, AppendReturn, Rollback, fileVars, history
<1>13. ASSUME NEW c \in Conns, NEW e \in Entries, AppendReadBusy(c, e)
       PROVE  WalkIsRight'
  BY <1>3, <1>13 DEF AppendReadBusy, fileVars, history
<1>14. CASE UNCHANGED vars
  BY <1>3, <1>14 DEF vars
<1> HIDE DEF TypeOK, Goto
<1> QED
  BY <1>1, <1>4, <1>5, <1>8, <1>9, <1>10, <1>11, <1>12, <1>13, <1>14
  DEF Next, AppendSteps, AppendInsertFails, AppendCommitBusy, AppendIoError
\* A verdict, once given, stays justified.
LEMMA VerdictStep ==
    ASSUME TypeOK, HeadIsMade, LogIsChain, WalkIsRight, VerdictIsRight, [Next]_vars
    PROVE  VerdictIsRight'
<1> USE DEF TypeOK, VerdictIsRight
<1>1. ASSUME NEW c \in Conns, damaged => damaged',
             verdict'[c] = "none",
             \A d \in Conns \ {c} : /\ verdict'[d] = verdict[d] /\ seenDamage'[d] = seenDamage[d]
                                    /\ overlapped[d] => overlapped'[d]
      PROVE  VerdictIsRight'
  BY <1>1
<1>2. ASSUME UNCHANGED <<verdict, seenDamage>>, damaged => damaged',
             \A d \in Conns : overlapped[d] => overlapped'[d]
      PROVE  VerdictIsRight'
  BY <1>2
<1>3. ASSUME NEW c \in Conns, VerifySteps(c)
      PROVE  VerdictIsRight'
  <2>0. /\ UNCHANGED <<damaged, seenDamage, overlapped>>
        /\ pc[c] \in {"walk", "head", "sig"} /\ head # NoHead /\ head.seq \in Int
    BY <1>3 DEF VerifySteps, VerifyWalk, VerifyHead, VerifySig, VerifyBusy, HeadIsMade, HeadRow,
                history
  <2>1. CASE VerifyWalk(c)
    <3>1. ~WalkPasses => damaged
      BY <2>0, IntactPasses
    <3>2. UNCHANGED verdict \/ (~WalkPasses /\ verdict' = [verdict EXCEPT ![c] = "tampered"])
      BY <2>1 DEF VerifyWalk, Conclude
    <3> QED
      BY <2>0, <3>1, <3>2
  <2>2. CASE VerifyHead(c)
    <3>1. \/ UNCHANGED verdict
          \/ head # walked[c] /\ verdict' = [verdict EXCEPT ![c] = "tampered"]
          \/ head = walked[c] /\ verdict' = [verdict EXCEPT ![c] = "ok"]
      BY <2>2 DEF VerifyHead, Conclude
    <3>2. /\ head # walked[c] => damaged \/ overlapped[c]
          /\ head = walked[c] => ~seenDamage[c]
      BY <2>0, <2>2 DEF VerifyHead, WalkIsRight
    <3> QED
      BY <2>0, <3>1, <3>2
  <2>3. CASE VerifySig(c)
    <3>1. \/ verdict' = [verdict EXCEPT ![c] = "ok"]
          \/ verdict' = [verdict EXCEPT ![c] = "tampered"]
      BY <2>3 DEF VerifySig, Conclude
    <3>2. ~seenDamage[c] /\ c \in Signers
      BY <2>3 DEF VerifySig, WalkIsRight
    <3> QED
      BY <2>0, <3>1, <3>2
  <2>4. CASE VerifyBusy(c)
    <3>1. \/ verdict' = [verdict EXCEPT ![c] = "error"]
          \/ c \in Signers /\ verdict' = [verdict EXCEPT ![c] = "tampered"]
      BY <2>4 DEF VerifyBusy, Conclude, WalkIsRight
    <3> QED
      BY <2>0, <3>1
  <2> QED
    BY <1>3, <2>1, <2>2, <2>3, <2>4 DEF VerifySteps
<1>4. ASSUME NEW c \in Conns, VerifyStart(c) \/ Crash(c) \/ \E e \in Entries : AppendRead(c, e)
      PROVE  VerdictIsRight'
  <2>1. /\ damaged' = damaged /\ verdict'[c] = "none"
        /\ \A d \in Conns \ {c} : /\ verdict'[d] = verdict[d] /\ seenDamage'[d] = seenDamage[d]
                                   /\ overlapped'[d] = overlapped[d]
    BY <1>4 DEF VerifyStart, Crash, AppendRead, Forget
  <2> QED
    BY <1>1, <2>1
<1>5. ASSUME NEW c \in Conns, AppendCommit(c)
      PROVE  VerdictIsRight'
  BY <1>2, <1>5 DEF AppendCommit
<1>6. ASSUME Damage
      PROVE  VerdictIsRight'
  BY <1>2, <1>6 DEF Damage
<1>7. ASSUME UNCHANGED <<verdict, damaged, seenDamage, overlapped>>
      PROVE  VerdictIsRight'
  BY <1>7
<1> HIDE DEF TypeOK, VerdictIsRight
<1> QED
  BY <1>3, <1>4, <1>5, <1>6, <1>7
  DEF Next, AppendSteps, Open, AppendReadBusy, AppendInsert, AppendInsertFails, AppendPending,
      AppendCommitBusy, AppendIoError, AppendReturn, Rollback, history, vars
-----------------------------------------------------------------------------
\* IInv holds always.
THEOREM AuditInvariant == Spec => []IInv
<1>1. Init => IInv
  <2> SUFFICES ASSUME Init PROVE IInv
    OBVIOUS
  <2>1. DOMAIN rows = {} /\ rows = <<>>
    BY DEF Init
  <2>2. TypeOK
    <3>1. GENESIS \in Seq(Entries) /\ NoHead \in HeadRow /\ NoTx \in Tx /\ NoSig \in HeadRow
      BY DEF GENESIS, NoHead, NoTx, NoSig, HeadRow, Tx
    <3>2. IsFiniteSet(DOMAIN rows) /\ rows \in [DOMAIN rows -> Row]
      BY <2>1, FS_EmptySet
    <3> QED
      BY <2>1, <3>1, <3>2 DEF Init, TypeOK, Location
  <2>3. HeadIsMade /\ TxIsFresh /\ CommitIsThere /\ OpenIsAbsent /\ WalkIsRight
    BY <2>1 DEF Init, HeadIsMade, TxIsFresh, CommitIsThere, OpenIsAbsent, WalkIsRight
  <2>4. LogIsChain /\ AppendsAreTruthful /\ VerdictIsRight
    BY <2>1 DEF Init, LogIsChain, AppendsAreTruthful, VerdictIsRight
  <2> QED
    BY <2>2, <2>3, <2>4 DEF IInv
<1>2. IInv /\ [Next]_vars => IInv'
  BY TypeStep, HeadStep, TxStep, ChainStep, EntriesStep, WalkStep, VerdictStep DEF IInv
<1> QED
  BY <1>1, <1>2, PTL DEF Spec

\* The file's and the connections' state is well typed.
THEOREM AuditTypeOK == Spec => []TypeOK
<1>1. IInv => TypeOK
  BY DEF IInv
<1> QED
  BY <1>1, AuditInvariant, PTL

\* For any number of processes and appends the committed rows are one gap-free chain
\* that ends in the recorded head.
THEOREM LogStaysOneChain == Spec => []LogIsChain
<1>1. IInv => LogIsChain
  BY DEF IInv
<1> QED
  BY <1>1, AuditInvariant, PTL

\* What `append` returned is what happened to its row, lock conflicts, I/O errors and
\* crashes of other processes included.
THEOREM AppendsTellTheTruth == Spec => []AppendsAreTruthful
<1>1. IInv => AppendsAreTruthful
  BY DEF IInv
<1> QED
  BY <1>1, AuditInvariant, PTL

\* `verify` finds the damage that was there when it began, however many rows were
\* appended on top of it, and raises no alarm without damage or a commit in between.
THEOREM VerdictsAreRight == Spec => []VerdictIsRight
<1>1. IInv => VerdictIsRight
  BY DEF IInv
<1> QED
  BY <1>1, AuditInvariant, PTL

\* A row that is in the log stays there unchanged, but for damage from outside.
THEOREM RowsAreKept == Spec => AppendOnly
<1> DEFINE Kept == Damage \/ \A n \in DOMAIN rows : n \in DOMAIN rows' /\ rows'[n] = rows[n]
<1>1. ASSUME IInv, [Next]_vars
      PROVE  [Kept]_vars
  <2>1. ASSUME NEW c \in Conns, AppendCommit(c)
        PROVE  Kept
    BY <1>1, <2>1, CommitRows DEF IInv
  <2>2. ASSUME UNCHANGED rows
        PROVE  Kept
    BY <2>2
  <2>3. Damage => Kept
    OBVIOUS
  <2> HIDE DEF Kept
  <2> QED
    BY <1>1, <2>1, <2>2, <2>3
    DEF Next, AppendSteps, VerifySteps, Open, AppendRead, AppendReadBusy, AppendInsert,
        AppendInsertFails, AppendPending, AppendCommitBusy, AppendIoError, AppendReturn,
        Rollback, VerifyStart, VerifyWalk, VerifyHead, VerifySig, VerifyBusy, Crash,
        fileVars
<1> QED
  BY <1>1, AuditInvariant, PTL DEF Spec, AppendOnly
-----------------------------------------------------------------------------
(* The refinement: every step is one of the abstract ledger's, or a stutter. *)

\* The rows up to the head are what the head commits to.
LEMMA CommittedIs == IInv => Committed = head.hash
<1> SUFFICES ASSUME IInv, ~damaged PROVE Contents(head.seq) = head.hash
  BY DEF Committed
<1>1. CASE head = NoHead
  BY <1>1 DEF Contents, NoHead, GENESIS
<1>2. CASE head # NoHead
  BY <1>2 DEF IInv, LogIsChain
<1> QED
  BY <1>1, <1>2

\* What a connection has not committed is not in the log.
LEMMA PendingIsAbsent ==
  ASSUME IInv, HeadIsOwned, NEW c \in Conns, pc[c] \in {"shared", "reserved", "pending"}
  PROVE  /\ tx[c].entry \in Entries /\ status[tx[c].entry] = "open"
         /\ \A n \in 1..Len(head.hash) : head.hash[n] # tx[c].entry
<1>1. /\ tx[c].entry \in Entries /\ status[tx[c].entry] = "open"
      /\ \A d \in Conns \ {c} : tx[d].entry # tx[c].entry
  BY DEF IInv, TxIsFresh
<1> QED
  BY <1>1 DEF HeadIsOwned

\* A step that touches neither the head's hash nor the entries nor who has committed.
LEMMA OwnedKept ==
  ASSUME TypeOK, HeadIsOwned, NEW c \in Conns, NEW to \in Location \ {"committed"},
         pc[c] # "committed", pc' = [pc EXCEPT ![c] = to],
         head'.hash = head.hash, UNCHANGED <<status, tx>>
  PROVE  HeadIsOwned'
BY DEF TypeOK, HeadIsOwned

\* An append that ends, with or without its entry in the log.
LEMMA OwnedEnds ==
  ASSUME TypeOK, HeadIsOwned, NEW c \in Conns, NEW to \in Location \ {"committed"},
         NEW s \in {"ok", "err", "lost"},
         s = "err" => \A n \in 1..Len(head.hash) : head.hash[n] # tx[c].entry,
         status' = [e \in Entries |-> IF e = tx[c].entry THEN s ELSE status[e]],
         tx' = [tx EXCEPT ![c] = NoTx], pc' = [pc EXCEPT ![c] = to],
         head' = head
  PROVE  HeadIsOwned'
<1> SUFFICES ASSUME NEW n \in 1..Len(head.hash)
             PROVE  /\ status'[head.hash[n]] \notin {"new", "err"}
                    /\ status'[head.hash[n]] = "open" =>
                           \E d \in Conns : pc'[d] = "committed" /\ tx'[d].entry = head.hash[n]
  BY DEF HeadIsOwned
<1> DEFINE e == head.hash[n]
<1>1. e \in Entries
  BY DEF TypeOK, HeadRow
<1>2. status[e] \notin {"new", "err"} /\ (status[e] = "open" =>
          \E d \in Conns : pc[d] = "committed" /\ tx[d].entry = e)
  BY DEF HeadIsOwned
<1> HIDE DEF e
<1>3. CASE e = tx[c].entry
  BY <1>1, <1>3 DEF e
<1>4. CASE e # tx[c].entry
  <2>1. status'[e] = status[e]
    BY <1>1, <1>4
  <2>2. \A d \in Conns : pc[d] = "committed" /\ tx[d].entry = e =>
            pc'[d] = "committed" /\ tx'[d].entry = e
    BY <1>4 DEF TypeOK
  <2> QED
    BY <1>2, <2>1, <2>2 DEF e
<1> QED
  BY <1>3, <1>4

\* Whoever damages the file may roll the head back, and no further row is committed to.
LEMMA DamageCuts ==
  ASSUME IInv, Damage
  PROVE  \E k \in 0..Len(head.hash) : head'.hash = SubSeq(head.hash, 1, k)
<1>0. /\ ~damaged /\ head \in HeadRow /\ rows \in [DOMAIN rows -> Row]
      /\ head = NoHead => DOMAIN rows = {}
  BY DEF Damage, IInv, TypeOK, HeadIsMade
<1>1. head.hash \in Seq(Entries)
  BY <1>0 DEF HeadRow
<1>2. CASE head' = head
  <2>1. head'.hash = SubSeq(head.hash, 1, Len(head.hash)) /\ Len(head.hash) \in 0..Len(head.hash)
    BY <1>1, <1>2
  <2> QED
    BY <2>1
<1>3. ASSUME NEW n \in DOMAIN rows, head' = [seq |-> n - 1, hash |-> PrevHash(n)]
      PROVE  \E k \in 0..Len(head.hash) : head'.hash = SubSeq(head.hash, 1, k)
  <2>1. head # NoHead
    BY <1>0, <1>3
  <2>2. /\ DOMAIN rows = 1..head.seq /\ head.hash = Contents(head.seq)
        /\ \A m \in 1..head.seq : rows[m].hash = Contents(m)
    BY <1>0, <2>1 DEF IInv, LogIsChain
  <2>3. head.seq \in Nat /\ n \in 1..head.seq /\ n - 1 \in 0..head.seq
    BY <1>0, <1>3, <2>1, <2>2 DEF IInv, HeadIsMade, HeadRow
  <2>4. PrevHash(n) = Contents(n - 1)
    <3>1. CASE n = 1
      BY <3>1 DEF PrevHash, GENESIS, Contents
    <3>2. CASE n # 1
      <4>1. n - 1 \in 1..head.seq
        BY <2>3, <3>2
      <4> QED
        BY <2>2, <3>2, <4>1 DEF PrevHash
    <3> QED
      BY <3>1, <3>2
  <2>5. Len(head.hash) = head.seq
    BY <1>1, <2>2, <2>3 DEF Contents
  <2>6. Contents(n - 1) = SubSeq(head.hash, 1, n - 1)
    BY <1>1, <2>2, <2>3, <2>5 DEF Contents
  <2> QED
    BY <1>3, <2>3, <2>4, <2>5, <2>6
<1> QED
  BY <1>2, <1>3 DEF Damage

\* Every step keeps the head's entries owned.
LEMMA OwnedStep ==
  ASSUME IInv, HeadIsOwned, [Next]_vars
  PROVE  HeadIsOwned'
<1>0. TypeOK /\ TxIsFresh
  BY DEF IInv
<1>1. ASSUME NEW c \in Conns,
             Open(c) \/ AppendInsert(c) \/ AppendPending(c) \/ VerifyStart(c) \/ VerifySteps(c)
      PROVE  HeadIsOwned'
  <2>1. PICK to \in Location \ {"committed"} :
            pc[c] # "committed" /\ pc' = [pc EXCEPT ![c] = to]
    BY <1>1 DEF Location, Goto, Open, AppendInsert, AppendPending, VerifyStart, VerifySteps,
                VerifyWalk, VerifyHead, VerifySig, VerifyBusy, Conclude
  <2>2. head'.hash = head.hash /\ UNCHANGED <<status, tx>>
    BY <1>1 DEF Open, NoHead, AppendInsert, AppendPending, VerifyStart, VerifySteps,
                VerifyWalk, VerifyHead, VerifySig, VerifyBusy, fileVars
  <2> QED
    BY <1>0, <2>1, <2>2, OwnedKept
<1>2. ASSUME NEW c \in Conns, NEW e \in Entries, AppendRead(c, e) \/ AppendReadBusy(c, e)
      PROVE  HeadIsOwned'
  <2>1. /\ status[e] = "new" /\ head' = head
        /\ \A f \in Entries \ {e} : status'[f] = status[f]
        /\ \A d \in Conns : pc[d] = "committed" => pc'[d] = "committed" /\ tx'[d] = tx[d]
    BY <1>0, <1>2 DEF AppendRead, AppendReadBusy, NextEntry, Goto, fileVars, TypeOK
  <2>2. \A n \in 1..Len(head.hash) : head.hash[n] \in Entries \ {e}
    BY <1>0, <2>1 DEF HeadIsOwned, TypeOK, HeadRow
  <2> QED
    BY <2>1, <2>2 DEF HeadIsOwned
<1>3. ASSUME NEW c \in Conns, AppendInsertFails(c) \/ AppendCommitBusy(c) \/ AppendIoError(c)
      PROVE  HeadIsOwned'
  <2>1. pc[c] \in {"shared", "reserved", "pending"} /\ Rollback(c)
    BY <1>3 DEF AppendInsertFails, AppendCommitBusy, AppendIoError
  <2>2. \A n \in 1..Len(head.hash) : head.hash[n] # tx[c].entry
    BY <2>1, PendingIsAbsent
  <2> QED
    BY <1>0, <2>1, <2>2, OwnedEnds DEF Rollback, Goto, Location, fileVars
<1>4. ASSUME NEW c \in Conns, AppendReturn(c) PROVE HeadIsOwned'
  BY <1>0, <1>4, OwnedEnds DEF AppendReturn, Goto, Location, fileVars
<1>5. ASSUME NEW c \in Conns, Crash(c) PROVE HeadIsOwned'
  BY <1>0, <1>5, OwnedEnds DEF Crash, Goto, Location, fileVars
<1>6. ASSUME NEW c \in Conns, AppendCommit(c) PROVE HeadIsOwned'
  <2> DEFINE e == tx[c].entry
  <2>1. /\ pc[c] = "pending" /\ pc' = [pc EXCEPT ![c] = "committed"]
        /\ head'.hash = tx[c].hash /\ UNCHANGED <<status, tx>>
    BY <1>6 DEF AppendCommit, Goto
  <2>2. tx[c].hash = Append(head.hash, e) /\ e \in Entries /\ status[e] = "open"
    BY <1>0, <2>1 DEF TxIsFresh, ChainHash
  <2>3. head.hash \in Seq(Entries) /\ pc \in [Conns -> Location]
    BY <1>0 DEF TypeOK, HeadRow
  <2>4. /\ Len(head'.hash) = Len(head.hash) + 1
        /\ \A n \in 1..Len(head.hash) : head'.hash[n] = head.hash[n]
        /\ head'.hash[Len(head.hash) + 1] = e
    BY <2>1, <2>2, <2>3
  <2>5. pc'[c] = "committed" /\ \A d \in Conns : pc[d] = "committed" => pc'[d] = "committed"
    BY <2>1, <2>3
  <2>6. \A n \in 1..(Len(head.hash) + 1) : n \in 1..Len(head.hash) \/ n = Len(head.hash) + 1
    BY <2>3
  <2> HIDE DEF e
  <2> SUFFICES ASSUME NEW n \in 1..Len(head'.hash)
               PROVE  /\ status'[head'.hash[n]] \notin {"new", "err"}
                      /\ status'[head'.hash[n]] = "open" =>
                             \E d \in Conns : pc'[d] = "committed" /\ tx'[d].entry = head'.hash[n]
    BY DEF HeadIsOwned
  <2>7. CASE n \in 1..Len(head.hash)
    BY <2>1, <2>4, <2>5, <2>7 DEF HeadIsOwned
  <2>8. CASE n = Len(head.hash) + 1
    BY <2>1, <2>2, <2>4, <2>5, <2>8 DEF e
  <2> QED
    BY <2>4, <2>6, <2>7, <2>8
<1>7. CASE Damage
  <2>1. \E k \in 0..Len(head.hash) : head'.hash = SubSeq(head.hash, 1, k)
    BY <1>7, DamageCuts
  <2>2. UNCHANGED <<status, pc, tx>> /\ head.hash \in Seq(Entries)
    BY <1>0, <1>7 DEF Damage, TypeOK, HeadRow
  <2>3. Len(head'.hash) \in 0..Len(head.hash) /\ \A n \in 1..Len(head'.hash) : head'.hash[n] = head.hash[n]
    BY <2>1, <2>2
  <2> QED
    BY <2>2, <2>3 DEF HeadIsOwned
<1>8. CASE UNCHANGED vars
  BY <1>8 DEF vars, HeadIsOwned
<1> QED
  BY <1>1, <1>2, <1>3, <1>4, <1>5, <1>6, <1>7, <1>8 DEF Next, AppendSteps

\* The same after a step.
LEMMA CommittedIsNext == (IInv => Committed = head.hash)'
BY CommittedIs, PTL

\* What the ledger sees.
ledger == <<Committed, status, damaged>>

\* An append that ends is an answer, and not `ok` nor `err` against the log.
LEMMA EndAnswers ==
  ASSUME IInv, IInv', NEW c \in Conns, NEW s \in {"ok", "err", "lost"},
         tx[c].entry \in Entries, status[tx[c].entry] = "open",
         s = "ok" => damaged \/ \E n \in 1..Len(head.hash) : head.hash[n] = tx[c].entry,
         s = "err" => \A n \in 1..Len(head.hash) : head.hash[n] # tx[c].entry,
         status' = [e \in Entries |-> IF e = tx[c].entry THEN s ELSE status[e]],
         UNCHANGED <<head, damaged>>
  PROVE  Abstract!Next
<1>1. Committed = head.hash /\ Committed' = head.hash
  BY CommittedIs, CommittedIsNext
<1>2. status' = [status EXCEPT ![tx[c].entry] = s]
  BY DEF IInv, TypeOK
<1>3. Abstract!Answer(tx[c].entry, s)
  BY <1>1, <1>2 DEF Abstract!Answer, Abstract!In
<1> QED
  BY <1>3 DEF Abstract!Next, Abstract!Answers

\* A commit that is not yet reported is in what the head commits to, unless somebody
\* damaged the file meanwhile.
LEMMA CommitIsInHead ==
  ASSUME IInv, NEW c \in Conns, pc[c] = "committed", ~damaged
  PROVE  \E n \in 1..Len(head.hash) : head.hash[n] = tx[c].entry
<1>1. head # NoHead /\ head \in HeadRow /\ head.seq >= 0
  BY DEF IInv, HeadIsMade, TypeOK
<1>2. DOMAIN rows = 1..head.seq /\ head.hash = Contents(head.seq)
  BY <1>1 DEF IInv, LogIsChain
<1>3. tx[c].seq \in DOMAIN rows /\ rows[tx[c].seq].content = tx[c].entry
  BY DEF IInv, CommitIsThere
<1>4. head.seq \in Nat /\ Len(head.hash) = head.seq
  BY <1>1, <1>2 DEF HeadRow, Contents
<1>5. tx[c].seq \in 1..Len(head.hash) /\ head.hash[tx[c].seq] = tx[c].entry
  BY <1>2, <1>3, <1>4 DEF Contents
<1> QED
  BY <1>5

\* Every step is one of the ledger's, or nothing it can see.
LEMMA StepIsLedgers ==
  ASSUME IInv, IInv', HeadIsOwned, [Next]_vars
  PROVE  Abstract!Next \/ UNCHANGED ledger
<1>0. /\ TypeOK /\ TxIsFresh
      /\ Committed = head.hash /\ Committed' = head'.hash
      /\ head.hash \in Seq(Entries)
  BY CommittedIs, CommittedIsNext DEF IInv, TypeOK, HeadRow
<1>1. ASSUME NEW c \in Conns,
             Open(c) \/ AppendInsert(c) \/ AppendPending(c) \/ VerifyStart(c) \/ VerifySteps(c)
      PROVE  UNCHANGED ledger
  <2>1. head'.hash = head.hash /\ UNCHANGED <<status, damaged>>
    BY <1>1 DEF Open, NoHead, AppendInsert, AppendPending, VerifyStart, VerifySteps,
                VerifyWalk, VerifyHead, VerifySig, VerifyBusy, fileVars, history
  <2> QED
    BY <1>0, <2>1 DEF ledger
<1>2. ASSUME NEW c \in Conns, NEW e \in Entries, AppendRead(c, e) \/ AppendReadBusy(c, e)
      PROVE  Abstract!Next
  <2>1. PICK s \in {"open", "err"} : status' = [status EXCEPT ![e] = s]
    BY <1>2 DEF AppendRead, AppendReadBusy
  <2>2. status[e] = "new" /\ UNCHANGED <<head, damaged>>
    BY <1>2 DEF AppendRead, AppendReadBusy, NextEntry, fileVars, history
  <2>3. Abstract!Begin(e)
    BY <1>0, <2>1, <2>2 DEF Abstract!Begin
  <2> QED
    BY <2>3 DEF Abstract!Next
<1>3. ASSUME NEW c \in Conns, AppendInsertFails(c) \/ AppendCommitBusy(c) \/ AppendIoError(c)
      PROVE  Abstract!Next
  <2>1. pc[c] \in {"shared", "reserved", "pending"} /\ Rollback(c)
    BY <1>3 DEF AppendInsertFails, AppendCommitBusy, AppendIoError
  <2>2. /\ tx[c].entry \in Entries /\ status[tx[c].entry] = "open"
        /\ \A n \in 1..Len(head.hash) : head.hash[n] # tx[c].entry
    BY <2>1, PendingIsAbsent
  <2>3. /\ status' = [e \in Entries |-> IF e = tx[c].entry THEN "err" ELSE status[e]]
        /\ UNCHANGED <<head, damaged>>
    BY <2>1 DEF Rollback, fileVars, history
  <2> QED
    BY <2>2, <2>3, EndAnswers
<1>4. ASSUME NEW c \in Conns, AppendReturn(c)
      PROVE  Abstract!Next
  <2>1. /\ pc[c] = "committed"
        /\ status' = [e \in Entries |-> IF e = tx[c].entry THEN "ok" ELSE status[e]]
        /\ UNCHANGED <<head, damaged>>
    BY <1>4 DEF AppendReturn, fileVars, history
  <2>2. tx[c].entry \in Entries /\ status[tx[c].entry] = "open"
    BY <1>0, <2>1 DEF TxIsFresh
  <2>3. damaged \/ \E n \in 1..Len(head.hash) : head.hash[n] = tx[c].entry
    BY <2>1, CommitIsInHead
  <2> QED
    BY <2>1, <2>2, <2>3, EndAnswers
<1>5. ASSUME NEW c \in Conns, Crash(c)
      PROVE  Abstract!Next \/ UNCHANGED ledger
  <2>1. /\ status' = [e \in Entries |-> IF e = tx[c].entry THEN "lost" ELSE status[e]]
        /\ UNCHANGED <<head, damaged>>
    BY <1>5 DEF Crash, fileVars
  <2>2. CASE pc[c] \in {"shared", "reserved", "pending", "committed"}
    <3>1. tx[c].entry \in Entries /\ status[tx[c].entry] = "open"
      BY <1>0, <2>2 DEF TxIsFresh
    <3> QED
      BY <2>1, <3>1, EndAnswers
  <2>3. CASE pc[c] \notin {"shared", "reserved", "pending", "committed"}
    <3>1. tx[c].entry \notin Entries
      BY <1>0, <2>3 DEF TxIsFresh, NoTx, Entries
    <3>2. status' = status
      BY <1>0, <2>1, <3>1 DEF TypeOK
    <3> QED
      BY <1>0, <2>1, <3>2 DEF ledger
  <2> QED
    BY <2>2, <2>3
<1>6. ASSUME NEW c \in Conns, AppendCommit(c)
      PROVE  Abstract!Next
  <2>1. pc[c] = "pending" /\ head'.hash = tx[c].hash /\ UNCHANGED <<status, damaged>>
    BY <1>6 DEF AppendCommit
  <2>2. tx[c].hash = Append(head.hash, tx[c].entry)
    BY <1>0, <2>1 DEF TxIsFresh, ChainHash
  <2>3. /\ tx[c].entry \in Entries /\ status[tx[c].entry] = "open"
        /\ \A n \in 1..Len(head.hash) : head.hash[n] # tx[c].entry
    BY <2>1, PendingIsAbsent
  <2>4. Abstract!Commit(tx[c].entry)
    BY <1>0, <2>1, <2>2, <2>3 DEF Abstract!Commit, Abstract!In
  <2> QED
    BY <2>3, <2>4 DEF Abstract!Next
<1>7. CASE Damage
  <2>1. ~damaged /\ damaged' = TRUE /\ UNCHANGED status
    BY <1>7 DEF Damage
  <2>2. \E k \in 0..Len(head.hash) : head'.hash = SubSeq(head.hash, 1, k)
    BY <1>7, DamageCuts
  <2>3. Abstract!Tamper
    BY <1>0, <2>1, <2>2 DEF Abstract!Tamper
  <2> QED
    BY <2>3 DEF Abstract!Next
<1>8. CASE UNCHANGED vars
  BY <1>0, <1>8 DEF vars, ledger
<1> QED
  BY <1>1, <1>2, <1>3, <1>4, <1>5, <1>6, <1>7, <1>8 DEF Next, AppendSteps

\* For any number of processes and appends, the file and its connections are one ledger:
\* `append` puts the entry at the end of the one sequence or leaves it alone, and its
\* answer says which, lock conflicts, disk errors, crashes and a rolled-back head included.
THEOREM AuditImplementsLedger == Spec => ImplementsLedger
<1>1. Init => Abstract!Init
  BY DEF Init, Abstract!Init, Committed, Contents, NoHead
<1>2. Init => HeadIsOwned
  BY DEF Init, HeadIsOwned, NoHead, GENESIS
<1>3. IInv /\ IInv' /\ HeadIsOwned /\ [Next]_vars => [Abstract!Next]_(Abstract!vars)
  BY StepIsLedgers DEF Abstract!vars, ledger
<1>4. IInv /\ HeadIsOwned /\ [Next]_vars => HeadIsOwned'
  BY OwnedStep
<1> QED
  BY <1>1, <1>2, <1>3, <1>4, AuditInvariant, PTL DEF Spec, ImplementsLedger, Abstract!Spec
=============================================================================
