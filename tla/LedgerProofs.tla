---------------------------- MODULE LedgerProofs ----------------------------
(***************************************************************************)
(* The chain of LedgerChain, proved for every set of processes and every   *)
(* number of rows.  The invariant adds to the types what makes an append   *)
(* safe: as long as the ledger was never shared, at most one process has   *)
(* it open, and that process's tip is the hash of the last row.            *)
(***************************************************************************)
EXTENDS LedgerChain, TLAPS

Open1 == \A p, q \in Processes : pc[p] # "closed" /\ pc[q] # "closed" => p = q
TipIsLast == \A p \in Processes : pc[p] # "closed" => tip[p] = LoadTip
Digested == \A p \in Processes : pc[p] \in Appending => tip[p] # <<>>

IInv == /\ TypeOK
        /\ Digested
        /\ ~shared => Verify /\ Open1 /\ TipIsLast

\* A tip that was ever extended ends with a fact.
LEMMA PendingType ==
    ASSUME TypeOK, Digested, NEW p \in Processes, pc[p] \in Appending
    PROVE  Pending(p) \in Nat
<1>1. tip[p] \in Seq(Nat) /\ tip[p] # <<>>
  BY DEF TypeOK, Digested, Hashes
<1> QED
  BY <1>1 DEF Pending

\* The tip a process loads is a hash.
LEMMA LoadTipType == TypeOK => LoadTip \in Hashes
<1> SUFFICES ASSUME TypeOK, rows # <<>> PROVE rows[Len(rows)].hash \in Hashes
  BY DEF LoadTip, GENESIS_HASH, Hashes
<1>1. rows \in Seq(Row) /\ Len(rows) \in 1 .. Len(rows)
  BY DEF TypeOK
<1>2. rows[Len(rows)] \in Row
  BY <1>1
<1> QED
  BY <1>2 DEF Row

\* An empty ledger that nobody has open.
LEMMA InitInv == Init => IInv
<1> SUFFICES ASSUME Init PROVE IInv
  OBVIOUS
<1>1. <<>> \in Seq(Nat) /\ <<>> \in Seq(Row) /\ <<>> \in Seq(Line) /\ Len(<<>>) = 0
  OBVIOUS
<1>2. /\ rows \in Seq(Row) /\ journal \in Seq(Line) /\ half \in BOOLEAN /\ torn \in BOOLEAN
      /\ synced \in 0 .. Len(journal)
  <2>1. rows = <<>> /\ journal = <<>> /\ half = FALSE /\ torn = FALSE /\ synced = 0
    BY DEF Init
  <2>2. synced \in 0 .. Len(journal)
    <3>1. Len(journal) = 0
      BY <1>1, <2>1
    <3> QED BY <2>1, <3>1
  <2> QED BY <1>1, <2>1, <2>2
<1>3. /\ tip \in [Processes -> Hashes] /\ pc \in [Processes -> {"closed", "open"} \cup Appending]
      /\ acked \subseteq [by : Processes, fact : Nat] /\ shared \in BOOLEAN
  BY <1>1 DEF Init, Hashes, GENESIS_HASH
<1>4. TypeOK
  BY <1>2, <1>3 DEF TypeOK
<1> QED
  BY <1>4 DEF Init, IInv, Digested, Appending, Verify, Open1, TipIsLast

\* Opening a ledger that nobody else has open loads the tip of the chain.
LEMMA OpenInv == ASSUME IInv, NEW p \in Processes, Open(p) PROVE IInv'
<1>1. TypeOK'
  BY LoadTipType DEF IInv, TypeOK, Open, file
<1>2. Digested'
  BY DEF IInv, Digested, Open, TypeOK, Appending
<1>3. ASSUME ~shared' PROVE Verify' /\ Open1' /\ TipIsLast'
  <2>1. ~shared /\ \A q \in Processes \ {p} : pc[q] = "closed"
    BY <1>3 DEF Open, IInv, TypeOK
  <2>2. Verify'
    BY <2>1 DEF IInv, Open, Verify, Previous
  <2>3. LoadTip' = LoadTip
    BY DEF Open, LoadTip
  <2>4. Open1' /\ TipIsLast'
    BY <2>1, <2>3 DEF Open, Open1, TipIsLast, IInv, TypeOK
  <2> QED
    BY <2>2, <2>4
<1> QED
  BY <1>1, <1>2, <1>3 DEF IInv

\* The new row extends the chain, and its hash is both the tip and the last.
LEMMA CommitInv == ASSUME IInv, NEW p \in Processes, Commit(p) PROVE IInv'
<1>0. PICK fact \in Nat : fact = Len(rows) + 1
  BY DEF IInv, TypeOK
<1> DEFINE digest == Append(tip[p], fact)
           row == [fact |-> fact, prev_hash |-> tip[p], hash |-> digest]
<1>1. /\ pc[p] = "open" /\ rows' = Append(rows, row)
      /\ tip' = [tip EXCEPT ![p] = digest]
      /\ pc' = [pc EXCEPT ![p] = "committed"]
      /\ UNCHANGED <<journal, half, torn, synced, acked, shared>>
  BY <1>0 DEF Commit, file
<1>2. fact \in Nat /\ tip[p] \in Seq(Nat) /\ digest \in Seq(Nat) /\ digest # <<>>
  <2>1. fact \in Nat /\ tip[p] \in Seq(Nat)
    BY <1>0 DEF IInv, TypeOK, Hashes
  <2>2. digest \in Seq(Nat) /\ Len(digest) = Len(tip[p]) + 1
    BY <2>1
  <2> QED
    BY <2>1, <2>2
<1>3. row \in Row
  BY <1>2 DEF Row, Hashes
<1> HIDE DEF row, digest
<1>4. TypeOK'
  BY <1>1, <1>2, <1>3 DEF IInv, TypeOK, Hashes, Appending
<1>5. Digested'
  BY <1>1, <1>2 DEF IInv, Digested, TypeOK, Appending
<1>6. ASSUME ~shared PROVE Verify' /\ Open1' /\ TipIsLast'
  <2>1. Verify /\ Open1 /\ tip[p] = LoadTip
    BY <1>1, <1>6 DEF IInv, TipIsLast
  <2>2. /\ Len(rows') = fact /\ rows'[fact] = row
        /\ \A i \in 1 .. Len(rows) : rows'[i] = rows[i]
    BY <1>0, <1>1 DEF IInv, TypeOK
  <2>3. LoadTip' = digest
    <3>1. rows' # <<>> /\ Len(rows') = fact
      BY <2>2, <1>0 DEF IInv, TypeOK
    <3>2. LoadTip' = row.hash
      BY <3>1, <2>2 DEF LoadTip
    <3>3. row.hash = digest
      BY DEF row
    <3> QED
      BY <3>2, <3>3
  <2>4. \A i \in 1 .. Len(rows) : Previous(i)' = Previous(i)
    <3> SUFFICES ASSUME NEW i \in 1 .. Len(rows) PROVE Previous(i)' = Previous(i)
      OBVIOUS
    <3>1. i = 1 \/ i - 1 \in 1 .. Len(rows)
      BY DEF IInv, TypeOK
    <3> QED
      BY <3>1, <2>2 DEF Previous
  <2>5. Previous(fact)' = LoadTip
    <3>1. rows \in Seq(Row) /\ fact - 1 = Len(rows) /\ (rows = <<>> <=> fact = 1)
      BY <1>0 DEF IInv, TypeOK
    <3>2. CASE rows = <<>>
      BY <3>1, <3>2 DEF Previous, LoadTip
    <3>3. CASE rows # <<>>
      <4>1. Len(rows) \in 1 .. Len(rows) /\ fact # 1
        BY <3>1, <3>3
      <4> QED
        BY <3>1, <3>3, <4>1, <2>2 DEF Previous, LoadTip
    <3> QED
      BY <3>2, <3>3
  <2>6. row.prev_hash = LoadTip /\ row.hash = Append(LoadTip, row.fact)
    BY <2>1 DEF row, digest
  <2>7. Verify'
    <3> SUFFICES ASSUME NEW i \in 1 .. Len(rows')
                 PROVE  /\ rows'[i].prev_hash = Previous(i)'
                        /\ rows'[i].hash = Append(Previous(i)', rows'[i].fact)
      BY DEF Verify
    <3>1. CASE i = fact
      <4>1. rows'[i] = row /\ Previous(i)' = LoadTip
        BY <3>1, <2>2, <2>5
      <4> QED
        BY <4>1, <2>6
    <3>2. CASE i # fact
      <4>1. i \in 1 .. Len(rows)
        BY <3>2, <2>2, <1>0 DEF IInv, TypeOK
      <4> QED
        BY <4>1, <2>1, <2>2, <2>4 DEF Verify
    <3> QED
      BY <3>1, <3>2
  <2>8. Open1'
    BY <1>1, <2>1 DEF Open1, IInv, TypeOK
  <2>9. TipIsLast'
    BY <1>1, <2>1, <2>3 DEF TipIsLast, Open1, IInv, TypeOK
  <2> QED
    BY <2>7, <2>8, <2>9
<1> QED
  BY <1>1, <1>4, <1>5, <1>6 DEF IInv

\* Nothing but an append's line, or its end, changes the file.
LEMMA FileType ==
    ASSUME IInv, NEW p \in Processes,
           Stops(p) \/ Write(p) \/ Sync(p) \/ Return(p) \/ JournalFails(p)
    PROVE  /\ journal' \in Seq(Line) /\ half' \in BOOLEAN /\ torn' \in BOOLEAN
           /\ synced' \in 0 .. Len(journal')
           /\ acked' \subseteq [by : Processes, fact : Nat]
<1>0. /\ journal \in Seq(Line) /\ half \in BOOLEAN /\ torn \in BOOLEAN /\ synced \in 0 .. Len(journal)
      /\ Len(journal) \in Nat /\ acked \subseteq [by : Processes, fact : Nat]
  BY DEF IInv, TypeOK
<1>1. CASE Stops(p) \/ JournalFails(p)
  BY <1>0, <1>1 DEF Stops, JournalFails, file
<1>2. CASE Write(p)
  <2>1. Pending(p) \in Nat
    BY <1>2, PendingType DEF IInv, Write, Appending
  <2> DEFINE line == [fact |-> Pending(p), whole |-> ~half]
  <2>2. line \in Line
    BY <1>0, <2>1 DEF Line
  <2> HIDE DEF line
  <2>3. journal' = Append(journal, line) /\ half' = FALSE /\ UNCHANGED <<torn, synced, acked>>
    BY <1>2 DEF Write, line
  <2>4. journal' \in Seq(Line) /\ Len(journal') = Len(journal) + 1
    BY <1>0, <2>2, <2>3
  <2>5. \A n \in Nat : 0 .. n \subseteq 0 .. n + 1
    OBVIOUS
  <2>6. synced' \in 0 .. Len(journal')
    BY <1>0, <2>3, <2>4, <2>5
  <2> QED BY <1>0, <2>3, <2>4, <2>6
<1>3. CASE Sync(p)
  BY <1>0, <1>3 DEF Sync
<1>4. CASE Return(p)
  <2>1. Pending(p) \in Nat
    BY <1>4, PendingType DEF IInv, Return, Appending
  <2>2. UNCHANGED <<journal, half, torn, synced>> /\ acked' = acked \cup {[by |-> p, fact |-> Pending(p)]}
    BY <1>4 DEF Return, file
  <2> HIDE DEF Pending
  <2> QED BY <1>0, <2>1, <2>2
<1> QED
  BY <1>1, <1>2, <1>3, <1>4

\* The rest of an append, and the end of a process, leave chain and tips alone.
LEMMA OtherInv ==
    ASSUME IInv, NEW p \in Processes,
           Stops(p) \/ Write(p) \/ Sync(p) \/ Return(p) \/ JournalFails(p)
    PROVE  IInv'
<1>1. /\ pc[p] # "closed"
      /\ \E s \in {"closed", "open"} \cup Appending :
            /\ pc' = [pc EXCEPT ![p] = s]
            /\ s \in Appending => pc[p] \in Appending
      /\ UNCHANGED <<rows, tip, shared>>
  BY DEF Stops, Write, Sync, Return, JournalFails, Appending
<1>2. TypeOK'
  BY <1>1, FileType DEF IInv, TypeOK
<1>3. Digested'
  BY <1>1 DEF IInv, Digested, TypeOK
<1>4. ASSUME ~shared PROVE Verify' /\ Open1' /\ TipIsLast'
  <2>1. Verify'
    BY <1>1, <1>4 DEF IInv, Verify, Previous
  <2>2. LoadTip' = LoadTip
    BY <1>1 DEF LoadTip
  <2>3. Open1' /\ TipIsLast'
    BY <1>1, <1>4, <2>2 DEF IInv, Open1, TipIsLast, TypeOK
  <2> QED
    BY <2>1, <2>3
<1> QED
  BY <1>1, <1>2, <1>3, <1>4 DEF IInv

\* A power failure shortens the file and ends every process.
LEMMA PowerInv == ASSUME IInv, PowerFails PROVE IInv'
<1>1. /\ pc' = [p \in Processes |-> "closed"]
      /\ UNCHANGED <<rows, tip, acked, shared>>
  BY DEF PowerFails
<1>2. TypeOK'
  <2>1. PICK n \in synced .. Len(journal) :
           journal' = SubSeq(journal, 1, n) /\ synced' = n
           /\ half' \in BOOLEAN /\ torn' = (torn \/ half')
    BY DEF PowerFails
  <2>2. journal \in Seq(Line) /\ n \in 0 .. Len(journal)
    BY DEF IInv, TypeOK
  <2>3. journal' \in Seq(Line) /\ Len(journal') = n
    BY <2>1, <2>2
  <2> QED BY <1>1, <2>1, <2>2, <2>3 DEF IInv, TypeOK
<1>3. Digested' /\ (~shared => Verify' /\ Open1' /\ TipIsLast')
  BY <1>1 DEF IInv, Digested, Appending, Verify, Previous, Open1, TipIsLast
<1> QED
  BY <1>1, <1>2, <1>3 DEF IInv

\* Every step of every process keeps the invariant.
LEMMA NextInv == IInv /\ [Next]_vars => IInv'
<1> SUFFICES ASSUME IInv, [Next]_vars PROVE IInv'
  OBVIOUS
<1>1. CASE Next
  BY <1>1, OpenInv, CommitInv, OtherInv, PowerInv DEF Next
<1>2. CASE UNCHANGED vars
  BY <1>2 DEF vars, file, IInv, TypeOK, Digested, Verify, Previous, Open1, TipIsLast, LoadTip
<1> QED
  BY <1>1, <1>2

\* The types and the invariant hold in every reachable state.
THEOREM Inductive == Spec => []IInv
  BY InitInv, NextInv, PTL DEF Spec

\* However processes crash, restart and fail to write the journal, verify()
\* fails only in a ledger that two processes had open at the same time.
THEOREM Intact == Spec => []BrokenOnlyIfShared
<1>1. IInv => BrokenOnlyIfShared
  BY DEF IInv, BrokenOnlyIfShared
<1> QED
  BY <1>1, Inductive, PTL

\* Every reachable state is well typed.
THEOREM Typed == Spec => []TypeOK
<1>1. IInv => TypeOK
  BY DEF IInv
<1> QED
  BY <1>1, Inductive, PTL

-----------------------------------------------------------------------------
(* The journal *)

\* Facts are numbered in the order of the rows.
Numbered == \A i \in 1 .. Len(rows) : rows[i].fact = i

\* There is a row for every line, and for every line to come.
Rowed == /\ \A i \in 1 .. Len(journal) : journal[i].fact <= Len(rows)
         /\ \A p \in Processes : pc[p] \in Appending => Pending(p) <= Len(rows)

\* How far an append is with its line, and where the line is once it returned.
InFile  == \A p \in Processes : pc[p] = "written" => \E i \in 1 .. Len(journal) : journal[i].fact = Pending(p)
OnDisk  == \A p \in Processes : pc[p] = "synced" => \E i \in 1 .. synced : journal[i].fact = Pending(p)
Kept    == \A a \in acked : a.by \in Journaling => \E i \in 1 .. synced : journal[i].fact = a.fact

\* The lines are in order, and a process about to write one has the last row,
\* which has no line yet.
InOrder == \A i, j \in 1 .. Len(journal) : i < j => journal[i].fact < journal[j].fact
Behind  == \A p \in Processes : pc[p] = "committed" =>
              \A i \in 1 .. Len(journal) : journal[i].fact < Len(rows)

\* A line is spoilt by half a line before it, and by nothing else.
Readable == ~torn => ~half /\ \A i \in 1 .. Len(journal) : journal[i].whole

JInv == Numbered /\ Rowed /\ Readable /\ InFile /\ OnDisk /\ Kept /\ (~shared => InOrder /\ Behind)

\* In a ledger that was never shared the pending fact is that of the last row.
LEMMA PendingIsLast ==
    ASSUME IInv, Numbered, ~shared, NEW p \in Processes, pc[p] = "committed"
    PROVE  Pending(p) = Len(rows)
<1>1. tip[p] = LoadTip /\ tip[p] # <<>>
  BY DEF IInv, TipIsLast, Digested, Appending
<1>2. rows # <<>> /\ tip[p] = rows[Len(rows)].hash
  BY <1>1 DEF LoadTip, GENESIS_HASH
<1>3. rows \in Seq(Row) /\ Len(rows) \in Nat /\ Len(rows) \in 1 .. Len(rows)
  BY <1>2 DEF IInv, TypeOK
<1>4. tip[p] = Append(Previous(Len(rows)), Len(rows))
  BY <1>2, <1>3 DEF IInv, Verify, Numbered
<1>5. Previous(Len(rows)) \in Seq(Nat)
  <2>1. CASE Len(rows) = 1
    <3>1. <<>> \in Seq(Nat)
      OBVIOUS
    <3> QED BY <2>1, <3>1 DEF Previous, GENESIS_HASH
  <2>2. CASE Len(rows) # 1
    <3>1. Len(rows) - 1 \in 1 .. Len(rows)
      <4>1. \A n \in Nat : n \in 1 .. n /\ n # 1 => n - 1 \in 1 .. n
        OBVIOUS
      <4> QED BY <1>3, <2>2, <4>1
    <3>2. rows[Len(rows) - 1] \in Row
      BY <1>3, <3>1
    <3> QED BY <2>2, <3>2 DEF Previous, Row, Hashes
  <2> QED BY <2>1, <2>2
<1> HIDE DEF Previous
<1> QED
  BY <1>3, <1>4, <1>5 DEF Pending

\* The types that the steps of the journal rest on.
LEMMA JournalTyped ==
    ASSUME IInv
    PROVE  /\ rows \in Seq(Row) /\ Len(rows) \in Nat
           /\ journal \in Seq(Line) /\ Len(journal) \in Nat /\ synced \in 0 .. Len(journal)
           /\ \A i \in 1 .. Len(journal) : journal[i].fact \in Nat
           /\ pc \in [Processes -> {"closed", "open"} \cup Appending]
           /\ tip \in [Processes -> Seq(Nat)]
<1>1. \A i \in 1 .. Len(journal) : journal[i] \in Line
  BY DEF IInv, TypeOK
<1> QED BY <1>1 DEF IInv, TypeOK, Hashes, Line

\* A commit adds a row; the line that is now to be written is later than all.
LEMMA JournalCommit == ASSUME IInv, JInv, NEW p \in Processes, Commit(p) PROVE JInv'
<1>1. /\ UNCHANGED <<journal, half, torn, synced, acked, shared>>
      /\ pc' = [pc EXCEPT ![p] = "committed"]
      /\ tip' = [tip EXCEPT ![p] = Append(tip[p], Len(rows) + 1)]
  BY DEF Commit, file
<1>2. /\ Len(rows') = Len(rows) + 1 /\ rows'[Len(rows) + 1].fact = Len(rows) + 1
      /\ \A i \in 1 .. Len(rows) : rows'[i] = rows[i]
  <2> DEFINE row == [fact |-> Len(rows) + 1, prev_hash |-> tip[p],
                     hash |-> Append(tip[p], Len(rows) + 1)]
  <2>1. rows' = Append(rows, row) /\ row.fact = Len(rows) + 1
    BY DEF Commit
  <2> HIDE DEF row
  <2> QED BY <2>1, JournalTyped
<1>3. Numbered'
  <2>1. 1 .. Len(rows') = (1 .. Len(rows)) \cup {Len(rows) + 1}
    BY <1>2, JournalTyped
  <2> QED BY <1>2, <2>1 DEF JInv, Numbered
<1>4. Pending(p)' = Len(rows) + 1 /\ \A q \in Processes \ {p} : Pending(q)' = Pending(q) /\ pc'[q] = pc[q]
  <2>1. tip'[p] = Append(tip[p], Len(rows) + 1) /\ tip[p] \in Seq(Nat) /\ Len(rows) + 1 \in Nat
    BY <1>1, JournalTyped
  <2>2. \A q \in Processes \ {p} : tip'[q] = tip[q] /\ pc'[q] = pc[q]
    BY <1>1, JournalTyped
  <2>3. Pending(p)' = Len(rows) + 1
    BY <2>1 DEF Pending
  <2> QED BY <2>2, <2>3 DEF Pending
<1> HIDE DEF Pending
<1>5. pc'[p] = "committed" /\ "committed" \in Appending
  BY <1>1, JournalTyped DEF Appending
<1>6. \A i \in 1 .. Len(journal) : journal[i].fact \in Nat /\ journal[i].fact <= Len(rows)
  BY JournalTyped DEF JInv, Rowed
<1>7. \A q \in Processes \ {p} : pc[q] \in Appending => Pending(q) \in Nat /\ Pending(q) <= Len(rows)
  BY PendingType DEF JInv, Rowed, IInv
<1>8. Rowed'
  <2>1. \A n \in Nat : n <= Len(rows) => n <= Len(rows')
    BY <1>2, JournalTyped
  <2>2. \A i \in 1 .. Len(journal') : journal'[i].fact <= Len(rows')
    BY <1>1, <1>6, <2>1
  <2>3. Pending(p)' <= Len(rows')
    BY <1>2, <1>4, JournalTyped
  <2>4. \A q \in Processes \ {p} : pc'[q] \in Appending => Pending(q)' <= Len(rows')
    BY <1>4, <1>7, <2>1
  <2> QED BY <2>2, <2>3, <2>4 DEF Rowed
<1>9. Readable' /\ InFile' /\ OnDisk' /\ Kept'
  BY <1>1, <1>4, <1>5 DEF JInv, Readable, InFile, OnDisk, Kept
<1>10. ~shared' => InOrder' /\ Behind'
  <2>1. \A n \in Nat : n <= Len(rows) => n < Len(rows')
    BY <1>2, JournalTyped
  <2>2. Behind'
    BY <1>1, <1>6, <2>1 DEF Behind
  <2> QED BY <1>1, <2>2 DEF JInv, InOrder
<1> QED
  BY <1>3, <1>8, <1>9, <1>10 DEF JInv

\* A line is later than those before it, unless the ledger was shared.
LEMMA JournalWrite == ASSUME IInv, JInv, NEW p \in Processes, Write(p) PROVE JInv'
<1>1. /\ pc[p] = "committed" /\ pc' = [pc EXCEPT ![p] = "written"] /\ half' = FALSE
      /\ UNCHANGED <<rows, torn, synced, tip, acked, shared>>
  BY DEF Write
<1>2. Pending(p) \in Nat /\ Pending(p) <= Len(rows)
  BY <1>1, PendingType DEF IInv, JInv, Rowed, Appending
<1>3. /\ Len(journal') = Len(journal) + 1 /\ journal'[Len(journal) + 1].fact = Pending(p)
      /\ journal'[Len(journal) + 1].whole = ~half
      /\ \A i \in 1 .. Len(journal) : journal'[i] = journal[i]
  <2> DEFINE line == [fact |-> Pending(p), whole |-> ~half]
  <2>1. journal' = Append(journal, line) /\ line.fact = Pending(p) /\ line.whole = ~half
    BY DEF Write
  <2> HIDE DEF line
  <2> QED BY <2>1, JournalTyped
<1>4. /\ \A q \in Processes : Pending(q)' = Pending(q)
      /\ \A q \in Processes \ {p} : pc'[q] = pc[q]
      /\ pc'[p] = "written"
  BY <1>1, JournalTyped DEF Pending
<1> HIDE DEF Pending
<1>5. 1 .. Len(journal') = (1 .. Len(journal)) \cup {Len(journal) + 1} /\ 1 .. synced \subseteq 1 .. Len(journal)
  BY <1>3, JournalTyped
<1>6. Numbered'
  BY <1>1 DEF JInv, Numbered
<1>7. Rowed'
  <2>1. \A i \in 1 .. Len(journal') : journal'[i].fact <= Len(rows)
    BY <1>2, <1>3, <1>5 DEF JInv, Rowed
  <2>2. \A q \in Processes : pc'[q] \in Appending => Pending(q) <= Len(rows)
    BY <1>2, <1>4 DEF JInv, Rowed
  <2> QED BY <1>1, <1>4, <2>1, <2>2 DEF Rowed
<1>8. InFile'
  <2> SUFFICES ASSUME NEW q \in Processes, pc'[q] = "written"
               PROVE  \E i \in 1 .. Len(journal') : journal'[i].fact = Pending(q)
    BY <1>4 DEF InFile
  <2>1. CASE q = p
    BY <1>3, <1>5, <2>1
  <2>2. CASE q # p
    BY <1>3, <1>4, <1>5, <2>2 DEF JInv, InFile
  <2> QED BY <2>1, <2>2
<1>9. Readable' /\ OnDisk' /\ Kept'
  <2>1. Readable'
    <3> SUFFICES ASSUME ~torn, NEW i \in 1 .. Len(journal') PROVE journal'[i].whole
      BY <1>1 DEF Readable
    <3>1. ~half /\ \A n \in 1 .. Len(journal) : journal[n].whole
      BY DEF JInv, Readable
    <3> QED BY <1>3, <1>5, <3>1
  <2> QED BY <1>1, <1>3, <1>4, <1>5, <2>1 DEF JInv, OnDisk, Kept
<1>10. ASSUME ~shared PROVE InOrder' /\ Behind'
  <2>1. Pending(p) = Len(rows) /\ Len(rows) \in Nat
    BY <1>1, <1>10, PendingIsLast, JournalTyped DEF JInv
  <2>2. InOrder /\ \A i \in 1 .. Len(journal) : journal[i].fact < Len(rows)
    BY <1>1, <1>10 DEF JInv, Behind
  <2>3. InOrder'
    <3> SUFFICES ASSUME NEW i \in 1 .. Len(journal'), NEW j \in 1 .. Len(journal'), i < j
                 PROVE  journal'[i].fact < journal'[j].fact
      BY DEF InOrder
    <3>1. i \in 1 .. Len(journal)
      BY <1>3, JournalTyped
    <3>2. CASE j \in 1 .. Len(journal)
      BY <1>3, <2>2, <3>1, <3>2 DEF InOrder
    <3>3. CASE j = Len(journal) + 1
      BY <1>3, <2>1, <2>2, <3>1, <3>3
    <3> QED BY <1>5, <3>2, <3>3
  <2>4. \A q \in Processes : pc'[q] # "committed"
    BY <1>1, <1>4, <1>10 DEF IInv, Open1
  <2> QED BY <2>3, <2>4 DEF Behind
<1> QED
  BY <1>1, <1>6, <1>7, <1>8, <1>9, <1>10 DEF JInv

\* What is in the file is on the disk after an fsync.
LEMMA JournalSync == ASSUME IInv, JInv, NEW p \in Processes, Sync(p) PROVE JInv'
<1>1. /\ pc[p] = "written" /\ pc' = [pc EXCEPT ![p] = "synced"] /\ synced' = Len(journal)
      /\ UNCHANGED <<rows, journal, half, torn, tip, acked, shared>>
  BY DEF Sync
<1>2. /\ \A q \in Processes : Pending(q)' = Pending(q)
      /\ \A q \in Processes \ {p} : pc'[q] = pc[q]
      /\ pc'[p] = "synced" /\ "written" \in Appending
  BY <1>1, JournalTyped DEF Pending, Appending
<1> HIDE DEF Pending
<1>3. 1 .. synced \subseteq 1 .. synced'
  BY <1>1, JournalTyped
<1>4. Numbered' /\ Rowed' /\ Readable' /\ InFile'
  BY <1>1, <1>2 DEF JInv, Numbered, Rowed, Readable, InFile
<1>5. OnDisk'
  <2> SUFFICES ASSUME NEW q \in Processes, pc'[q] = "synced"
               PROVE  \E i \in 1 .. synced' : journal[i].fact = Pending(q)
    BY <1>1, <1>2 DEF OnDisk
  <2>1. CASE q = p
    BY <1>1, <2>1 DEF JInv, InFile
  <2>2. CASE q # p
    BY <1>2, <1>3, <2>2 DEF JInv, OnDisk
  <2> QED BY <2>1, <2>2
<1>6. Kept' /\ (~shared' => InOrder' /\ Behind')
  BY <1>1, <1>2, <1>3 DEF JInv, Kept, InOrder, Behind
<1> QED
  BY <1>4, <1>5, <1>6 DEF JInv

\* An append in a process with a journal returns with its line on the disk.
LEMMA JournalReturn == ASSUME IInv, JInv, NEW p \in Processes, Return(p) PROVE JInv'
<1>1. /\ UNCHANGED <<rows, file, tip, shared>> /\ pc' = [pc EXCEPT ![p] = "open"]
      /\ p \in Journaling => pc[p] = "synced"
      /\ acked' = acked \cup {[by |-> p, fact |-> Pending(p)]}
  BY DEF Return
<1>2. /\ \A q \in Processes : Pending(q)' = Pending(q)
      /\ \A q \in Processes : pc'[q] # "open" => pc'[q] = pc[q]
  BY <1>1, JournalTyped DEF Pending
<1>3. "open" \notin Appending
  BY DEF Appending
<1> HIDE DEF Pending
<1>4. Kept'
  <2> SUFFICES ASSUME NEW a \in acked', a.by \in Journaling
               PROVE  \E i \in 1 .. synced : journal[i].fact = a.fact
    BY <1>1 DEF Kept, file
  <2>1. CASE a \in acked
    BY <2>1 DEF JInv, Kept
  <2>2. CASE a = [by |-> p, fact |-> Pending(p)]
    BY <1>1, <2>2 DEF JInv, OnDisk
  <2> QED BY <1>1, <2>1, <2>2
<1>5. Numbered' /\ Rowed' /\ Readable' /\ InFile' /\ OnDisk' /\ (~shared' => InOrder' /\ Behind')
  BY <1>1, <1>2, <1>3 DEF file, JInv, Numbered, Rowed, Readable, InFile, OnDisk, InOrder, Behind
<1> QED
  BY <1>4, <1>5 DEF JInv

LEMMA JournalOther ==
    ASSUME IInv, JInv, NEW p \in Processes, Open(p) \/ Stops(p) \/ JournalFails(p)
    PROVE  JInv'
<1>1. /\ UNCHANGED <<rows, journal, synced, acked>> /\ (~shared' => ~shared)
      /\ \A q \in Processes : pc'[q] \in Appending => pc'[q] = pc[q] /\ tip'[q] = tip[q]
  <2>1. pc \in [Processes -> {"closed", "open"} \cup Appending] /\ {"closed", "open"} \cap Appending = {}
    BY JournalTyped DEF Appending
  <2>2. CASE Open(p)
    <3>1. /\ pc' = [pc EXCEPT ![p] = "open"] /\ tip' = [tip EXCEPT ![p] = LoadTip]
          /\ UNCHANGED <<rows, journal, synced, acked>> /\ (~shared' => ~shared)
      BY <2>2 DEF Open, file
    <3>2. pc'[p] = "open" /\ \A q \in Processes \ {p} : pc'[q] = pc[q] /\ tip'[q] = tip[q]
      BY <3>1, JournalTyped
    <3> QED BY <2>1, <3>1, <3>2
  <2>3. CASE Stops(p) \/ JournalFails(p)
    <3>1. /\ pc' = [pc EXCEPT ![p] = "closed"] \/ pc' = [pc EXCEPT ![p] = "open"]
          /\ UNCHANGED <<rows, journal, synced, acked, tip, shared>>
      BY <2>3 DEF Stops, JournalFails, file
    <3>2. pc'[p] \in {"closed", "open"} /\ \A q \in Processes \ {p} : pc'[q] = pc[q]
      BY <2>1, <3>1
    <3> QED BY <2>1, <3>1, <3>2
  <2> QED BY <2>2, <2>3
<1>2. \A q \in Processes : pc'[q] \in Appending => pc'[q] = pc[q] /\ Pending(q)' = Pending(q)
  BY <1>1 DEF Pending
<1>3. {"committed", "written", "synced"} \subseteq Appending
  BY DEF Appending
<1>4. Readable'
  <2>1. UNCHANGED journal /\ (~torn' => ~torn /\ (half' => half))
    <3>1. CASE Open(p) \/ Stops(p)
      BY <3>1 DEF Open, Stops, file
    <3>2. CASE JournalFails(p)
      <4>1. UNCHANGED journal /\ torn' = (torn \/ half')
        BY <3>2 DEF JournalFails
      <4>2. torn \in BOOLEAN /\ half \in BOOLEAN /\ half' \in BOOLEAN
        BY <3>2, FileType DEF IInv, TypeOK
      <4> QED BY <4>1, <4>2
    <3> QED BY <3>1, <3>2
  <2> QED BY <2>1 DEF JInv, Readable
<1> HIDE DEF Pending
<1> QED
  BY <1>1, <1>2, <1>3, <1>4 DEF JInv, Numbered, Rowed, InFile, OnDisk, Kept, InOrder, Behind

\* A power failure takes no line that is on the disk.
LEMMA JournalPower == ASSUME IInv, JInv, PowerFails PROVE JInv'
<1>1. /\ UNCHANGED <<rows, acked, shared>> /\ \A q \in Processes : pc'[q] = "closed"
  BY DEF PowerFails
<1>2. /\ Len(journal') \in Nat /\ 1 .. Len(journal') \subseteq 1 .. Len(journal)
      /\ 1 .. synced \subseteq 1 .. synced' /\ 1 .. synced \subseteq 1 .. Len(journal')
      /\ \A i \in 1 .. Len(journal') : journal'[i] = journal[i]
  <2>1. PICK n \in synced .. Len(journal) : journal' = SubSeq(journal, 1, n) /\ synced' = n
    BY DEF PowerFails
  <2>2. n \in 0 .. Len(journal)
    BY JournalTyped
  <2>3. Len(journal') = n /\ \A i \in 1 .. n : journal'[i] = journal[i]
    BY <2>1, <2>2, JournalTyped
  <2> QED BY <2>1, <2>2, <2>3, JournalTyped
<1>3. Numbered' /\ Rowed' /\ InFile' /\ OnDisk'
  BY <1>1, <1>2 DEF JInv, Numbered, Rowed, InFile, OnDisk, Appending
<1>4. Readable'
  <2>1. ~torn' => ~torn /\ ~half'
    BY DEF PowerFails
  <2> QED BY <1>2, <2>1 DEF JInv, Readable
<1>5. Kept' /\ (~shared' => InOrder' /\ Behind')
  BY <1>1, <1>2 DEF JInv, Kept, InOrder, Behind
<1> QED
  BY <1>3, <1>4, <1>5 DEF JInv

LEMMA JournalNext == ASSUME IInv, JInv, [Next]_vars PROVE JInv'
<1>1. CASE UNCHANGED vars
  BY <1>1 DEF vars, file, JInv, Numbered, Rowed, Readable, InFile, OnDisk, Kept, InOrder, Behind, Pending
<1> QED
  BY <1>1, JournalCommit, JournalWrite, JournalSync, JournalReturn, JournalOther, JournalPower
     DEF Next

\* Whatever crashes, power failures and failing writes interleave with the appends
\* of several processes: a fact whose append returned in a process with a journal
\* keeps its line, which can be read unless half a line was ever left; and the journal
\* has nothing that the ledger has not, in its order if the ledger was never shared
\* (ledger.py: append).
THEOREM Journaled == Spec => []JournalFollowsChain
<1>1. Init => JInv
  BY DEF Init, JInv, Numbered, Rowed, Readable, InFile, OnDisk, Kept, InOrder, Behind, Appending
<1>2. IInv /\ JInv /\ [Next]_vars => JInv'
  BY JournalNext
<1>3. IInv /\ JInv => JournalFollowsChain
  <2> SUFFICES ASSUME IInv, JInv PROVE JournalFollowsChain
    OBVIOUS
  <2>1. 1 .. synced \subseteq 1 .. Len(journal)
    BY JournalTyped
  <2>2. ASSUME NEW a \in acked, a.by \in Journaling
        PROVE  \E i \in 1 .. synced : journal[i].fact = a.fact /\ (journal[i].whole \/ torn)
    BY <2>1, <2>2 DEF JInv, Kept, Readable
  <2> QED BY <2>2 DEF JInv, Rowed, InOrder, JournalFollowsChain
<1> QED
  BY <1>1, <1>2, <1>3, Inductive, PTL DEF Spec
=============================================================================
