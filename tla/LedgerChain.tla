---------------------------- MODULE LedgerChain ----------------------------
(***************************************************************************)
(* core/ledger.py: the hash-chained ledger in the database and its journal *)
(* file, both of which outlive the processes that open them.               *)
(*                                                                         *)
(* A process is a CLI invocation with one Ledger object.  The object's     *)
(* lock serialises the process's own threads, so a process is in at most   *)
(* one append at a time, and nothing but the database orders it against    *)
(* the other processes: INSERT and COMMIT are one step.  A fact is the     *)
(* number of its row.  SHA-256 is taken as injective: a hash is the        *)
(* sequence of the facts it commits to.                                    *)
(*                                                                         *)
(* A commit is durable (synchronous=FULL); a journal line is when it, or a *)
(* later one, was fsynced.  Until then a power failure may take it, or     *)
(* leave half of it, as a write that fails may; the file is appended to    *)
(* all the same, and what is written behind half a line is part of it.     *)
(***************************************************************************)
EXTENDS Naturals, Sequences

CONSTANTS Processes,  \* processes that open the ledger
          Journaling, \* those that were given a journal path
          MaxRows     \* bound on the rows

ASSUME LedgerAssumption == Journaling \subseteq Processes /\ MaxRows \in Nat

GENESIS_HASH == <<>>

VARIABLES
    rows,    \* the ledger table in the order of seq
    journal, \* the lines of the journal file: a fact, and whether it can be read
    half,    \* the journal file ends in half a line
    torn,    \* history: half a line was ever left
    synced,  \* how many of its lines are on the disk
    tip,     \* _tip of a process
    pc,      \* "closed", "open", or how far an append is
    acked,   \* history: which facts' append returned, and in which process
    shared   \* history: two processes had the ledger open at once

file == <<journal, half, torn, synced>>
vars == <<rows, file, tip, pc, acked, shared>>

Hashes == Seq(Nat)
Row == [fact : Nat, prev_hash : Hashes, hash : Hashes]
Line == [fact : Nat, whole : BOOLEAN]
Appending == {"committed", "written", "synced"}

TypeOK ==
    /\ rows \in Seq(Row)
    /\ journal \in Seq(Line) /\ half \in BOOLEAN /\ torn \in BOOLEAN
    /\ synced \in 0 .. Len(journal)
    /\ tip \in [Processes -> Hashes]
    /\ pc \in [Processes -> {"closed", "open"} \cup Appending]
    /\ acked \subseteq [by : Processes, fact : Nat]
    /\ shared \in BOOLEAN

Init ==
    /\ rows = <<>> /\ journal = <<>> /\ half = FALSE /\ torn = FALSE /\ synced = 0
    /\ tip = [p \in Processes |-> GENESIS_HASH]
    /\ pc = [p \in Processes |-> "closed"]
    /\ acked = {} /\ shared = FALSE
-----------------------------------------------------------------------------
\* _load_tip: the hash of the last row.
LoadTip == IF rows = <<>> THEN GENESIS_HASH ELSE rows[Len(rows)].hash

\* verify(): the walk of the chain; each row's hash is computed again.
Previous(i) == IF i = 1 THEN GENESIS_HASH ELSE rows[i - 1].hash
Verify == \A i \in 1 .. Len(rows) : /\ rows[i].prev_hash = Previous(i)
                                    /\ rows[i].hash = Append(Previous(i), rows[i].fact)

Open(p) ==
    /\ pc[p] = "closed"
    /\ pc' = [pc EXCEPT ![p] = "open"]
    /\ tip' = [tip EXCEPT ![p] = LoadTip]
    /\ shared' = (shared \/ \E q \in Processes \ {p} : pc[q] # "closed")
    /\ UNCHANGED <<rows, file, acked>>

MutantStops(p) ==
    /\ pc[p] # "closed"
    /\ pc' = [pc EXCEPT ![p] = IF pc[p] = "open" THEN "closed" ELSE "crashed"]
    /\ UNCHANGED <<rows, file, tip, acked, shared>>

\* close(), or the process dies, in the middle of an append too.
Stops(p) ==
    /\ pc[p] # "closed"
    /\ pc' = [pc EXCEPT ![p] = "closed"]
    /\ UNCHANGED <<rows, file, tip, acked, shared>>

\* The first half of append: the row chained to the tip this process knows.
Commit(p) ==
    LET fact == Len(rows) + 1
        digest == Append(tip[p], fact)
    IN /\ pc[p] = "open" /\ Len(rows) < MaxRows
       /\ rows' = Append(rows, [fact |-> fact, prev_hash |-> tip[p], hash |-> digest])
       /\ tip' = [tip EXCEPT ![p] = digest]
       /\ pc' = [pc EXCEPT ![p] = "committed"]
       /\ UNCHANGED <<file, acked, shared>>

\* The fact p is about to journal: the last one its tip commits to.
Pending(p) == tip[p][Len(tip[p])]

MutantWrite(p) ==
    /\ pc[p] = "committed" /\ p \in Journaling
    /\ journal' = Append(journal, [fact |-> Pending(p), whole |-> ~half])
    /\ half' = FALSE
    /\ pc' = [pc EXCEPT ![p] = "synced"]
    /\ UNCHANGED <<rows, torn, synced, tip, acked, shared>>

\* write and flush: the line is in the file, though not yet on the disk.
Write(p) ==
    /\ pc[p] = "committed" /\ p \in Journaling
    /\ journal' = Append(journal, [fact |-> Pending(p), whole |-> ~half])
    /\ half' = FALSE
    /\ pc' = [pc EXCEPT ![p] = "written"]
    /\ UNCHANGED <<rows, torn, synced, tip, acked, shared>>

\* fsync: this line is on the disk with all before it, whoever wrote them.
Sync(p) ==
    /\ pc[p] = "written"
    /\ synced' = Len(journal)
    /\ pc' = [pc EXCEPT ![p] = "synced"]
    /\ UNCHANGED <<rows, journal, half, torn, tip, acked, shared>>

\* append returns, without a line in a process that has no journal.
Return(p) ==
    /\ pc[p] = IF p \in Journaling THEN "synced" ELSE "committed"
    /\ acked' = acked \cup {[by |-> p, fact |-> Pending(p)]}
    /\ pc' = [pc EXCEPT ![p] = "open"]
    /\ UNCHANGED <<rows, file, tip, shared>>

MutantJournalFails(p) ==
    /\ pc[p] \in {"committed", "written"} /\ p \in Journaling
    /\ tip' = [tip EXCEPT ![p] = SubSeq(@, 1, Len(@) - 1)]
    /\ half' \in (IF pc[p] = "committed" THEN {half, TRUE} ELSE {half})
    /\ torn' = (torn \/ half')
    /\ pc' = [pc EXCEPT ![p] = "open"]
    /\ UNCHANGED <<rows, journal, synced, acked, shared>>

\* Opening, writing or syncing the journal raises: the row stays, and so do the
\* new tip and what was written, half a line if the disk was full.
JournalFails(p) ==
    /\ pc[p] \in {"committed", "written"} /\ p \in Journaling
    /\ half' \in (IF pc[p] = "committed" THEN {half, TRUE} ELSE {half})
    /\ torn' = (torn \/ half')
    /\ pc' = [pc EXCEPT ![p] = "open"]
    /\ UNCHANGED <<rows, journal, synced, tip, acked, shared>>

\* The machine stops: of the lines that were not synced some are left, and
\* perhaps half of the next.
PowerFails ==
    /\ \E n \in synced .. Len(journal) :
          /\ journal' = SubSeq(journal, 1, n) /\ synced' = n
          /\ half' \in BOOLEAN /\ (half' => half \/ n < Len(journal))
          /\ torn' = (torn \/ half')
    /\ pc' = [p \in Processes |-> "closed"]
    /\ UNCHANGED <<rows, tip, acked, shared>>

Next == \/ \E p \in Processes : \/ Open(p) \/ Stops(p) \/ Commit(p) \/ Write(p)
                               \/ Sync(p) \/ Return(p) \/ JournalFails(p)
        \/ PowerFails

Spec == Init /\ [][Next]_vars
-----------------------------------------------------------------------------
\* Crashes, restarts and failing journals never break the chain: verify() fails
\* only in a ledger that two processes had open at the same time.
BrokenOnlyIfShared == ~shared => Verify

\* What append returned for in a process that has a journal has its line on the disk,
\* which no crash and no power failure takes; and the line can be read, unless half a
\* line was ever left.  Whatever happens the journal has nothing the ledger has not,
\* and unless the ledger was shared it has it in the order of the rows.  A fact of a
\* process without a journal, emergency-stop, is in the ledger alone.
JournalFollowsChain ==
    /\ \A a \in acked : a.by \in Journaling =>
          \E i \in 1 .. synced : journal[i].fact = a.fact /\ (journal[i].whole \/ torn)
    /\ \A i \in 1 .. Len(journal) : journal[i].fact <= Len(rows)
    /\ ~shared => \A i, j \in 1 .. Len(journal) : i < j => journal[i].fact < journal[j].fact

\* verify() walks the whole chain and finds it intact, whoever appended.
ChainIntact == Verify
=============================================================================
