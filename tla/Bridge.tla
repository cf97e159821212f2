------------------------------- MODULE Bridge -------------------------------
(***************************************************************************)
(* The link between bridge/server.py and the AegisFastGuard EA.  Python    *)
(* has an accept thread, which also reads the one connection it serves,    *)
(* a watchdog and stop(); the EA is single-threaded, its OnTimer is one    *)
(* step.  A connection is named by its number; the kernel accepts it       *)
(* before Python does.  A connection that is no longer alive loses what    *)
(* was in flight, and the side that writes to it notices sooner or later.  *)
(*                                                                         *)
(* Time is counted in ticks, up to one more than the grace.  Heartbeats    *)
(* are not messages here: a heartbeat refreshes the other side's silence   *)
(* or it does not, whatever it should do.  STATE, FILL and COMMAND lines   *)
(* change nothing of what is below and count as heartbeats.                *)
(***************************************************************************)
EXTENDS Naturals

CONSTANTS Grace,        \* ticks of silence both sides tolerate
          PendingGrace, \* ticks of PROTECT before resting orders are cancelled
          MaxConns,     \* bound on the connections of a behaviour
          MaxOrders     \* bound on the orders of a behaviour

ASSUME BridgeAssumption == /\ Grace \in Nat /\ PendingGrace \in Nat
                           /\ MaxConns \in Nat /\ MaxOrders \in Nat

Conns == 1 .. MaxConns
NoConn == 0

VARIABLES
    state,      \* Python's bridge state
    client,     \* connection Python writes to, or NoConn
    served,     \* last connection the accept thread took
    accepting,  \* where the accept thread is
    watching,   \* where the watchdog is
    silent,     \* ticks since the last line from the EA
    stopped,    \* the stop event
    socket,     \* the EA's connection, or NoConn
    quiet,      \* ticks since the last line from Python
    protect,    \* the EA is in PROTECT
    protectFor, \* ticks since it went there
    garbled,    \* half a line is left in the EA's buffer
    hung,       \* the terminal does not run the EA
    conns,      \* connections made
    alive,      \* connections that carry data
    resyncs,    \* RESYNC lines in flight on a connection
    hellos,     \* connections whose HELLO is in flight
    acks,       \* acknowledgements in flight on a connection
    acked,      \* history: connections on which the EA answered a RESYNC
    resting,    \* resting orders at the broker
    orders      \* orders placed

server == <<state, client, served, accepting, watching, stopped>>
ea == <<socket, protect, garbled, hung>>
wires == <<conns, alive, resyncs, hellos, acks, acked>>
timers == <<silent, quiet, protectFor>>
broker == <<resting, orders>>
vars == <<server, ea, wires, timers, broker>>

TypeOK ==
    /\ state \in {"DISCONNECTED", "SYNCING", "CONNECTED", "LOST"}
    /\ client \in Conns \cup {NoConn} /\ served \in 0 .. MaxConns
    /\ accepting \in {"accept", "greet", "read", "ended", "exited"}
    /\ watching \in {"look", "declare"}
    /\ silent \in 0 .. Grace + 1 /\ quiet \in 0 .. Grace + 1
    /\ protectFor \in 0 .. PendingGrace + 1
    /\ socket \in Conns \cup {NoConn} /\ conns \in 0 .. MaxConns
    /\ stopped \in BOOLEAN /\ protect \in BOOLEAN /\ garbled \in BOOLEAN /\ hung \in BOOLEAN
    /\ alive \subseteq Conns /\ hellos \subseteq Conns /\ acked \subseteq Conns
    /\ resyncs \in [Conns -> Nat] /\ acks \in [Conns -> Nat]
    /\ orders \in 0 .. MaxOrders /\ resting \in 0 .. orders

\* Both programs start; the EA's first connection is made by OnInit or later.
Init ==
    /\ state = "DISCONNECTED" /\ client = NoConn /\ served = 0
    /\ accepting = "accept" /\ watching = "look" /\ stopped = FALSE
    /\ socket = NoConn /\ protect = FALSE /\ garbled = FALSE /\ hung = FALSE
    /\ silent = 0 /\ quiet = 0 /\ protectFor = 0
    /\ conns = 0 /\ alive = {} /\ hellos = {} /\ acked = {}
    /\ resyncs = [c \in Conns |-> 0] /\ acks = [c \in Conns |-> 0]
    /\ resting = 0 /\ orders = 0
-----------------------------------------------------------------------------
(* Python: the accept thread *)

Accept ==
    /\ accepting = "accept" /\ ~stopped /\ served < conns
    /\ served' = served + 1 /\ client' = served + 1
    /\ silent' = 0
    /\ accepting' = "greet"
    /\ UNCHANGED <<state, watching, stopped, ea, wires, quiet, protectFor, broker>>

\* A line is written only while the connection is the client; it may be lost.
SendResync == resyncs' = [c \in Conns |-> IF c = client /\ c \in alive
                                          THEN resyncs[c] + 1 ELSE resyncs[c]]

Greet ==
    /\ accepting = "greet"
    /\ state' = "SYNCING"
    /\ SendResync
    /\ accepting' = "read"
    /\ UNCHANGED <<client, served, watching, stopped, ea, conns, alive, hellos,
                   acks, acked, timers, broker>>

MutantReadHello ==
    /\ accepting = "read" /\ served \in hellos
    /\ hellos' = hellos \ {served}
    /\ silent' = 0
    /\ state' = "SYNCING"
    /\ UNCHANGED <<client, served, accepting, watching, stopped, ea, conns, alive,
                   resyncs, acks, acked, quiet, protectFor, broker>>

ReadHello ==
    /\ accepting = "read" /\ served \in hellos
    /\ hellos' = hellos \ {served}
    /\ silent' = 0
    /\ state' = "SYNCING"
    /\ SendResync
    /\ UNCHANGED <<client, served, accepting, watching, stopped, ea, conns, alive,
                   acks, acked, quiet, protectFor, broker>>

\* Lines are read in the order the EA wrote them: the HELLO comes first.
ReadAck ==
    /\ accepting = "read" /\ served \notin hellos /\ acks[served] > 0
    /\ acks' = [acks EXCEPT ![served] = @ - 1]
    /\ silent' = 0
    /\ state' = "CONNECTED"
    /\ UNCHANGED <<client, served, accepting, watching, stopped, ea, conns, alive,
                   resyncs, hellos, acked, quiet, protectFor, broker>>

ReadHeartbeat ==
    /\ accepting = "read" /\ served = socket /\ served \in alive /\ ~hung
    /\ silent' = 0
    /\ UNCHANGED <<server, ea, wires, quiet, protectFor, broker>>

ReadEnds ==
    /\ accepting = "read"
    /\ served \notin alive \/ stopped
    /\ client' = IF client = served THEN NoConn ELSE client
    /\ hellos' = hellos \ {served} /\ acks' = [acks EXCEPT ![served] = 0]
    /\ accepting' = "ended"
    /\ UNCHANGED <<state, served, watching, stopped, ea, conns, alive, resyncs,
                   acked, timers, broker>>

MutantDeclareLost ==
    /\ accepting = "ended"
    /\ accepting' = IF stopped THEN "exited" ELSE "accept"
    /\ UNCHANGED <<state, client, served, watching, stopped, ea, wires, timers, broker>>

\* stop() leaves the state as it was.
DeclareLost ==
    /\ accepting = "ended"
    /\ state' = IF stopped THEN state ELSE "LOST"
    /\ accepting' = IF stopped THEN "exited" ELSE "accept"
    /\ UNCHANGED <<client, served, watching, stopped, ea, wires, timers, broker>>
-----------------------------------------------------------------------------
(* Python: the watchdog and stop() *)

MutantLook ==
    /\ watching = "look" /\ ~stopped
    /\ state = "SYNCING" /\ silent > Grace
    /\ watching' = "declare"
    /\ UNCHANGED <<state, client, served, accepting, stopped, ea, wires, timers, broker>>

\* The state and the silence are looked at first, the state is set later.
Look ==
    /\ watching = "look" /\ ~stopped
    /\ state \in {"CONNECTED", "SYNCING"} /\ silent > Grace
    /\ watching' = "declare"
    /\ UNCHANGED <<state, client, served, accepting, stopped, ea, wires, timers, broker>>

Declare ==
    /\ watching = "declare"
    /\ state' = "LOST" /\ watching' = "look"
    /\ UNCHANGED <<client, served, accepting, stopped, ea, wires, timers, broker>>

\* Closes the client and the listening socket, and whatever waits there.
Stop ==
    /\ ~stopped /\ stopped' = TRUE
    /\ client' = NoConn /\ alive' = {}
    /\ UNCHANGED <<state, served, accepting, watching, ea, conns, resyncs, hellos,
                   acks, acked, timers, broker>>
-----------------------------------------------------------------------------
(* The EA *)

Linked == socket \in alive /\ client = socket

\* PumpSocketReads: k RESYNC lines have arrived and are acknowledged, but for the
\* first line after half a line (spoilt); cut: the connection ended within a line.
Pumps(k, spoilt, cut) ==
    /\ k \in 0 .. (IF socket = NoConn THEN 0 ELSE resyncs[socket])
    /\ spoilt => garbled /\ k > 0
    /\ cut => socket # NoConn /\ socket \notin alive
    /\ LET answered == IF spoilt THEN k - 1 ELSE k
       IN /\ resyncs' = [c \in Conns |-> IF c = socket THEN resyncs[c] - k ELSE resyncs[c]]
          /\ acks' = [c \in Conns |-> IF c = socket /\ c \in alive
                                      THEN acks[c] + answered ELSE acks[c]]
          /\ acked' = IF answered > 0 THEN acked \cup {socket} ELSE acked

\* The heartbeat that is due fails on a connection that has ended (fails), and an
\* EA without a socket connects, if Python listens, and says HELLO.
Heartbeats(fails) ==
    /\ fails => socket # NoConn /\ socket \notin alive
    /\ IF (fails \/ socket = NoConn) /\ conns < MaxConns /\ ~stopped
       THEN /\ conns' = conns + 1 /\ socket' = conns + 1
            /\ alive' = alive \cup {conns + 1} /\ hellos' = hellos \cup {conns + 1}
       ELSE /\ socket' = IF fails THEN NoConn ELSE socket
            /\ UNCHANGED <<conns, alive, hellos>>

\* Protects or not, by the silence after this timer's reads.
Protects(heard) ==
    LET lost == ~heard /\ quiet > Grace
    IN /\ quiet' = IF heard THEN 0 ELSE quiet
       /\ protect' = lost
       /\ protectFor' = IF lost /\ protect THEN protectFor ELSE 0

MutantBackstops(left) ==
    /\ left = resting
    /\ resting' = left

\* PendingExpiryBackstop, after PROTECT was updated: left orders remain, those
\* whose deletion the broker refused.
Backstops(left) ==
    /\ left = resting \/ (protect' /\ protectFor' > PendingGrace /\ left < resting)
    /\ resting' = left

\* Whether the heartbeat is due is left open: it is, once a second.
OnTimer(k, spoilt, cut, heard, fails, due, left) ==
    /\ ~hung
    /\ heard => k > 0 \/ Linked
    /\ (k > 0) => heard
    /\ Pumps(k, spoilt, cut)
    /\ garbled' = (cut \/ (garbled /\ ~heard))
    /\ IF due THEN Heartbeats(fails) ELSE ~fails /\ UNCHANGED <<conns, alive, hellos, socket>>
    /\ Protects(heard)
    /\ Backstops(left)
    /\ UNCHANGED <<server, hung, silent, orders>>

Timer == \E k \in 0 .. 2, left \in 0 .. MaxOrders, spoilt, cut, heard, fails, due \in BOOLEAN :
             OnTimer(k, spoilt, cut, heard, fails, due, left)
-----------------------------------------------------------------------------
(* The terminal, the network, the broker, and time *)

Hang == hung' = ~hung /\ UNCHANGED <<server, socket, protect, garbled, wires, timers, broker>>

Break == /\ \E c \in alive : alive' = alive \ {c}
         /\ UNCHANGED <<server, ea, conns, resyncs, hellos, acks, acked, timers, broker>>

Place == /\ orders < MaxOrders
         /\ orders' = orders + 1 /\ resting' = resting + 1
         /\ UNCHANGED <<server, ea, wires, timers>>

MutantLater(t, cap) == t + 1

Later(t, cap) == IF t > cap THEN t ELSE t + 1

Tick == /\ silent' = Later(silent, Grace) /\ quiet' = Later(quiet, Grace)
        /\ protectFor' = IF protect THEN Later(protectFor, PendingGrace) ELSE 0
        /\ UNCHANGED <<server, ea, wires, broker>>

Reader == Accept \/ Greet \/ ReadHello \/ ReadAck \/ ReadEnds \/ DeclareLost

Next == \/ Reader \/ ReadHeartbeat
        \/ Look \/ Declare \/ Stop
        \/ Timer
        \/ Hang \/ Break \/ Place \/ Tick

\* A timer that finds what was sent, whose heartbeat is due and fails if the
\* connection has ended, and whose deletions the broker carries out.
FullTimer == \E spoilt, heard \in BOOLEAN, left \in 0 .. MaxOrders :
    /\ OnTimer(IF socket = NoConn THEN 0 ELSE resyncs[socket], spoilt, FALSE, heard,
               socket # NoConn /\ socket \notin alive, TRUE, left)
    /\ protect' /\ protectFor' > PendingGrace => left = 0

\* Threads and timers run, time passes; nothing is asked of network and people.
Fairness == /\ WF_vars(Reader) /\ WF_vars(Look) /\ WF_vars(Declare)
            /\ WF_vars(FullTimer) /\ WF_vars(Tick)

Spec == Init /\ [][Next]_vars /\ Fairness
-----------------------------------------------------------------------------
\* Entries are allowed only on a connection whose EA has answered a resync on it,
\* whatever watchdog, reader and reconnections do to each other; the answer to an
\* earlier connection's resync never counts.
EntriesNeedResync == state = "CONNECTED" /\ ~stopped => served \in acked

\* An EA that falls silent for good ends the entries for good.
SilenceEndsEntries ==
    <>[](hung /\ ~stopped) => <>[](state # "CONNECTED")

\* The EA, left without a connection for good, ends in PROTECT with no order
\* resting, whatever was placed meanwhile and whichever deletions were refused.
LinkLossIsSafe ==
    <>[](socket \notin alive /\ ~hung) => <>[](protect /\ resting = 0)

\* The watchdog gave up on a connection that is still served: nothing but a new
\* connection or an acknowledgement still in flight ends it.
Stranded == state = "LOST" /\ accepting = "read" /\ served \in alive

\* With both programs running, a connection that stays and no silence beyond the
\* grace, the link is in the end synchronised, or stranded: never left SYNCING,
\* and never unserved, even if half a line spoils the first RESYNC.
LinkComesBack ==
    <>[](~hung /\ ~stopped /\ socket \in alive /\ silent <= Grace)
        => <>[](state = "CONNECTED" \/ Stranded)
=============================================================================
