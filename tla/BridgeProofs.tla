---------------------------- MODULE BridgeProofs ----------------------------
(***************************************************************************)
(* Proofs about Bridge: types, and entries only after a resync.            *)
(***************************************************************************)
EXTENDS Bridge, TLAPS

\* The entries invariant made inductive: an acknowledgement in flight was sent by
\* the EA on that connection, and an allowing state belongs to a served connection.
ResyncInv ==
    /\ served <= conns
    /\ accepting \in {"greet", "read"} => served \in Conns
    /\ state = "CONNECTED" /\ ~stopped => served \in acked /\ accepting \in {"read", "ended"}
    /\ \A c \in Conns : acks[c] > 0 => c \in acked

\* What one timer of the EA does to the connections it may touch.
LEMMA TimerTypes ==
    ASSUME TypeOK, NEW k \in 0 .. 2, NEW left \in 0 .. MaxOrders,
           NEW spoilt \in BOOLEAN, NEW cut \in BOOLEAN, NEW heard \in BOOLEAN,
           NEW fails \in BOOLEAN, NEW due \in BOOLEAN,
           OnTimer(k, spoilt, cut, heard, fails, due, left)
    PROVE  TypeOK'
<1> USE BridgeAssumption
<1>1. /\ resyncs' \in [Conns -> Nat] /\ acks' \in [Conns -> Nat] /\ acked' \subseteq Conns
  <2>1. k \in Nat /\ (spoilt => k - 1 \in Nat)
    BY DEF OnTimer, Pumps
  <2>2. (IF spoilt THEN k - 1 ELSE k) \in Nat
    BY <2>1
  <2>3. \A c \in Conns : c = socket => resyncs[c] - k \in Nat
    BY <2>1 DEF OnTimer, Pumps, TypeOK, Conns, NoConn
  <2>4. (IF spoilt THEN k - 1 ELSE k) > 0 => socket \in Conns
    BY <2>1 DEF OnTimer, Pumps, TypeOK, Conns, NoConn
  <2>5. resyncs' \in [Conns -> Nat]
    BY <2>3 DEF OnTimer, Pumps, TypeOK
  <2>6. acks' \in [Conns -> Nat]
    BY <2>2 DEF OnTimer, Pumps, TypeOK
  <2>7. acked' \subseteq Conns
    BY <2>4 DEF OnTimer, Pumps, TypeOK
  <2> QED BY <2>5, <2>6, <2>7
<1>2. /\ socket' \in Conns \cup {NoConn} /\ conns' \in 0 .. MaxConns
      /\ alive' \subseteq Conns /\ hellos' \subseteq Conns
  <2>1. CASE due /\ (fails \/ socket = NoConn) /\ conns < MaxConns /\ ~stopped
    <3>1. conns + 1 \in Conns /\ conns' = conns + 1 /\ socket' = conns + 1
      BY <2>1 DEF OnTimer, Heartbeats, TypeOK, Conns
    <3>2. alive' = alive \cup {conns + 1} /\ hellos' = hellos \cup {conns + 1}
      BY <2>1 DEF OnTimer, Heartbeats
    <3> QED BY <3>1, <3>2 DEF TypeOK, Conns
  <2>2. CASE ~(due /\ (fails \/ socket = NoConn) /\ conns < MaxConns /\ ~stopped)
    <3>1. UNCHANGED <<conns, alive, hellos>> /\ (socket' = NoConn \/ socket' = socket)
      BY <2>2 DEF OnTimer, Heartbeats
    <3> QED BY <3>1 DEF TypeOK
  <2> QED BY <2>1, <2>2
<1>3. /\ quiet' \in 0 .. Grace + 1 /\ protect' \in BOOLEAN
      /\ protectFor' \in 0 .. PendingGrace + 1
  BY DEF OnTimer, Protects, TypeOK
<1>4. garbled' \in BOOLEAN /\ hung' \in BOOLEAN
  BY DEF OnTimer, TypeOK
<1>5. orders' \in 0 .. MaxOrders /\ resting' \in 0 .. orders'
  BY DEF OnTimer, Backstops, TypeOK, broker
<1>6. /\ state' = state /\ client' = client /\ served' = served /\ accepting' = accepting
      /\ watching' = watching /\ stopped' = stopped /\ silent' = silent
  BY DEF OnTimer, server
<1> QED BY <1>1, <1>2, <1>3, <1>4, <1>5, <1>6 DEF TypeOK

\* The type invariant of the link, for any graces and bounds.
THEOREM BridgeTypes == Spec => []TypeOK
<1> USE BridgeAssumption
<1>1. Init => TypeOK
  <2> SUFFICES ASSUME Init PROVE TypeOK
    OBVIOUS
  <2>1. resyncs \in [Conns -> Nat] /\ acks \in [Conns -> Nat]
    BY DEF Init
  <2>2. /\ stopped \in BOOLEAN /\ protect \in BOOLEAN /\ garbled \in BOOLEAN
        /\ hung \in BOOLEAN
    BY DEF Init
  <2> QED BY <2>1, <2>2 DEF Init, TypeOK, NoConn
<1>2. TypeOK /\ [Next]_vars => TypeOK'
  <2> SUFFICES ASSUME TypeOK, [Next]_vars PROVE TypeOK'
    OBVIOUS
  <2> USE DEF TypeOK, Conns, NoConn, server, ea, wires, timers, broker
  <2>1. CASE Accept BY <2>1 DEF Accept
  <2>0. SendResync => resyncs' \in [Conns -> Nat]
    BY DEF SendResync
  <2>2. CASE Greet BY <2>2, <2>0 DEF Greet
  <2>3. CASE ReadHello
    <3>1. hellos' \subseteq Conns /\ silent' \in 0 .. Grace + 1
      BY <2>3 DEF ReadHello
    <3> QED BY <2>3, <2>0, <3>1 DEF ReadHello
  <2>4. CASE ReadAck
    <3>0. \A c \in Conns : c = served => acks[c] - 1 \in Nat
      BY <2>4 DEF ReadAck
    <3>1. acks' \in [Conns -> Nat]
      BY <2>4, <3>0 DEF ReadAck
    <3> QED BY <2>4, <3>1 DEF ReadAck
  <2>5. CASE ReadHeartbeat BY <2>5 DEF ReadHeartbeat
  <2>6. CASE ReadEnds BY <2>6 DEF ReadEnds
  <2>7. CASE DeclareLost BY <2>7 DEF DeclareLost
  <2>8. CASE Look BY <2>8 DEF Look
  <2>9. CASE Declare BY <2>9 DEF Declare
  <2>10. CASE Stop BY <2>10 DEF Stop
  <2>11. CASE Timer
    <3> PICK k \in 0 .. 2, left \in 0 .. MaxOrders, spoilt, cut, heard, fails, due \in BOOLEAN :
            OnTimer(k, spoilt, cut, heard, fails, due, left)
      BY <2>11 DEF Timer
    <3> HIDE DEF TypeOK
    <3> QED BY TimerTypes
  <2>12. CASE Hang BY <2>12 DEF Hang
  <2>13. CASE Break BY <2>13 DEF Break
  <2>14. CASE Place BY <2>14 DEF Place
  <2>15. CASE Tick BY <2>15 DEF Tick, Later
  <2>16. CASE UNCHANGED vars BY <2>16 DEF vars
  <2> QED
    BY <2>1, <2>2, <2>3, <2>4, <2>5, <2>6, <2>7, <2>8, <2>9, <2>10, <2>11, <2>12,
       <2>13, <2>14, <2>15, <2>16 DEF Next, Reader
<1> QED BY <1>1, <1>2, PTL DEF Spec

LEMMA TimerKeepsResync ==
    ASSUME TypeOK, ResyncInv, Timer
    PROVE  ResyncInv'
<1> USE BridgeAssumption
<1> PICK k \in 0 .. 2, left \in 0 .. MaxOrders, spoilt, cut, heard, fails, due \in BOOLEAN :
        OnTimer(k, spoilt, cut, heard, fails, due, left)
  BY DEF Timer
<1>1. state' = state /\ served' = served /\ accepting' = accepting /\ stopped' = stopped
  BY DEF OnTimer, server
<1>2. conns' >= conns
  BY DEF OnTimer, Heartbeats, TypeOK
<1>3. acked \subseteq acked'
  BY DEF OnTimer, Pumps
<1>4. ASSUME NEW c \in Conns, acks'[c] > 0 PROVE c \in acked'
  <2> DEFINE answered == IF spoilt THEN k - 1 ELSE k
  <2>1. answered \in Nat
    BY DEF OnTimer, Pumps
  <2>2. acks'[c] = IF c = socket /\ c \in alive THEN acks[c] + answered ELSE acks[c]
    BY DEF OnTimer, Pumps
  <2>3. acked' = IF answered > 0 THEN acked \cup {socket} ELSE acked
    BY DEF OnTimer, Pumps
  <2>4. acks[c] \in Nat /\ (acks[c] > 0 => c \in acked)
    BY DEF TypeOK, ResyncInv
  <2> HIDE DEF answered
  <2> QED BY <1>4, <2>1, <2>2, <2>3, <2>4
<1>5. served' <= conns'
  <2>1. conns' \in Nat
    BY DEF OnTimer, Heartbeats, TypeOK
  <2> QED BY <1>1, <1>2, <2>1 DEF ResyncInv, TypeOK
<1> QED BY <1>1, <1>3, <1>4, <1>5 DEF ResyncInv

\* Entries are allowed only after a resync on the connection that is served, for
\* any number of reconnections and any graces.
THEOREM EntriesAfterResync == Spec => []EntriesNeedResync
<1> USE BridgeAssumption
<1>1. Init => ResyncInv
  BY DEF Init, ResyncInv
<1>2. TypeOK /\ ResyncInv /\ [Next]_vars => ResyncInv'
  <2> SUFFICES ASSUME TypeOK, ResyncInv, [Next]_vars PROVE ResyncInv'
    OBVIOUS
  <2> USE DEF TypeOK, ResyncInv, Conns, server, ea, wires, timers, broker
  <2>1. CASE Accept
    <3>1. accepting = "accept" /\ UNCHANGED <<state, stopped, acks, acked, conns>> /\ accepting' = "greet"
      BY <2>1 DEF Accept
    <3>2. served' <= conns' /\ served' \in Conns
      BY <2>1 DEF Accept
    <3> QED BY <3>1, <3>2
  <2>2. CASE Greet BY <2>2 DEF Greet, SendResync
  <2>3. CASE ReadHello BY <2>3 DEF ReadHello, SendResync
  <2>4. CASE ReadAck
    <3>1. served \in Conns
      BY <2>4 DEF ReadAck
    <3>2. served \in acked
      BY <2>4, <3>1 DEF ReadAck
    <3> QED BY <2>4, <3>1, <3>2 DEF ReadAck
  <2>5. CASE ReadHeartbeat BY <2>5 DEF ReadHeartbeat
  <2>6. CASE ReadEnds BY <2>6 DEF ReadEnds
  <2>7. CASE DeclareLost BY <2>7 DEF DeclareLost
  <2>8. CASE Look BY <2>8 DEF Look
  <2>9. CASE Declare BY <2>9 DEF Declare
  <2>10. CASE Stop BY <2>10 DEF Stop
  <2>11. CASE Timer BY <2>11, TimerKeepsResync
  <2>12. CASE Hang BY <2>12 DEF Hang
  <2>13. CASE Break BY <2>13 DEF Break
  <2>14. CASE Place BY <2>14 DEF Place
  <2>15. CASE Tick BY <2>15 DEF Tick
  <2>16. CASE UNCHANGED vars BY <2>16 DEF vars
  <2> QED
    BY <2>1, <2>2, <2>3, <2>4, <2>5, <2>6, <2>7, <2>8, <2>9, <2>10, <2>11, <2>12,
       <2>13, <2>14, <2>15, <2>16 DEF Next, Reader
<1>3. ResyncInv => EntriesNeedResync
  BY DEF ResyncInv, EntriesNeedResync
<1> QED BY <1>1, <1>2, <1>3, BridgeTypes, PTL DEF Spec
=============================================================================
