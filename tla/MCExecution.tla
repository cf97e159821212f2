---------------------------- MODULE MCExecution ----------------------------
(***************************************************************************)
(* A market order m, whose trigger two threads saw, and a pending order n  *)
(* on the same symbol.                                                     *)
(***************************************************************************)
EXTENDS ExecutionEngine, TLC

CONSTANTS m, n, m1, m2, n1

MCKeyOf    == (m1 :> m) @@ (m2 :> m) @@ (n1 :> n)
MCSymbolOf == [k \in Keys |-> "EURUSD"]
MCGroupOf  == [k \in Keys |-> NoGroup]
=============================================================================
