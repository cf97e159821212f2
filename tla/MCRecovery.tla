----------------------------- MODULE MCRecovery -----------------------------
(***************************************************************************)
(* A pending order p and two calls for one market intent m on its symbol:  *)
(* m1 may claim before a crash and m2 after the restart.                   *)
(***************************************************************************)
EXTENDS Recovery, TLC

CONSTANTS p, m, p1, m1, m2

MCKeyOf    == (p1 :> p) @@ (m1 :> m) @@ (m2 :> m)
MCSymbolOf == [k \in Keys |-> "EURUSD"]
MCGroupOf  == [k \in Keys |-> NoGroup]
=============================================================================
