---------------------------- MODULE MCStraddle -----------------------------
(***************************************************************************)
(* Pending orders: p and q are the two legs of a straddle.  Two fills are *)
(* reported, of one leg or of both.                                        *)
(***************************************************************************)
EXTENDS Straddle, TLC

CONSTANTS p, q, p1, q1, d1, d2

MCKeyOf    == (p1 :> p) @@ (q1 :> q)
MCSymbolOf == [k \in Keys |-> "EURUSD"]
MCGroupOf  == [k \in Keys |-> "straddle"]
=============================================================================
