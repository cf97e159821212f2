--------------------------- MODULE IntentProtocol ---------------------------
(***************************************************************************)
(* What the engine, the intent store and the broker promise together about *)
(* one trading intent, with every query, reply, retry and crash left out:  *)
(* a key is claimed at most once, holds its symbol (alone, or with the     *)
(* other leg of its straddle) until it is released, and the broker         *)
(* executes it at most once and only while it is held.                     *)
(***************************************************************************)
CONSTANTS Keys, SymbolOf, GroupOf, NoGroup

VARIABLES claimed, held, executed

vars == <<claimed, held, executed>>

Init == claimed = {} /\ held = {} /\ executed = {}

Compatible(j, k) == SymbolOf[j] = SymbolOf[k]
                      => GroupOf[k] # NoGroup /\ GroupOf[j] = GroupOf[k]

Claim(k) == /\ k \notin claimed
            /\ \A j \in held : Compatible(j, k)
            /\ claimed' = claimed \cup {k}
            /\ held' = held \cup {k}
            /\ UNCHANGED executed

Execute(k) == /\ k \in held \ executed
              /\ executed' = executed \cup {k}
              /\ UNCHANGED <<claimed, held>>

Release(k) == /\ k \in held
              /\ held' = held \ {k}
              /\ UNCHANGED <<claimed, executed>>

Next == \E k \in Keys : Claim(k) \/ Execute(k) \/ Release(k)

Spec == Init /\ [][Next]_vars
-----------------------------------------------------------------------------
\* Two keys held together never share a symbol unless they are one straddle.
Exclusive == \A j, k \in held : j # k => Compatible(j, k)

=============================================================================
