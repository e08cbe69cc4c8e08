---------------------------- MODULE MCCartStore ----------------------------
(***************************************************************************)
(* CartStore for one user who adds the same product twice, with different  *)
(* quantities, and either empties the cart or adds another product too.    *)
(***************************************************************************)
EXTENDS CartStore, TLC

CONSTANTS u1, p1, p2, a1, a2, a3, e1

MCUserOf == [c \in Calls |-> u1]
MCItemOf == [c \in Adds |->
                IF c = a1 THEN [product |-> p1, quantity |-> 1]
                ELSE IF c = a2 THEN [product |-> p1, quantity |-> 2]
                ELSE [product |-> p2, quantity |-> 1]]
MCTogether == {{a1, a2, e1}, {a1, a2, a3}}
=============================================================================
