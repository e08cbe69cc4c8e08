----------------------------- MODULE MCCheckout -----------------------------
(***************************************************************************)
(* Checkout for one customer who adds two lines while placing up to two    *)
(* orders.  Both lines cost more in dollars than in the currency of the    *)
(* customer; the threshold lies between the two prices of the first, and   *)
(* below those of the second.                                              *)
(***************************************************************************)
EXTENDS Checkout, TLC

CONSTANTS u1, l1, l2

MCUserOf == [r \in Requests |-> u1]
MCOwnerOf == [l \in Lines |-> u1]
MCPriceUsd == (l1 :> 2) @@ (l2 :> 3)
MCPriceLocal == (l1 :> 1) @@ (l2 :> 2)

\* Every request is of the same user.
MCSymmetry == Permutations(Requests)
=============================================================================
