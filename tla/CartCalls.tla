----------------------------- MODULE CartCalls -----------------------------
(***************************************************************************)
(* What the cart service does to a stored cart, as its callers see it: an  *)
(* AddItem reads the cart and, at some later moment, writes back what it   *)
(* has read with its own line added; an EmptyCart or the expiry of the     *)
(* entry clears it.  A call that fails may have read, and never writes.    *)
(* Module CartStore implements this, module Checkout is built on it.       *)
(***************************************************************************)
CONSTANTS Users,
          Lines,    \* AddItem calls, each adding a line to a cart
          OwnerOf   \* [Lines -> Users]

VARIABLES cart,     \* [Users -> SUBSET Lines]: the lines in a stored cart
          addPc,    \* [Lines -> {"new", "read", "added", "failed"}]
          addRead   \* [Lines -> SUBSET Lines]: the cart an AddItem has read

vars == <<cart, addPc, addRead>>

Init ==
    /\ cart = [u \in Users |-> {}]
    /\ addPc = [l \in Lines |-> "new"]
    /\ addRead = [l \in Lines |-> {}]

\* await db.HashGetAsync: the cart this AddItem will add to.
AddItemRead(l) ==
    /\ addPc[l] = "new"
    /\ addPc' = [addPc EXCEPT ![l] = "read"]
    /\ addRead' = [addRead EXCEPT ![l] = cart[OwnerOf[l]]]
    /\ UNCHANGED cart

\* await db.HashSetAsync; whether or not the caller gets to hear of it.
AddItemWrite(l) ==
    /\ addPc[l] = "read"
    /\ addPc' = [addPc EXCEPT ![l] = "added"]
    /\ cart' = [cart EXCEPT ![OwnerOf[l]] = addRead[l] \cup {l}]
    /\ UNCHANGED addRead

\* Several calls fail together when the connection to the store is lost.
AddItemFail(failing) ==
    /\ \A l \in failing : addPc[l] \in {"new", "read"}
    /\ addPc' = [l \in Lines |-> IF l \in failing THEN "failed" ELSE addPc[l]]
    /\ UNCHANGED <<cart, addRead>>

\* EmptyCart, or the expiry of several entries at the same moment.
Clear(users) ==
    /\ cart' = [u \in Users |-> IF u \in users THEN {} ELSE cart[u]]
    /\ UNCHANGED <<addPc, addRead>>

Next ==
    \/ \E l \in Lines : AddItemRead(l) \/ AddItemWrite(l)
    \/ \E failing \in SUBSET Lines : AddItemFail(failing)
    \/ \E users \in SUBSET Users : Clear(users)

Spec == Init /\ [][Next]_vars
=============================================================================
