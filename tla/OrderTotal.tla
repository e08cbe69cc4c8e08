----------------------------- MODULE OrderTotal -----------------------------
(***************************************************************************)
(* How PlaceOrder adds up what the card is charged                         *)
(* (src/src/checkout/main.go, lines 283-290): the shipping cost, then for  *)
(* every order item its cost added to itself by MultiplySlow and the       *)
(* product added to the total.  Each step below is one call of money.Sum;  *)
(* money.Must panics, and with it the process, when the call fails.        *)
(*                                                                         *)
(* `due' is not in the code: it is the exact number of nanos the steps     *)
(* taken so far ought to have put into `total', against which the          *)
(* properties compare the amount the code computes.                        *)
(***************************************************************************)
EXTENDS Money, Sequences

CONSTANTS Prices,      \* the amounts a price or a shipping cost may be
          MaxItems,    \* the longest order (bound of the model)
          MaxQuantity, \* the largest quantity (bound of the model)
          UserCurrency \* the currency of the request

ASSUME OrderTotalAssumption ==
    /\ Prices \subseteq
         {m \in Amounts : IsValid(m) /\ m.units >= 0 /\ m.nanos >= 0
                          /\ m.currency = UserCurrency}
    /\ MaxItems \in Nat
    /\ MaxQuantity \in Nat
    /\ UserCurrency \in Currencies \cup {Unspecified}

VARIABLES shipping,  \* prep.shippingCostLocalized
          items,     \* prep.orderItems: sequence of [cost, quantity]
          pc,        \* where the computation is
          i,         \* the index of the item being added
          n,         \* the counter of MultiplySlow
          out,       \* the amount MultiplySlow has reached
          total,     \* the total so far
          due        \* the exact total so far, in nanos

vars == <<shipping, items, pc, i, n, out, total, due>>

OrderItems == [cost : Prices, quantity : 0 .. MaxQuantity]

ZeroTotal == [units |-> 0, nanos |-> 0, currency |-> UserCurrency]

Cost == items[i].cost
Quantity == items[i].quantity

Init ==
    /\ shipping \in Prices
    /\ items \in UNION {[1 .. k -> OrderItems] : k \in 0 .. MaxItems}
    /\ pc = "shipping"
    /\ i = 0
    /\ n = 0
    /\ out = ZeroTotal
    /\ total = ZeroTotal
    /\ due = 0

Panic(result) ==
    /\ MustPanics(result)
    /\ pc' = "panicked"
    /\ UNCHANGED <<shipping, items, i, n, out, total, due>>

\* The next iteration of the loop over the order items, or its end.
NextItem(k) ==
    IF k <= Len(items)
    THEN pc' = "multiply" /\ i' = k /\ n' = items[k].quantity /\ out' = items[k].cost
    ELSE pc' = "totalled" /\ UNCHANGED <<i, n, out>>

AddShipping ==
    /\ pc = "shipping"
    /\ LET result == Sum(total, shipping)
       IN  \/ Panic(result)
           \/ /\ ~MustPanics(result)
              /\ total' = result.amount
              /\ due' = InNanos(shipping)
              /\ NextItem(1)
              /\ UNCHANGED <<shipping, items>>

\* Seeded bug: the loop runs while n > 0, once too often.
MultiplyOnceMore ==
    /\ pc = "multiply"
    /\ n > 0
    /\ LET result == Sum(out, Cost)
       IN  \/ Panic(result)
           \/ /\ ~MustPanics(result)
              /\ out' = result.amount
              /\ n' = n - 1
              /\ UNCHANGED <<shipping, items, pc, i, total, due>>

\* One turn of MultiplySlow's loop.
Multiply ==
    /\ pc = "multiply"
    /\ n > 1
    /\ LET result == Sum(out, Cost)
       IN  \/ Panic(result)
           \/ /\ ~MustPanics(result)
              /\ out' = result.amount
              /\ n' = n - 1
              /\ UNCHANGED <<shipping, items, pc, i, total, due>>

AddItem ==
    /\ pc = "multiply"
    /\ n <= 1
    /\ LET result == Sum(total, out)
       IN  \/ Panic(result)
           \/ /\ ~MustPanics(result)
              /\ total' = result.amount
              /\ due' = due + Quantity * InNanos(Cost)
              /\ NextItem(i + 1)
              /\ UNCHANGED <<shipping, items>>

Next == AddShipping \/ Multiply \/ AddItem

Spec == Init /\ [][Next]_vars /\ WF_vars(Next)

-----------------------------------------------------------------------------
TypeOK ==
    /\ shipping \in Prices
    /\ items \in Seq(OrderItems)
    /\ pc \in {"shipping", "multiply", "totalled", "panicked"}
    /\ i \in Nat /\ (pc = "multiply" => i \in DOMAIN items)
    /\ n \in 0 .. MaxQuantity
    /\ out \in Amounts
    /\ total \in Amounts
    /\ due \in Nat

(***************************************************************************)
(* Carries and borrows never lose or create money: for as long as no Sum   *)
(* has failed the total is worth exactly the shipping cost and the price   *)
(* times the quantity of each item added so far, though it may be written  *)
(* in an invalid form.  (PlaceOrder, lines 286-290, for positive           *)
(* quantities.)                                                            *)
(***************************************************************************)
QuantitiesPositive == \A k \in DOMAIN items : items[k].quantity >= 1

TotalExact == QuantitiesPositive => InNanos(total) = due

(***************************************************************************)
(* money.Must cannot take the checkout process down over an ordinary       *)
(* order, nor is the payment service asked for an invalid amount: a panic  *)
(* needs a shipping cost below one unit, or an item that costs less than   *)
(* half a unit and is bought at least twice, and an invalid charge (line   *)
(* 292) needs a shipping cost below one unit.                              *)
(***************************************************************************)
CheapPair(item) ==
    /\ item.cost.units = 0
    /\ item.cost.nanos # 0
    /\ 2 * item.cost.nanos < NanosMod
    /\ item.quantity >= 2

PanicOnlyOnFractions ==
    /\ pc = "panicked" =>
           \/ shipping.units = 0
           \/ \E k \in DOMAIN items : CheapPair(items[k])
    /\ pc = "totalled" /\ shipping.units >= 1 => IsValid(total)
=============================================================================
