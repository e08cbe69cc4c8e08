------------------------------ MODULE CartPage ------------------------------
(***************************************************************************)
(* The total the cart page shows before an order is placed                 *)
(* (src/src/frontend/components/CartItems/CartItems.tsx), beside the total *)
(* the checkout service charges for the same items (module OrderTotal).    *)
(* The page adds in JavaScript numbers, nanos first and the units they     *)
(* exceed afterwards, with no check of what it is given.  Prices and the   *)
(* shipping cost reach both in the customer's currency.                    *)
(***************************************************************************)
EXTENDS OrderTotal

\* The page's shipping cost until the quote for it has arrived.
NoQuote == [units |-> 0, nanos |-> 0, currency |-> UserCurrency]

\* reduce over the first items, with a number for each item.
SumUpTo(cost, len) ==
    LET upTo[k \in 0 .. len] == IF k = 0 THEN 0 ELSE upTo[k - 1] + cost[k]
    IN  upTo[len]

NanoSum(quote) ==
    SumUpTo([k \in DOMAIN items |-> items[k].cost.nanos], Len(items)) + quote.nanos

UnitSum(quote) ==
    SumUpTo([k \in DOMAIN items |-> items[k].cost.units], Len(items)) + quote.units

\* Seeded bug: the units that the nanos exceed are not added.
PageTotalUncarried(quote) ==
    [units |-> UnitSum(quote), nanos |-> NanoSum(quote) % NanosMod,
     currency |-> UserCurrency]

PageTotal(quote) ==
    [units |-> UnitSum(quote) + NanoSum(quote) \div NanosMod,
     nanos |-> NanoSum(quote) % NanosMod, currency |-> UserCurrency]

-----------------------------------------------------------------------------
(***************************************************************************)
(* The page and the charge agree but for what the page leaves out, the     *)
(* quantities and a quote that has not arrived: the total shown is a valid *)
(* amount, and the charge is worth that, the shipping cost if it is        *)
(* missing, and the price of every item once for each piece beyond the     *)
(* first (CartItems.tsx:37-52 and main.go:283-290).                        *)
(***************************************************************************)
BeyondFirst ==
    SumUpTo([k \in DOMAIN items |-> (items[k].quantity - 1) * InNanos(items[k].cost)],
            Len(items))

ShownTotal ==
    \A quote \in {shipping, NoQuote} :
        /\ IsValid(PageTotal(quote))
        /\ pc = "totalled" /\ QuantitiesPositive =>
               InNanos(PageTotal(quote)) + InNanos(shipping) - InNanos(quote)
                   + BeyondFirst = InNanos(total)
=============================================================================
