-------------------------- MODULE OrderTotalProofs --------------------------
(***************************************************************************)
(* What Sum returns, for every pair of amounts and every modulus, and what *)
(* it makes of an order: the total is exact whatever the prices, the       *)
(* quantities, the length of the order and the modulus.  The inductive     *)
(* invariant adds to TotalExact what MultiplySlow has done so far: after n *)
(* has been counted down from the quantity, `out' is worth                 *)
(* quantity - n + 1 times the cost.  The page's own sum is a fold over the *)
(* same items: that it agrees is proved by induction on their number.      *)
(***************************************************************************)
EXTENDS CartPage, MoneyCases, SequenceTheorems, WellFoundedInduction, TLAPS

(***************************************************************************)
(* Division by a positive b of a number below 2b: the only divisions Sum   *)
(* makes, since two valid nanos add up to less than two units.             *)
(***************************************************************************)
LEMMA SmallQuotient ==
    ASSUME NEW b \in Nat \ {0}, NEW a \in Int, 0 <= a, a < 2 * b
    PROVE  a \div b = IF a < b THEN 0 ELSE 1
<1> DEFINE q == a \div b
           m == a % b
<1>1. q \in Int /\ m \in 0 .. (b - 1) /\ a = b * q + m
  BY SMT
<1>2. CASE a < b
  <2>1. q <= 0
    <3>1. SUFFICES ASSUME q >= 1 PROVE FALSE
      BY <1>1
    <3>2. b * q >= b
      BY <3>1, <1>1
    <3> QED BY <3>2, <1>1, <1>2
  <2>2. q >= 0
    <3>1. SUFFICES ASSUME q <= -1 PROVE FALSE
      BY <1>1
    <3>2. b * q <= -b
      BY <3>1, <1>1
    <3> QED BY <3>2, <1>1
  <2> QED BY <2>1, <2>2, <1>1, <1>2
<1>3. CASE a >= b
  <2>1. q <= 1
    <3>1. SUFFICES ASSUME q >= 2 PROVE FALSE
      BY <1>1
    <3>2. b * q >= 2 * b
      BY <3>1, <1>1
    <3> QED BY <3>2, <1>1
  <2>2. q >= 1
    <3>1. SUFFICES ASSUME q <= 0 PROVE FALSE
      BY <1>1
    <3>2. b * q <= 0
      BY <3>1, <1>1
    <3> QED BY <3>2, <1>1, <1>3
  <2> QED BY <2>1, <2>2, <1>1, <1>3
<1> QED BY <1>2, <1>3

(***************************************************************************)
(* Two valid nanos never overflow the int32 they are added in.             *)
(***************************************************************************)
LEMMA NanosFit ==
    ASSUME NEW l \in Amounts, NEW r \in Amounts, IsValid(l), IsValid(r)
    PROVE  /\ Int32(l.nanos + r.nanos) = l.nanos + r.nanos
           /\ l.nanos + r.nanos < 2 * NanosMod
           /\ -(2 * NanosMod) < l.nanos + r.nanos
  BY MoneyAssumption DEF Amounts, IsValid, ValidNanos, Int32

(***************************************************************************)
(* The carry branch of Sum: it keeps the value and its nanos are valid     *)
(* and of the sign of the operands.                                        *)
(***************************************************************************)
LEMMA CarriedExact ==
    ASSUME NEW u \in Int, NEW f \in Int, NEW c,
           f < 2 * NanosMod, -(2 * NanosMod) < f, SameSign(u, f)
    PROVE  /\ InNanos(Carried(u, f, c)) = u * NanosMod + f
           /\ IsValid(Carried(u, f, c))
           /\ Carried(u, f, c).units \in Int
           /\ Carried(u, f, c).nanos \in Int
           /\ u >= 1 => Carried(u, f, c).units >= 1
<1> DEFINE q == Quotient(f, NanosMod)
<1> NanosMod \in Nat \ {0, 1}
  BY MoneyAssumption
<1>1. CASE f >= 0
  <2>1. q = IF f < NanosMod THEN 0 ELSE 1
    BY <1>1, SmallQuotient DEF Quotient
  <2> QED BY <1>1, <2>1 DEF Carried, InNanos, Remainder, IsValid, SignMatches,
                            ValidNanos, SameSign
<1>2. CASE f < 0
  <2>1. (-f) \div NanosMod = IF -f < NanosMod THEN 0 ELSE 1
    BY <1>2, SmallQuotient
  <2>2. q = IF -f < NanosMod THEN 0 ELSE -1
    BY <1>2, <2>1 DEF Quotient
  <2> QED BY <1>2, <2>2 DEF Carried, InNanos, Remainder, IsValid, SignMatches,
                            ValidNanos, SameSign
<1> QED BY <1>1, <1>2

(***************************************************************************)
(* The borrow branch of Sum keeps the value too, as long as the int32 can  *)
(* hold what it computes.                                                  *)
(***************************************************************************)
LEMMA BorrowedExact ==
    ASSUME NEW u \in Int, NEW f \in Int, NEW c,
           f < 2 * NanosMod, -(2 * NanosMod) < f, ~SameSign(u, f),
           u # 0 \/ f >= NanosMod - Int32Half
    PROVE  /\ InNanos(Borrowed(u, f, c)) = u * NanosMod + f
           /\ Borrowed(u, f, c).units \in Int
           /\ Borrowed(u, f, c).nanos \in Int
<1> NanosMod \in Nat \ {0, 1} /\ Int32Half \in Nat /\ 2 * NanosMod <= Int32Half
  BY MoneyAssumption
<1>1. CASE u > 0
  <2>1. Int32(f + NanosMod) = f + NanosMod
    BY <1>1 DEF Int32, SameSign
  <2> QED BY <1>1, <2>1 DEF Borrowed, InNanos
<1>2. CASE u <= 0
  <2>1. Int32(f - NanosMod) = f - NanosMod
    BY <1>2 DEF Int32, SameSign
  <2> QED BY <1>2, <2>1 DEF Borrowed, InNanos
<1> QED BY <1>1, <1>2

(***************************************************************************)
(* Sum of two valid amounts of one currency has no error and is worth      *)
(* exactly their sum, unless the int32 overflows (MoneyCases checks the    *)
(* same of small amounts as SumIsExact).                                   *)
(***************************************************************************)
THEOREM SumExact ==
    ASSUME NEW l \in Amounts, NEW r \in Amounts,
           IsValid(l), IsValid(r), l.currency = r.currency,
           ~NanosOverflow(l, r)
    PROVE  /\ Sum(l, r).err = "none"
           /\ Sum(l, r).amount \in Amounts
           /\ Sum(l, r).amount.currency = l.currency
           /\ InNanos(Sum(l, r).amount) = InNanos(l) + InNanos(r)
<1> DEFINE u == l.units + r.units
           f == l.nanos + r.nanos
<1> NanosMod \in Nat \ {0, 1} /\ Int32Half \in Nat
  BY MoneyAssumption
<1>1. u \in Int /\ f \in Int /\ l.currency \in Currencies \cup {Unspecified}
  BY DEF Amounts
<1>2. Int32(f) = f /\ f < 2 * NanosMod /\ -(2 * NanosMod) < f
  BY NanosFit
<1>3. Sum(l, r) = [amount |-> Added(l, r), err |-> "none"]
  BY DEF Sum
<1>4. InNanos(l) + InNanos(r) = u * NanosMod + f
  BY DEF InNanos, Amounts
<1>5. CASE SameSign(u, f)
  <2>1. Added(l, r) = Carried(u, f, l.currency)
    BY <1>2, <1>5 DEF Added
  <2>2. /\ InNanos(Carried(u, f, l.currency)) = u * NanosMod + f
        /\ Carried(u, f, l.currency).units \in Int
        /\ Carried(u, f, l.currency).nanos \in Int
    BY <1>1, <1>2, <1>5, CarriedExact
  <2>3. /\ Carried(u, f, l.currency) \in Amounts
        /\ Carried(u, f, l.currency).currency = l.currency
    BY <1>1, <2>2 DEF Carried, Amounts
  <2> QED BY <1>3, <1>4, <2>1, <2>2, <2>3
<1>6. CASE ~SameSign(u, f)
  <2>1. Added(l, r) = Borrowed(u, f, l.currency)
    BY <1>2, <1>6 DEF Added
  <2>2. u # 0 \/ f >= NanosMod - Int32Half
    BY <1>1 DEF NanosOverflow
  <2>3. /\ InNanos(Borrowed(u, f, l.currency)) = u * NanosMod + f
        /\ Borrowed(u, f, l.currency).units \in Int
        /\ Borrowed(u, f, l.currency).nanos \in Int
    BY <1>1, <1>2, <1>6, <2>2, BorrowedExact
  <2>4. /\ Borrowed(u, f, l.currency) \in Amounts
        /\ Borrowed(u, f, l.currency).currency = l.currency
    BY <1>1, <2>3 DEF Borrowed, Amounts
  <2> QED BY <1>3, <1>4, <2>1, <2>3, <2>4
<1> QED BY <1>5, <1>6

(***************************************************************************)
(* Once an amount has a whole unit, adding anything not negative to it     *)
(* keeps it valid and at least one unit: the running total of an order     *)
(* cannot become an operand that Sum rejects.                              *)
(***************************************************************************)
THEOREM SumOfWholeUnitsValid ==
    ASSUME NEW l \in Amounts, NEW r \in Amounts,
           IsValid(l), IsValid(r), l.currency = r.currency,
           l.units >= 1, l.nanos >= 0, r.units >= 0, r.nanos >= 0
    PROVE  /\ IsValid(Sum(l, r).amount)
           /\ Sum(l, r).amount.units >= 1
           /\ Sum(l, r).amount.nanos >= 0
<1> DEFINE u == l.units + r.units
           f == l.nanos + r.nanos
<1> NanosMod \in Nat \ {0, 1}
  BY MoneyAssumption
<1>1. u \in Int /\ f \in Int /\ u >= 1 /\ f >= 0
  BY DEF Amounts
<1>2. Int32(f) = f /\ f < 2 * NanosMod /\ -(2 * NanosMod) < f
  BY NanosFit
<1>3. SameSign(u, f)
  BY <1>1 DEF SameSign
<1>4. Sum(l, r).amount = Carried(u, f, l.currency)
  BY <1>2, <1>3 DEF Sum, Added
<1>5. /\ IsValid(Carried(u, f, l.currency))
      /\ Carried(u, f, l.currency).units >= 1
      /\ Carried(u, f, l.currency).units \in Int
      /\ Carried(u, f, l.currency).nanos \in Int
  BY <1>1, <1>2, <1>3, CarriedExact
<1>6. Carried(u, f, l.currency).nanos >= 0
  BY <1>4, <1>5 DEF IsValid, SignMatches
<1> QED BY <1>4, <1>5, <1>6

-----------------------------------------------------------------------------

Multiplied == InNanos(out) = (Quantity - n + 1) * InNanos(Cost)

\* The total starts from zero.
Untouched == pc = "shipping" => total = ZeroTotal

\* TypeOK with the currencies that Sum compares.
TypeInv ==
    /\ TypeOK
    /\ total.currency = UserCurrency
    /\ out.currency = UserCurrency
    /\ Untouched

ExactInv ==
    QuantitiesPositive =>
        /\ InNanos(total) = due
        /\ pc = "multiply" => n >= 1 /\ n <= Quantity /\ Multiplied

IInv == TypeInv /\ ExactInv

-----------------------------------------------------------------------------
\* A price is an amount worth at least nothing, in the user's currency.
LEMMA PriceFacts ==
    ASSUME NEW p \in Prices
    PROVE  /\ p \in Amounts
           /\ p.currency = UserCurrency
           /\ InNanos(p) \in Nat
<1>1. /\ p \in Amounts /\ IsValid(p) /\ p.units >= 0 /\ p.nanos >= 0
      /\ p.currency = UserCurrency
  BY OrderTotalAssumption
<1>2. p.units \in Nat /\ p.nanos \in Nat /\ NanosMod \in Nat
  BY <1>1, MoneyAssumption DEF Amounts
<1>3. p.units * NanosMod \in Nat
  BY <1>2
<1> QED BY <1>1, <1>2, <1>3 DEF InNanos

\* A valid amount worth at least nothing has no negative part.
LEMMA NotNegative ==
    ASSUME NEW m \in Amounts, IsValid(m), InNanos(m) >= 0
    PROVE  m.units >= 0 /\ m.nanos >= 0
<1>1. /\ m.units \in Int /\ m.nanos \in Int /\ NanosMod \in Nat \ {0, 1}
      /\ m.nanos <= NanosMod - 1 /\ SignMatches(m)
  BY MoneyAssumption DEF Amounts, IsValid, ValidNanos
<1>2. m.units >= 0
  <2>1. SUFFICES ASSUME m.units <= -1 PROVE FALSE
    BY <1>1
  <2>2. m.nanos <= 0
    BY <1>1, <2>1 DEF SignMatches
  <2>3. m.units * NanosMod <= -NanosMod
    BY <1>1, <2>1
  <2> QED BY <1>1, <2>2, <2>3 DEF InNanos
<1>3. m.nanos >= 0
  <2>1. CASE m.units = 0
    BY <1>1, <2>1 DEF InNanos
  <2>2. CASE m.units # 0
    BY <1>1, <1>2, <2>2 DEF SignMatches
  <2> QED BY <2>1, <2>2
<1> QED BY <1>2, <1>3

\* A call of Sum that does not fail had two valid operands of one currency.
LEMMA SumAccepted ==
    ASSUME NEW l \in Amounts, NEW r \in Amounts, ~MustPanics(Sum(l, r))
    PROVE  IsValid(l) /\ IsValid(r) /\ l.currency = r.currency
  BY DEF MustPanics, Sum

\* What a call of Sum returns is an amount, of the currency of its operands.
LEMMA SumType ==
    ASSUME NEW l \in Amounts, NEW r \in Amounts, ~MustPanics(Sum(l, r))
    PROVE  /\ Sum(l, r).amount \in Amounts
           /\ Sum(l, r).amount.currency = l.currency
<1> DEFINE u == l.units + r.units
           f == Int32(l.nanos + r.nanos)
<1>1. IsValid(l) /\ IsValid(r) /\ l.currency = r.currency
  BY SumAccepted
<1>2. /\ NanosMod \in Nat \ {0, 1} /\ Int32Half \in Nat /\ Int32Half > 0
      /\ l.currency \in Currencies \cup {Unspecified}
  BY MoneyAssumption DEF Amounts
<1>3. \A k \in Int : Int32(k) \in Int
  BY <1>2 DEF Int32
<1>4. u \in Int /\ f \in Int
  BY <1>3 DEF Amounts
<1>5. f + NanosMod \in Int /\ f - NanosMod \in Int /\ Quotient(f, NanosMod) \in Int
  BY <1>2, <1>4 DEF Quotient
<1>6. Int32(f + NanosMod) \in Int /\ Int32(f - NanosMod) \in Int
      /\ Remainder(f, NanosMod) \in Int
  BY <1>2, <1>3, <1>4, <1>5 DEF Remainder
<1>7. /\ Carried(u, f, l.currency) \in Amounts
      /\ Carried(u, f, l.currency).currency = l.currency
  BY <1>2, <1>4, <1>5, <1>6 DEF Carried, Amounts
<1>8. /\ Borrowed(u, f, l.currency) \in Amounts
      /\ Borrowed(u, f, l.currency).currency = l.currency
  BY <1>2, <1>4, <1>6 DEF Borrowed, Amounts
<1>9. Sum(l, r).amount = Added(l, r)
  BY <1>1 DEF Sum
<1> QED BY <1>7, <1>8, <1>9 DEF Added

(***************************************************************************)
(* Sum is exact of amounts worth at least nothing: they cannot overflow.   *)
(***************************************************************************)
LEMMA SumNonNegative ==
    ASSUME NEW l \in Amounts, NEW r \in Amounts, ~MustPanics(Sum(l, r)),
           InNanos(l) >= 0, InNanos(r) >= 0
    PROVE  InNanos(Sum(l, r).amount) = InNanos(l) + InNanos(r)
<1>1. IsValid(l) /\ IsValid(r) /\ l.currency = r.currency
  BY SumAccepted
<1>2. l.nanos >= 0 /\ r.nanos >= 0 /\ l.nanos \in Int /\ r.nanos \in Int
  BY <1>1, NotNegative DEF Amounts
<1>3. ~NanosOverflow(l, r)
  BY <1>2, MoneyAssumption DEF NanosOverflow
<1> QED BY <1>1, <1>3, SumExact

-----------------------------------------------------------------------------
LEMMA ZeroTotalFacts ==
    /\ ZeroTotal \in Amounts
    /\ ZeroTotal.currency = UserCurrency
    /\ InNanos(ZeroTotal) = 0
  BY OrderTotalAssumption, MoneyAssumption DEF ZeroTotal, Amounts, InNanos

\* The items of an order: costs are prices, quantities are natural numbers.
LEMMA ItemFacts ==
    ASSUME items \in Seq(OrderItems), NEW k \in DOMAIN items
    PROVE  /\ items[k].cost \in Prices
           /\ items[k].cost \in Amounts
           /\ items[k].cost.currency = UserCurrency
           /\ InNanos(items[k].cost) \in Nat
           /\ items[k].quantity \in 0 .. MaxQuantity
           /\ items[k].quantity \in Nat
<1>1. items[k] \in OrderItems
  BY ElementOfSeq
<1>2. items[k].cost \in Prices /\ items[k].quantity \in 0 .. MaxQuantity
  BY <1>1 DEF OrderItems
<1> QED BY <1>2, PriceFacts, OrderTotalAssumption

(***************************************************************************)
(* Going on to item k, or to the end of the loop, keeps the types.         *)
(***************************************************************************)
LEMMA NextItemType ==
    ASSUME TypeInv, NEW k \in Nat \ {0}, NextItem(k)
    PROVE  /\ pc' \in {"multiply", "totalled"}
           /\ i' \in Nat
           /\ pc' = "multiply" => i' \in DOMAIN items
           /\ n' \in 0 .. MaxQuantity
           /\ out' \in Amounts
           /\ out'.currency = UserCurrency
<1>1. items \in Seq(OrderItems) /\ Len(items) \in Nat /\ DOMAIN items = 1 .. Len(items)
  BY DEF TypeInv, TypeOK
<1>2. CASE k <= Len(items)
  <2>1. k \in DOMAIN items
    BY <1>1, <1>2
  <2>2. /\ items[k].cost \in Amounts /\ items[k].cost.currency = UserCurrency
        /\ items[k].quantity \in 0 .. MaxQuantity
    BY <1>1, <2>1, ItemFacts
  <2> QED BY <1>2, <2>1, <2>2 DEF NextItem
<1>3. CASE ~(k <= Len(items))
  BY <1>3 DEF NextItem, TypeInv, TypeOK
<1> QED BY <1>2, <1>3

(***************************************************************************)
(* Type correctness: no computation of Sum leaves the amounts, and the     *)
(* index stays within the order while an item is being multiplied.         *)
(***************************************************************************)
LEMMA TypeInvStep == TypeInv /\ [Next]_vars => TypeInv'
<1> SUFFICES ASSUME TypeInv, [Next]_vars PROVE TypeInv'
  OBVIOUS
<1>1. ASSUME NEW result, Panic(result) PROVE TypeInv'
  BY <1>1 DEF Panic, TypeInv, TypeOK, Untouched
<1>2. CASE AddShipping
  <2>1. CASE ~MustPanics(Sum(total, shipping))
    <3>1. /\ total' = Sum(total, shipping).amount /\ due' = InNanos(shipping)
          /\ NextItem(1) /\ UNCHANGED <<shipping, items>>
      BY <1>2, <2>1 DEF AddShipping, Panic
    <3>2. total \in Amounts /\ shipping \in Amounts /\ InNanos(shipping) \in Nat
      BY PriceFacts DEF TypeInv, TypeOK
    <3>3. total' \in Amounts /\ total'.currency = UserCurrency
      BY <2>1, <3>1, <3>2, SumType DEF TypeInv
    <3> QED BY <3>1, <3>2, <3>3, NextItemType DEF TypeInv, TypeOK, Untouched
  <2> QED BY <1>1, <1>2, <2>1 DEF AddShipping
<1>3. CASE Multiply
  <2>1. CASE ~MustPanics(Sum(out, Cost))
    <3>1. /\ out' = Sum(out, Cost).amount /\ n > 1 /\ n' = n - 1
          /\ pc = "multiply" /\ UNCHANGED <<shipping, items, pc, i, total, due>>
      BY <1>3, <2>1 DEF Multiply, Panic
    <3>2. out \in Amounts /\ Cost \in Amounts
      BY <3>1, ItemFacts DEF TypeInv, TypeOK, Cost
    <3>3. out' \in Amounts /\ out'.currency = UserCurrency
      BY <2>1, <3>1, <3>2, SumType DEF TypeInv
    <3>4. n' \in 0 .. MaxQuantity
      BY <3>1, OrderTotalAssumption DEF TypeInv, TypeOK
    <3> QED BY <3>1, <3>3, <3>4 DEF TypeInv, TypeOK, Untouched
  <2> QED BY <1>1, <1>3, <2>1 DEF Multiply
<1>4. CASE AddItem
  <2>1. CASE ~MustPanics(Sum(total, out))
    <3>1. /\ total' = Sum(total, out).amount /\ pc = "multiply"
          /\ due' = due + Quantity * InNanos(Cost)
          /\ NextItem(i + 1) /\ UNCHANGED <<shipping, items>>
      BY <1>4, <2>1 DEF AddItem, Panic
    <3>2. total' \in Amounts /\ total'.currency = UserCurrency
      BY <2>1, <3>1, SumType DEF TypeInv, TypeOK
    <3>3. Quantity \in Nat /\ InNanos(Cost) \in Nat
      BY <3>1, ItemFacts DEF TypeInv, TypeOK, Quantity, Cost
    <3>4. Quantity * InNanos(Cost) \in Nat
      BY <3>3
    <3>5. due' \in Nat
      BY <3>1, <3>4 DEF TypeInv, TypeOK
    <3>6. i + 1 \in Nat \ {0}
      BY DEF TypeInv, TypeOK
    <3> QED BY <3>1, <3>2, <3>5, <3>6, NextItemType DEF TypeInv, TypeOK, Untouched
  <2> QED BY <1>1, <1>4, <2>1 DEF AddItem
<1>5. CASE UNCHANGED vars
  BY <1>5 DEF vars, TypeInv, TypeOK, Untouched, ZeroTotal
<1> QED BY <1>2, <1>3, <1>4, <1>5 DEF Next

LEMMA TypeInvInit == Init => TypeInv
<1> SUFFICES ASSUME Init PROVE TypeInv
  OBVIOUS
<1>1. items \in Seq(OrderItems)
  BY OrderTotalAssumption DEF Init
<1>2. 0 \in 0 .. MaxQuantity
  BY OrderTotalAssumption
<1> QED BY <1>1, <1>2, ZeroTotalFacts DEF Init, TypeInv, TypeOK, Untouched

THEOREM TypeCorrect == Spec => []TypeOK
<1>1. TypeInv => TypeOK
  BY DEF TypeInv
<1> QED BY <1>1, TypeInvInit, TypeInvStep, PTL DEF Spec

-----------------------------------------------------------------------------
(***************************************************************************)
(* Starting on an item: nothing has been added to its cost yet.            *)
(***************************************************************************)
LEMMA NextItemExact ==
    ASSUME TypeInv, NEW k \in Nat \ {0}, NextItem(k), UNCHANGED items,
           QuantitiesPositive
    PROVE  pc' = "multiply" => n' >= 1 /\ n' <= Quantity' /\ Multiplied'
<1>1. items \in Seq(OrderItems) /\ Len(items) \in Nat /\ DOMAIN items = 1 .. Len(items)
  BY DEF TypeInv, TypeOK
<1> SUFFICES ASSUME pc' = "multiply"
             PROVE  n' >= 1 /\ n' <= Quantity' /\ Multiplied'
  OBVIOUS
<1>2. k <= Len(items) /\ i' = k /\ n' = items[k].quantity /\ out' = items[k].cost
  BY DEF NextItem
<1>3. k \in DOMAIN items
  BY <1>1, <1>2
<1>4. items[k].quantity \in Nat /\ InNanos(items[k].cost) \in Nat
  BY <1>1, <1>3, ItemFacts
<1>5. Quantity' = items[k].quantity /\ Cost' = items[k].cost
  BY <1>2 DEF Quantity, Cost
<1>6. InNanos(out)' = InNanos(items[k].cost) /\ InNanos(Cost)' = InNanos(items[k].cost)
  BY <1>2, <1>5 DEF InNanos
<1>7. Multiplied'
  BY <1>2, <1>4, <1>5, <1>6 DEF Multiplied
<1> QED BY <1>2, <1>3, <1>4, <1>5, <1>7 DEF QuantitiesPositive

(***************************************************************************)
(* One more addition of the cost: (q - n + 1) c + c = (q - (n - 1) + 1) c. *)
(***************************************************************************)
LEMMA MultiplyExact ==
    ASSUME IInv, Multiply, ~MustPanics(Sum(out, Cost)), QuantitiesPositive
    PROVE  n' >= 1 /\ n' <= Quantity' /\ Multiplied'
<1>1. /\ out' = Sum(out, Cost).amount /\ n > 1 /\ n' = n - 1
      /\ pc = "multiply" /\ UNCHANGED <<items, i>>
  BY DEF Multiply, Panic
<1>2. /\ items \in Seq(OrderItems) /\ i \in DOMAIN items /\ out \in Amounts
      /\ n \in Nat /\ n <= Quantity /\ Multiplied
  BY <1>1, OrderTotalAssumption DEF IInv, TypeInv, TypeOK, ExactInv
<1>3. Cost \in Amounts /\ InNanos(Cost) \in Nat /\ Quantity \in Nat
  BY <1>2, ItemFacts DEF Cost, Quantity
<1>4. (Quantity - n + 1) * InNanos(Cost) \in Nat
  BY <1>2, <1>3
<1>5. InNanos(Sum(out, Cost).amount) = InNanos(out) + InNanos(Cost)
  BY <1>2, <1>3, <1>4, SumNonNegative DEF Multiplied
<1>6. InNanos(out') = (Quantity - (n - 1) + 1) * InNanos(Cost)
  BY <1>1, <1>2, <1>3, <1>5 DEF Multiplied
<1>7. Quantity' = Quantity /\ Cost' = Cost
  BY <1>1 DEF Quantity, Cost
<1>8. InNanos(out)' = InNanos(out') /\ InNanos(Cost)' = InNanos(Cost)
  BY <1>7 DEF InNanos
<1>9. Multiplied'
  BY <1>1, <1>6, <1>7, <1>8 DEF Multiplied
<1> QED BY <1>1, <1>2, <1>3, <1>7, <1>9

LEMMA IInvStep == IInv /\ [Next]_vars => IInv'
<1> SUFFICES ASSUME IInv, [Next]_vars, QuantitiesPositive' PROVE ExactInv'
  BY TypeInvStep DEF IInv, ExactInv
<1>1. items' = items /\ QuantitiesPositive
  BY DEF Next, AddShipping, Multiply, AddItem, Panic, NextItem, vars,
         QuantitiesPositive
<1>2. /\ InNanos(total) = due /\ due \in Nat /\ total \in Amounts /\ out \in Amounts
      /\ pc = "multiply" => n >= 1 /\ n <= Quantity /\ Multiplied
  BY <1>1 DEF IInv, ExactInv, TypeInv, TypeOK
<1>3. ASSUME NEW result, Panic(result) PROVE ExactInv'
  <2>1. InNanos(total)' = due'
    BY <1>2, <1>3 DEF Panic, InNanos
  <2> QED BY <1>3, <2>1 DEF Panic, ExactInv
<1>4. CASE AddShipping
  <2>1. CASE ~MustPanics(Sum(total, shipping))
    <3>1. /\ pc = "shipping" /\ total' = Sum(total, shipping).amount
          /\ due' = InNanos(shipping) /\ NextItem(1) /\ UNCHANGED items
      BY <1>4, <2>1 DEF AddShipping, Panic
    <3>2. total = ZeroTotal /\ shipping \in Amounts /\ InNanos(shipping) \in Nat
      BY <3>1, PriceFacts DEF IInv, TypeInv, TypeOK, Untouched
    <3>3. InNanos(total') = InNanos(total) + InNanos(shipping)
      BY <1>2, <2>1, <3>1, <3>2, SumNonNegative
    <3>4. InNanos(total)' = due'
      BY <3>1, <3>2, <3>3, ZeroTotalFacts DEF InNanos
    <3> QED BY <1>1, <3>1, <3>4, NextItemExact DEF IInv, ExactInv
  <2> QED BY <1>3, <1>4, <2>1 DEF AddShipping
<1>5. CASE Multiply
  <2>1. CASE ~MustPanics(Sum(out, Cost))
    <3>1. UNCHANGED <<total, due, pc>> /\ pc = "multiply"
      BY <1>5, <2>1 DEF Multiply, Panic
    <3>2. InNanos(total)' = due'
      BY <1>2, <3>1 DEF InNanos
    <3> QED BY <1>1, <1>5, <2>1, <3>2, MultiplyExact DEF ExactInv
  <2> QED BY <1>3, <1>5, <2>1 DEF Multiply
<1>6. CASE AddItem
  <2>1. CASE ~MustPanics(Sum(total, out))
    <3>1. /\ total' = Sum(total, out).amount /\ pc = "multiply" /\ n <= 1
          /\ due' = due + Quantity * InNanos(Cost)
          /\ NextItem(i + 1) /\ UNCHANGED items
      BY <1>6, <2>1 DEF AddItem, Panic
    <3>2. /\ n = 1 /\ Multiplied /\ Quantity \in Nat /\ InNanos(Cost) \in Nat
          /\ i + 1 \in Nat \ {0}
      BY <1>2, <3>1, ItemFacts, OrderTotalAssumption
         DEF IInv, TypeInv, TypeOK, Quantity, Cost
    <3>3. InNanos(out) = Quantity * InNanos(Cost) /\ Quantity * InNanos(Cost) \in Nat
      BY <3>2 DEF Multiplied
    <3>4. InNanos(total') = InNanos(total) + InNanos(out)
      BY <1>2, <2>1, <3>1, <3>3, SumNonNegative
    <3>5. InNanos(total)' = due'
      BY <1>2, <3>1, <3>3, <3>4 DEF InNanos
    <3> QED BY <1>1, <3>1, <3>2, <3>5, NextItemExact DEF IInv, ExactInv
  <2> QED BY <1>3, <1>6, <2>1 DEF AddItem
<1>7. CASE UNCHANGED vars
  <2>1. InNanos(total)' = InNanos(total) /\ Quantity' = Quantity
        /\ InNanos(out)' = InNanos(out) /\ InNanos(Cost)' = InNanos(Cost)
    BY <1>7 DEF vars, InNanos, Quantity, Cost
  <2> QED BY <1>2, <1>7, <2>1 DEF vars, ExactInv, Multiplied
<1> QED BY <1>4, <1>5, <1>6, <1>7 DEF Next

(***************************************************************************)
(* For any prices, quantities, order length and modulus, the total never   *)
(* departs from the exact sum of what has been added to it.                *)
(***************************************************************************)
THEOREM TotalIsExact == Spec => []TotalExact
<1>1. Init => IInv
  <2> SUFFICES ASSUME Init PROVE ExactInv
    BY TypeInvInit DEF IInv
  <2> QED BY ZeroTotalFacts DEF Init, ExactInv
<1>2. IInv => TotalExact
  BY DEF IInv, ExactInv, TotalExact
<1> QED BY <1>1, <1>2, IInvStep, PTL DEF Spec

-----------------------------------------------------------------------------
(***************************************************************************)
(* Why an ordinary order does not panic.  Once the shipping cost is in it, *)
(* the total has whole units, and to those Sum adds any valid amount.  The *)
(* multiplied cost has whole units too, or is still worth what it began    *)
(* with: nothing, or half a unit or more, which the next addition makes a  *)
(* whole one.                                                              *)
(***************************************************************************)
Whole(m) == IsValid(m) /\ m.units >= 1 /\ m.nanos >= 0

NoFraction == shipping.units # 0 /\ \A k \in DOMAIN items : ~CheapPair(items[k])

OutFine ==
    \/ Whole(out)
    \/ /\ Cost.units = 0 /\ out.units = 0
       /\ out.nanos = Cost.nanos /\ IsValid(out)

OutCounted == pc = "multiply" => n <= Quantity /\ InNanos(out) >= 0

TotalWhole ==
    shipping.units >= 1 /\ pc \in {"multiply", "totalled"} => Whole(total)

NoPanic == NoFraction => pc # "panicked" /\ (pc = "multiply" => OutFine)

PanicInv == TypeInv /\ OutCounted /\ TotalWhole /\ NoPanic

LEMMA PriceValid ==
    ASSUME NEW p \in Prices
    PROVE  /\ p \in Amounts /\ IsValid(p) /\ p.units \in Nat /\ p.nanos \in Nat
           /\ p.nanos < NanosMod
<1>1. p \in Amounts /\ IsValid(p) /\ p.units >= 0 /\ p.nanos >= 0
  BY OrderTotalAssumption
<1> QED BY <1>1, MoneyAssumption DEF Amounts, IsValid, ValidNanos

\* Sum does not fail for valid amounts of one currency.
LEMMA SumSucceeds ==
    ASSUME NEW l \in Amounts, NEW r \in Amounts, IsValid(l), IsValid(r),
           l.currency = r.currency
    PROVE  ~MustPanics(Sum(l, r))
  BY DEF MustPanics, Sum

LEMMA SumCommutes ==
    ASSUME NEW l \in Amounts, NEW r \in Amounts, l.currency = r.currency
    PROVE  Sum(l, r) = Sum(r, l)
<1>1. l.units + r.units = r.units + l.units /\ l.nanos + r.nanos = r.nanos + l.nanos
  BY DEF Amounts
<1>2. Added(l, r) = Added(r, l)
  BY <1>1 DEF Added
<1> QED BY <1>2 DEF Sum

LEMMA WholePlus ==
    ASSUME NEW l \in Amounts, NEW r \in Amounts, l.currency = r.currency,
           Whole(l), IsValid(r), r.units >= 0, r.nanos >= 0
    PROVE  ~MustPanics(Sum(l, r)) /\ Whole(Sum(l, r).amount)
  BY SumSucceeds, SumOfWholeUnitsValid DEF Whole

\* Two halves of a unit, or more, make a whole one.
LEMMA HalvesMakeWhole ==
    ASSUME NEW l \in Amounts, NEW r \in Amounts, l.currency = r.currency,
           IsValid(l), IsValid(r), l.units = 0, r.units = 0,
           l.nanos = r.nanos, 2 * r.nanos >= NanosMod
    PROVE  Whole(Sum(l, r).amount)
<1>1. /\ r.nanos \in Int /\ r.nanos <= NanosMod - 1 /\ NanosMod \in Nat \ {0, 1}
      /\ Int32Half \in Nat /\ 2 * NanosMod <= Int32Half
  BY MoneyAssumption DEF Amounts, IsValid, ValidNanos
<1>2. /\ l.units + r.units = 0
      /\ Int32(l.nanos + r.nanos) = 2 * r.nanos
  BY <1>1, NanosFit
<1>3. ~SameSign(0, 2 * r.nanos)
  BY <1>1 DEF SameSign
<1>4. Added(l, r) = Borrowed(0, 2 * r.nanos, l.currency)
  BY <1>2, <1>3 DEF Added
<1>5. 2 * r.nanos - NanosMod \in 0 .. NanosMod - 2
  BY <1>1
<1>6. Int32(2 * r.nanos - NanosMod) = 2 * r.nanos - NanosMod
  BY <1>1, <1>5 DEF Int32
<1>7. Added(l, r).units = 1 /\ Added(l, r).nanos \in 0 .. NanosMod - 2
  BY <1>4, <1>5, <1>6 DEF Borrowed
<1>8. Whole(Added(l, r))
  BY <1>1, <1>7 DEF Whole, IsValid, ValidNanos, SignMatches
<1> QED BY <1>8 DEF Sum

LEMMA NothingStays ==
    ASSUME NEW l \in Amounts, NEW r \in Amounts, l.currency = r.currency,
           IsValid(l), IsValid(r), l.units = 0, r.units = 0,
           l.nanos = 0, r.nanos = 0
    PROVE  LET sum == Sum(l, r).amount
           IN  sum.units = 0 /\ sum.nanos = 0 /\ IsValid(sum)
<1>1. NanosMod \in Nat \ {0, 1} /\ Int32Half \in Nat /\ Int32Half > 0
  BY MoneyAssumption
<1>2. Int32(0) = 0 /\ SameSign(0, 0)
  BY <1>1 DEF Int32, SameSign
<1>3. Added(l, r) = Carried(0, 0, l.currency)
  BY <1>2 DEF Added
<1>4. InNanos(Carried(0, 0, l.currency)) = 0 /\ IsValid(Carried(0, 0, l.currency))
      /\ Carried(0, 0, l.currency).units \in Int /\ Carried(0, 0, l.currency).nanos \in Int
  BY <1>1, <1>2, CarriedExact
<1>5. 0 \div NanosMod = 0
  BY <1>1, SmallQuotient
<1>6. Carried(0, 0, l.currency).units = 0 /\ Carried(0, 0, l.currency).nanos = 0
  BY <1>1, <1>5 DEF Carried, Quotient, Remainder
<1> QED BY <1>3, <1>4, <1>6 DEF Sum

\* Going on to item k, or to the end of the loop.
LEMMA NextItemFine ==
    ASSUME TypeInv, NEW k \in Nat \ {0}, NextItem(k), UNCHANGED items
    PROVE  OutCounted' /\ pc' # "panicked" /\ (pc' = "multiply" => OutFine')
<1>1. items \in Seq(OrderItems) /\ Len(items) \in Nat /\ DOMAIN items = 1 .. Len(items)
  BY DEF TypeInv, TypeOK
<1>2. pc' \in {"multiply", "totalled"}
  BY DEF NextItem
<1> SUFFICES ASSUME pc' = "multiply"
             PROVE  (n <= Quantity)' /\ (InNanos(out) >= 0)' /\ OutFine'
  BY <1>2 DEF OutCounted
<1>3. k \in DOMAIN items /\ i' = k /\ n' = items[k].quantity /\ out' = items[k].cost
  BY <1>1 DEF NextItem
<1>4. /\ Quantity' = items[k].quantity /\ Cost' = out'
  BY <1>3 DEF Quantity, Cost
<1>5. items[k].cost \in Prices /\ items[k].quantity \in Nat /\ InNanos(out') \in Nat
  BY <1>1, <1>3, ItemFacts
<1>6. IsValid(out') /\ out'.units \in Nat /\ out'.nanos \in Nat
  BY <1>3, <1>5, PriceValid
<1>7. OutFine'
  BY <1>4, <1>6 DEF OutFine, Whole, IsValid, SignMatches, ValidNanos
<1>8. (InNanos(out) >= 0)'
  BY <1>5 DEF InNanos
<1> QED BY <1>3, <1>4, <1>5, <1>7, <1>8

\* The shipping cost starts the total.
LEMMA AddShippingFine ==
    ASSUME PanicInv, AddShipping
    PROVE  /\ TotalWhole'
           /\ OutCounted'
           /\ NoPanic'
<1>1. /\ pc = "shipping" /\ total = ZeroTotal /\ shipping \in Prices
      /\ shipping \in Amounts /\ shipping.currency = UserCurrency
      /\ shipping' = shipping /\ items' = items
  BY PriceFacts DEF AddShipping, Panic, PanicInv, TypeInv, TypeOK, Untouched
<1>2. IsValid(shipping) /\ shipping.units \in Nat /\ shipping.nanos \in Nat
  BY <1>1, PriceValid
<1>3. ZeroTotal \in Amounts /\ ZeroTotal.currency = UserCurrency
      /\ ZeroTotal.units = 0 /\ ZeroTotal.nanos = 0
  BY ZeroTotalFacts DEF ZeroTotal
<1>4. IsValid(ZeroTotal)
  BY <1>3, MoneyAssumption DEF IsValid, SignMatches, ValidNanos
<1>5. ~MustPanics(Sum(total, shipping))
  BY <1>1, <1>2, <1>3, <1>4, SumSucceeds
<1>6. /\ total' = Sum(total, shipping).amount /\ NextItem(1)
  BY <1>5 DEF AddShipping, Panic
<1>7. shipping.units >= 1 => Whole(total')
  BY <1>1, <1>2, <1>3, <1>4, <1>6, SumCommutes, WholePlus DEF Whole
<1>8. OutCounted' /\ pc' # "panicked" /\ (pc' = "multiply" => OutFine')
  BY <1>1, <1>6, NextItemFine DEF PanicInv
<1>9. TotalWhole'
  BY <1>1, <1>7 DEF TotalWhole, Whole, IsValid, SignMatches, ValidNanos
<1> QED BY <1>8, <1>9 DEF NoPanic

\* One more addition of the cost, if what came before is fine.
LEMMA MultiplyFine ==
    ASSUME PanicInv, NoFraction, pc = "multiply", n > 1
    PROVE  /\ ~MustPanics(Sum(out, Cost))
           /\ \/ Whole(Sum(out, Cost).amount)
              \/ LET sum == Sum(out, Cost).amount
                 IN  /\ Cost.units = 0 /\ sum.units = 0
                     /\ sum.nanos = Cost.nanos /\ IsValid(sum)
<1>1. /\ items \in Seq(OrderItems) /\ i \in DOMAIN items /\ OutFine
      /\ out \in Amounts /\ out.currency = UserCurrency
      /\ n \in Nat /\ n <= Quantity
  BY OrderTotalAssumption DEF PanicInv, TypeInv, TypeOK, OutCounted, NoPanic
<1>2. Cost \in Prices /\ Cost \in Amounts /\ Cost.currency = UserCurrency
      /\ Quantity \in Nat
  BY <1>1, ItemFacts DEF Cost, Quantity
<1>3. IsValid(Cost) /\ Cost.units \in Nat /\ Cost.nanos \in Nat /\ NanosMod \in Nat
  BY <1>2, PriceValid, MoneyAssumption
<1>4. IsValid(out)
  BY <1>1 DEF OutFine, Whole
<1>5. ~MustPanics(Sum(out, Cost))
  BY <1>1, <1>2, <1>3, <1>4, SumSucceeds
<1>6. CASE Whole(out)
  BY <1>1, <1>2, <1>3, <1>6, WholePlus
<1>7. CASE Cost.units = 0 /\ out.units = 0 /\ out.nanos = Cost.nanos
  <2>1. ~CheapPair(items[i]) /\ Quantity >= 2
    BY <1>1, <1>2 DEF NoFraction
  <2>2. Cost.nanos = 0 \/ 2 * Cost.nanos >= NanosMod
    BY <1>2, <1>3, <1>7, <2>1 DEF CheapPair, Cost, Quantity
  <2>3. CASE Cost.nanos = 0
    BY <1>1, <1>2, <1>3, <1>4, <1>5, <1>7, <2>3, NothingStays
  <2>4. CASE 2 * Cost.nanos >= NanosMod
    BY <1>1, <1>2, <1>3, <1>4, <1>5, <1>7, <2>4, HalvesMakeWhole
  <2> QED BY <2>2, <2>3, <2>4
<1> QED BY <1>1, <1>6, <1>7 DEF OutFine

\* The total takes the multiplied cost, unless Sum refuses that.
LEMMA AddItemFine ==
    ASSUME PanicInv, pc = "multiply", ~MustPanics(Sum(total, out)), shipping.units >= 1
    PROVE  Whole(Sum(total, out).amount)
<1>1. /\ total \in Amounts /\ out \in Amounts /\ total.currency = out.currency
      /\ Whole(total) /\ InNanos(out) >= 0
  BY DEF PanicInv, TypeInv, TypeOK, OutCounted, TotalWhole
<1>2. IsValid(out)
  BY <1>1, SumAccepted
<1>3. out.units >= 0 /\ out.nanos >= 0
  BY <1>1, <1>2, NotNegative
<1> QED BY <1>1, <1>2, <1>3, WholePlus

LEMMA PanicInvStep == PanicInv /\ [Next]_vars => PanicInv'
<1> SUFFICES ASSUME PanicInv, [Next]_vars
             PROVE  OutCounted' /\ TotalWhole' /\ NoPanic'
  BY TypeInvStep DEF PanicInv
<1>1. ASSUME NEW result, Panic(result), ~NoFraction
      PROVE  OutCounted' /\ TotalWhole' /\ NoPanic'
  BY <1>1 DEF Panic, OutCounted, TotalWhole, NoPanic, NoFraction, CheapPair
<1>2. shipping \in Prices /\ shipping.units \in Nat
  BY PriceValid DEF PanicInv, TypeInv, TypeOK
<1>3. CASE AddShipping
  BY <1>3, AddShippingFine
<1>4. CASE Multiply
  <2>1. pc = "multiply" /\ n > 1 /\ i \in DOMAIN items /\ items \in Seq(OrderItems)
        /\ n \in Nat /\ n <= Quantity /\ InNanos(out) >= 0 /\ out \in Amounts
    BY <1>4, OrderTotalAssumption DEF Multiply, PanicInv, TypeInv, TypeOK, OutCounted
  <2>2. CASE MustPanics(Sum(out, Cost))
    <3>1. ~NoFraction
      BY <2>1, <2>2, MultiplyFine
    <3> QED BY <1>1, <1>4, <2>2, <3>1 DEF Multiply
  <2>3. CASE ~MustPanics(Sum(out, Cost))
    <3>1. /\ out' = Sum(out, Cost).amount /\ n' = n - 1
          /\ UNCHANGED <<shipping, items, pc, i, total>>
      BY <1>4, <2>3 DEF Multiply, Panic
    <3>2. Quantity' = Quantity /\ Cost' = Cost /\ (NoFraction' <=> NoFraction)
      BY <3>1 DEF Quantity, Cost, NoFraction, CheapPair
    <3>3. Cost \in Amounts /\ InNanos(Cost) \in Nat /\ Quantity \in Nat
      BY <2>1, ItemFacts DEF Cost, Quantity
    <3>4. InNanos(out') = InNanos(out) + InNanos(Cost)
      BY <2>1, <2>3, <3>1, <3>3, SumNonNegative
    <3>5. InNanos(out) \in Int
      BY <2>1, MoneyAssumption DEF InNanos, Amounts
    <3>6. (InNanos(out) >= 0)'
      BY <2>1, <3>3, <3>4, <3>5 DEF InNanos
    <3>7. OutCounted'
      BY <2>1, <3>1, <3>2, <3>3, <3>6 DEF OutCounted
    <3>8. TotalWhole'
      BY <3>1 DEF PanicInv, TotalWhole, Whole, IsValid, SignMatches, ValidNanos
    <3>9. NoPanic'
      <4> SUFFICES ASSUME NoFraction PROVE OutFine'
        BY <2>1, <3>1, <3>2 DEF NoPanic
      <4>1. CASE Whole(out')
        BY <4>1 DEF OutFine, Whole, IsValid, SignMatches, ValidNanos
      <4>2. CASE Cost.units = 0 /\ out'.units = 0 /\ out'.nanos = Cost.nanos /\ IsValid(out')
        BY <3>2, <4>2 DEF OutFine, IsValid, SignMatches, ValidNanos
      <4> QED BY <2>1, <3>1, <4>1, <4>2, MultiplyFine
    <3> QED BY <3>7, <3>8, <3>9
  <2> QED BY <2>2, <2>3
<1>5. CASE AddItem
  <2>1. pc = "multiply" /\ total \in Amounts /\ out \in Amounts
        /\ total.currency = out.currency /\ i + 1 \in Nat \ {0}
    BY <1>5 DEF AddItem, PanicInv, TypeInv, TypeOK
  <2>2. CASE MustPanics(Sum(total, out))
    <3>1. SUFFICES ASSUME NoFraction PROVE FALSE
      BY <1>1, <1>5, <2>2 DEF AddItem
    <3>2. Whole(total)
      BY <1>2, <2>1, <3>1 DEF NoFraction, PanicInv, TotalWhole
    <3>3. IsValid(out)
      BY <2>1, <3>1 DEF PanicInv, NoPanic, OutFine, Whole
    <3> QED BY <2>1, <2>2, <3>2, <3>3, SumSucceeds DEF Whole
  <2>3. CASE ~MustPanics(Sum(total, out))
    <3>1. /\ total' = Sum(total, out).amount /\ NextItem(i + 1)
          /\ UNCHANGED <<shipping, items>>
      BY <1>5, <2>3 DEF AddItem, Panic
    <3>2. shipping.units >= 1 => Whole(total')
      BY <2>1, <2>3, <3>1, AddItemFine
    <3>3. OutCounted' /\ pc' # "panicked" /\ (pc' = "multiply" => OutFine')
      BY <2>1, <3>1, NextItemFine DEF PanicInv
    <3>4. TotalWhole'
      BY <3>1, <3>2 DEF TotalWhole, Whole, IsValid, SignMatches, ValidNanos
    <3> QED BY <3>3, <3>4 DEF NoPanic
  <2> QED BY <2>2, <2>3
<1>6. CASE UNCHANGED vars
  <2>1. /\ Quantity' = Quantity /\ Cost' = Cost /\ InNanos(out)' = InNanos(out)
        /\ (NoFraction' <=> NoFraction) /\ Whole(total)' = Whole(total)
        /\ (OutFine' <=> OutFine)
    BY <1>6 DEF vars, Quantity, Cost, InNanos, NoFraction, CheapPair, Whole, IsValid,
                SignMatches, ValidNanos, OutFine
  <2> QED BY <1>6, <2>1 DEF vars, PanicInv, OutCounted, TotalWhole, NoPanic
<1> QED BY <1>3, <1>4, <1>5, <1>6 DEF Next

(***************************************************************************)
(* For any prices, quantities, order length and modulus: money.Must takes  *)
(* the process down only over a shipping cost below one unit or a cheap    *)
(* item bought at least twice, and a charge that includes a whole unit of  *)
(* shipping is a valid amount.                                             *)
(***************************************************************************)
THEOREM OnlyFractionsPanic == Spec => []PanicOnlyOnFractions
<1>1. Init => PanicInv
  BY TypeInvInit DEF Init, PanicInv, OutCounted, TotalWhole, NoPanic
<1>2. PanicInv => PanicOnlyOnFractions
  BY DEF PanicInv, PanicOnlyOnFractions, TotalWhole, NoPanic, NoFraction, Whole
<1> QED BY <1>1, <1>2, PanicInvStep, PTL DEF Spec

-----------------------------------------------------------------------------
(***************************************************************************)
(* Sums over the items, as the page reduces them.  What a recursive        *)
(* function computes follows from the least element of a set of naturals.  *)
(***************************************************************************)
LEMMA Induction ==
    ASSUME NEW T \in SUBSET Nat, 0 \in T, \A k \in T : k + 1 \in T
    PROVE  T = Nat
<1> DEFINE rest == Nat \ T
<1> SUFFICES ASSUME rest # {} PROVE FALSE
  OBVIOUS
<1>1. PICK m \in rest : \A k \in rest : <<k, m>> \notin OpToRel(<, Nat)
  BY NatLessThanWellFounded, WFMin
<1>2. m # 0 /\ m - 1 \in Nat
  OBVIOUS
<1>3. <<m - 1, m>> \in OpToRel(<, Nat)
  BY <1>2 DEF OpToRel
<1>4. m - 1 \in T
  BY <1>1, <1>2, <1>3
<1> QED
  BY <1>2, <1>4

IsSum(f, cost, len) ==
    f = [k \in 0 .. len |-> IF k = 0 THEN 0 ELSE f[k - 1] + cost[k]]

LEMMA SumExists ==
    ASSUME NEW cost, NEW len \in Nat
    PROVE  \E f : IsSum(f, cost, len)
<1> DEFINE T == {k \in Nat : \E f : IsSum(f, cost, k)}
<1>1. 0 \in T
  <2>1. IsSum([k \in 0 .. 0 |-> 0], cost, 0)
    BY DEF IsSum
  <2> QED
    BY <2>1
<1>2. ASSUME NEW k \in T PROVE k + 1 \in T
  <2>1. PICK f : IsSum(f, cost, k)
    OBVIOUS
  <2> DEFINE g == [j \in 0 .. k + 1 |-> IF j = k + 1 THEN f[k] + cost[k + 1] ELSE f[j]]
  <2>2. \A j \in 0 .. k : f[j] = IF j = 0 THEN 0 ELSE f[j - 1] + cost[j]
    BY <2>1, Zenon DEF IsSum
  <2>3. ASSUME NEW j \in 0 .. k + 1
        PROVE  g[j] = IF j = 0 THEN 0 ELSE g[j - 1] + cost[j]
    <3>1. CASE j = k + 1
      BY <3>1
    <3>2. CASE j # k + 1
      <4>1. j \in 0 .. k /\ (j # 0 => j - 1 \in 0 .. k + 1 /\ j - 1 # k + 1)
        BY <3>2
      <4> QED
        BY <2>2, <4>1
    <3> QED
      BY <3>1, <3>2
  <2>4. IsSum(g, cost, k + 1)
    <3> HIDE DEF T
    <3> SUFFICES g = [j \in 0 .. k + 1 |-> IF j = 0 THEN 0 ELSE g[j - 1] + cost[j]]
      BY DEF IsSum
    <3> QED
      BY <2>3
  <2> HIDE DEF g
  <2> QED
    BY <2>4
<1> HIDE DEF T
<1>3. T = Nat
  <2>1. T \in SUBSET Nat
    BY DEF T
  <2> QED
    BY <1>1, <1>2, <2>1, Induction
<1> QED
  BY <1>3 DEF T

LEMMA SumUnique ==
    ASSUME NEW cost, NEW m \in Nat, NEW len \in Nat, m <= len,
           NEW f, NEW g, IsSum(f, cost, m), IsSum(g, cost, len)
    PROVE  f[m] = g[m]
<1> DEFINE T == {k \in Nat : k <= m => f[k] = g[k]}
<1>1. /\ \A k \in 0 .. m : f[k] = IF k = 0 THEN 0 ELSE f[k - 1] + cost[k]
      /\ \A k \in 0 .. len : g[k] = IF k = 0 THEN 0 ELSE g[k - 1] + cost[k]
  BY Zenon DEF IsSum
<1>2. 0 \in T
  BY <1>1
<1>3. ASSUME NEW k \in T PROVE k + 1 \in T
  BY <1>1
<1>4. T = Nat
  <2> HIDE DEF T
  <2>1. T \in SUBSET Nat
    BY DEF T
  <2> QED
    BY <1>2, <1>3, <2>1, Induction
<1> QED
  BY <1>4

LEMMA SumValues ==
    ASSUME NEW cost, NEW len \in Nat, NEW f, IsSum(f, cost, len)
    PROVE  \A k \in 0 .. len : f[k] = IF k = 0 THEN 0 ELSE f[k - 1] + cost[k]
  BY Zenon DEF IsSum

\* The equations by which a sum is computed.
LEMMA SumEquations ==
    ASSUME NEW cost
    PROVE  /\ SumUpTo(cost, 0) = 0
           /\ \A len \in Nat : SumUpTo(cost, len + 1) = SumUpTo(cost, len) + cost[len + 1]
<1> DEFINE s(len) == CHOOSE f : IsSum(f, cost, len)
<1>1. ASSUME NEW len \in Nat
      PROVE  \E f : IsSum(f, cost, len) /\ SumUpTo(cost, len) = f[len]
  <2>1. IsSum(s(len), cost, len)
    BY SumExists
  <2>2. SumUpTo(cost, len) = s(len)[len]
    BY DEF SumUpTo, IsSum
  <2> QED
    BY <2>1, <2>2
<1>2. SumUpTo(cost, 0) = 0
  <2>1. PICK f : IsSum(f, cost, 0) /\ SumUpTo(cost, 0) = f[0]
    BY <1>1
  <2>2. f[0] = 0
    BY <2>1, SumValues
  <2> QED
    BY <2>1, <2>2
<1>3. ASSUME NEW len \in Nat, NEW m \in Nat, m = len + 1
      PROVE  SumUpTo(cost, m) = SumUpTo(cost, len) + cost[m]
  <2>1. len <= m /\ m \in 0 .. m /\ m # 0 /\ m - 1 = len
    BY <1>3
  <2>2. PICK f : IsSum(f, cost, len) /\ SumUpTo(cost, len) = f[len]
    BY <1>1
  <2>3. PICK g : IsSum(g, cost, m) /\ SumUpTo(cost, m) = g[m]
    BY <1>1
  <2>4. g[m] = g[m - 1] + cost[m]
    BY <2>1, <2>3, SumValues
  <2>5. g[m] = g[len] + cost[m]
    BY <2>1, <2>4
  <2>6. f[len] = g[len]
    BY <2>1, <2>2, <2>3, SumUnique
  <2> QED
    BY <2>2, <2>3, <2>5, <2>6
<1> QED
  BY <1>2, <1>3

\* Sums of integers, and of naturals.
LEMMA SumTypes ==
    ASSUME NEW m \in Nat, NEW cost \in [1 .. m -> Int]
    PROVE  /\ SumUpTo(cost, m) \in Int
           /\ (\A k \in 1 .. m : cost[k] >= 0) => SumUpTo(cost, m) >= 0
<1> DEFINE T == {k \in Nat : k <= m =>
                    /\ SumUpTo(cost, k) \in Int
                    /\ (\A j \in 1 .. m : cost[j] >= 0) => SumUpTo(cost, k) >= 0}
<1>1. 0 \in T
  BY SumEquations
<1>2. ASSUME NEW k \in T PROVE k + 1 \in T
  <2>1. SumUpTo(cost, k + 1) = SumUpTo(cost, k) + cost[k + 1]
    BY SumEquations
  <2> QED
    BY <2>1
<1>3. T = Nat
  <2>1. T \in SUBSET Nat
    OBVIOUS
  <2> HIDE DEF T
  <2> QED
    BY <1>1, <1>2, <2>1, Induction
<1> QED
  BY <1>3

LEMMA SumTypesWithin ==
    ASSUME NEW m \in Nat, NEW cost \in [1 .. m -> Int], NEW len \in 0 .. m
    PROVE  SumUpTo(cost, len) \in Int
<1> DEFINE T == {k \in Nat : k <= m => SumUpTo(cost, k) \in Int}
<1>1. 0 \in T
  BY SumEquations
<1>2. ASSUME NEW k \in T PROVE k + 1 \in T
  <2>1. SumUpTo(cost, k + 1) = SumUpTo(cost, k) + cost[k + 1]
    BY SumEquations
  <2> QED
    BY <2>1
<1>3. T = Nat
  <2>1. T \in SUBSET Nat
    OBVIOUS
  <2> HIDE DEF T
  <2> QED
    BY <1>1, <1>2, <2>1, Induction
<1> QED
  BY <1>3

\* What is worth so many units and nanos, and the rest, adds up so.
Worth(k, worth, base, units, nanos, rest) ==
    worth[k] = units[k] * base + nanos[k] + rest[k]

LEMMA Distributes ==
    ASSUME NEW base \in Int, NEW u \in Int, NEW du \in Int
    PROVE  u * base + du * base = (u + du) * base /\ u * base \in Int
OBVIOUS

LEMMA AddsUp ==
    ASSUME NEW p \in Int, NEW f \in Int, NEW r \in Int,
           NEW dp \in Int, NEW df \in Int, NEW dr \in Int,
           NEW w, w = (p + f + r) + (dp + df + dr)
    PROVE  w = (p + dp) + (f + df) + (r + dr)
OBVIOUS

Splits(m, worth, base, units, nanos, rest) ==
    /\ m \in Nat /\ base \in Int
    /\ units \in [1 .. m -> Int] /\ nanos \in [1 .. m -> Int]
    /\ rest \in [1 .. m -> Int] /\ worth \in [1 .. m -> Int]
    /\ \A k \in 1 .. m : Worth(k, worth, base, units, nanos, rest)

SumsSplit(m, worth, base, units, nanos, rest) ==
    SumUpTo(worth, m) =
        SumUpTo(units, m) * base + SumUpTo(nanos, m) + SumUpTo(rest, m)

LEMMA SumsAddUp ==
    ASSUME NEW m, NEW worth, NEW base, NEW units, NEW nanos, NEW rest,
           Splits(m, worth, base, units, nanos, rest)
    PROVE  SumsSplit(m, worth, base, units, nanos, rest)
<1>0. /\ m \in Nat /\ base \in Int
      /\ units \in [1 .. m -> Int] /\ nanos \in [1 .. m -> Int]
      /\ rest \in [1 .. m -> Int] /\ worth \in [1 .. m -> Int]
      /\ \A k \in 1 .. m : Worth(k, worth, base, units, nanos, rest)
  BY DEF Splits
<1> DEFINE Typed(k) == /\ SumUpTo(units, k) \in Int /\ SumUpTo(nanos, k) \in Int
                       /\ SumUpTo(rest, k) \in Int
           Adds(k) == SumUpTo(worth, k) = SumUpTo(units, k) * base
                                             + SumUpTo(nanos, k) + SumUpTo(rest, k)
           T == {k \in Nat : k <= m => Typed(k) /\ Adds(k)}
<1>1. 0 \in T
  BY <1>0, SumEquations
<1>2. ASSUME NEW k \in Nat, k + 1 <= m, Typed(k), Adds(k)
      PROVE  Typed(k + 1) /\ Adds(k + 1)
  <2>1. k + 1 \in 1 .. m
    BY <1>0, <1>2
  <2>2. PICK u : u = SumUpTo(units, k)
    OBVIOUS
  <2>3. PICK f : f = SumUpTo(nanos, k)
    OBVIOUS
  <2>4. PICK r : r = SumUpTo(rest, k)
    OBVIOUS
  <2>5. /\ u \in Int /\ f \in Int /\ r \in Int
        /\ units[k + 1] \in Int /\ nanos[k + 1] \in Int /\ rest[k + 1] \in Int
    BY <1>0, <1>2, <2>1, <2>2, <2>3, <2>4
  <2>6. /\ SumUpTo(units, k + 1) = u + units[k + 1]
        /\ SumUpTo(nanos, k + 1) = f + nanos[k + 1]
        /\ SumUpTo(rest, k + 1) = r + rest[k + 1]
    BY <1>2, <2>2, <2>3, <2>4, SumEquations
  <2>7. Typed(k + 1)
    <3>1. \A x, y \in Int : x + y \in Int
      OBVIOUS
    <3> QED
      BY <2>5, <2>6, <3>1, Zenon
  <2>8. SumUpTo(worth, k + 1) =
            (u * base + f + r)
                + (units[k + 1] * base + nanos[k + 1] + rest[k + 1])
    <3>1. SumUpTo(worth, k + 1) = SumUpTo(worth, k) + worth[k + 1]
      BY <1>2, SumEquations
    <3>2. SumUpTo(worth, k) = u * base + f + r
      BY <1>2, <2>2, <2>3, <2>4
    <3>3. worth[k + 1] = units[k + 1] * base + nanos[k + 1] + rest[k + 1]
      BY <1>0, <2>1, Zenon DEF Worth
    <3> QED
      BY <3>1, <3>2, <3>3, Zenon
  <2>9. SumUpTo(worth, k + 1) =
            (u + units[k + 1]) * base + (f + nanos[k + 1]) + (r + rest[k + 1])
    <3> HIDE DEF Typed, Adds
    <3>1. /\ u * base + units[k + 1] * base = (u + units[k + 1]) * base
          /\ u * base \in Int /\ units[k + 1] * base \in Int
      BY <1>0, <2>5, Distributes
    <3>2. ASSUME NEW p, NEW dp, NEW df, NEW dr, p = u * base,
                 dp = units[k + 1] * base, df = nanos[k + 1], dr = rest[k + 1]
          PROVE  SumUpTo(worth, k + 1) = (p + dp) + (f + df) + (r + dr)
      <4>1. SumUpTo(worth, k + 1) = (p + f + r) + (dp + df + dr)
        BY <2>8, <3>2, Zenon
      <4>2. p \in Int /\ dp \in Int /\ df \in Int /\ dr \in Int
        BY <2>5, <3>1, <3>2, Zenon
      <4> QED
        BY <2>5, <4>1, <4>2, AddsUp
    <3> QED
      BY <3>1, <3>2, Zenon
  <2>10. Adds(k + 1)
    BY <2>6, <2>9, Zenon
  <2> QED
    BY <2>7, <2>10
<1>3. ASSUME NEW k \in T PROVE k + 1 \in T
  <2> HIDE DEF Typed, Adds
  <2>1. CASE k + 1 <= m
    <3>1. k \in Nat /\ k <= m
      BY <1>0, <2>1
    <3>2. Typed(k) /\ Adds(k)
      BY <3>1
    <3> QED
      BY <1>2, <2>1, <3>1, <3>2
  <2> QED
    BY <2>1
<1>4. T = Nat
  <2> HIDE DEF Typed, Adds
  <2>1. T \in SUBSET Nat
    OBVIOUS
  <2> HIDE DEF T
  <2> QED
    BY <1>1, <1>3, <2>1, Induction
<1>5. m \in T
  <2> HIDE DEF T
  <2> QED
    BY <1>0, <1>4
<1> QED
  BY <1>0, <1>5 DEF SumsSplit

-----------------------------------------------------------------------------
(***************************************************************************)
(* The page and the charge.  `due' is the shipping cost and what the items *)
(* before the one being multiplied cost, so at the end it is the sum over  *)
(* all of them, which the page adds in units and nanos apart.              *)
(***************************************************************************)
Units == [k \in DOMAIN items |-> items[k].cost.units]
Nanos == [k \in DOMAIN items |-> items[k].cost.nanos]
Beyond == [k \in DOMAIN items |-> (items[k].quantity - 1) * InNanos(items[k].cost)]
Charge == [k \in DOMAIN items |-> items[k].quantity * InNanos(items[k].cost)]

DueSoFar ==
    /\ pc = "shipping" => due = 0
    /\ pc = "multiply" => due = InNanos(shipping) + SumUpTo(Charge, i - 1)
    /\ pc = "totalled" => due = InNanos(shipping) + SumUpTo(Charge, Len(items))

PageInv == TypeInv /\ DueSoFar

\* The numbers the page and the charge are added from.
LEMMA ItemNumbers ==
    ASSUME TypeInv
    PROVE  /\ Len(items) \in Nat /\ DOMAIN items = 1 .. Len(items)
           /\ Units \in [1 .. Len(items) -> Int]
           /\ Nanos \in [1 .. Len(items) -> Int]
           /\ Beyond \in [1 .. Len(items) -> Int]
           /\ Charge \in [1 .. Len(items) -> Int]
           /\ \A k \in DOMAIN items : Units[k] >= 0 /\ Nanos[k] >= 0
<1>1. items \in Seq(OrderItems) /\ Len(items) \in Nat /\ DOMAIN items = 1 .. Len(items)
  BY DEF TypeInv, TypeOK
<1>2. ASSUME NEW k \in DOMAIN items
      PROVE  /\ items[k].cost.units \in Int /\ items[k].cost.units >= 0
             /\ items[k].cost.nanos \in Int /\ items[k].cost.nanos >= 0
             /\ InNanos(items[k].cost) \in Int /\ items[k].quantity \in Int
  BY <1>1, ItemFacts, OrderTotalAssumption DEF Amounts
<1>3. ASSUME NEW k \in DOMAIN items
      PROVE  /\ (items[k].quantity - 1) * InNanos(items[k].cost) \in Int
             /\ items[k].quantity * InNanos(items[k].cost) \in Int
  BY <1>2
<1>4. Units \in [1 .. Len(items) -> Int] /\ Nanos \in [1 .. Len(items) -> Int]
  BY <1>1, <1>2 DEF Units, Nanos
<1>5. Beyond \in [1 .. Len(items) -> Int] /\ Charge \in [1 .. Len(items) -> Int]
  BY <1>1, <1>3 DEF Beyond, Charge
<1>6. \A k \in DOMAIN items : Units[k] >= 0 /\ Nanos[k] >= 0
  BY <1>2 DEF Units, Nanos
<1> QED
  BY <1>1, <1>4, <1>5, <1>6

LEMMA NextItemDue ==
    ASSUME TypeInv, NEW k \in 1 .. Len(items) + 1, NextItem(k), UNCHANGED items,
           UNCHANGED shipping, due' = InNanos(shipping) + SumUpTo(Charge, k - 1)
    PROVE  DueSoFar'
<1>1. /\ Len(items) \in Nat /\ Charge' = Charge /\ Len(items)' = Len(items)
      /\ InNanos(shipping)' = InNanos(shipping)
  BY ItemNumbers DEF Charge, InNanos
<1>2. CASE k <= Len(items)
  <2>1. pc' = "multiply" /\ i' = k
    BY <1>2 DEF NextItem
  <2> QED
    BY <1>1, <2>1 DEF DueSoFar
<1>3. CASE ~(k <= Len(items))
  <2>1. pc' = "totalled" /\ k - 1 = Len(items)
    BY <1>1, <1>3 DEF NextItem
  <2> QED
    BY <1>1, <2>1 DEF DueSoFar
<1> QED
  BY <1>2, <1>3

LEMMA PageInvStep == PageInv /\ [Next]_vars => PageInv'
<1> SUFFICES ASSUME PageInv, [Next]_vars PROVE DueSoFar'
  BY TypeInvStep DEF PageInv
<1>1. /\ TypeInv /\ Len(items) \in Nat /\ DOMAIN items = 1 .. Len(items)
      /\ Charge \in [1 .. Len(items) -> Int]
  BY ItemNumbers DEF PageInv
<1>2. UNCHANGED <<items, shipping>>
  BY DEF Next, AddShipping, Multiply, AddItem, Panic, NextItem, vars
<1>3. Charge' = Charge /\ Len(items)' = Len(items) /\ InNanos(shipping)' = InNanos(shipping)
  BY <1>2 DEF Charge, InNanos
<1>4. ASSUME NEW result, Panic(result) PROVE DueSoFar'
  BY <1>4 DEF Panic, DueSoFar
<1>5. CASE AddShipping
  <2>1. CASE ~MustPanics(Sum(total, shipping))
    <3>1. due' = InNanos(shipping) /\ NextItem(1)
      BY <1>5, <2>1 DEF AddShipping, Panic
    <3>2. InNanos(shipping) \in Int
      BY <1>1, PriceFacts DEF TypeInv, TypeOK
    <3>3. 1 \in 1 .. Len(items) + 1 /\ SumUpTo(Charge, 1 - 1) = 0
      BY <1>1, SumEquations
    <3>4. due' = InNanos(shipping) + SumUpTo(Charge, 1 - 1)
      BY <3>1, <3>2, <3>3
    <3> QED
      BY <1>1, <1>2, <3>1, <3>3, <3>4, NextItemDue
  <2> QED
    BY <1>4, <1>5, <2>1 DEF AddShipping
<1>6. CASE Multiply
  <2>1. CASE ~MustPanics(Sum(out, Cost))
    <3>1. UNCHANGED <<due, pc, i>>
      BY <1>6, <2>1 DEF Multiply, Panic
    <3> QED
      BY <1>3, <3>1 DEF PageInv, DueSoFar
  <2> QED
    BY <1>4, <1>6, <2>1 DEF Multiply
<1>7. CASE AddItem
  <2>1. CASE ~MustPanics(Sum(total, out))
    <3>1. /\ due' = due + Quantity * InNanos(Cost) /\ pc = "multiply"
          /\ NextItem(i + 1)
      BY <1>7, <2>1 DEF AddItem, Panic
    <3>2. i \in DOMAIN items /\ i - 1 \in Nat /\ (i - 1) + 1 = i /\ i + 1 - 1 = i
          /\ i + 1 \in 1 .. Len(items) + 1
      BY <1>1, <3>1 DEF TypeInv, TypeOK
    <3>3. due = InNanos(shipping) + SumUpTo(Charge, i - 1)
      BY <3>1 DEF PageInv, DueSoFar
    <3>4. SumUpTo(Charge, i) = SumUpTo(Charge, i - 1) + Charge[i]
      BY <3>2, SumEquations
    <3>5. Charge[i] = Quantity * InNanos(Cost)
      BY <3>2 DEF Charge, Quantity, Cost
    <3>6. InNanos(shipping) \in Int /\ Charge[i] \in Int /\ SumUpTo(Charge, i - 1) \in Int
      <4>1. InNanos(shipping) \in Int
        BY <1>1, PriceFacts DEF TypeInv, TypeOK
      <4>2. Charge[i] \in Int
        BY <1>1, <3>2
      <4>3. due \in Int
        BY <1>1 DEF TypeInv, TypeOK
      <4>4. SumUpTo(Charge, i - 1) \in Int
        BY <1>1, <3>2, SumTypesWithin
      <4> QED
        BY <4>1, <4>2, <4>4
    <3>7. due' = InNanos(shipping) + SumUpTo(Charge, i + 1 - 1)
      BY <3>1, <3>2, <3>3, <3>4, <3>5, <3>6
    <3> QED
      BY <1>1, <1>2, <3>1, <3>2, <3>7, NextItemDue
  <2> QED
    BY <1>4, <1>7, <2>1 DEF AddItem
<1>8. CASE UNCHANGED vars
  BY <1>3, <1>8 DEF vars, PageInv, DueSoFar
<1> QED
  BY <1>5, <1>6, <1>7, <1>8 DEF Next

LEMMA Division ==
    ASSUME NEW b \in Nat \ {0}, NEW a \in Nat
    PROVE  /\ a \div b \in Nat
           /\ a % b \in 0 .. b - 1
           /\ a = b * (a \div b) + (a % b)
<1> DEFINE q == a \div b
           r == a % b
<1>1. q \in Int /\ r \in 0 .. b - 1 /\ a = b * q + r
  BY SMT
<1>2. r \in Int
  BY <1>1
<1> HIDE DEF q, r
<1>3. q >= 0
  <2>1. SUFFICES ASSUME q <= -1 PROVE FALSE
    BY <1>1
  <2>2. b * q <= -b
    BY <1>1, <2>1
  <2> QED
    BY <1>1, <2>2
<1>4. q \in Nat
  BY <1>1, <1>3
<1> USE DEF q, r
<1> QED
  BY <1>1, <1>4, Zenon

(***************************************************************************)
(* What the page writes is a valid amount, worth the nanos it has added.   *)
(***************************************************************************)
LEMMA PageTotalWorth ==
    ASSUME TypeInv, NEW quote \in {shipping, NoQuote}
    PROVE  /\ IsValid(PageTotal(quote))
           /\ InNanos(PageTotal(quote)) =
                  SumUpTo(Units, Len(items)) * NanosMod
                      + SumUpTo(Nanos, Len(items)) + InNanos(quote)
           /\ InNanos(quote) \in Int
<1>1. /\ quote.units \in Int /\ quote.units >= 0
      /\ quote.nanos \in Int /\ quote.nanos >= 0
  BY OrderTotalAssumption DEF NoQuote, TypeInv, TypeOK, Amounts
<1>2. /\ SumUpTo(Units, Len(items)) \in Int /\ SumUpTo(Units, Len(items)) >= 0
      /\ SumUpTo(Nanos, Len(items)) \in Int /\ SumUpTo(Nanos, Len(items)) >= 0
  BY ItemNumbers, SumTypes
<1>3. PICK u, f, su, sf : /\ su = SumUpTo(Units, Len(items))
                          /\ sf = SumUpTo(Nanos, Len(items))
                          /\ u = su + quote.units /\ f = sf + quote.nanos
  OBVIOUS
<1>4. u \in Nat /\ f \in Nat
  BY <1>1, <1>2, <1>3
<1>5. UnitSum(quote) = u /\ NanoSum(quote) = f
  BY <1>3 DEF UnitSum, NanoSum, Units, Nanos
<1>6. NanosMod \in Nat \ {0, 1}
  BY MoneyAssumption
<1>7. PICK q, r : q = f \div NanosMod /\ r = f % NanosMod
  OBVIOUS
<1>8. q \in Nat /\ r \in 0 .. NanosMod - 1 /\ f = NanosMod * q + r
  BY <1>4, <1>6, <1>7, Division
<1>9. PageTotal(quote).units = u + q /\ PageTotal(quote).nanos = r
  BY <1>5, <1>7 DEF PageTotal
<1>10. IsValid(PageTotal(quote))
  BY <1>4, <1>6, <1>8, <1>9 DEF IsValid, SignMatches, ValidNanos
<1>11. InNanos(PageTotal(quote)) = (u + q) * NanosMod + r
  BY <1>9 DEF InNanos
<1>12. (u + q) * NanosMod + r = u * NanosMod + f
  BY <1>4, <1>6, <1>8
<1>13. u * NanosMod = su * NanosMod + quote.units * NanosMod
       /\ quote.units * NanosMod \in Int /\ su * NanosMod \in Int
  <2>1. su \in Int /\ quote.units \in Int /\ NanosMod \in Int
    BY <1>1, <1>2, <1>3, <1>6
  <2> QED
    BY <1>3, <2>1, Distributes, Zenon
<1>14. InNanos(quote) = quote.units * NanosMod + quote.nanos /\ InNanos(quote) \in Int
  BY <1>1, <1>13 DEF InNanos
<1>15. InNanos(PageTotal(quote)) = su * NanosMod + sf + InNanos(quote)
  <2> DEFINE p == su * NanosMod
             v == quote.units * NanosMod
  <2>1. p \in Int /\ v \in Int /\ sf \in Int /\ InNanos(PageTotal(quote)) = p + v + f
    BY <1>2, <1>3, <1>11, <1>12, <1>13
  <2>2. InNanos(quote) = v + quote.nanos
    BY <1>14
  <2> HIDE DEF p, v
  <2>3. InNanos(PageTotal(quote)) = p + sf + InNanos(quote)
    BY <1>1, <1>3, <2>1, <2>2
  <2> QED
    BY <2>3 DEF p
<1> QED
  BY <1>3, <1>10, <1>14, <1>15, Zenon

LEMMA ShownIsCharged ==
    ASSUME TypeInv, NEW quote \in {shipping, NoQuote}
    PROVE  InNanos(PageTotal(quote)) + InNanos(shipping) - InNanos(quote) + BeyondFirst
               = InNanos(shipping) + SumUpTo(Charge, Len(items))
<1>1. \A k \in 1 .. Len(items) : Worth(k, Charge, NanosMod, Units, Nanos, Beyond)
  <2>1. SUFFICES ASSUME NEW k \in DOMAIN items
                 PROVE  Worth(k, Charge, NanosMod, Units, Nanos, Beyond)
    BY ItemNumbers
  <2>2. items[k].quantity \in Int /\ InNanos(items[k].cost) \in Int
    BY ItemFacts DEF TypeInv, TypeOK
  <2>3. items[k].quantity * InNanos(items[k].cost)
            = InNanos(items[k].cost) + (items[k].quantity - 1) * InNanos(items[k].cost)
    BY <2>2
  <2>4. /\ Charge[k] = InNanos(items[k].cost) + Beyond[k]
        /\ InNanos(items[k].cost) = Units[k] * NanosMod + Nanos[k]
    BY <2>3 DEF Charge, Beyond, Units, Nanos, InNanos
  <2> QED
    BY <2>4, Zenon DEF Worth
<1>2. SumUpTo(Charge, Len(items)) =
          SumUpTo(Units, Len(items)) * NanosMod
              + SumUpTo(Nanos, Len(items)) + SumUpTo(Beyond, Len(items))
  <2>1. /\ Len(items) \in Nat /\ NanosMod \in Int
        /\ Units \in [1 .. Len(items) -> Int] /\ Nanos \in [1 .. Len(items) -> Int]
        /\ Beyond \in [1 .. Len(items) -> Int] /\ Charge \in [1 .. Len(items) -> Int]
    BY ItemNumbers, MoneyAssumption
  <2>2. Splits(Len(items), Charge, NanosMod, Units, Nanos, Beyond)
    BY <1>1, <2>1, Zenon DEF Splits
  <2>3. SumsSplit(Len(items), Charge, NanosMod, Units, Nanos, Beyond)
    BY <2>2, SumsAddUp, Zenon
  <2> QED
    BY <2>3 DEF SumsSplit
<1>3. BeyondFirst = SumUpTo(Beyond, Len(items))
  BY DEF BeyondFirst, Beyond
<1>4. InNanos(shipping) \in Int
  BY PriceFacts DEF TypeInv, TypeOK
<1>5. /\ SumUpTo(Beyond, Len(items)) \in Int /\ SumUpTo(Nanos, Len(items)) \in Int
      /\ SumUpTo(Units, Len(items)) \in Int
  BY ItemNumbers, SumTypes
<1>6. SumUpTo(Units, Len(items)) * NanosMod \in Int
  BY <1>5, MoneyAssumption
<1> QED
  BY <1>2, <1>3, <1>4, <1>5, <1>6, PageTotalWorth

(***************************************************************************)
(* Whatever the prices and quantities, what the cart page shows is a valid *)
(* amount and differs from the charge by what the page leaves out alone.   *)
(***************************************************************************)
THEOREM PageAgreesWithCharge == Spec => []ShownTotal
<1>1. Init => PageInv
  BY TypeInvInit DEF Init, PageInv, DueSoFar
<1>2. PageInv /\ TotalExact => ShownTotal
  <2> SUFFICES ASSUME PageInv, TotalExact, NEW quote \in {shipping, NoQuote}
               PROVE  /\ IsValid(PageTotal(quote))
                      /\ pc = "totalled" /\ QuantitiesPositive =>
                             InNanos(PageTotal(quote)) + InNanos(shipping)
                                 - InNanos(quote) + BeyondFirst = InNanos(total)
    BY DEF ShownTotal
  <2>1. TypeInv /\ IsValid(PageTotal(quote))
    BY PageTotalWorth DEF PageInv
  <2>2. ASSUME pc = "totalled", QuantitiesPositive
        PROVE  InNanos(total) = InNanos(shipping) + SumUpTo(Charge, Len(items))
    BY <2>2 DEF PageInv, DueSoFar, TotalExact
  <2> QED
    BY <2>1, <2>2, ShownIsCharged
<1> QED
  BY <1>1, <1>2, PageInvStep, TotalIsExact, PTL DEF Spec

-----------------------------------------------------------------------------
(***************************************************************************)
(* Every pair of amounts.  The sum of two valid ones is invalid in one     *)
(* case alone: the borrow branch turns a fraction without units into a     *)
(* unit and nanos of the other sign, or into nanos beyond a unit.          *)
(***************************************************************************)
LEMMA ModulusBelow ==
    ASSUME NEW b \in Nat \ {0}, NEW a \in Int, -b <= a, a < 0
    PROVE  a % b = a + b
<1> DEFINE q == a \div b
           r == a % b
<1>1. q \in Int /\ r \in 0 .. b - 1 /\ a = b * q + r
  BY SMT
<1> HIDE DEF q, r
<1>2. q < 0
  <2>1. SUFFICES ASSUME q >= 0 PROVE FALSE
    BY <1>1
  <2>2. b * q >= 0
    BY <1>1, <2>1
  <2> QED
    BY <1>1, <2>2
<1>3. q > -2
  <2>1. SUFFICES ASSUME q <= -2 PROVE FALSE
    BY <1>1
  <2>2. b * q <= -(2 * b)
    BY <1>1, <2>1
  <2> QED
    BY <1>1, <2>2
<1>4. q = -1
  BY <1>1, <1>2, <1>3
<1>5. r = a + b
  BY <1>1, <1>4
<1> QED
  BY <1>5 DEF r

LEMMA BorrowedValid ==
    ASSUME NEW l \in Amounts, NEW r \in Amounts, IsValid(l), IsValid(r),
           NEW u \in Int, NEW f \in Int, NEW c, u = l.units + r.units,
           f = l.nanos + r.nanos, ~SameSign(u, f)
    PROVE  IsValid(Borrowed(u, f, c)) <=> ~(u = 0 /\ f # 0 /\ f < NanosMod)
<1>1. /\ NanosMod \in Nat \ {0, 1} /\ Int32Half \in Nat /\ 2 * NanosMod <= Int32Half
  BY MoneyAssumption
<1>2. /\ l.nanos \in Int /\ -NanosMod < l.nanos /\ l.nanos < NanosMod
      /\ r.nanos \in Int /\ -NanosMod < r.nanos /\ r.nanos < NanosMod
      /\ l.units \in Int /\ r.units \in Int
      /\ l.nanos < 0 => l.units <= 0
      /\ l.nanos > 0 => l.units >= 0
      /\ r.nanos < 0 => r.units <= 0
      /\ r.nanos > 0 => r.units >= 0
  BY <1>1 DEF Amounts, IsValid, ValidNanos, SignMatches
<1>3. CASE u > 0
  <2>1. f < 0 /\ -NanosMod < f
    BY <1>1, <1>2, <1>3 DEF SameSign
  <2>2. Int32(f + NanosMod) = f + NanosMod
    BY <1>1, <2>1 DEF Int32
  <2>3. IsValid(Borrowed(u, f, c))
    BY <1>1, <1>3, <2>1, <2>2 DEF Borrowed, IsValid, ValidNanos, SignMatches
  <2> QED
    BY <1>3, <2>3
<1>4. CASE u < 0
  <2>1. f > 0 /\ f < NanosMod
    BY <1>1, <1>2, <1>4 DEF SameSign
  <2>2. Int32(f - NanosMod) = f - NanosMod
    BY <1>1, <2>1 DEF Int32
  <2>3. IsValid(Borrowed(u, f, c))
    BY <1>1, <1>4, <2>1, <2>2 DEF Borrowed, IsValid, ValidNanos, SignMatches
  <2> QED
    BY <1>4, <2>3
<1>5. CASE u = 0 /\ f > 0
  <2>1. f < 2 * NanosMod
    BY <1>1, <1>2
  <2>2. Int32(f - NanosMod) = f - NanosMod
    BY <1>1, <1>5, <2>1 DEF Int32
  <2>3. Borrowed(u, f, c) = [units |-> 1, nanos |-> f - NanosMod, currency |-> c]
    BY <1>5, <2>2 DEF Borrowed
  <2>4. IsValid(Borrowed(u, f, c)) <=> f >= NanosMod
    BY <1>1, <1>5, <2>1, <2>3 DEF IsValid, ValidNanos, SignMatches
  <2> QED
    BY <1>1, <1>5, <2>4
<1>6. CASE u = 0 /\ f < 0
  <2>1. -(2 * NanosMod) < f
    BY <1>1, <1>2
  <2>2. Int32(f - NanosMod) \in Int
        /\ (Int32(f - NanosMod) < -NanosMod \/ Int32(f - NanosMod) > NanosMod)
    <3>1. CASE f - NanosMod >= -Int32Half
      BY <1>1, <1>6, <3>1 DEF Int32
    <3>2. CASE f - NanosMod < -Int32Half
      <4>1. (f - NanosMod + Int32Half) % (2 * Int32Half)
                = f - NanosMod + Int32Half + 2 * Int32Half
        BY <1>1, <2>1, <3>2, ModulusBelow
      <4>2. Int32(f - NanosMod) = f - NanosMod + Int32Half + 2 * Int32Half - Int32Half
        BY <1>1, <3>2, <4>1 DEF Int32
      <4> QED
        BY <1>1, <2>1, <4>2
    <3> QED
      BY <1>1, <3>1, <3>2
  <2>3. Borrowed(u, f, c).nanos = Int32(f - NanosMod)
    BY <1>6 DEF Borrowed
  <2>4. ~IsValid(Borrowed(u, f, c))
    BY <1>1, <2>2, <2>3 DEF IsValid, ValidNanos
  <2> QED
    BY <1>1, <1>6, <2>4
<1> QED
  BY <1>3, <1>4, <1>5, <1>6 DEF SameSign

LEMMA SumValid ==
    ASSUME NEW l \in Amounts, NEW r \in Amounts, IsValid(l), IsValid(r),
           l.currency = r.currency
    PROVE  IsValid(Sum(l, r).amount) <=> ~FractionAlone(l, r)
<1> DEFINE u == l.units + r.units
           f == l.nanos + r.nanos
<1>1. u \in Int /\ f \in Int
  BY DEF Amounts
<1>2. Int32(f) = f /\ f < 2 * NanosMod /\ -(2 * NanosMod) < f
  BY NanosFit
<1>3. Sum(l, r).amount = Added(l, r)
  BY DEF Sum
<1>4. CASE SameSign(u, f)
  <2>1. Added(l, r) = Carried(u, f, l.currency)
    BY <1>2, <1>4 DEF Added
  <2>2. IsValid(Carried(u, f, l.currency))
    BY <1>1, <1>2, <1>4, CarriedExact
  <2>3. ~FractionAlone(l, r)
    BY <1>1, <1>4 DEF SameSign, FractionAlone
  <2> QED
    BY <1>3, <2>1, <2>2, <2>3
<1>5. CASE ~SameSign(u, f)
  <2>1. Added(l, r) = Borrowed(u, f, l.currency)
    BY <1>2, <1>5 DEF Added
  <2>2. IsValid(Borrowed(u, f, l.currency)) <=> ~(u = 0 /\ f # 0 /\ f < NanosMod)
    BY <1>1, <1>5, BorrowedValid
  <2> QED
    BY <1>3, <2>1, <2>2, Zenon DEF FractionAlone
<1> QED
  BY <1>4, <1>5

LEMMA NegationCancels ==
    ASSUME NEW l \in Amounts, IsValid(l)
    PROVE  IsZero(Sum(l, Negate(l)).amount)
<1>1. /\ NanosMod \in Nat \ {0, 1} /\ Int32Half \in Nat \ {0}
      /\ l.units \in Int /\ l.nanos \in Int
  BY MoneyAssumption DEF Amounts
<1>2. /\ Negate(l).units = -l.units /\ Negate(l).nanos = -l.nanos
      /\ Negate(l).currency = l.currency
  BY DEF Negate, Amounts
<1>3. IsValid(Negate(l))
  BY <1>1, <1>2 DEF IsValid, ValidNanos, SignMatches
<1>4. l.units + Negate(l).units = 0 /\ Int32(l.nanos + Negate(l).nanos) = 0
  BY <1>1, <1>2 DEF Int32
<1>5. Sum(l, Negate(l)).amount = Carried(0, 0, l.currency)
  BY <1>2, <1>3, <1>4 DEF Sum, Added, SameSign
<1>6. Quotient(0, NanosMod) = 0
  BY <1>1, SmallQuotient DEF Quotient
<1> QED
  BY <1>1, <1>5, <1>6 DEF Carried, Remainder, IsZero

PairInv == left \in Amounts /\ right \in Amounts

(***************************************************************************)
(* Sum is right about every two amounts of the shop, valid or not, for any *)
(* modulus and any width of the nanos that holds two of them.              *)
(***************************************************************************)
THEOREM EveryPairSumsExactly == PairSpec => []SumIsExact
<1>1. NoAmount \in Amounts /\ Cases \subseteq Amounts
  BY MoneyCasesAssumption DEF NoAmount, Cases, Amounts
<1>2. PairInit => PairInv
  BY <1>1 DEF PairInit, PairInv
<1>3. PairInv /\ [PickRight]_pairVars => PairInv'
  BY <1>1 DEF PairInv, PickRight, pairVars
<1>4. PairInv => SumIsExact
  <2> SUFFICES ASSUME PairInv PROVE SumIsExact
    OBVIOUS
  <2>1. left \in Amounts /\ right \in Amounts
    BY DEF PairInv
  <2>2. Summed.err = "none" <=> SumAccepts
    BY DEF Summed, SumAccepts, Sum
  <2>3. SumAccepts /\ ~NanosOverflow(left, right)
            => InNanos(Summed.amount) = InNanos(left) + InNanos(right)
    BY <2>1, SumExact DEF Summed, SumAccepts
  <2>4. SumAccepts => (IsValid(Summed.amount) <=> ~FractionAlone(left, right))
    BY <2>1, SumValid DEF Summed, SumAccepts
  <2>5. SumAccepts => AreEquals(Summed.amount, Sum(right, left).amount)
    BY <2>1, SumCommutes DEF Summed, SumAccepts, AreEquals
  <2>6. SumAccepts => IsZero(Sum(left, Negate(left)).amount)
    BY <2>1, NegationCancels DEF SumAccepts
  <2> QED
    BY <2>2, <2>3, <2>4, <2>5, <2>6, Zenon DEF SumIsExact
<1> QED
  BY <1>2, <1>3, <1>4, PTL DEF PairSpec
=============================================================================
