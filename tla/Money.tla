------------------------------- MODULE Money -------------------------------
(***************************************************************************)
(* The money package of the checkout service                               *)
(* (src/src/checkout/money/money.go): amounts kept as whole units plus     *)
(* nanos, which PlaceOrder uses to add up what a card is charged.          *)
(*                                                                         *)
(* NanosMod is 10^9 in the code; the definitions hold for any modulus, so  *)
(* that small ones can be enumerated.  Nanos are an int32 and wrap around  *)
(* at Int32Half; units are an int64, whose bounds no amount of the shop    *)
(* comes near, and are plain integers here.  An operation of the package   *)
(* that may fail returns a Result: the amount, and the error the Go code   *)
(* returns beside it ("none" is Go's nil).                                 *)
(***************************************************************************)
EXTENDS Integers

CONSTANTS NanosMod,    \* nanos per unit (nanosMod)
          Int32Half,   \* 2^31: nanos are a 32-bit signed integer
          Currencies,  \* the currency codes in use
          Unspecified  \* the empty currency code, ""

ASSUME MoneyAssumption ==
    /\ NanosMod \in Nat \ {0, 1}
    /\ Int32Half \in Nat /\ 2 * NanosMod <= Int32Half
    /\ Unspecified \notin Currencies

Amounts == [units : Int, nanos : Int, currency : Currencies \cup {Unspecified}]

Errors == {"none", "ErrInvalidValue", "ErrMismatchingCurrency"}

\* The exact value of an amount, counted in nanos.
InNanos(m) == m.units * NanosMod + m.nanos

(***************************************************************************)
(* Integer division as Go does it: the quotient is truncated toward zero   *)
(* and the remainder has the sign of the dividend.                         *)
(***************************************************************************)
Quotient(a, b) == IF a >= 0 THEN a \div b ELSE -((-a) \div b)
Remainder(a, b) == a - b * Quotient(a, b)

\* What an int32 holds after a computation whose exact result is n.
Int32(n) ==
    IF -Int32Half <= n /\ n < Int32Half
    THEN n
    ELSE ((n + Int32Half) % (2 * Int32Half)) - Int32Half

ValidNanos(nanos) == -(NanosMod - 1) <= nanos /\ nanos <= NanosMod - 1

SignMatches(m) ==
    m.nanos = 0 \/ m.units = 0 \/ ((m.nanos < 0) <=> (m.units < 0))

IsValid(m) == SignMatches(m) /\ ValidNanos(m.nanos)

IsZero(m) == m.units = 0 /\ m.nanos = 0

\* && binds tighter than || in Go: validity guards the first disjunct only.
IsPositive(m) == (IsValid(m) /\ m.units > 0) \/ (m.units = 0 /\ m.nanos > 0)

IsNegative(m) == (IsValid(m) /\ m.units < 0) \/ (m.units = 0 /\ m.nanos < 0)

AreSameCurrency(l, r) == l.currency = r.currency /\ l.currency # Unspecified

AreEquals(l, r) ==
    l.currency = r.currency /\ l.units = r.units /\ l.nanos = r.nanos

\* Seeded bug: only the units are negated.
NegateUnits(m) == [m EXCEPT !.units = -m.units]

Negate(m) == [m EXCEPT !.units = -m.units, !.nanos = -m.nanos]

(***************************************************************************)
(* Sum, in the code's own two branches.                                    *)
(***************************************************************************)
NoAmount == [units |-> 0, nanos |-> 0, currency |-> Unspecified]

\* Seeded bug: a round amount does not count as one of the same sign.
SameSignStrictly(units, nanos) ==
    (units = 0 /\ nanos = 0) \/ (units > 0 /\ nanos > 0) \/ (units < 0 /\ nanos < 0)

SameSign(units, nanos) ==
    \/ units = 0 /\ nanos = 0
    \/ units > 0 /\ nanos >= 0
    \/ units < 0 /\ nanos <= 0

\* Seeded bug: the carried units are dropped.
CarriedIsLost(units, nanos, code) ==
    [units |-> units, nanos |-> Remainder(nanos, NanosMod), currency |-> code]

\* "same sign <units, nanos>": carry the whole units out of the nanos.
Carried(units, nanos, code) ==
    [units |-> units + Quotient(nanos, NanosMod),
     nanos |-> Remainder(nanos, NanosMod), currency |-> code]

\* "different sign": borrow one unit toward zero.
Borrowed(units, nanos, code) ==
    IF units > 0
    THEN [units |-> units - 1,
          nanos |-> Int32(nanos + NanosMod), currency |-> code]
    ELSE [units |-> units + 1,
          nanos |-> Int32(nanos - NanosMod), currency |-> code]

Added(l, r) ==
    LET units == l.units + r.units
        nanos == Int32(l.nanos + r.nanos)
    IN  IF SameSign(units, nanos) THEN Carried(units, nanos, l.currency)
                                  ELSE Borrowed(units, nanos, l.currency)

Sum(l, r) ==
    IF ~IsValid(l) \/ ~IsValid(r)
    THEN [amount |-> NoAmount, err |-> "ErrInvalidValue"]
    ELSE IF l.currency # r.currency
         THEN [amount |-> NoAmount, err |-> "ErrMismatchingCurrency"]
         ELSE [amount |-> Added(l, r), err |-> "none"]

\* Must panics on a result with an error; this is the test it makes.
MustPanics(result) == result.err # "none"

-----------------------------------------------------------------------------
(***************************************************************************)
(* The sums that come out invalid although both operands are valid: the    *)
(* units cancel to zero and a fraction of a unit is left alone.  The code  *)
(* then takes the "different sign" branch and writes the fraction as a     *)
(* whole unit less the rest, 0 + 0.3 = (1, -0.7).                          *)
(***************************************************************************)
FractionAlone(l, r) ==
    /\ l.units + r.units = 0
    /\ l.nanos + r.nanos # 0
    /\ l.nanos + r.nanos < NanosMod

\* The one case in which the int32 cannot hold the nanos Sum computes.
NanosOverflow(l, r) ==
    /\ l.units + r.units = 0
    /\ l.nanos + r.nanos < NanosMod - Int32Half
=============================================================================
