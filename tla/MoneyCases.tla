----------------------------- MODULE MoneyCases -----------------------------
(***************************************************************************)
(* Every pair of amounts in a small range, valid or not, as the operands   *)
(* of the operations of module Money: a run of this module compares them   *)
(* with exact integer arithmetic, case by case.                            *)
(***************************************************************************)
EXTENDS Money

CONSTANTS MaxUnits, \* units range over -MaxUnits .. MaxUnits
          MaxNanos  \* nanos range over -MaxNanos .. MaxNanos

ASSUME MoneyCasesAssumption == MaxUnits \in Nat /\ MaxNanos \in Nat

VARIABLES left, right

pairVars == <<left, right>>

Cases ==
    {[units |-> u, nanos |-> f, currency |-> code] :
        u \in -MaxUnits .. MaxUnits, f \in -MaxNanos .. MaxNanos,
        code \in Currencies \cup {Unspecified}}

PairInit == left \in Cases /\ right = NoAmount

PickRight == right = NoAmount /\ right' \in Cases /\ UNCHANGED left

PairSpec == PairInit /\ [][PickRight]_pairVars

-----------------------------------------------------------------------------
Summed == Sum(left, right)

SumAccepts ==
    IsValid(left) /\ IsValid(right) /\ left.currency = right.currency

(***************************************************************************)
(* Sum (money.go:81-109) returns the exact sum of any two valid amounts of *)
(* one currency, with an error for all others, except where the int32      *)
(* overflows.  What it returns can be summed again unless it is a fraction *)
(* left alone by units that cancel, the one gap in the branches of         *)
(* money.go:90-103, the order of the operands is irrelevant, and taking    *)
(* back an amount with Negate (money.go:62-67) leaves nothing.             *)
(***************************************************************************)
SumIsExact ==
    /\ Summed.err = "none" <=> SumAccepts
    /\ SumAccepts /\ ~NanosOverflow(left, right)
        => InNanos(Summed.amount) = InNanos(left) + InNanos(right)
    /\ SumAccepts =>
           /\ IsValid(Summed.amount) <=> ~FractionAlone(left, right)
           /\ AreEquals(Summed.amount, Sum(right, left).amount)
           /\ IsZero(Sum(left, Negate(left)).amount)
=============================================================================
