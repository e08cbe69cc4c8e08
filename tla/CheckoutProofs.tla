--------------------------- MODULE CheckoutProofs ---------------------------
(***************************************************************************)
(* Proofs about module Checkout, for any users, requests, lines, prices    *)
(* and thresholds: what its invariants say of one request, that it         *)
(* implements OrderLedger, and when goods are ordered a second time.       *)
(***************************************************************************)
EXTENDS Checkout, TLAPS

USE DEF Steps, Calls, Statuses

-----------------------------------------------------------------------------
(***************************************************************************)
(* Every step of checkout, the cart service and the services it calls      *)
(* keeps the variables in their types.                                     *)
(***************************************************************************)
LEMMA TypeInit == Init => TypeOK
BY CheckoutAssumption DEF Init, TypeOK, Carts!Init

LEMMA CartStepType ==
    ASSUME TypeOK,
           \/ \E l \in Lines : AddItemRead(l) \/ AddItemWrite(l) \/ AddItemFail(l)
           \/ \E u \in Users : ClearCart(u)
    PROVE  TypeOK'
<1>1. CASE \E l \in Lines : AddItemRead(l) \/ AddItemWrite(l) \/ AddItemFail(l)
  <2>1. PICK l \in Lines : AddItemRead(l) \/ AddItemWrite(l) \/ AddItemFail(l)
    BY <1>1
  <2>2. OwnerOf[l] \in Users
    BY CheckoutAssumption
  <2>3. CASE AddItemRead(l)
    BY <2>2, <2>3 DEF TypeOK, AddItemRead, Carts!AddItemRead, orderVars,
                      worldVars, historyVars
  <2>4. CASE AddItemWrite(l)
    BY <2>2, <2>4 DEF TypeOK, AddItemWrite, Carts!AddItemWrite, orderVars,
                      worldVars, historyVars
  <2>5. CASE AddItemFail(l)
    BY <2>5 DEF TypeOK, AddItemFail, Carts!AddItemFail, orderVars,
                worldVars, historyVars
  <2> QED
    BY <2>1, <2>3, <2>4, <2>5
<1>2. CASE \E u \in Users : ClearCart(u)
  BY <1>2 DEF TypeOK, ClearCart, Carts!Clear, orderVars, worldVars, historyVars
<1> QED
  BY <1>1, <1>2

LEMMA PlaceOrderType ==
    ASSUME TypeOK, NEW r \in Requests, PlaceOrder(r)
    PROVE  TypeOK'
<1> USE DEF TypeOK, cartVars, worldVars, historyVars, GoTo, Return
<1>1. CASE ReadCart(r)
  <2>1. cart[UserOf[r]] \in SUBSET Lines
    BY CheckoutAssumption
  <2>2. {q \in emptied : UserOf[q] = UserOf[r]} \in SUBSET Requests
    OBVIOUS
  <2> QED
    BY <1>1, <2>1, <2>2 DEF ReadCart
<1>2. CASE PrepareOrder(r)
  BY <1>2 DEF PrepareOrder
<1>3. CASE CheckExpensiveItems(r)
  BY <1>3 DEF CheckExpensiveItems
<1>4. CASE RejectOrder(r)
  BY <1>4 DEF RejectOrder
<1>5. CASE ChargeCard(r)
  <2>1. \/ /\ GoTo(r, "charging")
           /\ rpc' = [rpc EXCEPT ![r] = "charge"]
           /\ UNCHANGED reply
        \/ /\ Return(r, "Internal")
           /\ UNCHANGED rpc
    BY <1>5 DEF ChargeCard
  <2>2. pc' \in [Requests -> Steps]
    BY <2>1 DEF Steps
  <2>3. rpc' \in [Requests -> Calls]
    BY <2>1 DEF Calls
  <2>4. reply' \in [Requests -> Statuses]
    BY <2>1 DEF Statuses
  <2> QED
    BY <1>5, <2>2, <2>3, <2>4 DEF ChargeCard
<1>6. CASE ShipOrder(r) \/ ChargeError(r)
  BY <1>6 DEF ShipOrder, ChargeError
<1>7. CASE EmptyUserCart(r) \/ ShipError(r)
  BY <1>7 DEF EmptyUserCart, ShipError
<1>8. CASE CartEmptied(r)
  BY <1>8 DEF CartEmptied
<1>9. CASE SendOrderConfirmation(r)
  BY <1>9 DEF SendOrderConfirmation
<1>10. CASE SendToPostProcessor(r)
  BY <1>10 DEF SendToPostProcessor
<1>11. CASE TotalPanics(r)
  BY <1>11 DEF TotalPanics, ProcessDies, InProgress
<1> QED
  BY <1>1, <1>2, <1>3, <1>4, <1>5, <1>6, <1>7, <1>8, <1>9, <1>10, <1>11
     DEF PlaceOrder

LEMMA ServicesType ==
    ASSUME TypeOK, NEW r \in Requests, Services(r)
    PROVE  TypeOK'
<1> USE DEF TypeOK, cartVars, worldVars, historyVars
<1>1. CASE PerformCharge(r)
  BY <1>1 DEF PerformCharge
<1>2. CASE RefuseCharge(r)
  BY <1>2 DEF RefuseCharge
<1>3. CASE PerformShip(r)
  BY <1>3 DEF PerformShip
<1>4. CASE PerformEmpty(r)
  BY <1>4 DEF PerformEmpty, Carts!Clear
<1> QED
  BY <1>1, <1>2, <1>3, <1>4 DEF Services

LEMMA TypeStep == TypeOK /\ [Next]_vars => TypeOK'
<1> SUFFICES ASSUME TypeOK, [Next]_vars PROVE TypeOK'
  OBVIOUS
<1>1. CASE UNCHANGED vars
  BY <1>1 DEF TypeOK, vars, cartVars, orderVars, worldVars, historyVars
<1>2. CASE Restart
  BY <1>2 DEF Restart, ProcessDies, InProgress, TypeOK, cartVars, worldVars,
              historyVars
<1> QED
  BY <1>1, <1>2, CartStepType, PlaceOrderType, ServicesType DEF Next

(***************************************************************************)
(* Every variable of Checkout always has its type.                         *)
(***************************************************************************)
THEOREM CheckoutTypeCorrect == Spec => []TypeOK
BY TypeInit, TypeStep, PTL DEF Spec

-----------------------------------------------------------------------------
(***************************************************************************)
(* The state of a request.  The invariants of Checkout speak of the        *)
(* payment, the shipment and the reply; what links them is how far the     *)
(* last call of the activation has come, so OrderInv states all of them by *)
(* rpc: an activation that is given up leaves its call behind, and the     *)
(* call may still be performed, but no further call is ever sent.          *)
(***************************************************************************)
Paid(r) == rpc[r] \notin {"none", "charge"}

Shipped(r) == rpc[r] \in {"shipped", "empty", "emptied"}

Announcing(r) == rpc[r] \in {"empty", "emptied"}

CallsInv(r) ==
    /\ pc[r] \in {"idle", "prepare", "check", "report", "total"} => rpc[r] = "none"
    /\ pc[r] = "charging" => rpc[r] \in {"none", "charge", "charged"}
    /\ pc[r] = "shipping" => rpc[r] \in {"ship", "shipped"}
    /\ pc[r] \in {"emptying", "confirming", "publishing"} => Announcing(r)

ReplyInv(r) ==
    /\ pc[r] # "end" => reply[r] = "none"
    /\ reply[r] = "OK" => Announcing(r)
    /\ reply[r] = "FailedPrecondition" => rpc[r] = "none"
    /\ reply[r] = "Unavailable" => rpc[r] \in {"ship", "shipped"}
    /\ reply[r] = "Internal" => rpc[r] \in {"none", "charge", "charged"}

LedgerInv(r) ==
    /\ payments[r] = IF Paid(r) THEN 1 ELSE 0
    /\ Paid(r) => paidFor[r] = items[r]
    /\ shipments[r] = IF Shipped(r) THEN 1 ELSE 0
    /\ Shipped(r) => shippedLines[r] = items[r]
    /\ r \in emails \cup records => Announcing(r)
    /\ r \in emptied => rpc[r] = "emptied"

CheckInv(r) ==
    (rpc[r] # "none" \/ pc[r] = "total") /\ checked[r] # 0 =>
        \A l \in items[r] :
            PriceUsd[l] <= checked[r] \/ PriceLocal[l] <= checked[r]

OrderInv(r) == CallsInv(r) /\ ReplyInv(r) /\ LedgerInv(r) /\ CheckInv(r)

IInv == TypeOK /\ \A r \in Requests : OrderInv(r)

LEMMA OrderInvInit == Init => IInv
<1> SUFFICES ASSUME Init PROVE IInv
  OBVIOUS
<1>1. TypeOK
  BY TypeInit
<1>2. ASSUME NEW r \in Requests PROVE OrderInv(r)
  BY DEF Init, OrderInv, CallsInv, ReplyInv, LedgerInv, CheckInv, Paid,
         Shipped, Announcing
<1> QED
  BY <1>1, <1>2 DEF IInv

(***************************************************************************)
(* OrderInv(q) reads the variables at q only: it is kept by a step that    *)
(* leaves them there, such as every step of another request.               *)
(***************************************************************************)
SameOrder(q) ==
    /\ pc'[q] = pc[q] /\ items'[q] = items[q] /\ checked'[q] = checked[q]
    /\ rpc'[q] = rpc[q] /\ reply'[q] = reply[q]
    /\ payments'[q] = payments[q] /\ paidFor'[q] = paidFor[q]
    /\ shipments'[q] = shipments[q] /\ shippedLines'[q] = shippedLines[q]
    /\ (q \in emails') = (q \in emails)
    /\ (q \in records') = (q \in records)
    /\ (q \in emptied') = (q \in emptied)

LEMMA SameOrderInv ==
    ASSUME NEW q \in Requests, OrderInv(q), SameOrder(q)
    PROVE  OrderInv(q)'
BY DEF SameOrder, OrderInv, CallsInv, ReplyInv, LedgerInv, CheckInv, Paid,
       Shipped, Announcing

LEMMA OtherOrder ==
    ASSUME TypeOK, NEW r \in Requests, NEW q \in Requests \ {r},
           \/ PlaceOrder(r) /\ ~TotalPanics(r)
           \/ Services(r)
    PROVE  SameOrder(q)
<1> USE DEF TypeOK, SameOrder, cartVars, worldVars, historyVars, GoTo, Return
<1>1. CASE Services(r)
  BY <1>1 DEF Services, PerformCharge, RefuseCharge, PerformShip, PerformEmpty
<1>2. CASE PlaceOrder(r) /\ ~TotalPanics(r)
  BY <1>2 DEF PlaceOrder, ReadCart, PrepareOrder, CheckExpensiveItems,
              RejectOrder, ChargeCard, ShipOrder, ChargeError, EmptyUserCart,
              ShipError, CartEmptied, SendOrderConfirmation,
              SendToPostProcessor
<1> QED
  BY <1>1, <1>2

LEMMA OwnStep ==
    ASSUME TypeOK, NEW r \in Requests, OrderInv(r),
           PlaceOrder(r) /\ ~TotalPanics(r)
    PROVE  OrderInv(r)'
<1> USE DEF TypeOK, OrderInv, CallsInv, ReplyInv, LedgerInv, CheckInv, Paid,
            Shipped, Announcing, cartVars, worldVars, historyVars, GoTo, Return
<1>1. CASE ReadCart(r)
  BY <1>1 DEF ReadCart
<1>2. CASE PrepareOrder(r)
  BY <1>2 DEF PrepareOrder
<1>3. CASE CheckExpensiveItems(r)
  <2>1. PICK threshold \in Thresholds, unconverted \in SUBSET items[r] :
            /\ checked' = [checked EXCEPT ![r] = threshold]
            /\ IF TooExpensive(items[r], unconverted, threshold)
               THEN GoTo(r, "report") ELSE GoTo(r, "total")
    BY <1>3 DEF CheckExpensiveItems
  <2>2. /\ pc[r] = "check"
        /\ UNCHANGED <<items, rpc, reply, payments, paidFor, shipments,
                       shippedLines, emails, records, emptied>>
    BY <1>3 DEF CheckExpensiveItems
  <2>3. ASSUME ~TooExpensive(items[r], unconverted, threshold),
               threshold # 0, NEW l \in items[r]
        PROVE  PriceUsd[l] <= threshold \/ PriceLocal[l] <= threshold
    <3>1. /\ PriceUsd[l] \in Nat /\ PriceLocal[l] \in Nat
          /\ threshold \in Nat
      BY CheckoutAssumption
    <3>2. ~(ComparedPrice(l, unconverted) > threshold)
      BY <2>3 DEF TooExpensive
    <3> QED
      BY <3>1, <3>2 DEF ComparedPrice
  <2>4. CASE TooExpensive(items[r], unconverted, threshold)
    BY <2>1, <2>2, <2>4
  <2>5. CASE ~TooExpensive(items[r], unconverted, threshold)
    <3>1. CheckInv(r)'
      BY <2>1, <2>2, <2>3, <2>5
    <3> QED
      BY <2>1, <2>2, <2>5, <3>1
  <2> QED
    BY <2>4, <2>5
<1>4. CASE RejectOrder(r)
  BY <1>4 DEF RejectOrder
<1>5. CASE ChargeCard(r)
  <2>1. /\ pc' \in [Requests -> Steps]
        /\ rpc' \in [Requests -> Calls]
        /\ reply' \in [Requests -> Statuses]
    BY <1>5 DEF ChargeCard, Steps, Calls, Statuses
  <2> QED
    BY <1>5, <2>1 DEF ChargeCard
<1>6. CASE ShipOrder(r) \/ ChargeError(r)
  BY <1>6 DEF ShipOrder, ChargeError
<1>7. CASE EmptyUserCart(r) \/ ShipError(r)
  BY <1>7 DEF EmptyUserCart, ShipError
<1>8. CASE CartEmptied(r)
  BY <1>8 DEF CartEmptied
<1>9. CASE SendOrderConfirmation(r)
  BY <1>9 DEF SendOrderConfirmation
<1>10. CASE SendToPostProcessor(r)
  BY <1>10 DEF SendToPostProcessor
<1> QED
  BY <1>1, <1>2, <1>3, <1>4, <1>5, <1>6, <1>7, <1>8, <1>9, <1>10 DEF PlaceOrder

LEMMA OwnService ==
    ASSUME TypeOK, NEW r \in Requests, OrderInv(r), Services(r)
    PROVE  OrderInv(r)'
<1> USE DEF TypeOK, OrderInv, CallsInv, ReplyInv, LedgerInv, CheckInv, Paid,
            Shipped, Announcing, cartVars, worldVars, historyVars
<1>1. CASE PerformCharge(r)
  BY <1>1 DEF PerformCharge
<1>2. CASE RefuseCharge(r)
  BY <1>2 DEF RefuseCharge
<1>3. CASE PerformShip(r)
  BY <1>3 DEF PerformShip
<1>4. CASE PerformEmpty(r)
  BY <1>4 DEF PerformEmpty
<1> QED
  BY <1>1, <1>2, <1>3, <1>4 DEF Services

\* A process that dies ends activations and leaves their calls as they are.
LEMMA DyingInv ==
    ASSUME TypeOK, NEW q \in Requests, OrderInv(q), ProcessDies
    PROVE  OrderInv(q)'
BY DEF TypeOK, ProcessDies, InProgress, OrderInv, CallsInv, ReplyInv, LedgerInv,
       CheckInv, Paid, Shipped, Announcing, cartVars, worldVars, historyVars

LEMMA OrderInvStep == IInv /\ [Next]_vars => IInv'
<1> SUFFICES ASSUME IInv, [Next]_vars PROVE IInv'
  OBVIOUS
<1>1. TypeOK'
  BY TypeStep DEF IInv
<1>2. ASSUME NEW q \in Requests PROVE OrderInv(q)'
  <2>1. TypeOK /\ OrderInv(q)
    BY DEF IInv
  <2>2. CASE ProcessDies
    BY <2>1, <2>2, DyingInv
  <2>3. CASE \E r \in Requests : (PlaceOrder(r) /\ ~TotalPanics(r)) \/ Services(r)
    BY <2>1, <2>3, SameOrderInv, OtherOrder, OwnStep, OwnService
  <2>4. CASE \/ UNCHANGED vars
             \/ \E l \in Lines : \/ AddItemRead(l) \/ AddItemWrite(l)
                                 \/ AddItemFail(l)
             \/ \E u \in Users : ClearCart(u)
    <3>1. SameOrder(q)
      BY <2>4 DEF SameOrder, vars, AddItemRead, AddItemWrite, AddItemFail,
                  ClearCart, orderVars, worldVars, historyVars
    <3> QED
      BY <2>1, <3>1, SameOrderInv
  <2> QED
    BY <2>2, <2>3, <2>4 DEF Next, Restart, TotalPanics, PlaceOrder
<1> QED
  BY <1>1, <1>2 DEF IInv

THEOREM OrderInvariant == Spec => []IInv
BY OrderInvInit, OrderInvStep, PTL DEF Spec

(***************************************************************************)
(* Nothing is shipped that was not paid for by the same request.           *)
(***************************************************************************)
THEOREM CheckoutShippedWasPaid == Spec => []ShippedWasPaid
<1>1. IInv => ShippedWasPaid
  BY DEF IInv, OrderInv, LedgerInv, ShippedWasPaid, Paid, Shipped, TypeOK
<1> QED
  BY <1>1, OrderInvariant, PTL

(***************************************************************************)
(* The status of the response tells what has become of the order.          *)
(***************************************************************************)
THEOREM CheckoutStatusTellsFate == Spec => []StatusTellsFate
<1>1. IInv => StatusTellsFate
  BY DEF IInv, OrderInv, ReplyInv, LedgerInv, StatusTellsFate, Paid, Shipped,
         Announcing
<1> QED
  BY <1>1, OrderInvariant, PTL

(***************************************************************************)
(* What is announced was shipped, and what is paid passed the price check. *)
(***************************************************************************)
THEOREM CheckoutAnnouncedWasShipped == Spec => []AnnouncedWasShipped
<1>1. IInv => AnnouncedWasShipped
  BY DEF IInv, OrderInv, LedgerInv, AnnouncedWasShipped, Shipped, Announcing,
         TypeOK
<1> QED
  BY <1>1, OrderInvariant, PTL

THEOREM CheckoutPaidPassedCheck == Spec => []PaidPassedCheck
<1>1. IInv => PaidPassedCheck
  BY DEF IInv, OrderInv, LedgerInv, CheckInv, PaidPassedCheck, Paid
<1> QED
  BY <1>1, OrderInvariant, PTL

-----------------------------------------------------------------------------
(***************************************************************************)
(* Checkout implements OrderLedger: the initial states map to its initial  *)
(* state, and every step to one of its steps or to none.                   *)
(***************************************************************************)
Outcome == [r \in Requests |-> OutcomeOf(reply[r])]

LEMMA LedgerInit == Init => Ledger!Init
BY DEF Init, Ledger!Init, OutcomeOf

\* A step that returns a status, or none, and disturbs nothing else.
LEMMA ReturnStep ==
    ASSUME TypeOK, NEW r \in Requests, OrderInv(r), OrderInv(r)',
           reply[r] = "none",
           NEW status \in Statuses \ {"none"},
           reply' = [reply EXCEPT ![r] = status],
           UNCHANGED <<payments, paidFor, shipments, shippedLines>>
    PROVE  Ledger!Next
<1>1. /\ Outcome[r] = "open"
      /\ Outcome' = [Outcome EXCEPT ![r] = OutcomeOf(status)]
  BY DEF TypeOK, Outcome, OutcomeOf
<1>2. reply'[r] = status
  BY DEF TypeOK
<1>3. CASE status = "OK"
  <2>1. payments[r] = 1 /\ shipments[r] = 1
    BY <1>2, <1>3 DEF OrderInv, ReplyInv, LedgerInv, Paid, Shipped, Announcing
  <2> QED
    BY <1>1, <1>3, <2>1 DEF Ledger!Next, Ledger!Confirm, Outcome, OutcomeOf
<1>4. CASE status = "FailedPrecondition"
  <2>1. payments[r] = 0
    BY <1>2, <1>4 DEF OrderInv, ReplyInv, LedgerInv, Paid
  <2> QED
    BY <1>1, <1>4, <2>1 DEF Ledger!Next, Ledger!Reject, Outcome, OutcomeOf
<1>5. CASE status \notin {"OK", "FailedPrecondition"}
  <2>1. Ledger!Fail({r})
    BY <1>1, <1>5 DEF Ledger!Fail, Outcome, OutcomeOf
  <2> QED
    BY <2>1 DEF Ledger!Next
<1> QED
  BY <1>3, <1>4, <1>5

LEMMA ServiceLedger ==
    ASSUME TypeOK, NEW r \in Requests, OrderInv(r), Services(r)
    PROVE  Ledger!Next \/ UNCHANGED Ledger!vars
<1>1. UNCHANGED reply
  BY DEF Services, PerformCharge, RefuseCharge, PerformShip, PerformEmpty
<1>2. CASE PerformCharge(r)
  <2>1. /\ payments[r] = 0
        /\ Outcome[r] \in {"open", "failed"}
    BY <1>2 DEF PerformCharge, OrderInv, LedgerInv, ReplyInv, Paid, Outcome,
                OutcomeOf, Announcing, TypeOK
  <2>2. Ledger!Pay(r, items[r])
    BY <1>1, <1>2, <2>1 DEF PerformCharge, Ledger!Pay, Outcome, TypeOK
  <2> QED
    BY <2>2 DEF Ledger!Next, TypeOK
<1>3. CASE PerformShip(r)
  <2>1. /\ payments[r] = 1 /\ shipments[r] = 0
        /\ paidFor[r] = items[r]
        /\ Outcome[r] \in {"open", "failed"}
    BY <1>3 DEF PerformShip, OrderInv, LedgerInv, ReplyInv, Paid, Shipped,
                Outcome, OutcomeOf, Announcing, TypeOK
  <2>2. Ledger!Ship(r)
    BY <1>1, <1>3, <2>1 DEF PerformShip, Ledger!Ship, Outcome, TypeOK
  <2> QED
    BY <2>2 DEF Ledger!Next
<1>4. CASE RefuseCharge(r) \/ PerformEmpty(r)
  BY <1>1, <1>4 DEF RefuseCharge, PerformEmpty, worldVars, Ledger!vars
<1> QED
  BY <1>2, <1>3, <1>4 DEF Services

LEMMA PlaceOrderLedger ==
    ASSUME TypeOK, NEW r \in Requests, OrderInv(r), OrderInv(r)',
           PlaceOrder(r) /\ ~TotalPanics(r)
    PROVE  Ledger!Next \/ UNCHANGED Ledger!vars
<1>1. UNCHANGED <<payments, paidFor, shipments, shippedLines>>
  BY DEF PlaceOrder, ReadCart, PrepareOrder, CheckExpensiveItems, RejectOrder,
         ChargeCard, ShipOrder, ChargeError, EmptyUserCart, ShipError,
         CartEmptied, SendOrderConfirmation, SendToPostProcessor, worldVars
<1>2. \/ UNCHANGED reply
      \/ \E status \in Statuses \ {"none"} :
             reply' = [reply EXCEPT ![r] = status]
  BY DEF PlaceOrder, ReadCart, PrepareOrder, CheckExpensiveItems, RejectOrder,
         ChargeCard, ShipOrder, ChargeError, EmptyUserCart, ShipError,
         CartEmptied, SendOrderConfirmation, SendToPostProcessor, Return
<1>3. reply[r] = "none"
  BY DEF PlaceOrder, ReadCart, PrepareOrder, CheckExpensiveItems, RejectOrder,
         ChargeCard, ShipOrder, ChargeError, EmptyUserCart, ShipError,
         CartEmptied, SendOrderConfirmation, SendToPostProcessor, OrderInv,
         ReplyInv
<1>4. CASE UNCHANGED reply
  BY <1>1, <1>4 DEF Ledger!vars
<1> QED
  BY <1>1, <1>2, <1>3, <1>4, ReturnStep

LEMMA DyingLedger ==
    ASSUME IInv, ProcessDies
    PROVE  Ledger!Next
<1> DEFINE failing == {r \in Requests : InProgress(r)}
<1>1. \A r \in failing : Outcome[r] = "open"
  BY DEF InProgress, IInv, OrderInv, ReplyInv, Outcome, OutcomeOf
<1>2. Outcome' = [r \in Requests |->
                     IF r \in failing THEN "failed" ELSE Outcome[r]]
  BY DEF ProcessDies, Outcome, OutcomeOf
<1>3. Ledger!Fail(failing)
  BY <1>1, <1>2 DEF ProcessDies, worldVars, Ledger!Fail, Outcome
<1>4. failing \in SUBSET Requests
  OBVIOUS
<1> QED
  BY <1>3, <1>4 DEF Ledger!Next

LEMMA LedgerStep ==
    IInv /\ IInv' /\ [Next]_vars => [Ledger!Next]_(Ledger!vars)
<1> SUFFICES ASSUME IInv, IInv', [Next]_vars
             PROVE  Ledger!Next \/ UNCHANGED Ledger!vars
  OBVIOUS
<1>1. CASE ProcessDies
  BY <1>1, DyingLedger
<1>2. CASE \E r \in Requests : (PlaceOrder(r) /\ ~TotalPanics(r)) \/ Services(r)
  BY <1>2, PlaceOrderLedger, ServiceLedger DEF IInv
<1>3. CASE \/ UNCHANGED vars
           \/ \E l \in Lines : \/ AddItemRead(l) \/ AddItemWrite(l)
                               \/ AddItemFail(l)
           \/ \E u \in Users : ClearCart(u)
  BY <1>3 DEF vars, AddItemRead, AddItemWrite, AddItemFail, ClearCart,
              orderVars, worldVars, Ledger!vars
<1> QED
  BY <1>1, <1>2, <1>3 DEF Next, Restart, TotalPanics, PlaceOrder

(***************************************************************************)
(* Checkout, with all its lost answers, late calls and restarts, keeps the *)
(* promises of OrderLedger.                                                *)
(***************************************************************************)
THEOREM CheckoutImplementsLedger == Spec => LedgerSpec
BY LedgerInit, LedgerStep, OrderInvariant, PTL DEF Spec, LedgerSpec, Ledger!Spec

-----------------------------------------------------------------------------
(***************************************************************************)
(* Checkout takes the same goods into a second order only when an AddItem  *)
(* that was under way brought them back (NoSecondOrder).                   *)
(***************************************************************************)

(***************************************************************************)
(* Where a line of a cart can be: whoever has it, it was added, and to the *)
(* cart of that user.                                                      *)
(***************************************************************************)
AddedTo(u) == {l \in Lines : addPc[l] = "added" /\ OwnerOf[l] = u}

LinesInv ==
    /\ \A u \in Users : cart[u] \subseteq AddedTo(u)
    /\ \A l \in Lines : addRead[l] \subseteq AddedTo(OwnerOf[l])
    /\ \A r \in Requests : items[r] \subseteq AddedTo(UserOf[r])

(***************************************************************************)
(* What keeps the lines of an emptied order out of the cart: they are not  *)
(* in it, and an AddItem that has read them, and will write them, had read *)
(* before the cart was emptied.                                            *)
(***************************************************************************)
KeptOut(q) ==
    /\ cart[UserOf[q]] \cap items[q] = {}
    /\ \A l \in Lines :
          addPc[l] = "read" /\ OwnerOf[l] = UserOf[q] =>
              addRead[l] \cap items[q] = {} \/ q \in crossed[l]

EmptiedInv == \A q \in emptied : BroughtBack(q) \/ KeptOut(q)

SeenInv ==
    \A r \in Requests :
        /\ emptiedSeen[r] \subseteq emptied
        /\ pc[r] = "idle" => emptiedSeen[r] = {}

CartInv == LinesInv /\ EmptiedInv /\ SeenInv /\ NoSecondOrder

LEMMA CartInvInit == Init => CartInv
BY CheckoutAssumption DEF Init, Carts!Init, CartInv, LinesInv, EmptiedInv,
   SeenInv, NoSecondOrder, AddedTo

-----------------------------------------------------------------------------
(***************************************************************************)
(* An emptied order has read its cart, and will not read it again.         *)
(***************************************************************************)
LEMMA EmptiedNotIdle ==
    ASSUME IInv, NEW q \in emptied
    PROVE  q \in Requests /\ pc[q] # "idle"
BY DEF IInv, TypeOK, OrderInv, CallsInv, LedgerInv

\* Lines stay where they were added, and what was brought back stays so.
LEMMA AddedStays ==
    ASSUME TypeOK, [Next]_vars
    PROVE  /\ \A l \in Lines : addPc[l] = "added" => addPc'[l] = "added"
           /\ \A l \in Lines : crossed[l] \subseteq crossed'[l]
           /\ \A q \in Requests : BroughtBack(q) => BroughtBack(q)'
<1>1. \/ UNCHANGED addPc
      \/ \E l \in Lines : addPc[l] # "added"
             /\ \E s \in {"read", "added", "failed"} :
                    addPc' = [addPc EXCEPT ![l] = s]
  <2>1. ASSUME NEW l \in Lines, AddItemFail(l)
        PROVE  addPc' = [addPc EXCEPT ![l] = "failed"]
    BY <2>1 DEF AddItemFail, Carts!AddItemFail, TypeOK
  <2> QED
    BY <2>1 DEF Next, vars, cartVars, AddItemRead, AddItemWrite, AddItemFail,
           ClearCart, Carts!AddItemRead, Carts!AddItemWrite, Carts!AddItemFail,
           Carts!Clear, PlaceOrder, ReadCart, PrepareOrder,
           CheckExpensiveItems, RejectOrder, ChargeCard, ShipOrder,
           ChargeError, EmptyUserCart, ShipError, CartEmptied,
           SendOrderConfirmation, SendToPostProcessor, TotalPanics, Restart,
           ProcessDies, Services, PerformCharge, RefuseCharge, PerformShip,
           PerformEmpty
<1>2. \A l \in Lines : addPc[l] = "added" => addPc'[l] = "added"
  BY <1>1 DEF TypeOK
<1>3. \A l \in Lines : crossed[l] \subseteq crossed'[l]
  <2>1. \/ UNCHANGED crossed
        \/ \E r \in Requests : PerformEmpty(r)
    BY DEF Next, vars, historyVars, AddItemRead, AddItemWrite, AddItemFail,
           ClearCart, PlaceOrder, ReadCart, PrepareOrder,
           CheckExpensiveItems, RejectOrder, ChargeCard, ShipOrder,
           ChargeError, EmptyUserCart, ShipError, CartEmptied,
           SendOrderConfirmation, SendToPostProcessor, TotalPanics, Restart,
           ProcessDies, Services, PerformCharge, RefuseCharge, PerformShip
  <2>2. ASSUME NEW r \in Requests, PerformEmpty(r), NEW l \in Lines
        PROVE  crossed[l] \subseteq crossed'[l]
    BY <2>2 DEF PerformEmpty
  <2> QED
    BY <2>1, <2>2
<1> QED
  BY <1>2, <1>3 DEF BroughtBack

-----------------------------------------------------------------------------
(***************************************************************************)
(* The steps of the cart.                                                  *)
(***************************************************************************)
LEMMA CartReadStep ==
    ASSUME IInv, CartInv, NEW l \in Lines, AddItemRead(l)
    PROVE  LinesInv' /\ EmptiedInv'
<1> USE DEF AddItemRead, Carts!AddItemRead, orderVars, historyVars
<1>1. TypeOK /\ OwnerOf[l] \in Users
  BY CheckoutAssumption DEF IInv
<1>2. LinesInv'
  BY <1>1 DEF TypeOK, CartInv, LinesInv, AddedTo
<1>3. ASSUME NEW q \in emptied PROVE (BroughtBack(q) \/ KeptOut(q))'
  BY <1>1, <1>3 DEF TypeOK, CartInv, EmptiedInv, BroughtBack, KeptOut
<1> QED
  BY <1>2, <1>3 DEF EmptiedInv

LEMMA CartWriteStep ==
    ASSUME IInv, CartInv, NEW l \in Lines, AddItemWrite(l)
    PROVE  LinesInv' /\ EmptiedInv'
<1> USE DEF AddItemWrite, Carts!AddItemWrite, orderVars, historyVars
<1>1. TypeOK /\ OwnerOf[l] \in Users
  BY CheckoutAssumption DEF IInv
<1>2. LinesInv'
  BY <1>1 DEF TypeOK, CartInv, LinesInv, AddedTo
<1>3. ASSUME NEW q \in emptied PROVE (BroughtBack(q) \/ KeptOut(q))'
  <2>1. q \in Requests
    BY EmptiedNotIdle
  <2>2. l \notin items[q]
    BY <1>1, <2>1 DEF CartInv, LinesInv, AddedTo
  <2>3. CASE BroughtBack(q)
    BY <1>1, <2>3 DEF TypeOK, BroughtBack
  <2>4. CASE KeptOut(q) /\ q \in crossed[l]
    BY <1>1, <2>4 DEF TypeOK, BroughtBack
  <2>5. CASE KeptOut(q) /\ q \notin crossed[l]
    BY <1>1, <2>1, <2>2, <2>5 DEF TypeOK, KeptOut
  <2> QED
    BY <2>3, <2>4, <2>5 DEF CartInv, EmptiedInv
<1> QED
  BY <1>2, <1>3 DEF EmptiedInv

LEMMA CartFailStep ==
    ASSUME IInv, CartInv, NEW l \in Lines, AddItemFail(l)
    PROVE  LinesInv' /\ EmptiedInv'
<1> USE DEF AddItemFail, Carts!AddItemFail, orderVars, historyVars
<1>1. TypeOK
  BY DEF IInv
<1>2. LinesInv'
  BY <1>1 DEF TypeOK, CartInv, LinesInv, AddedTo
<1>3. ASSUME NEW q \in emptied PROVE (BroughtBack(q) \/ KeptOut(q))'
  BY <1>1, <1>3 DEF TypeOK, CartInv, EmptiedInv, BroughtBack, KeptOut
<1> QED
  BY <1>2, <1>3 DEF EmptiedInv

LEMMA CartClearStep ==
    ASSUME IInv, CartInv, NEW u \in Users, ClearCart(u)
    PROVE  LinesInv' /\ EmptiedInv'
<1> USE DEF ClearCart, Carts!Clear, orderVars, historyVars
<1>1. TypeOK
  BY DEF IInv
<1>2. LinesInv'
  BY <1>1 DEF TypeOK, CartInv, LinesInv, AddedTo
<1>3. ASSUME NEW q \in emptied PROVE (BroughtBack(q) \/ KeptOut(q))'
  <2>1. q \in Requests /\ UserOf[q] \in Users
    BY EmptiedNotIdle, CheckoutAssumption
  <2> QED
    BY <1>1, <2>1 DEF TypeOK, CartInv, EmptiedInv, BroughtBack, KeptOut
<1> QED
  BY <1>2, <1>3 DEF EmptiedInv

LEMMA CartEmptyStep ==
    ASSUME IInv, CartInv, NEW r \in Requests, PerformEmpty(r)
    PROVE  LinesInv' /\ EmptiedInv'
<1> USE DEF PerformEmpty, Carts!Clear
<1>1. TypeOK /\ UserOf[r] \in Users
  BY CheckoutAssumption DEF IInv
<1>2. LinesInv'
  BY <1>1 DEF TypeOK, CartInv, LinesInv, AddedTo
<1>3. ASSUME NEW q \in emptied \ {r} PROVE (BroughtBack(q) \/ KeptOut(q))'
  <2>1. q \in Requests /\ UserOf[q] \in Users
    BY EmptiedNotIdle, CheckoutAssumption
  <2>2. BroughtBack(q) \/ KeptOut(q)
    BY DEF CartInv, EmptiedInv
  <2>3. /\ cart'[UserOf[q]] \subseteq cart[UserOf[q]]
        /\ UNCHANGED <<items, addPc, addRead>>
        /\ \A l \in Lines : crossed[l] \subseteq crossed'[l]
    BY <1>1, <2>1 DEF TypeOK
  <2> QED
    BY <2>2, <2>3 DEF BroughtBack, KeptOut
<1>4. KeptOut(r)'
  BY <1>1 DEF TypeOK, KeptOut
<1> QED
  BY <1>2, <1>3, <1>4 DEF EmptiedInv

-----------------------------------------------------------------------------
(***************************************************************************)
(* The steps of the orders.                                                *)
(***************************************************************************)
LEMMA ReadCartStep ==
    ASSUME IInv, CartInv, NEW r \in Requests, ReadCart(r)
    PROVE  CartInv'
<1> USE DEF ReadCart, cartVars, GoTo, Return
<1>1. TypeOK /\ UserOf[r] \in Users /\ pc[r] = "idle"
  BY CheckoutAssumption DEF IInv
<1>2. \A q \in emptied : q \in Requests /\ q # r /\ items'[q] = items[q]
  BY <1>1, EmptiedNotIdle DEF TypeOK
<1>3. LinesInv'
  BY <1>1 DEF TypeOK, CartInv, LinesInv, AddedTo
<1>4. EmptiedInv'
  BY <1>2 DEF CartInv, EmptiedInv, BroughtBack, KeptOut
<1>5. SeenInv'
  BY <1>1 DEF TypeOK, CartInv, SeenInv
<1>6. ASSUME NEW p \in Requests, NEW q \in emptiedSeen'[p],
             items'[q] \cap items'[p] # {}
      PROVE  BroughtBack(q)'
  <2>1. CASE p # r
    <3>1. emptiedSeen'[p] = emptiedSeen[p] /\ items'[p] = items[p]
      BY <1>1, <2>1 DEF TypeOK
    <3>2. q \in emptied
      BY <3>1 DEF CartInv, SeenInv
    <3> QED
      BY <1>2, <1>6, <3>1, <3>2 DEF CartInv, NoSecondOrder, BroughtBack
  <2>2. CASE p = r
    <3>1. emptiedSeen[r] = {}
      BY <1>1 DEF CartInv, SeenInv
    <3>2. /\ items'[r] = cart[UserOf[r]]
          /\ q \in emptied /\ UserOf[q] = UserOf[r]
      BY <1>1, <1>6, <2>2, <3>1 DEF TypeOK
    <3>3. ~KeptOut(q)
      BY <1>2, <1>6, <2>2, <3>2 DEF KeptOut
    <3> QED
      BY <3>2, <3>3 DEF CartInv, EmptiedInv, BroughtBack
  <2> QED
    BY <2>1, <2>2
<1>7. NoSecondOrder'
  BY <1>6 DEF NoSecondOrder
<1> QED
  BY <1>3, <1>4, <1>5, <1>7 DEF CartInv

\* A step that reads no cart, and changes neither a cart nor the history.
LEMMA OtherStep ==
    ASSUME IInv, CartInv,
           UNCHANGED <<cart, addPc, addRead, items, emptied, emptiedSeen, crossed>>,
           \A r \in Requests : pc'[r] = "idle" => pc[r] = "idle"
    PROVE  CartInv'
BY DEF CartInv, LinesInv, EmptiedInv, SeenInv, NoSecondOrder, AddedTo, KeptOut,
       BroughtBack

\* A step of the cart, which leaves the orders as they are.
LEMMA CartStep ==
    ASSUME IInv, CartInv, [Next]_vars, UNCHANGED <<items, pc, emptiedSeen>>,
           emptied \subseteq emptied', LinesInv', EmptiedInv'
    PROVE  CartInv'
<1>1. SeenInv'
  BY DEF CartInv, SeenInv
<1>2. \A r \in Requests : emptiedSeen[r] \subseteq Requests
  BY DEF IInv, TypeOK
<1>3. NoSecondOrder'
  BY <1>2, AddedStays DEF IInv, CartInv, NoSecondOrder
<1> QED
  BY <1>1, <1>3 DEF CartInv

LEMMA CartInvStep == IInv /\ CartInv /\ [Next]_vars => CartInv'
<1> SUFFICES ASSUME IInv, CartInv, [Next]_vars PROVE CartInv'
  OBVIOUS
<1>1. ASSUME NEW l \in Lines, AddItemRead(l) \/ AddItemWrite(l) \/ AddItemFail(l)
      PROVE  CartInv'
  <2>1. LinesInv' /\ EmptiedInv'
    BY <1>1, CartReadStep, CartWriteStep, CartFailStep
  <2> QED
    BY <1>1, <2>1, CartStep DEF AddItemRead, AddItemWrite, AddItemFail,
                                orderVars, historyVars
<1>2. ASSUME NEW u \in Users, ClearCart(u) PROVE CartInv'
  BY <1>2, CartClearStep, CartStep DEF ClearCart, orderVars, historyVars
<1>3. ASSUME NEW r \in Requests, PerformEmpty(r) PROVE CartInv'
  BY <1>3, CartEmptyStep, CartStep DEF PerformEmpty
<1>4. ASSUME NEW r \in Requests, ReadCart(r) PROVE CartInv'
  BY <1>4, ReadCartStep
<1>5. CASE UNCHANGED vars
  BY <1>5, OtherStep DEF vars, cartVars, orderVars, historyVars
<1>6. CASE ProcessDies
  BY <1>6, OtherStep DEF ProcessDies, InProgress, cartVars, historyVars
<1>7. ASSUME NEW r \in Requests, Services(r), ~PerformEmpty(r) PROVE CartInv'
  BY <1>7, OtherStep DEF Services, PerformCharge, RefuseCharge, PerformShip,
                         cartVars, historyVars
<1>8. ASSUME NEW r \in Requests, PlaceOrder(r), ~ReadCart(r), ~TotalPanics(r)
      PROVE  CartInv'
  <2>1. UNCHANGED <<cart, addPc, addRead, items, emptied, emptiedSeen, crossed>>
    BY <1>8 DEF PlaceOrder, PrepareOrder, CheckExpensiveItems, RejectOrder,
                ChargeCard, ShipOrder, ChargeError, EmptyUserCart, ShipError,
                CartEmptied, SendOrderConfirmation, SendToPostProcessor,
                cartVars, historyVars
  <2>2. \E step \in Steps \ {"idle"} : GoTo(r, step)
    <3> USE DEF Steps, Return
    <3>1. CASE PrepareOrder(r) \/ RejectOrder(r) \/ ChargeCard(r)
      BY <3>1 DEF PrepareOrder, RejectOrder, ChargeCard
    <3>2. CASE CheckExpensiveItems(r)
      BY <3>2 DEF CheckExpensiveItems
    <3>3. CASE ShipOrder(r) \/ ChargeError(r) \/ EmptyUserCart(r) \/ ShipError(r)
      BY <3>3 DEF ShipOrder, ChargeError, EmptyUserCart, ShipError
    <3>4. CASE CartEmptied(r) \/ SendToPostProcessor(r)
      BY <3>4 DEF CartEmptied, SendToPostProcessor
    <3>5. CASE SendOrderConfirmation(r)
      BY <3>5 DEF SendOrderConfirmation
    <3> QED
      BY <1>8, <3>1, <3>2, <3>3, <3>4, <3>5 DEF PlaceOrder
  <2>3. \A q \in Requests : pc'[q] = "idle" => pc[q] = "idle"
    BY <2>2 DEF IInv, TypeOK, GoTo
  <2> QED
    BY <2>1, <2>3, OtherStep
<1> QED
  BY <1>1, <1>2, <1>3, <1>4, <1>5, <1>6, <1>7, <1>8
     DEF Next, Restart, TotalPanics, PlaceOrder, Services

(***************************************************************************)
(* Goods of an emptied order are ordered again only if an AddItem under    *)
(* way when the cart was emptied has brought them back.                    *)
(***************************************************************************)
THEOREM CheckoutNoSecondOrder == Spec => []NoSecondOrder
<1>1. Spec => []CartInv
  BY CartInvInit, CartInvStep, OrderInvariant, PTL DEF Spec
<1>2. CartInv => NoSecondOrder
  BY DEF CartInv
<1> QED
  BY <1>1, <1>2, PTL
=============================================================================
