------------------------------ MODULE Checkout ------------------------------
(***************************************************************************)
(* The checkout service's PlaceOrder (src/src/checkout/main.go) together   *)
(* with what it races against: the cart of the user, which the frontend    *)
(* keeps adding to, and the payment, shipping and cart services, whose     *)
(* answers may be lost.  An operator may turn the flags at any time, so a  *)
(* flag that is read has any of its values.                                *)
(*                                                                         *)
(* A call that changes a service is three steps: PlaceOrder sends it, the  *)
(* service performs it, PlaceOrder receives the answer or an error.  An    *)
(* error says nothing about the service: a call given up on (connection    *)
(* lost, context cancelled, checkout restarted) may still be performed     *)
(* later.  Calls that only read are one step.                              *)
(*                                                                         *)
(* A cart line stands for one AddItem call: its product and quantity.  The *)
(* cart service is that of module CartCalls, which module CartStore        *)
(* implements.                                                             *)
(***************************************************************************)
EXTENDS Naturals, FiniteSets

CONSTANTS Users,
          Requests,     \* PlaceOrder requests, retries among them
          Lines,        \* AddItem calls
          UserOf,       \* [Requests -> Users]
          OwnerOf,      \* [Lines -> Users]
          PriceUsd,     \* [Lines -> Nat]: unit price in US dollars
          PriceLocal,   \* [Lines -> Nat]: the same in the user's currency
          Thresholds,   \* settings of the flag checkoutFailureThreshold
          KafkaEnabled  \* kafkaBrokerSvcAddr # ""

ASSUME CheckoutAssumption ==
    /\ UserOf \in [Requests -> Users]
    /\ OwnerOf \in [Lines -> Users]
    /\ PriceUsd \in [Lines -> Nat]
    /\ PriceLocal \in [Lines -> Nat]
    /\ Thresholds \subseteq Nat
    /\ 0 \in Thresholds
    /\ KafkaEnabled \in BOOLEAN

VARIABLES
    \* the cart service and the AddItem calls it is serving
    cart,         \* [Users -> SUBSET Lines]: the stored carts
    addPc,        \* [Lines -> {"new", "read", "added", "failed"}]
    addRead,      \* [Lines -> SUBSET Lines]: the cart AddItem has read
    \* PlaceOrder, one activation per request
    pc,           \* where the activation is
    items,        \* the cart it has read: prep.cartItems
    checked,      \* the threshold checkExpensiveItems has read
    rpc,          \* its outstanding call, and whether it was performed
    reply,        \* the status returned to the frontend
    \* the services it changes
    payments,     \* [Requests -> Nat]: charges made by the payment service
    paidFor,      \* the goods charged
    shipments,    \* [Requests -> Nat]: shipments made
    shippedLines, \* the goods shipped
    emails,       \* requests whose confirmation was sent
    records,      \* requests published on the topic orders
    \* history, read by the properties only
    emptied,      \* requests whose EmptyCart was performed
    emptiedSeen,  \* of each request, those emptied when it read the cart
    crossed       \* of each AddItem, those emptied while it was under way

cartVars == <<cart, addPc, addRead>>
orderVars == <<pc, items, checked, rpc, reply>>
worldVars == <<payments, paidFor, shipments, shippedLines, emails, records>>
historyVars == <<emptied, emptiedSeen, crossed>>

vars == <<cartVars, orderVars, worldVars, historyVars>>

Steps == {"idle", "prepare", "check", "report", "total", "charging",
          "shipping", "emptying", "confirming", "publishing", "end"}

Calls == {"none", "charge", "charged", "ship", "shipped", "empty", "emptied"}

Statuses == {"none", "OK", "Internal", "FailedPrecondition", "Unavailable",
             "lost"}

Carts == INSTANCE CartCalls

Init ==
    /\ Carts!Init
    /\ pc = [r \in Requests |-> "idle"]
    /\ items = [r \in Requests |-> {}]
    /\ checked = [r \in Requests |-> 0]
    /\ rpc = [r \in Requests |-> "none"]
    /\ reply = [r \in Requests |-> "none"]
    /\ payments = [r \in Requests |-> 0]
    /\ paidFor = [r \in Requests |-> {}]
    /\ shipments = [r \in Requests |-> 0]
    /\ shippedLines = [r \in Requests |-> {}]
    /\ emails = {}
    /\ records = {}
    /\ emptied = {}
    /\ emptiedSeen = [r \in Requests |-> {}]
    /\ crossed = [l \in Lines |-> {}]

-----------------------------------------------------------------------------
(***************************************************************************)
(* The cart service.                                                       *)
(***************************************************************************)

AddItemRead(l) ==
    /\ Carts!AddItemRead(l)
    /\ UNCHANGED <<orderVars, worldVars, historyVars>>

AddItemWrite(l) ==
    /\ Carts!AddItemWrite(l)
    /\ UNCHANGED <<orderVars, worldVars, historyVars>>

\* One that fails before it has read is one that never begins.
AddItemFail(l) ==
    /\ addPc[l] = "read"
    /\ Carts!AddItemFail({l})
    /\ UNCHANGED <<orderVars, worldVars, historyVars>>

\* The user empties the cart, or its 60 minutes are over.
ClearCart(u) ==
    /\ cart[u] # {}
    /\ Carts!Clear({u})
    /\ UNCHANGED <<orderVars, worldVars, historyVars>>

-----------------------------------------------------------------------------
(***************************************************************************)
(* PlaceOrder.                                                             *)
(***************************************************************************)
GoTo(r, step) == pc' = [pc EXCEPT ![r] = step]

Return(r, status) ==
    /\ GoTo(r, "end")
    /\ reply' = [reply EXCEPT ![r] = status]

\* getUserCart
ReadCart(r) ==
    /\ pc[r] = "idle"
    /\ \/ /\ GoTo(r, "prepare")
          /\ items' = [items EXCEPT ![r] = cart[UserOf[r]]]
          /\ emptiedSeen' =
                [emptiedSeen EXCEPT
                    ![r] = {q \in emptied : UserOf[q] = UserOf[r]}]
          /\ UNCHANGED reply
       \/ /\ Return(r, "Internal")
          /\ UNCHANGED <<items, emptiedSeen>>
    /\ UNCHANGED <<cartVars, checked, rpc, worldVars, emptied, crossed>>

\* prepOrderItems, quoteShipping and convertCurrency, any of which may fail.
PrepareOrder(r) ==
    /\ pc[r] = "prepare"
    /\ \/ GoTo(r, "check") /\ UNCHANGED reply
       \/ Return(r, "Internal")
    /\ UNCHANGED <<cartVars, items, checked, rpc, worldVars, historyVars>>

(***************************************************************************)
(* The price checkExpensiveItems compares: in dollars or, of a line whose  *)
(* conversion fails, the price in the user's currency as it stands.        *)
(***************************************************************************)
ComparedPrice(l, unconverted) ==
    IF l \in unconverted THEN PriceLocal[l] ELSE PriceUsd[l]

\* Seeded bug: one item within the limit is enough.
AllTooExpensive(lines, unconverted, limit) ==
    /\ limit # 0
    /\ \A l \in lines : ComparedPrice(l, unconverted) > limit

TooExpensive(lines, unconverted, limit) ==
    /\ limit # 0
    /\ \E l \in lines : ComparedPrice(l, unconverted) > limit

\* Seeded bug: the threshold recorded is off by one.
CheckExpensiveItemsOffByOne(r) ==
    /\ pc[r] = "check"
    /\ \E threshold \in Thresholds :
          /\ checked' = [checked EXCEPT ![r] = threshold + 1]
          /\ IF TooExpensive(items[r], {}, threshold)
             THEN GoTo(r, "report")
             ELSE GoTo(r, "total")
    /\ UNCHANGED <<cartVars, items, rpc, reply, worldVars, historyVars>>

CheckExpensiveItems(r) ==
    /\ pc[r] = "check"
    /\ \E threshold \in Thresholds, unconverted \in SUBSET items[r] :
          /\ checked' = [checked EXCEPT ![r] = threshold]
          /\ IF TooExpensive(items[r], unconverted, threshold)
             THEN GoTo(r, "report")
             ELSE GoTo(r, "total")
    /\ UNCHANGED <<cartVars, items, rpc, reply, worldVars, historyVars>>

\* generateTechnicalErrorDetails, and the error returned with it.
RejectOrder(r) ==
    /\ pc[r] = "report"
    /\ Return(r, "FailedPrecondition")
    /\ UNCHANGED <<cartVars, items, checked, rpc, worldVars, historyVars>>

(***************************************************************************)
(* The total is computed and the charge is sent, or fails without being    *)
(* sent: no connection, or the flag paymentUnreachable is on.              *)
(***************************************************************************)
ChargeCard(r) ==
    /\ pc[r] = "total"
    /\ \/ /\ GoTo(r, "charging")
          /\ rpc' = [rpc EXCEPT ![r] = "charge"]
          /\ UNCHANGED reply
       \/ /\ Return(r, "Internal")
          /\ UNCHANGED rpc
    /\ UNCHANGED <<cartVars, items, checked, worldVars, historyVars>>

\* Seeded bug: the order is shipped without waiting for the charge.
ShipOrderUncharged(r) ==
    /\ pc[r] = "charging"
    /\ GoTo(r, "shipping")
    /\ rpc' = [rpc EXCEPT ![r] = "ship"]
    /\ UNCHANGED <<cartVars, items, checked, reply, worldVars, historyVars>>

\* The charge went through: shipOrder.
ShipOrder(r) ==
    /\ pc[r] = "charging"
    /\ rpc[r] = "charged"
    /\ GoTo(r, "shipping")
    /\ rpc' = [rpc EXCEPT ![r] = "ship"]
    /\ UNCHANGED <<cartVars, items, checked, reply, worldVars, historyVars>>

\* "failed to charge card": the order is given up.
ChargeError(r) ==
    /\ pc[r] = "charging"
    /\ Return(r, "Internal")
    /\ UNCHANGED <<cartVars, items, checked, rpc, worldVars, historyVars>>

\* Seeded bug: the cart is emptied without waiting for the shipment.
EmptyUserCartUnshipped(r) ==
    /\ pc[r] = "shipping"
    /\ GoTo(r, "emptying")
    /\ rpc' = [rpc EXCEPT ![r] = "empty"]
    /\ UNCHANGED <<cartVars, items, checked, reply, worldVars, historyVars>>

\* The shipment went through: emptyUserCart.
EmptyUserCart(r) ==
    /\ pc[r] = "shipping"
    /\ rpc[r] = "shipped"
    /\ GoTo(r, "emptying")
    /\ rpc' = [rpc EXCEPT ![r] = "empty"]
    /\ UNCHANGED <<cartVars, items, checked, reply, worldVars, historyVars>>

\* Seeded bug: reported like a failed charge.
ShipErrorAsCharge(r) ==
    /\ pc[r] = "shipping"
    /\ Return(r, "Internal")
    /\ UNCHANGED <<cartVars, items, checked, rpc, worldVars, historyVars>>

\* "shipping error": the order is given up, though the card was charged.
ShipError(r) ==
    /\ pc[r] = "shipping"
    /\ Return(r, "Unavailable")
    /\ UNCHANGED <<cartVars, items, checked, rpc, worldVars, historyVars>>

\* emptyUserCart has returned; whether with an error is ignored.
CartEmptied(r) ==
    /\ pc[r] = "emptying"
    /\ GoTo(r, "confirming")
    /\ UNCHANGED <<cartVars, items, checked, rpc, reply, worldVars, historyVars>>

\* sendOrderConfirmation; a failure is logged, and the mail may be out or not.
SendOrderConfirmation(r) ==
    /\ pc[r] = "confirming"
    /\ emails' \in {emails, emails \cup {r}}
    /\ IF KafkaEnabled
       THEN GoTo(r, "publishing") /\ UNCHANGED reply
       ELSE Return(r, "OK")
    /\ UNCHANGED <<cartVars, items, checked, rpc, payments, paidFor, shipments,
                   shippedLines, records, historyVars>>

\* sendToPostProcessor (module PostProcessor), and the response.
SendToPostProcessor(r) ==
    /\ pc[r] = "publishing"
    /\ records' \in {records, records \cup {r}}
    /\ Return(r, "OK")
    /\ UNCHANGED <<cartVars, items, checked, rpc, payments, paidFor, shipments,
                   shippedLines, emails, historyVars>>

InProgress(r) == pc[r] \notin {"idle", "end"}

(***************************************************************************)
(* The checkout process dies with every activation in it: because a total  *)
(* cannot be summed and money.Must panics, or because it is restarted.     *)
(***************************************************************************)
ProcessDies ==
    /\ pc' = [r \in Requests |-> IF InProgress(r) THEN "end" ELSE pc[r]]
    /\ reply' = [r \in Requests |-> IF InProgress(r) THEN "lost" ELSE reply[r]]
    /\ UNCHANGED <<cartVars, items, checked, rpc, worldVars, historyVars>>

\* Which amounts cannot be summed is the matter of module OrderTotal; the cost
\* of shipping, a random quote, is one of them, so that any total may fail.
TotalPanics(r) ==
    /\ pc[r] = "total"
    /\ ProcessDies

Restart ==
    /\ \E r \in Requests : InProgress(r)
    /\ ProcessDies

-----------------------------------------------------------------------------
(***************************************************************************)
(* The services perform the calls sent to them, at any later time.         *)
(***************************************************************************)

\* Seeded bug: the charge is delivered again after it was made.
PerformChargeAgain(r) ==
    /\ rpc[r] \in {"charge", "charged"}
    /\ payments[r] < 2
    /\ rpc' = [rpc EXCEPT ![r] = "charged"]
    /\ payments' = [payments EXCEPT ![r] = @ + 1]
    /\ paidFor' = [paidFor EXCEPT ![r] = items[r]]
    /\ UNCHANGED <<cartVars, pc, items, checked, reply, shipments, shippedLines,
                   emails, records, historyVars>>

\* payment: charge.js.  The amount is the total of prep.orderItems.
PerformCharge(r) ==
    /\ rpc[r] = "charge"
    /\ rpc' = [rpc EXCEPT ![r] = "charged"]
    /\ payments' = [payments EXCEPT ![r] = @ + 1]
    /\ paidFor' = [paidFor EXCEPT ![r] = items[r]]
    /\ UNCHANGED <<cartVars, pc, items, checked, reply, shipments, shippedLines,
                   emails, records, historyVars>>

\* payment: a simulated failure, or a card that is not accepted.
RefuseCharge(r) ==
    /\ rpc[r] = "charge"
    /\ rpc' = [rpc EXCEPT ![r] = "none"]
    /\ UNCHANGED <<cartVars, pc, items, checked, reply, worldVars, historyVars>>

\* shipping: ship_order.
PerformShip(r) ==
    /\ rpc[r] = "ship"
    /\ rpc' = [rpc EXCEPT ![r] = "shipped"]
    /\ shipments' = [shipments EXCEPT ![r] = @ + 1]
    /\ shippedLines' = [shippedLines EXCEPT ![r] = items[r]]
    /\ UNCHANGED <<cartVars, pc, items, checked, reply, payments, paidFor,
                   emails, records, historyVars>>

\* Seeded bug: the call succeeds and the stored cart stays.
PerformEmptyInVain(r) ==
    /\ rpc[r] = "empty"
    /\ rpc' = [rpc EXCEPT ![r] = "emptied"]
    /\ emptied' = emptied \cup {r}
    /\ UNCHANGED <<cartVars, pc, items, checked, reply, worldVars, emptiedSeen,
                   crossed>>

\* cart: EmptyCartAsync writes an empty cart over whatever is stored.
PerformEmpty(r) ==
    /\ rpc[r] = "empty"
    /\ rpc' = [rpc EXCEPT ![r] = "emptied"]
    /\ Carts!Clear({UserOf[r]})
    /\ emptied' = emptied \cup {r}
    /\ crossed' = [l \in Lines |->
                      IF addPc[l] = "read" /\ OwnerOf[l] = UserOf[r]
                      THEN crossed[l] \cup {r} ELSE crossed[l]]
    /\ UNCHANGED <<pc, items, checked, reply, worldVars, emptiedSeen>>

PlaceOrder(r) ==
    \/ ReadCart(r) \/ PrepareOrder(r) \/ CheckExpensiveItems(r)
    \/ RejectOrder(r) \/ ChargeCard(r) \/ ShipOrder(r) \/ ChargeError(r)
    \/ EmptyUserCart(r) \/ ShipError(r) \/ CartEmptied(r)
    \/ SendOrderConfirmation(r) \/ SendToPostProcessor(r) \/ TotalPanics(r)

Services(r) ==
    PerformCharge(r) \/ RefuseCharge(r) \/ PerformShip(r) \/ PerformEmpty(r)

Next ==
    \/ \E l \in Lines : AddItemRead(l) \/ AddItemWrite(l) \/ AddItemFail(l)
    \/ \E u \in Users : ClearCart(u)
    \/ \E r \in Requests : PlaceOrder(r) \/ Services(r)
    \/ Restart

Spec == Init /\ [][Next]_vars

-----------------------------------------------------------------------------
TypeOK ==
    /\ cart \in [Users -> SUBSET Lines]
    /\ addPc \in [Lines -> {"new", "read", "added", "failed"}]
    /\ addRead \in [Lines -> SUBSET Lines]
    /\ pc \in [Requests -> Steps]
    /\ items \in [Requests -> SUBSET Lines]
    /\ checked \in [Requests -> Thresholds]
    /\ rpc \in [Requests -> Calls]
    /\ reply \in [Requests -> Statuses]
    /\ payments \in [Requests -> Nat]
    /\ paidFor \in [Requests -> SUBSET Lines]
    /\ shipments \in [Requests -> Nat]
    /\ shippedLines \in [Requests -> SUBSET Lines]
    /\ emails \subseteq Requests
    /\ records \subseteq Requests
    /\ emptied \subseteq Requests
    /\ emptiedSeen \in [Requests -> SUBSET Requests]
    /\ crossed \in [Lines -> SUBSET Requests]

(***************************************************************************)
(* Whatever is lost, late or restarted, nothing leaves the warehouse that  *)
(* was not paid for by the same request, line for line, and no request is  *)
(* paid or shipped twice (PlaceOrder, lines 292-303).                      *)
(***************************************************************************)
ShippedWasPaid ==
    \A r \in Requests :
        /\ payments[r] <= 1
        /\ shipments[r] <= payments[r]
        /\ shipments[r] = 1 => shippedLines[r] = paidFor[r]

(***************************************************************************)
(* The gRPC status tells the customer what has become of the money.  OK:   *)
(* paid and shipped, exactly the cart that was read.  FailedPrecondition:  *)
(* neither, and no late charge can arrive either.  Unavailable: charged,   *)
(* with no refund anywhere in the code.  Internal: not shipped, though a   *)
(* charge may have been made (lines 265, 280, 294, 302, 340).              *)
(***************************************************************************)
StatusTellsFate ==
    \A r \in Requests :
        /\ reply[r] = "OK" =>
              /\ payments[r] = 1 /\ paidFor[r] = items[r]
              /\ shipments[r] = 1 /\ shippedLines[r] = items[r]
        /\ reply[r] = "FailedPrecondition" =>
              payments[r] = 0 /\ shipments[r] = 0 /\ rpc[r] = "none"
        /\ reply[r] = "Unavailable" => payments[r] = 1
        /\ reply[r] = "Internal" => shipments[r] = 0

(***************************************************************************)
(* What the rest of the system hears of an order, it hears of a shipped    *)
(* one: the confirmation mail, the record for accounting and fraud         *)
(* detection, and the emptied cart (lines 307, 328, 337).                  *)
(***************************************************************************)
AnnouncedWasShipped ==
    \A r \in emails \cup records \cup emptied : shipments[r] = 1

(***************************************************************************)
(* An order is paid for only if no unit price in it was above the          *)
(* threshold in force when it was checked, in dollars or, where the        *)
(* conversion failed, in the user's currency (lines 628-673).              *)
(***************************************************************************)
PaidPassedCheck ==
    \A r \in Requests : payments[r] > 0 /\ checked[r] # 0 =>
        \A l \in paidFor[r] :
            PriceUsd[l] <= checked[r] \/ PriceLocal[l] <= checked[r]

(***************************************************************************)
(* Goods are ordered a second time by a request that reads the cart after  *)
(* an earlier order has emptied it only if an AddItem was under way at     *)
(* that moment and has brought the emptied lines back: otherwise a retry,  *)
(* or the customer's next order, cannot charge for them again.             *)
(***************************************************************************)
BroughtBack(q) == \E l \in Lines : addPc[l] = "added" /\ q \in crossed[l]

NoSecondOrder ==
    \A r \in Requests : \A q \in emptiedSeen[r] :
        items[q] \cap items[r] # {} => BroughtBack(q)

(***************************************************************************)
(* The description of the flag: "Fail checkout for orders containing items *)
(* above this price threshold (in USD)" (src/src/flagd/demo.flagd.json:110). *)
(***************************************************************************)
NoItemAboveThreshold ==
    \A r \in Requests : payments[r] > 0 /\ checked[r] # 0 =>
        \A l \in paidFor[r] : PriceUsd[l] <= checked[r]

(***************************************************************************)
(* Checkout keeps the promises of OrderLedger.                             *)
(***************************************************************************)
OutcomeOf(status) ==
    CASE status = "none" -> "open"
      [] status = "OK" -> "confirmed"
      [] status = "FailedPrecondition" -> "rejected"
      [] OTHER -> "failed"

Ledger == INSTANCE OrderLedger
            WITH outcome <- [r \in Requests |-> OutcomeOf(reply[r])]

LedgerSpec == Ledger!Spec
=============================================================================
