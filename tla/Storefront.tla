----------------------------- MODULE Storefront -----------------------------
(***************************************************************************)
(* The customer's side of the cart and of an order: what a page shows, the *)
(* buttons it offers and the routes they call (src/src/frontend).          *)
(*                                                                         *)
(*   pages/api/{cart,checkout}.ts  the routes; utils/Request.ts calls them *)
(*   providers/Cart.provider.tsx   the cart as a query for each currency,  *)
(*                                 and the calls that change it            *)
(*   components/Cart/CartDetail.tsx, CheckoutForm.tsx  the cart page       *)
(*   pages/product                 the page goods are added from           *)
(*                                                                         *)
(* The mobile app (src/src/react-native-app) is built from copies of these *)
(* files; where it differs, `client' tells the two apart.  It has one      *)
(* currency, no state of the form, and takes any JSON for a success.       *)
(*                                                                         *)
(* Queries and mutations are those of the library @tanstack/react-query.   *)
(* The cart is the set of lines added to it; behind the routes an order    *)
(* takes it and empties it in one step (module Checkout has the steps).    *)
(* A change of the cart has a number, which no code knows: it says how old *)
(* what a page shows is.                                                   *)
(***************************************************************************)
EXTENDS Integers, FiniteSets

CONSTANTS Adds,       \* clicks on Add To Cart
          Clears,     \* clicks on Empty Cart
          Orders,     \* clicks on Place Order
          Currencies, \* the currencies a customer chooses from
          Sessions,   \* what a customer may do (bound of the model): the
                      \* client, calls and currencies, the cart found at
                      \* first, and whether there is another tab
          Other,      \* a line added elsewhere: before, or by another tab
          NoOrder

Calls == Adds \cup Clears \cup Orders
Lines == Adds \cup {Other}

ASSUME StorefrontAssumption ==
    /\ IsFiniteSet(Calls)
    /\ Orders \cap (Adds \cup Clears) = {}
    /\ NoOrder \notin Orders
    /\ Sessions \subseteq [client : {"web", "app"}, calls : SUBSET Calls,
                           currencies : SUBSET Currencies,
                           cart : SUBSET Lines, tab : BOOLEAN]

VARIABLES session,    \* one of Sessions
          cart,       \* the cart service: lines in the cart
          changes,    \* how often the cart was changed
          otherAt,    \* the number of the other tab's change; 0 before it
          call,       \* each call as the client sees it
          server,     \* each call as its route sees it
          at,         \* the number of the change a call made; 0 before it
          selected,   \* selectedCurrency
          data,       \* the query's data for each currency
          fetch,      \* the query's fetch for each currency
          failed,     \* currencies whose last fetch failed
          overtaken,  \* currencies whose last fetch an acknowledged change
                      \* has overtaken
          page,       \* where the customer is
          form,       \* the state of the mounted CartDetail
          seen,       \* the cart shown when an order was submitted
          ordered,    \* what was ordered
          calm        \* orders whose customer waits for every answer

cartVars == <<cart, changes, otherAt>>
callVars == <<call, server, at>>
queryVars == <<selected, data, fetch, failed, overtaken>>
pageVars == <<page, form>>
orderVars == <<seen, ordered, calm>>
vars == <<session, cartVars, callVars, queryVars, pageVars, orderVars>>

-----------------------------------------------------------------------------
client == session.client \* "web" or "app"

NoData == [lines |-> {}, change |-> -1]
Idle == [step |-> "idle", got |-> NoData]
Asked == [step |-> "asked", got |-> NoData]

\* The cart of the provider: empty until there is data.
Shown == data[selected].lines

\* pages/cart: CartDetail for a cart that is not empty, else EmptyCart.
Mounted == page = "cart" /\ Shown # {}

NoForm == [submitting |-> FALSE, error |-> NoOrder, ticket |-> NoOrder,
           last |-> NoOrder, own |-> {}, erased |-> {}]

\* A form that is unmounted loses its state.
Render(state) == form' = IF Mounted' THEN state ELSE NoForm

Init ==
    /\ session \in Sessions
    /\ cart = session.cart /\ changes = 0 /\ otherAt = 0
    /\ call = [c \in Calls |-> "none"]
    /\ server = [c \in Calls |-> "idle"]
    /\ at = [c \in Calls |-> 0]
    /\ selected \in session.currencies
    /\ data = [c \in Currencies |-> NoData]
    /\ fetch = [c \in Currencies |-> IF c = selected THEN Asked ELSE Idle]
    /\ failed = {} /\ overtaken = {}
    /\ page = "product"
    /\ form = NoForm
    /\ seen = [o \in Orders |-> NoData]
    /\ ordered = [o \in Orders |-> {}]
    /\ calm = {}

-----------------------------------------------------------------------------
(* The query for the cart.  A fetch under way is joined, not repeated,     *)
(* except by an invalidation, which repeats it once there is data.         *)

Start(c) ==
    /\ fetch' = [fetch EXCEPT ![c] = Asked]
    /\ failed' = failed \ {c}
    /\ overtaken' = overtaken \ {c}

Join(c) ==
    IF fetch[c].step = "idle" THEN Start(c)
    ELSE UNCHANGED <<fetch, failed, overtaken>>

\* Seeded bug: an invalidation joins the fetch that is under way.
InvalidateJoining == Join(selected) /\ UNCHANGED <<selected, data>>

\* Seeded bug: the query is not told that the cart has changed.
InvalidateNothing == UNCHANGED queryVars

\* onSuccess of the mutations: invalidateQueries.
Invalidate ==
    LET repeated == fetch[selected].step = "idle" \/ data[selected] # NoData
        late == {c \in Currencies : fetch[c].step = "read"}
    IN  /\ fetch' = IF repeated THEN [fetch EXCEPT ![selected] = Asked] ELSE fetch
        /\ failed' = failed \ {selected}
        /\ overtaken' = IF repeated THEN (overtaken \cup late) \ {selected}
                        ELSE overtaken \cup late
        /\ UNCHANGED <<selected, data>>

\* The route reads the cart and looks up its products.
GetCart(c) ==
    /\ fetch[c].step = "asked"
    /\ fetch' = [fetch EXCEPT ![c] =
                     [step |-> "read",
                      got |-> [lines |-> cart, change |-> changes]]]
    /\ UNCHANGED <<session, cartVars, callVars, selected, data, failed,
                   overtaken, pageVars, orderVars>>

FetchDone(c) ==
    /\ fetch[c].step = "read"
    /\ data' = [data EXCEPT ![c] = fetch[c].got]
    /\ fetch' = [fetch EXCEPT ![c] = Idle]
    /\ UNCHANGED <<selected, page>>
    /\ Render(form)
    /\ UNCHANGED <<session, cartVars, callVars, failed, overtaken, orderVars>>

\* An attempt failed and is repeated; after the last the old data stays.
FetchFails(c) ==
    /\ fetch[c].step # "idle"
    /\ \/ Start(c) /\ fetch[c].step = "read"
       \/ /\ fetch' = [fetch EXCEPT ![c] = Idle]
          /\ failed' = failed \cup {c}
          /\ UNCHANGED overtaken
    /\ UNCHANGED <<session, cartVars, callVars, selected, data, pageVars,
                   orderVars>>

\* The window has the focus again.
Focus ==
    /\ client = "web"
    /\ Join(selected)
    /\ UNCHANGED <<session, cartVars, callVars, selected, data, pageVars,
                   orderVars>>

SelectCurrency(c) ==
    /\ client = "web" /\ c \in session.currencies \ {selected}
    /\ selected' = c
    /\ Join(c)
    /\ UNCHANGED <<data, page>>
    /\ Render(form)
    /\ UNCHANGED <<session, cartVars, callVars, orderVars>>

-----------------------------------------------------------------------------
(* The customer.                                                           *)

Go(where) ==
    /\ where \in {"product", "cart"} \ {page}
    /\ page' = where
    /\ UNCHANGED queryVars
    /\ Render(form)
    /\ UNCHANGED <<session, cartVars, callVars, orderVars>>

Send(c) ==
    /\ c \in session.calls /\ call[c] = "none"
    /\ call' = [call EXCEPT ![c] = "sent"]
    /\ UNCHANGED <<session, cartVars, server, at, queryVars, page>>

\* Whoever sends something else does not wait for an earlier order.
Waiting == {o \in calm : call[o] = "ok"}

AddItem(a) ==
    /\ page = "product"
    /\ Send(a)
    /\ calm' = Waiting
    /\ UNCHANGED <<form, seen, ordered>>

EmptyCart(e) ==
    /\ Mounted
    /\ Send(e)
    /\ calm' = Waiting
    /\ UNCHANGED <<form, seen, ordered>>

\* Every call was answered with success and what is shown was read since.
AllAnswered ==
    /\ \A c \in Calls : call[c] \in {"none", "ok"}
    /\ fetch[selected].step = "idle"
    /\ selected \notin failed \cup overtaken

\* onPlaceOrder, up to its await.
Submit(o) ==
    /\ Mounted
    /\ Send(o)
    /\ seen' = [seen EXCEPT ![o] = data[selected]]
    /\ calm' = Waiting \cup (IF AllAnswered THEN {o} ELSE {})
    /\ UNCHANGED ordered

Submitted(o) == [form EXCEPT !.submitting = TRUE, !.error = NoOrder,
                             !.last = o, !.own = @ \cup {o}]

\* Seeded bug: the button is not disabled while an order is under way.
PlaceOrderTwice(o) ==
    client = "web" /\ Submit(o) /\ form' = Submitted(o)

\* The button of CheckoutForm.
PlaceOrder(o) ==
    /\ client = "web" /\ ~form.submitting
    /\ Submit(o)
    /\ form' = Submitted(o)

\* The app's button is never disabled and its form has no state.
AppPlaceOrder(o) == client = "app" /\ Submit(o) /\ UNCHANGED form

\* onSupportRequest, for the error that is shown.
SendTicket ==
    /\ client = "web" /\ ~form.submitting
    /\ form.error # NoOrder /\ form.ticket = NoOrder
    /\ form' = [form EXCEPT !.ticket = form.error]
    /\ UNCHANGED <<session, cartVars, callVars, queryVars, page, orderVars>>

\* Success removes whatever error is shown by now.
TicketAnswered ==
    /\ form.ticket # NoOrder
    /\ \/ form' = [form EXCEPT !.ticket = NoOrder]
       \/ form' = [form EXCEPT !.ticket = NoOrder, !.error = NoOrder,
                               !.erased = @ \cup {form.error}]
    /\ UNCHANGED <<session, cartVars, callVars, queryVars, page, orderVars>>

-----------------------------------------------------------------------------
(* The routes.                                                             *)

\* The call behind route c has changed the cart.
Change(c, lines) ==
    /\ call[c] # "none" /\ server[c] = "idle"
    /\ cart' = lines
    /\ changes' = changes + 1
    /\ at' = [at EXCEPT ![c] = changes']
    /\ server' = [server EXCEPT ![c] = IF c \in Clears THEN "ok" ELSE "changed"]
    /\ UNCHANGED <<session, otherAt, call, queryVars, pageVars, seen, calm>>

PerformAdd(a) == Change(a, cart \cup {a}) /\ UNCHANGED ordered

PerformEmpty(e) == Change(e, {}) /\ UNCHANGED ordered

\* The order takes what the cart holds now; emptying it may fail.
PerformOrder(o) ==
    /\ \E lines \in {cart, {}} : Change(o, lines)
    /\ ordered' = [ordered EXCEPT ![o] = cart]

\* The call behind the route fails and changes nothing.
Refuse(c) ==
    /\ call[c] # "none" /\ server[c] = "idle"
    /\ server' = [server EXCEPT ![c] = "error"]
    /\ UNCHANGED <<session, cartVars, call, at, queryVars, pageVars, orderVars>>

\* POST /api/cart reads the cart, POST /api/checkout looks up the products.
\* If that fails the route answers with an error, whatever has been changed.
LookUp(c) ==
    /\ server[c] = "changed"
    /\ \E outcome \in {"ok", "error"} :
           server' = [server EXCEPT ![c] = outcome]
    /\ UNCHANGED <<session, cartVars, call, at, queryVars, pageVars, orderVars>>

\* Another tab of the browser has the same session.
OtherTab ==
    /\ session.tab /\ otherAt = 0
    /\ cart' \in {cart \cup {Other}, {}}
    /\ changes' = changes + 1
    /\ otherAt' = changes'
    /\ UNCHANGED <<session, callVars, queryVars, pageVars, orderVars>>

-----------------------------------------------------------------------------
(* Answers.                                                                *)

\* Request.ts throws on an error.  The app's copy does not: it throws when
\* an answer is not JSON, and the errors of the checkout route are.
WebSuccess(c) == server[c] = "ok"
AppSuccess(c) == server[c] = "ok" \/ (c \in Orders /\ server[c] = "error")

Success(c) == IF client = "web" THEN WebSuccess(c) ELSE AppSuccess(c)

Ends(c, outcome) ==
    /\ call[c] = "sent"
    /\ call' = [call EXCEPT ![c] = outcome]
    /\ UNCHANGED <<session, cartVars, server, at, orderVars>>

\* Where the customer is taken: by the push that follows addItem and
\* placeOrder, in the app by the replace that follows placeOrder.
WebPush(c) ==
    CASE c \in Orders -> "complete"
      [] c \in Adds -> "cart"
      [] OTHER -> page

\* Seeded bug: the order is where the app returns to.
AppPushToOrder(c) == IF c \in Orders THEN c ELSE page

AppPush(c) == IF c \in Orders THEN "product" ELSE page

Succeeds(c) ==
    /\ Success(c)
    /\ Ends(c, "ok")
    /\ Invalidate
    /\ page' = IF client = "web" THEN WebPush(c) ELSE AppPush(c)
    /\ Render(IF c \in form.own THEN [form EXCEPT !.submitting = FALSE] ELSE form)

\* Seeded bug: the form is not released when an order fails.
AfterErrorStuck(c) ==
    IF c \in form.own THEN [form EXCEPT !.error = c] ELSE form

\* The catch and finally of onPlaceOrder, in the form that sent the order.
AfterError(c) ==
    IF c \in form.own THEN [form EXCEPT !.error = c, !.submitting = FALSE]
    ELSE form

Unsuccessful(c, outcome) ==
    /\ Ends(c, outcome)
    /\ UNCHANGED <<queryVars, page>>
    /\ Render(AfterError(c))

\* The answer is an error.
Fails(c) ==
    /\ server[c] = "error" /\ ~Success(c)
    /\ Unsuccessful(c, "failed")

\* There is no answer, whatever the route has done or is still to do.
Loses(c) == Unsuccessful(c, "lost")

Customer ==
    \/ \E where \in {"product", "cart"} : Go(where)
    \/ \E c \in Currencies : SelectCurrency(c)
    \/ \E a \in Adds : AddItem(a)
    \/ \E e \in Clears : EmptyCart(e)
    \/ \E o \in Orders : PlaceOrder(o) \/ AppPlaceOrder(o)
    \/ Focus
    \/ SendTicket

Query == \E c \in Currencies : GetCart(c) \/ FetchDone(c) \/ FetchFails(c)

Route(c) ==
    \/ c \in Adds /\ PerformAdd(c)
    \/ c \in Clears /\ PerformEmpty(c)
    \/ c \in Orders /\ PerformOrder(c)
    \/ Refuse(c)
    \/ LookUp(c)

Answer(c) == Succeeds(c) \/ Fails(c) \/ Loses(c)

Next ==
    \/ Customer
    \/ Query
    \/ TicketAnswered
    \/ OtherTab
    \/ \E c \in Calls : Route(c) \/ Answer(c)

\* The answer of a route, or the loss of it, comes to the client.
Fairness == \A o \in Orders : WF_vars(Answer(o))

Spec == Init /\ [][Next]_vars /\ Fairness

-----------------------------------------------------------------------------
Cached == [lines : SUBSET Lines, change : -1 .. Cardinality(Calls) + 1]

TypeOK ==
    /\ session \in Sessions
    /\ cart \subseteq Lines
    /\ changes \in 0 .. Cardinality(Calls) + 1
    /\ otherAt \in 0 .. changes
    /\ call \in [Calls -> {"none", "sent", "ok", "failed", "lost"}]
    /\ server \in [Calls -> {"idle", "changed", "ok", "error"}]
    /\ at \in [Calls -> 0 .. changes]
    /\ selected \in Currencies /\ failed \cup overtaken \subseteq Currencies
    /\ data \in [Currencies -> Cached]
    /\ fetch \in [Currencies -> [step : {"idle", "asked", "read"}, got : Cached]]
    /\ page \in {"product", "cart", "complete"}
    /\ form.submitting \in BOOLEAN
    /\ {form.error, form.ticket, form.last} \subseteq Orders \cup {NoOrder}
    /\ form.own \subseteq Orders /\ calm \subseteq Orders
    /\ ordered \in [Orders -> SUBSET Lines]

-----------------------------------------------------------------------------
Changed(c) == at[c] # 0

\* The query of the selected currency has come to rest, with data.
Settled ==
    /\ fetch[selected].step = "idle" /\ selected \notin failed
    /\ data[selected] # NoData

(***************************************************************************)
(* Once a change is acknowledged and the query has come to rest, the page  *)
(* shows a cart with that change.  The one exception is a fetch that had   *)
(* read the cart before the change and was not repeated, because its       *)
(* currency was not selected then or it was the first: the query joins it, *)
(* and what it brings is shown until the next occasion to fetch.           *)
(***************************************************************************)
AcknowledgedIsShown ==
    \A c \in Calls :
        Settled /\ call[c] = "ok" /\ selected \notin overtaken =>
            data[selected].change >= at[c]

(***************************************************************************)
(* What is ordered is what the cart page showed, although PlaceOrder is    *)
(* sent no items: for a customer who orders when every earlier call was    *)
(* answered with success and the page has come to rest, and who does       *)
(* nothing else until the order is answered, in the only tab.              *)
(***************************************************************************)
OrderedAsShown ==
    \A o \in calm :
        Changed(o) => \/ ordered[o] = seen[o].lines
                      \/ otherAt > seen[o].change

(***************************************************************************)
(* What the pages say of an order agrees with what became of its call.     *)
(* "Your order is complete" means that it was placed, except in the app,   *)
(* which says so of a checkout that failed.  The cart page processes at    *)
(* most one order that it knows of, and says so while it does.  It shows   *)
(* an error only of an order whose route answered with one or whose answer *)
(* was lost, and that of the latest such order, unless the answer to a     *)
(* support request removed it.  The order may have been placed all the     *)
(* same: see ErrorMeansNotPlaced.                                          *)
(***************************************************************************)
NotTold(o) == call[o] = "lost"
ToldError(o) == call[o] = "failed" /\ server[o] = "error"

ToldTheTruth ==
    LET processed == {o \in form.own : call[o] = "sent"}
    IN  /\ \A o \in Orders : call[o] = "ok" =>
                Changed(o) \/ (client = "app" /\ server[o] = "error")
        /\ Cardinality(processed) <= 1
        /\ form.submitting <=> processed # {}
        /\ form.error # NoOrder => ToldError(form.error) \/ NotTold(form.error)
        /\ form.last # NoOrder /\ call[form.last] \in {"failed", "lost"} =>
               form.error = form.last \/ form.last \in form.erased

(***************************************************************************)
(* "We're sorry your order couldn't be completed"                          *)
(* (components/SupportRequestForm/SupportRequestForm.tsx:55): an order     *)
(* whose error is shown, because the route answered with one, was not      *)
(* placed.  The route also does when the products of a placed order cannot *)
(* be looked up (pages/api/checkout.ts:21).                                *)
(***************************************************************************)
ErrorMeansNotPlaced ==
    form.error # NoOrder /\ ToldError(form.error) => ~Changed(form.error)

(***************************************************************************)
(* The button Place Order comes back: a form does not stay at              *)
(* "Processing..." whatever becomes of the order (the finally of           *)
(* CartDetail.tsx:98).                                                     *)
(***************************************************************************)
SubmittingEnds == form.submitting ~> ~form.submitting
=============================================================================
