-------------------------- MODULE StorefrontProofs --------------------------
(***************************************************************************)
(* Proofs about the web storefront, for any lines, calls, currencies and   *)
(* orders: what the order page says was placed is what the customer saw    *)
(* and what is acknowledged is shown.                                      *)
(***************************************************************************)
EXTENDS Storefront, FiniteSetTheorems, TLAPS

(***************************************************************************)
(* Types.  A snapshot of the cart is as old as some change.                *)
(***************************************************************************)
Snapshots == [lines : SUBSET Lines, change : Int]

Forms == [submitting : BOOLEAN, error : Orders \cup {NoOrder},
          ticket : Orders \cup {NoOrder}, last : Orders \cup {NoOrder},
          own : SUBSET Orders, erased : SUBSET (Orders \cup {NoOrder})]

TypeInv ==
    /\ session \in Sessions
    /\ cart \subseteq Lines /\ changes \in Nat /\ otherAt \in Nat
    /\ call \in [Calls -> {"none", "sent", "ok", "failed", "lost"}]
    /\ server \in [Calls -> {"idle", "changed", "ok", "error"}]
    /\ at \in [Calls -> Nat]
    /\ selected \in Currencies /\ failed \subseteq Currencies /\ overtaken \subseteq Currencies
    /\ data \in [Currencies -> Snapshots]
    /\ fetch \in [Currencies -> [step : {"idle", "asked", "read"}, got : Snapshots]]
    /\ page \in {"product", "cart", "complete"}
    /\ form \in Forms
    /\ seen \in [Orders -> Snapshots]
    /\ ordered \in [Orders -> SUBSET Lines]
    /\ calm \subseteq Orders

(***************************************************************************)
(* What the client knows of a call and what its route has done.            *)
(***************************************************************************)
CallInv ==
    \A c \in Calls :
        /\ call[c] = "none" => server[c] = "idle"
        /\ server[c] = "idle" => at[c] = 0
        /\ server[c] \in {"changed", "ok"} => at[c] # 0
        /\ call[c] = "ok" =>
               \/ server[c] = "ok"
               \/ client = "app" /\ c \in Orders /\ server[c] = "error"
        /\ call[c] = "failed" => server[c] = "error"

(***************************************************************************)
(* Every change of the cart was made by a call or by the other tab, each   *)
(* at most once.                                                           *)
(***************************************************************************)
Changers == {c \in Calls : at[c] # 0}

ChangeInv ==
    /\ otherAt <= changes
    /\ \A c \in Calls : at[c] <= changes
    /\ changes = 0 \/ changes = otherAt \/ \E c \in Calls : at[c] = changes
    /\ changes = Cardinality(Changers) + IF otherAt = 0 THEN 0 ELSE 1

(***************************************************************************)
(* A snapshot that is as old as the last change is the cart.  What a fetch *)
(* has read, or the page shows, holds every acknowledged change, unless it *)
(* is marked as overtaken.                                                 *)
(***************************************************************************)
Fits(snapshot) ==
    \/ snapshot = NoData
    \/ /\ 0 <= snapshot.change /\ snapshot.change <= changes
       /\ snapshot.change = changes => snapshot.lines = cart

CacheInv ==
    /\ \A k \in Currencies : Fits(data[k]) /\ Fits(fetch[k].got)
    /\ \A k \in Currencies \ overtaken, c \in Calls :
           fetch[k].step = "read" /\ call[c] = "ok" => fetch[k].got.change >= at[c]

(***************************************************************************)
(* The form knows the calls it has sent; the one underway is the last.     *)
(***************************************************************************)
FormInv ==
    /\ \A o \in form.own : call[o] # "none" /\ (call[o] = "sent" => o = form.last)
    /\ form.last # NoOrder => form.last \in form.own
    /\ form.submitting <=> \E o \in form.own : call[o] = "sent"
    /\ form.error # NoOrder => call[form.error] \in {"failed", "lost"}
    /\ form.last # NoOrder /\ call[form.last] \in {"failed", "lost"} =>
           form.error = form.last \/ form.last \in form.erased

(***************************************************************************)
(* While an order is underway whose customer waits, nobody else changes    *)
(* the cart it was submitted for but the other tab.                        *)
(***************************************************************************)
CalmInv ==
    \A o \in calm :
        /\ call[o] # "none"
        /\ seen[o].change <= changes
        /\ server[o] = "idle" =>
               /\ \A c \in Calls \ {o} : call[c] \in {"none", "ok"}
               /\ cart = seen[o].lines \/ otherAt > seen[o].change
        /\ at[o] # 0 => ordered[o] = seen[o].lines \/ otherAt > seen[o].change

IInv == /\ TypeInv /\ CallInv /\ ChangeInv /\ CacheInv /\ AcknowledgedIsShown
        /\ FormInv /\ CalmInv

-----------------------------------------------------------------------------
(***************************************************************************)
(* Every step is one of these: the client asks for the cart or shows it,   *)
(* sends a call, its route or another tab changes the cart, the route goes *)
(* on, or the answer arrives.                                              *)
(***************************************************************************)
Looks ==
    \/ \E where \in {"product", "cart"} : Go(where)
    \/ \E k \in Currencies :
          SelectCurrency(k) \/ GetCart(k) \/ FetchDone(k) \/ FetchFails(k)
    \/ Focus
    \/ SendTicket
    \/ TicketAnswered
    \/ UNCHANGED vars

Sends(c) ==
    \/ c \in Adds /\ AddItem(c)
    \/ c \in Clears /\ EmptyCart(c)
    \/ c \in Orders /\ (PlaceOrder(c) \/ AppPlaceOrder(c))

Performs(c) ==
    \/ c \in Adds /\ PerformAdd(c)
    \/ c \in Clears /\ PerformEmpty(c)
    \/ c \in Orders /\ PerformOrder(c)

Serves(c) == Refuse(c) \/ LookUp(c)

LEMMA StepCases ==
    ASSUME [Next]_vars
    PROVE  \/ Looks
           \/ \E c \in Calls : Sends(c)
           \/ \E c \in Calls : Performs(c)
           \/ \E c \in Calls : Serves(c)
           \/ OtherTab
           \/ \E c \in Calls : Succeeds(c)
           \/ \E c \in Calls : Fails(c) \/ Loses(c)
<1>1. CASE Customer
  <2>1. CASE \E a \in Adds : AddItem(a)
    BY <2>1 DEF Sends, Calls
  <2>2. CASE \E e \in Clears : EmptyCart(e)
    BY <2>2 DEF Sends, Calls
  <2>3. CASE \E o \in Orders : PlaceOrder(o) \/ AppPlaceOrder(o)
    BY <2>3 DEF Sends, Calls
  <2> QED
    BY <1>1, <2>1, <2>2, <2>3, Zenon DEF Customer, Looks
<1>2. CASE Query
  BY <1>2, Zenon DEF Query, Looks
<1>3. CASE \E c \in Calls : Route(c) \/ Answer(c)
  BY <1>3, Zenon DEF Route, Answer, Performs, Serves
<1>4. CASE TicketAnswered \/ UNCHANGED vars
  BY <1>4, Zenon DEF Looks
<1> QED
  BY <1>1, <1>2, <1>3, <1>4, Zenon DEF Next

(***************************************************************************)
(* What the steps leave alone.                                             *)
(***************************************************************************)
LEMMA LooksEffect ==
    ASSUME Looks
    PROVE  UNCHANGED <<session, cartVars, callVars, orderVars>>
<1>1. CASE \E where \in {"product", "cart"} : Go(where)
  BY <1>1 DEF Go
<1>2. CASE \E k \in Currencies :
              SelectCurrency(k) \/ GetCart(k) \/ FetchDone(k) \/ FetchFails(k)
  BY <1>2 DEF SelectCurrency, GetCart, FetchDone, FetchFails
<1>3. CASE Focus \/ SendTicket \/ TicketAnswered
  BY <1>3 DEF Focus, SendTicket, TicketAnswered
<1>4. CASE UNCHANGED vars
  BY <1>4 DEF vars
<1> QED
  BY <1>1, <1>2, <1>3, <1>4 DEF Looks

\* What a submission adds to a step that sends a call.
Submits(c) ==
    /\ c \in Orders /\ Mounted
    /\ seen' = [seen EXCEPT ![c] = data[selected]]
    /\ calm' = Waiting \cup (IF AllAnswered THEN {c} ELSE {})
    /\ \/ form' = form
       \/ ~form.submitting /\ form' = Submitted(c)

LEMMA SendsEffect ==
    ASSUME NEW c \in Calls, Sends(c)
    PROVE  /\ call[c] = "none"
           /\ call' = [call EXCEPT ![c] = "sent"]
           /\ UNCHANGED <<session, cartVars, server, at, queryVars, page, ordered>>
           /\ \/ calm' = Waiting /\ UNCHANGED <<form, seen>>
              \/ Submits(c)
<1>1. CASE c \in Adds /\ AddItem(c)
  BY <1>1 DEF AddItem, Send
<1>2. CASE c \in Clears /\ EmptyCart(c)
  BY <1>2 DEF EmptyCart, Send
<1>3. CASE c \in Orders /\ PlaceOrder(c)
  BY <1>3 DEF PlaceOrder, Submit, Send, Submits
<1>4. CASE c \in Orders /\ AppPlaceOrder(c)
  BY <1>4 DEF AppPlaceOrder, Submit, Send, Submits
<1> QED
  BY <1>1, <1>2, <1>3, <1>4 DEF Sends

LEMMA PerformsEffect ==
    ASSUME NEW c \in Calls, Performs(c)
    PROVE  /\ call[c] # "none" /\ server[c] = "idle"
           /\ changes' = changes + 1
           /\ at' = [at EXCEPT ![c] = changes + 1]
           /\ \E s \in {"changed", "ok"} : server' = [server EXCEPT ![c] = s]
           /\ UNCHANGED <<session, otherAt, call, queryVars, pageVars, seen, calm>>
           /\ c \in Orders => ordered' = [ordered EXCEPT ![c] = cart]
           /\ c \notin Orders => ordered' = ordered
           /\ cart' = cart \/ cart' = {} \/ (c \in Adds /\ cart' = cart \cup {c})
<1>1. CASE c \in Adds /\ PerformAdd(c)
  BY <1>1, StorefrontAssumption DEF PerformAdd, Change
<1>2. CASE c \in Clears /\ PerformEmpty(c)
  BY <1>2, StorefrontAssumption DEF PerformEmpty, Change
<1>3. CASE c \in Orders /\ PerformOrder(c)
  BY <1>3, StorefrontAssumption DEF PerformOrder, Change
<1> QED
  BY <1>1, <1>2, <1>3 DEF Performs

LEMMA ServesEffect ==
    ASSUME NEW c \in Calls, Serves(c)
    PROVE  /\ \/ call[c] # "none" /\ server[c] = "idle"
                    /\ server' = [server EXCEPT ![c] = "error"]
              \/ server[c] = "changed"
                    /\ \E s \in {"ok", "error"} : server' = [server EXCEPT ![c] = s]
           /\ UNCHANGED <<session, cartVars, call, at, queryVars, pageVars, orderVars>>
BY DEF Serves, Refuse, LookUp

LEMMA SucceedsEffect ==
    ASSUME NEW c \in Calls, Succeeds(c)
    PROVE  /\ call[c] = "sent"
           /\ call' = [call EXCEPT ![c] = "ok"]
           /\ Success(c)
           /\ Invalidate
           /\ page' = IF client = "web" THEN WebPush(c) ELSE AppPush(c)
           /\ \/ form' = NoForm
              \/ form' = IF c \in form.own THEN [form EXCEPT !.submitting = FALSE]
                         ELSE form
           /\ UNCHANGED <<session, cartVars, server, at, orderVars>>
BY DEF Succeeds, Ends, Render

LEMMA FailsEffect ==
    ASSUME NEW c \in Calls, Fails(c) \/ Loses(c)
    PROVE  /\ call[c] = "sent"
           /\ \/ server[c] = "error" /\ call' = [call EXCEPT ![c] = "failed"]
              \/ call' = [call EXCEPT ![c] = "lost"]
           /\ form' = NoForm \/ form' = AfterError(c)
           /\ UNCHANGED <<session, cartVars, server, at, queryVars, page, orderVars>>
BY DEF Fails, Loses, Unsuccessful, Ends, Render

-----------------------------------------------------------------------------
(***************************************************************************)
(* The client's calls and what their routes do (pages/api/checkout.ts,     *)
(* pages/api/cart.ts).                                                     *)
(***************************************************************************)
LEMMA CallStep ==
    ASSUME IInv, [Next]_vars
    PROVE  CallInv'
<1> USE DEF CallInv, IInv, TypeInv, client
<1>1. CASE Looks
  BY <1>1, LooksEffect DEF callVars
<1>2. ASSUME NEW c \in Calls, Sends(c) PROVE CallInv'
  BY <1>2, SendsEffect
<1>3. ASSUME NEW c \in Calls, Performs(c) PROVE CallInv'
  BY <1>3, PerformsEffect
<1>4. ASSUME NEW c \in Calls, Serves(c) PROVE CallInv'
  BY <1>4, ServesEffect
<1>5. CASE OtherTab
  BY <1>5 DEF OtherTab, callVars
<1>6. ASSUME NEW c \in Calls, Succeeds(c) PROVE CallInv'
  BY <1>6, SucceedsEffect, StorefrontAssumption DEF Success, WebSuccess, AppSuccess
<1>7. ASSUME NEW c \in Calls, Fails(c) \/ Loses(c) PROVE CallInv'
  BY <1>7, FailsEffect
<1> QED
  BY <1>1, <1>2, <1>3, <1>4, <1>5, <1>6, <1>7, StepCases

(***************************************************************************)
(* A call changes the cart once (cart and checkout are called once by each *)
(* route), so the changes are counted by those who made them.              *)
(***************************************************************************)
LEMMA ChangersFinite ==
    IsFiniteSet(Changers) /\ Cardinality(Changers) \in Nat
    /\ Cardinality(Changers) <= Cardinality(Calls) /\ Cardinality(Calls) \in Nat
<1>1. Changers \subseteq Calls
  BY DEF Changers
<1> QED
  BY <1>1, FS_Subset, FS_CardinalityType, StorefrontAssumption

LEMMA ChangeStep ==
    ASSUME IInv, [Next]_vars
    PROVE  ChangeInv'
<1> USE DEF ChangeInv, IInv, TypeInv
<1>1. CASE UNCHANGED <<cartVars, at>>
  <2>1. Changers' = Changers
    BY <1>1 DEF Changers
  <2> QED
    BY <1>1, <2>1 DEF cartVars
<1>2. ASSUME NEW c \in Calls, Performs(c) PROVE ChangeInv'
  <2>1. /\ server[c] = "idle" /\ changes' = changes + 1 /\ otherAt' = otherAt
        /\ at' = [at EXCEPT ![c] = changes + 1]
    BY <1>2, PerformsEffect
  <2>2. c \notin Changers
    BY <2>1 DEF CallInv, Changers
  <2>3. Changers' = Changers \cup {c}
    <3>1. at'[c] # 0 /\ \A d \in Calls \ {c} : at'[d] = at[d]
      BY <2>1
    <3> QED
      BY <3>1 DEF Changers
  <2>4. Cardinality(Changers') = Cardinality(Changers) + 1
    <3>1. Cardinality(Changers \cup {c}) = Cardinality(Changers) + 1
      BY <2>2, ChangersFinite, FS_AddElement
    <3> QED
      BY <2>3, <3>1, Zenon
  <2> QED
    BY <2>1, <2>4, ChangersFinite
<1>3. CASE OtherTab
  <2>1. Changers' = Changers
    BY <1>3 DEF OtherTab, callVars, Changers
  <2> QED
    BY <1>3, <2>1, ChangersFinite DEF OtherTab, callVars
<1> QED
  BY <1>1, <1>2, <1>3, StepCases, LooksEffect, SendsEffect, ServesEffect,
     SucceedsEffect, FailsEffect DEF cartVars, callVars

-----------------------------------------------------------------------------
(***************************************************************************)
(* The cache of the cart (providers/Cart.provider.tsx, @tanstack/react-    *)
(* query).                                                                 *)
(***************************************************************************)

\* Nothing was acknowledged, and no snapshot taken or shown.
LEMMA CacheKept ==
    ASSUME IInv, UNCHANGED <<session, cart, changes, queryVars>>,
           \A c \in Calls : call'[c] = "ok" => call[c] = "ok" /\ at'[c] = at[c]
    PROVE  CacheInv' /\ AcknowledgedIsShown'
BY DEF IInv, CacheInv, Fits, AcknowledgedIsShown, Settled, queryVars

LEMMA CacheWhenChanged ==
    ASSUME IInv, changes' = changes + 1, UNCHANGED queryVars,
           \A c \in Calls : call'[c] = "ok" => call[c] = "ok" /\ at'[c] = at[c]
    PROVE  CacheInv' /\ AcknowledgedIsShown'
<1>1. \A k \in Currencies : data[k] \in Snapshots /\ fetch[k].got \in Snapshots
  BY DEF IInv, TypeInv
<1>2. \A k \in Currencies : Fits(data[k])' /\ Fits(fetch[k].got)'
  BY <1>1 DEF IInv, TypeInv, CacheInv, Fits, Snapshots, queryVars
<1> QED
  BY <1>2 DEF IInv, CacheInv, AcknowledgedIsShown, Settled, queryVars

\* No acknowledgement, and no change: only the query goes on.
LEMMA CacheLooks ==
    ASSUME IInv, Looks
    PROVE  CacheInv' /\ AcknowledgedIsShown'
<1> USE DEF IInv, TypeInv, CacheInv, AcknowledgedIsShown, Settled
<1>1. UNCHANGED <<session, cart, changes, call, at>>
  BY LooksEffect DEF cartVars, callVars
<1>2. \A k \in Currencies : Fits(data[k])' <=> Fits(data'[k])
  BY <1>1 DEF Fits
<1>3. CASE UNCHANGED queryVars
  BY <1>1, <1>3, CacheKept
<1>4. ASSUME NEW k \in Currencies, Start(k), UNCHANGED data,
             selected' = selected \/ selected' = k
      PROVE  CacheInv' /\ AcknowledgedIsShown'
  <2>1. /\ fetch' = [fetch EXCEPT ![k] = Asked]
        /\ failed' = failed \ {k} /\ overtaken' = overtaken \ {k}
    BY <1>4 DEF Start
  <2>2. CacheInv'
    BY <1>1, <1>4, <2>1 DEF Fits, Asked
  <2>3. AcknowledgedIsShown'
    BY <1>1, <1>4, <2>1 DEF Asked
  <2> QED
    BY <2>2, <2>3
<1>5. ASSUME NEW k \in Currencies, Join(k), UNCHANGED data, selected' = k
      PROVE  CacheInv' /\ AcknowledgedIsShown'
  <2>1. CASE fetch[k].step = "idle"
    BY <1>4, <1>5, <2>1 DEF Join
  <2>2. CASE fetch[k].step # "idle"
    BY <1>1, <1>5, <2>2 DEF Join, Fits
  <2> QED
    BY <2>1, <2>2
<1>6. ASSUME NEW k \in Currencies, GetCart(k) PROVE CacheInv' /\ AcknowledgedIsShown'
  <2>1. /\ fetch' = [fetch EXCEPT ![k] =
                        [step |-> "read", got |-> [lines |-> cart, change |-> changes]]]
        /\ UNCHANGED <<selected, data, failed, overtaken>>
    BY <1>6 DEF GetCart
  <2>2. \A c \in Calls : changes >= at[c]
    BY DEF ChangeInv
  <2>3. CacheInv'
    BY <1>1, <2>1, <2>2 DEF Fits
  <2>4. AcknowledgedIsShown'
    BY <1>1, <2>1
  <2> QED
    BY <2>3, <2>4
<1>7. ASSUME NEW k \in Currencies, FetchDone(k) PROVE CacheInv' /\ AcknowledgedIsShown'
  <2>1. /\ fetch[k].step = "read"
        /\ data' = [data EXCEPT ![k] = fetch[k].got]
        /\ fetch' = [fetch EXCEPT ![k] = Idle]
        /\ UNCHANGED <<selected, failed, overtaken>>
    BY <1>7 DEF FetchDone
  <2>2. CacheInv'
    BY <1>1, <2>1 DEF Fits, Idle
  <2>3. AcknowledgedIsShown'
    BY <1>1, <2>1
  <2> QED
    BY <2>2, <2>3
<1>8. ASSUME NEW k \in Currencies, FetchFails(k) PROVE CacheInv' /\ AcknowledgedIsShown'
  <2>1. CASE Start(k)
    BY <1>4, <1>8, <2>1 DEF FetchFails
  <2>2. CASE /\ fetch' = [fetch EXCEPT ![k] = Idle]
             /\ failed' = failed \cup {k}
             /\ UNCHANGED overtaken
    <3>1. UNCHANGED <<selected, data>>
      BY <1>8 DEF FetchFails
    <3>2. CacheInv'
      BY <1>1, <2>2, <3>1 DEF Fits, Idle
    <3>3. AcknowledgedIsShown'
      BY <1>1, <2>2, <3>1 DEF Idle
    <3> QED
      BY <3>2, <3>3
  <2> QED
    BY <1>8, <2>1, <2>2 DEF FetchFails
<1>9. CASE \E where \in {"product", "cart"} : Go(where)
  BY <1>3, <1>9 DEF Go
<1>10. CASE SendTicket \/ TicketAnswered \/ UNCHANGED vars
  BY <1>3, <1>10 DEF SendTicket, TicketAnswered, vars
<1>11. CASE Focus
  BY <1>5, <1>11 DEF Focus
<1>12. ASSUME NEW k \in Currencies, SelectCurrency(k)
       PROVE  CacheInv' /\ AcknowledgedIsShown'
  BY <1>5, <1>12 DEF SelectCurrency
<1> QED
  BY <1>6, <1>7, <1>8, <1>9, <1>10, <1>11, <1>12 DEF Looks

(***************************************************************************)
(* invalidateQueries of onSuccess: either what is shown is being fetched   *)
(* anew, or there is nothing to show; and what other currencies have read  *)
(* is overtaken.                                                           *)
(***************************************************************************)
LEMMA CacheInvalidated ==
    ASSUME IInv, Invalidate, UNCHANGED <<cart, changes, at>>
    PROVE  CacheInv' /\ AcknowledgedIsShown'
<1> USE DEF IInv, TypeInv, CacheInv
<1>1. CASE fetch[selected].step = "idle" \/ data[selected] # NoData
  <2>1. /\ fetch' = [fetch EXCEPT ![selected] = Asked]
        /\ overtaken' = (overtaken \cup {k \in Currencies : fetch[k].step = "read"})
                            \ {selected}
        /\ UNCHANGED <<selected, data>>
    BY <1>1 DEF Invalidate
  <2>2. CacheInv'
    BY <2>1 DEF Fits, Asked
  <2>3. AcknowledgedIsShown'
    BY <2>1 DEF AcknowledgedIsShown, Settled, Asked
  <2> QED
    BY <2>2, <2>3
<1>2. CASE ~(fetch[selected].step = "idle" \/ data[selected] # NoData)
  <2>1. /\ UNCHANGED <<fetch, selected, data>>
        /\ overtaken' = overtaken \cup {k \in Currencies : fetch[k].step = "read"}
    BY <1>2 DEF Invalidate
  <2>2. CacheInv'
    BY <2>1 DEF Fits
  <2>3. AcknowledgedIsShown'
    BY <1>2, <2>1 DEF AcknowledgedIsShown, Settled
  <2> QED
    BY <2>2, <2>3
<1> QED
  BY <1>1, <1>2

LEMMA CacheStep ==
    ASSUME IInv, [Next]_vars
    PROVE  CacheInv' /\ AcknowledgedIsShown'
<1> USE DEF IInv, TypeInv
<1>1. ASSUME NEW c \in Calls, Sends(c) PROVE CacheInv' /\ AcknowledgedIsShown'
  BY <1>1, SendsEffect, CacheKept DEF cartVars
<1>2. ASSUME NEW c \in Calls, Performs(c) PROVE CacheInv' /\ AcknowledgedIsShown'
  <2>1. call[c] # "ok"
    BY <1>2, PerformsEffect DEF CallInv
  <2> QED
    BY <1>2, <2>1, PerformsEffect, CacheWhenChanged
<1>3. ASSUME NEW c \in Calls, Serves(c) PROVE CacheInv' /\ AcknowledgedIsShown'
  BY <1>3, ServesEffect, CacheKept DEF cartVars
<1>4. CASE OtherTab
  BY <1>4, CacheWhenChanged DEF OtherTab, callVars
<1>5. ASSUME NEW c \in Calls, Succeeds(c) PROVE CacheInv' /\ AcknowledgedIsShown'
  BY <1>5, SucceedsEffect, CacheInvalidated DEF cartVars
<1>6. ASSUME NEW c \in Calls, Fails(c) \/ Loses(c) PROVE CacheInv' /\ AcknowledgedIsShown'
  BY <1>6, FailsEffect, CacheKept DEF cartVars
<1> QED
  BY <1>1, <1>2, <1>3, <1>4, <1>5, <1>6, StepCases, CacheLooks

-----------------------------------------------------------------------------
(***************************************************************************)
(* The form of the cart page (components/Cart/CartDetail.tsx).             *)
(***************************************************************************)
LEMMA FormLooks ==
    ASSUME Looks
    PROVE  \/ form' = form
           \/ form' = NoForm
           \/ \E t \in {NoOrder, form.error} : form' = [form EXCEPT !.ticket = t]
           \/ form' = [form EXCEPT !.ticket = NoOrder, !.error = NoOrder,
                                   !.erased = @ \cup {form.error}]
<1>1. CASE \E where \in {"product", "cart"} : Go(where)
  BY <1>1 DEF Go, Render
<1>2. CASE \E k \in Currencies :
              SelectCurrency(k) \/ GetCart(k) \/ FetchDone(k) \/ FetchFails(k)
  BY <1>2 DEF SelectCurrency, GetCart, FetchDone, FetchFails, Render, pageVars
<1>3. CASE Focus
  BY <1>3 DEF Focus, pageVars
<1>4. CASE SendTicket
  BY <1>4 DEF SendTicket
<1>5. CASE TicketAnswered
  BY <1>5 DEF TicketAnswered
<1>6. CASE UNCHANGED vars
  BY <1>6 DEF vars, pageVars
<1> QED
  BY <1>1, <1>2, <1>3, <1>4, <1>5, <1>6 DEF Looks

\* A form that was unmounted knows of nothing.
LEMMA NoFormHolds ==
    ASSUME form' = NoForm
    PROVE  FormInv'
BY DEF FormInv, NoForm

\* The form stays, and nothing becomes of its calls.
LEMMA FormKept ==
    ASSUME IInv, form' = form, \A o \in Orders : o \in form.own => call'[o] = call[o],
           \A o \in Orders : call[o] \in {"failed", "lost"} => call'[o] = call[o]
    PROVE  FormInv'
<1>1. form.own \subseteq Orders /\ form.last \in Orders \cup {NoOrder}
      /\ form.error \in Orders \cup {NoOrder}
  BY DEF IInv, TypeInv, Forms
<1> QED
  BY <1>1 DEF IInv, FormInv

LEMMA FormStep ==
    ASSUME IInv, [Next]_vars
    PROVE  FormInv'
<1>1. /\ form \in Forms /\ FormInv /\ NoOrder \notin Orders /\ Orders \subseteq Calls
      /\ call \in [Calls -> {"none", "sent", "ok", "failed", "lost"}]
  BY StorefrontAssumption DEF IInv, TypeInv, Calls
<1>2. CASE Looks
  <2>1. call' = call
    BY <1>2, LooksEffect DEF callVars
  <2>2. CASE form' = form
    BY <2>1, <2>2, FormKept
  <2>3. ASSUME NEW t \in {NoOrder, form.error}, form' = [form EXCEPT !.ticket = t]
        PROVE  FormInv'
    BY <1>1, <2>1, <2>3 DEF FormInv, Forms
  <2>4. CASE form' = [form EXCEPT !.ticket = NoOrder, !.error = NoOrder,
                                  !.erased = @ \cup {form.error}]
    BY <1>1, <2>1, <2>4 DEF FormInv, Forms
  <2> QED
    BY <1>2, <2>2, <2>3, <2>4, FormLooks, NoFormHolds
<1>3. ASSUME NEW c \in Calls, Sends(c) PROVE FormInv'
  <2>1. call[c] = "none" /\ call' = [call EXCEPT ![c] = "sent"]
        /\ (form' = form \/ Submits(c))
    BY <1>3, SendsEffect
  <2>2. c \notin form.own
    BY <1>1, <2>1 DEF FormInv
  <2>3. CASE form' = form
    BY <1>1, <2>1, <2>2, <2>3, FormKept
  <2>4. CASE c \in Orders /\ ~form.submitting /\ form' = Submitted(c)
    <3>1. /\ form'.submitting = TRUE /\ form'.error = NoOrder /\ form'.last = c
          /\ form'.own = form.own \cup {c}
      BY <1>1, <2>4 DEF Submitted, Forms
    <3>2. \A o \in form.own : call'[o] # "sent" /\ call'[o] # "none"
      BY <1>1, <2>1, <2>2, <2>4 DEF FormInv, Forms
    <3>3. call'[c] = "sent"
      BY <1>1, <2>1
    <3> QED
      BY <1>1, <2>4, <3>1, <3>2, <3>3 DEF FormInv
  <2> QED
    BY <2>1, <2>3, <2>4 DEF Submits
<1>4. CASE UNCHANGED <<form, call>>
  BY <1>4, FormKept
<1>5. ASSUME NEW c \in Calls, Succeeds(c) PROVE FormInv'
  <2>1. call[c] = "sent" /\ call' = [call EXCEPT ![c] = "ok"]
    BY <1>5, SucceedsEffect
  <2>2. CASE form' = form /\ c \notin form.own
    BY <1>1, <2>1, <2>2, FormKept
  <2>3. CASE c \in form.own /\ form' = [form EXCEPT !.submitting = FALSE]
    <3>1. \A o \in form.own : call'[o] # "sent" /\ call'[o] # "none"
      BY <1>1, <2>1, <2>3 DEF FormInv, Forms
    <3> QED
      BY <1>1, <2>1, <2>3, <3>1 DEF FormInv, Forms
  <2> QED
    BY <1>5, <2>2, <2>3, SucceedsEffect, NoFormHolds
<1>6. ASSUME NEW c \in Calls, Fails(c) \/ Loses(c) PROVE FormInv'
  <2>1. /\ call[c] = "sent"
        /\ \E outcome \in {"failed", "lost"} : call' = [call EXCEPT ![c] = outcome]
    BY <1>6, FailsEffect
  <2>2. CASE form' = form /\ c \notin form.own
    BY <1>1, <2>1, <2>2, FormKept
  <2>3. CASE c \in form.own /\ form' = [form EXCEPT !.error = c, !.submitting = FALSE]
    <3>1. \A o \in form.own : call'[o] # "sent" /\ call'[o] # "none"
      BY <1>1, <2>1, <2>3 DEF FormInv, Forms
    <3>2. c = form.last
      BY <1>1, <2>1, <2>3 DEF FormInv
    <3>3. /\ form'.submitting = FALSE /\ form'.error = c /\ form'.last = c
          /\ form'.own = form.own
      BY <1>1, <2>3, <3>2 DEF Forms
    <3> QED
      BY <1>1, <2>1, <2>3, <3>1, <3>3 DEF FormInv, Forms
  <2> QED
    BY <1>6, <2>2, <2>3, FailsEffect, NoFormHolds DEF AfterError
<1>7. ASSUME NEW c \in Calls, Performs(c) \/ Serves(c) PROVE UNCHANGED <<form, call>>
  BY <1>7, PerformsEffect, ServesEffect DEF pageVars
<1>8. CASE OtherTab
  BY <1>4, <1>8 DEF OtherTab, pageVars, callVars
<1> QED
  BY <1>2, <1>3, <1>4, <1>5, <1>6, <1>7, <1>8, StepCases

-----------------------------------------------------------------------------
(***************************************************************************)
(* The customer who waits (onPlaceOrder of CartDetail.tsx).                *)
(***************************************************************************)

\* Whose every call was answered, and who sees a cart, sees the cart, or
\* the other tab has changed it since.
LEMMA SeenIsCart ==
    ASSUME IInv, Mounted, AllAnswered
    PROVE  /\ data[selected].change <= changes
           /\ cart = data[selected].lines \/ otherAt > data[selected].change
<1> USE DEF IInv, TypeInv
<1>1. data[selected] # NoData
  BY DEF Mounted, Shown, NoData
<1>2. /\ data[selected].change \in Int /\ 0 <= data[selected].change
      /\ data[selected].change <= changes
      /\ data[selected].change = changes => data[selected].lines = cart
  BY <1>1 DEF CacheInv, Fits, Snapshots
<1>3. \A c \in Calls : at[c] = 0 \/ data[selected].change >= at[c]
  BY <1>1 DEF AllAnswered, AcknowledgedIsShown, Settled, CallInv
<1>4. changes = 0 \/ changes = otherAt \/ \E c \in Calls : at[c] = changes
  BY DEF ChangeInv
<1> QED
  BY <1>2, <1>3, <1>4

LEMMA CalmStep ==
    ASSUME IInv, [Next]_vars
    PROVE  CalmInv'
<1>1. Orders \subseteq Calls
  BY DEF Calls
<1> USE DEF IInv, TypeInv, CalmInv
<1>2. CASE Looks
  BY <1>2, LooksEffect DEF cartVars, callVars, orderVars
<1>3. ASSUME NEW c \in Calls, Sends(c) PROVE CalmInv'
  <2>1. /\ call[c] = "none" /\ call' = [call EXCEPT ![c] = "sent"]
        /\ UNCHANGED <<session, cart, changes, otherAt, server, at, ordered>>
    BY <1>3, SendsEffect DEF cartVars
  <2>2. \A o \in Waiting : server[o] # "idle" /\ o # c /\ o \in calm
    BY <1>1, <2>1 DEF Waiting, CallInv
  <2>3. CASE calm' = Waiting /\ UNCHANGED seen
    BY <1>1, <2>1, <2>2, <2>3
  <2>4. CASE Submits(c)
    <3>1. /\ c \in Orders /\ Mounted
          /\ seen' = [seen EXCEPT ![c] = data[selected]]
          /\ calm' = Waiting \cup (IF AllAnswered THEN {c} ELSE {})
      BY <2>4 DEF Submits
    <3>2. ASSUME NEW o \in Waiting
          PROVE  /\ call'[o] # "none" /\ server'[o] # "idle"
                 /\ seen'[o].change <= changes'
                 /\ at'[o] # 0 => ordered'[o] = seen'[o].lines
                                     \/ otherAt' > seen'[o].change
      BY <1>1, <2>1, <2>2, <3>1
    <3>3. ASSUME AllAnswered
          PROVE  /\ call'[c] # "none" /\ at'[c] = 0
                 /\ seen'[c].change <= changes'
                 /\ \A d \in Calls \ {c} : call'[d] \in {"none", "ok"}
                 /\ cart' = seen'[c].lines \/ otherAt' > seen'[c].change
      <4>1. seen'[c] = data[selected]
        BY <3>1
      <4>2. at[c] = 0
        BY <2>1 DEF CallInv
      <4>3. \A d \in Calls : call[d] \in {"none", "ok"}
        BY <3>3 DEF AllAnswered
      <4> QED
        BY <2>1, <3>1, <3>3, <4>1, <4>2, <4>3, SeenIsCart
    <3> QED
      BY <3>1, <3>2, <3>3
  <2> QED
    BY <1>3, <2>3, <2>4, SendsEffect
<1>4. ASSUME NEW c \in Calls, Performs(c) PROVE CalmInv'
  <2>1. /\ call[c] # "none" /\ server[c] = "idle" /\ changes' = changes + 1
        /\ at' = [at EXCEPT ![c] = changes + 1]
        /\ UNCHANGED <<session, otherAt, call, seen, calm>>
        /\ c \in Orders => ordered' = [ordered EXCEPT ![c] = cart]
        /\ c \notin Orders => ordered' = ordered
    BY <1>4, PerformsEffect
  <2>2. \E s \in {"changed", "ok"} : server' = [server EXCEPT ![c] = s]
    BY <1>4, PerformsEffect
  <2>3. server'[c] # "idle" /\ \A d \in Calls \ {c} : server'[d] = server[d]
    BY <2>2
  <2>4. call[c] # "ok"
    BY <2>1 DEF CallInv
  <2>5. ASSUME NEW o \in calm, o # c
        PROVE  /\ server'[o] # "idle" /\ at'[o] = at[o] /\ ordered'[o] = ordered[o]
    BY <1>1, <2>1, <2>3, <2>4, <2>5
  <2>6. ASSUME c \in calm
        PROVE  ordered'[c] = seen[c].lines \/ otherAt > seen[c].change
    BY <2>1, <2>6
  <2>7. \A o \in calm : seen[o].change <= changes'
    BY <2>1 DEF Snapshots
  <2> QED
    BY <1>1, <2>1, <2>3, <2>5, <2>6, <2>7
<1>5. ASSUME NEW c \in Calls, Serves(c) PROVE CalmInv'
  <2>1. \E s \in {"ok", "error"} : server' = [server EXCEPT ![c] = s]
    BY <1>5, ServesEffect
  <2>2. UNCHANGED <<session, cartVars, call, at, orderVars>>
    BY <1>5, ServesEffect
  <2> QED
    BY <1>1, <2>1, <2>2 DEF cartVars, orderVars
<1>6. CASE OtherTab
  <2>1. /\ changes' = changes + 1 /\ otherAt' = changes + 1
        /\ UNCHANGED <<call, server, at, seen, ordered, calm>>
    BY <1>6 DEF OtherTab, callVars, orderVars
  <2>2. \A o \in calm : seen[o].change <= changes' /\ otherAt' > seen[o].change
    BY <2>1 DEF Snapshots
  <2> QED
    BY <1>1, <2>1, <2>2
<1>7. ASSUME NEW c \in Calls, call[c] = "sent",
             \E outcome \in {"ok", "failed", "lost"} : call' = [call EXCEPT ![c] = outcome],
             UNCHANGED <<session, cartVars, server, at, orderVars>>
      PROVE  CalmInv'
  BY <1>1, <1>7 DEF cartVars, orderVars
<1>8. ASSUME NEW c \in Calls, Succeeds(c) \/ Fails(c) \/ Loses(c) PROVE CalmInv'
  BY <1>7, <1>8, SucceedsEffect, FailsEffect
<1> QED
  BY <1>2, <1>3, <1>4, <1>5, <1>6, <1>8, StepCases

-----------------------------------------------------------------------------
(***************************************************************************)
(* Types.                                                                  *)
(***************************************************************************)
LEMMA FormTypes ==
    ASSUME form \in Forms
    PROVE  /\ \A t \in {NoOrder, form.error} : [form EXCEPT !.ticket = t] \in Forms
           /\ [form EXCEPT !.ticket = NoOrder, !.error = NoOrder,
                           !.erased = @ \cup {form.error}] \in Forms
           /\ [form EXCEPT !.submitting = FALSE] \in Forms
           /\ \A o \in Orders : /\ Submitted(o) \in Forms
                                /\ [form EXCEPT !.error = o, !.submitting = FALSE] \in Forms
<1>1. \A t \in {NoOrder, form.error} : [form EXCEPT !.ticket = t] \in Forms
  BY DEF Forms
<1>2. [form EXCEPT !.ticket = NoOrder, !.error = NoOrder,
                  !.erased = @ \cup {form.error}] \in Forms
  BY DEF Forms
<1>3. [form EXCEPT !.submitting = FALSE] \in Forms
  BY DEF Forms
<1>4. \A o \in Orders : Submitted(o) \in Forms
  BY DEF Forms, Submitted
<1>5. \A o \in Orders : [form EXCEPT !.error = o, !.submitting = FALSE] \in Forms
  BY DEF Forms
<1> QED
  BY <1>1, <1>2, <1>3, <1>4, <1>5

LEMMA TypeStep ==
    ASSUME IInv, [Next]_vars
    PROVE  TypeInv'
<1>1. /\ Orders \subseteq Calls /\ NoOrder \notin Orders
      /\ TypeInv /\ NoData \in Snapshots /\ NoForm \in Forms
      /\ client \in {"web", "app"} /\ session.currencies \subseteq Currencies
  BY StorefrontAssumption DEF Calls, IInv, TypeInv, NoData, Snapshots, NoForm, Forms,
     client
<1>2. /\ Idle \in [step : {"idle", "asked", "read"}, got : Snapshots]
      /\ Asked \in [step : {"idle", "asked", "read"}, got : Snapshots]
      /\ [step |-> "read", got |-> [lines |-> cart, change |-> changes]]
            \in [step : {"idle", "asked", "read"}, got : Snapshots]
  BY <1>1 DEF Idle, Asked, TypeInv, Snapshots
<1>3. Adds \subseteq Lines
  BY DEF Lines
<1> USE <1>1, <1>2
<1>4. CASE Looks
  <2>1. UNCHANGED <<session, cartVars, callVars, orderVars>>
    BY <1>4, LooksEffect
  <2>2. form' \in Forms
    BY <1>4, FormLooks, FormTypes DEF TypeInv
  <2>3. \A k \in Currencies : Start(k) =>
            /\ fetch' \in [Currencies -> [step : {"idle", "asked", "read"}, got : Snapshots]]
            /\ failed' \subseteq Currencies /\ overtaken' \subseteq Currencies
    BY DEF TypeInv, Start
  <2>4. /\ selected' \in Currencies /\ failed' \subseteq Currencies
        /\ overtaken' \subseteq Currencies
        /\ data' \in [Currencies -> Snapshots]
        /\ fetch' \in [Currencies -> [step : {"idle", "asked", "read"}, got : Snapshots]]
        /\ page' \in {"product", "cart", "complete"}
    <3>1. CASE \E where \in {"product", "cart"} : Go(where)
      BY <3>1 DEF Go, TypeInv, queryVars
    <3>2. ASSUME NEW k \in Currencies, SelectCurrency(k) PROVE <2>4!:
      BY <2>3, <3>2 DEF SelectCurrency, Join, TypeInv
    <3>3. ASSUME NEW k \in Currencies, GetCart(k) PROVE <2>4!:
      BY <3>3 DEF GetCart, TypeInv, pageVars
    <3>4. ASSUME NEW k \in Currencies, FetchDone(k) PROVE <2>4!:
      BY <3>4 DEF FetchDone, TypeInv
    <3>5. ASSUME NEW k \in Currencies, FetchFails(k) PROVE <2>4!:
      BY <2>3, <3>5 DEF FetchFails, TypeInv, pageVars
    <3>6. CASE Focus
      BY <2>3, <3>6 DEF Focus, Join, TypeInv, pageVars
    <3>7. CASE SendTicket \/ TicketAnswered \/ UNCHANGED vars
      BY <3>7 DEF SendTicket, TicketAnswered, TypeInv, vars, queryVars, pageVars
    <3> QED
      BY <1>4, <3>1, <3>2, <3>3, <3>4, <3>5, <3>6, <3>7 DEF Looks
  <2> QED
    BY <2>1, <2>2, <2>4 DEF TypeInv, cartVars, callVars, orderVars
<1>5. ASSUME NEW c \in Calls, Sends(c) PROVE TypeInv'
  <2>1. Waiting \subseteq Orders
    BY DEF Waiting, TypeInv
  <2>2. ASSUME Submits(c) PROVE form' \in Forms /\ seen' \in [Orders -> Snapshots]
                                /\ calm' \subseteq Orders
    BY <2>1, <2>2, FormTypes DEF Submits, TypeInv
  <2> QED
    BY <1>5, <2>1, <2>2, SendsEffect DEF TypeInv, cartVars, queryVars
<1>6. ASSUME NEW c \in Calls, Performs(c) PROVE TypeInv'
  <2>1. cart' \subseteq Lines
    BY <1>3, <1>6, PerformsEffect DEF TypeInv
  <2>2. ordered' \in [Orders -> SUBSET Lines]
    BY <1>6, PerformsEffect DEF TypeInv
  <2>3. server' \in [Calls -> {"idle", "changed", "ok", "error"}]
    <3>1. PICK s \in {"changed", "ok"} : server' = [server EXCEPT ![c] = s]
      BY <1>6, PerformsEffect
    <3>2. server \in [Calls -> {"idle", "changed", "ok", "error"}]
      BY DEF TypeInv
    <3> QED
      BY <3>1, <3>2
  <2>5. at' \in [Calls -> Nat] /\ changes' \in Nat /\ otherAt' \in Nat
    <3>1. /\ changes' = changes + 1 /\ otherAt' = otherAt
          /\ at' = [at EXCEPT ![c] = changes + 1]
      BY <1>6, PerformsEffect
    <3>2. changes \in Nat /\ otherAt \in Nat /\ at \in [Calls -> Nat]
      BY DEF TypeInv
    <3> QED
      BY <3>1, <3>2
  <2>4. UNCHANGED <<session, call, queryVars, pageVars, seen, calm>>
    BY <1>6, PerformsEffect
  <2> QED
    BY <2>1, <2>2, <2>3, <2>4, <2>5 DEF TypeInv, queryVars, pageVars
<1>7. ASSUME NEW c \in Calls, Serves(c) PROVE TypeInv'
  BY <1>7, ServesEffect DEF TypeInv, cartVars, queryVars, pageVars, orderVars
<1>8. CASE OtherTab
  BY <1>8 DEF OtherTab, TypeInv, callVars, queryVars, pageVars, orderVars, Lines
<1>9. ASSUME NEW c \in Calls, Succeeds(c) PROVE TypeInv'
  <2>1. /\ UNCHANGED <<session, cartVars, server, at, orderVars>>
        /\ call' \in [Calls -> {"none", "sent", "ok", "failed", "lost"}]
    BY <1>9, SucceedsEffect DEF TypeInv
  <2>2. form' \in Forms
    BY <1>9, SucceedsEffect, FormTypes DEF TypeInv
  <2>3. page' \in {"product", "cart", "complete"}
    BY <1>9, SucceedsEffect DEF TypeInv, WebPush, AppPush
  <2>4. /\ selected' \in Currencies /\ failed' \subseteq Currencies
        /\ overtaken' \subseteq Currencies
        /\ data' \in [Currencies -> Snapshots]
        /\ fetch' \in [Currencies -> [step : {"idle", "asked", "read"}, got : Snapshots]]
    BY <1>9, SucceedsEffect DEF Invalidate, TypeInv
  <2> QED
    BY <2>1, <2>2, <2>3, <2>4 DEF TypeInv, cartVars, orderVars
<1>10. ASSUME NEW c \in Calls, Fails(c) \/ Loses(c) PROVE TypeInv'
  <2>1. form' \in Forms
    <3>1. form \in Forms /\ (c \in form.own => c \in Orders)
      BY DEF TypeInv, Forms
    <3>2. c \in form.own => [form EXCEPT !.error = c, !.submitting = FALSE] \in Forms
      BY <3>1, FormTypes
    <3>3. AfterError(c) \in Forms
      BY <3>1, <3>2, Zenon DEF AfterError
    <3> QED
      BY <1>10, <3>3, FailsEffect
  <2> QED
    BY <1>10, <2>1, FailsEffect DEF TypeInv, cartVars, queryVars, orderVars
<1> QED
  BY <1>4, <1>5, <1>6, <1>7, <1>8, <1>9, <1>10, StepCases

-----------------------------------------------------------------------------
LEMMA InitIInv ==
    ASSUME Init
    PROVE  IInv
<1>1. /\ session \in Sessions /\ session.cart \subseteq Lines
      /\ session.currencies \subseteq Currencies
  BY StorefrontAssumption DEF Init
<1>2. TypeInv
  <2>1. NoData \in Snapshots /\ NoForm \in Forms
    BY DEF NoData, Snapshots, NoForm, Forms
  <2>2. /\ Idle \in [step : {"idle", "asked", "read"}, got : Snapshots]
        /\ Asked \in [step : {"idle", "asked", "read"}, got : Snapshots]
    BY <2>1 DEF Idle, Asked
  <2> QED
    BY <1>1, <2>1, <2>2 DEF Init, TypeInv
<1>3. CallInv
  BY DEF Init, CallInv
<1>4. ChangeInv
  <2>1. Changers = {}
    BY DEF Init, Changers
  <2>2. Cardinality(Changers) = 0
    BY <2>1, FS_EmptySet
  <2> QED
    BY <2>2 DEF Init, ChangeInv
<1>5. CacheInv /\ AcknowledgedIsShown
  <2>1. \A k \in Currencies : /\ data[k] = NoData /\ fetch[k].got = NoData
                              /\ fetch[k].step # "read"
    BY DEF Init, Idle, Asked
  <2> QED
    BY <1>1, <2>1 DEF CacheInv, Fits, AcknowledgedIsShown, Settled, Init
<1>6. FormInv
  BY DEF Init, FormInv, NoForm
<1>7. CalmInv
  BY DEF Init, CalmInv
<1> QED
  BY <1>2, <1>3, <1>4, <1>5, <1>6, <1>7 DEF IInv

(***************************************************************************)
(* The inductive invariant of the storefront.                              *)
(***************************************************************************)
THEOREM StorefrontInvariant == Spec => []IInv
<1>1. Init => IInv
  BY InitIInv
<1>2. IInv /\ [Next]_vars => IInv'
  BY TypeStep, CallStep, ChangeStep, CacheStep, FormStep, CalmStep DEF IInv
<1> QED
  BY <1>1, <1>2, PTL DEF Spec

(***************************************************************************)
(* Every variable has its type, and the cart changes at most once for each *)
(* call of the pages and once for the other tab: a call that is answered   *)
(* late, or not at all, is not performed twice.                            *)
(***************************************************************************)
THEOREM StorefrontTypeCorrect == Spec => []TypeOK
<1>1. ASSUME IInv PROVE TypeOK
  <2> USE <1>1
  <2>1. changes \in Nat /\ changes <= Cardinality(Calls) + 1
        /\ Cardinality(Calls) \in Nat
    BY ChangersFinite DEF IInv, TypeInv, ChangeInv
  <2>2. at \in [Calls -> 0 .. changes] /\ otherAt \in 0 .. changes
    BY DEF IInv, TypeInv, ChangeInv
  <2>3. NoData \in Cached
    BY <2>1 DEF NoData, Cached
  <2>4. \A s \in Snapshots : Fits(s) => s \in Cached
    BY <2>1, <2>3 DEF Snapshots, Fits, Cached
  <2>5. data \in [Currencies -> Cached]
    BY <2>4 DEF IInv, TypeInv, CacheInv
  <2>6. fetch \in [Currencies -> [step : {"idle", "asked", "read"}, got : Cached]]
    BY <2>4 DEF IInv, TypeInv, CacheInv
  <2>7. /\ form.submitting \in BOOLEAN /\ form.own \subseteq Orders
        /\ {form.error, form.ticket, form.last} \subseteq Orders \cup {NoOrder}
    BY DEF IInv, TypeInv, Forms
  <2> QED
    BY <2>1, <2>2, <2>5, <2>6, <2>7 DEF IInv, TypeInv, TypeOK
<1> QED
  BY <1>1, StorefrontInvariant, PTL

(***************************************************************************)
(* What was acknowledged is shown once the query has come to rest, however *)
(* fetches, changes of currency and other calls overlap: the invalidations *)
(* of Cart.provider.tsx reach every fetch that had not been overtaken.     *)
(***************************************************************************)
THEOREM StorefrontAcknowledgedIsShown == Spec => []AcknowledgedIsShown
<1>1. IInv => AcknowledgedIsShown
  BY DEF IInv
<1> QED
  BY <1>1, StorefrontInvariant, PTL

(***************************************************************************)
(* What a customer who waits for every answer orders is what the cart page *)
(* showed, unless the other tab changed the cart: PlaceOrder is sent no    *)
(* items, and CartDetail.tsx shows what the query of the cart returned.    *)
(***************************************************************************)
THEOREM StorefrontOrderedAsShown == Spec => []OrderedAsShown
<1>1. IInv => OrderedAsShown
  BY DEF IInv, CalmInv, OrderedAsShown, Changed
<1> QED
  BY <1>1, StorefrontInvariant, PTL

(***************************************************************************)
(* What the pages say of an order agrees with what became of its call      *)
(* (CartDetail.tsx): complete means placed, except in the app, at most one *)
(* known order is processed, and an error shown is of an order whose route *)
(* answered with one or whose answer was lost, placed or not.              *)
(***************************************************************************)
THEOREM StorefrontToldTheTruth == Spec => []ToldTheTruth
<1>1. ASSUME IInv PROVE ToldTheTruth
  <2> DEFINE processed == {o \in form.own : call[o] = "sent"}
  <2>1. Orders \subseteq Calls /\ form.own \subseteq Orders
    BY <1>1 DEF IInv, TypeInv, Forms, Calls
  <2>2. \A o \in Orders : call[o] = "ok" =>
            Changed(o) \/ (client = "app" /\ server[o] = "error")
    BY <1>1, <2>1 DEF IInv, CallInv, Changed
  <2>3. processed = {} \/ processed = {form.last}
    BY <1>1 DEF IInv, FormInv
  <2>4. Cardinality(processed) <= 1
    <3>1. Cardinality({}) = 0 /\ Cardinality({form.last}) = 1
      BY FS_EmptySet, FS_Singleton
    <3> QED
      BY <2>3, <3>1
  <2>5. form.submitting <=> processed # {}
    BY <1>1 DEF IInv, FormInv
  <2>6. form.error # NoOrder => ToldError(form.error) \/ NotTold(form.error)
    <3>1. form.error # NoOrder => form.error \in Calls
      BY <1>1, <2>1 DEF IInv, TypeInv, Forms
    <3> QED
      BY <1>1, <3>1 DEF IInv, FormInv, CallInv, ToldError, NotTold
  <2> QED
    BY <1>1, <2>2, <2>4, <2>5, <2>6 DEF IInv, FormInv, ToldTheTruth
<1> QED
  BY <1>1, StorefrontInvariant, PTL
=============================================================================
