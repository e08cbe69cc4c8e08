# Formal model of the demo shop

This directory holds TLA+ specifications of the services in `src/`, the TLC
configurations that check them, and proofs checked by TLAPS. They describe the
part of the shop whose correctness depends on more than one step at a time:
placing an order, the cart it is made of, the page it is placed from, the sum
that is charged for it, the messages that carry it, what the rest of the system
is told, the incidents that are opened when it fails, and the small parts where
threads, pages or restarts meet over shared state.

## The system

The shop is a set of small services that call each other over gRPC and HTTP.

| Component | State it keeps | Operations | Hard parts |
|---|---|---|---|
| checkout | none between orders | `PlaceOrder`: read the cart, price it, check the price threshold, charge, ship, empty the cart, confirm, publish | calls whose answer is lost, no compensation, a panic that ends every order, retries by the customer |
| checkout: money | none | `Sum`, `Negate`, `MultiplySlow`, comparisons | sign rules, carries, int32 nanos |
| checkout: publishing | one kafka producer with two answer channels, shared by all orders | `sendToPostProcessor`, the goroutine that logs errors, the copies of `kafkaQueueProblems` | answers carry no address and there are more receivers than answers |
| cart | carts in valkey, one hash per user, 60 minutes to live | `AddItem`, `GetCart`, `EmptyCart` | read-modify-write without a lock, two commands that belong together, reconnects |
| payment | none | `Charge` | no recognition of repeated charges |
| shipping, quote | none | `GetQuote`, `ShipOrder` | random quote |
| currency | a table of rates | `Convert` | doubles, a map without a lock |
| product-catalog | the catalog, reloaded by a goroutine | `ListProducts`, `GetProduct`, `SearchProducts` | readers see the reload, nil after an error |
| recommendation | a list of cached ids | `ListRecommendations` | cache growth, handler threads |
| ad | worker threads of the CPU load | `GetAds` | a flag tested and set without a lock |
| accounting, fraud-detection | kafka offsets | consume the topic `orders` | automatic commits, exceptions that end the loop |
| support | none | `CreateSupportRequest`: open a ticket, notify, open an incident | one of several steps fails, retries |
| dora-metrics: incidents | incidents, counters, the state of the improvement | create, resolve, webhook, reset, list | handlers that interleave at every await |
| dora-metrics: detectors | errors and failures seen lately, the time of the last incident | checks on a timer, `processErrorTraces`, `handleRealFailure` | rounds that overlap, traces that are found again, one cooldown for all services |
| frontend, react-native-app | the cart as a query for each currency, the form of the cart page | Add To Cart, Empty Cart, Place Order, change of currency, support requests | answers out of order, caches that are not invalidated, a page that is left or mounted anew while an order is underway |
| frontend: generated codecs | none | encode, decode, toJSON, fromJSON for 47 messages | versions that differ, defaults, int64 in a JavaScript number |
| flagd-ui | the flag file, and a copy in each page | read, edit, save | whole-file writes of what was read earlier, a file emptied before it is written |

How they meet: the frontend calls checkout and the cart over gRPC; checkout
calls cart, product-catalog, currency, shipping, payment and email in turn and
publishes on the kafka topic `orders`, which accounting and fraud-detection
read; shipping calls quote; a failed order leads the customer to support, which
makes a ticket in Jira and posts an incident to dora-metrics; a pull request
announced by webhook resolves it. Flags are read from flagd on every use and may
change between two reads. Nothing in the shop spans two services
transactionally, and no service but the cart (valkey), kafka and Jira keeps
anything across a restart.

What makes each part correct:

- **checkout.** What is shipped was paid for, by the same request, the same
  goods, once; the status returned tells what became of the money; only shipped
  orders are confirmed, published or taken out of the cart; what is paid passed
  the check of prices; goods of an order that has emptied the cart do not come
  back into a later one.
- **money.** Sums are exact and valid, and do not panic on ordinary orders.
- **publishing.** Every message is answered once; an order does not wait for
  ever, or only in a way that can be named.
- **cart.** A cart holds each product once, in the quantity that was added;
  what overlapping calls may disturb is bounded; entries expire; calls end.
- **incidents.** One pull request resolves an incident, once; its ticket is
  closed and the counters and the failure rate follow; an improvement is shown
  only if something was resolved, and then it is shown.
- **storefront.** What is acknowledged is shown, what is ordered is what was
  shown, what the pages say of an order agrees with what became of its call (which is
  less than being true of the order, see Findings), and the button comes back.
- **codecs.** A message arrives as it was sent, between versions too.
- **detectors.** An incident counts what is young, each thing once, and nothing
  that is due stays unreported but for the reason that can be named.
- **consumers.** An order that is left behind was logged, or its loss is named.
- **CPU load.** No workers run once the load is off and the requests are over.
- **flag editor.** No flag is lost but by one of the overlaps that can be named.
- **connection, catalog, recommendation, currency** (not modelled): see below.

## Modules

```
Money <- OrderTotal <- CartPage     what a card is charged, what the page shows
MoneyCases                          Sum, pair by pair
OrderLedger  <- refined by Checkout what checkout promises
CartCalls    <- used by Checkout, refined by CartStore
PostProcessor                       the last step of PlaceOrder
OrderConsumers                      accounting and fraud-detection
Storefront                          the pages and routes before Checkout
Messages, Wire <- MessageCases      what the pages and the services say
IncidentBook <- refined by Incidents what support, dora-metrics and Jira promise
TraceMonitor, RealIncidentDetector  the detectors of dora-metrics
CpuLoad                             the ad service's load
FlagEditor                          flagd-ui
Parts                               the ones that keep to themselves, side by side
```

`MC*.tla` give the constants small values for TLC; `*Proofs.tla` hold the
theorems. `Parts` takes in the order with the cart page and the pair of amounts
(EXTENDS), and the messages, the detectors, the flag editor, the consumers and
the CPU load (INSTANCE); a behaviour is about one of them. The run and the
theorems about these parts speak of the same specification and the same
properties. Definitions headed *Seeded bug* are not part of any specification:
each is a definition of the module with a plausible mistake, and putting it in
place makes a property of the runs fail.

| Module | State and its origin in the code | Actions and their origin |
|---|---|---|
| `Money` | none: amounts are records of units, nanos and currency code | one operator per function of `money.go`, with `Sum` cut into its branches: `Carried` (same sign), `Borrowed` (different sign); Go's truncating `/` and `%`, and the int32 of nanos (`Int32`) |
| `OrderTotal` | `shipping`, `items` (the prepared order); `total`, `i`, `n`, `out` (loop variables of `PlaceOrder` and `MultiplySlow`); `due` is history | one action per call of `money.Sum`: `AddShipping`, `Multiply`, `AddItem`; a failing one is a panic |
| `Checkout` | `pc`, `items`, `checked`, `reply`: the locals of each `PlaceOrder`; `rpc`: the one call that changes a service and is outstanding; `payments`, `paidFor`, `shipments`, `shippedLines`, `emails`, `records`: what the services did; `cart`, `addPc`, `addRead`: the cart service as `CartCalls` | one action per stretch between two calls: `ReadCart`, `PrepareOrder`, `CheckExpensiveItems`, `RejectOrder`, `ChargeCard`, `ShipOrder`, `EmptyUserCart`, `CartEmptied`, `SendOrderConfirmation`, `SendToPostProcessor`, with `ChargeError` and `ShipError` for errors; `Perform*` and `RefuseCharge` are the services; `TotalPanics` and `Restart` end every order in the process |
| `OrderLedger` | what the payment provider, the warehouse and the customer see | `Pay`, `Ship`, `Confirm`, `Reject`, `Fail` |
| `CartCalls` | the set of `AddItem` calls each cart is made of | read, write, failure, clearing |
| `CartStore` | `store`, `ttl`: the hash and its expiry in valkey; `pc`, `read`: each call; `wire`: commands sent and not yet performed | `HashGet`, `HashSet`, `KeyExpire`: the awaits of `AddItemAsync` and `EmptyCartAsync`; `Perform*`: valkey; `Refuse`, `GiveUp`, `ConnectionLost`, `ServiceDies`: the failures; `Tick`: time |
| `PostProcessor` | `pc` of each order and of each goroutine it spawns; `queue` and `offered`: the producer; `drained`: answers the logging goroutine took | the cases of the two `select`s of `sendToPostProcessor`, the copies of `kafkaQueueProblems`, `DrainError`, and the library's `Produce` |
| `Incidents` | `pc` of every handler; `jira` and `closing`: the tickets and those Jira was sent a PUT for; `incidents`, `status`, `ticketed`, `augmented`: the map; `active`, `count`, `rate`, `opened`, `resolved`: metrics | one action per stretch between two awaits of `createIncident` and `resolveIncident`, one per call of `CreateSupportRequest`, the routes `PrCreated`, `PutResolve`, `Reset`, the schedule `UpdateMetrics`, `Restart`, and Jira (`JiraIssues`, `JiraCloses`), at any time after it was called |
| `IncidentBook` | the ticket and the incident of each request and report, which resolution is of what, which are due and which are shown | `File`, `Open`, `Resolve`, `Close`, `Show`, `Clear`, `Update` |
| `CartPage` | none: it reads the order of `OrderTotal` | `PageTotal`: the `useMemo` of `CartItems.tsx`, nanos first and the units they exceed afterwards |
| `OrderConsumers` | `topic`; per consumer `committed`, `position`, `done`, `up`; `processed`, `inHand`, `behindBad`, `notYet` are history | `Consume`, `ProcessMessage`, `AutoCommit` (accounting); `Poll`, `PollTooLate`, `FoldRecord`, `ParseFails` (fraud-detection); `Start`, `Die` |
| `Storefront` | `selected`, `data`, `fetch`, `failed`: the query client; `page`, `form`: what is mounted and its React state; `call`: each mutation; `cart`, `server`: the routes and what is behind them; `changes`, `at`, `seen`, `ordered`: history | clicks (`AddItem`, `EmptyCart`, `PlaceOrder`, `AppPlaceOrder`, `SelectCurrency`, `Go`, `SendTicket`), the query (`GetCart`, `FetchDone`, `FetchFails`, `Focus`), the routes (`Perform*`, `Refuse`, `LookUp`), the answers (`Succeeds`, `Fails` for an error, `Loses` for none, `TicketAnswered`), another tab (`OtherTab`) |
| `Messages`, `Wire`, `MessageCases` | `type` and `message`: one message, built field by field | `Messages` is the schema the code of `demo.ts` spells out, message by message; `Wire` the five functions of a message, with its fields as parameter and the functions of the messages inside it as constants; `MessageCases` puts four instances of `Wire` one upon the other (`Flat`, `Once`, `Twice`, `Codec`), as deep as messages go |
| `TraceMonitor` | `recentErrors`, the clock; what Jaeger returned and what was reported as history | `CheckServiceForErrors` with `processErrorTraces`, `ErrorHappens`, `Tick` |
| `RealIncidentDetector` | `recentFailures`, `lastIncidentTime` | a call that fails (`handleRealFailure`), the demo incident, `Tick` |
| `CpuLoad` | `instance`; `running` and `workers` of each instance; `pc`, `using` of each request | `getInstance` and `execute`, one step per read or write of a field and per block under the lock |
| `FlagEditor` | `file`; `data`, `reads`, `write` of each page; `last`, `edited`, `seen` are history | loading, editing and saving in both views; `readFileSync` in one step, `writeFile` in two; lost answers, refused writes, a server that dies |

Abstractions worth knowing:

- A call to another service is *sent*, *performed* and *answered*, and an error
  says nothing of whether it was or will be performed. The same goes for Jira:
  a ticket is made, or closed, while the handler waits, after it has gone on, or
  after a restart has ended it. Calls that only read are one step, since nothing
  they return can be told from reading at another time.
- In `Checkout` a cart is the set of `AddItem` calls that make it up, which is
  what properties about goods need; `CartStore` keeps real carts (products and
  quantities) and is shown to implement that view.
- What order totals do to the process is `TotalPanics`, allowed for any order:
  the random cost of shipping is one of the amounts. When they can happen is
  the subject of `OrderTotal`.
- In `Storefront` a cart is the set of lines added to it, and the route of an
  order takes it in one step: the steps are those of `Checkout`. A change of the
  cart has a number, which no code knows, to say how old a page is. Requests are
  sent by `fetch`. What a service has refused to a route it has not performed and
  does not perform later; a route whose answer is lost may still perform, and one
  that answers with an error may have performed before.
- In `Wire` what is written is a sequence of tokens, tag and payload; bytes and
  varints are the library's. A message that is undefined is the empty sequence.
  The functions of `demo.ts` call each other as messages are nested; one instance
  of `Wire` per depth says the same without recursion, which no proof could be
  about.
- `IncidentBook` knows neither handlers nor counters. An incident that a reset or a
  restart has dropped is *cleared* in it; what began to be resolved before is
  due, and shown by whoever still runs.
- In `CpuLoad` the fields are read and written in one order that all threads see.
- In `Incidents` a ticket and an incident go by the name of the request or
  report they came from: no caller reuses a ticket for another incident.
  Every incident is one of checkout, the only service whose impact on the
  failure rate is shown. Rates are whole percentages; those generated once
  Augment is active are at most 23.

## Runs

| Run | Instance | What it shows |
|---|---|---|
| `checkout` | one customer, an order and its retry (interchangeable), two `AddItem` calls, threshold off or 1; about 820 000 states | `ShippedWasPaid`, `StatusTellsFate`, `AnnouncedWasShipped`, `PaidPassedCheck`, `NoSecondOrder`, and that PlaceOrder implements `OrderLedger` (`LedgerSpec`), across lost answers, late calls, restarts and panics |
| `checkout_threshold` | one order | a violation, see Findings |
| `cart_store` | one customer, two `AddItem` calls of one product, with one `EmptyCart` or with an `AddItem` of a second product (`Together`), two ticks to live; about 120 000 states | `CartIsSumOfAdds`, `OnlyOverlapsDisturb`, `TtlUnlessInterrupted`; every call ends and entries expire (`EveryCallEnds`, `CartsExpire`); the service implements `CartCalls` (`CallsSpec`) |
| `cart_ttl` | the same customer, fewer calls | a violation, see Findings |
| `parts` | eight parts side by side, one in each behaviour; about 639 000 states | `TotalExact`, `PanicOnlyOnFractions`, `ShownTotal` (order totals); `SumIsExact` (pairs of amounts); `ArrivesAsSent` (messages); `ReportedWhenDue` (both detectors); `FlagsSurvive` (the file of flags); `SkippedOnlyWhenStopped` (consumers); `NoWorkersWhileOff` (CPU load) |
| `storefront` | five sessions: an order and an added item in two currencies; two orders; an order and an emptied cart; another tab; the app with two orders; about 581 000 states | `AcknowledgedIsShown`, `OrderedAsShown`, `ToldTheTruth`, `SubmittingEnds` |
| `storefront_error` | the same sessions | a violation, see Findings |
| `trace_threshold` | three traces of two services | a violation, see Findings |
| `post_processor` | three orders, one copy each or none, a producer that holds one message besides the one it is answering; about 74 000 states | `AnswersConserved` (nothing is lost, invented or tried twice); `AnsweredUnlessDrained`, `AcceptedUnlessClogged` |
| `post_processor_offset` | two orders | a violation, see Findings |
| `incidents` | one support request, one reported incident, two announced pull requests, one resolution by hand; about 434 000 states | `HooksResolveOnce`, `ImprovementEarned`, `TicketFollowsIncident`, `GaugeTellsImprovement`, `CountersMatch`; the handlers keep the book (`BookSpec`); what is resolved is shown (`ResolutionsShow`) |
| `incidents_rate` | one report, one resolution | a violation, see Findings |

`TypeOK` is checked in the main run of each module that has state, but for
`parts`; that of the order is proved.

### Why these bounds

- *checkout.* Every conjunct about one order needs one order; what an order can
  do to another goes through the cart of one user, and needs two orders, one
  line that is brought back and one `AddItem` that brings it back. A third
  would add a second interference of a kind already there. `KafkaEnabled` is
  TRUE, which contains the behaviours of FALSE but for the step it skips; the
  proofs cover both, and every number of users, orders and lines.
- *cart_store.* A lost update needs two adds, a resurrected line an add and an
  emptying, a missing time to live one interrupted call; carts of different
  users share nothing but the connection. A second product needs a third add,
  which is tried in place of the emptying: all four calls together are beyond
  what is quickly checked, and the proofs cover any number. Two ticks are enough for an expiry
  between a call's read and its write and for a postponed one.
- *order totals and pairs (parts).* The arithmetic depends on the modulus only
  through carries. Orders have ten nanos to the unit, prices of 0 or 1 units and
  0, 3, 5 or 9 nanos, two items and quantities to four, so that two fractions
  fall short of, meet and pass a unit; pairs are of -2 to 2 units and -11 to 11
  nanos, valid or not. `Int32Half` keeps the code's
  proportion (the int32 holds two units' worth of nanos and little more) so that
  the overflow occurs. `MaxItems`, `MaxQuantity`, `MaxUnits` and `MaxNanos` are
  bounds of the model, and the proofs cover any.
- *messages (parts).* Every message a call carries, with every subset of its
  fields set, written and read with one field unknown to either side; an int64
  within and beyond `MaxSafe`. A codec treats its fields one by one, so that one
  missing field shows what several would. The other parts are checked beside a
  message without fields. The proof covers any schema and any values.
- *detectors (parts).* The threshold is two and three errors are of two services
  (`MaxHanded`: each is found twice, `MaxTime`: twice the window), or four calls
  fail (`MaxFailures`) with the cooldown shorter than the window, as in the code.
  The proof covers any thresholds, windows, cooldown, times and numbers of each.
- *flag editor (parts).* One basic and one advanced page and two flags, two
  writes (`MaxWrites`): enough for an overwritten change, a read between the two
  steps of a write, and two writes that overlap. The proof covers any number.
- *consumers (parts).* Three records, one of them behind a bad one in a batch,
  one stop (`MaxRecords`, `MaxStops`); the proof covers any number.
- *CPU load (parts).* Three requests: two that make an instance each and one that
  finds what they left. The proof covers any number.
- *storefront.* A property about what is shown needs one change and one fetch of
  a currency that is not selected; one about what is told needs a second order
  while the form is mounted anew. Each session has what one of them needs
  (`Sessions` is the bound), and each ends. The proofs cover any session.
- *post_processor.* With one place in the queue, one answer on offer and three
  orders with a copy each, the producer is full, clogged and starved by turns.
- *incidents.* Two webhooks and a resolution by hand make every pair of
  resolutions of one incident; one incident with the ticket given and one
  without make both ways of creation. Handlers run once each; resets, restarts
  and updates are not bounded.

Deadlock is checked in `incidents` and `storefront`, where the schedule and the
customer never stop. It is off in the other passing runs (`CHECK_DEADLOCK
FALSE`): all calls of the instance come to their end and nothing is left to do.

### Fairness

`Checkout` and the parts assume none (`OrderTotal` states that the computation
goes on, which none of its properties needs). Where a property says that
something comes about, the assumptions are:

- `CartStore`: a call whose await has completed is resumed (the .NET thread
  pool), the client library times out on a command without an answer
  (`GiveUp`), valkey performs what has reached it, and time passes. No call
  has to begin.
- `PostProcessor`: a goroutine that can go on is scheduled, and the producer
  tries what it holds. Weak fairness is per goroutine. A client need not cancel,
  so `CancelSend` and `CancelWait` have no fairness.
- `Incidents`: Jira and Slack answer or the connection to them fails, and the
  handler goes on. axios sets no timeout here, so that this is an assumption on
  the peers. The cron schedule runs. Nobody has to send a request.
- `Storefront`: an order that was sent is answered, or its connection fails
  (`WF(Answer(o))`): browsers and proxies give up. No customer has to click, and
  no query has to come to rest.

## Proofs

Proved with TLAPS, for every value of the constants that satisfies the named
assumptions: the constants have their types; sets of calls and of handlers are
finite where they are counted, and disjoint where the code tells them apart
(`CheckoutAssumption`, `CartAssumption`, `StorefrontAssumption`,
`PostProcessorAssumption`, `IncidentsAssumption`); the word that stands for an
expiry is no call, and a missing cart is not a cart (`CartAssumption`); prices are
valid and not negative and the int32 holds twice the modulus (`MoneyAssumption`,
`OrderTotalAssumption`); the producer holds a message; thresholds and windows are
positive, and what is not a file of flags differs from one (`PartsAssumption`);
the fields of a message have a number and a name of their own, and messages are
at most four deep (`MessagesAssumption`, a part of `PartsAssumption`). TLC
evaluates each of them in the runs, the last for the schema of `demo.ts`.

All safety properties of the passing runs are proved, and so is that `Checkout`,
`CartStore` and `Incidents` implement their abstract specifications.

**OrderTotalProofs.** Of `Sum`: `SumExact`, an accepted sum whose nanos fit the
int32 is exact, even where it is written in an invalid form;
`SumOfWholeUnitsValid`, of amounts of the same sign it is valid once one of them
has a unit; and `EveryPairSumsExactly` (`SumIsExact`), which adds what `Sum`
refuses, that the order of the operands is irrelevant and that `Negate` takes an
amount back. The lemmas follow the branches of `Sum`; the only divisions are of
numbers below twice the modulus (`SmallQuotient`).

Of an order: `TypeCorrect`, `TotalIsExact`. `TotalExact` says nothing of
an item that is half multiplied, so that the inductive invariant adds what
`MultiplySlow` has reached: after counting down to `n`, `out` is worth
`quantity - n + 1` times the cost. Products of variables appear in it and are
taken apart by hand. `OnlyFractionsPanic` (`PanicOnlyOnFractions`) rests on an
invariant of its own: once shipping of at least a unit is in it, the total is
valid and has whole units, to which `Sum` adds any valid amount; the multiplied
cost has whole units too, or is still worth what it began with, which is nothing
or at least half a unit. `PageAgreesWithCharge` (`ShownTotal`) relates that total
to the page's own sum, a fold over the items: after `i - 1` items the exact
sum is shipping and what those items cost (`PageInv`), and the folds over nanos,
units and extra pieces add up to the same, by induction on how many items
they have taken (`Induction`, from the library's `NatLessThanWellFounded`; the
function that a fold defines exists, by `SumExists`).

**CheckoutProofs.** `CheckoutTypeCorrect`, `OrderInvariant` and from it
`CheckoutShippedWasPaid`, `CheckoutStatusTellsFate`,
`CheckoutAnnouncedWasShipped`, `CheckoutPaidPassedCheck`. None of these is
inductive alone, since a service performs a call at any time, even of an order
long given up: the invariant says for each order how its place (`pc`), its
outstanding call (`rpc`) and the state of the services fit together
(`CallsInv`, `ReplyInv`, `LedgerInv`, `CheckInv`). Two lemmas per kind of step:
what it does to its own order and that it leaves the others alone.
`CheckoutImplementsLedger` maps every step to one of `OrderLedger` or a stutter:
`PerformCharge` to `Pay`, `PerformShip` to `Ship`, the last step to `Confirm`,
`RejectOrder` to `Reject`, every other return and every death to `Fail`.

`CheckoutNoSecondOrder` has an invariant of its own, which follows the lines
of an emptied order: they are in no cart of the user, and an `AddItem` that has
read them was under way when the cart was emptied (`KeptOut`), until one brings
them back.

**CartStoreProofs.** `CartStoreTypeCorrect`, `CartStoreTtlUnlessInterrupted`,
`CartStoreOnlyOverlapsDisturb` and `CartStoreImplementsCalls`: every step over
the connection is a step of `CartCalls` or leaves its carts alone. A command may
be performed long after its call was reported as failed, so the invariant speaks
of what the connection can still deliver: at most one `HashSet` of a call, and
none of one that was performed (`WireInv`). An entry without a time to live has
a call that will see to it or has failed before (`TtlInv`). Of an `AddItem` that
has read and may still write, the invariant says how what it has read differs
from what is stored, and that each difference is one the property excuses
(`OpenInv`).

`CartStoreSums` (`CartIsSumOfAdds`) carries along one more invariant, `SumInv`:
every cart, stored or read by an open `AddItem`, holds each product of the calls
it is made of once, with the sum of their quantities. `WithItem` keeps it because
the call whose cart is written is not among those it had read. The sum is a fold
over a set that picks one member after the other; that it does not depend on
which is picked, and grows by the quantity of a call that is added
(`TotalWithout`, `TotalOneMore`), is proved by induction on the size of the set.

**PostProcessorProofs.** `PostProcessorTypeCorrect` and
`PostProcessorAnswersConserved`, for any number of orders, copies and places in
the queue. Both sides of the property are cardinalities: of the senders that
have sent and of the places of a message in the queue, which shift by one when
the producer takes the first (`PlacesOfTail`, by a bijection). It is inductive with two facts about an
order: it has logged nothing while it waits, so that it is not counted both as
waiting and as having given up, and its goroutines are idle until it spawns them
(`OrdersInv`).

**StorefrontProofs.** `StorefrontTypeCorrect`, `StorefrontAcknowledgedIsShown`,
`StorefrontOrderedAsShown` and `StorefrontToldTheTruth`, from one invariant. The
cart's changes are numbered, and each was made by one call or by the other tab
(`ChangeInv`): a snapshot as old as the last change is the cart itself. What a
fetch has read holds every change acknowledged by then, since each
acknowledgement repeats or overtakes it (`CacheInv`). The form knows which of the
calls it has sent is still underway (`FormInv`). An order whose customer waits
finds the cart as it was shown, or as the other tab has left it, until its route
takes it (`CalmInv`).

**PartsProofs.** `PartsSkippedOnlyWhenStopped`: for accounting the invariant
(`TopicInvariant`) follows the position: whatever was fetched is logged, in hand,
or was in hand at a death, and a committed offset is not beyond it. For
fraud-detection it follows what was dealt with, since a batch that dies is read
again; the commits inside poll and at closing are of what was dealt with, except
behind a bad record. `PartsNoWorkersWhileOff`: workers of an instance that is not
`running` belong to a request that is about to set `running` or to stop them
(`LoadInvariant`), which no step of another request can change.
`PartsFlagsSurvive`: as long as no two writes overlapped, the server has not died
in one and no page saved what it had not loaded, the file holds what was written
last, at most one page is writing it, and an answer, a post or a page that is as
old as the last write agrees with it in every flag its operator has not chosen
(`EditorInv`).

`PartsReportedWhenDue` has an invariant for each detector.
`TraceMonitor`: an error that was found is kept, counted by an incident or no
longer young, and never two of these; fewer are kept than the threshold
(`MonitorInv`). `RealIncidentDetector`: a failure within the window is remembered
or counted; and if up to some failure there are enough of its service to report,
it came within the cooldown of an incident (`HeldBack`), which stays so when
others are forgotten.

**WireProofs.** Whether a message arrives is a matter of data, not of steps:
decode is a loop over what encode has concatenated, field by field and element by
element. The module proves of one codec, with the functions of the messages
inside as constants, that it keeps its messages if those do (`InnerKept`). The
loop over two stretches of tokens is the loop over the second from where the
first has led (`LoopConcat`), and encode of one more field appends that field's
tokens (`EncodeAppend`). One field's tokens put its value, or its elements one by
one, where the default was, or throw (`FieldRead`, by induction on what the
field holds); a reader that does not know the field skips them (`LoopIdle`); and
by induction on the fields, over gRPC a reader has of those written so far the
ones it knows and the defaults of the rest (`MessageRead`). `JSONRead` is the
same for JSON, and `MessageArrives` for versions of one schema. That loops and
concatenations, which are recursive functions, exist and are unique is proved by
induction on a set of lengths (`SeqInduction`).

`PartsArrivesAsSent`, in *PartsProofs*, takes these lemmas through the four
depths of `MessageCases`: below a flat message there is none, and what is proved
of one depth is what the next assumes (`FlatKept`, `OnceKept`, `TwiceKept`).
The only invariant is that the fields of a message hold what its interface says
(`MessageInv`).

**IncidentsProofs.** `IncidentsTypeCorrect` and every safety property of the run:
`IncidentsHooksResolveOnce`, `IncidentsTicketFollowsIncident`,
`IncidentsGaugeTellsImprovement`, `IncidentsImprovementEarned`,
`IncidentsCountersMatch`. The invariant adds where an incident is that has a
status (`SourcesInv`), what a handler has that resolves one (`TargetsInv`) and
that counted resolutions are over (`CountInv`). Steps are first reduced to a few
effects (`StepCases`, `ResolutionCases`), then each part is preserved on its
own; the counters are cardinalities, which change by one with the set.

`IncidentsKeepBook` maps every step to one of `IncidentBook` or a stutter
(`BookSpec`): Jira making a ticket is `File`, an incident that enters the map is
`Open`, a resolution that finds one and sets its status is `Resolve`, the last
step of a resolution, which improves the rate whatever became of the ticket, is
`Show`; a reset or a restart is `Clear`, the schedule `Update`. Jira closing a
ticket is `Close`, a step of its own: between it and the end of the resolution a
reset, a restart or an update can come, and then the ticket is done while the
resolution counts later or never. What is due is read off the places of the
handlers, so that the map needs the invariant; that `Close` finds a resolution
to belong to is the invariant's part on `closing`, by which a PUT was sent only
for an incident that some handler had resolved (`TicketsInv`, `CloseInBook`).

Model-checked only: everything temporal under fairness (`EveryCallEnds`,
`CartsExpire`, `AnsweredUnlessDrained`, `AcceptedUnlessClogged`,
`ResolutionsShow`, `SubmittingEnds`), which is beyond the prover. No safety property of a passing run
is left to TLC alone. The library's induction theorems take an operator as a parameter and cannot
be used; where a fold had to be reasoned about, induction was done on a set of
numbers, by the well-foundedness of `<`.

## Findings

Each is a run that ends in a counterexample to what the repository says.

- `checkout_threshold`: when a currency cannot be converted,
  `checkExpensiveItems` compares the price in the customer's currency with a
  threshold meant in dollars (`main.go:651`, against the flag's description
  `demo.flagd.json:110`); an item above it is sold.
- `cart_ttl`: `HashSetAsync` and `KeyExpireAsync` are two commands; a call
  interrupted between them leaves an entry that never expires
  (`ValkeyCartStore.cs:160`, against `CHANGELOG.md:492`).
- `post_processor_offset`: an order takes the next answer from a channel all
  orders share and records its offset as its own (`main.go:529`, against
  `producer.go:28`).
- `storefront_error`: the checkout route looks up the products after the order is
  placed and answers 400 when a lookup fails; the cart page then shows an error,
  and offers the dialog that says the order could not be completed, for an order
  that was charged and shipped (`pages/api/checkout.ts:21`, against
  `SupportRequestForm.tsx:55`). `ToldTheTruth` says what does hold of such an
  error: the route answered with one, or its answer was lost.
- `trace_threshold`: every round asks Jaeger for the traces of the last hour and
  counts all of them again; one error that two rounds find is an incident
  (`trace-monitor.js:187`, against `index.js:28`, "2 errors trigger incident").
- `incidents_rate`: `resolveIncident` asks a fresh generator for the impact,
  which knows no metrics and sets the rate to 15 or 11 where 50 was shown
  (`incident-manager.js:87`, against `dora-metrics-generator.js:261`, "Increase
  change failure rate temporarily").

## Hazards

`PROJECT.json` lists where each of these components can go wrong in a way a test
hardly reaches, with the property that would catch it. Where the code permits the
hazard's worst outcome, the entry has a note that says so, and its property is
about what may not happen beyond that. Seven have no property. Three are not
modelled: which connection object is current after a reconnect, the race on the
currency map, and the order of two lines in the catalog's reload. Four happen in
the models and nothing depends on their not happening: the load of an ad instance
that was replaced, the ticket that Jira makes for an incident resolved before, the
ticket of a support request no incident tracks, and the cart that carries no user
id once it was emptied.

## Not modelled

- *Wording and telemetry*: spans, logs, the text of bug reports, tickets and
  messages. No property is about them.
- *cart*: `EnsureRedisConnected`, that is, which multiplexer is current after a
  reconnect, and the handlers of the old ones, which are never removed. The
  client library reconnects by itself, so that the calls of `CartStore` see one
  connection that breaks and comes back whichever object holds it. Quantities are
  unbounded: that the sums of `AddItemAsync` are of an int32 is left out.
- *checkout*: a negative quantity, which `main.go:288` turns into a large uint32;
  quantities are at least zero.
- *payment, shipping*: only whether a charge or a shipment is made. The rules of
  a card are one test each; the quote is a random double.
- *currency*: conversions in doubles, whose rounding has no faithful integer
  form, and a map that threads write to, where anything may happen.
- *product-catalog, recommendation, quote, email, ad selection*: reads, a cache
  that grows by design, random prices; no step of theirs meets another but in
  the hazards listed.
- *frontend, react-native-app*: pages that only show; the garbage collection of
  the query cache; the render before a currency is selected; more than one
  support request at a time. A call of a route that is refused is not performed
  later. The app's copy of `demo.ts` is used for its types only. That
  `ProductCard.tsx` of the app divides nanos by 1e8 concerns one line.
- *flagd-ui*: of the reads of a page one is followed at a time.
- *dora-metrics*: the gauges that are set together with the failure rate, the
  demo scenarios and the checkout integration (no route calls them), the random
  business metrics, which read keys nobody sets (`mttr` for `mttrMinutes`),
  routes that only read. The detectors' events have no listener at this commit.
- *ad*: that the load of a replaced `CPULoad` instance ends: it does not, and the
  code does not say it should.
- *load-generator, image-provider, frontend-proxy, featureflagservice*: a random
  client, configuration, or not deployed.
- *kafka, flagd, valkey, Jira, Jaeger, react-query*: third-party; what the code
  relies on is in the module that uses it, marked external in `PROJECT.json`.
- *Generated code* of services other than the storefront.

## Plan

Done, in this order: `Money`, `OrderTotal`; `OrderLedger`, `CartCalls`,
`Checkout`; `CartStore`; `PostProcessor`; `Incidents`; the detectors, consumers,
CPU load and flag editor; the codecs; `Storefront` and `CartPage`; and the
proofs described above.

What could be added, in order of worth:

1. An abstract specification of the storefront (a cart that is shown as it is or
   as it was, and orders of what is shown) that `Storefront` implements.
2. `Connection`: `EnsureRedisConnected` composed with `CartStore`.
3. `Conversions`: the shipping cost, the quote and the card rules as arithmetic,
   compared with exact definitions.
