----------------------------- MODULE CartStore -----------------------------
(***************************************************************************)
(* The cart service (src/src/cart/src): AddItem and EmptyCart calls that   *)
(* share one connection to valkey.                                         *)
(*                                                                         *)
(* A call awaits one command after another, so that calls interleave       *)
(* between their commands.  Commands travel through one multiplexed        *)
(* connection and are performed in the order they were sent; a call that   *)
(* gives up on a command (its timeout) does not take it back.  When the    *)
(* connection breaks, what the server had not received is lost.            *)
(*                                                                         *)
(* Ping and GetCart only read and are left out.                            *)
(***************************************************************************)
EXTENDS Naturals, Sequences, FiniteSets, FiniteSetsExt

CONSTANTS Users,
          Products,
          Adds,       \* AddItem calls
          Empties,    \* EmptyCart calls
          UserOf,     \* [Adds \cup Empties -> Users]
          ItemOf,     \* [Adds -> [product : Products, quantity : Nat]]
          Together,   \* the bound: sets of calls made in one behaviour
          TtlTicks,   \* the 60 minutes an entry lives, in ticks of the clock
          NoCart,     \* the entry of the user is not there
          NoUser      \* the user id of a cart nobody has filled in

Calls == Adds \cup Empties

Cart == [user : Users \cup {NoUser},
         items : Seq([product : Products, quantity : Nat])]

ASSUME CartAssumption ==
    /\ Adds \cap Empties = {}
    /\ UserOf \in [Calls -> Users]
    /\ ItemOf \in [Adds -> [product : Products, quantity : Nat]]
    /\ Together \subseteq SUBSET Calls
    /\ TtlTicks \in Nat \ {0}
    /\ NoUser \notin Users
    /\ NoCart \notin Cart
    /\ "expiry" \notin Calls

VARIABLES
    store,      \* [Users -> Cart or NoCart]: the field "cart" of the entry
    ttl,        \* [Users -> 0..TtlTicks]: ticks left; 0 when not set
    pc,         \* [Calls -> ...]: the command a call awaits or has had
    read,       \* [Adds -> Cart or NoCart]: what HashGet returned
    wire,       \* commands sent and not yet performed
    \* history, read by the properties and the refinement only
    performed,  \* calls whose HashSet was performed
    content,    \* [Users -> SUBSET Adds]: the calls a stored cart is made of
    readContent,\* [Adds -> SUBSET Adds]: the same of the cart a call has read
    cleared,    \* adds performed before a later EmptyCart or expiry
    stale       \* [Adds -> ...]: writes since the call's read, before its own

callVars == <<pc, read, wire>>
historyVars == <<performed, content, readContent, cleared, stale>>

vars == <<store, ttl, callVars, historyVars>>

Steps == {"new", "getting", "got", "setting", "set", "expiring", "done",
          "failed"}

Awaiting == {"getting", "setting", "expiring"}

Init ==
    /\ store = [u \in Users |-> NoCart]
    /\ ttl = [u \in Users |-> 0]
    /\ pc = [c \in Calls |-> "new"]
    /\ read = [c \in Adds |-> NoCart]
    /\ wire = <<>>
    /\ performed = {}
    /\ content = [u \in Users |-> {}]
    /\ readContent = [c \in Adds |-> {}]
    /\ cleared = {}
    /\ stale = [c \in Adds |-> {}]

-----------------------------------------------------------------------------
(***************************************************************************)
(* What the calls send.                                                    *)
(***************************************************************************)
Begun(c) == pc[c] # "new"

MayBegin(c) == \E calls \in Together : {d \in Calls : Begun(d)} \cup {c} \subseteq calls

Send(c, kind, step) ==
    /\ Begun(c) \/ MayBegin(c)
    /\ pc' = [pc EXCEPT ![c] = step]
    /\ wire' = Append(wire, [call |-> c, kind |-> kind])
    /\ UNCHANGED <<store, ttl, read, historyVars>>

(***************************************************************************)
(* EnsureRedisConnected throws: valkey cannot be reached or, of EmptyCart, *)
(* the flag cartFailure has sent the call to the store that has no host.   *)
(***************************************************************************)
Refuse(c) ==
    /\ pc[c] = "new"
    /\ MayBegin(c)
    /\ pc' = [pc EXCEPT ![c] = "failed"]
    /\ UNCHANGED <<store, ttl, read, wire, historyVars>>

HashGet(c) ==
    /\ c \in Adds
    /\ pc[c] = "new"
    /\ Send(c, "get", "getting")

\* Seeded bug: AddItemAsync does not await the answer of its HashGet.
HashSetUnread(c) ==
    /\ pc[c] \in IF c \in Adds THEN {"getting", "got"} ELSE {"new"}
    /\ Send(c, "set", "setting")

\* EmptyCartAsync sets without reading; AddItemAsync sets what it has read.
HashSet(c) ==
    /\ pc[c] = IF c \in Adds THEN "got" ELSE "new"
    /\ Send(c, "set", "setting")

\* Seeded bugs: no KeyExpire is sent; it waits for an entry to be there; it is
\* sent again and again.
KeyExpireForgotten(c) ==
    /\ pc[c] = "set"
    /\ pc' = [pc EXCEPT ![c] = "done"]
    /\ UNCHANGED <<store, ttl, read, wire, historyVars>>

KeyExpireIfStored(c) ==
    /\ pc[c] = "set"
    /\ store[UserOf[c]] # NoCart
    /\ Send(c, "expire", "expiring")

KeyExpireForEver(c) ==
    /\ pc[c] \in {"set", "done"}
    /\ Send(c, "expire", "expiring")

KeyExpire(c) ==
    /\ pc[c] = "set"
    /\ Send(c, "expire", "expiring")

\* Seeded bugs: an item of a product already in the cart is taken out of the
\* cart; is counted for the first product.
WithItemTakenOut(value, user, item) ==
    IF value = NoCart
    THEN [user |-> user, items |-> <<item>>]
    ELSE [value EXCEPT !.items =
             [i \in DOMAIN @ |-> IF @[i].product = item.product
                                THEN [@[i] EXCEPT !.quantity = @ - item.quantity]
                                ELSE @[i]]]

WithItemAtFirst(value, user, item) ==
    IF value = NoCart \/ value.items = <<>>
    THEN [user |-> user, items |-> <<item>>]
    ELSE [value EXCEPT !.items[1].quantity = @ + item.quantity]

(***************************************************************************)
(* The cart with one more item.  With two items of the product             *)
(* SingleOrDefault would throw: CartIsSumOfAdds shows there never are.     *)
(***************************************************************************)
WithItem(value, user, item) ==
    IF value = NoCart
    THEN [user |-> user, items |-> <<item>>]
    ELSE LET existing == {i \in DOMAIN value.items :
                              value.items[i].product = item.product}
         IN  IF existing = {}
             THEN [value EXCEPT !.items = Append(@, item)]
             ELSE LET i == CHOOSE i \in existing : TRUE
                  IN  [value EXCEPT !.items[i].quantity = @ + item.quantity]

\* _emptyCartBytes: no items, and no user id either.
EmptyCart == [user |-> NoUser, items |-> <<>>]

ValueSet(c) ==
    IF c \in Adds THEN WithItem(read[c], UserOf[c], ItemOf[c]) ELSE EmptyCart

-----------------------------------------------------------------------------
(***************************************************************************)
(* valkey performs the next command.  The answer reaches the call if the   *)
(* call still awaits it.                                                   *)
(***************************************************************************)
NextIs(c, kind) ==
    /\ wire # <<>>
    /\ Head(wire) = [call |-> c, kind |-> kind]
    /\ wire' = Tail(wire)

Answer(c, step, next) ==
    pc' = IF pc[c] = step THEN [pc EXCEPT ![c] = next] ELSE pc

\* An AddItem that has read and whose own write is still to come.
ReadOpen(d) ==
    pc[d] = "got" \/ \E i \in DOMAIN wire : wire[i] = [call |-> d, kind |-> "set"]

MarkStale(users, by) ==
    stale' = [d \in Adds |-> IF UserOf[d] \in users /\ ReadOpen(d) /\ d # by
                             THEN stale[d] \cup {by} ELSE stale[d]]

Cleared(users) ==
    cleared' = cleared \cup {c \in performed \cap Adds : UserOf[c] \in users}

PerformGet(c) ==
    /\ NextIs(c, "get")
    /\ IF pc[c] = "getting"
       THEN /\ Answer(c, "getting", "got")
            /\ read' = [read EXCEPT ![c] = store[UserOf[c]]]
            /\ readContent' = [readContent EXCEPT ![c] = content[UserOf[c]]]
       ELSE UNCHANGED <<pc, read, readContent>>
    /\ UNCHANGED <<store, ttl, performed, content, cleared, stale>>

\* HSET keeps the time to live of an entry that is there.
PerformSet(c) ==
    /\ NextIs(c, "set")
    /\ Answer(c, "setting", "set")
    /\ store' = [store EXCEPT ![UserOf[c]] = ValueSet(c)]
    /\ performed' = performed \cup {c}
    /\ content' = [content EXCEPT ![UserOf[c]] =
                      IF c \in Adds THEN readContent[c] \cup {c} ELSE {}]
    /\ Cleared(IF c \in Empties THEN {UserOf[c]} ELSE {})
    /\ MarkStale({UserOf[c]}, c)
    /\ UNCHANGED <<ttl, read, readContent>>

PerformExpire(c) ==
    /\ NextIs(c, "expire")
    /\ Answer(c, "expiring", "done")
    /\ ttl' = IF store[UserOf[c]] = NoCart THEN ttl
              ELSE [ttl EXCEPT ![UserOf[c]] = TtlTicks]
    /\ UNCHANGED <<store, read, historyVars>>

\* Time passes, and entries whose time is over are gone.
Tick ==
    /\ \E u \in Users : ttl[u] > 0
    /\ ttl' = [u \in Users |-> IF ttl[u] > 0 THEN ttl[u] - 1 ELSE 0]
    /\ LET over == {u \in Users : ttl[u] = 1}
       IN  /\ store' = [u \in Users |-> IF u \in over THEN NoCart ELSE store[u]]
           /\ content' = [u \in Users |-> IF u \in over THEN {} ELSE content[u]]
           /\ Cleared(over)
           /\ MarkStale(over, "expiry")
    /\ UNCHANGED <<callVars, performed, readContent>>

-----------------------------------------------------------------------------
(***************************************************************************)
(* What goes wrong.  Every exception ends the call as FailedPrecondition.  *)
(***************************************************************************)

\* Seeded bug: a HashSet that has timed out is sent again.
GiveUpRetrying(c) ==
    /\ pc[c] \in Awaiting
    /\ pc' = [pc EXCEPT ![c] =
                 IF pc[c] = "setting" /\ c \in Adds THEN "got" ELSE "failed"]
    /\ UNCHANGED <<store, ttl, read, wire, historyVars>>

\* The command has timed out; it may be performed all the same.
GiveUp(c) ==
    /\ pc[c] \in Awaiting
    /\ pc' = [pc EXCEPT ![c] = "failed"]
    /\ UNCHANGED <<store, ttl, read, wire, historyVars>>

\* Calls in these steps end; the server has received the first n commands.
Break(steps) ==
    /\ \E c \in Calls : pc[c] \in steps
    /\ pc' = [c \in Calls |-> IF pc[c] \in steps THEN "failed" ELSE pc[c]]
    /\ \E n \in 0..Len(wire) : wire' = SubSeq(wire, 1, n)
    /\ UNCHANGED <<store, ttl, read, historyVars>>

ConnectionLost == Break(Awaiting)

ServiceDies == Break(Awaiting \cup {"got", "set"})

Perform(c) == PerformGet(c) \/ PerformSet(c) \/ PerformExpire(c)

Step(c) == HashGet(c) \/ HashSet(c) \/ KeyExpire(c)

Next ==
    \/ \E c \in Calls : Refuse(c) \/ Step(c) \/ Perform(c) \/ GiveUp(c)
    \/ Tick
    \/ ConnectionLost
    \/ ServiceDies

Spec == Init /\ [][Next]_vars

(***************************************************************************)
(* A call that has begun is resumed, the client library times out on       *)
(* unanswered commands, valkey serves its connections, and time passes.    *)
(***************************************************************************)
Fairness ==
    /\ \A c \in Calls : WF_vars(Begun(c) /\ Step(c)) /\ WF_vars(GiveUp(c))
    /\ WF_vars(\E c \in Calls : Perform(c))
    /\ WF_vars(Tick)

FairSpec == Spec /\ Fairness

-----------------------------------------------------------------------------
TypeOK ==
    /\ \A u \in Users : store[u] = NoCart \/ store[u] \in Cart
    /\ ttl \in [Users -> 0..TtlTicks]
    /\ pc \in [Calls -> Steps]
    /\ \A c \in Adds : read[c] = NoCart \/ read[c] \in Cart
    /\ wire \in Seq([call : Calls, kind : {"get", "set", "expire"}])
    /\ performed \subseteq Calls
    /\ content \in [Users -> SUBSET Adds]
    /\ readContent \in [Adds -> SUBSET Adds]
    /\ cleared \subseteq Adds
    /\ stale \in [Adds -> SUBSET (Calls \cup {"expiry"})]

(***************************************************************************)
(* Whatever overlaps, fails or comes late, a stored cart holds each        *)
(* product once, with a quantity that is the sum of distinct AddItem calls *)
(* of its own user that were performed: nothing is counted twice, invented *)
(* or taken from another cart (AddItemAsync, lines 136-159).               *)
(***************************************************************************)
QuantityAdded(u, p) ==
    MapThenSumSet(LAMBDA c : ItemOf[c].quantity,
                  {c \in content[u] : ItemOf[c].product = p})

CartIsSumOfAdds ==
    \A u \in Users :
        /\ \A c \in content[u] : UserOf[c] = u /\ c \in performed
        /\ store[u] # NoCart =>
              LET items == store[u].items
              IN  /\ {items[i].product : i \in DOMAIN items}
                         = {ItemOf[c].product : c \in content[u]}
                  /\ \A i, j \in DOMAIN items :
                         items[i].product = items[j].product => i = j
                  /\ \A i \in DOMAIN items :
                         items[i].quantity = QuantityAdded(u, items[i].product)

(***************************************************************************)
(* An item is missing from the cart, or back in it, only because of an     *)
(* AddItem that wrote what it had read before: it wrote over an AddItem it *)
(* had not seen, or brought back what was emptied or had expired meanwhile *)
(* (between the awaits of lines 134 and 159).  Calls that do not overlap   *)
(* leave in the cart exactly what was added since it was last cleared.     *)
(***************************************************************************)
OverwrittenBy(d, c) == d \in performed /\ c \in stale[d]

OnlyOverlapsDisturb ==
    \A c \in performed \cap Adds :
        /\ c \notin content[UserOf[c]] /\ c \notin cleared =>
              \E d \in Adds : OverwrittenBy(d, c)
        /\ c \in content[UserOf[c]] /\ c \in cleared =>
              \E d \in Adds, by \in Empties \cup {"expiry"} : OverwrittenBy(d, by)

(***************************************************************************)
(* An entry without a time to live is one whose KeyExpire is still to      *)
(* come, or belongs to a call that failed between its HashSet and its      *)
(* KeyExpire (lines 159-160 and 182-183).                                  *)
(***************************************************************************)
ExpirePending(c) ==
    \/ pc[c] \in {"set", "expiring"}
    \/ \E i \in DOMAIN wire : wire[i] = [call |-> c, kind |-> "expire"]

TtlUnlessInterrupted ==
    \A u \in Users : store[u] # NoCart /\ ttl[u] = 0 =>
        \E c \in performed : UserOf[c] = u /\ (ExpirePending(c) \/ pc[c] = "failed")

(***************************************************************************)
(* "[cart] use 60m TTL for cart entries in redis" (src/CHANGELOG.md:492):  *)
(* a stored cart has a time to live, or will be given one.                 *)
(***************************************************************************)
NoImmortalCart ==
    \A u \in Users : store[u] # NoCart /\ ttl[u] = 0 =>
        \E c \in performed : UserOf[c] = u /\ ExpirePending(c)

(***************************************************************************)
(* Every call that has begun ends, whatever becomes of its commands.       *)
(***************************************************************************)
EveryCallEnds == \A c \in Calls : Begun(c) ~> pc[c] \in {"done", "failed"}

(***************************************************************************)
(* An entry that has a time to live does not stay: it expires, or a later  *)
(* call postpones that, which the calls do finitely often.                 *)
(***************************************************************************)
CartsExpire == \A u \in Users : ttl[u] > 0 ~> store[u] = NoCart

(***************************************************************************)
(* The cart service implements CartCalls: an AddItem has read when its     *)
(* HashGet is answered, and it has failed when its HashSet is neither      *)
(* performed nor ever to be.                                               *)
(***************************************************************************)
AddStatus(c) ==
    CASE c \in performed -> "added"
      [] ReadOpen(c) -> "read"
      [] pc[c] \in {"new", "getting"} -> "new"
      [] OTHER -> "failed"

AsCalls == INSTANCE CartCalls
             WITH Lines <- Adds,
                  OwnerOf <- [c \in Adds |-> UserOf[c]],
                  cart <- content,
                  addPc <- [c \in Adds |-> AddStatus(c)],
                  addRead <- readContent

CallsSpec == AsCalls!Spec
=============================================================================
