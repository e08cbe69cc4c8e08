-------------------------- MODULE CartStoreProofs --------------------------
(***************************************************************************)
(* The proofs about the cart store: types, the time to live of its         *)
(* entries, what overlapping calls may do to a cart, and that the store    *)
(* implements CartCalls.  The inductive invariant says, in this order,     *)
(* what the connection can still deliver (at most one HashSet of a call,   *)
(* which was not performed yet), who will see to an entry without a time   *)
(* to live, whose calls a cart is made of, and how the cart that an open   *)
(* AddItem has read can differ from the one that is stored by now.  That   *)
(* a cart is the sum of AddItem calls takes one more invariant, SumInv.    *)
(***************************************************************************)
EXTENDS CartStore, SequenceTheorems, FiniteSetTheorems, WellFoundedInduction, TLAPS

Commands == [call : Calls, kind : {"get", "set", "expire"}]

TypeInv ==
    /\ store \in [Users -> Cart \cup {NoCart}]
    /\ ttl \in [Users -> 0 .. TtlTicks]
    /\ pc \in [Calls -> Steps]
    /\ read \in [Adds -> Cart \cup {NoCart}]
    /\ wire \in Seq(Commands)
    /\ performed \subseteq Calls
    /\ content \in [Users -> SUBSET Adds]
    /\ readContent \in [Adds -> SUBSET Adds]
    /\ cleared \subseteq Adds
    /\ stale \in [Adds -> SUBSET (Calls \cup {"expiry"})]

SetOf(c) == [call |-> c, kind |-> "set"]

SetSent(c) == \E i \in DOMAIN wire : wire[i] = SetOf(c)

Once(c) == \A i, j \in DOMAIN wire : wire[i] = SetOf(c) /\ wire[j] = SetOf(c) => i = j

WireInv ==
    /\ \A i \in DOMAIN wire : wire[i].kind = "get" => wire[i].call \in Adds
    /\ \A c \in Calls :
           /\ Once(c)
           /\ SetSent(c) => pc[c] \in {"setting", "failed"} /\ c \notin performed
           /\ c \in performed => pc[c] \in {"set", "expiring", "done", "failed"}

\* A call that will send or has sent its KeyExpire, or failed before it.
Expirer(c) == pc[c] \in {"set", "expiring", "failed"}

TtlInv ==
    \A u \in Users : store[u] # NoCart /\ ttl[u] = 0 =>
        \E c \in performed : UserOf[c] = u /\ Expirer(c)

OwnAdds(u) == {c \in performed \cap Adds : UserOf[c] = u}

ContentInv ==
    /\ \A u \in Users : content[u] \subseteq OwnAdds(u)
    /\ \A d \in Adds : readContent[d] \subseteq OwnAdds(UserOf[d])
    /\ cleared \subseteq performed

Clearers == Empties \cup {"expiry"}

Overwritten(c) == \E d \in Adds : OverwrittenBy(d, c)

BroughtBack == \E d \in Adds, by \in Clearers : OverwrittenBy(d, by)

\* What an open AddItem, when it writes, will have to be excused for.
OpenInv ==
    \A d \in Adds : ReadOpen(d) => \A c \in OwnAdds(UserOf[d]) :
        /\ c \notin readContent[d] => c \in cleared \cup stale[d] \/ Overwritten(c)
        /\ c \in readContent[d] \cap cleared =>
               stale[d] \cap Clearers # {} \/ BroughtBack

OverlapInv == OnlyOverlapsDisturb /\ OpenInv

IInv == TypeInv /\ WireInv /\ TtlInv /\ ContentInv /\ OverlapInv

-----------------------------------------------------------------------------
(***************************************************************************)
(* What becomes of the commands underway: one is appended, the first one   *)
(* is performed, or the last ones are lost.                                *)
(***************************************************************************)
GetsOfAdds == \A i \in DOMAIN wire : wire[i].kind = "get" => wire[i].call \in Adds

LEMMA WireDomain ==
    ASSUME TypeInv
    PROVE  /\ Len(wire) \in Nat /\ DOMAIN wire = 1 .. Len(wire)
           /\ \A i \in DOMAIN wire : wire[i] \in Commands
  BY ElementOfSeq, LenProperties DEF TypeInv

LEMMA Appended ==
    ASSUME TypeInv, GetsOfAdds, NEW c \in Calls, NEW kind \in {"get", "set", "expire"},
           wire' = Append(wire, [call |-> c, kind |-> kind]), kind = "get" => c \in Adds
    PROVE  /\ wire' \in Seq(Commands) /\ GetsOfAdds'
           /\ \A d \in Calls :
                 /\ SetSent(d)' <=> SetSent(d) \/ (d = c /\ kind = "set")
                 /\ Once(d) /\ ~(SetSent(d) /\ d = c /\ kind = "set") => Once(d)'
<1> DEFINE command == [call |-> c, kind |-> kind]
<1>1. command \in Commands
  BY DEF Commands
<1>2. /\ wire \in Seq(Commands) /\ Len(wire) \in Nat /\ DOMAIN wire = 1 .. Len(wire)
  BY WireDomain DEF TypeInv
<1>3. /\ wire' \in Seq(Commands) /\ Len(wire') = Len(wire) + 1
      /\ \A i \in 1 .. Len(wire) : wire'[i] = wire[i]
      /\ wire'[Len(wire) + 1] = command
  BY <1>1, <1>2, AppendProperties
<1>4. DOMAIN wire' = 1 .. Len(wire) + 1
  BY <1>3, LenProperties
<1>5. command.call = c /\ command.kind = kind
      /\ \A d \in Calls : command = SetOf(d) <=> d = c /\ kind = "set"
  BY DEF SetOf
<1> HIDE DEF command
<1>6. GetsOfAdds'
  BY <1>2, <1>3, <1>4, <1>5 DEF GetsOfAdds
<1>7. ASSUME NEW d \in Calls PROVE SetSent(d)' <=> SetSent(d) \/ (d = c /\ kind = "set")
  <2>1. SetSent(d)' <=> \E i \in 1 .. Len(wire) + 1 : wire'[i] = SetOf(d)
    BY <1>4 DEF SetSent, SetOf
  <2>2. SetSent(d) <=> \E i \in 1 .. Len(wire) : wire'[i] = SetOf(d)
    BY <1>2, <1>3 DEF SetSent
  <2> QED BY <1>2, <1>3, <1>5, <2>1, <2>2
<1>8. ASSUME NEW d \in Calls, Once(d), ~(SetSent(d) /\ d = c /\ kind = "set")
      PROVE  Once(d)'
  <2>1. \A i, j \in 1 .. Len(wire) : wire'[i] = SetOf(d) /\ wire'[j] = SetOf(d) => i = j
    BY <1>2, <1>3, <1>8 DEF Once
  <2>2. ~(\E i \in 1 .. Len(wire) : wire'[i] = SetOf(d) /\ wire'[Len(wire) + 1] = SetOf(d))
    BY <1>2, <1>3, <1>5, <1>8 DEF SetSent
  <2>3. \A i \in 1 .. Len(wire) + 1 : i \in 1 .. Len(wire) \/ i = Len(wire) + 1
    BY <1>2
  <2>4. \A i, j \in 1 .. Len(wire) + 1 : wire'[i] = SetOf(d) /\ wire'[j] = SetOf(d) => i = j
    BY <2>1, <2>2, <2>3
  <2> QED BY <1>4, <2>4 DEF Once, SetOf
<1> QED BY <1>3, <1>6, <1>7, <1>8

LEMMA FirstTaken ==
    ASSUME TypeInv, GetsOfAdds, NEW c \in Calls, NEW kind \in {"get", "set", "expire"},
           NextIs(c, kind)
    PROVE  /\ wire' \in Seq(Commands) /\ GetsOfAdds'
           /\ kind = "get" => c \in Adds
           /\ kind = "set" => SetSent(c)
           /\ kind = "set" /\ Once(c) => ~SetSent(c)'
           /\ \A d \in Calls :
                 /\ d # c \/ kind # "set" => (SetSent(d)' <=> SetSent(d))
                 /\ Once(d) => Once(d)'
<1>1. /\ wire \in Seq(Commands) /\ wire # <<>> /\ wire' = Tail(wire)
      /\ Head(wire) = [call |-> c, kind |-> kind]
  BY DEF NextIs, TypeInv
<1>2. Len(wire) \in Nat /\ DOMAIN wire = 1 .. Len(wire) /\ Len(wire) # 0
  BY <1>1, WireDomain, EmptySeq
<1>3. /\ wire' \in Seq(Commands) /\ Len(wire') = Len(wire) - 1
      /\ \A i \in 1 .. Len(wire) - 1 : wire'[i] = wire[i + 1]
      /\ DOMAIN wire' = 1 .. Len(wire) - 1
  BY <1>1, HeadTailProperties, LenProperties
<1>4. wire[1] = [call |-> c, kind |-> kind]
  BY <1>1, <1>2
<1>5. /\ wire[1].call = c /\ wire[1].kind = kind
      /\ \A d \in Calls : wire[1] = SetOf(d) <=> d = c /\ kind = "set"
  BY <1>4 DEF SetOf
<1>6. /\ \A i \in 1 .. Len(wire) - 1 : i + 1 \in 1 .. Len(wire) /\ i + 1 # 1
      /\ \A i \in 1 .. Len(wire) : i = 1 \/ (i - 1 \in 1 .. Len(wire) - 1 /\ i = (i - 1) + 1)
      /\ 1 \in 1 .. Len(wire)
  BY <1>2
<1>7. GetsOfAdds' /\ (kind = "get" => c \in Adds)
  BY <1>2, <1>3, <1>5, <1>6 DEF GetsOfAdds
<1>8. kind = "set" => SetSent(c)
  BY <1>2, <1>5, <1>6 DEF SetSent
<1>9. ASSUME NEW d \in Calls
      PROVE  SetSent(d)' <=> \E i \in 1 .. Len(wire) - 1 : wire[i + 1] = SetOf(d)
  BY <1>3 DEF SetSent, SetOf
<1>10. ASSUME kind = "set", Once(c) PROVE ~SetSent(c)'
  BY <1>2, <1>5, <1>6, <1>9, <1>10 DEF Once
<1>11. ASSUME NEW d \in Calls, d # c \/ kind # "set" PROVE SetSent(d)' <=> SetSent(d)
  <2>1. wire[1] # SetOf(d)
    BY <1>5, <1>11
  <2>2. SetSent(d)' => SetSent(d)
    BY <1>2, <1>6, <1>9 DEF SetSent
  <2>3. ASSUME SetSent(d) PROVE SetSent(d)'
    <3>1. PICK i \in 1 .. Len(wire) : wire[i] = SetOf(d)
      BY <1>2, <2>3 DEF SetSent
    <3>2. i - 1 \in 1 .. Len(wire) - 1 /\ wire[(i - 1) + 1] = SetOf(d)
      BY <1>6, <2>1, <3>1
    <3> QED BY <1>9, <3>2
  <2> QED BY <2>2, <2>3
<1>12. ASSUME NEW d \in Calls, Once(d) PROVE Once(d)'
  <2>1. \A i, j \in 1 .. Len(wire) - 1 :
            wire'[i] = SetOf(d) /\ wire'[j] = SetOf(d) => i + 1 = j + 1
    BY <1>2, <1>3, <1>6, <1>12 DEF Once
  <2>2. \A i, j \in 1 .. Len(wire) - 1 : wire'[i] = SetOf(d) /\ wire'[j] = SetOf(d) => i = j
    BY <1>2, <2>1
  <2> QED BY <1>3, <2>2 DEF Once, SetOf
<1> QED BY <1>3, <1>7, <1>8, <1>10, <1>11, <1>12

LEMMA RestLost ==
    ASSUME TypeInv, GetsOfAdds, NEW n \in 0 .. Len(wire), wire' = SubSeq(wire, 1, n)
    PROVE  /\ wire' \in Seq(Commands) /\ GetsOfAdds'
           /\ \A d \in Calls : (SetSent(d)' => SetSent(d)) /\ (Once(d) => Once(d)')
<1>1. Len(wire) \in Nat /\ DOMAIN wire = 1 .. Len(wire) /\ n \in Nat /\ n <= Len(wire)
      /\ \A i \in 1 .. n : i \in 1 .. Len(wire) /\ wire[i] \in Commands
  BY WireDomain
<1>2. /\ wire' \in Seq(Commands) /\ Len(wire') = IF 1 <= n THEN n - 1 + 1 ELSE 0
      /\ \A i \in 1 .. n - 1 + 1 : wire'[i] = wire[1 + i - 1]
  BY <1>1, SubSeqProperties
<1>3. DOMAIN wire' = 1 .. Len(wire')
  BY <1>2, LenProperties
<1>4. Len(wire') = n /\ n - 1 + 1 = n /\ \A i \in 1 .. n : 1 + i - 1 = i
  BY <1>1, <1>2
<1>5. DOMAIN wire' = 1 .. n /\ \A i \in 1 .. n : wire'[i] = wire[i]
  BY <1>2, <1>3, <1>4
<1>6. GetsOfAdds'
  BY <1>1, <1>5 DEF GetsOfAdds
<1>7. ASSUME NEW d \in Calls PROVE SetSent(d)' => SetSent(d)
  BY <1>1, <1>5 DEF SetSent, SetOf
<1>8. ASSUME NEW d \in Calls, Once(d) PROVE Once(d)'
  BY <1>1, <1>5, <1>8 DEF Once, SetOf
<1> QED BY <1>2, <1>6, <1>7, <1>8

-----------------------------------------------------------------------------
(***************************************************************************)
(* Types: what an AddItem sets is a cart.                                  *)
(***************************************************************************)
Items == [product : Products, quantity : Nat]

LEMMA CartFields ==
    ASSUME NEW user \in Users \cup {NoUser}, NEW its \in Seq(Items)
    PROVE  [user |-> user, items |-> its] \in Cart
  BY DEF Cart, Items

LEMMA WithItemType ==
    ASSUME NEW value \in Cart \cup {NoCart}, NEW user \in Users, NEW item \in Items
    PROVE  WithItem(value, user, item) \in Cart
<1>1. CASE value = NoCart
  <2>1. <<item>> \in Seq(Items)
    OBVIOUS
  <2> QED BY <1>1, <2>1, CartFields DEF WithItem
<1>2. CASE value # NoCart
  <2> DEFINE its == value.items
             existing == {i \in DOMAIN its : its[i].product = item.product}
             found == CHOOSE i \in existing : TRUE
             more == [its[found] EXCEPT !.quantity = @ + item.quantity]
  <2>1. value \in Cart /\ its \in Seq(Items) /\ value.user \in Users \cup {NoUser}
    BY <1>2 DEF Cart, Items
  <2>2. CASE existing = {}
    <3>1. Append(its, item) \in Seq(Items)
      BY <2>1, AppendProperties
    <3>2. WithItem(value, user, item) = [value EXCEPT !.items = Append(its, item)]
      BY <1>2, <2>2 DEF WithItem
    <3> QED BY <2>1, <3>1, <3>2 DEF Cart, Items
  <2>3. CASE existing # {}
    <3>1. found \in DOMAIN its
      <4>1. found \in existing
        <5> HIDE DEF existing
        <5> QED BY <2>3
      <4> HIDE DEF found
      <4> QED BY <4>1
    <3>2. its[found] \in Items
      <4> HIDE DEF found, existing, its
      <4>1. DOMAIN its = 1 .. Len(its)
        BY <2>1, LenProperties
      <4> QED BY <2>1, <3>1, <4>1, ElementOfSeq
    <3>3. more \in Items
      <4> HIDE DEF found, existing, its
      <4> QED BY <3>2 DEF Items
    <3>4. [its EXCEPT ![found] = more] \in Seq(Items)
      BY <2>1, <3>1, <3>3, ExceptSeq
    <3>5. WithItem(value, user, item) = [value EXCEPT !.items = [its EXCEPT ![found] = more]]
      BY <1>2, <2>3 DEF WithItem
    <3> QED BY <2>1, <3>4, <3>5 DEF Cart, Items
  <2> QED BY <2>2, <2>3
<1> QED BY <1>1, <1>2

LEMMA ValueSetType ==
    ASSUME TypeInv, NEW c \in Calls PROVE ValueSet(c) \in Cart
<1>1. CASE c \in Adds
  <2>1. read[c] \in Cart \cup {NoCart} /\ UserOf[c] \in Users /\ ItemOf[c] \in Items
    BY <1>1, CartAssumption DEF TypeInv, Items
  <2> QED BY <1>1, <2>1, WithItemType DEF ValueSet
<1>2. CASE c \notin Adds
  <2>1. <<>> \in Seq(Items)
    OBVIOUS
  <2> QED BY <1>2, <2>1, CartFields DEF ValueSet, EmptyCart
<1> QED BY <1>1, <1>2

LEMMA Users_ ==
    /\ \A c \in Calls : UserOf[c] \in Users
    /\ Adds \subseteq Calls /\ Empties \subseteq Calls /\ Calls = Adds \cup Empties
    /\ \A c \in Empties : c \notin Adds
    /\ "expiry" \notin Calls /\ TtlTicks \in Nat \ {0}
  BY CartAssumption DEF Calls

LEMMA StepKinds ==
    /\ {"new", "getting", "got", "setting", "set", "expiring", "done", "failed"} = Steps
    /\ Awaiting \subseteq Steps
  BY DEF Steps, Awaiting

-----------------------------------------------------------------------------
(***************************************************************************)
(* Steps that write no cart.  The history stays as it is, an AddItem that  *)
(* is open was open before, and none begins anew.                          *)
(***************************************************************************)
Quiet ==
    /\ UNCHANGED historyVars
    /\ \A d \in Adds :
           /\ ReadOpen(d)' => ReadOpen(d)
           /\ pc'[d] \in {"new", "getting"} => pc[d] \in {"new", "getting"}

LEMMA OpenIsSent == \A d \in Adds : ReadOpen(d) <=> pc[d] = "got" \/ SetSent(d)
  BY DEF ReadOpen, SetSent, SetOf

LEMMA OpenIsSentNext == \A d \in Adds : ReadOpen(d)' <=> pc'[d] = "got" \/ SetSent(d)'
  BY DEF ReadOpen, SetSent, SetOf

LEMMA QuietKeeps ==
    ASSUME ContentInv, OverlapInv, Quiet
    PROVE  ContentInv' /\ OverlapInv'
<1>1. UNCHANGED <<performed, content, readContent, cleared, stale>>
      /\ \A d \in Adds : ReadOpen(d)' => ReadOpen(d)
  BY DEF Quiet, historyVars
<1>2. ContentInv'
  BY <1>1 DEF ContentInv, OwnAdds
<1>3. /\ \A d, x : OverwrittenBy(d, x)' <=> OverwrittenBy(d, x)
      /\ \A x : Overwritten(x)' <=> Overwritten(x)
      /\ BroughtBack' <=> BroughtBack
      /\ \A u : OwnAdds(u)' = OwnAdds(u)
  BY <1>1 DEF OverwrittenBy, Overwritten, BroughtBack, OwnAdds
<1>4. OnlyOverlapsDisturb'
  BY <1>1, <1>3 DEF OverlapInv, OnlyOverlapsDisturb
<1>5. OpenInv'
  BY <1>1, <1>3 DEF OverlapInv, OpenInv
<1> QED BY <1>2, <1>4, <1>5 DEF OverlapInv

LEMMA TtlKept ==
    ASSUME TtlInv, UNCHANGED <<store, ttl>>, performed' = performed,
           \A c \in performed : Expirer(c) => Expirer(c)'
    PROVE  TtlInv'
  BY DEF TtlInv

\* A call moves on and sends its next command.
LEMMA SendStep ==
    ASSUME IInv, NEW c \in Calls, NEW kind \in {"get", "set", "expire"}, NEW step \in Steps,
           Send(c, kind, step), kind = "get" => c \in Adds,
           \/ kind = "get" /\ step = "getting" /\ pc[c] = "new"
           \/ kind = "set" /\ step = "setting" /\ pc[c] = IF c \in Adds THEN "got" ELSE "new"
           \/ kind = "expire" /\ step = "expiring" /\ pc[c] = "set"
    PROVE  IInv' /\ Quiet
<1>1. /\ pc' = [pc EXCEPT ![c] = step]
      /\ wire' = Append(wire, [call |-> c, kind |-> kind])
      /\ UNCHANGED <<store, ttl, read, historyVars>>
  BY DEF Send
<1>2. TypeInv /\ GetsOfAdds /\ TtlInv /\ ContentInv /\ OverlapInv /\ pc \in [Calls -> Steps]
  BY DEF IInv, WireInv, GetsOfAdds, TypeInv
<1>3. /\ wire' \in Seq(Commands) /\ GetsOfAdds'
      /\ \A d \in Calls :
            /\ SetSent(d)' <=> SetSent(d) \/ (d = c /\ kind = "set")
            /\ Once(d) /\ ~(SetSent(d) /\ d = c /\ kind = "set") => Once(d)'
  BY <1>1, <1>2, Appended
<1>4. /\ pc' \in [Calls -> Steps] /\ pc'[c] = step
      /\ \A d \in Calls : d # c => pc'[d] = pc[d]
      /\ UNCHANGED <<performed, content, readContent, cleared, stale>>
  BY <1>1, <1>2 DEF historyVars
<1>5. TypeInv'
  BY <1>1, <1>2, <1>3, <1>4 DEF TypeInv
<1>6. pc[c] \in {"new", "got", "set"} /\ ~SetSent(c)
  BY DEF IInv, WireInv
<1>7. ASSUME NEW d \in Calls
      PROVE  /\ Once(d)'
             /\ SetSent(d)' => pc'[d] \in {"setting", "failed"} /\ d \notin performed'
             /\ d \in performed' => pc'[d] \in {"set", "expiring", "done", "failed"}
  <2>1. CASE d = c
    BY <1>3, <1>4, <1>6, <2>1 DEF IInv, WireInv
  <2>2. CASE d # c
    BY <1>3, <1>4, <2>2 DEF IInv, WireInv
  <2> QED BY <2>1, <2>2
<1>8. WireInv'
  BY <1>3, <1>7 DEF WireInv, GetsOfAdds
<1>9. TtlInv'
  <2>1. \A d \in performed : Expirer(d) => Expirer(d)'
    <3>1. ASSUME NEW d \in performed, Expirer(d) PROVE Expirer(d)'
      <4>1. d \in Calls /\ (d = c => pc[c] = "set" /\ step = "expiring")
        BY <3>1 DEF IInv, TypeInv, WireInv
      <4> QED BY <1>4, <3>1, <4>1 DEF Expirer
    <3> QED BY <3>1
  <2> QED BY <1>1, <1>2, <1>4, <2>1, TtlKept
<1>10. Quiet
  <2>1. ASSUME NEW d \in Adds PROVE ReadOpen(d)' => ReadOpen(d)
    BY <1>3, <1>4, <1>6, Users_, OpenIsSent, OpenIsSentNext
  <2>2. ASSUME NEW d \in Adds, pc'[d] \in {"new", "getting"}
        PROVE  pc[d] \in {"new", "getting"}
    BY <1>4, <2>2, Users_
  <2> QED BY <1>1, <2>1, <2>2 DEF Quiet
<1> QED BY <1>2, <1>5, <1>8, <1>9, <1>10, QuietKeeps DEF IInv

\* Calls fail; of the commands underway the last ones may be lost.
LEMMA FailStep ==
    ASSUME IInv, NEW failing \in SUBSET Calls,
           pc' = [c \in Calls |-> IF c \in failing THEN "failed" ELSE pc[c]],
           UNCHANGED <<store, ttl, read, historyVars>>,
           \E n \in 0 .. Len(wire) : wire' = SubSeq(wire, 1, n)
    PROVE  IInv' /\ Quiet
<1>1. PICK n \in 0 .. Len(wire) : wire' = SubSeq(wire, 1, n)
  OBVIOUS
<1>2. TypeInv /\ GetsOfAdds /\ TtlInv /\ ContentInv /\ OverlapInv /\ pc \in [Calls -> Steps]
  BY DEF IInv, WireInv, GetsOfAdds, TypeInv
<1>3. /\ wire' \in Seq(Commands) /\ GetsOfAdds'
      /\ \A d \in Calls : (SetSent(d)' => SetSent(d)) /\ (Once(d) => Once(d)')
  BY <1>1, <1>2, RestLost
<1>4. /\ pc' \in [Calls -> Steps]
      /\ \A d \in Calls : pc'[d] = "failed" \/ pc'[d] = pc[d]
      /\ UNCHANGED <<performed, content, readContent, cleared, stale>>
  BY <1>2, StepKinds DEF historyVars
<1>5. TypeInv'
  BY <1>2, <1>3, <1>4 DEF TypeInv
<1>6. WireInv'
  BY <1>3, <1>4 DEF IInv, WireInv, GetsOfAdds
<1>7. TtlInv'
  <2>1. \A d \in performed : Expirer(d) => Expirer(d)'
    BY <1>2, <1>4 DEF Expirer, TypeInv
  <2> QED BY <1>2, <1>4, <2>1, TtlKept
<1>8. Quiet
  BY <1>3, <1>4, Users_, OpenIsSent, OpenIsSentNext DEF Quiet
<1> QED BY <1>2, <1>5, <1>6, <1>7, <1>8, QuietKeeps DEF IInv

-----------------------------------------------------------------------------
\* The answers.
LEMMA PerformGetStep ==
    ASSUME IInv, NEW c \in Calls, PerformGet(c)
    PROVE  /\ IInv'
           /\ \/ Quiet
              \/ /\ c \in Adds /\ pc[c] = "getting" /\ pc' = [pc EXCEPT ![c] = "got"]
                 /\ readContent' = [readContent EXCEPT ![c] = content[UserOf[c]]]
                 /\ UNCHANGED <<performed, content>>
                 /\ \A d \in Adds : d # c => (ReadOpen(d)' <=> ReadOpen(d))
                 /\ ReadOpen(c)'
<1>1. /\ NextIs(c, "get") /\ UNCHANGED <<store, ttl, performed, content, cleared, stale>>
  BY DEF PerformGet
<1>2. TypeInv /\ GetsOfAdds /\ TtlInv /\ ContentInv /\ OverlapInv /\ pc \in [Calls -> Steps]
  BY DEF IInv, WireInv, GetsOfAdds, TypeInv
<1>3. /\ wire' \in Seq(Commands) /\ GetsOfAdds' /\ c \in Adds
      /\ \A d \in Calls : (SetSent(d)' <=> SetSent(d)) /\ (Once(d) => Once(d)')
  BY <1>1, <1>2, FirstTaken
<1>4. CASE pc[c] # "getting"
  <2>1. UNCHANGED <<pc, read, readContent>>
    BY <1>4 DEF PerformGet
  <2>2. TypeInv' /\ WireInv'
    BY <1>1, <1>2, <1>3, <2>1 DEF IInv, TypeInv, WireInv, GetsOfAdds
  <2>3. TtlInv'
    BY <1>1, <1>2, <2>1, TtlKept DEF Expirer
  <2>4. Quiet
    BY <1>1, <1>3, <2>1, Users_, OpenIsSent, OpenIsSentNext DEF Quiet, historyVars
  <2> QED BY <1>2, <2>2, <2>3, <2>4, QuietKeeps DEF IInv
<1>5. CASE pc[c] = "getting"
  <2>1. /\ pc' = [pc EXCEPT ![c] = "got"]
        /\ read' = [read EXCEPT ![c] = store[UserOf[c]]]
        /\ readContent' = [readContent EXCEPT ![c] = content[UserOf[c]]]
    BY <1>5 DEF PerformGet, Answer
  <2>2. /\ pc' \in [Calls -> Steps] /\ pc'[c] = "got"
        /\ \A d \in Calls : d # c => pc'[d] = pc[d]
    BY <1>2, <2>1, StepKinds
  <2>3. /\ readContent \in [Adds -> SUBSET Adds] /\ content \in [Users -> SUBSET Adds]
        /\ UserOf[c] \in Users /\ store[UserOf[c]] \in Cart \cup {NoCart}
    BY <1>2, Users_ DEF TypeInv
  <2>4. /\ readContent' \in [Adds -> SUBSET Adds] /\ readContent'[c] = content[UserOf[c]]
        /\ \A d \in Adds : d # c => readContent'[d] = readContent[d]
    BY <1>3, <2>1, <2>3
  <2>5. TypeInv'
    BY <1>1, <1>2, <1>3, <2>1, <2>2, <2>3, <2>4 DEF TypeInv
  <2>6. ~SetSent(c) /\ c \notin performed
    BY <1>5 DEF IInv, WireInv
  <2>7. WireInv'
    <3>1. ASSUME NEW d \in Calls
          PROVE  /\ Once(d)'
                 /\ SetSent(d)' => pc'[d] \in {"setting", "failed"} /\ d \notin performed'
                 /\ d \in performed' => pc'[d] \in {"set", "expiring", "done", "failed"}
      <4>1. CASE d = c
        BY <1>1, <1>3, <2>6, <4>1 DEF IInv, WireInv
      <4>2. CASE d # c
        BY <1>1, <1>3, <2>2, <4>2 DEF IInv, WireInv
      <4> QED BY <4>1, <4>2
    <3> QED BY <1>3, <3>1 DEF WireInv, GetsOfAdds
  <2>8. TtlInv'
    <3>1. \A d \in performed : Expirer(d) => Expirer(d)'
      BY <1>2, <2>2, <2>6 DEF Expirer, TypeInv
    <3> QED BY <1>1, <1>2, <3>1, TtlKept
  <2>9. /\ \A d \in Adds : d # c => (ReadOpen(d)' <=> ReadOpen(d))
        /\ ReadOpen(c)'
    BY <1>3, <2>2, Users_, OpenIsSent, OpenIsSentNext
  <2>10. ContentInv'
    BY <1>1, <1>2, <2>3, <2>4 DEF ContentInv, OwnAdds
  <2>11. /\ \A d, x : OverwrittenBy(d, x)' <=> OverwrittenBy(d, x)
         /\ \A x : Overwritten(x)' <=> Overwritten(x)
         /\ BroughtBack' <=> BroughtBack
         /\ \A u : OwnAdds(u)' = OwnAdds(u)
    BY <1>1 DEF OverwrittenBy, Overwritten, BroughtBack, OwnAdds
  <2>12. OnlyOverlapsDisturb'
    BY <1>1, <1>2, <2>11 DEF OverlapInv, OnlyOverlapsDisturb
  <2>13. OpenInv'
    <3> SUFFICES ASSUME NEW d \in Adds, ReadOpen(d)', NEW x \in OwnAdds(UserOf[d])
                 PROVE  /\ x \notin readContent'[d] =>
                              x \in cleared \cup stale[d] \/ Overwritten(x)
                        /\ x \in readContent'[d] \cap cleared =>
                              stale[d] \cap Clearers # {} \/ BroughtBack
      BY <1>1, <2>11 DEF OpenInv
    <3>1. CASE d = c
      <4>1. x \in performed \cap Adds /\ UserOf[x] = UserOf[c]
        BY <3>1 DEF OwnAdds
      <4>2. x \notin content[UserOf[c]] /\ x \notin cleared => Overwritten(x)
        BY <1>2, <4>1 DEF OverlapInv, OnlyOverlapsDisturb, Overwritten
      <4>3. x \in content[UserOf[c]] /\ x \in cleared => BroughtBack
        BY <1>2, <4>1 DEF OverlapInv, OnlyOverlapsDisturb, BroughtBack, Clearers
      <4> QED BY <2>4, <3>1, <4>2, <4>3
    <3>2. CASE d # c
      BY <1>2, <2>4, <2>9, <3>2 DEF OverlapInv, OpenInv
    <3> QED BY <3>1, <3>2
  <2> QED BY <1>1, <1>3, <1>5, <2>1, <2>5, <2>7, <2>8, <2>9, <2>10, <2>12, <2>13
          DEF IInv, OverlapInv
<1> QED BY <1>4, <1>5

LEMMA PerformExpireStep ==
    ASSUME IInv, NEW c \in Calls, PerformExpire(c)
    PROVE  IInv' /\ Quiet
<1>1. /\ NextIs(c, "expire") /\ UNCHANGED <<store, read, historyVars>>
      /\ pc' = IF pc[c] = "expiring" THEN [pc EXCEPT ![c] = "done"] ELSE pc
      /\ ttl' = IF store[UserOf[c]] = NoCart THEN ttl
                ELSE [ttl EXCEPT ![UserOf[c]] = TtlTicks]
  BY DEF PerformExpire, Answer
<1>2. /\ TypeInv /\ GetsOfAdds /\ TtlInv /\ ContentInv /\ OverlapInv
      /\ pc \in [Calls -> Steps] /\ ttl \in [Users -> 0 .. TtlTicks] /\ UserOf[c] \in Users
      /\ performed \subseteq Calls
  BY Users_ DEF IInv, WireInv, GetsOfAdds, TypeInv
<1>3. /\ wire' \in Seq(Commands) /\ GetsOfAdds'
      /\ \A d \in Calls : (SetSent(d)' <=> SetSent(d)) /\ (Once(d) => Once(d)')
  BY <1>1, <1>2, FirstTaken
<1>4. /\ pc' \in [Calls -> Steps]
      /\ \A d \in Calls : d # c => pc'[d] = pc[d]
      /\ pc'[c] = pc[c] \/ (pc[c] = "expiring" /\ pc'[c] = "done")
      /\ UNCHANGED <<performed, content, readContent, cleared, stale>>
  BY <1>1, <1>2, StepKinds DEF historyVars
<1>5. ttl' \in [Users -> 0 .. TtlTicks]
  BY <1>1, <1>2, Users_
<1>6. TypeInv'
  BY <1>1, <1>2, <1>3, <1>4, <1>5 DEF TypeInv
<1>7. WireInv'
  <2>1. ASSUME NEW d \in Calls
        PROVE  /\ Once(d)'
               /\ SetSent(d)' => pc'[d] \in {"setting", "failed"} /\ d \notin performed'
               /\ d \in performed' => pc'[d] \in {"set", "expiring", "done", "failed"}
    <3>1. CASE d = c
      BY <1>3, <1>4, <3>1 DEF IInv, WireInv
    <3>2. CASE d # c
      BY <1>3, <1>4, <3>2 DEF IInv, WireInv
    <3> QED BY <3>1, <3>2
  <2> QED BY <1>3, <2>1 DEF WireInv, GetsOfAdds
<1>8. TtlInv'
  <2> SUFFICES ASSUME NEW u \in Users, store[u] # NoCart, ttl'[u] = 0
               PROVE  \E d \in performed : UserOf[d] = u /\ Expirer(d)'
    BY <1>1, <1>4 DEF TtlInv
  <2>1. u # UserOf[c] /\ ttl[u] = 0
    BY <1>1, <1>2, Users_
  <2>2. PICK d \in performed : UserOf[d] = u /\ Expirer(d)
    BY <1>2, <2>1 DEF TtlInv
  <2>3. pc'[d] = pc[d]
    BY <1>2, <1>4, <2>1, <2>2
  <2> QED BY <2>2, <2>3 DEF Expirer
<1>9. Quiet
  <2>1. ASSUME NEW d \in Adds
        PROVE  /\ ReadOpen(d)' => ReadOpen(d)
               /\ pc'[d] \in {"new", "getting"} => pc[d] \in {"new", "getting"}
    <3>1. CASE d = c
      BY <1>3, <1>4, <3>1, Users_, OpenIsSent, OpenIsSentNext
    <3>2. CASE d # c
      BY <1>3, <1>4, <3>2, Users_, OpenIsSent, OpenIsSentNext
    <3> QED BY <3>1, <3>2
  <2> QED BY <1>1, <2>1 DEF Quiet
<1> QED BY <1>2, <1>6, <1>7, <1>8, <1>9, QuietKeeps DEF IInv

-----------------------------------------------------------------------------
(***************************************************************************)
(* The steps that write a cart.  No excuse is ever taken back.             *)
(***************************************************************************)
LEMMA ExcusesStay ==
    ASSUME performed \subseteq performed', \A d \in Adds : stale[d] \subseteq stale'[d]
    PROVE  /\ \A d \in Adds : \A x : OverwrittenBy(d, x) => OverwrittenBy(d, x)'
           /\ \A x : Overwritten(x) => Overwritten(x)'
           /\ BroughtBack => BroughtBack'
  BY DEF OverwrittenBy, Overwritten, BroughtBack

\* What the clearing of carts does, by an EmptyCart or an expiry.
LEMMA ClearStep ==
    ASSUME TypeInv, ContentInv, OverlapInv, NEW users \in SUBSET Users,
           NEW by \in Clearers,
           MarkStale(users, by), Cleared(users),
           performed \subseteq performed', performed' \cap Adds = performed \cap Adds,
           readContent' = readContent,
           \A u \in Users : content'[u] = IF u \in users THEN {} ELSE content[u],
           \A d \in Adds : ReadOpen(d)' => ReadOpen(d)
    PROVE  ContentInv' /\ OverlapInv'
<1>1. /\ by \notin Adds
      /\ cleared' = cleared \cup {x \in performed \cap Adds : UserOf[x] \in users}
      /\ \A d \in Adds :
            stale'[d] = IF UserOf[d] \in users /\ ReadOpen(d) THEN stale[d] \cup {by}
                        ELSE stale[d]
  BY Users_ DEF Clearers, Cleared, MarkStale
<1>2. \A d \in Adds : stale[d] \subseteq stale'[d]
  BY <1>1
<1>3. /\ \A x : Overwritten(x) => Overwritten(x)'
      /\ BroughtBack => BroughtBack'
  BY <1>2, ExcusesStay
<1>4. \A u : OwnAdds(u)' = OwnAdds(u)
  BY DEF OwnAdds
<1>5. ContentInv'
  BY <1>1, <1>4, Users_ DEF ContentInv
<1>6. OnlyOverlapsDisturb'
  <2> SUFFICES ASSUME NEW x \in performed \cap Adds
               PROVE  /\ x \notin content'[UserOf[x]] /\ x \notin cleared' => Overwritten(x)'
                      /\ x \in content'[UserOf[x]] /\ x \in cleared' => BroughtBack'
    BY DEF OnlyOverlapsDisturb, Overwritten, BroughtBack, Clearers
  <2>1. UserOf[x] \in Users
    BY Users_
  <2>2. CASE UserOf[x] \in users
    BY <1>1, <2>1, <2>2
  <2>3. CASE UserOf[x] \notin users
    <3>1. content'[UserOf[x]] = content[UserOf[x]] /\ (x \in cleared' <=> x \in cleared)
      BY <1>1, <2>1, <2>3
    <3>2. /\ x \notin content[UserOf[x]] /\ x \notin cleared => Overwritten(x)
          /\ x \in content[UserOf[x]] /\ x \in cleared => BroughtBack
      BY DEF OverlapInv, OnlyOverlapsDisturb, Overwritten, BroughtBack, Clearers
    <3> QED BY <1>3, <3>1, <3>2
  <2> QED BY <2>2, <2>3
<1>7. OpenInv'
  <2> SUFFICES ASSUME NEW d \in Adds, ReadOpen(d)', NEW x \in OwnAdds(UserOf[d])
               PROVE  /\ x \notin readContent[d] =>
                            x \in cleared' \cup stale'[d] \/ Overwritten(x)'
                      /\ x \in readContent[d] \cap cleared' =>
                            stale'[d] \cap Clearers # {} \/ BroughtBack'
    BY <1>4 DEF OpenInv
  <2>1. /\ x \notin readContent[d] => x \in cleared \cup stale[d] \/ Overwritten(x)
        /\ x \in readContent[d] \cap cleared =>
               stale[d] \cap Clearers # {} \/ BroughtBack
    BY DEF OverlapInv, OpenInv
  <2>2. x \in performed \cap Adds /\ UserOf[x] = UserOf[d] /\ ReadOpen(d)
    BY DEF OwnAdds
  <2>3. CASE UserOf[d] \in users
    BY <1>1, <2>2, <2>3
  <2>4. CASE UserOf[d] \notin users
    BY <1>1, <1>2, <1>3, <2>1, <2>2, <2>4
  <2> QED BY <2>3, <2>4
<1> QED BY <1>5, <1>6, <1>7 DEF OverlapInv

\* What both kinds of call do when their HashSet is performed.
LEMMA PerformSetEffect ==
    ASSUME IInv, NEW c \in Calls, PerformSet(c)
    PROVE  /\ TypeInv' /\ WireInv' /\ TtlInv'
           /\ performed' = performed \cup {c} /\ c \notin performed /\ SetSent(c)
           /\ pc'[c] \in {"set", "failed"} /\ pc[c] \in {"setting", "failed"}
           /\ ~SetSent(c)'
           /\ \A d \in Adds : d # c => pc'[d] = pc[d] /\ (ReadOpen(d)' <=> ReadOpen(d))
<1>1. /\ NextIs(c, "set") /\ UNCHANGED <<ttl, read, readContent>>
      /\ pc' = IF pc[c] = "setting" THEN [pc EXCEPT ![c] = "set"] ELSE pc
      /\ store' = [store EXCEPT ![UserOf[c]] = ValueSet(c)]
      /\ performed' = performed \cup {c}
      /\ content' = [content EXCEPT ![UserOf[c]] =
                        IF c \in Adds THEN readContent[c] \cup {c} ELSE {}]
      /\ Cleared(IF c \in Empties THEN {UserOf[c]} ELSE {})
      /\ MarkStale({UserOf[c]}, c)
  BY DEF PerformSet, Answer
<1>2. /\ TypeInv /\ GetsOfAdds /\ TtlInv
      /\ pc \in [Calls -> Steps] /\ UserOf[c] \in Users
      /\ performed \subseteq Calls
  BY Users_ DEF IInv, WireInv, GetsOfAdds, TypeInv
<1>3. /\ wire' \in Seq(Commands) /\ GetsOfAdds' /\ SetSent(c)
      /\ Once(c) => ~SetSent(c)'
      /\ \A d \in Calls : (d # c => (SetSent(d)' <=> SetSent(d))) /\ (Once(d) => Once(d)')
  BY <1>1, <1>2, FirstTaken
<1>4. pc[c] \in {"setting", "failed"} /\ c \notin performed /\ Once(c)
  BY <1>3 DEF IInv, WireInv
<1>5. /\ pc' \in [Calls -> Steps] /\ pc'[c] \in {"set", "failed"}
      /\ \A d \in Calls : d # c => pc'[d] = pc[d]
  BY <1>1, <1>2, <1>4, StepKinds
<1>6. TypeInv'
  <2>1. store' \in [Users -> Cart \cup {NoCart}]
    BY <1>1, <1>2, ValueSetType DEF TypeInv
  <2>2. content' \in [Users -> SUBSET Adds]
    BY <1>1, <1>2 DEF TypeInv
  <2>3. cleared' \subseteq Adds
    BY <1>1, <1>2 DEF TypeInv, Cleared
  <2>4. stale' \in [Adds -> SUBSET (Calls \cup {"expiry"})]
    BY <1>1, <1>2 DEF TypeInv, MarkStale
  <2> QED BY <1>1, <1>2, <1>3, <1>5, <2>1, <2>2, <2>3, <2>4 DEF TypeInv
<1>7. WireInv'
  <2>1. ASSUME NEW d \in Calls
        PROVE  /\ Once(d)'
               /\ SetSent(d)' => pc'[d] \in {"setting", "failed"} /\ d \notin performed'
               /\ d \in performed' => pc'[d] \in {"set", "expiring", "done", "failed"}
    <3>1. CASE d = c
      BY <1>3, <1>4, <1>5, <3>1
    <3>2. CASE d # c
      BY <1>1, <1>3, <1>5, <3>2 DEF IInv, WireInv
    <3> QED BY <3>1, <3>2
  <2> QED BY <1>3, <2>1 DEF WireInv, GetsOfAdds
<1>8. TtlInv'
  <2> SUFFICES ASSUME NEW u \in Users, store'[u] # NoCart, ttl[u] = 0
               PROVE  \E d \in performed' : UserOf[d] = u /\ Expirer(d)'
    BY <1>1 DEF TtlInv
  <2>1. CASE u = UserOf[c]
    BY <1>1, <1>5, <2>1 DEF Expirer
  <2>2. CASE u # UserOf[c]
    <3>1. store[u] # NoCart
      BY <1>1, <1>2, <2>2 DEF TypeInv
    <3>2. PICK d \in performed : UserOf[d] = u /\ Expirer(d)
      BY <1>2, <3>1 DEF TtlInv
    <3>3. d # c /\ d \in performed' /\ pc'[d] = pc[d]
      BY <1>1, <1>2, <1>4, <1>5, <3>2
    <3> QED BY <3>2, <3>3 DEF Expirer
  <2> QED BY <2>1, <2>2
<1>9. ASSUME NEW d \in Adds, d # c
      PROVE  pc'[d] = pc[d] /\ (ReadOpen(d)' <=> ReadOpen(d))
  BY <1>3, <1>5, <1>9, Users_, OpenIsSent, OpenIsSentNext
<1> QED BY <1>1, <1>3, <1>4, <1>5, <1>6, <1>7, <1>8, <1>9

LEMMA PerformSetOfAdd ==
    ASSUME IInv, NEW c \in Adds, PerformSet(c) PROVE ContentInv' /\ OverlapInv'
<1> DEFINE u == UserOf[c]
<1>1. /\ content' = [content EXCEPT ![u] = readContent[c] \cup {c}]
      /\ readContent' = readContent /\ cleared' = cleared
      /\ MarkStale({u}, c)
  <2>1. c \notin Empties /\ c \in Calls
    BY Users_
  <2> QED BY <2>1 DEF PerformSet, Cleared
<1>2. /\ TypeInv /\ ContentInv /\ OnlyOverlapsDisturb /\ OpenInv
      /\ u \in Users /\ content \in [Users -> SUBSET Adds] /\ c \in Calls
  BY Users_ DEF IInv, OverlapInv, TypeInv
<1>3. /\ performed' = performed \cup {c} /\ c \notin performed
      /\ ReadOpen(c) /\ ~ReadOpen(c)'
      /\ \A d \in Adds : d # c => (ReadOpen(d)' <=> ReadOpen(d))
  BY <1>2, PerformSetEffect, OpenIsSent, OpenIsSentNext
<1>4. \A d \in Adds :
          stale'[d] = IF UserOf[d] = u /\ ReadOpen(d) /\ d # c THEN stale[d] \cup {c}
                      ELSE stale[d]
  BY <1>1 DEF MarkStale
<1>5. \A d \in Adds : stale[d] \subseteq stale'[d]
  BY <1>4
<1>6. /\ \A d \in Adds : \A x : OverwrittenBy(d, x) => OverwrittenBy(d, x)'
      /\ \A x : Overwritten(x) => Overwritten(x)'
      /\ BroughtBack => BroughtBack'
  BY <1>3, <1>5, ExcusesStay
<1>7. c \notin cleared
  BY <1>2, <1>3 DEF ContentInv
<1>8. /\ content'[u] = readContent[c] \cup {c}
      /\ \A v \in Users : v # u => content'[v] = content[v]
  BY <1>1, <1>2
<1>9. \A v : OwnAdds(v) \subseteq OwnAdds(v)'
  BY <1>3 DEF OwnAdds
<1>10. c \in OwnAdds(u)'
  BY <1>3 DEF OwnAdds
<1>11. ContentInv'
  BY <1>1, <1>2, <1>3, <1>8, <1>9, <1>10, Users_ DEF ContentInv
<1>12. OnlyOverlapsDisturb'
  <2> SUFFICES ASSUME NEW x \in performed' \cap Adds
               PROVE  /\ x \notin content'[UserOf[x]] /\ x \notin cleared => Overwritten(x)'
                      /\ x \in content'[UserOf[x]] /\ x \in cleared => BroughtBack'
    BY <1>1 DEF OnlyOverlapsDisturb, Overwritten, BroughtBack, Clearers
  <2>1. CASE x = c
    BY <1>7, <1>8, <2>1
  <2>2. CASE x # c /\ UserOf[x] # u
    <3>1. x \in performed \cap Adds /\ content'[UserOf[x]] = content[UserOf[x]]
      BY <1>3, <1>8, <2>2, Users_
    <3>2. /\ x \notin content[UserOf[x]] /\ x \notin cleared => Overwritten(x)
          /\ x \in content[UserOf[x]] /\ x \in cleared => BroughtBack
      BY <1>2, <3>1 DEF OnlyOverlapsDisturb, Overwritten, BroughtBack, Clearers
    <3> QED BY <1>6, <3>1, <3>2
  <2>3. CASE x # c /\ UserOf[x] = u
    <3>1. x \in OwnAdds(u)
      BY <1>3, <2>3 DEF OwnAdds
    <3>2. /\ x \notin readContent[c] => x \in cleared \cup stale[c] \/ Overwritten(x)
          /\ x \in readContent[c] \cap cleared => stale[c] \cap Clearers # {} \/ BroughtBack
      BY <1>2, <1>3, <3>1 DEF OpenInv
    <3>3. \A y \in stale[c] : OverwrittenBy(c, y)'
      BY <1>3, <1>5 DEF OverwrittenBy
    <3>4. x \in stale[c] => Overwritten(x)'
      BY <3>3 DEF Overwritten
    <3>5. stale[c] \cap Clearers # {} => BroughtBack'
      BY <3>3 DEF BroughtBack
    <3> QED BY <1>6, <1>8, <2>3, <3>2, <3>4, <3>5
  <2> QED BY <2>1, <2>2, <2>3
<1>13. OpenInv'
  <2> SUFFICES ASSUME NEW d \in Adds, ReadOpen(d)', NEW x \in OwnAdds(UserOf[d])'
               PROVE  /\ x \notin readContent[d] =>
                            x \in cleared \cup stale'[d] \/ Overwritten(x)'
                      /\ x \in readContent[d] \cap cleared =>
                            stale'[d] \cap Clearers # {} \/ BroughtBack'
    BY <1>1 DEF OpenInv
  <2>1. d # c /\ ReadOpen(d)
    BY <1>3
  <2>2. CASE x = c
    <3>1. UserOf[d] = u
      BY <2>2 DEF OwnAdds
    <3> QED BY <1>4, <1>7, <2>1, <2>2, <3>1
  <2>3. CASE x # c
    <3>1. x \in OwnAdds(UserOf[d])
      BY <1>3, <2>3 DEF OwnAdds
    <3>2. /\ x \notin readContent[d] => x \in cleared \cup stale[d] \/ Overwritten(x)
          /\ x \in readContent[d] \cap cleared => stale[d] \cap Clearers # {} \/ BroughtBack
      BY <1>2, <2>1, <3>1 DEF OpenInv
    <3> QED BY <1>5, <1>6, <3>2
  <2> QED BY <2>2, <2>3
<1> QED BY <1>11, <1>12, <1>13 DEF OverlapInv

LEMMA PerformSetOfEmpty ==
    ASSUME IInv, NEW c \in Empties, PerformSet(c) PROVE ContentInv' /\ OverlapInv'
<1>1. c \in Calls /\ c \notin Adds /\ c \in Clearers /\ UserOf[c] \in Users
  BY Users_ DEF Clearers
<1>2. /\ content' = [content EXCEPT ![UserOf[c]] = {}] /\ readContent' = readContent
      /\ Cleared({UserOf[c]}) /\ MarkStale({UserOf[c]}, c)
  BY <1>1 DEF PerformSet
<1>3. /\ performed' = performed \cup {c}
      /\ \A d \in Adds : ReadOpen(d)' <=> ReadOpen(d)
  BY <1>1, PerformSetEffect
<1>4. /\ TypeInv /\ ContentInv /\ OverlapInv
      /\ performed \subseteq performed' /\ performed' \cap Adds = performed \cap Adds
  BY <1>1, <1>3 DEF IInv
<1>5. \A u \in Users : content'[u] = IF u \in {UserOf[c]} THEN {} ELSE content[u]
  BY <1>1, <1>2, <1>4 DEF TypeInv
<1> QED BY <1>1, <1>2, <1>3, <1>4, <1>5, ClearStep

LEMMA PerformSetStep == ASSUME IInv, NEW c \in Calls, PerformSet(c) PROVE IInv'
  BY PerformSetEffect, PerformSetOfAdd, PerformSetOfEmpty, Users_ DEF IInv

LEMMA TickStep == ASSUME IInv, Tick PROVE IInv'
<1> DEFINE over == {u \in Users : ttl[u] = 1}
<1>1. /\ ttl' = [u \in Users |-> IF ttl[u] > 0 THEN ttl[u] - 1 ELSE 0]
      /\ store' = [u \in Users |-> IF u \in over THEN NoCart ELSE store[u]]
      /\ content' = [u \in Users |-> IF u \in over THEN {} ELSE content[u]]
      /\ Cleared(over) /\ MarkStale(over, "expiry")
      /\ UNCHANGED <<pc, read, wire, performed, readContent>>
  BY DEF Tick, callVars
<1>2. /\ TypeInv /\ WireInv /\ TtlInv /\ ContentInv /\ OverlapInv
      /\ \A u \in Users : ttl[u] \in 0 .. TtlTicks
  BY DEF IInv, TypeInv
<1>3. ttl' \in [Users -> 0 .. TtlTicks]
  <2>1. \A u \in Users : (IF ttl[u] > 0 THEN ttl[u] - 1 ELSE 0) \in 0 .. TtlTicks
    BY <1>2, Users_
  <2> QED BY <1>1, <2>1
<1>4. \A u \in Users : ttl'[u] = 0 /\ u \notin over => ttl[u] = 0
  BY <1>1, <1>2, Users_
<1> HIDE DEF over
<1>5. over \in SUBSET Users
  BY DEF over
<1>6. TypeInv'
  <2>1. cleared' \subseteq Adds /\ stale' \in [Adds -> SUBSET (Calls \cup {"expiry"})]
    BY <1>1, <1>2 DEF TypeInv, Cleared, MarkStale
  <2> QED BY <1>1, <1>2, <1>3, <2>1 DEF TypeInv
<1>7. WireInv'
  BY <1>1, <1>2 DEF WireInv, Once, SetSent
<1>8. TtlInv'
  <2> SUFFICES ASSUME NEW u \in Users, store'[u] # NoCart, ttl'[u] = 0
               PROVE  \E d \in performed : UserOf[d] = u /\ Expirer(d)'
    BY <1>1 DEF TtlInv
  <2>1. store[u] # NoCart /\ ttl[u] = 0
    BY <1>1, <1>4
  <2> QED BY <1>1, <1>2, <2>1 DEF TtlInv, Expirer
<1>9. \A d \in Adds : ReadOpen(d)' => ReadOpen(d)
  BY <1>1 DEF ReadOpen
<1>10. "expiry" \in Clearers /\ performed \subseteq performed'
       /\ performed' \cap Adds = performed \cap Adds
       /\ \A u \in Users : content'[u] = IF u \in over THEN {} ELSE content[u]
  BY <1>1 DEF Clearers
<1>11. ContentInv' /\ OverlapInv'
  BY <1>1, <1>2, <1>5, <1>9, <1>10, ClearStep
<1> QED BY <1>6, <1>7, <1>8, <1>11 DEF IInv

-----------------------------------------------------------------------------
(***************************************************************************)
(* The steps that only a call takes, or that fail calls.                   *)
(***************************************************************************)
LEMMA CallStep ==
    ASSUME IInv, NEW c \in Calls, Step(c)
    PROVE  IInv' /\ Quiet
<1>1. CASE HashGet(c)
  BY <1>1, SendStep, StepKinds DEF HashGet
<1>2. CASE HashSet(c)
  BY <1>2, SendStep, StepKinds DEF HashSet
<1>3. CASE KeyExpire(c)
  BY <1>3, SendStep, StepKinds DEF KeyExpire
<1> QED BY <1>1, <1>2, <1>3 DEF Step

\* Nothing of the wire is lost when a call only fails.
LEMMA WholeWire == ASSUME TypeInv PROVE \E n \in 0 .. Len(wire) : wire = SubSeq(wire, 1, n)
<1>1. wire \in Seq(Commands) /\ Len(wire) \in Nat /\ Len(wire) \in 0 .. Len(wire)
  BY WireDomain DEF TypeInv
<1>2. SubSeq(wire, 1, Len(wire)) = wire
  BY <1>1, SubSeqFull
<1> QED BY <1>1, <1>2

LEMMA OneFails ==
    ASSUME IInv, NEW c \in Calls, pc' = [pc EXCEPT ![c] = "failed"],
           UNCHANGED <<store, ttl, read, wire, historyVars>>
    PROVE  IInv' /\ Quiet
<1>1. TypeInv /\ pc \in [Calls -> Steps]
  BY DEF IInv, TypeInv
<1>2. pc' = [d \in Calls |-> IF d \in {c} THEN "failed" ELSE pc[d]]
  BY <1>1
<1>3. \E n \in 0 .. Len(wire) : wire' = SubSeq(wire, 1, n)
  BY <1>1, WholeWire
<1>4. {c} \in SUBSET Calls
  OBVIOUS
<1> QED BY <1>2, <1>3, <1>4, FailStep

LEMMA BreakStep ==
    ASSUME IInv, NEW steps, Break(steps)
    PROVE  IInv' /\ Quiet
<1> DEFINE failing == {c \in Calls : pc[c] \in steps}
<1>1. pc' = [c \in Calls |-> IF c \in failing THEN "failed" ELSE pc[c]]
  BY DEF Break
<1>2. UNCHANGED <<store, ttl, read, historyVars>>
      /\ \E n \in 0 .. Len(wire) : wire' = SubSeq(wire, 1, n)
  BY DEF Break
<1>3. failing \in SUBSET Calls
  OBVIOUS
<1> HIDE DEF failing
<1> QED BY <1>1, <1>2, <1>3, FailStep

\* The steps of Next, by what they do to the carts.
LEMMA NextIsQuiet ==
    ASSUME IInv, Next
    PROVE  \/ IInv' /\ Quiet
           \/ \E c \in Calls : PerformGet(c) \/ PerformSet(c)
           \/ Tick
<1>1. ASSUME NEW c \in Calls, Refuse(c) PROVE IInv' /\ Quiet
  BY <1>1, OneFails DEF Refuse
<1>2. ASSUME NEW c \in Calls, GiveUp(c) PROVE IInv' /\ Quiet
  BY <1>2, OneFails DEF GiveUp
<1>3. ASSUME NEW c \in Calls, Step(c) PROVE IInv' /\ Quiet
  BY <1>3, CallStep
<1>4. ASSUME NEW c \in Calls, PerformExpire(c) PROVE IInv' /\ Quiet
  BY <1>4, PerformExpireStep
<1>5. CASE ConnectionLost
  BY <1>5, BreakStep DEF ConnectionLost
<1>6. CASE ServiceDies
  BY <1>6, BreakStep DEF ServiceDies
<1>7. ASSUME NEW c \in Calls, Perform(c)
      PROVE  PerformGet(c) \/ PerformSet(c) \/ (IInv' /\ Quiet)
  BY <1>4, <1>7 DEF Perform
<1> QED BY <1>1, <1>2, <1>3, <1>5, <1>6, <1>7 DEF Next

LEMMA IInvStep == ASSUME IInv, [Next]_vars PROVE IInv'
<1>1. CASE Next
  <2>1. ASSUME NEW c \in Calls, PerformGet(c) PROVE IInv'
    BY <2>1, PerformGetStep
  <2>2. ASSUME NEW c \in Calls, PerformSet(c) PROVE IInv'
    BY <2>2, PerformSetStep
  <2> QED BY <1>1, <2>1, <2>2, NextIsQuiet, TickStep
<1>2. CASE UNCHANGED vars
  <2>1. UNCHANGED <<store, ttl, pc, read, wire, performed, content, readContent, cleared, stale>>
    BY <1>2 DEF vars, callVars, historyVars
  <2>2. TypeInv' /\ WireInv'
    BY <2>1 DEF IInv, TypeInv, WireInv, Once, SetSent
  <2>3. TtlInv'
    BY <2>1 DEF IInv, TtlInv, Expirer
  <2>4. Quiet
    BY <2>1 DEF Quiet, historyVars, ReadOpen
  <2> QED BY <2>2, <2>3, <2>4, QuietKeeps DEF IInv
<1> QED BY <1>1, <1>2

LEMMA IInvInit == ASSUME Init PROVE IInv
<1>1. wire = <<>> /\ wire \in Seq(Commands) /\ DOMAIN wire = {}
  BY DEF Init
<1>2. 0 \in 0 .. TtlTicks
  BY Users_
<1>3. TypeInv
  BY <1>1, <1>2, StepKinds DEF Init, TypeInv
<1>4. WireInv /\ TtlInv /\ ContentInv
  BY <1>1 DEF Init, WireInv, Once, SetSent, TtlInv, ContentInv
<1>5. OverlapInv
  BY <1>1 DEF Init, OverlapInv, OnlyOverlapsDisturb, OpenInv, OwnAdds
<1> QED BY <1>3, <1>4, <1>5 DEF IInv

(***************************************************************************)
(* The inductive invariant, for any users, calls and time to live.         *)
(***************************************************************************)
THEOREM CartStoreInvariant == Spec => []IInv
<1>1. Init => IInv
  BY IInvInit
<1>2. IInv /\ [Next]_vars => IInv'
  BY IInvStep
<1> QED BY <1>1, <1>2, PTL DEF Spec

(***************************************************************************)
(* Type correctness: what is stored and read is a cart.                    *)
(***************************************************************************)
THEOREM CartStoreTypeCorrect == Spec => []TypeOK
<1>1. IInv => TypeOK
  BY DEF IInv, TypeInv, TypeOK, Commands
<1> QED BY <1>1, CartStoreInvariant, PTL

(***************************************************************************)
(* An entry that would live for ever is still to be given its time, or is  *)
(* that of a call that failed between HashSet and KeyExpire (lines 159-160 *)
(* and 182-183).                                                           *)
(***************************************************************************)
THEOREM CartStoreTtlUnlessInterrupted == Spec => []TtlUnlessInterrupted
<1>1. IInv => TtlUnlessInterrupted
  BY DEF IInv, TtlInv, TtlUnlessInterrupted, Expirer, ExpirePending
<1> QED BY <1>1, CartStoreInvariant, PTL

(***************************************************************************)
(* However many calls overlap, fail or come late: an added item is missing *)
(* from the cart, or back in it, only where an AddItem wrote over what it  *)
(* had not seen (between the awaits of lines 134 and 159).                 *)
(***************************************************************************)
THEOREM CartStoreOnlyOverlapsDisturb == Spec => []OnlyOverlapsDisturb
<1>1. IInv => OnlyOverlapsDisturb
  BY DEF IInv, OverlapInv
<1> QED BY <1>1, CartStoreInvariant, PTL

-----------------------------------------------------------------------------
(***************************************************************************)
(* Sums.  A quantity is a sum over a finite set of calls; it does not      *)
(* depend on the order they are chosen in, and one more call adds its own. *)
(***************************************************************************)
Total(calls) == MapThenSumSet(LAMBDA c : ItemOf[c].quantity, calls)

First(calls) == CHOOSE c \in calls : TRUE

IsTotal(f, calls) ==
    f = [s \in SUBSET calls |->
            IF s = {} THEN 0 ELSE ItemOf[First(s)].quantity + f[s \ {First(s)}]]

LEMMA TotalIs == ASSUME NEW calls PROVE Total(calls) = (CHOOSE f : IsTotal(f, calls))[calls]
BY DEF Total, IsTotal, First, MapThenSumSet, MapThenFoldSet

LEMMA Induction ==
    ASSUME NEW T \in SUBSET Nat, 0 \in T, \A k \in T : k + 1 \in T
    PROVE  T = Nat
<1> DEFINE rest == Nat \ T
<1> SUFFICES ASSUME rest # {} PROVE FALSE
  OBVIOUS
<1>1. PICK m \in rest : \A k \in rest : <<k, m>> \notin OpToRel(<, Nat)
  BY NatLessThanWellFounded, WFMin
<1>2. m # 0 /\ m - 1 \in Nat
  OBVIOUS
<1>3. <<m - 1, m>> \in OpToRel(<, Nat)
  BY <1>2 DEF OpToRel
<1>4. m - 1 \in T
  BY <1>1, <1>2, <1>3
<1> QED
  BY <1>2, <1>4

\* The subsets of some calls that have at most k of them.
UpToSize(calls, k) == {s \in SUBSET calls : Cardinality(s) <= k}

IsTotalUpTo(f, calls, k) ==
    \A s \in UpToSize(calls, k) :
        f[s] = IF s = {} THEN 0 ELSE ItemOf[First(s)].quantity + f[s \ {First(s)}]

LEMMA SmallerSet ==
    ASSUME NEW s, IsFiniteSet(s), s # {}
    PROVE  /\ First(s) \in s /\ IsFiniteSet(s \ {First(s)})
           /\ Cardinality(s) \in Nat /\ Cardinality(s \ {First(s)}) = Cardinality(s) - 1
           /\ Cardinality(s) - 1 \in Nat
<1>1. First(s) \in s
  BY DEF First
<1>2. IsFiniteSet(s \ {First(s)}) /\ Cardinality(s \ {First(s)}) = Cardinality(s) - 1
  BY <1>1, FS_RemoveElement
<1>3. Cardinality(s) \in Nat /\ Cardinality(s \ {First(s)}) \in Nat
  BY <1>2, FS_CardinalityType
<1> QED
  BY <1>1, <1>2, <1>3

LEMMA TotalExists ==
    ASSUME NEW calls, IsFiniteSet(calls)
    PROVE  \E f : IsTotal(f, calls)
<1> DEFINE T == {k \in Nat : \E f : IsTotalUpTo(f, calls, k)}
<1>1. \A s \in SUBSET calls : IsFiniteSet(s) /\ Cardinality(s) \in Nat
  BY FS_Subset, FS_CardinalityType
<1>2. 0 \in T
  <2>1. IsTotalUpTo([s \in SUBSET calls |-> 0], calls, 0)
    <3>1. \A s \in UpToSize(calls, 0) : s = {} /\ s \in SUBSET calls
      BY <1>1, FS_EmptySet DEF UpToSize
    <3> QED
      BY <3>1 DEF IsTotalUpTo
  <2> QED
    BY <2>1
<1>3. ASSUME NEW k \in T PROVE k + 1 \in T
  <2>1. PICK f : IsTotalUpTo(f, calls, k)
    BY <1>3
  <2> DEFINE g == [s \in SUBSET calls |->
                      IF s = {} THEN 0 ELSE ItemOf[First(s)].quantity + f[s \ {First(s)}]]
  <2>2. ASSUME NEW s \in UpToSize(calls, k + 1), s # {}
        PROVE  g[s] = ItemOf[First(s)].quantity + g[s \ {First(s)}]
    <3>1. s \in SUBSET calls /\ Cardinality(s) <= k + 1 /\ k \in Nat
      BY <1>3 DEF UpToSize
    <3>2. s \ {First(s)} \in UpToSize(calls, k)
      BY <1>1, <2>2, <3>1, SmallerSet DEF UpToSize
    <3>3. g[s \ {First(s)}] = f[s \ {First(s)}]
      BY <2>1, <3>1, <3>2 DEF IsTotalUpTo
    <3> QED
      BY <2>2, <3>1, <3>3
  <2>3. \A s \in UpToSize(calls, k + 1) : s = {} => g[s] = 0
    OBVIOUS
  <2> HIDE DEF g
  <2>4. IsTotalUpTo(g, calls, k + 1)
    BY <2>2, <2>3 DEF IsTotalUpTo
  <2> QED
    BY <1>3, <2>4
<1> HIDE DEF T
<1>4. T = Nat
  <2>1. T \in SUBSET Nat
    BY DEF T
  <2> QED
    BY <1>2, <1>3, <2>1, Induction
<1>5. PICK f : IsTotalUpTo(f, calls, Cardinality(calls))
  BY <1>1, <1>4 DEF T
<1>6. \A s \in SUBSET calls : s \in UpToSize(calls, Cardinality(calls))
  BY FS_Subset DEF UpToSize
<1> DEFINE g == [s \in SUBSET calls |-> f[s]]
<1>7. \A s \in SUBSET calls :
          g[s] = IF s = {} THEN 0 ELSE ItemOf[First(s)].quantity + g[s \ {First(s)}]
  BY <1>5, <1>6 DEF IsTotalUpTo
<1>8. IsTotal(g, calls)
  BY <1>7, Zenon DEF IsTotal
<1> QED
  BY <1>8

LEMMA TotalUnique ==
    ASSUME NEW calls, NEW others, NEW f, NEW g, IsTotal(f, calls), IsTotal(g, others),
           NEW s \in SUBSET calls, s \in SUBSET others, IsFiniteSet(s)
    PROVE  f[s] = g[s]
<1> DEFINE T == {k \in Nat : \A t \in SUBSET s : Cardinality(t) = k => f[t] = g[t]}
<1>1. \A t \in SUBSET s : IsFiniteSet(t) /\ Cardinality(t) \in Nat
  BY FS_Subset, FS_CardinalityType
<1>2. \A t \in SUBSET s :
          /\ f[t] = IF t = {} THEN 0 ELSE ItemOf[First(t)].quantity + f[t \ {First(t)}]
          /\ g[t] = IF t = {} THEN 0 ELSE ItemOf[First(t)].quantity + g[t \ {First(t)}]
  BY DEF IsTotal
<1>3. 0 \in T
  BY <1>1, <1>2, FS_EmptySet
<1>4. ASSUME NEW k \in T PROVE k + 1 \in T
  <2> SUFFICES ASSUME NEW t \in SUBSET s, Cardinality(t) = k + 1 PROVE f[t] = g[t]
    OBVIOUS
  <2>1. t # {} /\ Cardinality(t \ {First(t)}) = k
    BY <1>1, SmallerSet, FS_EmptySet
  <2>2. f[t \ {First(t)}] = g[t \ {First(t)}]
    BY <2>1
  <2> QED
    BY <1>2, <2>1, <2>2
<1> HIDE DEF T
<1>5. T = Nat
  <2>1. T \in SUBSET Nat
    BY DEF T
  <2> QED
    BY <1>3, <1>4, <2>1, Induction
<1> QED
  BY <1>1, <1>5 DEF T

LEMMA TotalEquations ==
    ASSUME NEW calls, IsFiniteSet(calls)
    PROVE  Total(calls) = IF calls = {} THEN 0
                          ELSE ItemOf[First(calls)].quantity + Total(calls \ {First(calls)})
<1> DEFINE f == CHOOSE f : IsTotal(f, calls)
           rest == calls \ {First(calls)}
           g == CHOOSE g : IsTotal(g, rest)
<1>1. IsFiniteSet(rest)
  BY FS_Subset
<1>2. IsTotal(f, calls) /\ IsTotal(g, rest)
  BY <1>1, TotalExists, Zenon
<1>3. Total(calls) = f[calls] /\ Total(rest) = g[rest]
  BY TotalIs
<1> HIDE DEF f, g
<1>4. f[calls] = IF calls = {} THEN 0 ELSE ItemOf[First(calls)].quantity + f[rest]
  BY <1>2 DEF IsTotal
<1>5. f[rest] = g[rest]
  BY <1>1, <1>2, TotalUnique
<1> QED
  BY <1>3, <1>4, <1>5

LEMMA TotalType ==
    ASSUME NEW calls \in SUBSET Adds, IsFiniteSet(calls)
    PROVE  Total(calls) \in Nat
<1> DEFINE T == {k \in Nat : \A s \in SUBSET calls : Cardinality(s) = k => Total(s) \in Nat}
<1>1. \A s \in SUBSET calls : IsFiniteSet(s) /\ Cardinality(s) \in Nat
  BY FS_Subset, FS_CardinalityType
<1>2. 0 \in T
  BY <1>1, TotalEquations, FS_EmptySet
<1>3. ASSUME NEW k \in T PROVE k + 1 \in T
  <2> SUFFICES ASSUME NEW s \in SUBSET calls, Cardinality(s) = k + 1 PROVE Total(s) \in Nat
    OBVIOUS
  <2>1. s # {} /\ First(s) \in s /\ Cardinality(s \ {First(s)}) = k
    BY <1>1, SmallerSet, FS_EmptySet
  <2>2. Total(s \ {First(s)}) \in Nat
    BY <2>1
  <2>3. ItemOf[First(s)].quantity \in Nat
    BY <2>1, CartAssumption
  <2>4. Total(s) = ItemOf[First(s)].quantity + Total(s \ {First(s)})
    BY <1>1, <2>1, TotalEquations
  <2> QED
    BY <2>2, <2>3, <2>4
<1> HIDE DEF T
<1>4. T = Nat
  <2>1. T \in SUBSET Nat
    BY DEF T
  <2> QED
    BY <1>2, <1>3, <2>1, Induction
<1> QED
  BY <1>1, <1>4 DEF T

\* Whichever call is taken out, its quantity is what the total loses.
LEMMA TotalWithout ==
    ASSUME NEW calls \in SUBSET Adds, IsFiniteSet(calls), NEW c \in calls
    PROVE  Total(calls) = ItemOf[c].quantity + Total(calls \ {c})
<1> DEFINE Loses(s) == \A d \in s : Total(s) = ItemOf[d].quantity + Total(s \ {d})
           T == {k \in Nat : \A s \in SUBSET calls : Cardinality(s) = k => Loses(s)}
<1>1. \A s \in SUBSET calls : IsFiniteSet(s) /\ Cardinality(s) \in Nat /\ Total(s) \in Nat
  BY FS_Subset, FS_CardinalityType, TotalType
<1>2. \A d \in calls : ItemOf[d].quantity \in Nat
  BY CartAssumption
<1>3. 0 \in T
  BY <1>1, FS_EmptySet
<1>4. ASSUME NEW k \in T PROVE k + 1 \in T
  <2> SUFFICES ASSUME NEW s \in SUBSET calls, Cardinality(s) = k + 1, NEW d \in s
               PROVE  Total(s) = ItemOf[d].quantity + Total(s \ {d})
    OBVIOUS
  <2> DEFINE x == First(s)
  <2>1. x \in s /\ Cardinality(s \ {x}) = k /\ IsFiniteSet(s)
    BY <1>1, SmallerSet
  <2>2. Total(s) = ItemOf[x].quantity + Total(s \ {x})
    BY <2>1, TotalEquations
  <2> HIDE DEF x
  <2>3. CASE d = x
    BY <2>2, <2>3
  <2>4. CASE d # x
    <3>1. Total(s \ {x}) = ItemOf[d].quantity + Total((s \ {x}) \ {d})
      BY <2>1, <2>4
    <3>2. Cardinality(s \ {d}) = k
      BY <2>1, FS_RemoveElement
    <3>3. Total(s \ {d}) = ItemOf[x].quantity + Total((s \ {d}) \ {x})
      BY <2>1, <2>4, <3>2
    <3>4. (s \ {x}) \ {d} = (s \ {d}) \ {x}
      OBVIOUS
    <3>5. /\ Total(s \ {x}) \in Nat /\ Total(s \ {d}) \in Nat
          /\ Total((s \ {d}) \ {x}) \in Nat
          /\ ItemOf[x].quantity \in Nat /\ ItemOf[d].quantity \in Nat
      BY <1>1, <1>2, <2>1
    <3> HIDE DEF T
    <3> QED
      BY <2>2, <3>1, <3>3, <3>4, <3>5
  <2> QED
    BY <2>3, <2>4
<1> HIDE DEF T
<1>5. T = Nat
  <2>1. T \in SUBSET Nat
    BY DEF T
  <2> QED
    BY <1>3, <1>4, <2>1, Induction
<1>6. Loses(calls)
  BY <1>1, <1>5 DEF T
<1> QED
  BY <1>6

-----------------------------------------------------------------------------
(***************************************************************************)
(* A cart that sums up some calls, and what AddItemAsync makes of it.      *)
(***************************************************************************)
OfProduct(calls, p) == {c \in calls : ItemOf[c].product = p}

SumsUp(items, calls) ==
    /\ \A c \in calls : \E i \in DOMAIN items : items[i].product = ItemOf[c].product
    /\ \A i \in DOMAIN items : OfProduct(calls, items[i].product) # {}
    /\ \A i, j \in DOMAIN items : items[i].product = items[j].product => i = j
    /\ \A i \in DOMAIN items :
           items[i].quantity = Total(OfProduct(calls, items[i].product))

CartSumsUp(value, calls) ==
    /\ calls \in SUBSET Adds /\ IsFiniteSet(calls)
    /\ value = NoCart => calls = {}
    /\ value # NoCart => SumsUp(value.items, calls)

LEMMA OfProductFinite ==
    ASSUME NEW calls \in SUBSET Adds, IsFiniteSet(calls), NEW p
    PROVE  OfProduct(calls, p) \in SUBSET Adds /\ IsFiniteSet(OfProduct(calls, p))
BY FS_Subset DEF OfProduct

\* One more call adds to the quantity of its own product, and to no other.
LEMMA TotalOneMore ==
    ASSUME NEW calls \in SUBSET Adds, IsFiniteSet(calls), NEW c \in Adds \ calls, NEW p
    PROVE  Total(OfProduct(calls \cup {c}, p)) =
               IF p = ItemOf[c].product
               THEN Total(OfProduct(calls, p)) + ItemOf[c].quantity
               ELSE Total(OfProduct(calls, p))
<1>1. CASE p = ItemOf[c].product
  <2> DEFINE more == OfProduct(calls \cup {c}, p)
  <2>1. more \in SUBSET Adds /\ IsFiniteSet(more)
    BY OfProductFinite, FS_AddElement
  <2>2. c \in more /\ more \ {c} = OfProduct(calls, p)
    BY <1>1 DEF OfProduct
  <2> HIDE DEF more
  <2>3. Total(more) = ItemOf[c].quantity + Total(OfProduct(calls, p))
    BY <2>1, <2>2, TotalWithout
  <2>4. ItemOf[c].quantity \in Nat /\ Total(OfProduct(calls, p)) \in Nat
    BY CartAssumption, OfProductFinite, TotalType
  <2>5. Total(more) = Total(OfProduct(calls, p)) + ItemOf[c].quantity
    BY <2>3, <2>4
  <2> QED
    BY <1>1, <2>5 DEF more
<1>2. CASE p # ItemOf[c].product
  <2>1. OfProduct(calls \cup {c}, p) = OfProduct(calls, p)
    BY <1>2 DEF OfProduct
  <2> QED
    BY <1>2, <2>1
<1> QED
  BY <1>1, <1>2

LEMMA EmptySumsUp == SumsUp(<<>>, {})
BY DEF SumsUp

LEMMA FirstItemSumsUp ==
    ASSUME NEW c \in Adds PROVE SumsUp(<<ItemOf[c]>>, {c})
<1> DEFINE items == <<ItemOf[c]>>
<1>1. DOMAIN items = {1} /\ items[1] = ItemOf[c]
  OBVIOUS
<1>2. OfProduct({c}, ItemOf[c].product) = {c}
  BY DEF OfProduct
<1>3. Total({c}) = ItemOf[c].quantity
  <2>1. Total({}) = 0
    BY TotalEquations, FS_EmptySet
  <2>2. Total({c}) = ItemOf[c].quantity + Total({c} \ {c})
    BY TotalWithout, FS_Singleton
  <2>3. {c} \ {c} = {}
    OBVIOUS
  <2>4. Total({c} \ {c}) = 0 /\ ItemOf[c].quantity \in Nat
    BY <2>1, <2>3, CartAssumption
  <2> QED
    BY <2>2, <2>4
<1> HIDE DEF items
<1> QED
  <2>1. SumsUp(items, {c})
    BY <1>1, <1>2, <1>3 DEF SumsUp
  <2> QED
    BY <2>1 DEF items

\* AddItemAsync: the cart it writes sums up one call more.
LEMMA AppendedItemSumsUp ==
    ASSUME NEW items \in Seq(Items), NEW calls \in SUBSET Adds, IsFiniteSet(calls),
           SumsUp(items, calls), NEW c \in Adds \ calls,
           \A i \in DOMAIN items : items[i].product # ItemOf[c].product
    PROVE  SumsUp(Append(items, ItemOf[c]), calls \cup {c})
<1> DEFINE more == Append(items, ItemOf[c])
           p == ItemOf[c].product
<1>1. ItemOf[c] \in Items /\ ItemOf[c].quantity \in Nat
  BY CartAssumption DEF Items
<1>2. Len(items) \in Nat /\ DOMAIN items = 1 .. Len(items)
  BY LenProperties
<1>3. /\ more \in Seq(Items) /\ Len(more) = Len(items) + 1
      /\ \A i \in 1 .. Len(items) : more[i] = items[i]
      /\ more[Len(items) + 1] = ItemOf[c]
  BY <1>1, AppendProperties
<1>4. DOMAIN more = 1 .. Len(items) + 1
  BY <1>3, LenProperties
<1> HIDE DEF more
<1> DEFINE last == Len(items) + 1
<1>5. /\ last \in DOMAIN more /\ more[last] = ItemOf[c] /\ last \notin DOMAIN items
      /\ \A i \in DOMAIN more : i = last \/ i \in DOMAIN items
      /\ \A i \in DOMAIN items : i \in DOMAIN more /\ more[i] = items[i]
  BY <1>2, <1>3, <1>4
<1> HIDE DEF last
<1>6. OfProduct(calls, p) = {}
  BY DEF SumsUp, OfProduct
<1>7. Total(OfProduct(calls \cup {c}, p)) = ItemOf[c].quantity
  <2>1. Total({}) = 0
    BY TotalEquations, FS_EmptySet
  <2>2. Total(OfProduct(calls \cup {c}, p)) = 0 + ItemOf[c].quantity
    BY <1>6, <2>1, TotalOneMore
  <2> QED
    BY <1>1, <2>2
<1>8. \A x \in calls \cup {c} : \E i \in DOMAIN more : more[i].product = ItemOf[x].product
  <2>1. \A x \in calls : \E i \in DOMAIN items : items[i].product = ItemOf[x].product
    BY DEF SumsUp
  <2> QED
    BY <1>5, <2>1
<1>9. \A i \in DOMAIN more : OfProduct(calls \cup {c}, more[i].product) # {}
  <2>1. \A i \in DOMAIN items : OfProduct(calls, items[i].product) # {}
    BY DEF SumsUp
  <2>2. c \in OfProduct(calls \cup {c}, p)
    BY DEF OfProduct
  <2>3. \A q : OfProduct(calls, q) \subseteq OfProduct(calls \cup {c}, q)
    BY DEF OfProduct
  <2> QED
    BY <1>5, <2>1, <2>2, <2>3
<1>10. \A i, j \in DOMAIN more : more[i].product = more[j].product => i = j
  <2>1. \A i, j \in DOMAIN items : items[i].product = items[j].product => i = j
    BY DEF SumsUp
  <2> QED
    BY <1>5, <2>1
<1>11. \A i \in DOMAIN more :
           more[i].quantity = Total(OfProduct(calls \cup {c}, more[i].product))
  <2> SUFFICES ASSUME NEW i \in DOMAIN more
               PROVE  more[i].quantity = Total(OfProduct(calls \cup {c}, more[i].product))
    OBVIOUS
  <2>1. CASE i = last
    BY <1>5, <1>7, <2>1
  <2>2. CASE i \in DOMAIN items
    <3>1. items[i].quantity = Total(OfProduct(calls, items[i].product))
      BY <2>2 DEF SumsUp
    <3>2. items[i].product # p
      BY <2>2
    <3>3. Total(OfProduct(calls \cup {c}, items[i].product)) =
              Total(OfProduct(calls, items[i].product))
      BY <3>2, TotalOneMore
    <3> QED
      BY <1>5, <2>2, <3>1, <3>3
  <2> QED
    BY <1>5, <2>1, <2>2
<1>12. SumsUp(more, calls \cup {c})
  BY <1>8, <1>9, <1>10, <1>11, Zenon DEF SumsUp
<1> QED
  BY <1>12 DEF more

LEMMA RaisedItemSumsUp ==
    ASSUME NEW items \in Seq(Items), NEW calls \in SUBSET Adds, IsFiniteSet(calls),
           SumsUp(items, calls), NEW c \in Adds \ calls,
           NEW found \in DOMAIN items, items[found].product = ItemOf[c].product
    PROVE  SumsUp([items EXCEPT ![found].quantity = @ + ItemOf[c].quantity], calls \cup {c})
<1> DEFINE more == [items EXCEPT ![found].quantity = @ + ItemOf[c].quantity]
           p == ItemOf[c].product
<1>1. ItemOf[c] \in Items /\ ItemOf[c].quantity \in Nat
  BY CartAssumption DEF Items
<1>2. \A i \in DOMAIN items : items[i] \in Items
  <2>1. DOMAIN items = 1 .. Len(items)
    BY LenProperties
  <2> QED
    BY <2>1, ElementOfSeq
<1>3. /\ DOMAIN more = DOMAIN items
      /\ \A i \in DOMAIN items : i # found => more[i] = items[i]
      /\ more[found] = [items[found] EXCEPT !.quantity = @ + ItemOf[c].quantity]
  OBVIOUS
<1>4. /\ more[found].product = p
      /\ more[found].quantity = items[found].quantity + ItemOf[c].quantity
  BY <1>2, <1>3 DEF Items
<1> HIDE DEF more
<1>5. \A i \in DOMAIN items : more[i].product = items[i].product
  BY <1>3, <1>4
<1>6. \A x \in calls \cup {c} : \E i \in DOMAIN more : more[i].product = ItemOf[x].product
  <2>1. \A x \in calls : \E i \in DOMAIN items : items[i].product = ItemOf[x].product
    BY DEF SumsUp
  <2> QED
    BY <1>3, <1>4, <1>5, <2>1
<1>7. \A i \in DOMAIN more : OfProduct(calls \cup {c}, more[i].product) # {}
  <2>1. \A i \in DOMAIN items : OfProduct(calls, items[i].product) # {}
    BY DEF SumsUp
  <2>2. \A q : OfProduct(calls, q) \subseteq OfProduct(calls \cup {c}, q)
    BY DEF OfProduct
  <2> QED
    BY <1>3, <1>5, <2>1, <2>2
<1>8. \A i, j \in DOMAIN items : items[i].product = items[j].product => i = j
  BY DEF SumsUp
<1>9. \A i, j \in DOMAIN more : more[i].product = more[j].product => i = j
  BY <1>3, <1>5, <1>8
<1>10. \A i \in DOMAIN more :
           more[i].quantity = Total(OfProduct(calls \cup {c}, more[i].product))
  <2> SUFFICES ASSUME NEW i \in DOMAIN items
               PROVE  more[i].quantity = Total(OfProduct(calls \cup {c}, items[i].product))
    BY <1>3, <1>5
  <2>1. items[i].quantity = Total(OfProduct(calls, items[i].product))
    BY DEF SumsUp
  <2>2. CASE i = found
    <3>1. Total(OfProduct(calls \cup {c}, p)) = Total(OfProduct(calls, p)) + ItemOf[c].quantity
      BY TotalOneMore
    <3> QED
      BY <1>4, <2>1, <2>2, <3>1
  <2>3. CASE i # found
    <3>1. items[i].product # p
      BY <1>8, <2>3
    <3>2. Total(OfProduct(calls \cup {c}, items[i].product)) =
              Total(OfProduct(calls, items[i].product))
      BY <3>1, TotalOneMore
    <3> QED
      BY <1>3, <2>1, <2>3, <3>2
  <2> QED
    BY <2>2, <2>3
<1>11. SumsUp(more, calls \cup {c})
  BY <1>6, <1>7, <1>9, <1>10, Zenon DEF SumsUp
<1> QED
  BY <1>11 DEF more

LEMMA WithItemSumsUp ==
    ASSUME NEW value \in Cart \cup {NoCart}, NEW calls, CartSumsUp(value, calls),
           NEW c \in Adds \ calls
    PROVE  CartSumsUp(WithItem(value, UserOf[c], ItemOf[c]), calls \cup {c})
<1> DEFINE after == WithItem(value, UserOf[c], ItemOf[c])
<1>1. after \in Cart /\ after # NoCart
  <2>1. UserOf[c] \in Users /\ ItemOf[c] \in Items
    BY CartAssumption DEF Calls, Items
  <2> QED
    BY <2>1, WithItemType, CartAssumption
<1>2. /\ calls \in SUBSET Adds /\ IsFiniteSet(calls)
      /\ calls \cup {c} \in SUBSET Adds /\ IsFiniteSet(calls \cup {c})
  BY FS_AddElement DEF CartSumsUp
<1>3. SumsUp(after.items, calls \cup {c})
  <2>1. CASE value = NoCart
    <3>1. calls \cup {c} = {c}
      BY <2>1 DEF CartSumsUp
    <3>2. after.items = <<ItemOf[c]>>
      BY <2>1 DEF WithItem
    <3> QED
      BY <3>1, <3>2, FirstItemSumsUp
  <2>2. CASE value # NoCart
    <3> DEFINE items == value.items
               existing == {i \in DOMAIN items : items[i].product = ItemOf[c].product}
               found == CHOOSE i \in existing : TRUE
    <3>1. value \in Cart /\ items \in Seq(Items)
      BY <2>2 DEF Cart, Items
    <3>2. SumsUp(items, calls)
      BY <2>2 DEF CartSumsUp
    <3>3. CASE existing = {}
      <4>1. after.items = Append(items, ItemOf[c])
        <5>1. after = [value EXCEPT !.items = Append(items, ItemOf[c])]
          BY <2>2, <3>3 DEF WithItem
        <5> QED
          BY <3>1, <5>1 DEF Cart
      <4>2. \A i \in DOMAIN items : items[i].product # ItemOf[c].product
        BY <3>3
      <4> HIDE DEF items, existing, after
      <4>3. SumsUp(Append(items, ItemOf[c]), calls \cup {c})
        BY <1>2, <3>1, <3>2, <4>2, AppendedItemSumsUp
      <4> QED
        BY <4>1, <4>3
    <3>4. CASE existing # {}
      <4>1. found \in DOMAIN items /\ items[found].product = ItemOf[c].product
        <5>1. found \in existing
          <6> HIDE DEF existing
          <6> QED
            BY <3>4
        <5> HIDE DEF found
        <5> QED
          BY <5>1
      <4>2. after.items = [items EXCEPT ![found].quantity = @ + ItemOf[c].quantity]
        <5>1. after = [value EXCEPT !.items[found].quantity = @ + ItemOf[c].quantity]
          BY <2>2, <3>4 DEF WithItem
        <5> HIDE DEF found
        <5> QED
          BY <3>1, <5>1 DEF Cart
      <4> HIDE DEF items, existing, after, found
      <4>3. SumsUp([items EXCEPT ![found].quantity = @ + ItemOf[c].quantity], calls \cup {c})
        BY <1>2, <3>1, <3>2, <4>1, RaisedItemSumsUp
      <4> QED
        BY <4>2, <4>3
    <3> QED
      BY <3>3, <3>4
  <2> QED
    BY <2>1, <2>2
<1> HIDE DEF after
<1>4. CartSumsUp(after, calls \cup {c})
  BY <1>1, <1>2, <1>3 DEF CartSumsUp
<1> QED
  BY <1>4 DEF after

(***************************************************************************)
(* Every cart, stored or read, sums up the calls it is made of.            *)
(***************************************************************************)
SumInv ==
    /\ \A u \in Users : CartSumsUp(store[u], content[u])
    /\ \A d \in Adds : CartSumsUp(read[d], readContent[d])

LEMMA NoCartSumsUp == CartSumsUp(NoCart, {})
BY FS_EmptySet DEF CartSumsUp

LEMMA EmptyCartSumsUp == CartSumsUp(EmptyCart, {})
<1>1. EmptyCart.items = <<>>
  BY DEF EmptyCart
<1> QED
  BY <1>1, EmptySumsUp, FS_EmptySet DEF CartSumsUp

LEMMA SumInvUnchanged ==
    ASSUME SumInv, UNCHANGED <<store, content, read, readContent>> PROVE SumInv'
<1>1. /\ store' = store /\ content' = content
      /\ read' = read /\ readContent' = readContent
  OBVIOUS
<1> QED
  BY <1>1 DEF SumInv

LEMMA SumInvGet ==
    ASSUME IInv, SumInv, NEW c \in Calls, PerformGet(c) PROVE SumInv'
<1>1. TypeInv /\ (\A d \in Calls : UserOf[d] \in Users)
  BY Users_ DEF IInv
<1>2. store' = store /\ content' = content
  BY DEF PerformGet
<1>3. CASE pc[c] # "getting"
  BY <1>2, <1>3, SumInvUnchanged DEF PerformGet
<1>4. CASE pc[c] = "getting"
  <2>1. /\ read' = [read EXCEPT ![c] = store[UserOf[c]]]
        /\ readContent' = [readContent EXCEPT ![c] = content[UserOf[c]]]
    BY <1>4 DEF PerformGet
  <2>2. \A d \in Adds :
            \/ read'[d] = read[d] /\ readContent'[d] = readContent[d]
            \/ read'[d] = store[UserOf[c]] /\ readContent'[d] = content[UserOf[c]]
    BY <1>1, <2>1 DEF TypeInv
  <2>3. \A d \in Adds : CartSumsUp(read'[d], readContent'[d])
    BY <1>1, <2>2 DEF SumInv
  <2>4. \A u \in Users : CartSumsUp(store[u], content[u])
    BY DEF SumInv
  <2> QED
    BY <1>2, <2>3, <2>4 DEF SumInv
<1> QED
  BY <1>3, <1>4

LEMMA SumInvSet ==
    ASSUME IInv, SumInv, NEW c \in Calls, PerformSet(c) PROVE SumInv'
<1>1. /\ store' = [store EXCEPT ![UserOf[c]] = ValueSet(c)]
      /\ content' = [content EXCEPT ![UserOf[c]] =
                        IF c \in Adds THEN readContent[c] \cup {c} ELSE {}]
      /\ read' = read /\ readContent' = readContent
  BY DEF PerformSet
<1>2. TypeInv /\ ContentInv /\ UserOf[c] \in Users
  BY Users_ DEF IInv
<1>3. CartSumsUp(ValueSet(c), IF c \in Adds THEN readContent[c] \cup {c} ELSE {})
  <2>1. CASE c \in Adds
    <3>1. c \notin readContent[c]
      BY <1>2, <2>1, PerformSetEffect DEF ContentInv, OwnAdds
    <3>2. read[c] \in Cart \cup {NoCart} /\ CartSumsUp(read[c], readContent[c])
      BY <1>2, <2>1 DEF TypeInv, SumInv
    <3>3. CartSumsUp(WithItem(read[c], UserOf[c], ItemOf[c]), readContent[c] \cup {c})
      BY <2>1, <3>1, <3>2, WithItemSumsUp
    <3> QED
      BY <2>1, <3>3 DEF ValueSet
  <2>2. CASE c \notin Adds
    BY <2>2, EmptyCartSumsUp DEF ValueSet
  <2> QED
    BY <2>1, <2>2
<1> DEFINE value == ValueSet(c)
           calls == IF c \in Adds THEN readContent[c] \cup {c} ELSE {}
<1>4. CartSumsUp(value, calls)
  BY <1>3
<1>5. /\ store'[UserOf[c]] = value /\ content'[UserOf[c]] = calls
      /\ \A u \in Users : u # UserOf[c] => store'[u] = store[u] /\ content'[u] = content[u]
  BY <1>1, <1>2 DEF TypeInv
<1> HIDE DEF value, calls
<1>6. \A u \in Users : CartSumsUp(store'[u], content'[u])
  BY <1>4, <1>5 DEF SumInv
<1>7. \A d \in Adds : CartSumsUp(read[d], readContent[d])
  BY DEF SumInv
<1> QED
  BY <1>1, <1>6, <1>7 DEF SumInv

LEMMA SumInvTick ==
    ASSUME IInv, SumInv, Tick PROVE SumInv'
<1> DEFINE over == {u \in Users : ttl[u] = 1}
<1>1. /\ store' = [u \in Users |-> IF u \in over THEN NoCart ELSE store[u]]
      /\ content' = [u \in Users |-> IF u \in over THEN {} ELSE content[u]]
      /\ read' = read /\ readContent' = readContent
  BY DEF Tick, callVars
<1> HIDE DEF over
<1>2. \A u \in Users : \/ store'[u] = NoCart /\ content'[u] = {}
                       \/ store'[u] = store[u] /\ content'[u] = content[u]
  BY <1>1
<1>3. \A u \in Users : CartSumsUp(store'[u], content'[u])
  BY <1>2, NoCartSumsUp DEF SumInv
<1>4. \A d \in Adds : CartSumsUp(read[d], readContent[d])
  BY DEF SumInv
<1> QED
  BY <1>1, <1>3, <1>4 DEF SumInv

LEMMA SumInvStep == ASSUME IInv, SumInv, [Next]_vars PROVE SumInv'
<1>1. ASSUME NEW c \in Calls, Refuse(c) \/ Step(c) \/ PerformExpire(c) \/ GiveUp(c)
      PROVE  UNCHANGED <<store, content, read, readContent>>
  BY <1>1 DEF Refuse, Step, HashGet, HashSet, KeyExpire, Send, PerformExpire, GiveUp, historyVars
<1>2. ASSUME ConnectionLost \/ ServiceDies
      PROVE  UNCHANGED <<store, content, read, readContent>>
  BY <1>2 DEF ConnectionLost, ServiceDies, Break, historyVars
<1>3. ASSUME UNCHANGED vars
      PROVE  UNCHANGED <<store, content, read, readContent>>
  BY <1>3 DEF vars, callVars, historyVars
<1>4. ASSUME NEW c \in Calls, Refuse(c) \/ Step(c) \/ Perform(c) \/ GiveUp(c)
      PROVE  SumInv'
  <2>1. CASE Refuse(c) \/ Step(c) \/ PerformExpire(c) \/ GiveUp(c)
    BY <1>1, <2>1, SumInvUnchanged
  <2>2. CASE PerformGet(c)
    BY <2>2, SumInvGet
  <2>3. CASE PerformSet(c)
    BY <2>3, SumInvSet
  <2> QED
    BY <1>4, <2>1, <2>2, <2>3 DEF Perform
<1> QED
  BY <1>2, <1>3, <1>4, SumInvUnchanged, SumInvTick DEF Next

LEMMA SumInvInit == ASSUME Init PROVE SumInv
<1>1. /\ \A u \in Users : store[u] = NoCart /\ content[u] = {}
      /\ \A d \in Adds : read[d] = NoCart /\ readContent[d] = {}
  BY DEF Init
<1> QED
  BY <1>1, NoCartSumsUp DEF SumInv

LEMMA QuantityIsTotal == \A u, p : QuantityAdded(u, p) = Total(OfProduct(content[u], p))
BY Zenon DEF QuantityAdded, Total, OfProduct

(***************************************************************************)
(* What the stored cart of a user holds is what the AddItem calls it is    *)
(* made of have added: each product once, with the sum of their            *)
(* quantities.  SumInv is what has to be carried along for it: it holds of *)
(* the carts the open AddItems have read, too.                             *)
(***************************************************************************)
THEOREM CartStoreSums == Spec => []CartIsSumOfAdds
<1>1. IInv /\ SumInv => CartIsSumOfAdds
  <2> SUFFICES ASSUME IInv, SumInv, NEW u \in Users
               PROVE  /\ \A c \in content[u] : UserOf[c] = u /\ c \in performed
                      /\ store[u] # NoCart =>
                            LET items == store[u].items
                            IN  /\ {items[i].product : i \in DOMAIN items}
                                       = {ItemOf[c].product : c \in content[u]}
                                /\ \A i, j \in DOMAIN items :
                                       items[i].product = items[j].product => i = j
                                /\ \A i \in DOMAIN items :
                                       items[i].quantity = QuantityAdded(u, items[i].product)
    BY Zenon DEF CartIsSumOfAdds
  <2>1. \A c \in content[u] : UserOf[c] = u /\ c \in performed
    BY DEF IInv, ContentInv, OwnAdds
  <2>2. ASSUME store[u] # NoCart
        PROVE  LET items == store[u].items
               IN  /\ {items[i].product : i \in DOMAIN items}
                          = {ItemOf[c].product : c \in content[u]}
                   /\ \A i, j \in DOMAIN items :
                          items[i].product = items[j].product => i = j
                   /\ \A i \in DOMAIN items :
                          items[i].quantity = QuantityAdded(u, items[i].product)
    <3> DEFINE items == store[u].items
               calls == content[u]
    <3>1. SumsUp(items, calls)
      BY <2>2 DEF SumInv, CartSumsUp
    <3>2. \A p : QuantityAdded(u, p) = Total(OfProduct(calls, p))
      BY QuantityIsTotal
    <3> HIDE DEF items, calls
    <3>3. {items[i].product : i \in DOMAIN items} = {ItemOf[c].product : c \in calls}
      <4>1. \A c \in calls : \E i \in DOMAIN items : items[i].product = ItemOf[c].product
        BY <3>1 DEF SumsUp
      <4>2. \A i \in DOMAIN items : \E c \in calls : ItemOf[c].product = items[i].product
        BY <3>1 DEF SumsUp, OfProduct
      <4> QED
        BY <4>1, <4>2
    <3>4. \A i, j \in DOMAIN items : items[i].product = items[j].product => i = j
      BY <3>1 DEF SumsUp
    <3>5. \A i \in DOMAIN items : items[i].quantity = QuantityAdded(u, items[i].product)
      BY <3>1, <3>2, Zenon DEF SumsUp
    <3> QED
      BY <3>3, <3>4, <3>5, Zenon DEF items, calls
  <2> QED
    BY <2>1, <2>2
<1>2. Spec => [](IInv /\ SumInv)
  BY CartStoreInvariant, SumInvInit, SumInvStep, PTL DEF Spec
<1> QED
  BY <1>1, <1>2, PTL

-----------------------------------------------------------------------------
(***************************************************************************)
(* The refinement.  Of the four guards of AddStatus one holds at most.     *)
(***************************************************************************)
LEMMA Status ==
    ASSUME NEW c \in Adds,
           ReadOpen(c) => c \notin performed /\ pc[c] \notin {"new", "getting"},
           c \in performed => pc[c] \notin {"new", "getting"}
    PROVE  AddStatus(c) = IF c \in performed THEN "added"
                          ELSE IF ReadOpen(c) THEN "read"
                          ELSE IF pc[c] \in {"new", "getting"} THEN "new"
                          ELSE "failed"
  BY DEF AddStatus

LEMMA StatusNow ==
    ASSUME IInv, NEW c \in Adds
    PROVE  /\ ReadOpen(c) => c \notin performed /\ pc[c] \notin {"new", "getting"}
           /\ c \in performed => pc[c] \notin {"new", "getting"}
           /\ AddStatus(c) = IF c \in performed THEN "added"
                             ELSE IF ReadOpen(c) THEN "read"
                             ELSE IF pc[c] \in {"new", "getting"} THEN "new"
                             ELSE "failed"
<1>1. c \in Calls
  BY Users_
<1>2. /\ ReadOpen(c) => c \notin performed /\ pc[c] \notin {"new", "getting"}
      /\ c \in performed => pc[c] \notin {"new", "getting"}
  BY <1>1, OpenIsSent DEF IInv, WireInv
<1> QED BY <1>2, Status

LEMMA StatusNext ==
    ASSUME IInv', NEW c \in Adds
    PROVE  AddStatus(c)' = IF c \in performed' THEN "added"
                           ELSE IF ReadOpen(c)' THEN "read"
                           ELSE IF pc'[c] \in {"new", "getting"} THEN "new"
                           ELSE "failed"
<1>1. c \in Calls
  BY Users_
<1>2. /\ ReadOpen(c)' => c \notin performed' /\ pc'[c] \notin {"new", "getting"}
      /\ c \in performed' => pc'[c] \notin {"new", "getting"}
  BY <1>1, OpenIsSentNext DEF IInv, WireInv
<1> QED BY <1>2 DEF AddStatus

statuses == [c \in Adds |-> AddStatus(c)]

LEMMA QuietImplements ==
    ASSUME IInv, IInv', Quiet
    PROVE  AsCalls!Next
<1> DEFINE failing == {c \in Adds : AddStatus(c)' # AddStatus(c)}
<1>1. UNCHANGED <<performed, content, readContent>>
      /\ \A d \in Adds : /\ ReadOpen(d)' => ReadOpen(d)
                         /\ pc'[d] \in {"new", "getting"} => pc[d] \in {"new", "getting"}
  BY DEF Quiet, historyVars
<1>2. ASSUME NEW c \in failing
      PROVE  AddStatus(c)' = "failed" /\ AddStatus(c) \in {"new", "read"}
  BY <1>1, <1>2, StatusNow, StatusNext
<1>3. statuses' = [c \in Adds |-> IF c \in failing THEN "failed" ELSE statuses[c]]
  <2> HIDE DEF failing
  <2>1. \A c \in Adds : AddStatus(c)' = IF c \in failing THEN "failed" ELSE AddStatus(c)
    BY <1>2 DEF failing
  <2> QED BY <2>1 DEF statuses
<1>4. \A c \in failing : statuses[c] \in {"new", "read"}
  BY <1>2 DEF statuses
<1> HIDE DEF failing
<1>5. failing \in SUBSET Adds
  BY DEF failing
<1>6. AsCalls!AddItemFail(failing)
  BY <1>1, <1>3, <1>4 DEF AsCalls!AddItemFail, statuses
<1> QED BY <1>5, <1>6 DEF AsCalls!Next

LEMMA ReadImplements ==
    ASSUME IInv, IInv', NEW c \in Calls, PerformGet(c)
    PROVE  AsCalls!Next
<1>1. CASE Quiet
  BY <1>1, QuietImplements
<1>2. CASE /\ c \in Adds /\ pc[c] = "getting" /\ pc' = [pc EXCEPT ![c] = "got"]
           /\ readContent' = [readContent EXCEPT ![c] = content[UserOf[c]]]
           /\ UNCHANGED <<performed, content>>
           /\ \A d \in Adds : d # c => (ReadOpen(d)' <=> ReadOpen(d))
           /\ ReadOpen(c)'
  <2>1. pc \in [Calls -> Steps]
    BY DEF IInv, TypeInv
  <2>2. AddStatus(c) = "new" /\ AddStatus(c)' = "read"
    BY <1>2, StatusNow, StatusNext
  <2>3. ASSUME NEW d \in Adds, d # c PROVE AddStatus(d)' = AddStatus(d)
    <3>1. pc'[d] = pc[d]
      BY <1>2, <2>1, <2>3, Users_
    <3> QED BY <1>2, <2>3, <3>1, StatusNow, StatusNext
  <2>4. statuses[c] = "new" /\ statuses' = [statuses EXCEPT ![c] = "read"]
    BY <1>2, <2>2, <2>3 DEF statuses
  <2>5. AsCalls!AddItemRead(c)
    BY <1>2, <2>4 DEF AsCalls!AddItemRead, statuses
  <2> QED BY <1>2, <2>5 DEF AsCalls!Next
<1> QED BY <1>1, <1>2, PerformGetStep

LEMMA WriteImplements ==
    ASSUME IInv, IInv', NEW c \in Calls, PerformSet(c)
    PROVE  AsCalls!Next
<1>1. /\ performed' = performed \cup {c} /\ c \notin performed
      /\ SetSent(c)
      /\ \A d \in Adds : d # c => pc'[d] = pc[d] /\ (ReadOpen(d)' <=> ReadOpen(d))
      /\ readContent' = readContent
      /\ content' = [content EXCEPT ![UserOf[c]] =
                        IF c \in Adds THEN readContent[c] \cup {c} ELSE {}]
  BY PerformSetEffect DEF PerformSet
<1>2. ASSUME NEW d \in Adds, d # c PROVE AddStatus(d)' = AddStatus(d)
  BY <1>1, <1>2, StatusNow, StatusNext
<1>3. CASE c \in Adds
  <2>1. AddStatus(c) = "read" /\ AddStatus(c)' = "added"
    BY <1>1, <1>3, OpenIsSent, StatusNow, StatusNext
  <2>2. statuses[c] = "read" /\ statuses' = [statuses EXCEPT ![c] = "added"]
    BY <1>2, <1>3, <2>1 DEF statuses
  <2>3. AsCalls!AddItemWrite(c)
    BY <1>1, <1>3, <2>2 DEF AsCalls!AddItemWrite, statuses
  <2> QED BY <1>3, <2>3 DEF AsCalls!Next
<1>4. CASE c \notin Adds
  <2>1. statuses' = statuses
    BY <1>2, <1>4 DEF statuses
  <2>2. content' = [u \in Users |-> IF u \in {UserOf[c]} THEN {} ELSE content[u]]
    BY <1>1, <1>4 DEF IInv, TypeInv
  <2>3. AsCalls!Clear({UserOf[c]})
    BY <1>1, <2>1, <2>2 DEF AsCalls!Clear, statuses
  <2>4. {UserOf[c]} \in SUBSET Users
    BY Users_
  <2> QED BY <2>3, <2>4 DEF AsCalls!Next
<1> QED BY <1>3, <1>4

LEMMA TickImplements ==
    ASSUME IInv, IInv', Tick
    PROVE  AsCalls!Next
<1> DEFINE over == {u \in Users : ttl[u] = 1}
<1>1. /\ content' = [u \in Users |-> IF u \in over THEN {} ELSE content[u]]
      /\ UNCHANGED <<pc, wire, performed, readContent>>
  BY DEF Tick, callVars
<1>2. over \in SUBSET Users
  OBVIOUS
<1> HIDE DEF over
<1>3. \A d \in Adds : AddStatus(d)' = AddStatus(d)
  <2>1. \A d \in Adds : ReadOpen(d)' <=> ReadOpen(d)
    BY <1>1 DEF ReadOpen
  <2> QED BY <1>1, <2>1, StatusNow, StatusNext
<1>4. statuses' = statuses
  BY <1>3 DEF statuses
<1>5. AsCalls!Clear(over)
  BY <1>1, <1>4 DEF AsCalls!Clear, statuses
<1> QED BY <1>2, <1>5 DEF AsCalls!Next

(***************************************************************************)
(* The cart service implements CartCalls: each of its steps is a read, a   *)
(* write, a failure or a clearing there, or leaves the carts as they are.  *)
(***************************************************************************)
THEOREM CartStoreImplementsCalls == Spec => CallsSpec
<1>1. Init => AsCalls!Init
  <2> SUFFICES ASSUME Init PROVE AsCalls!Init
    OBVIOUS
  <2>1. IInv /\ \A c \in Adds : c \notin performed /\ pc[c] = "new"
    BY IInvInit, Users_ DEF Init
  <2>2. \A c \in Adds : AddStatus(c) = "new"
    BY <2>1, StatusNow
  <2> QED BY <2>2 DEF Init, AsCalls!Init
<1>2. IInv /\ IInv' /\ [Next]_vars => [AsCalls!Next]_(AsCalls!vars)
  <2> SUFFICES ASSUME IInv, IInv', [Next]_vars PROVE [AsCalls!Next]_(AsCalls!vars)
    OBVIOUS
  <2>1. CASE Next
    BY <2>1, NextIsQuiet, QuietImplements, ReadImplements, WriteImplements, TickImplements
  <2>2. CASE UNCHANGED vars
    <3>1. UNCHANGED <<content, readContent>> /\ \A c \in Adds : AddStatus(c)' = AddStatus(c)
      BY <2>2 DEF vars, callVars, historyVars, AddStatus, ReadOpen
    <3> QED BY <3>1 DEF AsCalls!vars
  <2> QED BY <2>1, <2>2
<1> QED BY <1>1, <1>2, CartStoreInvariant, PTL DEF Spec, CallsSpec, AsCalls!Spec
=============================================================================
