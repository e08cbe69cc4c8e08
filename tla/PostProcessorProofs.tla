------------------------ MODULE PostProcessorProofs ------------------------
(***************************************************************************)
(* The proofs about the shared producer: types, and that messages and      *)
(* answers are conserved, for any number of orders and copies.             *)
(*                                                                         *)
(* AnswersConserved counts senders whose step says that they have sent; to *)
(* be inductive it needs that an order has logged nothing while it waits,  *)
(* so that no answer is counted twice, and that the goroutines of an order *)
(* have not started before it spawns them, so that none is started again.  *)
(***************************************************************************)
EXTENDS PostProcessor, FiniteSetTheorems, FunctionTheorems, SequenceTheorems, TLAPS

OrdersInv ==
    \A o \in Orders :
        /\ pc[Main(o)] \in {"idle", "sending", "waiting"} => outcome[o] = "none"
        /\ pc[Main(o)] = "sent" => outcome[o] \notin {"none", "unsent"}
        /\ pc[Main(o)] # "done" =>
              \A s \in Senders : s[1] = o /\ s # Main(o) => pc[s] = "idle"

SentInv ==
    \A o \in Orders : /\ IsFiniteSet(Sent(o))
                      /\ tried[o] + Underway(o) = Cardinality(Sent(o))

AnswersInv ==
    /\ IsFiniteSet(Waiting) /\ IsFiniteSet(Abandoned)
    /\ Cardinality(Waiting) + Cardinality(Abandoned) = Pending + drained

IInv == TypeOK /\ OrdersInv /\ SentInv /\ AnswersInv

-----------------------------------------------------------------------------
(***************************************************************************)
(* Counting the messages of an order in the queue.                         *)
(***************************************************************************)
Places(q, o) == {i \in DOMAIN q : q[i] = o}

LEMMA PlacesFinite ==
    ASSUME NEW q \in Seq(Orders), NEW o
    PROVE  IsFiniteSet(Places(q, o)) /\ Cardinality(Places(q, o)) \in Nat
<1>1. Len(q) \in Nat /\ DOMAIN q = 1 .. Len(q)
  BY LenProperties
<1>2. IsFiniteSet(1 .. Len(q)) /\ Places(q, o) \in SUBSET (1 .. Len(q))
  BY <1>1, FS_Interval DEF Places
<1>3. IsFiniteSet(Places(q, o))
  BY <1>2, FS_Subset
<1> QED BY <1>3, FS_CardinalityType

LEMMA PlacesOfAppend ==
    ASSUME NEW q \in Seq(Orders), NEW p \in Orders, NEW o \in Orders
    PROVE  Cardinality(Places(Append(q, p), o))
               = Cardinality(Places(q, o)) + IF p = o THEN 1 ELSE 0
<1> DEFINE n == Len(q) + 1
           longer == Append(q, p)
<1>1. Len(q) \in Nat /\ DOMAIN q = 1 .. Len(q)
  BY LenProperties
<1>2. /\ longer \in Seq(Orders) /\ Len(longer) = n
      /\ \A i \in 1 .. Len(q) : longer[i] = q[i]
      /\ longer[n] = p
  BY AppendProperties
<1>3. DOMAIN longer = 1 .. n
  BY <1>2, LenProperties
<1> HIDE DEF longer
<1>4. n \notin Places(q, o) /\ \A i : i \in 1 .. n <=> i \in 1 .. Len(q) \/ i = n
  BY <1>1 DEF Places
<1>5. Places(longer, o) = IF p = o THEN Places(q, o) \cup {n} ELSE Places(q, o)
  BY <1>1, <1>2, <1>3, <1>4 DEF Places
<1> HIDE DEF n
<1>6. IsFiniteSet(Places(q, o)) /\ Cardinality(Places(q, o)) \in Nat
  BY PlacesFinite
<1>7. Cardinality(Places(q, o) \cup {n}) = Cardinality(Places(q, o)) + 1
  BY <1>4, <1>6, FS_AddElement
<1>8. Cardinality(Places(longer, o)) = Cardinality(Places(q, o)) + IF p = o THEN 1 ELSE 0
  BY <1>5, <1>6, <1>7
<1> QED BY <1>8 DEF longer

\* The places of the tail are those of the queue but the first, one lower.
LEMMA PlacesOfTail ==
    ASSUME NEW q \in Seq(Orders), q # <<>>, NEW o \in Orders
    PROVE  Cardinality(Places(q, o))
               = Cardinality(Places(Tail(q), o)) + IF Head(q) = o THEN 1 ELSE 0
<1> DEFINE n == Len(q)
           rest == Places(Tail(q), o)
           later == Places(q, o) \ {1}
           up == [i \in rest |-> i + 1]
<1>1. n \in Nat /\ DOMAIN q = 1 .. n /\ n # 0 /\ Head(q) = q[1]
  BY LenProperties, EmptySeq
<1>2. /\ Tail(q) \in Seq(Orders) /\ Len(Tail(q)) = n - 1
      /\ \A i \in 1 .. n - 1 : Tail(q)[i] = q[i + 1]
  BY HeadTailProperties
<1>3. DOMAIN Tail(q) = 1 .. n - 1
  BY <1>2, LenProperties
<1>4. \A i : i \in rest <=> i \in 1 .. n - 1 /\ q[i + 1] = o
  BY <1>2, <1>3 DEF Places
<1>5. \A i : i \in later <=> i \in 2 .. n /\ q[i] = o
  BY <1>1 DEF Places
<1> HIDE DEF n, rest, later
<1>6. up \in [rest -> later]
  <2>1. \A i \in rest : i + 1 \in later
    BY <1>1, <1>4, <1>5
  <2> QED BY <2>1
<1>7. \A a, b \in rest : up[a] = up[b] => a = b
  <2>1. \A a \in rest : a \in Nat /\ up[a] = a + 1
    BY <1>1, <1>4
  <2> QED BY <2>1
<1>8. \A t \in later : \E i \in rest : up[i] = t
  <2> SUFFICES ASSUME NEW t \in later PROVE \E i \in rest : up[i] = t
    OBVIOUS
  <2>1. t - 1 \in rest /\ (t - 1) + 1 = t
    BY <1>1, <1>4, <1>5
  <2>2. up[t - 1] = t
    BY <2>1
  <2> QED BY <2>1, <2>2
<1>9. up \in Bijection(rest, later)
  BY <1>6, <1>7, <1>8, Fun_IsBij
<1>10. IsFiniteSet(rest)
  BY <1>2, PlacesFinite DEF rest
<1>11. Cardinality(later) = Cardinality(rest)
  BY <1>9, <1>10, FS_Bijection DEF ExistsBijection
<1>12. /\ IsFiniteSet(Places(q, o)) /\ Cardinality(Places(q, o)) \in Nat
       /\ 1 \in Places(q, o) <=> Head(q) = o
  <2>1. 1 \in DOMAIN q
    BY <1>1
  <2>2. 1 \in Places(q, o) <=> Head(q) = o
    BY <1>1, <2>1 DEF Places
  <2> QED BY <2>2, PlacesFinite
<1>13. Cardinality(later) = IF Head(q) = o THEN Cardinality(Places(q, o)) - 1
                            ELSE Cardinality(Places(q, o))
  BY <1>12, FS_RemoveElement DEF later
<1>14. Cardinality(rest) \in Nat
  BY <1>10, FS_CardinalityType
<1>15. Cardinality(Places(q, o)) = Cardinality(rest) + IF Head(q) = o THEN 1 ELSE 0
  BY <1>11, <1>12, <1>13, <1>14
<1> QED BY <1>15 DEF rest

LEMMA UnderwayIsPlaces ==
    /\ \A o : Underway(o) = Cardinality(Places(queue, o))
    /\ \A o : Underway(o)' = Cardinality(Places(queue', o))
  BY DEF Underway, Places

-----------------------------------------------------------------------------
LEMMA Shapes ==
    /\ \A o \in Orders : Main(o) \in Senders /\ Main(o)[1] = o /\ Main(o)[2] = 0
    /\ \A s \in Senders : s[1] \in Orders /\ (s[2] = 0 => s = Main(s[1]))
    /\ \A o, p \in Orders : Main(o) = Main(p) => o = p
    /\ \A kind \in {"success", "error"}, o \in Orders :
          Offer(kind, o).kind = kind /\ Offer(kind, o) # NoOffer
    /\ NoOffer.kind = "none"
  BY DEF Main, Senders, Offer, NoOffer

(***************************************************************************)
(* A step that moves senders between steps that count alike changes none   *)
(* of the sets that are counted.                                           *)
(***************************************************************************)
LEMMA SentKept ==
    ASSUME SentInv, UNCHANGED <<queue, tried>>,
           \A o \in Orders : Sent(o)' = Sent(o)
    PROVE  SentInv'
  BY UnderwayIsPlaces DEF SentInv

LEMMA AnswersKept ==
    ASSUME AnswersInv, UNCHANGED <<queue, offered, drained>>,
           Waiting' = Waiting, Abandoned' = Abandoned
    PROVE  AnswersInv'
  BY DEF AnswersInv, Pending

\* One sender moves on.
LEMMA OneMoves ==
    ASSUME TypeOK, NEW s \in Senders, NEW step, GoTo(s, step)
    PROVE  pc'[s] = step /\ \A r \in Senders : r # s => pc'[r] = pc[r]
  BY DEF GoTo, TypeOK

LEMMA BeginStep == ASSUME IInv, NEW o \in Orders, Begin(o) PROVE IInv'
<1>1. /\ pc[Main(o)] = "idle" /\ GoTo(Main(o), "sending")
      /\ UNCHANGED <<outcome, queue, offered, drained, tried>>
      /\ TypeOK /\ OrdersInv /\ SentInv /\ AnswersInv
  BY DEF Begin, IInv
<1>2. pc'[Main(o)] = "sending" /\ \A r \in Senders : r # Main(o) => pc'[r] = pc[r]
  BY <1>1, OneMoves, Shapes
<1>3. TypeOK'
  BY <1>1 DEF TypeOK, GoTo
<1>4. OrdersInv'
  BY <1>1, <1>2, Shapes DEF OrdersInv
<1>5. \A p \in Orders : Sent(p)' = Sent(p)
  BY <1>1, <1>2 DEF Sent
<1>6. Waiting' = Waiting /\ Abandoned' = Abandoned
  BY <1>1, <1>2 DEF Waiting, Abandoned
<1> QED BY <1>1, <1>3, <1>4, <1>5, <1>6, SentKept, AnswersKept DEF IInv

LEMMA CancelSendStep == ASSUME IInv, NEW o \in Orders, CancelSend(o) PROVE IInv'
<1>1. /\ pc[Main(o)] = "sending" /\ GoTo(Main(o), "done")
      /\ outcome' = [outcome EXCEPT ![o] = "unsent"]
      /\ UNCHANGED <<queue, offered, drained, tried>>
      /\ TypeOK /\ OrdersInv /\ SentInv /\ AnswersInv
  BY DEF CancelSend, IInv
<1>2. pc'[Main(o)] = "done" /\ \A r \in Senders : r # Main(o) => pc'[r] = pc[r]
  BY <1>1, OneMoves, Shapes
<1>3. outcome[o] = "none" /\ outcome'[o] = "unsent"
      /\ \A p \in Orders : p # o => outcome'[p] = outcome[p]
  BY <1>1 DEF OrdersInv, TypeOK
<1>4. TypeOK'
  BY <1>1 DEF TypeOK, GoTo
<1>5. OrdersInv'
  BY <1>1, <1>2, <1>3, Shapes DEF OrdersInv
<1>6. \A p \in Orders : Sent(p)' = Sent(p)
  <2>1. ASSUME NEW p \in Orders, NEW s \in Senders PROVE s \in Sent(p)' <=> s \in Sent(p)
    BY <1>1, <1>2, <1>3, Shapes DEF Sent
  <2> QED BY <2>1 DEF Sent
<1>7. Waiting' = Waiting /\ Abandoned' = Abandoned
  BY <1>1, <1>2, <1>3 DEF Waiting, Abandoned
<1> QED BY <1>1, <1>4, <1>5, <1>6, <1>7, SentKept, AnswersKept DEF IInv

\* An answer goes to an order: one waits less, and one answer less is to come.
LEMMA ReceiveAnswerStep == ASSUME IInv, NEW o \in Orders, ReceiveAnswer(o) PROVE IInv'
<1>1. /\ pc[Main(o)] = "waiting" /\ GoTo(Main(o), "sent") /\ drained' = drained
      /\ TypeOK /\ OrdersInv /\ SentInv /\ AnswersInv
  BY DEF ReceiveAnswer, IInv
<1>2. PICK kind \in {"success", "error"} :
          Receive(kind) /\ outcome' = [outcome EXCEPT ![o] = kind]
  BY DEF ReceiveAnswer
<1>3. /\ offered # NoOffer /\ offered' = NoOffer /\ UNCHANGED <<queue, tried>>
  BY <1>2, Shapes DEF Receive
<1>4. pc'[Main(o)] = "sent" /\ \A r \in Senders : r # Main(o) => pc'[r] = pc[r]
  BY <1>1, OneMoves, Shapes
<1>5. outcome[o] = "none" /\ outcome'[o] = kind
      /\ \A p \in Orders : p # o => outcome'[p] = outcome[p]
  BY <1>1, <1>2 DEF OrdersInv, TypeOK
<1>6. TypeOK'
  BY <1>1, <1>2, <1>3 DEF TypeOK, GoTo
<1>7. OrdersInv'
  BY <1>1, <1>4, <1>5, Shapes DEF OrdersInv
<1>8. \A p \in Orders : Sent(p)' = Sent(p)
  <2>1. ASSUME NEW p \in Orders, NEW s \in Senders PROVE s \in Sent(p)' <=> s \in Sent(p)
    BY <1>1, <1>4, <1>5, Shapes DEF Sent
  <2> QED BY <2>1 DEF Sent
<1>9. Waiting' = Waiting \ {Main(o)} /\ Main(o) \in Waiting /\ Abandoned' = Abandoned
  BY <1>1, <1>4, <1>5, Shapes DEF Waiting, Abandoned
<1>10. AnswersInv'
  <2>1. IsFiniteSet(Waiting') /\ Cardinality(Waiting') = Cardinality(Waiting) - 1
    BY <1>1, <1>9, FS_RemoveElement DEF AnswersInv
  <2>2. Cardinality(Waiting) \in Nat /\ Cardinality(Abandoned) \in Nat
    BY <1>1, FS_CardinalityType DEF AnswersInv
  <2>3. Len(queue) \in Nat /\ drained \in Nat
    BY <1>1 DEF TypeOK
  <2>4. Pending = Len(queue) + 1 /\ Pending' = Len(queue) + 0
    BY <1>3 DEF Pending
  <2>5. Cardinality(Waiting') + Cardinality(Abandoned') = Pending' + drained'
    BY <1>1, <1>9, <2>1, <2>2, <2>3, <2>4 DEF AnswersInv
  <2> QED BY <1>1, <1>9, <2>1, <2>5 DEF AnswersInv
<1> QED BY <1>1, <1>3, <1>6, <1>7, <1>8, <1>10, SentKept DEF IInv

\* A message is handed over: one more underway, one more that waits.
LEMMA SendStep == ASSUME IInv, NEW s \in Senders, Send(s) PROVE IInv'
<1>1. /\ pc[s] = "sending" /\ GoTo(s, "waiting")
      /\ Len(queue) < Capacity /\ queue' = Append(queue, s[1])
      /\ UNCHANGED <<outcome, offered, drained, tried>>
      /\ TypeOK /\ OrdersInv /\ SentInv /\ AnswersInv
  BY DEF Send, IInv
<1>2. pc'[s] = "waiting" /\ \A r \in Senders : r # s => pc'[r] = pc[r]
  BY <1>1, OneMoves
<1>3. s[1] \in Orders /\ (s[2] = 0 => s = Main(s[1]))
  BY Shapes
<1>4. /\ queue \in Seq(Orders) /\ queue' \in Seq(Orders)
      /\ Len(queue) \in Nat /\ Len(queue') = Len(queue) + 1
  BY <1>1, <1>3, AppendProperties, LenProperties DEF TypeOK
<1>5. TypeOK'
  <2>1. pc' \in [Senders -> {"idle", "sending", "waiting", "sent", "done"}]
    BY <1>1 DEF TypeOK, GoTo
  <2>2. Len(queue') <= Capacity
    BY <1>1, <1>4, PostProcessorAssumption
  <2> QED BY <1>1, <1>4, <2>1, <2>2 DEF TypeOK
<1>6. OrdersInv'
  BY <1>1, <1>2, Shapes DEF OrdersInv
<1>7. /\ Sent(s[1])' = Sent(s[1]) \cup {s} /\ s \notin Sent(s[1])
      /\ \A p \in Orders : p # s[1] => Sent(p)' = Sent(p)
  <2>1. s = Main(s[1]) => outcome[s[1]] = "none"
    BY <1>1, <1>3 DEF OrdersInv
  <2>2. ASSUME NEW p \in Orders, NEW r \in Senders
        PROVE  r \in Sent(p)' <=> r \in Sent(p) \/ (r = s /\ p = s[1])
    <3>1. CASE r = s
      BY <1>1, <1>2, <1>3, <2>1, <3>1 DEF Sent
    <3>2. CASE r # s
      BY <1>1, <1>2, <3>2 DEF Sent
    <3> QED BY <3>1, <3>2
  <2>3. s \notin Sent(s[1])
    BY <1>1 DEF Sent
  <2>4. \A p \in Orders : Sent(p) \subseteq Senders /\ Sent(p)' \subseteq Senders
    BY DEF Sent
  <2>5. \A p \in Orders : p # s[1] => Sent(p)' = Sent(p)
    BY <2>2, <2>4
  <2>6. Sent(s[1])' = Sent(s[1]) \cup {s}
    BY <1>3, <2>2, <2>4
  <2> QED BY <2>3, <2>5, <2>6
<1>8. SentInv'
  <2> SUFFICES ASSUME NEW p \in Orders
               PROVE  /\ IsFiniteSet(Sent(p)')
                      /\ tried'[p] + Underway(p)' = Cardinality(Sent(p)')
    BY DEF SentInv
  <2>1. Underway(p)' = Underway(p) + IF s[1] = p THEN 1 ELSE 0
    BY <1>1, <1>3, <1>4, PlacesOfAppend, UnderwayIsPlaces
  <2>2. IsFiniteSet(Sent(p)) /\ tried[p] + Underway(p) = Cardinality(Sent(p))
    BY <1>1 DEF SentInv
  <2>3. Underway(p) \in Nat /\ tried[p] \in Nat /\ tried'[p] = tried[p]
    BY <1>1, <1>4, PlacesFinite, UnderwayIsPlaces DEF TypeOK
  <2>4. CASE p = s[1]
    <3>1. IsFiniteSet(Sent(p)') /\ Cardinality(Sent(p)') = Cardinality(Sent(p)) + 1
      BY <1>7, <2>2, <2>4, FS_AddElement
    <3> QED BY <2>1, <2>2, <2>3, <2>4, <3>1
  <2>5. CASE p # s[1]
    BY <1>7, <2>1, <2>2, <2>3, <2>5
  <2> QED BY <2>4, <2>5
<1>9. Waiting' = Waiting \cup {s} /\ s \notin Waiting /\ Abandoned' = Abandoned
  <2>1. \A r \in Senders : r \in Waiting' <=> r \in Waiting \/ r = s
    BY <1>2 DEF Waiting
  <2>2. Waiting \subseteq Senders /\ Waiting' \subseteq Senders
    BY DEF Waiting
  <2>3. Waiting' = Waiting \cup {s}
    BY <2>1, <2>2
  <2> QED BY <1>1, <2>3 DEF Waiting, Abandoned
<1>10. AnswersInv'
  <2>1. IsFiniteSet(Waiting') /\ Cardinality(Waiting') = Cardinality(Waiting) + 1
    BY <1>1, <1>9, FS_AddElement DEF AnswersInv
  <2>2. Cardinality(Waiting) \in Nat /\ Cardinality(Abandoned) \in Nat
    BY <1>1, FS_CardinalityType DEF AnswersInv
  <2>3. drained \in Nat /\ drained' = drained
    BY <1>1 DEF TypeOK
  <2>4. Pending \in Nat /\ Pending' = Pending + 1
    BY <1>1, <1>4 DEF Pending
  <2>5. Cardinality(Waiting') + Cardinality(Abandoned') = Pending' + drained'
    BY <1>1, <1>9, <2>1, <2>2, <2>3, <2>4 DEF AnswersInv
  <2> QED BY <1>1, <1>9, <2>1, <2>5 DEF AnswersInv
<1> QED BY <1>5, <1>6, <1>8, <1>10 DEF IInv

\* An order stops waiting: the answer to come is one that nobody waits for.
LEMMA CancelWaitStep == ASSUME IInv, NEW o \in Orders, CancelWait(o) PROVE IInv'
<1>1. /\ pc[Main(o)] = "waiting" /\ GoTo(Main(o), "sent")
      /\ outcome' = [outcome EXCEPT ![o] = "cancelled"]
      /\ UNCHANGED <<queue, offered, drained, tried>>
      /\ TypeOK /\ OrdersInv /\ SentInv /\ AnswersInv
  BY DEF CancelWait, IInv
<1>2. pc'[Main(o)] = "sent" /\ \A r \in Senders : r # Main(o) => pc'[r] = pc[r]
  BY <1>1, OneMoves, Shapes
<1>3. outcome[o] = "none" /\ outcome'[o] = "cancelled"
      /\ \A p \in Orders : p # o => outcome'[p] = outcome[p]
  BY <1>1 DEF OrdersInv, TypeOK
<1>4. TypeOK'
  BY <1>1 DEF TypeOK, GoTo
<1>5. OrdersInv'
  BY <1>1, <1>2, <1>3, Shapes DEF OrdersInv
<1>6. \A p \in Orders : Sent(p)' = Sent(p)
  <2>1. ASSUME NEW p \in Orders, NEW s \in Senders PROVE s \in Sent(p)' <=> s \in Sent(p)
    BY <1>1, <1>2, <1>3, Shapes DEF Sent
  <2> QED BY <2>1 DEF Sent
<1>7. Waiting' = Waiting \ {Main(o)} /\ Main(o) \in Waiting
  BY <1>1, <1>2, Shapes DEF Waiting
<1>8. Abandoned' = Abandoned \cup {o} /\ o \notin Abandoned
  <2>1. \A p \in Orders : p \in Abandoned' <=> p \in Abandoned \/ p = o
    BY <1>3 DEF Abandoned
  <2>2. Abandoned \subseteq Orders /\ Abandoned' \subseteq Orders
    BY DEF Abandoned
  <2>3. o \notin Abandoned
    BY <1>3 DEF Abandoned
  <2> QED BY <2>1, <2>2, <2>3
<1>9. AnswersInv'
  <2>1. IsFiniteSet(Waiting') /\ Cardinality(Waiting') = Cardinality(Waiting) - 1
    BY <1>1, <1>7, FS_RemoveElement DEF AnswersInv
  <2>2. IsFiniteSet(Abandoned') /\ Cardinality(Abandoned') = Cardinality(Abandoned) + 1
    BY <1>1, <1>8, FS_AddElement DEF AnswersInv
  <2>3. Cardinality(Waiting) \in Nat /\ Cardinality(Abandoned) \in Nat
    BY <1>1, FS_CardinalityType DEF AnswersInv
  <2>4. Pending' = Pending /\ drained' = drained
    BY <1>1 DEF Pending
  <2>5. Cardinality(Waiting') + Cardinality(Abandoned') = Pending' + drained'
    BY <1>1, <2>1, <2>2, <2>3, <2>4 DEF AnswersInv
  <2> QED BY <2>1, <2>2, <2>5 DEF AnswersInv
<1> QED BY <1>1, <1>4, <1>5, <1>6, <1>9, SentKept DEF IInv

\* The order's goroutines, idle until now, start to send; it is done.
LEMMA OverloadStep == ASSUME IInv, NEW o \in Orders, Overload(o) PROVE IInv'
<1>1. /\ pc[Main(o)] = "sent"
      /\ UNCHANGED <<outcome, queue, offered, drained, tried>>
      /\ TypeOK /\ OrdersInv /\ SentInv /\ AnswersInv
  BY DEF Overload, IInv
<1>2. PICK n \in Overloads :
          pc' = [s \in Senders |->
                    IF s = Main(o) THEN "done"
                    ELSE IF s \in {o} \X (1..n) THEN "sending"
                    ELSE pc[s]]
  BY DEF Overload
<1> DEFINE new == {o} \X (1..n)
<1>3. \A s \in new : s[1] = o /\ s # Main(o)
  <2>1. n \in Nat
    BY PostProcessorAssumption
  <2> QED BY <2>1 DEF Main
<1>4. /\ pc'[Main(o)] = "done"
      /\ \A s \in Senders : s # Main(o) /\ s \in new => pc'[s] = "sending"
      /\ \A s \in Senders : s # Main(o) /\ s \notin new => pc'[s] = pc[s]
  BY <1>2, Shapes
<1>5. \A s \in Senders : s \in new => pc[s] = "idle"
  BY <1>1, <1>3 DEF OrdersInv
<1>6. TypeOK'
  <2>1. pc' \in [Senders -> {"idle", "sending", "waiting", "sent", "done"}]
    BY <1>1, <1>2 DEF TypeOK
  <2> QED BY <1>1, <2>1 DEF TypeOK
<1>7. \A p \in Orders : p # o => Main(p) \notin new /\ Main(p) # Main(o)
  BY <1>3, Shapes
<1> HIDE DEF new
<1>8. OrdersInv'
  <2> SUFFICES ASSUME NEW p \in Orders, p # o
               PROVE /\ pc'[Main(p)] \in {"idle", "sending", "waiting"} => outcome[p] = "none"
                     /\ pc'[Main(p)] = "sent" => outcome[p] \notin {"none", "unsent"}
                     /\ pc'[Main(p)] # "done" =>
                           \A s \in Senders : s[1] = p /\ s # Main(p) => pc'[s] = "idle"
    BY <1>1, <1>4 DEF OrdersInv
  <2>1. pc'[Main(p)] = pc[Main(p)]
    BY <1>4, <1>7, Shapes
  <2>2. \A s \in Senders : s[1] = p => pc'[s] = pc[s]
    BY <1>3, <1>4, Shapes
  <2> QED BY <1>1, <2>1, <2>2 DEF OrdersInv
<1>9. \A p \in Orders : Sent(p)' = Sent(p)
  <2>1. ASSUME NEW p \in Orders, NEW s \in Senders PROVE s \in Sent(p)' <=> s \in Sent(p)
    <3>1. CASE s = Main(o)
      BY <1>1, <1>4, <3>1 DEF Sent
    <3>2. CASE s # Main(o) /\ s \in new
      BY <1>1, <1>4, <1>5, <3>2 DEF Sent
    <3>3. CASE s # Main(o) /\ s \notin new
      BY <1>1, <1>4, <3>3 DEF Sent
    <3> QED BY <3>1, <3>2, <3>3
  <2> QED BY <2>1 DEF Sent
<1>10. Waiting' = Waiting /\ Abandoned' = Abandoned
  <2>1. ASSUME NEW s \in Senders PROVE pc'[s] = "waiting" <=> pc[s] = "waiting"
    BY <1>1, <1>4, <1>5
  <2> QED BY <1>1, <2>1 DEF Waiting, Abandoned
<1> QED BY <1>1, <1>6, <1>8, <1>9, <1>10, SentKept, AnswersKept DEF IInv

\* An answer goes to a copy.
LEMMA ReceiveSuccessStep == ASSUME IInv, NEW s \in Senders, ReceiveSuccess(s) PROVE IInv'
<1>1. /\ s[2] # 0 /\ pc[s] = "waiting" /\ GoTo(s, "done")
      /\ Receive("success") /\ UNCHANGED <<outcome, drained>>
      /\ TypeOK /\ OrdersInv /\ SentInv /\ AnswersInv
  BY DEF ReceiveSuccess, IInv
<1>2. offered # NoOffer /\ offered' = NoOffer /\ UNCHANGED <<queue, tried>>
  BY <1>1, Shapes DEF Receive
<1>3. pc'[s] = "done" /\ \A r \in Senders : r # s => pc'[r] = pc[r]
  BY <1>1, OneMoves
<1>4. \A p \in Orders : s # Main(p)
  BY <1>1, Shapes
<1>5. TypeOK'
  BY <1>1, <1>2 DEF TypeOK, GoTo
<1>6. OrdersInv'
  BY <1>1, <1>3, <1>4, Shapes DEF OrdersInv
<1>7. \A p \in Orders : Sent(p)' = Sent(p)
  <2>1. ASSUME NEW p \in Orders, NEW r \in Senders PROVE r \in Sent(p)' <=> r \in Sent(p)
    BY <1>1, <1>3, <1>4 DEF Sent
  <2> QED BY <2>1 DEF Sent
<1>8. Waiting' = Waiting \ {s} /\ s \in Waiting /\ Abandoned' = Abandoned
  BY <1>1, <1>3 DEF Waiting, Abandoned
<1>9. AnswersInv'
  <2>1. IsFiniteSet(Waiting') /\ Cardinality(Waiting') = Cardinality(Waiting) - 1
    BY <1>1, <1>8, FS_RemoveElement DEF AnswersInv
  <2>2. Cardinality(Waiting) \in Nat /\ Cardinality(Abandoned) \in Nat
    BY <1>1, FS_CardinalityType DEF AnswersInv
  <2>3. Len(queue) \in Nat /\ drained \in Nat
    BY <1>1 DEF TypeOK
  <2>4. Pending = Len(queue) + 1 /\ Pending' = Len(queue) + 0
    BY <1>2 DEF Pending
  <2>5. Cardinality(Waiting') + Cardinality(Abandoned') = Pending' + drained'
    BY <1>1, <1>8, <2>1, <2>2, <2>3, <2>4 DEF AnswersInv
  <2> QED BY <1>1, <1>8, <2>1, <2>5 DEF AnswersInv
<1> QED BY <1>1, <1>2, <1>5, <1>6, <1>7, <1>9, SentKept DEF IInv

\* The logging goroutine takes an answer somebody may wait for.
LEMMA DrainErrorStep == ASSUME IInv, DrainError PROVE IInv'
<1>1. /\ Receive("error") /\ drained' = drained + 1 /\ UNCHANGED <<pc, outcome>>
      /\ TypeOK /\ OrdersInv /\ SentInv /\ AnswersInv
  BY DEF DrainError, IInv
<1>2. offered # NoOffer /\ offered' = NoOffer /\ UNCHANGED <<queue, tried>>
  BY <1>1, Shapes DEF Receive
<1>3. TypeOK'
  BY <1>1, <1>2 DEF TypeOK
<1>4. OrdersInv'
  BY <1>1 DEF OrdersInv
<1>5. \A p \in Orders : Sent(p)' = Sent(p)
  BY <1>1 DEF Sent
<1>6. AnswersInv'
  <2>1. Waiting' = Waiting /\ Abandoned' = Abandoned
    BY <1>1 DEF Waiting, Abandoned
  <2>2. Len(queue) \in Nat /\ drained \in Nat
    BY <1>1 DEF TypeOK
  <2>3. Pending = Len(queue) + 1 /\ Pending' = Len(queue) + 0
    BY <1>2 DEF Pending
  <2>4. Pending + drained = Pending' + drained'
    BY <1>1, <2>2, <2>3
  <2> QED BY <1>1, <2>1, <2>4 DEF AnswersInv
<1> QED BY <1>1, <1>2, <1>3, <1>4, <1>5, <1>6, SentKept DEF IInv

\* The producer tries the first message: from the queue to the answer offered.
LEMMA ProduceStep == ASSUME IInv, Produce PROVE IInv'
<1>1. /\ offered = NoOffer /\ queue # <<>> /\ queue' = Tail(queue)
      /\ tried' = [tried EXCEPT ![Head(queue)] = @ + 1]
      /\ UNCHANGED <<pc, outcome, drained>>
      /\ TypeOK /\ OrdersInv /\ SentInv /\ AnswersInv
  BY DEF Produce, IInv
<1>2. PICK kind \in {"success", "error"} : offered' = Offer(kind, Head(queue))
  BY DEF Produce
<1>3. /\ queue \in Seq(Orders) /\ queue' \in Seq(Orders) /\ Head(queue) \in Orders
      /\ Len(queue) \in Nat /\ Len(queue') = Len(queue) - 1
  BY <1>1, HeadTailProperties, LenProperties DEF TypeOK
<1>4. offered' # NoOffer
  BY <1>2, <1>3, Shapes
<1>5. TypeOK'
  <2>1. Len(queue') <= Capacity
    BY <1>1, <1>3, PostProcessorAssumption DEF TypeOK
  <2>2. tried' \in [Orders -> Nat]
    BY <1>1 DEF TypeOK
  <2>3. \E k \in {"success", "error"}, o \in Orders : offered' = Offer(k, o)
    BY <1>2, <1>3
  <2> QED BY <1>1, <1>3, <2>1, <2>2, <2>3 DEF TypeOK
<1>6. OrdersInv'
  BY <1>1 DEF OrdersInv
<1>7. SentInv'
  <2> SUFFICES ASSUME NEW p \in Orders
               PROVE  /\ IsFiniteSet(Sent(p)')
                      /\ tried'[p] + Underway(p)' = Cardinality(Sent(p)')
    BY DEF SentInv
  <2>1. Sent(p)' = Sent(p)
    BY <1>1 DEF Sent
  <2>2. Underway(p) = Underway(p)' + IF Head(queue) = p THEN 1 ELSE 0
    BY <1>1, <1>3, PlacesOfTail, UnderwayIsPlaces
  <2>3. tried[p] \in Nat /\ tried'[p] = tried[p] + IF Head(queue) = p THEN 1 ELSE 0
    BY <1>1 DEF TypeOK
  <2>4. Underway(p)' \in Nat
    BY <1>3, PlacesFinite, UnderwayIsPlaces
  <2>5. tried'[p] + Underway(p)' = tried[p] + Underway(p)
    BY <2>2, <2>3, <2>4
  <2> QED BY <1>1, <2>1, <2>5 DEF SentInv
<1>8. AnswersInv'
  <2>1. Waiting' = Waiting /\ Abandoned' = Abandoned
    BY <1>1 DEF Waiting, Abandoned
  <2>2. Pending' = Pending
    BY <1>1, <1>3, <1>4 DEF Pending
  <2> QED BY <1>1, <2>1, <2>2 DEF AnswersInv
<1> QED BY <1>5, <1>6, <1>7, <1>8 DEF IInv

-----------------------------------------------------------------------------
LEMMA InitIInv == ASSUME Init PROVE IInv
<1>1. TypeOK
  <2>1. /\ <<>> \in Seq(Orders) /\ Len(<<>>) = 0 /\ Capacity \in Nat
    BY PostProcessorAssumption
  <2> QED BY <2>1 DEF Init, TypeOK
<1>2. OrdersInv
  BY Shapes DEF Init, OrdersInv
<1>3. SentInv
  <2> SUFFICES ASSUME NEW o \in Orders
               PROVE IsFiniteSet(Sent(o)) /\ tried[o] + Underway(o) = Cardinality(Sent(o))
    BY DEF SentInv
  <2>1. Sent(o) = {}
    BY DEF Init, Sent
  <2>2. Places(queue, o) = {}
    BY DEF Init, Places
  <2>3. Underway(o) = 0 /\ tried[o] = 0
    BY <2>2, UnderwayIsPlaces, FS_EmptySet DEF Init
  <2> QED BY <2>1, <2>3, FS_EmptySet
<1>4. AnswersInv
  <2>1. Waiting = {} /\ Abandoned = {}
    BY DEF Init, Waiting, Abandoned
  <2>2. Pending = 0 /\ drained = 0
    BY DEF Init, Pending
  <2> QED BY <2>1, <2>2, FS_EmptySet DEF AnswersInv
<1> QED BY <1>1, <1>2, <1>3, <1>4 DEF IInv

LEMMA NextIInv == ASSUME IInv, [Next]_vars PROVE IInv'
<1>1. ASSUME NEW o \in Orders, Begin(o) PROVE IInv'
  BY <1>1, BeginStep
<1>2. ASSUME NEW o \in Orders, CancelSend(o) PROVE IInv'
  BY <1>2, CancelSendStep
<1>3. ASSUME NEW o \in Orders, ReceiveAnswer(o) PROVE IInv'
  BY <1>3, ReceiveAnswerStep
<1>4. ASSUME NEW o \in Orders, CancelWait(o) PROVE IInv'
  BY <1>4, CancelWaitStep
<1>5. ASSUME NEW o \in Orders, Overload(o) PROVE IInv'
  BY <1>5, OverloadStep
<1>6. ASSUME NEW s \in Senders, Send(s) PROVE IInv'
  BY <1>6, SendStep
<1>7. ASSUME NEW s \in Senders, ReceiveSuccess(s) PROVE IInv'
  BY <1>7, ReceiveSuccessStep
<1>8. ASSUME UNCHANGED vars PROVE IInv'
  <2>1. TypeOK' /\ OrdersInv'
    BY <1>8 DEF IInv, TypeOK, OrdersInv, vars
  <2>2. \A p \in Orders : Sent(p)' = Sent(p)
    BY <1>8 DEF Sent, vars
  <2>3. Waiting' = Waiting /\ Abandoned' = Abandoned
    BY <1>8 DEF Waiting, Abandoned, vars
  <2> QED BY <1>8, <2>1, <2>2, <2>3, SentKept, AnswersKept DEF IInv, vars
<1> QED
  BY <1>1, <1>2, <1>3, <1>4, <1>5, <1>6, <1>7, <1>8, DrainErrorStep, ProduceStep DEF Next

(***************************************************************************)
(* The inductive invariant of sendToPostProcessor and its shared producer  *)
(* (main.go:502-586, producer.go:20-46) holds in every reachable state.    *)
(***************************************************************************)
THEOREM PostProcessorInvariant == Spec => []IInv
<1>1. Init => IInv
  BY InitIInv
<1>2. IInv /\ [Next]_vars => IInv'
  BY NextIInv
<1> QED BY <1>1, <1>2, PTL DEF Spec

(***************************************************************************)
(* TypeOK: the steps, logs and answers are of their types, and the         *)
(* producer never holds more than Capacity messages (main.go:526).         *)
(***************************************************************************)
THEOREM PostProcessorTypeCorrect == Spec => []TypeOK
<1>1. IInv => TypeOK
  BY DEF IInv
<1> QED BY <1>1, PostProcessorInvariant, PTL

(***************************************************************************)
(* AnswersConserved: whatever the flag kafkaQueueProblems is set to and    *)
(* whoever gives up, an order's messages are as many as its senders that   *)
(* have sent, and each is answered once, to somebody (main.go:526-583).    *)
(***************************************************************************)
THEOREM PostProcessorAnswersConserved == Spec => []AnswersConserved
<1>1. IInv => AnswersConserved
  BY DEF IInv, SentInv, AnswersInv, AnswersConserved
<1> QED BY <1>1, PostProcessorInvariant, PTL
=============================================================================
