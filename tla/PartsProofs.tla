----------------------------- MODULE PartsProofs -----------------------------
(***************************************************************************)
(* Proofs about the parts of module Parts but the order: the consumers of  *)
(* the topic, for any number of records, stops and restarts; the load of   *)
(* the ad service, for any set of requests; the editor of the flags, for   *)
(* any flags, editors and values; the two incident detectors, for any      *)
(* thresholds, windows and cooldown and however their rounds overlap; and  *)
(* the messages, for any schema.                                           *)
(***************************************************************************)
EXTENDS Parts, SequenceTheorems, FiniteSetTheorems, TLAPS

(***************************************************************************)
(* OrderConsumers.  The invariant follows accounting by its position, and  *)
(* fraud-detection by what it has dealt with: a committed offset is never  *)
(* beyond a place where the statement held when it was committed.          *)
(***************************************************************************)
A == "accounting"
F == "fraud"

TopicTypeInv ==
    /\ topic \in Seq(BOOLEAN)
    /\ committed \in [Topic!Consumers -> Nat]
    /\ position \in [Topic!Consumers -> Nat]
    /\ done \in [Topic!Consumers -> Nat]
    /\ up \in [Topic!Consumers -> BOOLEAN]
    /\ processed \in [Topic!Consumers -> SUBSET Nat]
    /\ inHand \in [Topic!Consumers -> SUBSET Nat]
    /\ notYet \in [Topic!Consumers -> SUBSET Nat]
    /\ behindBad \subseteq Nat
    /\ stops \in Nat

PositionsInOrder == \A c \in Topic!Consumers : done[c] <= position[c] /\ position[c] <= Len(topic)

(***************************************************************************)
(* One record is fetched at a time.  What is fetched is logged, in hand,   *)
(* or was in hand when the process died.                                   *)
(***************************************************************************)
AccountingInv ==
    /\ position[A] <= done[A] + 1
    /\ committed[A] = Topic!NoOffset \/ committed[A] <= position[A]
    /\ ~up[A] => done[A] + 1 .. position[A] \subseteq inHand[A]
    /\ \A r \in 1 .. position[A] :
           topic[r] => r \in processed[A] \cup inHand[A] \cup (done[A] + 1 .. position[A])

FraudLogged(r) == topic[r] => r \in processed[F] \cup behindBad \cup notYet[F]

\* What is dealt with, or committed, is logged or excused.
FraudInv ==
    /\ committed[F] = Topic!NoOffset \/ committed[F] <= Len(topic)
    /\ \A r \in 1 .. done[F] : FraudLogged(r)
    /\ committed[F] # Topic!NoOffset => \A r \in 1 .. committed[F] : FraudLogged(r)

TopicInv == TopicTypeInv /\ PositionsInOrder /\ AccountingInv /\ FraudInv

-----------------------------------------------------------------------------
\* What accounting's invariant speaks of, and fraud-detection's.
accountingPart == <<topic, committed[A], position[A], done[A], up[A], processed[A], inHand[A]>>
fraudPart == <<topic, committed[F], position[F], done[F], processed[F], behindBad, notYet[F]>>

LEMMA AccountingKept ==
    ASSUME AccountingInv, UNCHANGED accountingPart
    PROVE  AccountingInv'
  BY DEF AccountingInv, accountingPart, Topic!NoOffset

LEMMA FraudKept ==
    ASSUME FraudInv, UNCHANGED fraudPart
    PROVE  FraudInv'
  BY DEF FraudInv, FraudLogged, fraudPart, Topic!NoOffset

LEMMA ConsumerNames == A \in Topic!Consumers /\ F \in Topic!Consumers /\ A # F /\ Topic!Consumers = {A, F}
  BY DEF A, F, Topic!Consumers

-----------------------------------------------------------------------------
LEMMA PublishStep == ASSUME TopicInv, Topic!Publish PROVE TopicInv'
<1>1. PICK parses \in BOOLEAN : topic' = Append(topic, parses)
  BY DEF Topic!Publish
<1>2. UNCHANGED <<committed, position, done, up, stops, Topic!histories>>
  BY DEF Topic!Publish
<1>3. /\ topic \in Seq(BOOLEAN) /\ topic' \in Seq(BOOLEAN)
      /\ Len(topic) \in Nat /\ Len(topic') = Len(topic) + 1
      /\ \A r \in 1 .. Len(topic) : topic'[r] = topic[r]
  BY <1>1, AppendProperties DEF TopicInv, TopicTypeInv
<1>4. TopicTypeInv'
  BY <1>2, <1>3 DEF TopicInv, TopicTypeInv, Topic!histories
<1>5. PositionsInOrder'
  BY <1>2, <1>3 DEF TopicInv, TopicTypeInv, PositionsInOrder
<1>6. position[A] \in Nat /\ position[A] <= Len(topic)
      /\ done[F] \in Nat /\ done[F] <= Len(topic) /\ committed[F] \in Nat
  BY <1>3, ConsumerNames DEF TopicInv, TopicTypeInv, PositionsInOrder
<1>7. AccountingInv'
  BY <1>2, <1>3, <1>6 DEF TopicInv, AccountingInv, Topic!histories, Topic!NoOffset
<1>8. FraudInv'
  BY <1>2, <1>3, <1>6 DEF TopicInv, FraudInv, FraudLogged, Topic!histories, Topic!NoOffset
<1> QED BY <1>4, <1>5, <1>7, <1>8 DEF TopicInv

\* Where a consumer begins again.
LEMMA ResumeStep ==
    ASSUME MaxRecords \in Nat, TopicInv, NEW c \in Topic!Consumers, Topic!Resume(c),
           up' \in [Topic!Consumers -> BOOLEAN], \A d \in Topic!Consumers \ {c} : up'[d] = up[d],
           c = A => ~up[A] /\ up'[A]
    PROVE  TopicInv'
<1> DEFINE from == IF committed[c] = Topic!NoOffset THEN Topic!FirstPosition(c) ELSE committed[c]
<1>1. /\ position' = [position EXCEPT ![c] = from]
      /\ done' = [done EXCEPT ![c] = from]
      /\ notYet' = IF committed[c] = Topic!NoOffset
                   THEN [notYet EXCEPT ![c] = @ \cup 1 .. from] ELSE notYet
      /\ UNCHANGED <<topic, committed, stops, processed, inHand, behindBad>>
  BY DEF Topic!Resume
<1>2. topic \in Seq(BOOLEAN) /\ Len(topic) \in Nat /\ committed[c] \in Nat
      /\ position \in [Topic!Consumers -> Nat] /\ done \in [Topic!Consumers -> Nat]
      /\ notYet \in [Topic!Consumers -> SUBSET Nat] /\ position[A] \in Nat /\ position[A] <= Len(topic)
      /\ committed[A] \in Nat
  BY ConsumerNames DEF TopicInv, TopicTypeInv, PositionsInOrder
<1>3. from \in Nat /\ from <= Len(topic)
  BY <1>2, ConsumerNames DEF Topic!FirstPosition, TopicInv, AccountingInv, FraudInv
<1>4. notYet' \in [Topic!Consumers -> SUBSET Nat]
  <2>1. 1 .. from \subseteq Nat
    BY <1>3
  <2> HIDE DEF from
  <2> QED BY <1>1, <1>2, <2>1
<1>5. TopicTypeInv'
  <2> HIDE DEF from
  <2> QED BY <1>1, <1>2, <1>3, <1>4 DEF TopicInv, TopicTypeInv
<1>6. PositionsInOrder'
  <2> HIDE DEF from
  <2> QED BY <1>1, <1>2, <1>3 DEF TopicInv, PositionsInOrder
<1>7. CASE c = A
  <2>1. FraudInv'
    <3>1. UNCHANGED fraudPart
      BY <1>1, <1>2, <1>7, ConsumerNames DEF fraudPart
    <3> QED BY <3>1, FraudKept DEF TopicInv
  <2>2. position'[A] = from /\ done'[A] = from /\ from \in 0 .. position[A]
        /\ (committed[A] = Topic!NoOffset \/ committed[A] = from)
    BY <1>1, <1>2, <1>3, <1>7, ConsumerNames DEF Topic!FirstPosition, A, TopicInv, AccountingInv
  <2>3. up'[A] /\ ~up[A]
    BY <1>7
  <2> HIDE DEF from
  <2>4. ASSUME NEW r \in 1 .. from, topic[r]
        PROVE  r \in processed[A] \cup inHand[A]
    BY <1>2, <2>2, <2>3, <2>4 DEF TopicInv, AccountingInv
  <2>5. AccountingInv'
    BY <1>1, <1>2, <2>2, <2>3, <2>4 DEF AccountingInv, Topic!NoOffset
  <2> QED BY <1>5, <1>6, <2>1, <2>5 DEF TopicInv
<1>8. CASE c = F
  <2>1. AccountingInv'
    <3>1. up'[A] = up[A]
      BY <1>8, ConsumerNames
    <3>2. UNCHANGED accountingPart
      BY <1>1, <1>2, <1>8, <3>1, ConsumerNames DEF accountingPart
    <3> QED BY <3>2, AccountingKept DEF TopicInv
  <2>2. done'[F] = from /\ committed' = committed /\ topic' = topic
        /\ processed' = processed /\ behindBad' = behindBad
    BY <1>1, <1>2, <1>8
  <2>3. notYet[F] \subseteq notYet'[F] /\ (committed[F] = Topic!NoOffset => 1 .. from \subseteq notYet'[F])
        /\ (committed[F] # Topic!NoOffset => from = committed[F])
    BY <1>1, <1>2, <1>8
  <2> HIDE DEF from
  <2>4. ASSUME NEW r, FraudLogged(r) PROVE FraudLogged(r)'
    BY <2>2, <2>3, <2>4 DEF FraudLogged
  <2>5. FraudInv /\ (committed[F] = Topic!NoOffset)' = (committed[F] = Topic!NoOffset)
    BY <2>2 DEF TopicInv, Topic!NoOffset
  <2>6. \A r \in 1 .. from : FraudLogged(r)'
    <3>1. CASE committed[F] = Topic!NoOffset
      BY <2>2, <2>3, <3>1 DEF FraudLogged
    <3>2. CASE committed[F] # Topic!NoOffset
      BY <2>3, <2>4, <2>5, <3>2 DEF FraudInv
    <3> QED BY <3>1, <3>2
  <2>7. FraudInv'
    BY <2>2, <2>4, <2>5, <2>6 DEF FraudInv
  <2> QED BY <1>5, <1>6, <2>1, <2>7 DEF TopicInv
<1> QED BY <1>7, <1>8, ConsumerNames

LEMMA ConsumeStep == ASSUME TopicInv, Topic!Consume PROVE TopicInv'
<1>1. /\ done[A] = position[A] /\ position[A] < Len(topic) /\ up[A]
      /\ position' = [position EXCEPT ![A] = @ + 1]
      /\ UNCHANGED <<topic, committed, done, up, stops, Topic!histories>>
  BY DEF Topic!Consume, A
<1>2. /\ topic \in Seq(BOOLEAN) /\ Len(topic) \in Nat /\ position \in [Topic!Consumers -> Nat]
      /\ position[A] \in Nat /\ done[A] \in Nat /\ committed[A] \in Nat
  BY ConsumerNames DEF TopicInv, TopicTypeInv
<1>3. position' \in [Topic!Consumers -> Nat]
  <2>1. position' = [position EXCEPT ![A] = position[A] + 1]
    BY <1>1
  <2>2. position[A] + 1 \in Nat
    BY <1>2
  <2> QED BY <1>2, <2>1, <2>2
<1>4. TopicTypeInv' /\ PositionsInOrder'
  <2>1. UNCHANGED <<topic, committed, done, up, stops, Topic!histories>> /\ TopicTypeInv /\ PositionsInOrder
    BY <1>1 DEF TopicInv
  <2>2. TopicTypeInv'
    BY <1>3, <2>1 DEF TopicTypeInv, Topic!histories
  <2>3. ASSUME NEW c \in Topic!Consumers PROVE done[c] <= position'[c] /\ position'[c] <= Len(topic)
    BY <1>1, <1>2, <2>1 DEF TopicTypeInv, PositionsInOrder
  <2> QED BY <2>1, <2>2, <2>3 DEF PositionsInOrder
<1>5. position'[A] = position[A] + 1 /\ UNCHANGED fraudPart
  BY <1>1, <1>2, ConsumerNames DEF fraudPart, Topic!histories
<1>6. \A r \in 1 .. position'[A] : r \in 1 .. position[A] \/ r \in done[A] + 1 .. position'[A]
  BY <1>1, <1>2, <1>5
<1>7. AccountingInv'
  BY <1>1, <1>2, <1>5, <1>6 DEF TopicInv, AccountingInv, Topic!histories, Topic!NoOffset
<1> QED BY <1>4, <1>5, <1>7, FraudKept DEF TopicInv

LEMMA ProcessMessageStep == ASSUME TopicInv, Topic!ProcessMessage PROVE TopicInv'
<1>1. /\ done[A] < position[A] /\ up[A]
      /\ done' = [done EXCEPT ![A] = position[A]]
      /\ processed' = IF topic[position[A]]
                      THEN [processed EXCEPT ![A] = @ \cup {position[A]}] ELSE processed
      /\ UNCHANGED <<topic, committed, position, up, stops, inHand, behindBad, notYet>>
  BY DEF Topic!ProcessMessage, A
<1>2. /\ topic \in Seq(BOOLEAN) /\ Len(topic) \in Nat /\ done \in [Topic!Consumers -> Nat]
      /\ position[A] \in Nat /\ done[A] \in Nat /\ committed[A] \in Nat
      /\ processed \in [Topic!Consumers -> SUBSET Nat]
  BY ConsumerNames DEF TopicInv, TopicTypeInv
<1>3. processed' \in [Topic!Consumers -> SUBSET Nat] /\ done' \in [Topic!Consumers -> Nat]
  BY <1>1, <1>2
<1>4. TopicTypeInv'
  BY <1>1, <1>3 DEF TopicInv, TopicTypeInv
<1>5. PositionsInOrder'
  BY <1>1, <1>2, ConsumerNames DEF TopicInv, TopicTypeInv, PositionsInOrder
<1>6. done'[A] = position[A] /\ processed[A] \subseteq processed'[A] /\ UNCHANGED fraudPart
      /\ (topic[position[A]] => position[A] \in processed'[A])
  BY <1>1, <1>2, ConsumerNames DEF fraudPart
<1>7. \A r \in done[A] + 1 .. position[A] : r = position[A]
  BY <1>2 DEF TopicInv, AccountingInv
<1>8. AccountingInv'
  BY <1>1, <1>2, <1>6, <1>7 DEF TopicInv, AccountingInv, Topic!NoOffset
<1> QED BY <1>4, <1>5, <1>6, <1>8, FraudKept DEF TopicInv

LEMMA AutoCommitStep == ASSUME TopicInv, Topic!AutoCommit PROVE TopicInv'
<1>1. /\ up[A]
      /\ committed' = [committed EXCEPT ![A] = position[A]]
      /\ UNCHANGED <<topic, position, done, up, stops, Topic!histories>>
  BY DEF Topic!AutoCommit, A
<1>2. committed \in [Topic!Consumers -> Nat] /\ position[A] \in Nat
  BY ConsumerNames DEF TopicInv, TopicTypeInv
<1>3. committed' \in [Topic!Consumers -> Nat] /\ committed'[A] = position[A] /\ UNCHANGED fraudPart
  BY <1>1, <1>2, ConsumerNames DEF fraudPart, Topic!histories
<1>4. TopicTypeInv' /\ PositionsInOrder'
  BY <1>1, <1>3 DEF TopicInv, TopicTypeInv, PositionsInOrder, Topic!histories
<1>5. AccountingInv'
  BY <1>1, <1>2, <1>3 DEF TopicInv, AccountingInv, Topic!histories, Topic!NoOffset
<1> QED BY <1>3, <1>4, <1>5, FraudKept DEF TopicInv

LEMMA PollStep == ASSUME TopicInv, Topic!Poll PROVE TopicInv'
<1>1. /\ done[F] = position[F] /\ UNCHANGED <<topic, done, up, stops, Topic!histories>>
  BY DEF Topic!Poll, F
<1>2. PICK latest \in position[F] .. Len(topic) : position' = [position EXCEPT ![F] = latest]
  BY DEF Topic!Poll, F
<1>3. committed' = [committed EXCEPT ![F] = position[F]] \/ committed' = committed
  BY DEF Topic!Poll, F
<1>4. /\ topic \in Seq(BOOLEAN) /\ Len(topic) \in Nat /\ position \in [Topic!Consumers -> Nat]
      /\ committed \in [Topic!Consumers -> Nat] /\ position[F] \in Nat /\ done[F] \in Nat
      /\ committed[F] \in Nat /\ position[F] <= Len(topic)
  BY ConsumerNames DEF TopicInv, TopicTypeInv, PositionsInOrder
<1>5. /\ position' \in [Topic!Consumers -> Nat] /\ position'[F] = latest /\ position'[A] = position[A]
      /\ committed' \in [Topic!Consumers -> Nat] /\ committed'[A] = committed[A]
      /\ (committed'[F] = position[F] \/ committed'[F] = committed[F])
  BY <1>2, <1>3, <1>4, ConsumerNames
<1>6. UNCHANGED accountingPart
  BY <1>1, <1>5 DEF accountingPart, Topic!histories
<1>7. TopicTypeInv'
  BY <1>1, <1>5 DEF TopicInv, TopicTypeInv, Topic!histories
<1>8. PositionsInOrder'
  BY <1>1, <1>2, <1>4, <1>5, ConsumerNames DEF TopicInv, PositionsInOrder
<1>9. FraudInv'
  <2>1. \A r : FraudLogged(r)' <=> FraudLogged(r)
    BY <1>1 DEF FraudLogged, Topic!histories
  <2> QED BY <1>1, <1>4, <1>5, <2>1 DEF TopicInv, FraudInv, Topic!NoOffset
<1> QED BY <1>6, <1>7, <1>8, <1>9, AccountingKept DEF TopicInv

LEMMA FoldRecordStep == ASSUME TopicInv, Topic!FoldRecord PROVE TopicInv'
<1>1. /\ done[F] < position[F]
      /\ done' = [done EXCEPT ![F] = @ + 1]
      /\ processed' = [processed EXCEPT ![F] = @ \cup {done[F] + 1}]
      /\ UNCHANGED <<topic, committed, position, up, stops, inHand, behindBad, notYet>>
  BY DEF Topic!FoldRecord, F
<1>2. /\ done \in [Topic!Consumers -> Nat] /\ done[F] \in Nat /\ position[F] \in Nat
      /\ processed \in [Topic!Consumers -> SUBSET Nat] /\ committed[F] \in Nat
  BY ConsumerNames DEF TopicInv, TopicTypeInv
<1>3. /\ done' \in [Topic!Consumers -> Nat] /\ processed' \in [Topic!Consumers -> SUBSET Nat]
      /\ done'[F] = done[F] + 1 /\ processed'[F] = processed[F] \cup {done[F] + 1}
  BY <1>1, <1>2, ConsumerNames
<1>4. UNCHANGED accountingPart
  BY <1>1, <1>2, ConsumerNames DEF accountingPart
<1>5. TopicTypeInv'
  BY <1>1, <1>3 DEF TopicInv, TopicTypeInv
<1>6. PositionsInOrder'
  BY <1>1, <1>2, <1>3, ConsumerNames DEF TopicInv, TopicTypeInv, PositionsInOrder
<1>7. FraudInv'
  <2>1. ASSUME NEW r, FraudLogged(r) PROVE FraudLogged(r)'
    BY <1>1, <1>3, <2>1 DEF FraudLogged
  <2>2. FraudLogged(done[F])'
    BY <1>3 DEF FraudLogged
  <2>3. done[F] \in Nat /\ done'[F] = done[F] + 1
    BY <1>2, <1>3
  <2>4. \A r \in 1 .. done'[F] : r \in 1 .. done[F] \/ r = done'[F]
    BY <2>3
  <2>5. FraudInv /\ UNCHANGED <<topic, committed>>
    BY <1>1 DEF TopicInv
  <2> QED BY <2>1, <2>2, <2>4, <2>5 DEF FraudInv, Topic!NoOffset
<1> QED BY <1>4, <1>5, <1>6, <1>7, AccountingKept DEF TopicInv

\* Closing commits the position: what lies behind the bad record is excused.
LEMMA ParseFailsStep == ASSUME TopicInv, Topic!ParseFails PROVE TopicInv'
<1>1. /\ done[F] < position[F] /\ ~topic[done[F] + 1]
      /\ up' = [up EXCEPT ![F] = FALSE] /\ stops' = stops + 1
      /\ committed' = [committed EXCEPT ![F] = position[F]]
      /\ behindBad' = behindBad \cup (done[F] + 2 .. position[F])
      /\ UNCHANGED <<topic, position, done, processed, inHand, notYet>>
  BY DEF Topic!ParseFails, F
<1>2. /\ done[F] \in Nat /\ position[F] \in Nat /\ committed \in [Topic!Consumers -> Nat]
      /\ up \in [Topic!Consumers -> BOOLEAN] /\ behindBad \subseteq Nat /\ stops \in Nat
      /\ position[F] <= Len(topic)
  BY ConsumerNames DEF TopicInv, TopicTypeInv, PositionsInOrder
<1>3. /\ committed' \in [Topic!Consumers -> Nat] /\ up' \in [Topic!Consumers -> BOOLEAN]
      /\ behindBad' \subseteq Nat /\ stops' \in Nat
      /\ committed'[F] = position[F] /\ committed'[A] = committed[A] /\ up'[A] = up[A]
  <2>1. committed' \in [Topic!Consumers -> Nat] /\ committed'[F] = position[F]
        /\ committed'[A] = committed[A]
    BY <1>1, <1>2, ConsumerNames
  <2>2. up' \in [Topic!Consumers -> BOOLEAN] /\ up'[A] = up[A]
    BY <1>1, <1>2, ConsumerNames
  <2>3. behindBad' \subseteq Nat
    <3>1. done[F] + 2 .. position[F] \subseteq Nat
      BY <1>2
    <3> QED BY <1>1, <1>2, <3>1
  <2>4. stops' \in Nat
    BY <1>1, <1>2
  <2> QED BY <2>1, <2>2, <2>3, <2>4
<1>4. UNCHANGED accountingPart
  BY <1>1, <1>3 DEF accountingPart
<1>5. TopicTypeInv' /\ PositionsInOrder'
  BY <1>1, <1>3 DEF TopicInv, TopicTypeInv, PositionsInOrder
<1>6. FraudInv'
  <2>1. ASSUME NEW r, FraudLogged(r) PROVE FraudLogged(r)'
    BY <1>1, <2>1 DEF FraudLogged
  <2>2. FraudLogged(done[F] + 1)'
    BY <1>1 DEF FraudLogged
  <2>3. \A r \in done[F] + 2 .. position[F] : FraudLogged(r)'
    BY <1>1 DEF FraudLogged
  <2>4. \A r \in 1 .. position[F] :
            r \in 1 .. done[F] \/ r = done[F] + 1 \/ r \in done[F] + 2 .. position[F]
    BY <1>2
  <2> QED BY <1>1, <1>2, <1>3, <2>1, <2>2, <2>3, <2>4 DEF TopicInv, FraudInv, Topic!NoOffset
<1> QED BY <1>4, <1>5, <1>6, AccountingKept DEF TopicInv

LEMMA DieStep == ASSUME TopicInv, NEW c \in Topic!Consumers, Topic!Die(c) PROVE TopicInv'
<1>1. /\ up' = [up EXCEPT ![c] = FALSE] /\ stops' = stops + 1
      /\ inHand' = [inHand EXCEPT ![c] = @ \cup (done[c] + 1 .. position[c])]
      /\ UNCHANGED <<topic, committed, position, done, processed, behindBad, notYet>>
  BY DEF Topic!Die
<1>2. /\ done[c] \in Nat /\ position[c] \in Nat /\ stops \in Nat
      /\ up \in [Topic!Consumers -> BOOLEAN] /\ inHand \in [Topic!Consumers -> SUBSET Nat]
  BY DEF TopicInv, TopicTypeInv
<1>3. /\ up' \in [Topic!Consumers -> BOOLEAN] /\ inHand' \in [Topic!Consumers -> SUBSET Nat]
      /\ stops' \in Nat
  BY <1>1, <1>2
<1>4. TopicTypeInv' /\ PositionsInOrder'
  BY <1>1, <1>3 DEF TopicInv, TopicTypeInv, PositionsInOrder
<1>5. FraudInv'
  <2>1. UNCHANGED fraudPart
    BY <1>1 DEF fraudPart
  <2> QED BY <2>1, FraudKept DEF TopicInv
<1>6. AccountingInv'
  <2>1. CASE c = A
    <3>1. inHand'[A] = inHand[A] \cup (done[A] + 1 .. position[A])
      BY <1>1, <1>2, <2>1, ConsumerNames
    <3> QED BY <1>1, <3>1 DEF TopicInv, AccountingInv, Topic!NoOffset
  <2>2. CASE c # A
    <3>1. UNCHANGED accountingPart
      BY <1>1, <1>2, <2>2, ConsumerNames DEF accountingPart
    <3> QED BY <3>1, AccountingKept DEF TopicInv
  <2> QED BY <2>1, <2>2
<1> QED BY <1>4, <1>5, <1>6 DEF TopicInv

-----------------------------------------------------------------------------
LEMMA TopicInvInit == ASSUME MaxRecords \in Nat, Topic!Init PROVE TopicInv
<1>1. TopicTypeInv
  BY DEF Topic!Init, TopicTypeInv, Topic!NoOffset, Topic!Consumers
<1>2. PositionsInOrder /\ AccountingInv /\ FraudInv
  BY ConsumerNames DEF Topic!Init, PositionsInOrder, AccountingInv, FraudInv, Topic!NoOffset
<1> QED BY <1>1, <1>2 DEF TopicInv

LEMMA TopicInvStep == ASSUME MaxRecords \in Nat, TopicInv, [Topic!Next]_(Topic!vars) PROVE TopicInv'
<1>1. CASE Topic!Publish
  BY <1>1, PublishStep
<1>2. ASSUME NEW c \in Topic!Consumers, Topic!Start(c) PROVE TopicInv'
  <2>1. /\ ~up[c] /\ up' = [up EXCEPT ![c] = TRUE] /\ up \in [Topic!Consumers -> BOOLEAN]
        /\ Topic!Resume(c)
    BY <1>2 DEF Topic!Start, TopicInv, TopicTypeInv
  <2>2. up' \in [Topic!Consumers -> BOOLEAN] /\ up'[c] /\ \A d \in Topic!Consumers \ {c} : up'[d] = up[d]
    BY <2>1
  <2> QED BY <2>1, <2>2, ResumeStep
<1>3. ASSUME NEW c \in Topic!Consumers, Topic!Die(c) PROVE TopicInv'
  BY <1>3, DieStep
<1>4. CASE Topic!Consume
  BY <1>4, ConsumeStep
<1>5. CASE Topic!ProcessMessage
  BY <1>5, ProcessMessageStep
<1>6. CASE Topic!AutoCommit
  BY <1>6, AutoCommitStep
<1>7. CASE Topic!Poll
  BY <1>7, PollStep
<1>8. CASE Topic!PollTooLate
  <2>1. Topic!Resume(F) /\ up' = up /\ up' \in [Topic!Consumers -> BOOLEAN]
    BY <1>8 DEF Topic!PollTooLate, F, TopicInv, TopicTypeInv
  <2> QED BY <2>1, ResumeStep, ConsumerNames
<1>9. CASE Topic!FoldRecord
  BY <1>9, FoldRecordStep
<1>10. CASE Topic!ParseFails
  BY <1>10, ParseFailsStep
<1>11. CASE UNCHANGED Topic!vars
  <2>1. TopicTypeInv' /\ PositionsInOrder' /\ UNCHANGED accountingPart /\ UNCHANGED fraudPart
    BY <1>11 DEF Topic!vars, Topic!histories, TopicInv, TopicTypeInv, PositionsInOrder, accountingPart, fraudPart
  <2> QED BY <2>1, AccountingKept, FraudKept DEF TopicInv
<1> QED BY <1>1, <1>2, <1>3, <1>4, <1>5, <1>6, <1>7, <1>8, <1>9, <1>10, <1>11 DEF Topic!Next

(***************************************************************************)
(* The inductive invariant: the positions stay within the topic and in     *)
(* order, and what each consumer has passed is accounted for.              *)
(***************************************************************************)
THEOREM TopicInvariant == PartsSpec => []TopicInv
<1>1. PartsInit => TopicInv
  BY TopicInvInit, PartsAssumption DEF PartsInit
<1>2. TopicInv /\ [PartsNext]_partsVars => TopicInv'
  <2> SUFFICES ASSUME TopicInv, [PartsNext]_partsVars PROVE TopicInv'
    OBVIOUS
  <2>1. Topic!Next \/ UNCHANGED Topic!vars
    BY DEF PartsNext, partsVars, topicVars, Topic!vars, Topic!histories
  <2> QED BY <2>1, TopicInvStep, PartsAssumption
<1> QED BY <1>1, <1>2, PTL DEF PartsSpec

(***************************************************************************)
(* However many records are published and however often the consumers      *)
(* stop, an order that is left behind was logged or is one of those the    *)
(* property excuses (Consumer.cs:41-43, main.kt:54-68).                    *)
(***************************************************************************)
THEOREM PartsSkippedOnlyWhenStopped == PartsSpec => []SkippedOnlyWhenStopped
<1>1. ASSUME TopicInv PROVE SkippedOnlyWhenStopped
  <2> SUFFICES ASSUME NEW c \in Topic!Consumers, NEW r \in Topic!LeftBehind(c), topic[r]
               PROVE  r \in processed[c] \cup Topic!Excused(c)
    BY DEF SkippedOnlyWhenStopped, Topic!SkippedOnlyWhenStopped
  <2>1. /\ r \in 1 .. Len(topic) /\ topic \in Seq(BOOLEAN)
        /\ r <= done[c] \/ (committed[c] # Topic!NoOffset /\ r <= committed[c])
    BY <1>1 DEF Topic!LeftBehind, TopicInv, TopicTypeInv
  <2>2. done[c] \in Nat /\ position[c] \in Nat /\ committed[c] \in Nat /\ done[c] <= position[c]
    BY <1>1 DEF TopicInv, TopicTypeInv, PositionsInOrder
  <2>3. CASE c = A
    <3>1. r \in 1 .. position[A]
      BY <1>1, <2>1, <2>2, <2>3 DEF TopicInv, AccountingInv
    <3> QED BY <1>1, <2>3, <3>1 DEF TopicInv, AccountingInv, Topic!Excused, A
  <2>4. CASE c = F
    <3>1. FraudLogged(r)
      BY <1>1, <2>1, <2>2, <2>4 DEF TopicInv, FraudInv
    <3> QED BY <2>4, <3>1, ConsumerNames DEF FraudLogged, Topic!Excused, A
  <2> QED BY <2>3, <2>4, ConsumerNames
<1> QED BY <1>1, TopicInvariant, PTL

-----------------------------------------------------------------------------
(***************************************************************************)
(* CpuLoad.                                                                *)
(***************************************************************************)
\* The steps of execute, which a request takes with the instance it was given.
Executing == {"execute", "spawn", "spawned", "stop"}

UsesInstance == \A r \in Requests : thread[r] \in Executing => using[r] \in Load!Instances

(***************************************************************************)
(* Workers of an instance that is not `running' are those of a request     *)
(* about to set `running', or about to stop them.                          *)
(***************************************************************************)
Attended(j) ==
    \E r \in Requests : using[r] = j /\ thread[r] \in {"spawned", "stop"}

IdleAttended ==
    \A j \in Load!Instances : ~running[j] /\ workers[j] # 0 => Attended(j)

LoadInv == Load!TypeOK /\ UsesInstance /\ IdleAttended

-----------------------------------------------------------------------------
LEMMA InitLoadInv == Load!Init => LoadInv
BY DEF Load!Init, LoadInv, Load!TypeOK, UsesInstance, IdleAttended, Executing, Load!Instances

\* Type correctness, step by step.
LEMMA LoadTypeStep == Load!TypeOK /\ UsesInstance /\ [Load!Next]_(Load!vars) => Load!TypeOK' /\ UsesInstance'
<1> SUFFICES ASSUME Load!TypeOK, UsesInstance, [Load!Next]_(Load!vars) PROVE Load!TypeOK' /\ UsesInstance'
    OBVIOUS
<1> USE DEF Load!TypeOK, UsesInstance, Executing, Load!Instances, Load!Goto
<1>1. CASE UNCHANGED Load!vars
      BY <1>1 DEF Load!vars
<1>2. ASSUME NEW r \in Requests, Load!FindNull(r) PROVE Load!TypeOK' /\ UsesInstance'
      BY <1>2 DEF Load!FindNull
<1>3. ASSUME NEW r \in Requests, Load!MakeInstance(r) PROVE Load!TypeOK' /\ UsesInstance'
      BY <1>3 DEF Load!MakeInstance
<1>4. ASSUME NEW r \in Requests, Load!ReturnInstance(r) PROVE Load!TypeOK' /\ UsesInstance'
      BY <1>4 DEF Load!ReturnInstance
<1>5. ASSUME NEW r \in Requests, Load!FindRunning(r) PROVE Load!TypeOK' /\ UsesInstance'
      BY <1>5 DEF Load!FindRunning
<1>6. ASSUME NEW r \in Requests, Load!FindNotRunning(r) PROVE Load!TypeOK' /\ UsesInstance'
      BY <1>6 DEF Load!FindNotRunning
<1>7. ASSUME NEW r \in Requests, Load!SpawnLoadWorkers(r) PROVE Load!TypeOK' /\ UsesInstance'
      BY <1>7 DEF Load!SpawnLoadWorkers
<1>8. ASSUME NEW r \in Requests, Load!SetRunning(r) PROVE Load!TypeOK' /\ UsesInstance'
      BY <1>8 DEF Load!SetRunning
<1>9. ASSUME NEW r \in Requests, Load!ClearRunning(r) PROVE Load!TypeOK' /\ UsesInstance'
      BY <1>9 DEF Load!ClearRunning
<1>10. ASSUME NEW r \in Requests, Load!StopWorkers(r) PROVE Load!TypeOK' /\ UsesInstance'
      BY <1>10 DEF Load!StopWorkers
<1> QED
    BY <1>1, <1>2, <1>3, <1>4, <1>5, <1>6, <1>7, <1>8, <1>9, <1>10
    DEF Load!Next, Load!GetInstance, Load!ExecuteOn, Load!ExecuteOff

-----------------------------------------------------------------------------
(***************************************************************************)
(* A request that is not attending to workers may do what it likes with    *)
(* its own steps, as long as it leaves `running' and the workers alone.    *)
(***************************************************************************)
LEMMA OwnSteps ==
    ASSUME IdleAttended, NEW r \in Requests,
           thread[r] \notin {"spawned", "stop"},
           \A q \in Requests \ {r} : thread'[q] = thread[q] /\ using'[q] = using[q],
           running' = running, workers' = workers
    PROVE  IdleAttended'
<1> SUFFICES ASSUME NEW j \in Load!Instances, ~running[j], workers[j] # 0
             PROVE  Attended(j)'
    BY DEF IdleAttended
<1>1. PICK q \in Requests : using[q] = j /\ thread[q] \in {"spawned", "stop"}
      BY DEF IdleAttended, Attended
<1>2. q # r
      BY <1>1
<1> QED
    BY <1>1, <1>2 DEF Attended

\* What a request does to its own instance leaves the others attended to.
LEMMA OtherInstances ==
    ASSUME IdleAttended, NEW r \in Requests, NEW j \in Load!Instances, j # using[r],
           \A q \in Requests \ {r} : thread'[q] = thread[q] /\ using'[q] = using[q],
           running'[j] = running[j], workers'[j] = workers[j],
           ~running'[j], workers'[j] # 0
    PROVE  Attended(j)'
<1>1. PICK q \in Requests : using[q] = j /\ thread[q] \in {"spawned", "stop"}
      BY DEF IdleAttended, Attended
<1>2. q # r
      BY <1>1
<1> QED
    BY <1>1, <1>2 DEF Attended

LEMMA AttendedStep == LoadInv /\ [Load!Next]_(Load!vars) => IdleAttended'
<1> SUFFICES ASSUME LoadInv, [Load!Next]_(Load!vars) PROVE IdleAttended'
    OBVIOUS
<1> USE DEF LoadInv, Load!TypeOK, UsesInstance, Executing, Load!Instances
<1>1. CASE UNCHANGED Load!vars
      BY <1>1 DEF Load!vars, IdleAttended, Attended
<1>2. ASSUME NEW r \in Requests, Load!GetInstance(r) PROVE IdleAttended'
      BY <1>2, OwnSteps DEF Load!GetInstance, Load!FindNull, Load!MakeInstance, Load!ReturnInstance, Load!Goto
<1>3. ASSUME NEW r \in Requests, Load!FindRunning(r) \/ Load!FindNotRunning(r)
      PROVE  IdleAttended'
      BY <1>3, OwnSteps DEF Load!FindRunning, Load!FindNotRunning, Load!Goto
<1>4. ASSUME NEW r \in Requests, Load!SpawnLoadWorkers(r) PROVE IdleAttended'
  <2> SUFFICES ASSUME NEW j \in Load!Instances, ~running'[j], workers'[j] # 0
               PROVE  Attended(j)'
      BY DEF IdleAttended
  <2>1. CASE j = using[r]
        BY <1>4, <2>1 DEF Load!SpawnLoadWorkers, Load!Goto, Attended
  <2>2. CASE j # using[r]
        BY <1>4, <2>2, OtherInstances DEF Load!SpawnLoadWorkers, Load!Goto
  <2> QED
      BY <2>1, <2>2
<1>5. ASSUME NEW r \in Requests, Load!SetRunning(r) PROVE IdleAttended'
  <2> SUFFICES ASSUME NEW j \in Load!Instances, ~running'[j], workers'[j] # 0
               PROVE  Attended(j)'
      BY DEF IdleAttended
  <2>1. j # using[r]
        BY <1>5 DEF Load!SetRunning, Load!Goto
  <2> QED
      BY <1>5, <2>1, OtherInstances DEF Load!SetRunning, Load!Goto
<1>6. ASSUME NEW r \in Requests, Load!ClearRunning(r) PROVE IdleAttended'
  <2> SUFFICES ASSUME NEW j \in Load!Instances, ~running'[j], workers'[j] # 0
               PROVE  Attended(j)'
      BY DEF IdleAttended
  <2>1. CASE j = using[r]
        BY <1>6, <2>1 DEF Load!ClearRunning, Load!Goto, Attended
  <2>2. CASE j # using[r]
        BY <1>6, <2>2, OtherInstances DEF Load!ClearRunning, Load!Goto
  <2> QED
      BY <2>1, <2>2
<1>7. ASSUME NEW r \in Requests, Load!StopWorkers(r) PROVE IdleAttended'
  <2> SUFFICES ASSUME NEW j \in Load!Instances, ~running'[j], workers'[j] # 0
               PROVE  Attended(j)'
      BY DEF IdleAttended
  <2>1. j # using[r]
        BY <1>7 DEF Load!StopWorkers, Load!Goto
  <2> QED
      BY <1>7, <2>1, OtherInstances DEF Load!StopWorkers, Load!Goto
<1> QED
    BY <1>1, <1>2, <1>3, <1>4, <1>5, <1>6, <1>7 DEF Load!Next, Load!ExecuteOn, Load!ExecuteOff

-----------------------------------------------------------------------------
THEOREM LoadInvariant == PartsSpec => []LoadInv
<1>1. PartsInit => LoadInv
  BY InitLoadInv DEF PartsInit
<1>2. LoadInv /\ [PartsNext]_partsVars => LoadInv'
  <2> SUFFICES ASSUME LoadInv, [PartsNext]_partsVars PROVE LoadInv'
    OBVIOUS
  <2>1. Load!Next \/ UNCHANGED Load!vars
    BY DEF PartsNext, partsVars, loadVars, Load!vars
  <2> QED BY <2>1, LoadTypeStep, AttendedStep DEF LoadInv
<1> QED BY <1>1, <1>2, PTL DEF PartsSpec

(***************************************************************************)
(* However many requests there are and however they overlap, an instance   *)
(* that is not `running' has no workers once no request is underway        *)
(* (CPULoad.java:46-86).                                                   *)
(***************************************************************************)
THEOREM PartsNoWorkersWhileOff == PartsSpec => []NoWorkersWhileOff
<1>1. LoadInv => NoWorkersWhileOff
      BY DEF LoadInv, IdleAttended, Attended, NoWorkersWhileOff, Load!NoWorkersWhileOff, Load!Calm
<1> QED
    BY LoadInvariant, <1>1, PTL

-----------------------------------------------------------------------------
(***************************************************************************)
(* FlagEditor.  As long as nothing has happened that can damage the file,  *)
(* it holds what was written last, and whatever a page has read, changed   *)
(* or posted agrees with that in every flag its operator has not chosen,   *)
(* unless the file was written since.                                      *)
(***************************************************************************)
Unbroken == broken \cap {"overlap", "died", "saved unloaded"} = {}

Answers == [body : Editor!Config \cup {Error}, version : Nat]

Posts == [phase : {"posted", "open"}, content : Editor!Config,
          chosen : SUBSET Flags, base : Nat]

EditorTypeInv ==
    /\ data \in [Editor!Pages -> Editor!Config \cup {Null, Error, Unusable}]
    /\ reads \in [Editor!Pages -> Answers \cup {NoRead, Asked}]
    /\ write \in [Editor!Pages -> Posts \cup {Editor!NoWrite}]
    /\ edited \in [Editor!Pages -> SUBSET Flags]
    /\ seen \in [Editor!Pages -> Nat]
    /\ writes \in Nat
    /\ last \in Editor!Config

IsOpen(p) == write[p].phase = "open"

OneOpen == \A p, q \in Editor!Pages : IsOpen(p) /\ IsOpen(q) => p = q

FileHolds ==
    /\ (\A p \in Editor!Pages : ~IsOpen(p)) => file.content = last
    /\ \A p \in Editor!Pages : IsOpen(p) => file = [content |-> Damaged, size |-> 0]

\* The content agrees with the last one outside the flags chosen.
Agrees(content, chosen) == \A f \in Flags \ chosen : content[f] = last[f]

PostsAgree ==
    \A p \in Editor!Pages : write[p] # Editor!NoWrite =>
        /\ write[p].base <= writes
        /\ write[p].base = writes => Agrees(write[p].content, write[p].chosen)

AnswersAgree ==
    \A p \in Editor!Pages : reads[p] \in Answers =>
        /\ reads[p].version <= writes
        /\ reads[p].version = writes /\ reads[p].body # Error => reads[p].body = last

PagesAgree ==
    \A p \in Editor!Pages :
        /\ seen[p] <= writes
        /\ p \in BasicPages =>
               /\ data[p] # Error
               /\ data[p] \in Editor!Config /\ seen[p] = writes => Agrees(data[p], edited[p])

EditorInv ==
    /\ EditorTypeInv /\ OneOpen /\ FileHolds /\ PostsAgree /\ AnswersAgree /\ PagesAgree
    /\ "unasked change" \notin broken

-----------------------------------------------------------------------------
LEMMA EditorConstants ==
    /\ {Null, Error, Unusable, Damaged} \cap Editor!Config = {}
    /\ Null # Error /\ Unusable # Error /\ Damaged # Null
    /\ NoRead # Asked /\ {NoRead, Asked} \cap Answers = {}
    /\ Editor!NoWrite \notin Posts /\ Editor!NoWrite.phase = "none"
    /\ BasicPages \cap AdvancedPages = {} /\ Typed \subseteq Editor!Config
<1>1. {NoRead, Asked} \cap Answers = {}
  <2>1. Answers \subseteq [body : Editor!Config \cup {Null, Error}, version : Nat]
    BY DEF Answers
  <2> QED
    BY <2>1, PartsAssumption
<1>2. Editor!NoWrite.phase = "none"
  BY DEF Editor!NoWrite
<1>3. \A w \in Posts : w.phase \in {"posted", "open"}
  BY DEF Posts
<1> QED
  BY <1>1, <1>2, <1>3, PartsAssumption

LEMMA ContentSize ==
    ASSUME NEW content \in Editor!Config PROVE Editor!Size(content) \in Nat
<1> DEFINE off == {f \in Flags : content[f] = "off"}
<1>1. IsFiniteSet(off)
  <2>1. off \subseteq Flags
    OBVIOUS
  <2> QED
    BY <2>1, FS_Subset, PartsAssumption
<1>2. Editor!Cardinality(off) = Cardinality(off)
  BY DEF Editor!Cardinality, Cardinality
<1>3. Cardinality(off) \in Nat
  BY <1>1, FS_CardinalityType
<1> HIDE DEF off
<1>4. 1 + Editor!Cardinality(off) \in Nat
  BY <1>2, <1>3
<1>5. Editor!Size(content) = 1 + Editor!Cardinality(off)
  BY EditorConstants, Zenon DEF Editor!Size, off
<1> QED
  BY <1>4, <1>5

LEMMA InitEditorInv == Editor!Init => EditorInv
<1> SUFFICES ASSUME Editor!Init PROVE EditorInv
  OBVIOUS
<1>1. /\ file.content = last /\ last \in Editor!Config
      /\ data = [p \in Editor!Pages |-> Null] /\ reads = [p \in Editor!Pages |-> Asked]
      /\ write = [p \in Editor!Pages |-> Editor!NoWrite] /\ writes = 0
      /\ edited = [p \in Editor!Pages |-> {}] /\ seen = [p \in Editor!Pages |-> 0]
      /\ broken = {}
  BY DEF Editor!Init
<1>2. EditorTypeInv
  BY <1>1 DEF EditorTypeInv
<1>3. \A p \in Editor!Pages : ~IsOpen(p)
  BY <1>1, EditorConstants DEF IsOpen
<1>4. OneOpen /\ FileHolds
  BY <1>1, <1>3 DEF OneOpen, FileHolds
<1>5. PostsAgree /\ AnswersAgree
  BY <1>1, EditorConstants DEF PostsAgree, AnswersAgree
<1>6. PagesAgree
  BY <1>1, EditorConstants DEF PagesAgree
<1> QED
  BY <1>1, <1>2, <1>4, <1>5, <1>6 DEF EditorInv

\* What does not change with the file and the writes.
LEMMA FileKept ==
    ASSUME EditorInv, UNCHANGED <<file, write, writes, last, broken>>
    PROVE  OneOpen' /\ FileHolds' /\ PostsAgree' /\ "unasked change" \notin broken'
BY DEF EditorInv, OneOpen, FileHolds, PostsAgree, IsOpen, Agrees

LEMMA ReadFileStep ==
    ASSUME EditorInv, NEW p \in Editor!Pages, Editor!ReadFile(p) PROVE EditorInv'
<1>1. /\ reads' = [reads EXCEPT ![p] = Editor!Answer]
      /\ UNCHANGED <<file, data, edited, seen, write, writes, last, broken>>
  BY DEF Editor!ReadFile
<1>2. EditorTypeInv
  BY DEF EditorInv
<1>3. /\ Editor!Answer \in Answers /\ Editor!Answer.version = writes
      /\ Editor!Answer.body # Error => Editor!Answer.body = last
  <2>1. CASE \E q \in Editor!Pages : IsOpen(q)
    <3>1. file = [content |-> Damaged, size |-> 0]
      BY <2>1 DEF EditorInv, FileHolds
    <3>2. file.content = Damaged /\ writes \in Nat
      BY <1>2, <3>1 DEF EditorTypeInv
    <3>3. Editor!Answer = [body |-> Error, version |-> writes]
      BY <3>2 DEF Editor!Answer
    <3> QED
      BY <3>2, <3>3 DEF Answers
  <2>2. CASE \A q \in Editor!Pages : ~IsOpen(q)
    <3>1. file.content = last /\ last \in Editor!Config /\ writes \in Nat
      BY <1>2, <2>2 DEF EditorInv, FileHolds, EditorTypeInv
    <3>2. Editor!Answer = [body |-> last, version |-> writes]
      BY <3>1, EditorConstants DEF Editor!Answer
    <3> QED
      BY <3>1, <3>2 DEF Answers
  <2> QED
    BY <2>1, <2>2
<1>4. EditorTypeInv'
  BY <1>1, <1>2, <1>3 DEF EditorTypeInv
<1>5. AnswersAgree'
  <2> SUFFICES ASSUME NEW q \in Editor!Pages, reads'[q] \in Answers
               PROVE  /\ reads'[q].version <= writes
                      /\ reads'[q].version = writes /\ reads'[q].body # Error =>
                             reads'[q].body = last
    BY <1>1 DEF AnswersAgree
  <2>1. CASE q = p
    BY <1>1, <1>2, <1>3, <2>1 DEF EditorTypeInv
  <2>2. CASE q # p
    BY <1>1, <1>2, <2>2 DEF EditorInv, AnswersAgree, EditorTypeInv
  <2> QED
    BY <2>1, <2>2
<1>6. PagesAgree'
  BY <1>1 DEF EditorInv, PagesAgree, Agrees
<1>7. OneOpen' /\ FileHolds' /\ PostsAgree' /\ "unasked change" \notin broken'
  BY <1>1, FileKept
<1> QED
  BY <1>4, <1>5, <1>6, <1>7 DEF EditorInv

LEMMA SetFlagDataStep ==
    ASSUME EditorInv, NEW p \in Editor!Pages, Editor!SetFlagData(p) PROVE EditorInv'
<1> DEFINE shown == IF p \in BasicPages /\ reads[p].body = Error
                    THEN Unusable ELSE reads[p].body
<1>1. /\ reads[p] \notin {NoRead, Asked}
      /\ reads' = [reads EXCEPT ![p] = NoRead]
      /\ data' = [data EXCEPT ![p] = shown]
      /\ edited' = [edited EXCEPT ![p] = {}]
      /\ seen' = [seen EXCEPT ![p] = reads[p].version]
      /\ UNCHANGED <<file, write, writes, last, broken>>
  BY DEF Editor!SetFlagData
<1>2. EditorTypeInv
  BY DEF EditorInv
<1>3. /\ reads[p] \in Answers /\ reads[p].version \in Nat
      /\ reads[p].body \in Editor!Config \cup {Error}
  <2>1. reads[p] \in Answers
    BY <1>1, <1>2 DEF EditorTypeInv
  <2> QED
    BY <2>1 DEF Answers
<1>4. /\ reads[p].version <= writes
      /\ reads[p].version = writes /\ reads[p].body # Error => reads[p].body = last
  BY <1>3 DEF EditorInv, AnswersAgree
<1>5. /\ shown \in Editor!Config \cup {Error, Unusable}
      /\ p \in BasicPages => shown # Error
      /\ shown \in Editor!Config => shown = reads[p].body /\ reads[p].body # Error
  BY <1>3, EditorConstants
<1> HIDE DEF shown
<1>6. EditorTypeInv'
  BY <1>1, <1>2, <1>3, <1>5 DEF EditorTypeInv
<1>7. AnswersAgree'
  BY <1>1, <1>2, EditorConstants DEF EditorInv, AnswersAgree, EditorTypeInv
<1>8. PagesAgree'
  <2> SUFFICES ASSUME NEW q \in Editor!Pages
               PROVE  /\ seen'[q] <= writes
                      /\ q \in BasicPages =>
                             /\ data'[q] # Error
                             /\ data'[q] \in Editor!Config /\ seen'[q] = writes =>
                                    \A f \in Flags \ edited'[q] : data'[q][f] = last[f]
    <3>1. writes' = writes /\ last' = last
      BY <1>1
    <3> QED
      BY <3>1, Zenon DEF PagesAgree, Agrees
  <2>1. CASE q = p
    <3>1. data'[q] = shown /\ seen'[q] = reads[p].version
      BY <1>1, <1>2, <2>1 DEF EditorTypeInv
    <3> QED
      BY <1>4, <1>5, <2>1, <3>1
  <2>2. CASE q # p
    <3>1. data'[q] = data[q] /\ seen'[q] = seen[q] /\ edited'[q] = edited[q]
      BY <1>1, <1>2, <2>2 DEF EditorTypeInv
    <3> QED
      BY <3>1 DEF EditorInv, PagesAgree, Agrees
  <2> QED
    BY <2>1, <2>2
<1>9. OneOpen' /\ FileHolds' /\ PostsAgree' /\ "unasked change" \notin broken'
  BY <1>1, FileKept
<1> QED
  BY <1>6, <1>7, <1>8, <1>9 DEF EditorInv

LEMMA ReadLostStep ==
    ASSUME EditorInv, NEW p \in Editor!Pages, Editor!ReadLost(p) PROVE EditorInv'
<1>1. /\ reads' = [reads EXCEPT ![p] = NoRead]
      /\ UNCHANGED <<file, data, edited, seen, write, writes, last, broken>>
  BY DEF Editor!ReadLost
<1>2. EditorTypeInv' /\ AnswersAgree'
  BY <1>1, EditorConstants DEF EditorInv, EditorTypeInv, AnswersAgree
<1>3. PagesAgree'
  BY <1>1 DEF EditorInv, PagesAgree, Agrees
<1>4. OneOpen' /\ FileHolds' /\ PostsAgree' /\ "unasked change" \notin broken'
  BY <1>1, FileKept
<1> QED
  BY <1>2, <1>3, <1>4 DEF EditorInv

\* A flag that is chosen is one the page need not agree in.
LEMMA EditStep ==
    ASSUME EditorInv, NEW p \in Editor!Pages, Editor!Edit(p) PROVE EditorInv'
<1>1. PICK f \in Flags \ edited[p] : \E variant \in Editor!Variants \ {data[p][f]} :
          /\ data' = [data EXCEPT ![p][f] = variant]
          /\ edited' = [edited EXCEPT ![p] = @ \cup {f}]
  BY DEF Editor!Edit
<1>2. PICK variant \in Editor!Variants :
          /\ data' = [data EXCEPT ![p][f] = variant]
          /\ edited' = [edited EXCEPT ![p] = @ \cup {f}]
  BY <1>1
<1>3. /\ p \in BasicPages /\ data[p] \in Editor!Config
      /\ UNCHANGED <<file, reads, seen, write, writes, last, broken>>
  BY DEF Editor!Edit
<1>4. EditorTypeInv
  BY DEF EditorInv
<1>5. /\ data'[p] = [data[p] EXCEPT ![f] = variant] /\ edited'[p] = edited[p] \cup {f}
      /\ data'[p] \in Editor!Config
      /\ \A q \in Editor!Pages \ {p} : data'[q] = data[q] /\ edited'[q] = edited[q]
  BY <1>2, <1>3, <1>4 DEF EditorTypeInv, Editor!Config
<1>6. EditorTypeInv'
  <2>1. data' \in [Editor!Pages -> Editor!Config \cup {Null, Error, Unusable}]
    <3>1. DOMAIN data' = Editor!Pages /\ data' = [q \in Editor!Pages |-> data'[q]]
      BY <1>2, <1>4 DEF EditorTypeInv
    <3>2. \A q \in Editor!Pages : data'[q] \in Editor!Config \cup {Null, Error, Unusable}
      BY <1>4, <1>5 DEF EditorTypeInv
    <3> QED
      BY <3>1, <3>2
  <2>2. edited' \in [Editor!Pages -> SUBSET Flags]
    BY <1>1, <1>2, <1>4 DEF EditorTypeInv
  <2> QED
    BY <1>3, <1>4, <2>1, <2>2 DEF EditorTypeInv
<1>7. AnswersAgree'
  BY <1>3 DEF EditorInv, AnswersAgree
<1>8. PagesAgree'
  <2> SUFFICES ASSUME NEW q \in Editor!Pages
               PROVE  /\ seen[q] <= writes
                      /\ q \in BasicPages =>
                             /\ data'[q] # Error
                             /\ data'[q] \in Editor!Config /\ seen[q] = writes =>
                                    \A g \in Flags \ edited'[q] : data'[q][g] = last[g]
    <3>1. writes' = writes /\ last' = last /\ seen' = seen
      BY <1>3
    <3> QED
      BY <3>1, Zenon DEF PagesAgree, Agrees
  <2>1. CASE q = p
    <3>1. \A g \in Flags \ edited'[p] : g \notin edited[p] /\ data'[p][g] = data[p][g]
      BY <1>3, <1>5 DEF Editor!Config
    <3>2. /\ seen[p] <= writes
          /\ seen[p] = writes => \A g \in Flags \ edited[p] : data[p][g] = last[g]
      BY <1>3 DEF EditorInv, PagesAgree, Agrees
    <3>3. data'[p] # Error
      BY <1>5, EditorConstants
    <3> QED
      BY <2>1, <3>1, <3>2, <3>3
  <2>2. CASE q # p
    <3>1. data'[q] = data[q] /\ edited'[q] = edited[q]
      BY <1>5, <2>2
    <3> QED
      BY <3>1 DEF EditorInv, PagesAgree, Agrees
  <2> QED
    BY <2>1, <2>2
<1>9. OneOpen' /\ FileHolds' /\ PostsAgree' /\ "unasked change" \notin broken'
  BY <1>3, FileKept
<1> QED
  BY <1>6, <1>7, <1>8, <1>9 DEF EditorInv

\* What a page posts agrees with the file if the page does.
LEMMA PostStep ==
    ASSUME EditorInv, NEW p \in Editor!Pages, NEW content \in Editor!Config,
           NEW chosen \in SUBSET Flags, Editor!Post(p, content, chosen),
           seen[p] = writes => Agrees(content, chosen)
    PROVE  EditorInv'
<1> DEFINE post == [phase |-> "posted", content |-> content,
                    chosen |-> chosen, base |-> seen[p]]
<1>1. /\ write[p] = Editor!NoWrite /\ write' = [write EXCEPT ![p] = post]
      /\ UNCHANGED <<file, data, reads, edited, seen, writes, last>>
      /\ broken' \in {broken, broken \cup {"saved unloaded"}}
  BY DEF Editor!Post, Editor!pageVars
<1>2. EditorTypeInv
  BY DEF EditorInv
<1>3. /\ post \in Posts /\ post.phase = "posted" /\ post.content = content
      /\ post.chosen = chosen /\ post.base = seen[p]
  BY <1>2 DEF Posts, EditorTypeInv
<1> HIDE DEF post
<1>4. EditorTypeInv'
  BY <1>1, <1>2, <1>3 DEF EditorTypeInv
<1>5. /\ write'[p] = post /\ \A q \in Editor!Pages \ {p} : write'[q] = write[q]
  BY <1>1, <1>2 DEF EditorTypeInv
<1>6. \A q \in Editor!Pages : write'[q].phase = "open" <=> IsOpen(q)
  BY <1>1, <1>3, <1>5, EditorConstants DEF IsOpen
<1>7. OneOpen'
  BY <1>6 DEF EditorInv, OneOpen, IsOpen
<1>8. FileHolds'
  BY <1>1, <1>6 DEF EditorInv, FileHolds, IsOpen
<1>9. PostsAgree'
  <2> SUFFICES ASSUME NEW q \in Editor!Pages, write'[q] # Editor!NoWrite
               PROVE  /\ write'[q].base <= writes
                      /\ write'[q].base = writes =>
                             \A f \in Flags \ write'[q].chosen :
                                 write'[q].content[f] = last[f]
    <3>1. writes' = writes /\ last' = last
      BY <1>1
    <3> QED
      BY <3>1, Zenon DEF PostsAgree, Agrees
  <2>1. CASE q = p
    BY <1>3, <1>5, <2>1 DEF EditorInv, PagesAgree, Agrees
  <2>2. CASE q # p
    BY <1>5, <2>2 DEF EditorInv, PostsAgree, Agrees
  <2> QED
    BY <2>1, <2>2
<1>10. AnswersAgree'
  BY <1>1 DEF EditorInv, AnswersAgree
<1>11. PagesAgree'
  BY <1>1 DEF EditorInv, PagesAgree, Agrees
<1>12. "unasked change" \notin broken'
  <2>1. "unasked change" \notin broken
    BY DEF EditorInv
  <2>2. broken' \subseteq broken \cup {"saved unloaded"}
    BY <1>1
  <2>3. "unasked change" # "saved unloaded"
    OBVIOUS
  <2> QED
    BY <2>1, <2>2, <2>3
<1> QED
  BY <1>4, <1>7, <1>8, <1>9, <1>10, <1>11, <1>12 DEF EditorInv

LEMMA SaveStep ==
    ASSUME EditorInv, NEW p \in Editor!Pages, Editor!Save(p), Unbroken' PROVE EditorInv'
<1>1. /\ p \in BasicPages /\ data[p] # Unusable
      /\ Editor!Post(p, data[p], edited[p])
  BY DEF Editor!Save
<1>2. EditorTypeInv
  BY DEF EditorInv
<1>3. data[p] # Null
  BY <1>1 DEF Editor!Post, Unbroken
<1>4. data[p] # Error
  BY <1>1 DEF EditorInv, PagesAgree
<1>5. data[p] \in Editor!Config /\ edited[p] \in SUBSET Flags
  BY <1>1, <1>2, <1>3, <1>4 DEF EditorTypeInv
<1>6. seen[p] = writes => Agrees(data[p], edited[p])
  BY <1>1, <1>5 DEF EditorInv, PagesAgree
<1> QED
  BY <1>1, <1>5, <1>6, PostStep

LEMMA SaveUpdateStep ==
    ASSUME EditorInv, NEW p \in Editor!Pages, Editor!SaveUpdate(p) PROVE EditorInv'
<1>1. PICK content \in Typed : Editor!Post(p, content, Flags)
  BY DEF Editor!SaveUpdate
<1>2. content \in Editor!Config
  BY EditorConstants
<1>3. Agrees(content, Flags)
  BY DEF Agrees
<1> QED
  BY <1>1, <1>2, <1>3, PostStep

\* The first half of a write: with no other one open, this one is.
LEMMA OpenFileStep ==
    ASSUME EditorInv, NEW p \in Editor!Pages, Editor!OpenFile(p), Unbroken' PROVE EditorInv'
<1>1. /\ write[p].phase = "posted" /\ write' = [write EXCEPT ![p].phase = "open"]
      /\ file' = [content |-> Damaged, size |-> 0]
      /\ UNCHANGED <<data, reads, edited, seen, writes, last>>
  BY DEF Editor!OpenFile, Editor!pageVars
<1>2. EditorTypeInv
  BY DEF EditorInv
<1>3. \A q \in Editor!Pages : ~IsOpen(q)
  <2> SUFFICES ASSUME NEW q \in Editor!Pages, IsOpen(q) PROVE FALSE
    OBVIOUS
  <2>1. broken' = broken \cup {"overlap"}
    BY DEF Editor!OpenFile, IsOpen
  <2> QED
    BY <2>1 DEF Unbroken
<1>4. broken' = broken
  BY <1>3 DEF Editor!OpenFile, IsOpen
<1>5. write[p] \in Posts
  BY <1>1, <1>2, EditorConstants DEF EditorTypeInv
<1>6. /\ write'[p] \in Posts /\ write'[p].phase = "open"
      /\ write'[p].content = write[p].content /\ write'[p].chosen = write[p].chosen
      /\ write'[p].base = write[p].base
      /\ \A q \in Editor!Pages \ {p} : write'[q] = write[q]
  BY <1>1, <1>2, <1>5 DEF EditorTypeInv, Posts
<1>7. EditorTypeInv'
  <2>1. write' \in [Editor!Pages -> Posts \cup {Editor!NoWrite}]
    <3>1. write' = [q \in Editor!Pages |-> write'[q]]
      BY <1>1, <1>2 DEF EditorTypeInv
    <3>2. \A q \in Editor!Pages : write'[q] \in Posts \cup {Editor!NoWrite}
      BY <1>2, <1>6 DEF EditorTypeInv
    <3> QED
      BY <3>1, <3>2
  <2> QED
    BY <1>1, <1>2, <2>1 DEF EditorTypeInv
<1>8. \A q \in Editor!Pages : write'[q].phase = "open" <=> q = p
  BY <1>3, <1>6 DEF IsOpen
<1>9. OneOpen' /\ FileHolds'
  BY <1>1, <1>8 DEF OneOpen, FileHolds, IsOpen
<1>10. PostsAgree'
  <2> SUFFICES ASSUME NEW q \in Editor!Pages, write'[q] # Editor!NoWrite
               PROVE  /\ write'[q].base <= writes
                      /\ write'[q].base = writes =>
                             \A f \in Flags \ write'[q].chosen :
                                 write'[q].content[f] = last[f]
    <3>1. writes' = writes /\ last' = last
      BY <1>1
    <3> QED
      BY <3>1, Zenon DEF PostsAgree, Agrees
  <2>1. write[q] # Editor!NoWrite
    BY <1>5, <1>6, EditorConstants
  <2>2. /\ write'[q].base = write[q].base /\ write'[q].chosen = write[q].chosen
        /\ write'[q].content = write[q].content
    BY <1>6
  <2> QED
    BY <2>1, <2>2 DEF EditorInv, PostsAgree, Agrees
<1>11. AnswersAgree'
  BY <1>1 DEF EditorInv, AnswersAgree
<1>12. PagesAgree'
  BY <1>1 DEF EditorInv, PagesAgree, Agrees
<1>13. "unasked change" \notin broken'
  BY <1>4 DEF EditorInv
<1> QED
  BY <1>7, <1>9, <1>10, <1>11, <1>12, <1>13 DEF EditorInv

\* A page that asks again has no answer.
LEMMA ReadsReloaded ==
    ASSUME EditorTypeInv, NEW p \in Editor!Pages, Editor!Reloading(p)
    PROVE  /\ reads' \in [Editor!Pages -> Answers \cup {NoRead, Asked}]
           /\ \A q \in Editor!Pages : reads'[q] \in Answers => reads'[q] = reads[q]
BY EditorConstants DEF Editor!Reloading, EditorTypeInv

\* A page whose spinner stays is of no use.
LEMMA DataUnanswered ==
    ASSUME EditorTypeInv, NEW pages, data' = Editor!Unanswered(pages)
    PROVE  /\ data' \in [Editor!Pages -> Editor!Config \cup {Null, Error, Unusable}]
           /\ \A q \in Editor!Pages : data'[q] = data[q] \/ data'[q] = Unusable
BY DEF Editor!Unanswered, EditorTypeInv

\* The pages, when some have become useless and the file has perhaps been written.
LEMMA PagesStillAgree ==
    ASSUME EditorTypeInv, PagesAgree, UNCHANGED <<edited, seen>>,
           \A q \in Editor!Pages : data'[q] = data[q] \/ data'[q] = Unusable,
           (writes' = writes /\ last' = last) \/ writes' = writes + 1
    PROVE  PagesAgree'
<1> SUFFICES ASSUME NEW q \in Editor!Pages
             PROVE  /\ seen[q] <= writes'
                    /\ q \in BasicPages =>
                           /\ data'[q] # Error
                           /\ data'[q] \in Editor!Config /\ seen[q] = writes' =>
                                  \A f \in Flags \ edited[q] : data'[q][f] = last'[f]
  <2>1. seen' = seen /\ edited' = edited
    OBVIOUS
  <2> QED
    BY <2>1, Zenon DEF PagesAgree, Agrees
<1>1. seen[q] <= writes /\ seen[q] \in Nat /\ writes \in Nat
  BY DEF EditorTypeInv, PagesAgree
<1>2. ASSUME q \in BasicPages PROVE data'[q] # Error
  BY <1>2, EditorConstants DEF PagesAgree
<1>3. CASE writes' = writes /\ last' = last
  <2>1. ASSUME q \in BasicPages, data'[q] \in Editor!Config, seen[q] = writes
        PROVE  \A f \in Flags \ edited[q] : data'[q][f] = last[f]
    <3>1. data'[q] = data[q]
      BY <2>1, EditorConstants
    <3> QED
      BY <2>1, <3>1 DEF PagesAgree, Agrees
  <2> QED
    BY <1>1, <1>2, <1>3, <2>1
<1>4. CASE writes' = writes + 1
  <2>1. seen[q] <= writes' /\ seen[q] # writes'
    BY <1>1, <1>4
  <2> QED
    BY <1>2, <2>1
<1> QED
  BY <1>3, <1>4

(***************************************************************************)
(* The second half of a write: the file holds it.  Either the file was     *)
(* written since the page read it, or the write agrees with the last one.  *)
(***************************************************************************)
LEMMA WriteFileStep ==
    ASSUME EditorInv, NEW p \in Editor!Pages, Editor!WriteFile(p) PROVE EditorInv'
<1> DEFINE content == write[p].content
<1>1. /\ write[p].phase = "open" /\ write' = [write EXCEPT ![p] = Editor!NoWrite]
      /\ file' = IF Editor!Size(content) >= file.size
                 THEN [content |-> content, size |-> Editor!Size(content)]
                 ELSE [file EXCEPT !.content = Damaged]
      /\ writes' = writes + 1 /\ last' = content
      /\ UNCHANGED <<edited, seen>>
  BY DEF Editor!WriteFile
<1>2. EditorTypeInv
  BY DEF EditorInv
<1>3. /\ write[p] \in Posts /\ write[p] # Editor!NoWrite /\ IsOpen(p)
      /\ content \in Editor!Config
  <2>1. write[p] \in Posts
    BY <1>1, <1>2, EditorConstants DEF EditorTypeInv
  <2> QED
    BY <1>1, <2>1, EditorConstants DEF Posts, IsOpen
<1>4. file'.content = content
  <2>1. file.size = 0
    <3>1. file = [content |-> Damaged, size |-> 0]
      BY <1>3, Zenon DEF EditorInv, FileHolds
    <3> QED
      BY <3>1
  <2>2. Editor!Size(content) >= file.size
    BY <1>3, <2>1, ContentSize
  <2> HIDE DEF content
  <2> QED
    BY <1>1, <2>2
<1>5. \A q \in Editor!Pages \ {p} : write'[q] = write[q] /\ ~IsOpen(q)
  BY <1>1, <1>2, <1>3 DEF EditorInv, OneOpen, EditorTypeInv
<1>6. write'[p] = Editor!NoWrite /\ \A q \in Editor!Pages : write'[q].phase # "open"
  BY <1>1, <1>2, <1>5, EditorConstants DEF EditorTypeInv, IsOpen
<1>7. \/ Editor!Reloading(p) /\ UNCHANGED data
      \/ data' = Editor!Unanswered({p}) /\ UNCHANGED reads
  BY DEF Editor!WriteFile
<1>8. /\ reads' \in [Editor!Pages -> Answers \cup {NoRead, Asked}]
      /\ \A q \in Editor!Pages : reads'[q] \in Answers => reads'[q] = reads[q]
      /\ data' \in [Editor!Pages -> Editor!Config \cup {Null, Error, Unusable}]
      /\ \A q \in Editor!Pages : data'[q] = data[q] \/ data'[q] = Unusable
  <2>1. CASE Editor!Reloading(p) /\ UNCHANGED data
    BY <1>2, <2>1, ReadsReloaded DEF EditorTypeInv
  <2>2. CASE data' = Editor!Unanswered({p}) /\ UNCHANGED reads
    BY <1>2, <2>2, DataUnanswered DEF EditorTypeInv
  <2> QED
    BY <1>7, <2>1, <2>2
<1>9. EditorTypeInv'
  BY <1>1, <1>2, <1>3, <1>8 DEF EditorTypeInv
<1>10. OneOpen' /\ FileHolds'
  BY <1>1, <1>4, <1>6 DEF OneOpen, FileHolds, IsOpen
<1>11. PostsAgree'
  <2> SUFFICES ASSUME NEW q \in Editor!Pages, write'[q] # Editor!NoWrite
               PROVE  write'[q].base < writes'
    <3>1. \A q \in Editor!Pages : write'[q] # Editor!NoWrite =>
              write'[q].base \in Nat /\ writes' \in Nat
      BY <1>9 DEF EditorTypeInv, Posts
    <3> QED
      BY <3>1 DEF PostsAgree
  <2>1. q # p /\ write'[q] = write[q]
    BY <1>5, <1>6
  <2>2. write[q] \in Posts /\ write[q].base <= writes
    BY <1>2, <2>1 DEF EditorInv, PostsAgree, EditorTypeInv
  <2>3. write[q].base \in Nat /\ writes \in Nat
    BY <1>2, <2>2 DEF EditorTypeInv, Posts
  <2> QED
    BY <1>1, <2>1, <2>2, <2>3
<1>12. AnswersAgree'
  <2> SUFFICES ASSUME NEW q \in Editor!Pages, reads'[q] \in Answers
               PROVE  reads'[q].version <= writes' /\ reads'[q].version # writes'
    BY DEF AnswersAgree
  <2>1. reads'[q] = reads[q] /\ reads[q] \in Answers /\ reads[q].version <= writes
    BY <1>8 DEF EditorInv, AnswersAgree
  <2>2. reads[q].version \in Nat /\ writes \in Nat
    BY <1>2, <2>1 DEF Answers, EditorTypeInv
  <2> QED
    BY <1>1, <2>1, <2>2
<1>13. PagesAgree'
  BY <1>1, <1>2, <1>8, PagesStillAgree DEF EditorInv
<1>14. "unasked change" \notin broken'
  <2>1. "unasked change" \notin broken
    BY DEF EditorInv
  <2>2. write[p].base <= writes /\ write[p].base \in Nat /\ writes \in Nat
    BY <1>2, <1>3 DEF EditorInv, PostsAgree, EditorTypeInv, Posts
  <2>3. CASE write[p].base < writes
    <3>1. broken' \subseteq broken \cup {"stale copy"}
      BY <2>3 DEF Editor!WriteFile
    <3>2. "unasked change" # "stale copy"
      OBVIOUS
    <3> QED
      BY <2>1, <3>1, <3>2
  <2>4. CASE write[p].base = writes
    <3>1. ~\E f \in Flags \ write[p].chosen : write[p].content[f] # last[f]
      BY <1>3, <2>4 DEF EditorInv, PostsAgree, Agrees
    <3>2. broken' = broken
      BY <3>1 DEF Editor!WriteFile
    <3> QED
      BY <2>1, <3>2
  <2>5. write[p].base < writes \/ write[p].base = writes
    BY <2>2
  <2> QED
    BY <2>3, <2>4, <2>5, Zenon
<1> QED
  BY <1>9, <1>10, <1>11, <1>12, <1>13, <1>14 DEF EditorInv

LEMMA WriteRefusedStep ==
    ASSUME EditorInv, NEW p \in Editor!Pages, Editor!WriteRefused(p) PROVE EditorInv'
<1>1. /\ write[p].phase = "posted" /\ write' = [write EXCEPT ![p] = Editor!NoWrite]
      /\ Editor!Reloading(p)
      /\ UNCHANGED <<file, data, edited, seen, writes, last, broken>>
  BY DEF Editor!WriteRefused
<1>2. EditorTypeInv
  BY DEF EditorInv
<1>3. /\ write'[p] = Editor!NoWrite /\ ~IsOpen(p)
      /\ \A q \in Editor!Pages \ {p} : write'[q] = write[q]
  BY <1>1, <1>2 DEF EditorTypeInv, IsOpen
<1>4. /\ reads' \in [Editor!Pages -> Answers \cup {NoRead, Asked}]
      /\ \A q \in Editor!Pages : reads'[q] \in Answers => reads'[q] = reads[q]
  BY <1>1, <1>2, ReadsReloaded
<1>5. EditorTypeInv'
  BY <1>1, <1>2, <1>4 DEF EditorTypeInv
<1>6. \A q \in Editor!Pages : write'[q].phase = "open" <=> IsOpen(q)
  BY <1>3, EditorConstants DEF IsOpen
<1>7. OneOpen' /\ FileHolds'
  BY <1>1, <1>6 DEF EditorInv, OneOpen, FileHolds, IsOpen
<1>8. PostsAgree'
  BY <1>1, <1>3 DEF EditorInv, PostsAgree, Agrees
<1>9. AnswersAgree'
  BY <1>1, <1>4 DEF EditorInv, AnswersAgree
<1>10. PagesAgree'
  BY <1>1 DEF EditorInv, PagesAgree, Agrees
<1>11. "unasked change" \notin broken'
  BY <1>1 DEF EditorInv
<1> QED
  BY <1>5, <1>7, <1>8, <1>9, <1>10, <1>11 DEF EditorInv

\* The server dies with no write open: the file is as it was.
LEMMA ServerDiesStep == ASSUME EditorInv, Editor!ServerDies, Unbroken' PROVE EditorInv'
<1>1. /\ data' = Editor!Unanswered({p \in Editor!Pages : write[p] # Editor!NoWrite})
      /\ write' = [p \in Editor!Pages |-> Editor!NoWrite]
      /\ reads' = [p \in Editor!Pages |-> NoRead]
      /\ UNCHANGED <<file, edited, seen, writes, last>>
  BY DEF Editor!ServerDies
<1>2. EditorTypeInv
  BY DEF EditorInv
<1>3. \A q \in Editor!Pages : ~IsOpen(q)
  <2> SUFFICES ASSUME NEW q \in Editor!Pages, IsOpen(q) PROVE FALSE
    OBVIOUS
  <2>1. broken' = broken \cup {"died"}
    BY DEF Editor!ServerDies, IsOpen
  <2> QED
    BY <2>1 DEF Unbroken
<1>4. broken' = broken
  BY <1>3 DEF Editor!ServerDies, IsOpen
<1>5. /\ data' \in [Editor!Pages -> Editor!Config \cup {Null, Error, Unusable}]
      /\ \A q \in Editor!Pages : data'[q] = data[q] \/ data'[q] = Unusable
  BY <1>1, <1>2, DataUnanswered
<1>6. EditorTypeInv'
  BY <1>1, <1>2, <1>5 DEF EditorTypeInv
<1>7. \A q \in Editor!Pages : write'[q].phase # "open"
  BY <1>1, EditorConstants
<1>8. OneOpen' /\ FileHolds'
  BY <1>1, <1>3, <1>7 DEF EditorInv, OneOpen, FileHolds, IsOpen
<1>9. PostsAgree' /\ AnswersAgree'
  BY <1>1, EditorConstants DEF PostsAgree, AnswersAgree
<1>10. PagesAgree'
  BY <1>1, <1>2, <1>5, PagesStillAgree DEF EditorInv
<1>11. "unasked change" \notin broken'
  BY <1>4 DEF EditorInv
<1> QED
  BY <1>6, <1>8, <1>9, <1>10, <1>11 DEF EditorInv

LEMMA LoadPageStep ==
    ASSUME EditorInv, NEW p \in Editor!Pages, Editor!LoadPage(p) PROVE EditorInv'
<1>1. /\ data' = [data EXCEPT ![p] = Null] /\ reads' = [reads EXCEPT ![p] = Asked]
      /\ edited' = [edited EXCEPT ![p] = {}]
      /\ UNCHANGED <<file, seen, write, writes, last, broken>>
  BY DEF Editor!LoadPage
<1>2. EditorTypeInv
  BY DEF EditorInv
<1>3. EditorTypeInv'
  BY <1>1, <1>2 DEF EditorTypeInv
<1>4. AnswersAgree'
  BY <1>1, <1>2, EditorConstants DEF EditorInv, AnswersAgree, EditorTypeInv
<1>5. PagesAgree'
  <2> SUFFICES ASSUME NEW q \in Editor!Pages
               PROVE  /\ seen[q] <= writes
                      /\ q \in BasicPages =>
                             /\ data'[q] # Error
                             /\ data'[q] \in Editor!Config /\ seen[q] = writes =>
                                    \A f \in Flags \ edited'[q] : data'[q][f] = last[f]
    <3>1. writes' = writes /\ last' = last /\ seen' = seen
      BY <1>1
    <3> QED
      BY <3>1, Zenon DEF PagesAgree, Agrees
  <2>1. CASE q = p
    <3>1. data'[q] = Null
      BY <1>1, <1>2, <2>1 DEF EditorTypeInv
    <3> QED
      BY <3>1, EditorConstants DEF EditorInv, PagesAgree
  <2>2. CASE q # p
    <3>1. data'[q] = data[q] /\ edited'[q] = edited[q]
      BY <1>1, <1>2, <2>2 DEF EditorTypeInv
    <3> QED
      BY <3>1 DEF EditorInv, PagesAgree, Agrees
  <2> QED
    BY <2>1, <2>2
<1>6. OneOpen' /\ FileHolds' /\ PostsAgree' /\ "unasked change" \notin broken'
  BY <1>1, FileKept
<1> QED
  BY <1>3, <1>4, <1>5, <1>6 DEF EditorInv

-----------------------------------------------------------------------------
\* What has gone wrong is not forgotten.
LEMMA BrokenStays == ASSUME [Editor!Next]_(Editor!vars) PROVE broken \subseteq broken'
<1>1. CASE UNCHANGED Editor!vars
  BY <1>1 DEF Editor!vars
<1>2. CASE Editor!ServerDies
  BY <1>2 DEF Editor!ServerDies
<1>3. ASSUME NEW p \in Editor!Pages,
             \/ Editor!ReadFile(p) \/ Editor!SetFlagData(p) \/ Editor!ReadLost(p)
             \/ Editor!Edit(p) \/ Editor!WriteRefused(p) \/ Editor!LoadPage(p)
      PROVE  broken \subseteq broken'
  BY <1>3 DEF Editor!ReadFile, Editor!SetFlagData, Editor!ReadLost, Editor!Edit,
              Editor!WriteRefused, Editor!LoadPage
<1>4. ASSUME NEW p \in Editor!Pages, Editor!Save(p) \/ Editor!SaveUpdate(p)
      PROVE  broken \subseteq broken'
  BY <1>4 DEF Editor!Save, Editor!SaveUpdate, Editor!Post
<1>5. ASSUME NEW p \in Editor!Pages, Editor!OpenFile(p) PROVE broken \subseteq broken'
  BY <1>5 DEF Editor!OpenFile
<1>6. ASSUME NEW p \in Editor!Pages, Editor!WriteFile(p) PROVE broken \subseteq broken'
  BY <1>6 DEF Editor!WriteFile
<1> QED
  BY <1>1, <1>2, <1>3, <1>4, <1>5, <1>6 DEF Editor!Next

LEMMA EditorInvStep ==
    ASSUME EditorInv, Editor!Next \/ UNCHANGED Editor!vars, Unbroken' PROVE EditorInv'
<1>1. ASSUME NEW p \in Editor!Pages,
             \/ Editor!ReadFile(p) \/ Editor!SetFlagData(p) \/ Editor!ReadLost(p)
             \/ Editor!Edit(p) \/ Editor!Save(p) \/ Editor!SaveUpdate(p)
             \/ Editor!OpenFile(p) \/ Editor!WriteFile(p) \/ Editor!WriteRefused(p)
             \/ Editor!LoadPage(p)
      PROVE  EditorInv'
  BY <1>1, ReadFileStep, SetFlagDataStep, ReadLostStep, EditStep, SaveStep,
     SaveUpdateStep, OpenFileStep, WriteFileStep, WriteRefusedStep, LoadPageStep
<1>2. CASE Editor!ServerDies
  BY <1>2, ServerDiesStep
<1>3. CASE UNCHANGED Editor!vars
  <2>1. UNCHANGED <<file, data, reads, edited, seen, write, writes, last, broken>>
    BY <1>3 DEF Editor!vars, Editor!pageVars
  <2>2. EditorTypeInv' /\ AnswersAgree' /\ PagesAgree'
    BY <2>1 DEF EditorInv, EditorTypeInv, AnswersAgree, PagesAgree, Agrees
  <2> QED
    BY <2>1, <2>2, FileKept DEF EditorInv
<1> QED
  BY <1>1, <1>2, <1>3 DEF Editor!Next

(***************************************************************************)
(* Whatever set of flags and pages, and in whatever order reads, edits,    *)
(* writes and deaths of the server interleave: a file that nobody is       *)
(* writing holds all the flags, and no save changes a flag that its        *)
(* operator did not choose, unless two writes overlapped, the server died  *)
(* in one, or a page saved what it had not loaded; or, for the flag, the   *)
(* file was written since (BasicView.tsx:57-71, write-to-file/route.ts).   *)
(***************************************************************************)
THEOREM PartsFlagsSurvive == PartsSpec => []FlagsSurvive
<1> DEFINE Inv == Unbroken => EditorInv
<1>1. PartsInit => Inv
  BY InitEditorInv DEF PartsInit
<1>2. Inv /\ [PartsNext]_partsVars => Inv'
  <2> SUFFICES ASSUME Unbroken => EditorInv, [PartsNext]_partsVars, Unbroken'
               PROVE  EditorInv'
    OBVIOUS
  <2>1. Editor!Next \/ UNCHANGED Editor!vars
    BY DEF PartsNext, partsVars, editorVars, Editor!vars, Editor!pageVars
  <2>2. Unbroken
    BY <2>1, BrokenStays DEF Unbroken
  <2> QED
    BY <2>1, <2>2, EditorInvStep
<1>3. Inv => FlagsSurvive
  <2> SUFFICES ASSUME Inv, Unbroken
               PROVE  /\ \/ \E p \in Editor!Pages : write[p].phase = "open"
                         \/ file.content \in Editor!Config
                      /\ "unasked change" \notin broken
    BY DEF FlagsSurvive, Editor!FlagsSurvive, Unbroken
  <2> QED
    BY DEF EditorInv, FileHolds, IsOpen, EditorTypeInv
<1> HIDE DEF Inv
<1> QED
  BY <1>1, <1>2, <1>3, PTL DEF PartsSpec

-----------------------------------------------------------------------------
(***************************************************************************)
(* The incident detectors.                                                 *)
(***************************************************************************)
\* The size of a set, as the instances of the modules name it.
LEMMA MonitorSize == ASSUME NEW S PROVE Monitor!Cardinality(S) = Cardinality(S)
BY DEF Monitor!Cardinality, Cardinality

LEMMA DetectorSize == ASSUME NEW S PROVE Detector!Cardinality(S) = Cardinality(S)
BY DEF Detector!Cardinality, Cardinality

(***************************************************************************)
(* TraceMonitor.  What Jaeger has returned is still to be counted, or has  *)
(* been counted by one incident, or is no longer young.                    *)
(***************************************************************************)
Entries == [traceId : Traces, timestamp : Int, nth : Nat]

Reports == [service : Services, at : Nat, errors : SUBSET Entries]

MonitorTypeInv ==
    /\ clock \in Nat
    /\ started \in [Traces -> Nat \cup {Monitor!NotYet}]
    /\ handed \in [Traces -> Nat]
    /\ recentErrors \in [Services -> SUBSET Entries]
    /\ detected \in Seq(Reports)

HandedStarted == \A t \in Traces : handed[t] # 0 => started[t] # Monitor!NotYet

FewRecent ==
    \A s \in Services :
        /\ recentErrors[s] \subseteq Monitor!Found(s)
        /\ IsFiniteSet(recentErrors[s])
        /\ Cardinality(recentErrors[s]) < ErrorThreshold

CountedOrKept ==
    \A s \in Services : \A e \in Monitor!Found(s) :
        \/ e \in recentErrors[s]
        \/ ~Monitor!Young(e.traceId, clock)
        \/ \E k \in DOMAIN detected : e \in detected[k].errors

KeptIsUncounted ==
    \A s \in Services : \A k \in DOMAIN detected :
        recentErrors[s] \cap detected[k].errors = {}

ReportsAreDue ==
    \A k \in DOMAIN detected :
        /\ Cardinality(detected[k].errors) >= ErrorThreshold
        /\ \A e \in detected[k].errors :
               /\ e \in Monitor!Found(detected[k].service)
               /\ Monitor!Young(e.traceId, detected[k].at)

CountedOnce ==
    \A k, l \in DOMAIN detected :
        \A e \in detected[k].errors : e \in detected[l].errors => k = l

MonitorInv ==
    /\ MonitorTypeInv /\ HandedStarted /\ FewRecent /\ CountedOrKept
    /\ KeptIsUncounted /\ ReportsAreDue /\ CountedOnce

-----------------------------------------------------------------------------
LEMMA FoundMember ==
    ASSUME NEW s, NEW e
    PROVE  e \in Monitor!Found(s) <=>
               \E t \in Traces : \E k \in 1 .. handed[t] :
                   ServiceOf[t] = s /\ e = [traceId |-> t, timestamp |-> started[t], nth |-> k]
BY DEF Monitor!Found

LEMMA FoundMemberNext ==
    ASSUME NEW s, NEW e
    PROVE  e \in Monitor!Found(s)' <=>
               \E t \in Traces : \E k \in 1 .. handed'[t] :
                   ServiceOf[t] = s /\ e = [traceId |-> t, timestamp |-> started'[t], nth |-> k]
BY DEF Monitor!Found

LEMMA InitMonitorInv == Monitor!Init => MonitorInv
<1> SUFFICES ASSUME Monitor!Init PROVE MonitorInv
  OBVIOUS
<1>1. MonitorTypeInv /\ HandedStarted /\ KeptIsUncounted /\ ReportsAreDue /\ CountedOnce
  BY DEF Monitor!Init, MonitorTypeInv, HandedStarted, KeptIsUncounted, ReportsAreDue,
         CountedOnce, Monitor!NotYet
<1>2. \A s \in Services : Monitor!Found(s) = {}
  <2>1. \A t \in Traces : 1 .. handed[t] = {}
    BY DEF Monitor!Init
  <2> QED
    BY <2>1, FoundMember
<1>3. FewRecent
  BY <1>2, FS_EmptySet, PartsAssumption DEF Monitor!Init, FewRecent
<1>4. CountedOrKept
  BY <1>2 DEF CountedOrKept
<1> QED
  BY <1>1, <1>3, <1>4 DEF MonitorInv

\* A tick makes no error younger.
LEMMA MonitorTickStep == ASSUME MonitorInv, Monitor!Tick PROVE MonitorInv'
<1>1. clock' = clock + 1 /\ UNCHANGED <<started, recentErrors, handed, detected>>
  BY DEF Monitor!Tick
<1>2. clock \in Nat /\ started \in [Traces -> Int] /\ TimeWindow \in Nat
  BY PartsAssumption DEF MonitorInv, MonitorTypeInv, Monitor!NotYet
<1>3. \A s : Monitor!Found(s)' = Monitor!Found(s)
  BY <1>1 DEF Monitor!Found
<1>5. ASSUME NEW t \in Traces, Monitor!Young(t, clock)' PROVE Monitor!Young(t, clock)
  BY <1>1, <1>2, <1>5 DEF Monitor!Young
<1>6. ASSUME NEW s, NEW e \in Monitor!Found(s) PROVE e.traceId \in Traces
  BY FoundMember
<1>7. CountedOrKept'
  BY <1>1, <1>3, <1>5, <1>6 DEF MonitorInv, CountedOrKept
<1>8. ReportsAreDue'
  BY <1>1, <1>3 DEF MonitorInv, ReportsAreDue, Monitor!Young
<1>9. MonitorTypeInv' /\ HandedStarted' /\ FewRecent' /\ KeptIsUncounted' /\ CountedOnce'
  BY <1>1, <1>2, <1>3 DEF MonitorInv, MonitorTypeInv, HandedStarted, FewRecent,
                          KeptIsUncounted, CountedOnce
<1> QED
  BY <1>7, <1>8, <1>9 DEF MonitorInv

\* An error that happens has not been found before.
LEMMA ErrorHappensStep ==
    ASSUME MonitorInv, NEW t \in Traces, Monitor!ErrorHappens(t) PROVE MonitorInv'
<1>1. /\ started[t] = Monitor!NotYet /\ started' = [started EXCEPT ![t] = clock]
      /\ UNCHANGED <<clock, recentErrors, handed, detected>>
  BY DEF Monitor!ErrorHappens
<1>2. /\ clock \in Nat /\ started \in [Traces -> Nat \cup {Monitor!NotYet}]
      /\ handed \in [Traces -> Nat] /\ handed[t] = 0
  BY <1>1 DEF MonitorInv, MonitorTypeInv, HandedStarted
<1>3. \A u \in Traces : u # t => started'[u] = started[u]
  BY <1>1, <1>2
<1>4. \A s : Monitor!Found(s)' = Monitor!Found(s)
  <2>1. ASSUME NEW s, NEW e PROVE e \in Monitor!Found(s)' <=> e \in Monitor!Found(s)
    <3>1. \A u \in Traces : \A k \in 1 .. handed[u] : started'[u] = started[u]
      BY <1>2, <1>3
    <3>2. handed' = handed
      BY <1>1
    <3>3. ASSUME e \in Monitor!Found(s) PROVE e \in Monitor!Found(s)'
      <4>0. PICK u \in Traces : \E k \in 1 .. handed[u] :
                ServiceOf[u] = s /\ e = [traceId |-> u, timestamp |-> started[u], nth |-> k]
        BY <3>3, FoundMember
      <4>1. PICK k \in 1 .. handed[u] :
                ServiceOf[u] = s /\ e = [traceId |-> u, timestamp |-> started[u], nth |-> k]
        BY <4>0
      <4>2. k \in 1 .. handed'[u] /\ started'[u] = started[u]
        BY <3>1, <3>2, <4>1
      <4> QED
        BY <4>1, <4>2, FoundMemberNext
    <3>4. ASSUME e \in Monitor!Found(s)' PROVE e \in Monitor!Found(s)
      <4>0. PICK u \in Traces : \E k \in 1 .. handed'[u] :
                ServiceOf[u] = s /\ e = [traceId |-> u, timestamp |-> started'[u], nth |-> k]
        BY <3>4, FoundMemberNext
      <4>1. PICK k \in 1 .. handed'[u] :
                ServiceOf[u] = s /\ e = [traceId |-> u, timestamp |-> started'[u], nth |-> k]
        BY <4>0
      <4>2. k \in 1 .. handed[u] /\ started'[u] = started[u]
        BY <3>1, <3>2, <4>1
      <4> QED
        BY <4>1, <4>2, FoundMember
    <3> QED
      BY <3>3, <3>4
  <2> QED
    BY <2>1
<1>5. ASSUME NEW s, NEW e \in Monitor!Found(s)
      PROVE  e.traceId \in Traces /\ e.traceId # t
  <2>1. PICK u \in Traces : \E k \in 1 .. handed[u] :
            e = [traceId |-> u, timestamp |-> started[u], nth |-> k]
    BY FoundMember
  <2>2. u # t
    BY <1>2, <2>1
  <2> QED
    BY <2>1, <2>2
<1>6. \A u \in Traces : \A at : u # t => (Monitor!Young(u, at)' <=> Monitor!Young(u, at))
  BY <1>3 DEF Monitor!Young
<1>7. CountedOrKept'
  <2> SUFFICES ASSUME NEW s \in Services, NEW e \in Monitor!Found(s)'
               PROVE  \/ e \in recentErrors[s]
                      \/ ~Monitor!Young(e.traceId, clock)'
                      \/ \E k \in DOMAIN detected : e \in detected[k].errors
    BY <1>1 DEF CountedOrKept
  <2>1. e \in Monitor!Found(s) /\ e.traceId \in Traces /\ e.traceId # t
    BY <1>4, <1>5
  <2>2. Monitor!Young(e.traceId, clock)' <=> Monitor!Young(e.traceId, clock)
    BY <1>1, <1>3, <2>1 DEF Monitor!Young
  <2> QED
    BY <2>1, <2>2 DEF MonitorInv, CountedOrKept
<1>8. ReportsAreDue'
  <2> SUFFICES ASSUME NEW k \in DOMAIN detected
               PROVE  /\ Cardinality(detected[k].errors) >= ErrorThreshold
                      /\ \A e \in detected[k].errors :
                             /\ e \in Monitor!Found(detected[k].service)'
                             /\ Monitor!Young(e.traceId, detected[k].at)'
    BY <1>1 DEF ReportsAreDue
  <2>1. /\ Cardinality(detected[k].errors) >= ErrorThreshold
        /\ \A e \in detected[k].errors :
               /\ e \in Monitor!Found(detected[k].service)
               /\ Monitor!Young(e.traceId, detected[k].at)
    BY DEF MonitorInv, ReportsAreDue
  <2>2. ASSUME NEW e \in detected[k].errors
        PROVE  Monitor!Young(e.traceId, detected[k].at)'
    <3>1. e.traceId \in Traces /\ e.traceId # t
      BY <1>5, <2>1
    <3> QED
      BY <1>1, <1>3, <2>1, <3>1 DEF Monitor!Young
  <2>3. \A e \in detected[k].errors : e \in Monitor!Found(detected[k].service)'
    BY <1>1, <1>4, <2>1
  <2> QED
    BY <2>1, <2>2, <2>3, Zenon
<1>9. MonitorTypeInv' /\ HandedStarted'
  BY <1>1, <1>2 DEF MonitorInv, MonitorTypeInv, HandedStarted, Monitor!NotYet
<1>10. FewRecent' /\ KeptIsUncounted' /\ CountedOnce'
  BY <1>1, <1>4 DEF MonitorInv, FewRecent, KeptIsUncounted, CountedOnce
<1> QED
  BY <1>7, <1>8, <1>9, <1>10 DEF MonitorInv

-----------------------------------------------------------------------------
(***************************************************************************)
(* An answer of Jaeger for one service.                                    *)
(***************************************************************************)
LEMMA FoundFacts ==
    ASSUME NEW s, NEW e \in Monitor!Found(s)
    PROVE  /\ e.traceId \in Traces /\ ServiceOf[e.traceId] = s
           /\ e.timestamp = started[e.traceId]
           /\ e.nth \in 1 .. handed[e.traceId]
           /\ e = [traceId |-> e.traceId, timestamp |-> e.timestamp, nth |-> e.nth]
<1>1. PICK t \in Traces : \E k \in 1 .. handed[t] :
          ServiceOf[t] = s /\ e = [traceId |-> t, timestamp |-> started[t], nth |-> k]
  BY FoundMember
<1>2. PICK k \in 1 .. handed[t] :
          ServiceOf[t] = s /\ e = [traceId |-> t, timestamp |-> started[t], nth |-> k]
  BY <1>1
<1> QED
  BY <1>2

Answer(s, found) ==
    /\ found \subseteq {t \in Traces : ServiceOf[t] = s /\ started[t] # Monitor!NotYet}
    /\ Monitor!ProcessErrorTraces(s, found)
    /\ handed' = [t \in Traces |-> handed[t] + IF t \in found THEN 1 ELSE 0]
    /\ UNCHANGED <<clock, started>>

LEMMA AnswerHands ==
    ASSUME MonitorTypeInv, NEW s \in Services, NEW found, Answer(s, found)
    PROVE  /\ handed' \in [Traces -> Nat]
           /\ \A t \in Traces : handed'[t] >= handed[t]
           /\ \A t \in found : handed'[t] = handed[t] + 1
           /\ \A t \in Traces \ found : handed'[t] = handed[t]
BY DEF MonitorTypeInv, Answer

LEMMA NewErrors ==
    ASSUME MonitorTypeInv, NEW s \in Services, NEW found, Answer(s, found)
    PROVE  /\ Monitor!AsErrors(found) \subseteq Entries
           /\ Monitor!AsErrors(found) \subseteq Monitor!Found(s)'
           /\ \A q : Monitor!AsErrors(found) \cap Monitor!Found(q) = {}
           /\ IsFiniteSet(Monitor!AsErrors(found))
<1>1. /\ found \subseteq Traces /\ \A t \in found : ServiceOf[t] = s
      /\ started' = started
  BY DEF Answer
<1>2. /\ started \in [Traces -> Int] /\ handed \in [Traces -> Nat]
  BY DEF MonitorTypeInv, Monitor!NotYet
<1>3. \A t \in found : handed[t] + 1 \in Nat /\ handed[t] + 1 \in 1 .. handed'[t]
  BY <1>1, <1>2, AnswerHands
<1>4. Monitor!AsErrors(found) \subseteq Entries
  BY <1>1, <1>2, <1>3 DEF Monitor!AsErrors, Entries
<1>5. ASSUME NEW e \in Monitor!AsErrors(found)
      PROVE  /\ e \in Monitor!Found(s)'
             /\ \A q : e \notin Monitor!Found(q)
  <2>1. PICK t \in found :
            e = [traceId |-> t, timestamp |-> started[t], nth |-> handed[t] + 1]
    BY DEF Monitor!AsErrors
  <2>2. e \in Monitor!Found(s)'
    BY <1>1, <1>3, <2>1, FoundMemberNext
  <2>3. ASSUME NEW q, e \in Monitor!Found(q) PROVE FALSE
    <3>1. e.nth \in 1 .. handed[e.traceId]
      BY <2>3, FoundFacts
    <3>2. handed[t] + 1 \in 1 .. handed[t] /\ handed[t] \in Nat
      BY <1>1, <1>2, <2>1, <3>1
    <3> QED
      BY <3>2
  <2> QED
    BY <2>2, <2>3
<1>6. IsFiniteSet(Monitor!AsErrors(found))
  <2> DEFINE f == [t \in found |-> [traceId |-> t, timestamp |-> started[t], nth |-> handed[t] + 1]]
  <2>1. IsFiniteSet(found)
    BY <1>1, FS_Subset, PartsAssumption
  <2>2. f \in Surjection(found, Monitor!AsErrors(found))
    BY DEF Surjection, Monitor!AsErrors
  <2> QED
    BY <2>1, <2>2, FS_Surjection
<1> QED
  BY <1>4, <1>5, <1>6

LEMMA FoundThen ==
    ASSUME MonitorTypeInv, NEW s \in Services, NEW found, Answer(s, found)
    PROVE  /\ \A q : Monitor!Found(q) \subseteq Monitor!Found(q)'
           /\ Monitor!Found(s)' \subseteq Monitor!Found(s) \cup Monitor!AsErrors(found)
           /\ \A q : q # s => Monitor!Found(q)' \subseteq Monitor!Found(q)
<1>1. /\ found \subseteq Traces /\ \A t \in found : ServiceOf[t] = s
      /\ started' = started /\ handed \in [Traces -> Nat]
  BY DEF Answer, MonitorTypeInv
<1>2. ASSUME NEW q, NEW e \in Monitor!Found(q) PROVE e \in Monitor!Found(q)'
  <2>1. /\ e.traceId \in Traces /\ ServiceOf[e.traceId] = q
        /\ e.timestamp = started'[e.traceId] /\ e.nth \in 1 .. handed[e.traceId]
        /\ e = [traceId |-> e.traceId, timestamp |-> e.timestamp, nth |-> e.nth]
    BY <1>1, FoundFacts
  <2>2. e.nth \in 1 .. handed'[e.traceId]
    BY <1>1, <2>1, AnswerHands
  <2>3. e = [traceId |-> e.traceId, timestamp |-> started'[e.traceId], nth |-> e.nth]
    BY <2>1
  <2> QED
    BY <2>1, <2>2, <2>3, FoundMemberNext, Zenon
<1>3. ASSUME NEW q, NEW e \in Monitor!Found(q)'
      PROVE  e \in Monitor!Found(q) \/ (q = s /\ e \in Monitor!AsErrors(found))
  <2>1. PICK t \in Traces : \E k \in 1 .. handed'[t] :
            ServiceOf[t] = q /\ e = [traceId |-> t, timestamp |-> started'[t], nth |-> k]
    BY FoundMemberNext
  <2>2. PICK k \in 1 .. handed'[t] :
            ServiceOf[t] = q /\ e = [traceId |-> t, timestamp |-> started[t], nth |-> k]
    BY <1>1, <2>1
  <2>3. CASE k \in 1 .. handed[t]
    BY <2>2, <2>3, FoundMember
  <2>4. CASE k \notin 1 .. handed[t]
    <3>1. t \in found /\ k = handed[t] + 1
      BY <1>1, <2>2, <2>4, AnswerHands
    <3>2. q = s /\ e \in Monitor!AsErrors(found)
      BY <1>1, <2>2, <3>1 DEF Monitor!AsErrors
    <3> QED
      BY <3>2
  <2> QED
    BY <2>3, <2>4
<1> QED
  BY <1>2, <1>3

\* What is recent after the answer: finite, found, young, and not counted yet.
LEMMA RecentFacts ==
    ASSUME MonitorInv, NEW s \in Services, NEW found, Answer(s, found),
           NEW recent,
           recent = Monitor!Recent(recentErrors[s] \cup Monitor!AsErrors(found))
    PROVE  /\ recent \subseteq Entries /\ IsFiniteSet(recent)
           /\ recent \subseteq Monitor!Found(s)'
           /\ \A e \in recent : Monitor!Young(e.traceId, clock)
           /\ \A k \in DOMAIN detected : recent \cap detected[k].errors = {}
           /\ \A e \in Monitor!Found(s)' :
                  \/ e \in recent
                  \/ ~Monitor!Young(e.traceId, clock)
                  \/ \E k \in DOMAIN detected : e \in detected[k].errors
<1>1. /\ recentErrors[s] \subseteq Monitor!Found(s) /\ IsFiniteSet(recentErrors[s])
      /\ recentErrors[s] \subseteq Entries /\ MonitorTypeInv /\ started' = started
  BY DEF MonitorInv, MonitorTypeInv, FewRecent, Answer
<1>2. recent \subseteq recentErrors[s] \cup Monitor!AsErrors(found)
  BY DEF Monitor!Recent
<1>3. recent \subseteq Entries /\ recent \subseteq Monitor!Found(s)'
  <2>1. Monitor!AsErrors(found) \subseteq Entries
        /\ Monitor!AsErrors(found) \subseteq Monitor!Found(s)'
    BY <1>1, NewErrors
  <2>2. Monitor!Found(s) \subseteq Monitor!Found(s)'
    BY <1>1, FoundThen
  <2> QED
    BY <1>1, <1>2, <2>1, <2>2
<1>4. IsFiniteSet(recent)
  <2>1. IsFiniteSet(recentErrors[s] \cup Monitor!AsErrors(found))
    BY <1>1, NewErrors, FS_Union
  <2> QED
    BY <1>2, <2>1, FS_Subset
<1>5. ASSUME NEW e \in Monitor!Found(s)'
      PROVE  /\ e.traceId \in Traces
             /\ e \in Monitor!Found(s) \cup Monitor!AsErrors(found)
             /\ e.timestamp = started[e.traceId] /\ started[e.traceId] # Monitor!NotYet
  <2>1. e \in Monitor!Found(s) \cup Monitor!AsErrors(found)
    BY <1>1, FoundThen
  <2>2. CASE e \in Monitor!Found(s)
    <3>1. e.traceId \in Traces /\ e.timestamp = started[e.traceId]
          /\ e.nth \in 1 .. handed[e.traceId]
      BY <2>2, FoundFacts
    <3>2. handed[e.traceId] # 0
      BY <1>1, <3>1 DEF MonitorTypeInv
    <3>3. started[e.traceId] # Monitor!NotYet
      BY <3>1, <3>2 DEF MonitorInv, HandedStarted
    <3> QED
      BY <2>1, <3>1, <3>3
  <2>3. CASE e \in Monitor!AsErrors(found)
    <3>1. PICK t \in found :
              e = [traceId |-> t, timestamp |-> started[t], nth |-> handed[t] + 1]
      BY <2>3 DEF Monitor!AsErrors
    <3>2. t \in Traces /\ started[t] # Monitor!NotYet
      BY DEF Answer
    <3> QED
      BY <2>1, <3>1, <3>2
  <2> QED
    BY <2>1, <2>2, <2>3
<1>6. \A e \in recent : Monitor!Young(e.traceId, clock)
  BY <1>3, <1>5 DEF Monitor!Recent, Monitor!Young
<1>7. ASSUME NEW k \in DOMAIN detected PROVE recent \cap detected[k].errors = {}
  <2>1. recentErrors[s] \cap detected[k].errors = {}
    BY DEF MonitorInv, KeptIsUncounted
  <2>2. detected[k].errors \subseteq Monitor!Found(detected[k].service)
    BY DEF MonitorInv, ReportsAreDue
  <2>3. Monitor!AsErrors(found) \cap Monitor!Found(detected[k].service) = {}
    BY <1>1, NewErrors
  <2> QED
    BY <1>2, <2>1, <2>2, <2>3
<1>8. ASSUME NEW e \in Monitor!Found(s)', e \notin recent, Monitor!Young(e.traceId, clock)
      PROVE  \E k \in DOMAIN detected : e \in detected[k].errors
  <2>1. e.timestamp > clock - TimeWindow
    BY <1>5, <1>8 DEF Monitor!Young
  <2>2. e \notin recentErrors[s] \cup Monitor!AsErrors(found)
    BY <1>8, <2>1 DEF Monitor!Recent
  <2>3. e \in Monitor!Found(s)
    BY <1>5, <2>2
  <2> QED
    BY <1>8, <2>2, <2>3 DEF MonitorInv, CountedOrKept
<1> QED
  BY <1>3, <1>4, <1>6, <1>7, <1>8

\* What an answer leaves as it is for the reports made before it.
LEMMA OldReports ==
    ASSUME MonitorInv, NEW s \in Services, NEW found, Answer(s, found),
           NEW k \in DOMAIN detected
    PROVE  /\ Cardinality(detected[k].errors) >= ErrorThreshold
           /\ \A e \in detected[k].errors :
                  /\ e \in Monitor!Found(detected[k].service)
                  /\ \A q : q = detected[k].service => e \in Monitor!Found(q)'
                  /\ Monitor!Young(e.traceId, detected[k].at)
<1>1. /\ Cardinality(detected[k].errors) >= ErrorThreshold
      /\ \A e \in detected[k].errors :
             /\ e \in Monitor!Found(detected[k].service)
             /\ Monitor!Young(e.traceId, detected[k].at)
  BY DEF MonitorInv, ReportsAreDue
<1>2. \A q : Monitor!Found(q) \subseteq Monitor!Found(q)'
  BY FoundThen DEF MonitorInv
<1> QED
  BY <1>1, <1>2

\* Too few errors: they are kept.
LEMMA KeptStep ==
    ASSUME MonitorInv, NEW s \in Services, NEW found, Answer(s, found),
           NEW recent,
           recent = Monitor!Recent(recentErrors[s] \cup Monitor!AsErrors(found)),
           ~(Cardinality(recent) >= ErrorThreshold)
    PROVE  MonitorInv'
<1>1. /\ recentErrors' = [recentErrors EXCEPT ![s] = recent]
      /\ UNCHANGED <<clock, started, detected>>
      /\ MonitorTypeInv
  <2>1. Monitor!ProcessErrorTraces(s, found) /\ UNCHANGED <<clock, started>>
    BY DEF Answer
  <2>2. recentErrors' = [recentErrors EXCEPT ![s] = recent] /\ detected' = detected
    BY <2>1, MonitorSize, Zenon DEF Monitor!ProcessErrorTraces
  <2> QED
    BY <2>1, <2>2 DEF MonitorInv
<1>2. /\ recent \subseteq Entries /\ IsFiniteSet(recent)
      /\ recent \subseteq Monitor!Found(s)'
      /\ \A k \in DOMAIN detected : recent \cap detected[k].errors = {}
      /\ \A e \in Monitor!Found(s)' :
             \/ e \in recent
             \/ ~Monitor!Young(e.traceId, clock)
             \/ \E k \in DOMAIN detected : e \in detected[k].errors
  BY RecentFacts
<1>3. \A t, at : started' = started => (Monitor!Young(t, at) <=>
          started'[t] # Monitor!NotYet /\ started'[t] > at - TimeWindow)
  BY DEF Monitor!Young
<1>4. /\ recentErrors'[s] = recent
      /\ \A q \in Services \ {s} : recentErrors'[q] = recentErrors[q]
      /\ recentErrors' \in [Services -> SUBSET Entries]
  BY <1>1, <1>2 DEF MonitorTypeInv
<1>5. MonitorTypeInv' /\ HandedStarted'
  <2>1. handed' \in [Traces -> Nat]
    BY <1>1, AnswerHands
  <2>2. ASSUME NEW t \in Traces, handed'[t] # 0 PROVE started[t] # Monitor!NotYet
    <3>1. CASE t \in found
      BY <3>1 DEF Answer
    <3>2. CASE t \notin found
      BY <1>1, <2>2, <3>2, AnswerHands DEF MonitorInv, HandedStarted
    <3> QED
      BY <3>1, <3>2
  <2> QED
    BY <1>1, <1>4, <2>1, <2>2 DEF MonitorTypeInv, HandedStarted, Monitor!NotYet
<1>6. FewRecent'
  <2> SUFFICES ASSUME NEW q \in Services
               PROVE  /\ recentErrors'[q] \subseteq Monitor!Found(q)'
                      /\ IsFiniteSet(recentErrors'[q])
                      /\ Cardinality(recentErrors'[q]) < ErrorThreshold
    BY DEF FewRecent
  <2>1. CASE q = s
    <3>0. Cardinality(recent) \in Nat /\ ErrorThreshold \in Nat
      BY <1>2, FS_CardinalityType, PartsAssumption
    <3>1. Cardinality(recent) < ErrorThreshold
      BY <3>0
    <3> QED
      BY <1>2, <1>4, <2>1, <3>1
  <2>2. CASE q # s
    <3>1. Monitor!Found(q) \subseteq Monitor!Found(q)'
      BY <1>1, FoundThen
    <3> QED
      BY <1>4, <2>2, <3>1 DEF MonitorInv, FewRecent
  <2> QED
    BY <2>1, <2>2
<1>7. CountedOrKept'
  <2> SUFFICES ASSUME NEW q \in Services, NEW e \in Monitor!Found(q)'
               PROVE  \/ e \in recentErrors'[q]
                      \/ ~Monitor!Young(e.traceId, clock)
                      \/ \E k \in DOMAIN detected : e \in detected[k].errors
    BY <1>1 DEF CountedOrKept, Monitor!Young
  <2>1. CASE q = s
    BY <1>2, <1>4, <2>1
  <2>2. CASE q # s
    <3>1. e \in Monitor!Found(q)
      BY <1>1, <2>2, FoundThen
    <3> QED
      BY <1>4, <2>2, <3>1 DEF MonitorInv, CountedOrKept
  <2> QED
    BY <2>1, <2>2
<1>8. KeptIsUncounted'
  <2> SUFFICES ASSUME NEW q \in Services, NEW k \in DOMAIN detected
               PROVE  recentErrors'[q] \cap detected[k].errors = {}
    BY <1>1 DEF KeptIsUncounted
  <2> QED
    BY <1>2, <1>4 DEF MonitorInv, KeptIsUncounted
<1>9. ReportsAreDue'
  <2> SUFFICES ASSUME NEW k \in DOMAIN detected, detected' = detected
               PROVE  /\ Cardinality(detected[k].errors) >= ErrorThreshold
                      /\ \A e \in detected[k].errors :
                             /\ e \in Monitor!Found(detected[k].service)'
                             /\ Monitor!Young(e.traceId, detected[k].at)'
    BY <1>1 DEF ReportsAreDue
  <2> QED
    BY <1>1, OldReports DEF Monitor!Young
<1>10. CountedOnce'
  BY <1>1 DEF MonitorInv, CountedOnce
<1> QED
  BY <1>5, <1>6, <1>7, <1>8, <1>9, <1>10 DEF MonitorInv

\* Enough errors: they are reported, and forgotten.
LEMMA ReportedStep ==
    ASSUME MonitorInv, NEW s \in Services, NEW found, Answer(s, found),
           NEW recent,
           recent = Monitor!Recent(recentErrors[s] \cup Monitor!AsErrors(found)),
           Cardinality(recent) >= ErrorThreshold
    PROVE  MonitorInv'
<1> DEFINE report == [service |-> s, at |-> clock, errors |-> recent]
<1>1. /\ recentErrors' = [recentErrors EXCEPT ![s] = {}]
      /\ detected' = Append(detected, report)
      /\ UNCHANGED <<clock, started>>
      /\ MonitorTypeInv
  <2>1. Monitor!ProcessErrorTraces(s, found) /\ UNCHANGED <<clock, started>>
    BY DEF Answer
  <2>2. /\ recentErrors' = [recentErrors EXCEPT ![s] = {}]
        /\ Monitor!TriggerIncident(s, recent)
    BY <2>1, MonitorSize, Zenon DEF Monitor!ProcessErrorTraces
  <2> QED
    BY <2>1, <2>2 DEF MonitorInv, Monitor!TriggerIncident
<1>2. /\ recent \subseteq Entries /\ IsFiniteSet(recent)
      /\ recent \subseteq Monitor!Found(s)'
      /\ \A e \in recent : Monitor!Young(e.traceId, clock)
      /\ \A k \in DOMAIN detected : recent \cap detected[k].errors = {}
      /\ \A e \in Monitor!Found(s)' :
             \/ e \in recent
             \/ ~Monitor!Young(e.traceId, clock)
             \/ \E k \in DOMAIN detected : e \in detected[k].errors
  BY RecentFacts
<1>3. report \in Reports
  BY <1>1, <1>2 DEF Reports, MonitorTypeInv
<1>4. /\ recentErrors'[s] = {}
      /\ \A q \in Services \ {s} : recentErrors'[q] = recentErrors[q]
      /\ recentErrors' \in [Services -> SUBSET Entries]
  BY <1>1 DEF MonitorTypeInv
<1>5. PICK last1 \in Nat \ {0} :
          /\ last1 = Len(detected) + 1 /\ DOMAIN detected = 1 .. last1 - 1
          /\ DOMAIN detected' = 1 .. last1
          /\ detected' \in Seq(Reports)
          /\ detected'[last1] = report
          /\ \A k \in DOMAIN detected : detected'[k] = detected[k]
  <2>1. detected \in Seq(Reports)
    BY <1>1 DEF MonitorTypeInv
  <2> HIDE DEF report
  <2>2. /\ detected' \in Seq(Reports) /\ Len(detected') = Len(detected) + 1
        /\ \A k \in 1 .. Len(detected) : detected'[k] = detected[k]
        /\ detected'[Len(detected) + 1] = report
    BY <1>1, <1>3, <2>1, AppendProperties
  <2>3. /\ Len(detected) \in Nat /\ DOMAIN detected = 1 .. Len(detected)
        /\ DOMAIN detected' = 1 .. Len(detected')
    BY <2>1, <2>2
  <2> QED
    BY <2>2, <2>3
<1>6. \A k \in DOMAIN detected' : k \in DOMAIN detected \/ k = last1
  BY <1>5
<1>7. DOMAIN detected \subseteq DOMAIN detected' /\ last1 \in DOMAIN detected'
  BY <1>5
<1>8. /\ detected'[last1].service = s /\ detected'[last1].at = clock
      /\ detected'[last1].errors = recent
  BY <1>5
<1> HIDE DEF report
<1>9. MonitorTypeInv' /\ HandedStarted'
  <2>1. handed' \in [Traces -> Nat]
    BY <1>1, AnswerHands
  <2>2. ASSUME NEW t \in Traces, handed'[t] # 0 PROVE started[t] # Monitor!NotYet
    <3>1. CASE t \in found
      BY <3>1 DEF Answer
    <3>2. CASE t \notin found
      BY <1>1, <2>2, <3>2, AnswerHands DEF MonitorInv, HandedStarted
    <3> QED
      BY <3>1, <3>2
  <2> QED
    BY <1>1, <1>4, <1>5, <2>1, <2>2 DEF MonitorTypeInv, HandedStarted, Monitor!NotYet
<1>10. FewRecent'
  <2> SUFFICES ASSUME NEW q \in Services
               PROVE  /\ recentErrors'[q] \subseteq Monitor!Found(q)'
                      /\ IsFiniteSet(recentErrors'[q])
                      /\ Cardinality(recentErrors'[q]) < ErrorThreshold
    BY DEF FewRecent
  <2>1. CASE q = s
    BY <1>4, <2>1, FS_EmptySet, PartsAssumption
  <2>2. CASE q # s
    <3>1. Monitor!Found(q) \subseteq Monitor!Found(q)'
      BY <1>1, FoundThen
    <3> QED
      BY <1>4, <2>2, <3>1 DEF MonitorInv, FewRecent
  <2> QED
    BY <2>1, <2>2
<1>11. CountedOrKept'
  <2> SUFFICES ASSUME NEW q \in Services, NEW e \in Monitor!Found(q)'
               PROVE  \/ e \in recentErrors'[q]
                      \/ ~Monitor!Young(e.traceId, clock)
                      \/ \E k \in DOMAIN detected' : e \in detected'[k].errors
    BY <1>1 DEF CountedOrKept, Monitor!Young
  <2>1. ASSUME \E k \in DOMAIN detected : e \in detected[k].errors
        PROVE  \E k \in DOMAIN detected' : e \in detected'[k].errors
    BY <1>5, <1>7, <2>1
  <2>2. CASE q = s
    BY <1>2, <1>7, <1>8, <2>1, <2>2
  <2>3. CASE q # s
    <3>1. e \in Monitor!Found(q)
      BY <1>1, <2>3, FoundThen
    <3> QED
      BY <1>4, <2>1, <2>3, <3>1 DEF MonitorInv, CountedOrKept
  <2> QED
    BY <2>2, <2>3
<1>12. KeptIsUncounted'
  <2> SUFFICES ASSUME NEW q \in Services, NEW k \in DOMAIN detected'
               PROVE  recentErrors'[q] \cap detected'[k].errors = {}
    BY DEF KeptIsUncounted
  <2>1. CASE q = s
    BY <1>4, <2>1
  <2>2. CASE q # s /\ k \in DOMAIN detected
    BY <1>4, <1>5, <2>2 DEF MonitorInv, KeptIsUncounted
  <2>3. CASE q # s /\ k = last1
    <3>1. ASSUME NEW e, e \in recentErrors[q], e \in recent PROVE FALSE
      <4>1. recentErrors[q] \subseteq Monitor!Found(q)
        BY DEF MonitorInv, FewRecent
      <4>2. Monitor!Found(q) \subseteq Monitor!Found(q)'
        BY <1>1, FoundThen
      <4>3. e \in Monitor!Found(q)' /\ e \in Monitor!Found(s)'
        BY <1>2, <3>1, <4>1, <4>2
      <4>4. ServiceOf[e.traceId] = q
        BY <3>1, <4>1, FoundFacts
      <4>5. PICK t \in Traces : \E j \in 1 .. handed'[t] :
                ServiceOf[t] = s /\ e = [traceId |-> t, timestamp |-> started'[t], nth |-> j]
        BY <4>3, FoundMemberNext
      <4> QED
        BY <2>3, <4>4, <4>5
    <3> QED
      BY <1>4, <1>8, <2>3, <3>1
  <2> QED
    BY <1>6, <2>1, <2>2, <2>3
<1>13. ReportsAreDue'
  <2> SUFFICES ASSUME NEW k \in DOMAIN detected'
               PROVE  /\ Cardinality(detected'[k].errors) >= ErrorThreshold
                      /\ \A e \in detected'[k].errors :
                             /\ e \in Monitor!Found(detected[k].service)'
                             /\ Monitor!Young(e.traceId, detected[k].at)'
    BY DEF ReportsAreDue
  <2>1. CASE k \in DOMAIN detected
    <3>1. detected'[k] = detected[k]
      BY <1>5, <2>1
    <3> QED
      BY <1>1, <2>1, <3>1, OldReports DEF Monitor!Young
  <2>2. CASE k = last1
    <3>1. \A q : q = s => Monitor!Found(q)' = Monitor!Found(s)'
      OBVIOUS
    <3>2. recent \subseteq Monitor!Found(detected[k].service)'
      BY <1>2, <1>8, <2>2
    <3>3. \A e \in recent : Monitor!Young(e.traceId, detected[k].at)'
      BY <1>1, <1>2, <1>8, <2>2 DEF Monitor!Young
    <3> QED
      BY <1>8, <2>2, <3>2, <3>3
  <2> QED
    BY <1>6, <2>1, <2>2
<1>14. CountedOnce'
  <2> SUFFICES ASSUME NEW k \in DOMAIN detected', NEW l \in DOMAIN detected',
                      NEW e \in detected'[k].errors, e \in detected'[l].errors
               PROVE  k = l
    BY DEF CountedOnce
  <2>1. CASE k \in DOMAIN detected /\ l \in DOMAIN detected
    BY <1>5, <2>1 DEF MonitorInv, CountedOnce
  <2>2. CASE k \in DOMAIN detected /\ l = last1
    BY <1>2, <1>5, <1>8, <2>2
  <2>3. CASE k = last1 /\ l \in DOMAIN detected
    BY <1>2, <1>5, <1>8, <2>3
  <2> QED
    BY <1>6, <2>1, <2>2, <2>3
<1> QED
  BY <1>9, <1>10, <1>11, <1>12, <1>13, <1>14 DEF MonitorInv

LEMMA MonitorInvStep ==
    ASSUME MonitorInv, Monitor!Next \/ UNCHANGED Monitor!vars PROVE MonitorInv'
<1>1. CASE Monitor!Tick
  BY <1>1, MonitorTickStep
<1>2. ASSUME NEW t \in Traces, Monitor!ErrorHappens(t) PROVE MonitorInv'
  BY <1>2, ErrorHappensStep
<1>3. ASSUME NEW s \in Services, Monitor!CheckServiceForErrors(s) PROVE MonitorInv'
  <2>1. PICK found : Answer(s, found)
    BY <1>3 DEF Monitor!CheckServiceForErrors, Answer
  <2> DEFINE recent == Monitor!Recent(recentErrors[s] \cup Monitor!AsErrors(found))
  <2> QED
    BY <2>1, KeptStep, ReportedStep
<1>4. CASE UNCHANGED Monitor!vars
  BY <1>4 DEF Monitor!vars, MonitorInv, MonitorTypeInv, HandedStarted, FewRecent,
              CountedOrKept, KeptIsUncounted, ReportsAreDue, CountedOnce,
              Monitor!Found, Monitor!Young
<1> QED
  BY <1>1, <1>2, <1>3, <1>4 DEF Monitor!Next

LEMMA MonitorInvImplies == MonitorInv => Monitor!MonitorReportsWhenDue
<1> SUFFICES ASSUME MonitorInv PROVE Monitor!MonitorReportsWhenDue
  OBVIOUS
<1>1. ASSUME NEW s \in Services PROVE Cardinality(Monitor!YoungUncounted(s)) < ErrorThreshold
  <2>1. Monitor!YoungUncounted(s) \subseteq recentErrors[s]
    BY DEF Monitor!YoungUncounted, MonitorInv, CountedOrKept
  <2>2. /\ IsFiniteSet(recentErrors[s]) /\ Cardinality(recentErrors[s]) < ErrorThreshold
    BY DEF MonitorInv, FewRecent
  <2>3. /\ IsFiniteSet(Monitor!YoungUncounted(s))
        /\ Cardinality(Monitor!YoungUncounted(s)) <= Cardinality(recentErrors[s])
    BY <2>1, <2>2, FS_Subset
  <2>4. /\ Cardinality(Monitor!YoungUncounted(s)) \in Nat
        /\ Cardinality(recentErrors[s]) \in Nat
    BY <2>2, <2>3, FS_CardinalityType
  <2> QED
    BY <2>2, <2>3, <2>4, PartsAssumption
<1>2. ReportsAreDue /\ CountedOnce
  BY DEF MonitorInv
<1> QED
  BY <1>1, <1>2, MonitorSize, Zenon
     DEF ReportsAreDue, CountedOnce, Monitor!MonitorReportsWhenDue

-----------------------------------------------------------------------------
(***************************************************************************)
(* RealIncidentDetector.  A failure within the window is remembered, or    *)
(* one incident has counted it.  Enough failures of a service stay         *)
(* remembered only up to one that came within the cooldown of an incident. *)
(***************************************************************************)
FailureRecords == [service : Services, timestamp : Nat, id : Nat]

RealReports == [service : Services, at : Nat, counted : SUBSET FailureRecords]

Failed == {failures[id] : id \in DOMAIN failures}

DetectorTypeInv ==
    /\ time \in Nat
    /\ failures \in Seq(FailureRecords)
    /\ realDetected \in Seq(RealReports)
    /\ lastIncidentTime \in Int
    /\ recentFailures \subseteq Failed
    /\ IsFiniteSet(recentFailures)

Numbered ==
    \A id \in DOMAIN failures : failures[id].id = id /\ failures[id].timestamp <= time

RememberedOrCounted ==
    \A f \in Failed :
        \/ f \in recentFailures
        \/ ~(f.timestamp > time - FailureWindow)
        \/ \E k \in DOMAIN realDetected : f \in realDetected[k].counted

RememberedIsUncounted ==
    \A k \in DOMAIN realDetected : recentFailures \cap realDetected[k].counted = {}

LastIncident ==
    /\ lastIncidentTime <= time
    /\ \A k \in DOMAIN realDetected : realDetected[k].at <= lastIncidentTime
    /\ \/ lastIncidentTime = Detector!LongAgo
       \/ \E k \in DOMAIN realDetected : realDetected[k].at = lastIncidentTime

RealReportsAreDue ==
    \A k \in DOMAIN realDetected : realDetected[k].counted = {} \/ Detector!IsDue(k)

RealCountedOnce ==
    \A k, l \in DOMAIN realDetected :
        \A f \in realDetected[k].counted : f \in realDetected[l].counted => k = l

UpTo(f, some) == {g \in some : g.service = f.service /\ g.id <= f.id}

HeldBack ==
    \A f \in recentFailures :
        Cardinality(UpTo(f, recentFailures)) >= FailureThreshold =>
            \E k \in DOMAIN realDetected : Detector!WithinCooldown(f.timestamp, k)

DetectorInv ==
    /\ DetectorTypeInv /\ Numbered /\ RememberedOrCounted /\ RememberedIsUncounted
    /\ LastIncident /\ RealReportsAreDue /\ RealCountedOnce /\ HeldBack

LEMMA InitDetectorInv == Detector!Init => DetectorInv
<1> SUFFICES ASSUME Detector!Init PROVE DetectorInv
  OBVIOUS
<1>1. /\ time = 0 /\ recentFailures = {} /\ lastIncidentTime = Detector!LongAgo
      /\ failures = <<>> /\ realDetected = <<>>
  BY DEF Detector!Init
<1>2. Detector!LongAgo \in Int /\ Detector!LongAgo <= 0
  BY PartsAssumption DEF Detector!LongAgo
<1>3. DetectorTypeInv
  BY <1>1, <1>2, FS_EmptySet DEF DetectorTypeInv
<1>4. Numbered /\ RememberedOrCounted /\ RememberedIsUncounted
  BY <1>1 DEF Numbered, RememberedOrCounted, RememberedIsUncounted, Failed
<1>5. LastIncident
  BY <1>1, <1>2 DEF LastIncident
<1>6. RealReportsAreDue /\ RealCountedOnce /\ HeldBack
  BY <1>1 DEF RealReportsAreDue, RealCountedOnce, HeldBack
<1> QED
  BY <1>3, <1>4, <1>5, <1>6 DEF DetectorInv

\* A report stays due when more fails and more is reported.
LEMMA DueStays ==
    ASSUME DetectorTypeInv, NEW k \in DOMAIN realDetected, Detector!IsDue(k),
           \A l \in DOMAIN realDetected : realDetected'[l] = realDetected[l],
           Failed \subseteq Failed'
    PROVE  Detector!IsDue(k)'
<1>1. \A l \in 1 .. k - 1 : l \in DOMAIN realDetected
  BY DEF DetectorTypeInv
<1>2. /\ realDetected'[k] = realDetected[k]
      /\ \A l \in 1 .. k - 1 : realDetected'[l] = realDetected[l]
  BY <1>1
<1>3. /\ Detector!Cardinality(realDetected'[k].counted) >= FailureThreshold
      /\ \A f \in realDetected'[k].counted :
             /\ f \in Failed'
             /\ f.service = realDetected'[k].service
             /\ f.timestamp > realDetected'[k].at - FailureWindow
  BY <1>2 DEF Detector!IsDue, Failed
<1>4. \A l \in 1 .. k - 1 : ~(/\ realDetected'[l].at <= realDetected'[k].at
                              /\ realDetected'[k].at <= realDetected'[l].at + Cooldown)
  BY <1>2 DEF Detector!IsDue, Detector!WithinCooldown
<1> QED
  BY <1>3, <1>4, Zenon DEF Detector!IsDue, Detector!WithinCooldown, Failed

\* What an incident appends to the reports.
LEMMA RealReportAppended ==
    ASSUME DetectorTypeInv, LastIncident, NEW s \in Services,
           NEW counted \in SUBSET FailureRecords,
           Detector!TriggerRealIncident(s, counted), time' = time
    PROVE  /\ \E new \in Nat \ {0} :
                  /\ DOMAIN realDetected = 1 .. new - 1
                  /\ DOMAIN realDetected' = 1 .. new
                  /\ realDetected'[new] = [service |-> s, at |-> time, counted |-> counted]
           /\ \A k \in DOMAIN realDetected : realDetected'[k] = realDetected[k]
           /\ realDetected' \in Seq(RealReports)
           /\ lastIncidentTime' = time
           /\ LastIncident'
<1> DEFINE report == [service |-> s, at |-> time, counted |-> counted]
<1>1. /\ realDetected' = Append(realDetected, report) /\ lastIncidentTime' = time
      /\ realDetected \in Seq(RealReports) /\ time \in Nat /\ lastIncidentTime \in Int
  BY DEF Detector!TriggerRealIncident, DetectorTypeInv
<1>2. report \in RealReports
  BY <1>1 DEF RealReports
<1>3. report.at = time
  OBVIOUS
<1> HIDE DEF report
<1>4. /\ realDetected' \in Seq(RealReports) /\ Len(realDetected') = Len(realDetected) + 1
      /\ \A k \in 1 .. Len(realDetected) : realDetected'[k] = realDetected[k]
      /\ realDetected'[Len(realDetected) + 1] = report
  BY <1>1, <1>2, AppendProperties
<1>5. /\ Len(realDetected) \in Nat /\ DOMAIN realDetected = 1 .. Len(realDetected)
      /\ DOMAIN realDetected' = 1 .. Len(realDetected')
  BY <1>1, <1>4
<1>6. \A k \in DOMAIN realDetected : realDetected'[k] = realDetected[k]
  BY <1>4, <1>5
<1>7. LastIncident'
  <2>1. \A k \in DOMAIN realDetected : /\ realDetected[k].at <= lastIncidentTime
                                       /\ realDetected[k].at \in Int
    <3>1. \A k \in DOMAIN realDetected : realDetected[k] \in RealReports
      BY <1>1, ElementOfSeq, <1>5
    <3> QED
      BY <3>1 DEF LastIncident, RealReports
  <2>2. lastIncidentTime <= time
    BY DEF LastIncident
  <2>3. ASSUME NEW k \in DOMAIN realDetected' PROVE realDetected'[k].at <= time
    <3>1. CASE k \in DOMAIN realDetected
      BY <1>1, <1>6, <2>1, <2>2, <3>1
    <3>2. CASE k = Len(realDetected) + 1
      BY <1>1, <1>3, <1>4, <3>2
    <3> QED
      BY <1>4, <1>5, <3>1, <3>2
  <2>4. \E k \in DOMAIN realDetected' : realDetected'[k].at = time
    BY <1>3, <1>4, <1>5
  <2> QED
    BY <1>1, <2>3, <2>4 DEF LastIncident
<1>8. \E new \in Nat \ {0} : /\ DOMAIN realDetected = 1 .. new - 1
                             /\ DOMAIN realDetected' = 1 .. new
                             /\ realDetected'[new] = report
  BY <1>4, <1>5
<1> QED
  BY <1>1, <1>4, <1>6, <1>7, <1>8 DEF report

\* A call of a service that fails.
FailedCall(s, failure) ==
    /\ failure = [service |-> s, timestamp |-> time, id |-> Len(failures) + 1]
    /\ Detector!HandleRealFailure(s, failure)
    /\ failures' = Append(failures, failure)
    /\ time' = time

\* Every failure that an incident has counted is one that came before.
LEMMA CountedFailed ==
    ASSUME DetectorInv, NEW k \in DOMAIN realDetected
    PROVE  realDetected[k].counted \subseteq Failed
BY DEF DetectorInv, RealReportsAreDue, Detector!IsDue, Failed

LEMMA FailureRecorded ==
    ASSUME DetectorInv, NEW s \in Services, NEW failure, FailedCall(s, failure)
    PROVE  /\ failure \in FailureRecords /\ failure.service = s
           /\ failure.timestamp = time
           /\ failures' \in Seq(FailureRecords)
           /\ Failed \subseteq FailureRecords
           /\ Failed' = Failed \cup {failure}
           /\ failure \notin Failed
           /\ \A f \in Failed : f.id < failure.id
           /\ \A id \in DOMAIN failures' :
                  failures'[id].id = id /\ failures'[id].timestamp <= time
<1> DEFINE len == Len(failures)
<1>1. /\ failures \in Seq(FailureRecords) /\ time \in Nat
      /\ failures' = Append(failures, failure)
      /\ failure = [service |-> s, timestamp |-> time, id |-> len + 1]
      /\ len \in Nat /\ DOMAIN failures = 1 .. len
  BY DEF DetectorInv, DetectorTypeInv, FailedCall
<1>2. /\ failure \in FailureRecords /\ failure.service = s
      /\ failure.timestamp = time /\ failure.id = len + 1
  BY <1>1 DEF FailureRecords
<1>3. /\ failures' \in Seq(FailureRecords) /\ Len(failures') = len + 1
      /\ \A id \in 1 .. len : failures'[id] = failures[id]
      /\ failures'[len + 1] = failure
  BY <1>1, <1>2, AppendProperties
<1> HIDE DEF len
<1>4. DOMAIN failures' = 1 .. len + 1
  BY <1>3
<1>5. \A id \in 1 .. len : /\ failures[id] \in FailureRecords /\ failures[id].id = id
                           /\ failures[id].timestamp <= time
  BY <1>1 DEF DetectorInv, Numbered
<1>6. Failed \subseteq FailureRecords
  BY <1>1, <1>5 DEF Failed
<1>7. \A f \in Failed : f.id < failure.id
  <2> SUFFICES ASSUME NEW f \in Failed PROVE f.id < failure.id
    OBVIOUS
  <2>1. PICK id \in 1 .. len : f = failures[id]
    BY <1>1 DEF Failed
  <2>2. f.id = id
    BY <1>5, <2>1
  <2> QED
    BY <1>1, <1>2, <2>1, <2>2
<1>8. failure \notin Failed
  BY <1>1, <1>2, <1>7
<1>9. Failed' = Failed \cup {failure}
  <2>1. \A id \in 1 .. len + 1 : id \in 1 .. len \/ id = len + 1
    BY <1>1
  <2>2. 1 .. len \subseteq 1 .. len + 1 /\ len + 1 \in 1 .. len + 1
    BY <1>1
  <2>3. Failed' = {failures'[id] : id \in 1 .. len + 1}
    BY <1>4 DEF Failed
  <2>4. Failed = {failures[id] : id \in 1 .. len}
    BY <1>1 DEF Failed
  <2>5. ASSUME NEW f PROVE f \in Failed' <=> f \in Failed \cup {failure}
    BY <1>3, <2>1, <2>2, <2>3, <2>4
  <2> QED
    BY <2>5
<1>10. \A id \in DOMAIN failures' :
           failures'[id].id = id /\ failures'[id].timestamp <= time
  <2> SUFFICES ASSUME NEW id \in 1 .. len + 1
               PROVE  failures'[id].id = id /\ failures'[id].timestamp <= time
    BY <1>4
  <2>1. CASE id \in 1 .. len
    BY <1>3, <1>5, <2>1
  <2>2. CASE id = len + 1
    BY <1>1, <1>2, <1>3, <2>2
  <2> QED
    BY <1>1, <2>1, <2>2
<1> QED
  BY <1>2, <1>3, <1>6, <1>7, <1>8, <1>9, <1>10

\* What is remembered of the failures, before some of it is counted.
LEMMA FailuresRemembered ==
    ASSUME DetectorInv, NEW s \in Services, NEW failure, FailedCall(s, failure),
           NEW recent, recent = Detector!WithFailure(failure)
    PROVE  /\ recent \subseteq recentFailures \cup {failure}
           /\ recent \subseteq Failed' /\ recent \subseteq FailureRecords
           /\ IsFiniteSet(recent)
           /\ \A f \in recent : f.timestamp > time - FailureWindow
           /\ \A k \in DOMAIN realDetected : recent \cap realDetected[k].counted = {}
           /\ \A f \in Failed' :
                  \/ f \in recent
                  \/ ~(f.timestamp > time - FailureWindow)
                  \/ \E k \in DOMAIN realDetected : f \in realDetected[k].counted
<1>1. recent = {f \in recentFailures \cup {failure} : f.timestamp > time - FailureWindow}
  BY DEF Detector!WithFailure
<1>2. recentFailures \subseteq Failed /\ IsFiniteSet(recentFailures)
  BY DEF DetectorInv, DetectorTypeInv
<1>3. recent \subseteq recentFailures \cup {failure}
  BY <1>1
<1>4. recent \subseteq Failed' /\ recent \subseteq FailureRecords
  BY <1>2, <1>3, FailureRecorded
<1>5. IsFiniteSet(recent)
  <2>1. IsFiniteSet(recentFailures \cup {failure})
    BY <1>2, FS_AddElement
  <2> QED
    BY <1>3, <2>1, FS_Subset
<1>6. ASSUME NEW k \in DOMAIN realDetected PROVE recent \cap realDetected[k].counted = {}
  <2>1. failure \notin realDetected[k].counted
    BY FailureRecorded, CountedFailed
  <2>2. recentFailures \cap realDetected[k].counted = {}
    BY DEF DetectorInv, RememberedIsUncounted
  <2> QED
    BY <1>3, <2>1, <2>2
<1>7. ASSUME NEW f \in Failed', f \notin recent, f.timestamp > time - FailureWindow
      PROVE  \E k \in DOMAIN realDetected : f \in realDetected[k].counted
  <2>1. f \notin recentFailures \cup {failure}
    BY <1>1, <1>7
  <2>2. f \in Failed
    BY <1>7, <2>1, FailureRecorded
  <2> QED
    BY <1>7, <2>1, <2>2 DEF DetectorInv, RememberedOrCounted
<1> QED
  BY <1>1, <1>3, <1>4, <1>5, <1>6, <1>7

\* Of another failure than the new one no more is remembered up to it.
LEMMA UpToOld ==
    ASSUME DetectorInv, NEW f \in recentFailures, NEW some,
           \A g \in some : g \in recentFailures \/ ~(g.id <= f.id) \/ g.service # f.service,
           Cardinality(UpTo(f, some)) >= FailureThreshold
    PROVE  \E k \in DOMAIN realDetected : Detector!WithinCooldown(f.timestamp, k)
<1>1. /\ recentFailures \subseteq Failed /\ Failed \subseteq FailureRecords
      /\ IsFiniteSet(recentFailures) /\ FailureThreshold \in Nat
  BY PartsAssumption DEF DetectorInv, DetectorTypeInv, Failed
<1>2. UpTo(f, recentFailures) \subseteq recentFailures
  BY DEF UpTo
<1>3. UpTo(f, some) \subseteq UpTo(f, recentFailures)
  <2> SUFFICES ASSUME NEW g \in UpTo(f, some) PROVE g \in recentFailures
    BY DEF UpTo
  <2> QED
    BY DEF UpTo
<1>4. IsFiniteSet(UpTo(f, recentFailures))
  BY <1>1, <1>2, FS_Subset
<1>5. /\ IsFiniteSet(UpTo(f, some))
      /\ Cardinality(UpTo(f, some)) <= Cardinality(UpTo(f, recentFailures))
  BY <1>3, <1>4, FS_Subset
<1>6. /\ Cardinality(UpTo(f, some)) \in Nat
      /\ Cardinality(UpTo(f, recentFailures)) \in Nat
  BY <1>4, <1>5, FS_CardinalityType
<1>7. Cardinality(UpTo(f, recentFailures)) >= FailureThreshold
  BY <1>1, <1>5, <1>6
<1> QED
  BY <1>7 DEF DetectorInv, HeldBack

\* The failure is remembered and no incident follows.
LEMMA FailureKeptStep ==
    ASSUME DetectorInv, NEW s \in Services, NEW failure, FailedCall(s, failure),
           NEW recent, recent = Detector!WithFailure(failure),
           ~Detector!ShouldTrigger(Detector!OfService(s, recent))
    PROVE  DetectorInv'
<1>1. /\ recentFailures' = recent
      /\ UNCHANGED <<time, lastIncidentTime, realDetected>>
  <2>1. Detector!HandleRealFailure(s, failure) /\ time' = time
    BY DEF FailedCall
  <2>2. recentFailures' = recent /\ UNCHANGED <<lastIncidentTime, realDetected>>
    BY <2>1, Zenon DEF Detector!HandleRealFailure
  <2> QED
    BY <2>1, <2>2
<1>2. /\ recent \subseteq recentFailures \cup {failure}
      /\ recent \subseteq Failed' /\ recent \subseteq FailureRecords
      /\ IsFiniteSet(recent)
      /\ \A k \in DOMAIN realDetected : recent \cap realDetected[k].counted = {}
      /\ \A f \in Failed' :
             \/ f \in recent
             \/ ~(f.timestamp > time - FailureWindow)
             \/ \E k \in DOMAIN realDetected : f \in realDetected[k].counted
  BY FailuresRemembered
<1>3. DetectorTypeInv /\ LastIncident
  BY DEF DetectorInv
<1>4. DetectorTypeInv' /\ Numbered'
  BY <1>1, <1>2, <1>3, FailureRecorded DEF DetectorTypeInv, Numbered
<1>5. RememberedOrCounted' /\ RememberedIsUncounted'
  BY <1>1, <1>2 DEF RememberedOrCounted, RememberedIsUncounted
<1>6. LastIncident'
  BY <1>1, <1>3 DEF LastIncident
<1>7. RealReportsAreDue'
  <2>1. ASSUME NEW k \in DOMAIN realDetected, Detector!IsDue(k) PROVE Detector!IsDue(k)'
    BY <1>1, <1>3, <2>1, FailureRecorded, DueStays
  <2> QED
    BY <1>1, <2>1 DEF DetectorInv, RealReportsAreDue
<1>8. RealCountedOnce'
  BY <1>1 DEF DetectorInv, RealCountedOnce
<1>9. HeldBack'
  <2> SUFFICES ASSUME NEW f \in recent, Cardinality(UpTo(f, recent)) >= FailureThreshold
               PROVE  \E k \in DOMAIN realDetected : Detector!WithinCooldown(f.timestamp, k)
    BY <1>1 DEF HeldBack, Detector!WithinCooldown, UpTo
  <2>1. CASE f \in recentFailures
    <3>1. \A g \in recent : g \in recentFailures \/ ~(g.id <= f.id)
      <4>1. f.id < failure.id /\ f.id \in Nat /\ failure.id \in Nat
        BY <1>3, <2>1, FailureRecorded DEF DetectorTypeInv, FailureRecords
      <4>2. ~(failure.id <= f.id)
        BY <4>1
      <4> QED
        BY <1>2, <4>2
    <3> QED
      BY <2>1, <3>1, UpToOld
  <2>2. CASE f = failure
    <3>1. UpTo(f, recent) \subseteq Detector!OfService(s, recent)
      BY <2>2, FailureRecorded DEF UpTo, Detector!OfService
    <3>2. Detector!OfService(s, recent) \subseteq recent
      BY DEF Detector!OfService
    <3>3. /\ IsFiniteSet(Detector!OfService(s, recent)) /\ IsFiniteSet(UpTo(f, recent))
          /\ Cardinality(UpTo(f, recent)) <= Cardinality(Detector!OfService(s, recent))
      BY <1>2, <3>1, <3>2, FS_Subset
    <3>4. /\ Cardinality(UpTo(f, recent)) \in Nat
          /\ Cardinality(Detector!OfService(s, recent)) \in Nat
      BY <3>3, FS_CardinalityType
    <3>5. Cardinality(Detector!OfService(s, recent)) >= FailureThreshold
      BY <3>3, <3>4, PartsAssumption
    <3>6. ~(time - lastIncidentTime > Cooldown)
      BY <3>5, DetectorSize DEF Detector!ShouldTrigger
    <3>7. /\ time \in Nat /\ lastIncidentTime \in Int /\ Cooldown \in Nat
          /\ lastIncidentTime <= time
      BY <1>3, PartsAssumption DEF DetectorTypeInv, LastIncident
    <3>8. lastIncidentTime # Detector!LongAgo
      BY <3>6, <3>7 DEF Detector!LongAgo
    <3>9. PICK k \in DOMAIN realDetected : realDetected[k].at = lastIncidentTime
      BY <1>3, <3>8 DEF LastIncident
    <3>10. f.timestamp = time
      BY <2>2, FailureRecorded
    <3>11. Detector!WithinCooldown(time, k)
      BY <3>6, <3>7, <3>9 DEF Detector!WithinCooldown
    <3> QED
      BY <3>9, <3>10, <3>11
  <2> QED
    BY <1>2, <2>1, <2>2
<1> QED
  BY <1>4, <1>5, <1>6, <1>7, <1>8, <1>9 DEF DetectorInv

\* The failures of the service become an incident, and are forgotten.
LEMMA FailuresReportedStep ==
    ASSUME DetectorInv, NEW s \in Services, NEW failure, FailedCall(s, failure),
           NEW recent, recent = Detector!WithFailure(failure),
           NEW counted, counted = Detector!OfService(s, recent),
           Detector!ShouldTrigger(counted)
    PROVE  DetectorInv'
<1>1. /\ recentFailures' = recent \ counted
      /\ Detector!TriggerRealIncident(s, counted) /\ time' = time
  <2>1. Detector!HandleRealFailure(s, failure) /\ time' = time
    BY DEF FailedCall
  <2>2. recentFailures' = recent \ counted /\ Detector!TriggerRealIncident(s, counted)
    BY <2>1, Zenon DEF Detector!HandleRealFailure
  <2> QED
    BY <2>1, <2>2
<1>2. /\ recent \subseteq recentFailures \cup {failure}
      /\ recent \subseteq Failed' /\ recent \subseteq FailureRecords
      /\ IsFiniteSet(recent)
      /\ \A f \in recent : f.timestamp > time - FailureWindow
      /\ \A k \in DOMAIN realDetected : recent \cap realDetected[k].counted = {}
      /\ \A f \in Failed' :
             \/ f \in recent
             \/ ~(f.timestamp > time - FailureWindow)
             \/ \E k \in DOMAIN realDetected : f \in realDetected[k].counted
  BY FailuresRemembered
<1>3. DetectorTypeInv /\ LastIncident
  BY DEF DetectorInv
<1>4. /\ counted \subseteq recent /\ \A f \in counted : f.service = s
      /\ \A f \in recent \ counted : f.service # s
  BY DEF Detector!OfService
<1>5. /\ \E new \in Nat \ {0} :
             /\ DOMAIN realDetected = 1 .. new - 1
             /\ DOMAIN realDetected' = 1 .. new
             /\ realDetected'[new] = [service |-> s, at |-> time, counted |-> counted]
      /\ \A k \in DOMAIN realDetected : realDetected'[k] = realDetected[k]
      /\ realDetected' \in Seq(RealReports) /\ lastIncidentTime' = time
      /\ LastIncident'
  <2>1. counted \in SUBSET FailureRecords
    BY <1>2, <1>4
  <2> QED
    BY <1>1, <1>3, <2>1, RealReportAppended
<1>6. PICK new \in Nat \ {0} :
          /\ DOMAIN realDetected = 1 .. new - 1
          /\ DOMAIN realDetected' = 1 .. new
          /\ realDetected'[new] = [service |-> s, at |-> time, counted |-> counted]
  BY <1>5
<1>7. /\ \A k \in DOMAIN realDetected' : k \in DOMAIN realDetected \/ k = new
      /\ DOMAIN realDetected \subseteq DOMAIN realDetected' /\ new \in DOMAIN realDetected'
      /\ realDetected'[new].service = s /\ realDetected'[new].at = time
      /\ realDetected'[new].counted = counted
  BY <1>6
<1>8. DetectorTypeInv' /\ Numbered'
  <2>1. IsFiniteSet(recent \ counted)
    BY <1>2, FS_Subset
  <2>2. lastIncidentTime' \in Int
    BY <1>3, <1>5 DEF DetectorTypeInv
  <2> QED
    BY <1>1, <1>2, <1>3, <1>5, <2>1, <2>2, FailureRecorded DEF DetectorTypeInv, Numbered
<1>9. RememberedOrCounted'
  <2> SUFFICES ASSUME NEW f \in Failed'
               PROVE  \/ f \in recent \ counted
                      \/ ~(f.timestamp > time - FailureWindow)
                      \/ \E k \in DOMAIN realDetected' : f \in realDetected'[k].counted
    BY <1>1 DEF RememberedOrCounted
  <2>1. CASE f \in counted
    BY <1>7, <2>1
  <2>2. ASSUME \E k \in DOMAIN realDetected : f \in realDetected[k].counted
        PROVE  \E k \in DOMAIN realDetected' : f \in realDetected'[k].counted
    BY <1>5, <1>7, <2>2
  <2> QED
    BY <1>2, <2>1, <2>2
<1>10. RememberedIsUncounted'
  <2> SUFFICES ASSUME NEW k \in DOMAIN realDetected'
               PROVE  (recent \ counted) \cap realDetected'[k].counted = {}
    BY <1>1 DEF RememberedIsUncounted
  <2>1. CASE k = new
    BY <1>7, <2>1
  <2>2. CASE k \in DOMAIN realDetected
    BY <1>2, <1>5, <2>2
  <2> QED
    BY <1>7, <2>1, <2>2
<1>11. RealReportsAreDue'
  <2> SUFFICES ASSUME NEW k \in DOMAIN realDetected'
               PROVE  realDetected'[k].counted = {} \/ Detector!IsDue(k)'
    BY DEF RealReportsAreDue
  <2>1. CASE k \in DOMAIN realDetected
    <3>1. realDetected[k].counted = {} \/ Detector!IsDue(k)
      BY <2>1 DEF DetectorInv, RealReportsAreDue
    <3>2. Failed \subseteq Failed'
      BY FailureRecorded
    <3>3. ASSUME Detector!IsDue(k) PROVE Detector!IsDue(k)'
      BY <1>3, <1>5, <2>1, <3>2, <3>3, DueStays
    <3> QED
      BY <1>5, <2>1, <3>1, <3>3
  <2>2. CASE k = new
    <3>1. Detector!Cardinality(realDetected'[k].counted) >= FailureThreshold
      BY <1>7, <2>2 DEF Detector!ShouldTrigger
    <3>2. \A f \in realDetected'[k].counted :
              /\ f \in Failed'
              /\ f.service = realDetected'[k].service
              /\ f.timestamp > realDetected'[k].at - FailureWindow
      BY <1>2, <1>4, <1>7, <2>2
    <3>3. ASSUME NEW l \in 1 .. k - 1
          PROVE  ~(/\ realDetected'[l].at <= realDetected'[k].at
                   /\ realDetected'[k].at <= realDetected'[l].at + Cooldown)
      <4>1. l \in DOMAIN realDetected /\ realDetected'[l] = realDetected[l]
        BY <1>5, <1>6, <2>2
      <4>2. realDetected[l] \in RealReports
        BY <1>3, <4>1 DEF DetectorTypeInv
      <4>3. realDetected[l].at <= lastIncidentTime /\ realDetected[l].at \in Nat
        BY <1>3, <4>1, <4>2 DEF LastIncident, RealReports
      <4>4. /\ time - lastIncidentTime > Cooldown
            /\ time \in Nat /\ lastIncidentTime \in Int /\ Cooldown \in Nat
        BY <1>3, PartsAssumption DEF Detector!ShouldTrigger, DetectorTypeInv
      <4>5. ~(time <= realDetected[l].at + Cooldown)
        BY <4>3, <4>4
      <4> QED
        BY <1>7, <2>2, <4>1, <4>5
    <3> QED
      BY <3>1, <3>2, <3>3, Zenon DEF Detector!IsDue, Detector!WithinCooldown, Failed
  <2> QED
    BY <1>7, <2>1, <2>2
<1>12. RealCountedOnce'
  <2> SUFFICES ASSUME NEW k \in DOMAIN realDetected', NEW l \in DOMAIN realDetected',
                      NEW f \in realDetected'[k].counted, f \in realDetected'[l].counted
               PROVE  k = l
    BY DEF RealCountedOnce
  <2>1. CASE k \in DOMAIN realDetected /\ l \in DOMAIN realDetected
    BY <1>5, <2>1 DEF DetectorInv, RealCountedOnce
  <2>2. CASE k \in DOMAIN realDetected /\ l = new
    BY <1>2, <1>4, <1>5, <1>7, <2>2
  <2>3. CASE k = new /\ l \in DOMAIN realDetected
    BY <1>2, <1>4, <1>5, <1>7, <2>3
  <2> QED
    BY <1>7, <2>1, <2>2, <2>3
<1>13. HeldBack'
  <2> SUFFICES ASSUME NEW f \in recent \ counted,
                      Cardinality(UpTo(f, recent \ counted)) >= FailureThreshold
               PROVE  \E k \in DOMAIN realDetected' :
                          /\ realDetected'[k].at <= f.timestamp
                          /\ f.timestamp <= realDetected'[k].at + Cooldown
    BY <1>1 DEF HeldBack, Detector!WithinCooldown, UpTo
  <2>1. \A g \in recent \ counted : g \in recentFailures
    <3>1. failure \notin recent \ counted
      BY <1>4, FailureRecorded
    <3> QED
      BY <1>2, <3>1
  <2>2. PICK k \in DOMAIN realDetected : Detector!WithinCooldown(f.timestamp, k)
    BY <2>1, UpToOld
  <2> QED
    BY <1>5, <1>7, <2>2 DEF Detector!WithinCooldown
<1> QED
  BY <1>5, <1>8, <1>9, <1>10, <1>11, <1>12, <1>13 DEF DetectorInv

LEMMA CheckFailsStep ==
    ASSUME DetectorInv, NEW s \in Services, Detector!CheckFails(s) PROVE DetectorInv'
<1>1. PICK failure : FailedCall(s, failure)
  BY DEF Detector!CheckFails, FailedCall
<1> DEFINE recent == Detector!WithFailure(failure)
           counted == Detector!OfService(s, recent)
<1> QED
  BY <1>1, FailureKeptStep, FailuresReportedStep

\* A demonstration counts nothing.
LEMMA DemoStep ==
    ASSUME DetectorInv, NEW s \in Services, Detector!TriggerDemoIncident(s)
    PROVE  DetectorInv'
<1>1. /\ Detector!TriggerRealIncident(s, {})
      /\ UNCHANGED <<time, recentFailures, failures>>
  BY DEF Detector!TriggerDemoIncident
<1>2. DetectorTypeInv /\ LastIncident
  BY DEF DetectorInv
<1>3. /\ \E new \in Nat \ {0} :
             /\ DOMAIN realDetected = 1 .. new - 1
             /\ DOMAIN realDetected' = 1 .. new
             /\ realDetected'[new] = [service |-> s, at |-> time, counted |-> {}]
      /\ \A k \in DOMAIN realDetected : realDetected'[k] = realDetected[k]
      /\ realDetected' \in Seq(RealReports) /\ lastIncidentTime' = time
      /\ LastIncident'
  BY <1>1, <1>2, RealReportAppended
<1>4. PICK new \in Nat \ {0} :
          /\ DOMAIN realDetected = 1 .. new - 1
          /\ DOMAIN realDetected' = 1 .. new
          /\ realDetected'[new] = [service |-> s, at |-> time, counted |-> {}]
  BY <1>3
<1>5. /\ \A k \in DOMAIN realDetected' : k \in DOMAIN realDetected \/ k = new
      /\ DOMAIN realDetected \subseteq DOMAIN realDetected'
      /\ realDetected'[new].counted = {}
  BY <1>4
<1>6. Failed' = Failed
  BY <1>1 DEF Failed
<1>7. DetectorTypeInv' /\ Numbered'
  <2>1. lastIncidentTime' \in Int
    BY <1>2, <1>3 DEF DetectorTypeInv
  <2> QED
    BY <1>1, <1>2, <1>3, <1>6, <2>1 DEF DetectorTypeInv, DetectorInv, Numbered
<1>8. RememberedOrCounted'
  BY <1>1, <1>3, <1>5, <1>6 DEF DetectorInv, RememberedOrCounted
<1>9. RememberedIsUncounted'
  BY <1>1, <1>3, <1>5 DEF DetectorInv, RememberedIsUncounted
<1>10. RealReportsAreDue'
  <2> SUFFICES ASSUME NEW k \in DOMAIN realDetected, Detector!IsDue(k)
               PROVE  Detector!IsDue(k)'
    BY <1>3, <1>5 DEF DetectorInv, RealReportsAreDue
  <2> QED
    BY <1>2, <1>3, <1>6, DueStays
<1>11. RealCountedOnce'
  BY <1>3, <1>5 DEF DetectorInv, RealCountedOnce
<1>12. HeldBack'
  <2> SUFFICES ASSUME NEW f \in recentFailures,
                      Cardinality(UpTo(f, recentFailures)) >= FailureThreshold
               PROVE  \E k \in DOMAIN realDetected' :
                          /\ realDetected'[k].at <= f.timestamp
                          /\ f.timestamp <= realDetected'[k].at + Cooldown
    BY <1>1 DEF HeldBack, Detector!WithinCooldown, UpTo
  <2>1. PICK k \in DOMAIN realDetected : Detector!WithinCooldown(f.timestamp, k)
    BY DEF DetectorInv, HeldBack
  <2> QED
    BY <1>3, <1>5, <2>1 DEF Detector!WithinCooldown
<1> QED
  BY <1>3, <1>7, <1>8, <1>9, <1>10, <1>11, <1>12 DEF DetectorInv

\* A tick makes no failure younger.
LEMMA DetectorTickStep == ASSUME DetectorInv, Detector!Tick PROVE DetectorInv'
<1>1. /\ time' = time + 1
      /\ UNCHANGED <<recentFailures, lastIncidentTime, failures, realDetected>>
  BY DEF Detector!Tick
<1>2. /\ time \in Nat /\ lastIncidentTime \in Int /\ FailureWindow \in Nat
      /\ DetectorTypeInv
  BY PartsAssumption DEF DetectorInv, DetectorTypeInv
<1>3. Failed' = Failed
  BY <1>1 DEF Failed
<1>4. \A f \in Failed : f.timestamp \in Nat
  <2>1. Failed \subseteq FailureRecords
    BY <1>2 DEF DetectorTypeInv, Failed
  <2> QED
    BY <2>1 DEF FailureRecords
<1>5. DetectorTypeInv'
  BY <1>1, <1>2, <1>3 DEF DetectorTypeInv
<1>6. Numbered'
  <2> SUFFICES ASSUME NEW id \in DOMAIN failures
               PROVE  failures[id].id = id /\ failures[id].timestamp <= time + 1
    BY <1>1 DEF Numbered
  <2>1. failures[id].timestamp \in Nat
    BY <1>4 DEF Failed
  <2>2. failures[id].id = id /\ failures[id].timestamp <= time
    BY DEF DetectorInv, Numbered
  <2> QED
    BY <1>2, <2>1, <2>2
<1>7. RememberedOrCounted'
  <2> SUFFICES ASSUME NEW f \in Failed', f.timestamp > time' - FailureWindow
               PROVE  \/ f \in recentFailures'
                      \/ \E k \in DOMAIN realDetected' : f \in realDetected'[k].counted
    BY Zenon DEF RememberedOrCounted
  <2>1. f \in Failed /\ f.timestamp > time - FailureWindow
    BY <1>1, <1>2, <1>3, <1>4
  <2>2. f \in recentFailures \/ \E k \in DOMAIN realDetected : f \in realDetected[k].counted
    BY <2>1 DEF DetectorInv, RememberedOrCounted
  <2> QED
    BY <1>1, <2>2
<1>8. RealReportsAreDue'
  <2>1. ASSUME NEW k \in DOMAIN realDetected, Detector!IsDue(k) PROVE Detector!IsDue(k)'
    BY <1>1, <1>2, <1>3, <2>1, DueStays
  <2> QED
    BY <1>1, <2>1 DEF DetectorInv, RealReportsAreDue
<1>9. LastIncident'
  BY <1>1, <1>2 DEF DetectorInv, LastIncident
<1>10. RememberedIsUncounted' /\ RealCountedOnce'
  BY <1>1 DEF DetectorInv, RememberedIsUncounted, RealCountedOnce
<1>11. HeldBack'
  BY <1>1 DEF DetectorInv, HeldBack, UpTo, Detector!WithinCooldown
<1> QED
  BY <1>5, <1>6, <1>7, <1>8, <1>9, <1>10, <1>11 DEF DetectorInv

LEMMA DetectorInvStep ==
    ASSUME DetectorInv, Detector!Next \/ UNCHANGED Detector!vars PROVE DetectorInv'
<1>1. CASE Detector!Tick
  BY <1>1, DetectorTickStep
<1>2. ASSUME NEW s \in Services, Detector!CheckFails(s) PROVE DetectorInv'
  BY <1>2, CheckFailsStep
<1>3. ASSUME NEW s \in Services, Detector!TriggerDemoIncident(s) PROVE DetectorInv'
  BY <1>3, DemoStep
<1>4. CASE UNCHANGED Detector!vars
  <2>1. UNCHANGED <<time, recentFailures, lastIncidentTime, failures, realDetected>>
    BY <1>4 DEF Detector!vars
  <2>2. Failed' = Failed
    BY <2>1 DEF Failed
  <2>3. RealReportsAreDue'
    BY <2>1 DEF DetectorInv, RealReportsAreDue, Detector!IsDue, Detector!WithinCooldown
  <2>4. /\ DetectorTypeInv' /\ Numbered' /\ RememberedOrCounted'
        /\ RememberedIsUncounted' /\ LastIncident' /\ RealCountedOnce'
    BY <2>1, <2>2 DEF DetectorInv, DetectorTypeInv, Numbered, RememberedOrCounted,
                      RememberedIsUncounted, LastIncident, RealCountedOnce
  <2>5. HeldBack'
    BY <2>1 DEF DetectorInv, HeldBack, UpTo, Detector!WithinCooldown
  <2> QED
    BY <2>3, <2>4, <2>5 DEF DetectorInv
<1> QED
  BY <1>1, <1>2, <1>3, <1>4 DEF Detector!Next

\* A set of numbers up to len that is not empty has a largest.
LEMMA Largest ==
    ASSUME NEW len \in Nat, NEW S \in SUBSET (1 .. len), S # {}
    PROVE  \E m \in S : \A k \in S : k <= m
<1> DEFINE T == {k \in Nat : len - k \in S}
<1>1. T \subseteq Nat /\ T # {}
  <2>1. PICK m \in S : TRUE
    OBVIOUS
  <2>2. len - m \in Nat /\ len - (len - m) = m
    OBVIOUS
  <2> QED
    BY <2>1, <2>2
<1> HIDE DEF T
<1>2. PICK least \in T : \A k \in T : <<k, least>> \notin OpToRel(<, Nat)
  BY <1>1, NatLessThanWellFounded, WFMin
<1>3. least \in Nat /\ len - least \in S
  BY <1>2 DEF T
<1>4. ASSUME NEW k \in S PROVE k <= len - least
  <2>1. k \in Nat /\ len - k \in Nat /\ len - (len - k) = k
    OBVIOUS
  <2>2. len - k \in T
    BY <2>1 DEF T
  <2>3. ~(len - k < least)
    BY <1>2, <1>3, <2>1, <2>2 DEF OpToRel
  <2> QED
    BY <1>3, <2>1, <2>3
<1> QED
  BY <1>3, <1>4

LEMMA DetectorInvImplies == DetectorInv => Detector!DetectorReportsWhenDue
<1> SUFFICES ASSUME DetectorInv PROVE Detector!DetectorReportsWhenDue
  OBVIOUS
<1>1. ASSUME NEW s \in Services,
             Detector!Cardinality(Detector!Unreported(s)) >= FailureThreshold
      PROVE  \E id \in Detector!Unreported(s) :
                 /\ \A other \in Detector!Unreported(s) : other <= id
                 /\ \E k \in DOMAIN realDetected :
                        Detector!WithinCooldown(failures[id].timestamp, k)
  <2> DEFINE left1 == Detector!Unreported(s)
             len == Len(failures)
  <2>1. /\ left1 \subseteq DOMAIN failures
        /\ \A id \in left1 :
               /\ failures[id].service = s
               /\ failures[id].timestamp > time - FailureWindow
               /\ \A k \in DOMAIN realDetected : failures[id] \notin realDetected[k].counted
    BY DEF Detector!Unreported
  <2>2. DOMAIN failures = 1 .. len /\ len \in Nat /\ IsFiniteSet(recentFailures)
    BY DEF DetectorInv, DetectorTypeInv
  <2>3. Cardinality(left1) >= FailureThreshold
    BY <1>1, DetectorSize
  <2> HIDE DEF left1, len
  <2>4. IsFiniteSet(left1) /\ left1 \in SUBSET (1 .. len)
    BY <2>1, <2>2, FS_Interval, FS_Subset
  <2>5. left1 # {}
    BY <2>3, FS_EmptySet, PartsAssumption
  <2>6. PICK id \in left1 : \A other \in left1 : other <= id
    BY <2>2, <2>4, <2>5, Largest
  <2>7. \A other \in left1 : failures[other] \in recentFailures /\ failures[other].id = other
    BY <2>1 DEF DetectorInv, RememberedOrCounted, Numbered, Failed
  <2> DEFINE f == failures[id]
             there == UpTo(f, recentFailures)
             name == [other \in left1 |-> failures[other]]
  <2>8. f \in recentFailures /\ f.id = id /\ f.service = s
    BY <2>1, <2>6, <2>7
  <2>9. \A other \in left1 : failures[other] \in there
    BY <2>1, <2>6, <2>7, <2>8 DEF UpTo
  <2>10. name \in Injection(left1, there)
    <3>1. name \in [left1 -> there]
      BY <2>9
    <3>2. \A a, b \in left1 : name[a] = name[b] => a = b
      BY <2>7
    <3> QED
      BY <3>1, <3>2 DEF Injection, IsInjective
  <2>11. IsFiniteSet(there)
    <3>1. there \subseteq recentFailures
      BY DEF UpTo
    <3> QED
      BY <2>2, <3>1, FS_Subset
  <2> HIDE DEF name, there, f
  <2>12. Cardinality(left1) <= Cardinality(there)
    BY <2>10, <2>11, FS_Injection
  <2>13. Cardinality(left1) \in Nat /\ Cardinality(there) \in Nat
    BY <2>4, <2>11, FS_CardinalityType
  <2>14. Cardinality(there) >= FailureThreshold
    BY <2>3, <2>12, <2>13, PartsAssumption
  <2>15. \E k \in DOMAIN realDetected : Detector!WithinCooldown(f.timestamp, k)
    BY <2>8, <2>14 DEF DetectorInv, HeldBack, there
  <2> QED
    BY <2>6, <2>15 DEF left1, f
<1>2. RealReportsAreDue /\ RealCountedOnce
  BY DEF DetectorInv
<1> QED
  BY <1>1, <1>2, Zenon
     DEF RealReportsAreDue, RealCountedOnce, Detector!DetectorReportsWhenDue

-----------------------------------------------------------------------------
(***************************************************************************)
(* However the rounds of TraceMonitor overlap and whatever Jaeger leaves   *)
(* out, and in whatever order the calls of RealIncidentDetector's checks   *)
(* fail: every incident counts enough that is young, nothing is counted by *)
(* two, no service keeps enough young errors unreported, and enough failed *)
(* calls go unreported only after a cooldown that fell on the last of them *)
(* (trace-monitor.js, processErrorTraces; real-incident-detector.js,       *)
(* handleRealFailure).                                                     *)
(***************************************************************************)
THEOREM PartsReportedWhenDue == PartsSpec => []ReportedWhenDue
<1>1. PartsInit => MonitorInv /\ DetectorInv
  BY InitMonitorInv, InitDetectorInv DEF PartsInit
<1>2. MonitorInv /\ DetectorInv /\ [PartsNext]_partsVars => (MonitorInv /\ DetectorInv)'
  <2> SUFFICES ASSUME MonitorInv, DetectorInv, [PartsNext]_partsVars
               PROVE  (MonitorInv /\ DetectorInv)'
    OBVIOUS
  <2>1. Monitor!Next \/ UNCHANGED Monitor!vars
    BY DEF PartsNext, partsVars, monitorVars, Monitor!vars
  <2>2. Detector!Next \/ UNCHANGED Detector!vars
    BY DEF PartsNext, partsVars, detectorVars, Detector!vars
  <2> QED
    BY <2>1, <2>2, MonitorInvStep, DetectorInvStep
<1>3. MonitorInv /\ DetectorInv => ReportedWhenDue
  BY MonitorInvImplies, DetectorInvImplies DEF ReportedWhenDue
<1> QED
  BY <1>1, <1>2, <1>3, PTL DEF PartsSpec

-----------------------------------------------------------------------------
(***************************************************************************)
(* MessageCases.  What module WireProofs proves of a codec holds of the    *)
(* four that MessageCases makes of it, one upon the other: each keeps its  *)
(* messages if the one below keeps those inside them, and below a flat     *)
(* message there is none.                                                  *)
(***************************************************************************)
FlatProofs ==
    INSTANCE WireProofs
        WITH InnerEncode <- Sent!None, InnerDecode <- Sent!None,
             InnerToJSON <- Sent!None, InnerFromJSON <- Sent!None,
             InnerProper <- Sent!None, InnerHasUnsafe <- Sent!None,
             InnerFull <- Sent!None

OnceProofs ==
    INSTANCE WireProofs
        WITH InnerEncode <- Sent!Flat!Encode, InnerDecode <- Sent!Flat!Decode,
             InnerToJSON <- Sent!Flat!ToJSON, InnerFromJSON <- Sent!Flat!FromJSON,
             InnerProper <- Sent!Flat!Proper, InnerHasUnsafe <- Sent!Flat!HasUnsafe,
             InnerFull <- Sent!Flat!Full

TwiceProofs ==
    INSTANCE WireProofs
        WITH InnerEncode <- Sent!Once!Encode, InnerDecode <- Sent!Once!Decode,
             InnerToJSON <- Sent!Once!ToJSON, InnerFromJSON <- Sent!Once!FromJSON,
             InnerProper <- Sent!Once!Proper, InnerHasUnsafe <- Sent!Once!HasUnsafe,
             InnerFull <- Sent!Once!Full

CodecProofs ==
    INSTANCE WireProofs
        WITH InnerEncode <- Sent!Twice!Encode, InnerDecode <- Sent!Twice!Decode,
             InnerToJSON <- Sent!Twice!ToJSON, InnerFromJSON <- Sent!Twice!FromJSON,
             InnerProper <- Sent!Twice!Proper, InnerHasUnsafe <- Sent!Twice!HasUnsafe,
             InnerFull <- Sent!Twice!Full

LEMMA SameFlat ==
    ASSUME NEW fields, NEW x
    PROVE  /\ FlatProofs!Encode(fields, x) = Sent!Flat!Encode(fields, x)
           /\ FlatProofs!Decode(fields, x) = Sent!Flat!Decode(fields, x)
           /\ FlatProofs!ToJSON(fields, x) = Sent!Flat!ToJSON(fields, x)
           /\ FlatProofs!FromJSON(fields, x) = Sent!Flat!FromJSON(fields, x)
           /\ FlatProofs!Proper(fields, x) = Sent!Flat!Proper(fields, x)
           /\ FlatProofs!HasUnsafe(fields, x) = Sent!Flat!HasUnsafe(fields, x)
           /\ FlatProofs!Full(fields, x) = Sent!Flat!Full(fields, x)
           /\ FlatProofs!CreateBase(fields) = Sent!Codec!CreateBase(fields)
           /\ FlatProofs!WellFormed(fields) = Sent!Codec!WellFormed(fields)
           /\ FlatProofs!Filled(fields, x) = Sent!Flat!Filled(fields, x)
           /\ FlatProofs!Default(x) = Sent!Flat!Default(x)
  BY DEF FlatProofs!Encode, FlatProofs!FlattenSeq, FlatProofs!EncodeField,
         FlatProofs!TokenOf, FlatProofs!WireType, FlatProofs!Written,
         FlatProofs!Default, FlatProofs!Nested, FlatProofs!Kinds,
         FlatProofs!WellFormed, FlatProofs!Decode, FlatProofs!Loop,
         FlatProofs!Turn, FlatProofs!Known, FlatProofs!DecodeField,
         FlatProofs!Threw, FlatProofs!Returned, FlatProofs!Unsafe,
         FlatProofs!ToSet, FlatProofs!CreateBase, FlatProofs!FieldNames,
         FlatProofs!FieldNamed, FlatProofs!ToJSON, FlatProofs!FromJSON,
         FlatProofs!Suits, FlatProofs!Proper, FlatProofs!HoldsUnsafe,
         FlatProofs!HasUnsafe, FlatProofs!Filled, FlatProofs!Full,
         Sent!Flat!Encode, Sent!Flat!FlattenSeq, Sent!Flat!EncodeField,
         Sent!Flat!TokenOf, Sent!Flat!WireType, Sent!Flat!Written,
         Sent!Flat!Default, Sent!Flat!Nested, Sent!Flat!Kinds,
         Sent!Flat!WellFormed, Sent!Flat!Decode, Sent!Flat!Loop,
         Sent!Flat!Turn, Sent!Flat!Known, Sent!Flat!DecodeField,
         Sent!Flat!Threw, Sent!Flat!Returned, Sent!Flat!Unsafe,
         Sent!Flat!ToSet, Sent!Flat!CreateBase, Sent!Flat!FieldNames,
         Sent!Flat!FieldNamed, Sent!Flat!ToJSON, Sent!Flat!FromJSON,
         Sent!Flat!Suits, Sent!Flat!Proper, Sent!Flat!HoldsUnsafe,
         Sent!Flat!HasUnsafe, Sent!Flat!Filled, Sent!Flat!Full, Sent!Codec!WellFormed, Sent!Codec!CreateBase,
         Sent!Codec!FieldNames, Sent!Codec!FieldNamed, Sent!Codec!Default,
         Sent!Codec!ToSet, Sent!Codec!Kinds, Sent!Codec!Nested

LEMMA SameOnce ==
    ASSUME NEW fields, NEW x
    PROVE  /\ OnceProofs!Encode(fields, x) = Sent!Once!Encode(fields, x)
           /\ OnceProofs!Decode(fields, x) = Sent!Once!Decode(fields, x)
           /\ OnceProofs!ToJSON(fields, x) = Sent!Once!ToJSON(fields, x)
           /\ OnceProofs!FromJSON(fields, x) = Sent!Once!FromJSON(fields, x)
           /\ OnceProofs!Proper(fields, x) = Sent!Once!Proper(fields, x)
           /\ OnceProofs!HasUnsafe(fields, x) = Sent!Once!HasUnsafe(fields, x)
           /\ OnceProofs!Full(fields, x) = Sent!Once!Full(fields, x)
           /\ OnceProofs!CreateBase(fields) = Sent!Codec!CreateBase(fields)
           /\ OnceProofs!WellFormed(fields) = Sent!Codec!WellFormed(fields)
           /\ OnceProofs!Filled(fields, x) = Sent!Once!Filled(fields, x)
           /\ OnceProofs!Default(x) = Sent!Once!Default(x)
  BY DEF OnceProofs!Encode, OnceProofs!FlattenSeq, OnceProofs!EncodeField,
         OnceProofs!TokenOf, OnceProofs!WireType, OnceProofs!Written,
         OnceProofs!Default, OnceProofs!Nested, OnceProofs!Kinds,
         OnceProofs!WellFormed, OnceProofs!Decode, OnceProofs!Loop,
         OnceProofs!Turn, OnceProofs!Known, OnceProofs!DecodeField,
         OnceProofs!Threw, OnceProofs!Returned, OnceProofs!Unsafe,
         OnceProofs!ToSet, OnceProofs!CreateBase, OnceProofs!FieldNames,
         OnceProofs!FieldNamed, OnceProofs!ToJSON, OnceProofs!FromJSON,
         OnceProofs!Suits, OnceProofs!Proper, OnceProofs!HoldsUnsafe,
         OnceProofs!HasUnsafe, OnceProofs!Filled, OnceProofs!Full,
         Sent!Once!Encode, Sent!Once!FlattenSeq, Sent!Once!EncodeField,
         Sent!Once!TokenOf, Sent!Once!WireType, Sent!Once!Written,
         Sent!Once!Default, Sent!Once!Nested, Sent!Once!Kinds,
         Sent!Once!WellFormed, Sent!Once!Decode, Sent!Once!Loop,
         Sent!Once!Turn, Sent!Once!Known, Sent!Once!DecodeField,
         Sent!Once!Threw, Sent!Once!Returned, Sent!Once!Unsafe,
         Sent!Once!ToSet, Sent!Once!CreateBase, Sent!Once!FieldNames,
         Sent!Once!FieldNamed, Sent!Once!ToJSON, Sent!Once!FromJSON,
         Sent!Once!Suits, Sent!Once!Proper, Sent!Once!HoldsUnsafe,
         Sent!Once!HasUnsafe, Sent!Once!Filled, Sent!Once!Full, Sent!Codec!WellFormed, Sent!Codec!CreateBase,
         Sent!Codec!FieldNames, Sent!Codec!FieldNamed, Sent!Codec!Default,
         Sent!Codec!ToSet, Sent!Codec!Kinds, Sent!Codec!Nested

LEMMA SameTwice ==
    ASSUME NEW fields, NEW x
    PROVE  /\ TwiceProofs!Encode(fields, x) = Sent!Twice!Encode(fields, x)
           /\ TwiceProofs!Decode(fields, x) = Sent!Twice!Decode(fields, x)
           /\ TwiceProofs!ToJSON(fields, x) = Sent!Twice!ToJSON(fields, x)
           /\ TwiceProofs!FromJSON(fields, x) = Sent!Twice!FromJSON(fields, x)
           /\ TwiceProofs!Proper(fields, x) = Sent!Twice!Proper(fields, x)
           /\ TwiceProofs!HasUnsafe(fields, x) = Sent!Twice!HasUnsafe(fields, x)
           /\ TwiceProofs!Full(fields, x) = Sent!Twice!Full(fields, x)
           /\ TwiceProofs!CreateBase(fields) = Sent!Codec!CreateBase(fields)
           /\ TwiceProofs!WellFormed(fields) = Sent!Codec!WellFormed(fields)
           /\ TwiceProofs!Filled(fields, x) = Sent!Twice!Filled(fields, x)
           /\ TwiceProofs!Default(x) = Sent!Twice!Default(x)
  BY DEF TwiceProofs!Encode, TwiceProofs!FlattenSeq,
         TwiceProofs!EncodeField, TwiceProofs!TokenOf, TwiceProofs!WireType,
         TwiceProofs!Written, TwiceProofs!Default, TwiceProofs!Nested,
         TwiceProofs!Kinds, TwiceProofs!WellFormed, TwiceProofs!Decode,
         TwiceProofs!Loop, TwiceProofs!Turn, TwiceProofs!Known,
         TwiceProofs!DecodeField, TwiceProofs!Threw, TwiceProofs!Returned,
         TwiceProofs!Unsafe, TwiceProofs!ToSet, TwiceProofs!CreateBase,
         TwiceProofs!FieldNames, TwiceProofs!FieldNamed, TwiceProofs!ToJSON,
         TwiceProofs!FromJSON, TwiceProofs!Suits, TwiceProofs!Proper,
         TwiceProofs!HoldsUnsafe, TwiceProofs!HasUnsafe, TwiceProofs!Filled,
         TwiceProofs!Full, Sent!Twice!Encode, Sent!Twice!FlattenSeq,
         Sent!Twice!EncodeField, Sent!Twice!TokenOf, Sent!Twice!WireType,
         Sent!Twice!Written, Sent!Twice!Default, Sent!Twice!Nested,
         Sent!Twice!Kinds, Sent!Twice!WellFormed, Sent!Twice!Decode,
         Sent!Twice!Loop, Sent!Twice!Turn, Sent!Twice!Known,
         Sent!Twice!DecodeField, Sent!Twice!Threw, Sent!Twice!Returned,
         Sent!Twice!Unsafe, Sent!Twice!ToSet, Sent!Twice!CreateBase,
         Sent!Twice!FieldNames, Sent!Twice!FieldNamed, Sent!Twice!ToJSON,
         Sent!Twice!FromJSON, Sent!Twice!Suits, Sent!Twice!Proper,
         Sent!Twice!HoldsUnsafe, Sent!Twice!HasUnsafe, Sent!Twice!Filled,
         Sent!Twice!Full, Sent!Codec!WellFormed, Sent!Codec!CreateBase,
         Sent!Codec!FieldNames, Sent!Codec!FieldNamed, Sent!Codec!Default,
         Sent!Codec!ToSet, Sent!Codec!Kinds, Sent!Codec!Nested

LEMMA SameCodec ==
    ASSUME NEW fields, NEW x
    PROVE  /\ CodecProofs!Encode(fields, x) = Sent!Codec!Encode(fields, x)
           /\ CodecProofs!Decode(fields, x) = Sent!Codec!Decode(fields, x)
           /\ CodecProofs!ToJSON(fields, x) = Sent!Codec!ToJSON(fields, x)
           /\ CodecProofs!FromJSON(fields, x) = Sent!Codec!FromJSON(fields, x)
           /\ CodecProofs!Proper(fields, x) = Sent!Codec!Proper(fields, x)
           /\ CodecProofs!HasUnsafe(fields, x) = Sent!Codec!HasUnsafe(fields, x)
           /\ CodecProofs!Full(fields, x) = Sent!Codec!Full(fields, x)
           /\ CodecProofs!CreateBase(fields) = Sent!Codec!CreateBase(fields)
           /\ CodecProofs!WellFormed(fields) = Sent!Codec!WellFormed(fields)
           /\ CodecProofs!Filled(fields, x) = Sent!Codec!Filled(fields, x)
           /\ CodecProofs!Default(x) = Sent!Codec!Default(x)
  BY DEF CodecProofs!Encode, CodecProofs!FlattenSeq,
         CodecProofs!EncodeField, CodecProofs!TokenOf, CodecProofs!WireType,
         CodecProofs!Written, CodecProofs!Default, CodecProofs!Nested,
         CodecProofs!Kinds, CodecProofs!WellFormed, CodecProofs!Decode,
         CodecProofs!Loop, CodecProofs!Turn, CodecProofs!Known,
         CodecProofs!DecodeField, CodecProofs!Threw, CodecProofs!Returned,
         CodecProofs!Unsafe, CodecProofs!ToSet, CodecProofs!CreateBase,
         CodecProofs!FieldNames, CodecProofs!FieldNamed, CodecProofs!ToJSON,
         CodecProofs!FromJSON, CodecProofs!Suits, CodecProofs!Proper,
         CodecProofs!HoldsUnsafe, CodecProofs!HasUnsafe, CodecProofs!Filled,
         CodecProofs!Full, Sent!Codec!Encode, Sent!Codec!FlattenSeq,
         Sent!Codec!EncodeField, Sent!Codec!TokenOf, Sent!Codec!WireType,
         Sent!Codec!Written, Sent!Codec!Default, Sent!Codec!Nested,
         Sent!Codec!Kinds, Sent!Codec!WellFormed, Sent!Codec!Decode,
         Sent!Codec!Loop, Sent!Codec!Turn, Sent!Codec!Known,
         Sent!Codec!DecodeField, Sent!Codec!Threw, Sent!Codec!Returned,
         Sent!Codec!Unsafe, Sent!Codec!ToSet, Sent!Codec!CreateBase,
         Sent!Codec!FieldNames, Sent!Codec!FieldNamed, Sent!Codec!ToJSON,
         Sent!Codec!FromJSON, Sent!Codec!Suits, Sent!Codec!Proper,
         Sent!Codec!HoldsUnsafe, Sent!Codec!HasUnsafe, Sent!Codec!Filled,
         Sent!Codec!Full

LEMMA MessageAssumptions ==
    /\ \A t \in DOMAIN Schema : Sent!Codec!WellFormed(Schema[t])
    /\ DOMAIN Schema = Sent!Holding(Sent!TwiceTypes)
    /\ Payloads \subseteq DOMAIN Schema
    /\ MaxSafe \in Nat
    /\ \A some : Sent!Holding(some) \subseteq DOMAIN Schema
  BY PartsAssumption, Zenon DEF Sent!MessagesAssumption, Sent!Holding

LEMMA StringAssumptions ==
    FlatProofs!Texts /\ OnceProofs!Texts /\ TwiceProofs!Texts /\ CodecProofs!Texts
  BY PartsAssumption, Zenon DEF Sent!MessagesAssumption,
     FlatProofs!Texts, OnceProofs!Texts, TwiceProofs!Texts, CodecProofs!Texts

LEMMA FlatKept ==
    OnceProofs!InnerKept(Sent!FlatTypes) /\ \A large \in Int : OnceProofs!InnerFills(Sent!FlatTypes, large)
<1>0. FlatProofs!InnerKept({}) /\ \A large \in Int : FlatProofs!InnerFills({}, large)
  BY DEF FlatProofs!InnerKept, FlatProofs!InnerFills
<1>1. ASSUME NEW t \in Sent!FlatTypes
      PROVE  /\ FlatProofs!WellFormed(Schema[t])
             /\ \A f \in FlatProofs!ToSet(Schema[t]) : FlatProofs!NestsIn(f, {})
  <2>1. t \in DOMAIN Schema
    BY DEF Sent!FlatTypes, Sent!Holding
  <2>2. FlatProofs!WellFormed(Schema[t])
    BY <2>1, SameFlat, MessageAssumptions
  <2>3. \A f \in FlatProofs!ToSet(Schema[t]) : FlatProofs!NestsIn(f, {})
    BY DEF Sent!FlatTypes, Sent!Holding, Sent!Codec!Nested, Sent!ToSet,
       FlatProofs!NestsIn, FlatProofs!Nested, FlatProofs!ToSet
  <2> QED
    BY <2>2, <2>3
<1>2. ASSUME NEW t \in Sent!FlatTypes, NEW x, FlatProofs!Proper(Schema[t], x)
      PROVE  /\ FlatProofs!Decode(Schema[t], FlatProofs!Encode(Schema[t], x)) =
                    IF FlatProofs!HasUnsafe(FlatProofs!ToSet(Schema[t]), x) THEN FlatProofs!Threw
                    ELSE FlatProofs!Returned(x)
             /\ FlatProofs!FromJSON(Schema[t], FlatProofs!ToJSON(Schema[t], x)) = x
  BY <1>0, <1>1, <1>2, FlatProofs!Kept, MessageAssumptions
<1>3. ASSUME NEW t \in Sent!FlatTypes, NEW large \in Int
      PROVE  /\ FlatProofs!Proper(Schema[t], FlatProofs!Full(Schema[t], large))
             /\ FlatProofs!Proper(Schema[t], FlatProofs!CreateBase(Schema[t]))
  BY <1>0, <1>1, FlatProofs!FullProper, FlatProofs!BaseProper, StringAssumptions
<1>4. OnceProofs!InnerKept(Sent!FlatTypes)
  BY <1>2, SameFlat DEF OnceProofs!InnerKept, OnceProofs!Threw, OnceProofs!Returned, OnceProofs!ToSet,
     FlatProofs!Threw, FlatProofs!Returned, FlatProofs!ToSet
<1>5. \A large \in Int : OnceProofs!InnerFills(Sent!FlatTypes, large)
  BY <1>3, SameFlat, SameOnce DEF OnceProofs!InnerFills
<1> QED
  BY <1>4, <1>5

LEMMA OnceKept ==
    ASSUME OnceProofs!InnerKept(Sent!FlatTypes), \A large \in Int : OnceProofs!InnerFills(Sent!FlatTypes, large)
    PROVE  TwiceProofs!InnerKept(Sent!OnceTypes) /\ \A large \in Int : TwiceProofs!InnerFills(Sent!OnceTypes, large)
<1>1. ASSUME NEW t \in Sent!OnceTypes
      PROVE  /\ OnceProofs!WellFormed(Schema[t])
             /\ \A f \in OnceProofs!ToSet(Schema[t]) : OnceProofs!NestsIn(f, Sent!FlatTypes)
  <2>1. t \in DOMAIN Schema
    BY DEF Sent!OnceTypes, Sent!Holding
  <2>2. OnceProofs!WellFormed(Schema[t])
    BY <2>1, SameOnce, MessageAssumptions
  <2>3. \A f \in OnceProofs!ToSet(Schema[t]) : OnceProofs!NestsIn(f, Sent!FlatTypes)
    BY DEF Sent!OnceTypes, Sent!Holding, Sent!Codec!Nested, Sent!ToSet,
       OnceProofs!NestsIn, OnceProofs!Nested, OnceProofs!ToSet
  <2> QED
    BY <2>2, <2>3
<1>2. ASSUME NEW t \in Sent!OnceTypes, NEW x, OnceProofs!Proper(Schema[t], x)
      PROVE  /\ OnceProofs!Decode(Schema[t], OnceProofs!Encode(Schema[t], x)) =
                    IF OnceProofs!HasUnsafe(OnceProofs!ToSet(Schema[t]), x) THEN OnceProofs!Threw
                    ELSE OnceProofs!Returned(x)
             /\ OnceProofs!FromJSON(Schema[t], OnceProofs!ToJSON(Schema[t], x)) = x
  BY <1>1, <1>2, OnceProofs!Kept, MessageAssumptions
<1>3. ASSUME NEW t \in Sent!OnceTypes, NEW large \in Int
      PROVE  /\ OnceProofs!Proper(Schema[t], OnceProofs!Full(Schema[t], large))
             /\ OnceProofs!Proper(Schema[t], OnceProofs!CreateBase(Schema[t]))
  BY <1>1, OnceProofs!FullProper, OnceProofs!BaseProper, StringAssumptions
<1>4. TwiceProofs!InnerKept(Sent!OnceTypes)
  BY <1>2, SameOnce DEF TwiceProofs!InnerKept, TwiceProofs!Threw, TwiceProofs!Returned, TwiceProofs!ToSet,
     OnceProofs!Threw, OnceProofs!Returned, OnceProofs!ToSet
<1>5. \A large \in Int : TwiceProofs!InnerFills(Sent!OnceTypes, large)
  BY <1>3, SameOnce, SameTwice DEF TwiceProofs!InnerFills
<1> QED
  BY <1>4, <1>5

LEMMA TwiceKept ==
    ASSUME TwiceProofs!InnerKept(Sent!OnceTypes), \A large \in Int : TwiceProofs!InnerFills(Sent!OnceTypes, large)
    PROVE  CodecProofs!InnerKept(Sent!TwiceTypes) /\ \A large \in Int : CodecProofs!InnerFills(Sent!TwiceTypes, large)
<1>1. ASSUME NEW t \in Sent!TwiceTypes
      PROVE  /\ TwiceProofs!WellFormed(Schema[t])
             /\ \A f \in TwiceProofs!ToSet(Schema[t]) : TwiceProofs!NestsIn(f, Sent!OnceTypes)
  <2>1. t \in DOMAIN Schema
    BY DEF Sent!TwiceTypes, Sent!Holding
  <2>2. TwiceProofs!WellFormed(Schema[t])
    BY <2>1, SameTwice, MessageAssumptions
  <2>3. \A f \in TwiceProofs!ToSet(Schema[t]) : TwiceProofs!NestsIn(f, Sent!OnceTypes)
    BY DEF Sent!TwiceTypes, Sent!Holding, Sent!Codec!Nested, Sent!ToSet,
       TwiceProofs!NestsIn, TwiceProofs!Nested, TwiceProofs!ToSet
  <2> QED
    BY <2>2, <2>3
<1>2. ASSUME NEW t \in Sent!TwiceTypes, NEW x, TwiceProofs!Proper(Schema[t], x)
      PROVE  /\ TwiceProofs!Decode(Schema[t], TwiceProofs!Encode(Schema[t], x)) =
                    IF TwiceProofs!HasUnsafe(TwiceProofs!ToSet(Schema[t]), x) THEN TwiceProofs!Threw
                    ELSE TwiceProofs!Returned(x)
             /\ TwiceProofs!FromJSON(Schema[t], TwiceProofs!ToJSON(Schema[t], x)) = x
  BY <1>1, <1>2, TwiceProofs!Kept, MessageAssumptions
<1>3. ASSUME NEW t \in Sent!TwiceTypes, NEW large \in Int
      PROVE  /\ TwiceProofs!Proper(Schema[t], TwiceProofs!Full(Schema[t], large))
             /\ TwiceProofs!Proper(Schema[t], TwiceProofs!CreateBase(Schema[t]))
  BY <1>1, TwiceProofs!FullProper, TwiceProofs!BaseProper, StringAssumptions
<1>4. CodecProofs!InnerKept(Sent!TwiceTypes)
  BY <1>2, SameTwice DEF CodecProofs!InnerKept, CodecProofs!Threw, CodecProofs!Returned, CodecProofs!ToSet,
     TwiceProofs!Threw, TwiceProofs!Returned, TwiceProofs!ToSet
<1>5. \A large \in Int : CodecProofs!InnerFills(Sent!TwiceTypes, large)
  BY <1>3, SameTwice, SameCodec DEF CodecProofs!InnerFills
<1> QED
  BY <1>4, <1>5

\* The messages of the schema, and the codecs of the messages inside them.
LEMMA SchemaKept ==
    /\ CodecProofs!InnerKept(Sent!TwiceTypes)
    /\ \A large \in Int : CodecProofs!InnerFills(Sent!TwiceTypes, large)
    /\ \A t \in DOMAIN Schema :
           /\ CodecProofs!WellFormed(Schema[t])
           /\ \A f \in CodecProofs!ToSet(Schema[t]) :
                  CodecProofs!NestsIn(f, Sent!TwiceTypes)
<1>1. ASSUME NEW t \in DOMAIN Schema
      PROVE  \A f \in CodecProofs!ToSet(Schema[t]) :
                 CodecProofs!NestsIn(f, Sent!TwiceTypes)
  <2>1. t \in Sent!Holding(Sent!TwiceTypes)
    BY MessageAssumptions
  <2> QED
    BY <2>1 DEF Sent!Holding, Sent!Codec!Nested, Sent!ToSet,
       CodecProofs!NestsIn, CodecProofs!Nested, CodecProofs!ToSet
<1>2. \A t \in DOMAIN Schema : CodecProofs!WellFormed(Schema[t])
  BY SameCodec, MessageAssumptions
<1> QED
  BY <1>1, <1>2, FlatKept, OnceKept, TwiceKept

LEMMA EveryMessageArrives ==
    ASSUME NEW t \in DOMAIN Schema, NEW m, Sent!Codec!Proper(Schema[t], m),
           NEW writer \in Sent!Codec!Versions(Schema[t]),
           NEW reader \in Sent!Codec!Versions(Schema[t])
    PROVE  Sent!Codec!Arrives(m, writer, reader)
<1>1. /\ writer \in CodecProofs!Versions(Schema[t])
      /\ reader \in CodecProofs!Versions(Schema[t])
  BY DEF Sent!Codec!Versions, Sent!Codec!RemoveAt,
     CodecProofs!Versions, CodecProofs!RemoveAt
<1>2. CodecProofs!Proper(Schema[t], m)
  BY SameCodec
<1>3. CodecProofs!Arrives(m, writer, reader)
  BY <1>1, <1>2, SchemaKept, MessageAssumptions, CodecProofs!MessageArrives
<1>4. /\ \A fields, x :
             /\ CodecProofs!Encode(fields, x) = Sent!Codec!Encode(fields, x)
             /\ CodecProofs!Decode(fields, x) = Sent!Codec!Decode(fields, x)
             /\ CodecProofs!ToJSON(fields, x) = Sent!Codec!ToJSON(fields, x)
             /\ CodecProofs!FromJSON(fields, x) = Sent!Codec!FromJSON(fields, x)
             /\ CodecProofs!HasUnsafe(fields, x) = Sent!Codec!HasUnsafe(fields, x)
      /\ \A x : CodecProofs!Default(x) = Sent!Codec!Default(x)
  BY SameCodec
<1> QED
  BY <1>3, <1>4 DEF CodecProofs!Arrives, CodecProofs!AsKnownTo,
     CodecProofs!FieldNames, CodecProofs!FieldNamed, CodecProofs!ToSet,
     CodecProofs!Threw, CodecProofs!Returned,
     Sent!Codec!Arrives, Sent!Codec!AsKnownTo,
     Sent!Codec!FieldNames, Sent!Codec!FieldNamed, Sent!Codec!ToSet,
     Sent!Codec!Threw, Sent!Codec!Returned

-----------------------------------------------------------------------------
\* A message under construction has a type, and its fields hold what suits.
MessageInv == type \in DOMAIN Schema /\ Sent!Codec!Proper(Schema[type], message)

LEMMA InitMessageInv == ASSUME Sent!Init PROVE MessageInv
<1>1. type \in DOMAIN Schema /\ message = Sent!Codec!CreateBase(Schema[type])
  BY MessageAssumptions DEF Sent!Init
<1>2. CodecProofs!Proper(Schema[type], CodecProofs!CreateBase(Schema[type]))
  BY <1>1, SchemaKept, StringAssumptions, CodecProofs!BaseProper
<1> QED
  BY <1>1, <1>2, SameCodec DEF MessageInv

LEMMA SetFieldStep == ASSUME MessageInv, Sent!SetField PROVE MessageInv'
<1> DEFINE fields == Schema[type]
<1>1. PICK f \in Sent!ToSet(fields), large \in {-MaxSafe, MaxSafe + 1} :
          /\ message' = [message EXCEPT ![f.name] = Sent!Codec!Filled(f, large)]
          /\ UNCHANGED type
  BY DEF Sent!SetField
<1>2. large \in Int /\ f \in CodecProofs!ToSet(fields)
  <2>1. MaxSafe \in Nat
    BY MessageAssumptions
  <2>2. large \in Int
    BY <1>1, <2>1
  <2> QED
    BY <1>1, <2>2 DEF Sent!ToSet, CodecProofs!ToSet
<1>3. CodecProofs!Proper(fields, message)
  BY SameCodec DEF MessageInv
<1>4. CodecProofs!Proper(fields, [message EXCEPT ![f.name] = CodecProofs!Filled(f, large)])
  BY <1>2, <1>3, SchemaKept, StringAssumptions, CodecProofs!SetProper DEF MessageInv
<1>5. CodecProofs!Filled(f, large) = Sent!Codec!Filled(f, large)
  BY SameCodec
<1>6. Sent!Codec!Proper(fields, message')
  BY <1>1, <1>4, <1>5, SameCodec
<1> QED
  BY <1>1, <1>6 DEF MessageInv

(***************************************************************************)
(* Whatever messages a schema has (of at most four levels), whatever their *)
(* fields hold and whichever field one of the two sides lacks, a message   *)
(* arrives as it was sent, over gRPC and as JSON, unless an integer in it  *)
(* is not safe (frontend/protos/demo.ts, encode to fromPartial of every    *)
(* message).                                                               *)
(***************************************************************************)
THEOREM PartsArrivesAsSent == PartsSpec => []ArrivesAsSent
<1>1. PartsInit => MessageInv
  BY InitMessageInv DEF PartsInit
<1>2. MessageInv /\ [PartsNext]_partsVars => MessageInv'
  <2> SUFFICES ASSUME MessageInv, [PartsNext]_partsVars PROVE MessageInv'
    OBVIOUS
  <2>1. Sent!SetField \/ UNCHANGED messageVars
    BY DEF PartsNext, partsVars, messageVars, Sent!Next
  <2>2. CASE UNCHANGED messageVars
    BY <2>2 DEF messageVars, MessageInv
  <2> QED
    BY <2>1, <2>2, SetFieldStep
<1>3. MessageInv => ArrivesAsSent
  BY EveryMessageArrives DEF MessageInv, ArrivesAsSent, Sent!ArrivesAsSent
<1> QED
  BY <1>1, <1>2, <1>3, PTL DEF PartsSpec
=============================================================================
