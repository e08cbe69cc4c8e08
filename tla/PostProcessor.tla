--------------------------- MODULE PostProcessor ---------------------------
(***************************************************************************)
(* The last step of PlaceOrder, sendToPostProcessor                        *)
(* (src/src/checkout/main.go), over the one kafka producer that all orders *)
(* share (src/src/checkout/kafka/producer.go).                             *)
(*                                                                         *)
(* An order hands its message to the producer and waits for an answer.     *)
(* Answers carry no address: whoever receives next from the channel        *)
(* Successes or Errors has it.  Four kinds of goroutine receive: orders,   *)
(* the copies the flag kafkaQueueProblems makes an order spawn, and the    *)
(* one that CreateKafkaProducer starts, which logs errors.                 *)
(*                                                                         *)
(* The producer itself is a library: a queue of limited size from which    *)
(* messages are taken one by one, each to be answered before the next.     *)
(***************************************************************************)
EXTENDS Naturals, Sequences, FiniteSets

CONSTANTS Orders,
          Overloads,  \* settings of the flag kafkaQueueProblems
          Capacity    \* messages the producer holds besides the one answered

ASSUME PostProcessorAssumption ==
    /\ Overloads \subseteq Nat
    /\ 0 \in Overloads
    /\ IsFiniteSet(Overloads)
    /\ Capacity \in Nat \ {0}

Copies == UNION {1..n : n \in Overloads}

\* <<o, 0>> is PlaceOrder itself, the others the goroutines it spawns.
Senders == Orders \X ({0} \cup Copies)

VARIABLES
    pc,         \* [Senders -> ...]
    outcome,    \* [Orders -> ...]: what sendToPostProcessor logs
    queue,      \* messages handed to the producer and not yet tried
    offered,    \* the answer the producer is waiting to get rid of
    drained,    \* errors received by the goroutine of CreateKafkaProducer
    tried       \* [Orders -> Nat]: messages of the order written to kafka

vars == <<pc, outcome, queue, offered, drained, tried>>

NoOffer == [kind |-> "none"]

Offer(kind, o) == [kind |-> kind, order |-> o]

Init ==
    /\ pc = [s \in Senders |-> "idle"]
    /\ outcome = [o \in Orders |-> "none"]
    /\ queue = <<>>
    /\ offered = NoOffer
    /\ drained = 0
    /\ tried = [o \in Orders |-> 0]

Main(o) == <<o, 0>>

GoTo(s, step) == pc' = [pc EXCEPT ![s] = step]

\* PlaceOrder has come to its last step.
Begin(o) ==
    /\ pc[Main(o)] = "idle"
    /\ GoTo(Main(o), "sending")
    /\ UNCHANGED <<outcome, queue, offered, drained, tried>>

\* Seeded bug: the producer takes any number of messages.
SendUnbounded(s) ==
    /\ pc[s] = "sending"
    /\ Len(queue) <= Capacity
    /\ queue' = Append(queue, s[1])
    /\ GoTo(s, "waiting")
    /\ UNCHANGED <<outcome, offered, drained, tried>>

\* case Input() <- &msg, of an order or of a goroutine
Send(s) ==
    /\ pc[s] = "sending"
    /\ Len(queue) < Capacity
    /\ queue' = Append(queue, s[1])
    /\ GoTo(s, "waiting")
    /\ UNCHANGED <<outcome, offered, drained, tried>>

\* case <-ctx.Done() of the outer select: nothing was sent.
CancelSend(o) ==
    /\ pc[Main(o)] = "sending"
    /\ GoTo(Main(o), "done")
    /\ outcome' = [outcome EXCEPT ![o] = "unsent"]
    /\ UNCHANGED <<queue, offered, drained, tried>>

Receive(kind) ==
    /\ offered.kind = kind
    /\ offered' = NoOffer
    /\ UNCHANGED <<queue, tried>>

\* Seeded bugs: an order waits for errors only; it sends again after one.
ReceiveErrorOnly(o) ==
    /\ pc[Main(o)] = "waiting"
    /\ Receive("error")
    /\ outcome' = [outcome EXCEPT ![o] = "error"]
    /\ GoTo(Main(o), "sent")
    /\ UNCHANGED drained

ReceiveAnswerOrRetry(o) ==
    /\ pc[Main(o)] = "waiting"
    /\ \E kind \in {"success", "error"} :
          /\ Receive(kind)
          /\ outcome' = [outcome EXCEPT ![o] = kind]
          /\ GoTo(Main(o), IF kind = "error" THEN "sending" ELSE "sent")
    /\ UNCHANGED drained

\* case <-Successes() or <-Errors() of the inner select
ReceiveAnswer(o) ==
    /\ pc[Main(o)] = "waiting"
    /\ \E kind \in {"success", "error"} :
          /\ Receive(kind)
          /\ outcome' = [outcome EXCEPT ![o] = kind]
    /\ GoTo(Main(o), "sent")
    /\ UNCHANGED drained

\* case <-ctx.Done() of the inner select: the message is on its way.
CancelWait(o) ==
    /\ pc[Main(o)] = "waiting"
    /\ outcome' = [outcome EXCEPT ![o] = "cancelled"]
    /\ GoTo(Main(o), "sent")
    /\ UNCHANGED <<queue, offered, drained, tried>>

\* getIntFeatureFlag(kafkaQueueProblems), and the goroutines it asks for.
Overload(o) ==
    /\ pc[Main(o)] = "sent"
    /\ \E n \in Overloads :
          pc' = [s \in Senders |->
                    IF s = Main(o) THEN "done"
                    ELSE IF s \in {o} \X (1..n) THEN "sending"
                    ELSE pc[s]]
    /\ UNCHANGED <<outcome, queue, offered, drained, tried>>

\* Seeded bug: a goroutine does not receive the answer to what it has sent.
ReceiveNothing(s) ==
    /\ s[2] # 0
    /\ pc[s] = "waiting"
    /\ GoTo(s, "done")
    /\ UNCHANGED <<outcome, queue, offered, drained, tried>>

\* _ = <-Successes(): a goroutine hears of no error and of no cancellation.
ReceiveSuccess(s) ==
    /\ s[2] # 0
    /\ pc[s] = "waiting"
    /\ Receive("success")
    /\ GoTo(s, "done")
    /\ UNCHANGED <<outcome, drained>>

\* for err := range producer.Errors()
DrainError ==
    /\ Receive("error")
    /\ drained' = drained + 1
    /\ UNCHANGED <<pc, outcome>>

(***************************************************************************)
(* The producer tries the next message.  With RequiredAcks = NoResponse it *)
(* is a success once it is written to the connection, and whether it has   *)
(* arrived nobody learns.                                                  *)
(***************************************************************************)
Produce ==
    /\ offered = NoOffer
    /\ queue # <<>>
    /\ queue' = Tail(queue)
    /\ LET o == Head(queue)
       IN  /\ \E kind \in {"success", "error"} : offered' = Offer(kind, o)
           /\ tried' = [tried EXCEPT ![o] = @ + 1]
    /\ UNCHANGED <<pc, outcome, drained>>

Next ==
    \/ \E o \in Orders : \/ Begin(o) \/ CancelSend(o) \/ ReceiveAnswer(o)
                         \/ CancelWait(o) \/ Overload(o)
    \/ \E s \in Senders : Send(s) \/ ReceiveSuccess(s)
    \/ DrainError
    \/ Produce

Spec == Init /\ [][Next]_vars

(***************************************************************************)
(* Goroutines that can go on are scheduled; no client has to cancel.       *)
(***************************************************************************)
Fairness ==
    /\ \A o \in Orders : WF_vars(ReceiveAnswer(o)) /\ WF_vars(Overload(o))
    /\ \A s \in Senders : WF_vars(Send(s)) /\ WF_vars(ReceiveSuccess(s))
    /\ WF_vars(DrainError)
    /\ WF_vars(Produce)

FairSpec == Spec /\ Fairness

-----------------------------------------------------------------------------
TypeOK ==
    /\ pc \in [Senders -> {"idle", "sending", "waiting", "sent", "done"}]
    /\ outcome \in [Orders -> {"none", "success", "error", "cancelled", "unsent"}]
    /\ queue \in Seq(Orders) /\ Len(queue) <= Capacity
    /\ \/ offered = NoOffer
       \/ \E kind \in {"success", "error"}, o \in Orders : offered = Offer(kind, o)
    /\ drained \in Nat
    /\ tried \in [Orders -> Nat]

Waiting == {s \in Senders : pc[s] = "waiting"}

Abandoned == {o \in Orders : outcome[o] = "cancelled"}

Pending == Len(queue) + IF offered = NoOffer THEN 0 ELSE 1

(***************************************************************************)
(* Nothing is lost or invented on the way to the topic and back.  Of an    *)
(* order that gave up before sending the consumers can be reached by       *)
(* nothing, and otherwise by exactly one message for itself and one for    *)
(* each goroutine that has sent (main.go:526 and 566).  Every message is   *)
(* answered once, to somebody: those who wait and those who have stopped   *)
(* waiting are as many as the answers to come and those the logging        *)
(* goroutine has taken (main.go:527-549, producer.go:37).                  *)
(***************************************************************************)
Sent(o) ==
    {s \in Senders : /\ s[1] = o
                     /\ pc[s] \in {"waiting", "sent", "done"}
                     /\ s = Main(o) => outcome[o] # "unsent"}

Underway(o) == Cardinality({i \in DOMAIN queue : queue[i] = o})

AnswersConserved ==
    /\ \A o \in Orders : tried[o] + Underway(o) = Cardinality(Sent(o))
    /\ Cardinality(Waiting) + Cardinality(Abandoned) = Pending + drained

(***************************************************************************)
(* An order that waits is answered, unless the logging goroutine has taken *)
(* an answer: then it may wait until its client gives up.                  *)
(***************************************************************************)
AnsweredUnlessDrained ==
    \A o \in Orders :
        pc[Main(o)] = "waiting" ~> pc[Main(o)] # "waiting" \/ drained > 0

(***************************************************************************)
(* An order gets its message accepted, unless so many orders have given up *)
(* waiting that their answers, which nobody receives, fill the producer.   *)
(***************************************************************************)
AcceptedUnlessClogged ==
    \A o \in Orders :
        pc[Main(o)] = "sending" ~>
            pc[Main(o)] # "sending" \/ Cardinality(Abandoned) > Capacity

(***************************************************************************)
(* "So we can know the partition and offset of messages."                  *)
(* (src/src/checkout/kafka/producer.go:28): the success an order logs, and *)
(* the offset it puts in its span, are those of its own message.           *)
(***************************************************************************)
OffsetIsOwn ==
    [][\A o \in Orders : ReceiveAnswer(o) /\ outcome'[o] = "success"
                            => offered.order = o]_vars
=============================================================================
