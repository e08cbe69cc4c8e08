--------------------------- MODULE OrderConsumers ---------------------------
(***************************************************************************)
(* The two services that read the topic of orders: accounting              *)
(* (src/src/accounting/Consumer.cs), one record at a time, and             *)
(* fraud-detection (src/src/fraud-detection, main.kt), batch by batch.     *)
(*                                                                         *)
(* Neither commits anything itself.  accounting's client commits in the    *)
(* background what Consume has returned; fraud-detection's commits inside  *)
(* poll what earlier polls have returned, and what the last one has when   *)
(* the consumer is closed.  A record that cannot be parsed is logged by    *)
(* accounting, while in fraud-detection the exception leaves the loop and  *)
(* closes the consumer.  The container starts again either way.            *)
(***************************************************************************)
EXTENDS Naturals, Sequences

CONSTANTS MaxRecords, \* bound of the model: records on the topic
          MaxStops    \* bound of the model: how often a consumer stops

Consumers == {"accounting", "fraud"}

VARIABLES
    topic,     \* Seq of BOOLEAN: whether the record can be parsed
    committed, \* [Consumers -> Nat]: the last offset committed, or NoOffset
    position,  \* [Consumers -> Nat]: the last record fetched
    done,      \* [Consumers -> Nat]: the last fetched record dealt with
    up,        \* [Consumers -> BOOLEAN]
    stops,
    \* history, read by the properties only
    processed, \* [Consumers -> SUBSET Nat]: records that have been logged
    inHand,    \* [Consumers -> SUBSET Nat]: in hand when the process died
    behindBad, \* behind a bad record in a batch that it ended
    notYet     \* [Consumers -> SUBSET Nat]: older than the first start

histories == <<processed, inHand, behindBad, notYet>>

vars == <<topic, committed, position, done, up, stops, histories>>

\* The group has not committed yet (records are counted from 1).
NoOffset == MaxRecords + 1

Init ==
    /\ topic = <<>>
    /\ committed = [c \in Consumers |-> NoOffset]
    /\ position = [c \in Consumers |-> 0]
    /\ done = [c \in Consumers |-> 0]
    /\ up = [c \in Consumers |-> FALSE]
    /\ stops = 0
    /\ processed = [c \in Consumers |-> {}]
    /\ inHand = [c \in Consumers |-> {}]
    /\ behindBad = {}
    /\ notYet = [c \in Consumers |-> {}]

\* The checkout service publishes an order, or somebody else something else.
Publish ==
    /\ Len(topic) < MaxRecords
    /\ \E parses \in BOOLEAN : topic' = Append(topic, parses)
    /\ UNCHANGED <<committed, position, done, up, stops, histories>>

(***************************************************************************)
(* A group without a committed offset begins with the oldest record        *)
(* (AutoOffsetReset.Earliest), or, for fraud-detection, which does not say *)
(* and gets the client's default, behind the latest.                       *)
(***************************************************************************)
FirstPosition(c) == IF c = "accounting" THEN 0 ELSE Len(topic)

Resume(c) ==
    LET from == IF committed[c] = NoOffset THEN FirstPosition(c) ELSE committed[c]
    IN  /\ position' = [position EXCEPT ![c] = from]
        /\ done' = [done EXCEPT ![c] = from]
        /\ notYet' = IF committed[c] = NoOffset
                     THEN [notYet EXCEPT ![c] = @ \cup 1 .. from]
                     ELSE notYet
        /\ UNCHANGED <<topic, committed, stops, processed, inHand, behindBad>>

Start(c) ==
    /\ ~up[c]
    /\ up' = [up EXCEPT ![c] = TRUE]
    /\ Resume(c)

-----------------------------------------------------------------------------
\* accounting: Consume returns the next record.
Consume ==
    LET c == "accounting"
    IN  /\ up[c]
        /\ done[c] = position[c]
        /\ position[c] < Len(topic)
        /\ position' = [position EXCEPT ![c] = @ + 1]
        /\ UNCHANGED <<topic, committed, done, up, stops, histories>>

ProcessMessage ==
    LET c == "accounting"
    IN  /\ up[c]
        /\ done[c] < position[c]
        /\ done' = [done EXCEPT ![c] = position[c]]
        /\ processed' = IF topic[position[c]]
                        THEN [processed EXCEPT ![c] = @ \cup {position[c]}]
                        ELSE processed
        /\ UNCHANGED <<topic, committed, position, up, stops, inHand, behindBad, notYet>>

\* The client's background thread (EnableAutoCommit).
AutoCommit ==
    LET c == "accounting"
    IN  /\ up[c]
        /\ position[c] > 0
        /\ committed' = [committed EXCEPT ![c] = position[c]]
        /\ UNCHANGED <<topic, position, done, up, stops, histories>>

-----------------------------------------------------------------------------
\* Seeded bug: poll commits what it is about to return.
PollCommittingAhead ==
    LET c == "fraud"
    IN  /\ up[c]
        /\ done[c] = position[c]
        /\ \E last \in position[c] .. Len(topic) :
               /\ position' = [position EXCEPT ![c] = last]
               /\ committed' = [committed EXCEPT ![c] = last]
        /\ UNCHANGED <<topic, done, up, stops, histories>>

\* fraud-detection: poll returns a batch, and commits before, if it is time.
Poll ==
    LET c == "fraud"
    IN  /\ up[c]
        /\ done[c] = position[c]
        /\ \E last \in position[c] .. Len(topic) :
               position' = [position EXCEPT ![c] = last]
        /\ \E now \in BOOLEAN :
               committed' = IF now THEN [committed EXCEPT ![c] = position[c]]
                            ELSE committed
        /\ UNCHANGED <<topic, done, up, stops, histories>>

(***************************************************************************)
(* With the flag kafkaQueueProblems every record costs a second, and a     *)
(* full batch more than the client may take between two polls: it has left *)
(* the group, cannot commit, and begins again where it last could.         *)
(***************************************************************************)
PollTooLate ==
    /\ up["fraud"]
    /\ done["fraud"] = position["fraud"]
    /\ Resume("fraud")
    /\ UNCHANGED up

FoldRecord ==
    LET c == "fraud"
    IN  /\ up[c]
        /\ done[c] < position[c]
        /\ topic[done[c] + 1]
        /\ done' = [done EXCEPT ![c] = @ + 1]
        /\ processed' = [processed EXCEPT ![c] = @ \cup {done[c] + 1}]
        /\ UNCHANGED <<topic, committed, position, up, stops, inHand, behindBad, notYet>>

(***************************************************************************)
(* The exception of a record that cannot be parsed leaves `use', which     *)
(* closes the consumer: closing commits the position, behind the batch.    *)
(***************************************************************************)
ParseFails ==
    LET c == "fraud"
    IN  /\ up[c]
        /\ done[c] < position[c]
        /\ ~topic[done[c] + 1]
        /\ stops < MaxStops
        /\ stops' = stops + 1
        /\ up' = [up EXCEPT ![c] = FALSE]
        /\ committed' = [committed EXCEPT ![c] = position[c]]
        /\ behindBad' = behindBad \cup (done[c] + 2 .. position[c])
        /\ UNCHANGED <<topic, position, done, processed, inHand, notYet>>

-----------------------------------------------------------------------------
\* The process dies, with whatever it has fetched and not dealt with.
Die(c) ==
    /\ up[c]
    /\ stops < MaxStops
    /\ stops' = stops + 1
    /\ up' = [up EXCEPT ![c] = FALSE]
    /\ inHand' = [inHand EXCEPT ![c] = @ \cup (done[c] + 1 .. position[c])]
    /\ UNCHANGED <<topic, committed, position, done, processed, behindBad, notYet>>

Next ==
    \/ Publish
    \/ \E c \in Consumers : Start(c) \/ Die(c)
    \/ Consume \/ ProcessMessage \/ AutoCommit
    \/ Poll \/ PollTooLate \/ FoldRecord \/ ParseFails

Spec == Init /\ [][Next]_vars

-----------------------------------------------------------------------------
(***************************************************************************)
(* An order that a consumer group has left behind, by its committed offset *)
(* or by its position, was logged, with three exceptions: of accounting    *)
(* the one record in hand when the process died, of fraud-detection what   *)
(* followed a record that cannot be parsed in the same batch, and what was *)
(* published before a start without a committed offset.  What is fetched   *)
(* in a batch that dies with the process is read again (Consumer.cs:41-43, *)
(* main.kt:54-68).                                                         *)
(***************************************************************************)
LeftBehind(c) ==
    {r \in DOMAIN topic : r <= done[c] \/ (committed[c] # NoOffset /\ r <= committed[c])}

Excused(c) ==
    IF c = "accounting" THEN inHand[c] \cup (done[c] + 1 .. position[c])
    ELSE behindBad \cup notYet[c]

SkippedOnlyWhenStopped ==
    \A c \in Consumers : \A r \in LeftBehind(c) :
        topic[r] => r \in processed[c] \cup Excused(c)
=============================================================================
