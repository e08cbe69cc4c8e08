---------------------------- MODULE OrderLedger ----------------------------
(***************************************************************************)
(* What checkout promises of an order, seen from the payment provider, the *)
(* warehouse and the customer: a request is paid at most once, shipped at  *)
(* most once and only what was paid for, confirmed only when both have     *)
(* happened, and never paid once it has been rejected.  A request may fail *)
(* at any point; nothing is promised about undoing what it had done.       *)
(***************************************************************************)
EXTENDS Naturals

CONSTANTS Requests, Lines

VARIABLES payments,     \* [Requests -> Nat]: payments taken for a request
          paidFor,      \* [Requests -> SUBSET Lines]: the goods paid
          shipments,    \* [Requests -> Nat]: parcels sent for a request
          shippedLines, \* [Requests -> SUBSET Lines]: the goods in them
          outcome       \* what the customer has been told

vars == <<payments, paidFor, shipments, shippedLines, outcome>>

Outcomes == {"open", "confirmed", "rejected", "failed"}

Init ==
    /\ payments = [r \in Requests |-> 0]
    /\ paidFor = [r \in Requests |-> {}]
    /\ shipments = [r \in Requests |-> 0]
    /\ shippedLines = [r \in Requests |-> {}]
    /\ outcome = [r \in Requests |-> "open"]

Pay(r, goods) ==
    /\ payments[r] = 0
    /\ outcome[r] \in {"open", "failed"}
    /\ payments' = [payments EXCEPT ![r] = 1]
    /\ paidFor' = [paidFor EXCEPT ![r] = goods]
    /\ UNCHANGED <<shipments, shippedLines, outcome>>

Ship(r) ==
    /\ payments[r] = 1
    /\ shipments[r] = 0
    /\ outcome[r] \in {"open", "failed"}
    /\ shipments' = [shipments EXCEPT ![r] = 1]
    /\ shippedLines' = [shippedLines EXCEPT ![r] = paidFor[r]]
    /\ UNCHANGED <<payments, paidFor, outcome>>

Confirm(r) ==
    /\ outcome[r] = "open"
    /\ payments[r] = 1
    /\ shipments[r] = 1
    /\ outcome' = [outcome EXCEPT ![r] = "confirmed"]
    /\ UNCHANGED <<payments, paidFor, shipments, shippedLines>>

Reject(r) ==
    /\ outcome[r] = "open"
    /\ payments[r] = 0
    /\ outcome' = [outcome EXCEPT ![r] = "rejected"]
    /\ UNCHANGED <<payments, paidFor, shipments, shippedLines>>

\* Several requests fail together when the process that serves them dies.
Fail(failing) ==
    /\ \A r \in failing : outcome[r] = "open"
    /\ outcome' = [r \in Requests |->
                      IF r \in failing THEN "failed" ELSE outcome[r]]
    /\ UNCHANGED <<payments, paidFor, shipments, shippedLines>>

Next ==
    \/ \E r \in Requests, goods \in SUBSET Lines : Pay(r, goods)
    \/ \E r \in Requests : Ship(r) \/ Confirm(r) \/ Reject(r)
    \/ \E failing \in SUBSET Requests : Fail(failing)

Spec == Init /\ [][Next]_vars
=============================================================================
