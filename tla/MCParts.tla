------------------------------ MODULE MCParts ------------------------------
(***************************************************************************)
(* The parts of module Parts for small constants, and for every message of *)
(* the storefront (Messages).                                              *)
(*                                                                         *)
(* Amounts have ten nanos to the unit and an int32 that overflows just     *)
(* above two units' worth of nanos, as the real one does.                  *)
(***************************************************************************)
EXTENDS Parts

CONSTANTS t1, t2, t3,                    \* TraceMonitor
          page1, page2, f1, f2,          \* FlagEditor
          r1, r2, r3                     \* CpuLoad

Demo == INSTANCE Messages

MCSchema == Demo!Fields

\* What the calls send and answer.
MCPayloads == UNION {{r.request, r.response} : r \in Demo!Rpcs}

MCPrices ==
    {[units |-> u, nanos |-> f, currency |-> "USD"] :
        u \in 0 .. 1, f \in {0, 3, 5, 9}}

MCServiceOf == [t \in Traces |-> IF t = t3 THEN "frontend" ELSE "checkout"]

MCTyped == {[f \in Flags |-> IF f = f1 THEN "on" ELSE "off"]}

\* The other parts are checked beside a message without fields.
MCInit ==
    /\ part \in PartNames
    /\ type \in IF part = "message" THEN Payloads ELSE {"Empty"}
    /\ PartsInit
    /\ \A f \in Flags : last[f] = "off"

MCSpec == MCInit /\ [][PartsNext]_partsVars
=============================================================================
