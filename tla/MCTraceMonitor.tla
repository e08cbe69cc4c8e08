--------------------------- MODULE MCTraceMonitor ---------------------------
(***************************************************************************)
(* TraceMonitor for two services, one of which has two errors.             *)
(***************************************************************************)
EXTENDS TraceMonitor

CONSTANTS t1, t2, t3

MCServiceOf ==
    [t \in Traces |-> IF t = t3 THEN "frontend" ELSE "checkout"]
=============================================================================
