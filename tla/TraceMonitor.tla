---------------------------- MODULE TraceMonitor ----------------------------
(***************************************************************************)
(* TraceMonitor of the dora-metrics service                                *)
(* (src/src/dora-metrics/src/trace-monitor.js): every round asks Jaeger    *)
(* for the traces with an error, service by service, counts them by the    *)
(* time they started at, and reports an incident when enough of them are   *)
(* young.  Every round asks for all the traces of an hour again.           *)
(*                                                                         *)
(* A round awaits its answers and may overlap the next one.  What is done  *)
(* with an answer is one step: processErrorTraces awaits only a function   *)
(* that itself awaits nothing.  An answer may lack any trace: traces reach *)
(* Jaeger late, and it returns only so many.                               *)
(***************************************************************************)
EXTENDS Integers, Sequences, FiniteSets

CONSTANTS Services,       \* monitoredServices
          Traces,         \* traces with an error, the simulated ones included
          ServiceOf,      \* [Traces -> Services]
          TimeWindow,     \* an error is young for so long, in ticks
          ErrorThreshold, \* so many young errors are an incident
          MaxTime,        \* bound of the model: the last tick
          MaxHanded       \* bound of the model: how often one trace is found

VARIABLES
    now,
    started,      \* [Traces -> the tick the trace started at, or NotYet]
    recentErrors, \* [Services -> a set of [traceId, timestamp, nth]], unordered
    \* history, read by the properties only
    handed,       \* [Traces -> Nat]: how often Jaeger has returned the trace
    detected      \* 'incident-detected': Seq of [service, at, errors]

vars == <<now, started, recentErrors, handed, detected>>

NotYet == -1

Init ==
    /\ now = 0
    /\ started = [t \in Traces |-> NotYet]
    /\ recentErrors = [s \in Services |-> {}]
    /\ handed = [t \in Traces |-> 0]
    /\ detected = <<>>

Tick ==
    /\ now < MaxTime
    /\ now' = now + 1
    /\ UNCHANGED <<started, recentErrors, handed, detected>>

\* A request fails; or Jaeger is away and simulateErrorDetection makes one up.
ErrorHappens(t) ==
    /\ started[t] = NotYet
    /\ started' = [started EXCEPT ![t] = now]
    /\ UNCHANGED <<now, recentErrors, handed, detected>>

\* The entries of the traces found; `nth' tells two entries of one trace apart.
AsErrors(found) ==
    {[traceId |-> t, timestamp |-> started[t], nth |-> handed[t] + 1] : t \in found}

Recent(errors) == {e \in errors : e.timestamp > now - TimeWindow}

TriggerIncident(s, errors) ==
    detected' = Append(detected, [service |-> s, at |-> now, errors |-> errors])

\* Seeded bug: what has been counted is not cleared.
ProcessErrorTracesUncleared(s, found) ==
    LET serviceErrors == Recent(recentErrors[s] \cup AsErrors(found))
    IN  /\ recentErrors' = [recentErrors EXCEPT ![s] = serviceErrors]
        /\ IF Cardinality(serviceErrors) >= ErrorThreshold
           THEN TriggerIncident(s, serviceErrors)
           ELSE UNCHANGED detected

ProcessErrorTraces(s, found) ==
    LET recentServiceErrors == Recent(recentErrors[s] \cup AsErrors(found))
    IN  IF Cardinality(recentServiceErrors) >= ErrorThreshold
        THEN /\ TriggerIncident(s, recentServiceErrors)
             /\ recentErrors' = [recentErrors EXCEPT ![s] = {}]
        ELSE /\ recentErrors' = [recentErrors EXCEPT ![s] = recentServiceErrors]
             /\ UNCHANGED detected

\* One service of one round: Jaeger returns some of its error traces.
CheckServiceForErrors(s) ==
    \E found \in SUBSET {t \in Traces : /\ ServiceOf[t] = s
                                        /\ started[t] # NotYet
                                        /\ handed[t] < MaxHanded} \ {{}} :
        /\ ProcessErrorTraces(s, found)
        /\ handed' = [t \in Traces |-> handed[t] + IF t \in found THEN 1 ELSE 0]
        /\ UNCHANGED <<now, started>>

Next ==
    \/ Tick
    \/ \E t \in Traces : ErrorHappens(t)
    \/ \E s \in Services : CheckServiceForErrors(s)

Spec == Init /\ [][Next]_vars

-----------------------------------------------------------------------------
(***************************************************************************)
(* By what it is given, TraceMonitor reports exactly when it ought to,     *)
(* however its rounds overlap: an incident counts enough errors, each      *)
(* young; an error that was found once is counted once; and no service is  *)
(* left with enough young errors that no incident has counted              *)
(* (processErrorTraces, lines 176-207).                                    *)
(***************************************************************************)
Young(t, at) == started[t] # NotYet /\ started[t] > at - TimeWindow

\* What Jaeger has returned for a service, each time anew.
Found(s) ==
    UNION {{[traceId |-> t, timestamp |-> started[t], nth |-> k] : k \in 1 .. handed[t]} :
              t \in {t \in Traces : ServiceOf[t] = s}}

YoungUncounted(s) ==
    {e \in Found(s) : /\ Young(e.traceId, now)
                      /\ \A k \in DOMAIN detected : e \notin detected[k].errors}

MonitorReportsWhenDue ==
    /\ \A k \in DOMAIN detected :
           /\ Cardinality(detected[k].errors) >= ErrorThreshold
           /\ \A e \in detected[k].errors :
                  /\ e \in Found(detected[k].service)
                  /\ Young(e.traceId, detected[k].at)
    /\ \A k, l \in DOMAIN detected : \A e \in detected[k].errors :
           e \in detected[l].errors => k = l
    /\ \A s \in Services : Cardinality(YoungUncounted(s)) < ErrorThreshold

(***************************************************************************)
(* "errorThreshold: 2,    // 2 errors trigger incident"                    *)
(* (src/src/dora-metrics/src/index.js:28): an incident counts at least as  *)
(* many different errors as the threshold.                                 *)
(***************************************************************************)
ErrorsTriggerIncident ==
    \A k \in DOMAIN detected :
        Cardinality({e.traceId : e \in detected[k].errors}) >= ErrorThreshold
=============================================================================
