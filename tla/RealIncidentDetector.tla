------------------------ MODULE RealIncidentDetector ------------------------
(***************************************************************************)
(* RealIncidentDetector of the dora-metrics service                        *)
(* (src/src/dora-metrics/src/real-incident-detector.js): its checks call   *)
(* the services, and the calls of a service that fail within five minutes  *)
(* become an incident, with one cooldown for all services.                 *)
(*                                                                         *)
(* Three checks run side by side and await their calls.  What is done with *)
(* a failure is one step: handleRealFailure awaits only a function that    *)
(* itself awaits nothing, and no other call's answer comes in between.     *)
(***************************************************************************)
EXTENDS Integers, Sequences, FiniteSets

CONSTANTS Services,
          FailureWindow,    \* the five minutes, in ticks
          FailureThreshold, \* failureThreshold
          Cooldown,         \* incidentCooldown
          MaxTime,          \* bound of the model: the last tick
          MaxFailures       \* bound of the model: calls that fail

VARIABLES
    now,
    recentFailures,   \* a set of [service, timestamp, id]: id is the order
    lastIncidentTime,
    \* history, read by the properties only
    failures,         \* every failure so far; id is its position here
    detected          \* 'real-incident-detected': Seq of [service, at, counted]

vars == <<now, recentFailures, lastIncidentTime, failures, detected>>

\* lastIncidentTime starts at 0, which is long before any call.
LongAgo == -(Cooldown + 1)

Init ==
    /\ now = 0
    /\ recentFailures = {}
    /\ lastIncidentTime = LongAgo
    /\ failures = <<>>
    /\ detected = <<>>

Tick ==
    /\ now < MaxTime
    /\ now' = now + 1
    /\ UNCHANGED <<recentFailures, lastIncidentTime, failures, detected>>

TriggerRealIncident(s, counted) ==
    /\ detected' = Append(detected, [service |-> s, at |-> now, counted |-> counted])
    /\ lastIncidentTime' = now

\* The failures within the window, that of now included.
WithFailure(failure) ==
    {f \in recentFailures \cup {failure} : f.timestamp > now - FailureWindow}

OfService(s, set) == {f \in set : f.service = s}

ShouldTrigger(counted) ==
    Cardinality(counted) >= FailureThreshold /\ now - lastIncidentTime > Cooldown

\* Seeded bug: what an incident has counted is not forgotten.
HandleRealFailureRemembering(s, failure) ==
    LET counted == OfService(s, WithFailure(failure))
    IN  /\ recentFailures' = WithFailure(failure)
        /\ IF ShouldTrigger(counted)
           THEN TriggerRealIncident(s, counted)
           ELSE UNCHANGED <<lastIncidentTime, detected>>

HandleRealFailure(s, failure) ==
    LET recent == WithFailure(failure)
        counted == OfService(s, recent)
    IN  IF ShouldTrigger(counted)
        THEN /\ TriggerRealIncident(s, counted)
             /\ recentFailures' = recent \ counted
        ELSE /\ recentFailures' = recent
             /\ UNCHANGED <<lastIncidentTime, detected>>

\* A call that one of the checks has made fails.
CheckFails(s) ==
    /\ Len(failures) < MaxFailures
    /\ LET failure == [service |-> s, timestamp |-> now, id |-> Len(failures) + 1]
       IN  HandleRealFailure(s, failure) /\ failures' = Append(failures, failure)
    /\ UNCHANGED now

\* An incident that counts nothing; its cooldown is one tick shorter.
TriggerDemoIncident(s) ==
    /\ now - lastIncidentTime >= Cooldown
    /\ TriggerRealIncident(s, {})
    /\ UNCHANGED <<now, recentFailures, failures>>

Next ==
    \/ Tick
    \/ \E s \in Services : CheckFails(s) \/ TriggerDemoIncident(s)

Spec == Init /\ [][Next]_vars

-----------------------------------------------------------------------------
(***************************************************************************)
(* Every failure is counted by at most one incident, incidents count       *)
(* enough failures of one service within the window and keep the cooldown, *)
(* and enough failures of a service go unreported only because an incident *)
(* of some service lay within the cooldown of the last of them: it is not  *)
(* looked at again when the cooldown is over (handleRealFailure, lines     *)
(* 178-204).                                                               *)
(***************************************************************************)
Unreported(s) ==
    {id \in DOMAIN failures :
        /\ failures[id].service = s
        /\ failures[id].timestamp > now - FailureWindow
        /\ \A k \in DOMAIN detected : failures[id] \notin detected[k].counted}

WithinCooldown(time, k) ==
    detected[k].at <= time /\ time <= detected[k].at + Cooldown

IsDue(k) ==
    /\ Cardinality(detected[k].counted) >= FailureThreshold
    /\ \A f \in detected[k].counted :
           /\ f \in {failures[id] : id \in DOMAIN failures}
           /\ f.service = detected[k].service
           /\ f.timestamp > detected[k].at - FailureWindow
    /\ \A l \in 1 .. k - 1 : ~WithinCooldown(detected[k].at, l)

DetectorReportsWhenDue ==
    /\ \A k \in DOMAIN detected : detected[k].counted = {} \/ IsDue(k)
    /\ \A k, l \in DOMAIN detected : \A f \in detected[k].counted :
           f \in detected[l].counted => k = l
    /\ \A s \in Services : Cardinality(Unreported(s)) >= FailureThreshold =>
           \E id \in Unreported(s) :
               /\ \A other \in Unreported(s) : other <= id
               /\ \E k \in DOMAIN detected :
                      WithinCooldown(failures[id].timestamp, k)
=============================================================================
