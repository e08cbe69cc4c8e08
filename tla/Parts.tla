------------------------------- MODULE Parts -------------------------------
(***************************************************************************)
(* The parts of the shop that keep to themselves, side by side: an order   *)
(* that is added up (OrderTotal, and the page's own sum, CartPage), a pair *)
(* of amounts that is summed (MoneyCases), a message that a call carries   *)
(* (MessageCases), the two incident detectors, the file of flags, the      *)
(* consumers of the topic and the load of the ad service.  One behaviour   *)
(* is about one of them, `part', and leaves the others where they are.     *)
(***************************************************************************)
EXTENDS CartPage, MoneyCases, FiniteSets

CONSTANTS Schema, Payloads, MaxSafe, Strings,               \* MessageCases
          Services,                                        \* both detectors
          Traces, ServiceOf, TimeWindow, ErrorThreshold,   \* TraceMonitor
          MonitorTime, MaxHanded,
          FailureWindow, FailureThreshold, Cooldown,       \* RealIncidentDetector
          DetectorTime, MaxFailures,
          BasicPages, AdvancedPages, Flags, Typed,         \* FlagEditor
          Damaged, Error, Unusable, NoRead, Asked, MaxWrites,
          MaxRecords, MaxStops,                            \* OrderConsumers
          Requests,                                        \* CpuLoad
          Null                                             \* FlagEditor, CpuLoad

VARIABLES part,
          type, message,
          clock, started, recentErrors, handed, detected,
          time, recentFailures, lastIncidentTime, failures, realDetected,
          file, data, reads, write, writes, last, edited, seen, broken,
          topic, committed, position, done, up, stops,
          processed, inHand, behindBad, notYet,
          instance, running, workers, thread, using

messageVars == <<type, message>>
monitorVars == <<clock, started, recentErrors, handed, detected>>
detectorVars == <<time, recentFailures, lastIncidentTime, failures, realDetected>>
editorVars == <<file, data, reads, write, writes, last, edited, seen, broken>>
topicVars == <<topic, committed, position, done, up, stops,
               processed, inHand, behindBad, notYet>>
loadVars == <<instance, running, workers, thread, using>>

Sent == INSTANCE MessageCases

Monitor == INSTANCE TraceMonitor WITH now <- clock, MaxTime <- MonitorTime

Detector ==
    INSTANCE RealIncidentDetector
        WITH now <- time, detected <- realDetected, MaxTime <- DetectorTime

Editor == INSTANCE FlagEditor

Topic == INSTANCE OrderConsumers

Load == INSTANCE CpuLoad WITH pc <- thread

(***************************************************************************)
(* The constants.  The thresholds and the windows are positive numbers     *)
(* (index.js:25-37), what is not a file of flags differs from one, and a   *)
(* request is not null.                                                    *)
(***************************************************************************)
ASSUME PartsAssumption ==
    /\ Sent!MessagesAssumption
    /\ IsFiniteSet(Traces) /\ ServiceOf \in [Traces -> Services]
    /\ TimeWindow \in Nat
    /\ ErrorThreshold \in Nat \ {0}
    /\ FailureWindow \in Nat
    /\ FailureThreshold \in Nat \ {0}
    /\ Cooldown \in Nat
    /\ BasicPages \cap AdvancedPages = {}
    /\ IsFiniteSet(Flags)
    /\ Typed \subseteq Editor!Config
    /\ {Null, Damaged, Error, Unusable} \cap Editor!Config = {}
    /\ Unusable \notin {Null, Damaged, Error} /\ Null \notin {Damaged, Error}
    /\ NoRead # Asked
    /\ {NoRead, Asked} \cap [body : Editor!Config \cup {Null, Error}, version : Nat] = {}
    /\ MaxRecords \in Nat
    /\ Null \notin Requests

-----------------------------------------------------------------------------
PartNames ==
    {"order", "pair", "message", "monitor", "detector", "editor", "topic", "load"}

\* An order without items, not begun.
NoOrder == shipping = (CHOOSE p \in Prices : TRUE) /\ items = <<>> /\ Init

NoPair == left = NoAmount /\ right = NoAmount

PartsInit ==
    /\ part \in PartNames
    /\ IF part = "order" THEN Init ELSE NoOrder
    /\ IF part = "pair" THEN PairInit ELSE NoPair
    /\ Sent!Init
    /\ Monitor!Init
    /\ Detector!Init
    /\ Editor!Init
    /\ Topic!Init
    /\ Load!Init

PartsNext ==
    \/ /\ part = "order" /\ Next
       /\ UNCHANGED <<part, pairVars, messageVars, monitorVars, detectorVars,
                      editorVars, topicVars, loadVars>>
    \/ /\ part = "pair" /\ PickRight
       /\ UNCHANGED <<part, vars, messageVars, monitorVars, detectorVars,
                      editorVars, topicVars, loadVars>>
    \/ /\ part = "message" /\ Sent!Next
       /\ UNCHANGED <<part, vars, pairVars, monitorVars, detectorVars,
                      editorVars, topicVars, loadVars>>
    \/ /\ part = "monitor" /\ Monitor!Next
       /\ UNCHANGED <<part, vars, pairVars, messageVars, detectorVars, editorVars,
                      topicVars, loadVars>>
    \/ /\ part = "detector" /\ Detector!Next
       /\ UNCHANGED <<part, vars, pairVars, messageVars, monitorVars, editorVars,
                      topicVars, loadVars>>
    \/ /\ part = "editor" /\ Editor!Next
       /\ UNCHANGED <<part, vars, pairVars, messageVars, monitorVars, detectorVars,
                      topicVars, loadVars>>
    \/ /\ part = "topic" /\ Topic!Next
       /\ UNCHANGED <<part, vars, pairVars, messageVars, monitorVars, detectorVars,
                      editorVars, loadVars>>
    \/ /\ part = "load" /\ Load!Next
       /\ UNCHANGED <<part, vars, pairVars, messageVars, monitorVars, detectorVars,
                      editorVars, topicVars>>

partsVars == <<part, vars, pairVars, messageVars, monitorVars, detectorVars, editorVars,
               topicVars, loadVars>>

PartsSpec == PartsInit /\ [][PartsNext]_partsVars

-----------------------------------------------------------------------------
(***************************************************************************)
(* What encode or toJSON wrote of a message, decode or fromJSON reads back *)
(* as the message, one field more or less in either schema included; only  *)
(* an integer that is not safe fails the call (frontend/protos/demo.ts;    *)
(* explained in module MessageCases).                                      *)
(***************************************************************************)
ArrivesAsSent == Sent!ArrivesAsSent

(***************************************************************************)
(* An incident counts enough failures, each young and counted once, and no *)
(* service is left with enough of them unreported but for the one cooldown *)
(* (processErrorTraces of trace-monitor.js:176-207, handleRealFailure of   *)
(* real-incident-detector.js:178-204; explained in their modules).         *)
(***************************************************************************)
ReportedWhenDue == Monitor!MonitorReportsWhenDue /\ Detector!DetectorReportsWhenDue

(***************************************************************************)
(* A flag is lost, or is not what was saved last, only by the overlaps of  *)
(* pages and writes that module FlagEditor names (write-to-file/route.ts). *)
(***************************************************************************)
FlagsSurvive == Editor!FlagsSurvive

(***************************************************************************)
(* An order that a consumer has left behind was logged, or is one of those *)
(* a stop or a bad record excuses (module OrderConsumers; Consumer.cs and  *)
(* main.kt).                                                               *)
(***************************************************************************)
SkippedOnlyWhenStopped == Topic!SkippedOnlyWhenStopped

(***************************************************************************)
(* Once no request is underway, an instance of CPULoad that is not running *)
(* has no workers (module CpuLoad; CPULoad.java:46-86).                    *)
(***************************************************************************)
NoWorkersWhileOff == Load!NoWorkersWhileOff
=============================================================================
