-------------------------- MODULE IncidentsProofs --------------------------
(***************************************************************************)
(* Proofs about module Incidents, for any number of requests, reports,     *)
(* webhook deliveries and resolutions by hand.                             *)
(***************************************************************************)
EXTENDS Incidents, FiniteSetTheorems, TLAPS

(***************************************************************************)
(* Improved rates are below the poor one.                                  *)
(***************************************************************************)
LEMMA ImprovedIsBetter ==
    \A n \in ImprovedRates : n \in 0..PoorRate /\ n < PoorRate
BY IncidentsAssumption DEF PoorRate

\* What a deliverer of pull requests or an operator makes happen.
Demand(r) ==
    \/ r \in Hooks /\ \E t \in Sources : PrCreated(r, t)
    \/ r \in Puts /\ \E x \in Sources : PutResolve(r, x)

(***************************************************************************)
(* A demand finds an incident in the map, which it resolves, or nothing.   *)
(***************************************************************************)
LEMMA DemandCases ==
    ASSUME NEW r \in Resolvers, Demand(r)
    PROVE  /\ pc[r] = "new"
           /\ \/ Unresolved(r)
              \/ \E x \in Sources :
                    /\ x \in incidents
                    /\ r \in Hooks => status[x] = "open"
                    /\ Resolve(r, x)
BY IncidentsAssumption DEF Demand, PrCreated, PutResolve, FoundBy, Resolvers

(***************************************************************************)
(* Every step is one of these.                                             *)
(***************************************************************************)
LEMMA StepCases ==
    ASSUME [Next]_vars
    PROVE  \/ \E x \in Requests : CreateSupportRequest(x) \/ Support(x)
           \/ \E x \in Requests : CreateTicketed(x)
           \/ \E x \in Reports : CreateIncident(x)
           \/ \E x \in Reports : Report(x)
           \/ \E x \in Sources : JiraIssues(x) \/ JiraCloses(x)
           \/ \E r \in Resolvers : Demand(r)
           \/ \E r \in Resolvers : Resolution(r)
           \/ UpdateMetrics
           \/ Reset
           \/ Restart
           \/ UNCHANGED vars
<1>1. CASE \E h \in Hooks, t \in Sources : PrCreated(h, t)
  BY <1>1 DEF Demand, Resolvers
<1>2. CASE \E p \in Puts, x \in Sources : PutResolve(p, x)
  BY <1>2 DEF Demand, Resolvers
<1> QED
  BY <1>1, <1>2, Zenon DEF Next

(***************************************************************************)
(* A step of a resolution is one that waits for the next answer, or the    *)
(* last: then the resolution counts, and the ticket is closed or missed.   *)
(***************************************************************************)
Waits(r) ==
    /\ \/ GoTo(r, "comment") /\ UNCHANGED closing
       \/ GoTo(r, "close") /\ closing' = closing \cup {target[r]}
    /\ UNCHANGED <<jira, posted, mapVars, target, metricVars, historyVars>>

Ends(r) ==
    /\ OnIncidentResolved(r)
    /\ UNCHANGED <<jira, closing>>
    /\ \/ jira[target[r]] = "done" /\ UNCHANGED missed
       \/ missed' = missed \cup {target[r]}

LEMMA ResolutionCases ==
    ASSUME NEW r \in Resolvers, Resolution(r)
    PROVE  Resolving(r) /\ (Waits(r) \/ Ends(r))
<1>1. CASE CheckMttrThreshold(r)
  <2>1. CASE target[r] \in ticketed
    BY <1>1, <2>1 DEF CheckMttrThreshold, Resolving, Waits
  <2>2. CASE target[r] \notin ticketed
    BY <1>1, <2>2 DEF CheckMttrThreshold, Resolving, Ends
  <2> QED
    BY <2>1, <2>2
<1>2. CASE Comment(r)
  BY <1>2 DEF Comment, Resolving, Waits
<1>3. CASE CloseTicket(r)
  BY <1>3 DEF CloseTicket, Resolving, Ends
<1>4. CASE CloseFails(r)
  BY <1>4 DEF CloseFails, Resolving, Ends
<1> QED
  BY <1>1, <1>2, <1>3, <1>4 DEF Resolution

-----------------------------------------------------------------------------
LEMMA TypeInit == Init => TypeOK
<1> SUFFICES ASSUME Init PROVE TypeOK
  OBVIOUS
<1>1. active \in BOOLEAN
  BY DEF Init
<1>2. rate \in 0..PoorRate
  BY DEF Init, PoorRate
<1>3. /\ count \in Nat /\ opened \in Nat /\ resolved \in Nat
      /\ pc \in [Sources \cup Resolvers -> Steps]
      /\ jira \in [Sources -> {"none", "open", "done"}]
      /\ status \in [Sources -> {"none", "open", "resolved", "gone"}]
      /\ target \in [Resolvers -> Sources \cup {NoIncident}]
  BY DEF Init, Steps
<1>4. /\ closing = {} /\ posted = {} /\ incidents = {} /\ ticketed = {}
      /\ augmented = {}
      /\ counted = {} /\ overtaken = {} /\ missed = {}
  BY DEF Init
<1> QED
  BY <1>1, <1>2, <1>3, <1>4, Zenon DEF TypeOK

\* What is needed of targets for missed to stay within its type.
Targeted == \A r \in Resolvers : Resolving(r) => target[r] \in Sources

LEMMA TypeStep == TypeOK /\ Targeted /\ [Next]_vars => TypeOK'
<1> SUFFICES ASSUME TypeOK, Targeted, [Next]_vars PROVE TypeOK'
  OBVIOUS
<1> USE DEF TypeOK, Steps, mapVars, metricVars, historyVars, GoTo, PoorRate
<1>1. CASE \E x \in Requests : CreateSupportRequest(x) \/ Support(x)
  BY <1>1 DEF CreateSupportRequest, Support, SupportIssued, SupportIssueFails,
              CreateDoraIncident, SupportReplies
<1>2. CASE \E x \in Requests : CreateTicketed(x)
  BY <1>2 DEF CreateTicketed, Insert, Sources
<1>3. CASE \E x \in Reports : CreateIncident(x)
  BY <1>3 DEF CreateIncident, Insert, Sources
<1>4. CASE \E x \in Reports : Report(x)
  BY <1>4 DEF Report, Issued, AddJiraRemoteLinks, IssueFails, Created, Sources
<1>5. CASE \E x \in Sources : JiraIssues(x) \/ JiraCloses(x)
  BY <1>5 DEF JiraIssues, JiraCloses
<1>6. CASE \E r \in Resolvers : Demand(r)
  <2>1. PICK r \in Resolvers : Demand(r)
    BY <1>6
  <2>2. CASE Unresolved(r)
    BY <2>2 DEF Unresolved
  <2>3. CASE \E x \in Sources : Resolve(r, x)
    BY <2>3 DEF Resolve, ImpactRate
  <2> QED
    BY <2>1, <2>2, <2>3, DemandCases
<1>7. CASE \E r \in Resolvers : Resolution(r)
  <2>1. PICK r \in Resolvers : Resolution(r)
    BY <1>7
  <2>4. target[r] \in Sources
    BY <2>1, ResolutionCases DEF Targeted
  <2>2. CASE Waits(r)
    BY <2>2, <2>4 DEF Waits
  <2>3. CASE Ends(r)
    <3>2. rate' \in 0..PoorRate
      <4>1. rate' = rate \/ rate' \in ImprovedRates
        BY <2>3, Zenon DEF Ends, OnIncidentResolved
      <4> QED
        BY <4>1, ImprovedIsBetter
    <3>3. /\ jira' \in [Sources -> {"none", "open", "done"}]
          /\ closing' \subseteq Sources /\ missed' \subseteq Sources
      BY <2>3, <2>4 DEF Ends
    <3>4. active' \in BOOLEAN /\ count' \in Nat /\ counted' \subseteq Resolvers
      BY <2>1, <2>3 DEF Ends, OnIncidentResolved
    <3>5. pc' \in [Sources \cup Resolvers -> Steps]
      BY <2>3 DEF Ends, OnIncidentResolved
    <3>6. /\ posted' = posted /\ incidents' = incidents /\ ticketed' = ticketed
          /\ augmented' = augmented /\ overtaken' = overtaken
          /\ opened' \in Nat /\ resolved' \in Nat
      BY <2>3 DEF Ends, OnIncidentResolved
    <3>7. /\ status' \in [Sources -> {"none", "open", "resolved", "gone"}]
          /\ target' \in [Resolvers -> Sources \cup {NoIncident}]
      BY <2>3 DEF Ends, OnIncidentResolved
    <3> QED
      BY <3>2, <3>3, <3>4, <3>5, <3>6, <3>7, Zenon
  <2> QED
    BY <2>1, <2>2, <2>3, ResolutionCases
<1>8. CASE UpdateMetrics
  BY <1>8, IncidentsAssumption DEF UpdateMetrics
<1>9. CASE Reset
  BY <1>9, PoorRate \in 0..PoorRate DEF Reset, NothingEarned, UnderWay
<1>10. CASE Restart
  <2>1. pc' \in [Sources \cup Resolvers -> Steps]
    BY <1>10 DEF Restart
  <2>2. status' \in [Sources -> {"none", "open", "resolved", "gone"}]
    BY <1>10 DEF Restart
  <2>3. /\ jira' = jira /\ closing' = closing /\ posted' = {}
        /\ incidents' = {} /\ ticketed' = ticketed
        /\ augmented' = augmented /\ target' = target
        /\ counted' = {} /\ overtaken' = overtaken /\ missed' = missed
    BY <1>10 DEF Restart, NothingEarned
  <2>4. count' \in Nat /\ rate' \in 0..PoorRate /\ opened' \in Nat /\ resolved' \in Nat
    BY <1>10 DEF Restart, NothingEarned
  <2>5. active' \in BOOLEAN
    BY <1>10 DEF Restart, NothingEarned
  <2> QED
    BY <2>1, <2>2, <2>3, <2>4, <2>5, Zenon
<1>11. CASE UNCHANGED vars
  BY <1>11 DEF vars
<1> QED
  BY <1>1, <1>2, <1>3, <1>4, <1>5, <1>6, <1>7, <1>8, <1>9, <1>10, <1>11,
     StepCases

-----------------------------------------------------------------------------
(***************************************************************************)
(* What the properties rest on.  An incident is made once and is in the    *)
(* map only while the process that made it runs.  A handler that resolves  *)
(* has found its incident in the map, where it still is unless a reset     *)
(* overtook the handler; and an incident that was once a target is never   *)
(* open again, which is why no second webhook finds it.                    *)
(***************************************************************************)
SourcesInv ==
    /\ \A x \in Requests :
          pc[x] \in {"new", "issue", "slack"} =>
              status[x] = "none" /\ x \notin posted
    /\ \A x \in posted : status[x] = "none"
    /\ \A x \in Reports :
          /\ pc[x] = "new" => status[x] = "none"
          /\ Creating(x) => Live(x)
    /\ \A x \in incidents : Live(x)

TargetsInv ==
    \A r \in Resolvers :
        /\ pc[r] = "new" => target[r] = NoIncident
        /\ Resolving(r) \/ r \in counted =>
              target[r] \in Sources /\ (target[r] \in incidents \/ r \in overtaken)
        /\ target[r] # NoIncident => status[target[r]] \in {"resolved", "gone"}
        /\ r \in counted => pc[r] = "done"

\* A ticket that does not exist yet is missed as well.
TicketsInv ==
    \A x \in Sources :
        /\ jira[x] = "done" => status[x] \in {"resolved", "gone"}
        /\ status[x] = "resolved" /\ jira[x] # "done" =>
              x \in missed \/ \E r \in Resolvers : target[r] = x /\ Resolving(r)
        /\ x \in closing =>
              /\ status[x] \in {"resolved", "gone"}
              /\ \E r \in Resolvers : target[r] = x

CountInv ==
    /\ active <=> counted # {}
    /\ count = Cardinality(counted)

(***************************************************************************)
(* The types of functions and sets, without the flag.                      *)
(***************************************************************************)
LEMMA Types ==
    ASSUME TypeOK
    PROVE  /\ pc \in [Sources \cup Resolvers -> Steps]
           /\ jira \in [Sources -> {"none", "open", "done"}]
           /\ status \in [Sources -> {"none", "open", "resolved", "gone"}]
           /\ target \in [Resolvers -> Sources \cup {NoIncident}]
           /\ posted \subseteq Requests /\ incidents \subseteq Sources
           /\ closing \subseteq Sources /\ counted \subseteq Resolvers
           /\ Requests \subseteq Sources /\ Reports \subseteq Sources
           /\ Requests \cap Reports = {} /\ Hooks \cap Puts = {}
           /\ Sources \cap Resolvers = {} /\ NoIncident \notin Sources
           /\ Resolvers = Hooks \cup Puts
BY IncidentsAssumption DEF TypeOK, Sources, Resolvers

LEMMA SourcesStep == TypeOK /\ SourcesInv /\ [Next]_vars => SourcesInv'
<1> SUFFICES ASSUME TypeOK, SourcesInv, [Next]_vars PROVE SourcesInv'
  OBVIOUS
<1> USE Types DEF SourcesInv, Live, Creating, GoTo, mapVars
<1>1. CASE \E x \in Requests : CreateSupportRequest(x) \/ Support(x)
  BY <1>1 DEF CreateSupportRequest, Support, SupportIssued, SupportIssueFails,
              CreateDoraIncident, SupportReplies
<1>2. CASE \E x \in Requests : CreateTicketed(x)
  BY <1>2 DEF CreateTicketed, Insert
<1>3. CASE \E x \in Reports : CreateIncident(x)
  BY <1>3 DEF CreateIncident, Insert
<1>4. CASE \E x \in Reports : Report(x)
  BY <1>4 DEF Report, Issued, AddJiraRemoteLinks, IssueFails, Created
<1>5. CASE \E x \in Sources : JiraIssues(x) \/ JiraCloses(x)
  BY <1>5 DEF JiraIssues, JiraCloses
<1>6. CASE \E r \in Resolvers : Demand(r)
  <2>1. PICK r \in Resolvers : Demand(r)
    BY <1>6
  <2>2. CASE Unresolved(r)
    BY <2>2 DEF Unresolved
  <2>3. CASE \E x \in Sources : x \in incidents /\ Resolve(r, x)
    BY <2>3 DEF Resolve
  <2> QED
    BY <2>1, <2>2, <2>3, DemandCases
<1>7. CASE \E r \in Resolvers : Resolution(r)
  <2>1. PICK r \in Resolvers : Resolution(r)
    BY <1>7
  <2>2. /\ \E step \in Steps : GoTo(r, step)
        /\ UNCHANGED <<posted, incidents, status>>
    BY <2>1, ResolutionCases DEF Waits, Ends, OnIncidentResolved, Steps
  <2> QED
    BY <2>2
<1>8. CASE UpdateMetrics
  BY <1>8 DEF UpdateMetrics
<1>9. CASE Reset
  BY <1>9 DEF Reset, NothingEarned
<1>10. CASE Restart
  <2>1. /\ posted' = {} /\ incidents' = {}
        /\ \A x \in Sources : status[x] = "none" => status'[x] = "none"
        /\ \A x \in Sources : pc'[x] \in {"new", "issue", "slack"} => pc'[x] = pc[x]
        /\ \A x \in Reports : ~Creating(x)'
    BY <1>10 DEF Restart, NothingEarned
  <2> QED
    BY <2>1
<1>11. CASE UNCHANGED vars
  BY <1>11 DEF vars
<1> QED
  BY <1>1, <1>2, <1>3, <1>4, <1>5, <1>6, <1>7, <1>8, <1>9, <1>10, <1>11,
     StepCases

LEMMA TargetsStep ==
    TypeOK /\ SourcesInv /\ TargetsInv /\ [Next]_vars => TargetsInv'
<1> SUFFICES ASSUME TypeOK, SourcesInv, TargetsInv, [Next]_vars PROVE TargetsInv'
  OBVIOUS
<1> USE Types DEF TargetsInv, Resolving, GoTo, mapVars, historyVars
<1>1. CASE \E x \in Requests : CreateSupportRequest(x) \/ Support(x)
  BY <1>1 DEF CreateSupportRequest, Support, SupportIssued, SupportIssueFails,
              CreateDoraIncident, SupportReplies
<1>2. CASE \E x \in Requests : CreateTicketed(x)
  BY <1>2 DEF CreateTicketed, Insert, SourcesInv
<1>3. CASE \E x \in Reports : CreateIncident(x)
  BY <1>3 DEF CreateIncident, Insert, SourcesInv
<1>4. CASE \E x \in Reports : Report(x)
  BY <1>4 DEF Report, Issued, AddJiraRemoteLinks, IssueFails, Created
<1>5. CASE \E x \in Sources : JiraIssues(x) \/ JiraCloses(x)
  BY <1>5 DEF JiraIssues, JiraCloses
<1>6. CASE \E r \in Resolvers : Demand(r)
  <2>1. PICK r \in Resolvers : Demand(r)
    BY <1>6
  <2>2. CASE Unresolved(r)
    BY <2>1, <2>2, DemandCases DEF Unresolved
  <2>3. CASE \E x \in Sources : x \in incidents /\ Resolve(r, x)
    BY <2>1, <2>3, DemandCases DEF Resolve
  <2> QED
    BY <2>1, <2>2, <2>3, DemandCases
<1>7. CASE \E r \in Resolvers : Resolution(r)
  <2>1. PICK r \in Resolvers : Resolution(r)
    BY <1>7
  <2>2. CASE Waits(r)
    BY <2>1, <2>2, ResolutionCases DEF Waits
  <2>3. CASE Ends(r)
    BY <2>1, <2>3, ResolutionCases DEF Ends, OnIncidentResolved
  <2> QED
    BY <2>1, <2>2, <2>3, ResolutionCases
<1>8. CASE UpdateMetrics
  BY <1>8 DEF UpdateMetrics
<1>9. CASE Reset
  BY <1>9 DEF Reset, NothingEarned, UnderWay
<1>10. CASE Restart
  <2>1. /\ counted' = {} /\ UNCHANGED target
        /\ \A x \in Sources : status[x] # "none" => status'[x] = "gone"
        /\ \A r \in Resolvers : pc'[r] = "new" => pc[r] = "new"
        /\ \A r \in Resolvers : ~Resolving(r)'
    BY <1>10 DEF Restart, NothingEarned, UnderWay
  <2> QED
    BY <2>1
<1>11. CASE UNCHANGED vars
  BY <1>11 DEF vars
<1> QED
  BY <1>1, <1>2, <1>3, <1>4, <1>5, <1>6, <1>7, <1>8, <1>9, <1>10, <1>11,
     StepCases

(***************************************************************************)
(* Only a demand gives a resolver its target.                              *)
(***************************************************************************)
LEMMA TargetsKept ==
    ASSUME [Next]_vars
    PROVE  \/ UNCHANGED target
           \/ \E r \in Resolvers : Demand(r)
<1> USE DEF mapVars, vars
<1>1. ASSUME NEW r \in Resolvers, Resolution(r) PROVE UNCHANGED target
  BY <1>1, ResolutionCases DEF Waits, Ends, OnIncidentResolved
<1> QED
  BY <1>1, StepCases DEF CreateSupportRequest, Support, SupportIssued,
     SupportIssueFails, CreateDoraIncident, SupportReplies, CreateTicketed,
     CreateIncident, Report, Issued, AddJiraRemoteLinks, IssueFails, JiraIssues,
     JiraCloses, UpdateMetrics, Reset, Restart

LEMMA HooksStep ==
    TypeOK /\ TargetsInv /\ HooksResolveOnce /\ [Next]_vars => HooksResolveOnce'
<1> SUFFICES ASSUME TypeOK, TargetsInv, HooksResolveOnce, [Next]_vars
             PROVE  HooksResolveOnce'
  OBVIOUS
<1> USE Types DEF HooksResolveOnce
<1>1. CASE \E r \in Resolvers : Demand(r)
  <2>1. PICK r \in Resolvers : Demand(r)
    BY <1>1
  <2>2. CASE Unresolved(r)
    BY <2>2 DEF Unresolved
  <2>3. ASSUME NEW x \in Sources, r \in Hooks => status[x] = "open", Resolve(r, x)
        PROVE  HooksResolveOnce'
    <3>1. target' = [target EXCEPT ![r] = x]
      BY <2>3 DEF Resolve
    <3>2. \A h \in Hooks : r \in Hooks => target[h] # x
      BY <2>3 DEF TargetsInv
    <3> QED
      BY <3>1, <3>2
  <2> QED
    BY <2>1, <2>2, <2>3, DemandCases
<1> QED
  BY <1>1, TargetsKept

LEMMA TicketsStep ==
    TypeOK /\ SourcesInv /\ TargetsInv /\ TicketsInv /\ [Next]_vars => TicketsInv'
<1> SUFFICES ASSUME TypeOK, SourcesInv, TargetsInv, TicketsInv, [Next]_vars
             PROVE  TicketsInv'
  OBVIOUS
<1> USE Types DEF TicketsInv, Resolving, GoTo, mapVars, historyVars
<1>1. CASE \E x \in Requests : CreateSupportRequest(x) \/ Support(x)
  <2>1. /\ UNCHANGED <<jira, closing, status, missed, target>>
        /\ \A r \in Resolvers : pc'[r] = pc[r]
    BY <1>1 DEF CreateSupportRequest, Support, SupportIssued, SupportIssueFails,
                CreateDoraIncident, SupportReplies
  <2> QED
    BY <2>1
<1>2. CASE \E x \in Requests : CreateTicketed(x)
  BY <1>2 DEF CreateTicketed, Insert, SourcesInv
<1>3. CASE \E x \in Reports : CreateIncident(x)
  BY <1>3 DEF CreateIncident, Insert, SourcesInv
<1>4. CASE \E x \in Reports : Report(x)
  <2>1. /\ UNCHANGED <<jira, closing, status, missed, target>>
        /\ \A r \in Resolvers : pc'[r] = pc[r]
    BY <1>4 DEF Report, Issued, AddJiraRemoteLinks, IssueFails, Created
  <2> QED
    BY <2>1
<1>5. CASE \E x \in Sources : JiraIssues(x) \/ JiraCloses(x)
  BY <1>5 DEF JiraIssues, JiraCloses
<1>6. CASE \E r \in Resolvers : Demand(r)
  <2>1. PICK r \in Resolvers : Demand(r)
    BY <1>6
  <2>2. CASE Unresolved(r)
    BY <2>1, <2>2, DemandCases DEF Unresolved
  <2>3. ASSUME NEW x \in Sources, Resolve(r, x)
        PROVE  TicketsInv'
    <3>1. /\ UNCHANGED <<jira, closing, missed>>
          /\ status' = [status EXCEPT ![x] = "resolved"]
          /\ target' = [target EXCEPT ![r] = x]
          /\ pc' = [pc EXCEPT ![r] = "slack"]
      BY <2>3 DEF Resolve
    <3>2. target[r] = NoIncident /\ ~Resolving(r)
      BY <2>1, DemandCases DEF TargetsInv
    <3>3. target'[r] = x /\ Resolving(r)'
      BY <3>1
    <3>4. \A q \in Resolvers, y \in Sources :
             target[q] = y => target'[q] = y /\ (Resolving(q) => Resolving(q)')
      BY <3>1, <3>2
    <3> QED
      BY <3>1, <3>3, <3>4
  <2> QED
    BY <2>1, <2>2, <2>3, DemandCases
<1>7. CASE \E r \in Resolvers : Resolution(r)
  <2>1. PICK r \in Resolvers : Resolution(r)
    BY <1>7
  <2>4. target[r] \in Sources /\ status[target[r]] \in {"resolved", "gone"}
    BY <2>1, ResolutionCases DEF TargetsInv
  <2>2. CASE Waits(r)
    <3>1. /\ UNCHANGED <<jira, status, missed, target>>
          /\ closing' \subseteq closing \cup {target[r]}
      BY <2>2 DEF Waits
    <3>2. \A q \in Resolvers : Resolving(q) => Resolving(q)'
      BY <2>2 DEF Waits
    <3> QED
      BY <2>4, <3>1, <3>2
  <2>3. CASE Ends(r)
    <3>1. /\ UNCHANGED <<jira, closing, target, status>>
          /\ \A q \in Resolvers : q # r => pc'[q] = pc[q]
      BY <2>3 DEF Ends, OnIncidentResolved
    <3>2. /\ missed \subseteq missed'
          /\ jira[target[r]] = "done" \/ target[r] \in missed'
      BY <2>3 DEF Ends
    <3> QED
      BY <2>4, <3>1, <3>2
  <2> QED
    BY <2>1, <2>2, <2>3, ResolutionCases
<1>8. CASE UpdateMetrics
  BY <1>8 DEF UpdateMetrics
<1>9. CASE Reset
  BY <1>9 DEF Reset
<1>10. CASE Restart
  <2>1. /\ UNCHANGED <<jira, closing, target>>
        /\ \A x \in Sources : status'[x] = IF status[x] = "none" THEN "none" ELSE "gone"
    BY <1>10 DEF Restart
  <2> QED
    BY <2>1
<1>11. CASE UNCHANGED vars
  BY <1>11 DEF vars
<1> QED
  BY <1>1, <1>2, <1>3, <1>4, <1>5, <1>6, <1>7, <1>8, <1>9, <1>10, <1>11,
     StepCases

-----------------------------------------------------------------------------
(***************************************************************************)
(* A step writes what the dashboard shows only in these ways.              *)
(***************************************************************************)
LEMMA ShownCases ==
    ASSUME TypeOK, [Next]_vars
    PROVE  \/ /\ UNCHANGED <<active, count, rate, counted>>
              /\ \A r \in Resolvers : Resolving(r) <=> Resolving(r)'
           \/ \E r \in Resolvers : Demand(r)
           \/ \E r \in Resolvers : Resolution(r)
           \/ UpdateMetrics
           \/ Reset
           \/ Restart
<1> DEFINE Unshown == /\ UNCHANGED <<active, count, rate, counted>>
                      /\ \A r \in Resolvers : pc'[r] = pc[r]
<1>1. Unshown => \A r \in Resolvers : Resolving(r) <=> Resolving(r)'
  BY DEF Resolving
<1> USE Types DEF GoTo, metricVars, historyVars
<1>2. CASE \E x \in Requests : CreateSupportRequest(x) \/ Support(x)
  <2>1. Unshown
    BY <1>2 DEF CreateSupportRequest, Support, SupportIssued, SupportIssueFails,
                CreateDoraIncident, SupportReplies
  <2> QED
    BY <1>1, <2>1
<1>3. CASE \E x \in Requests : CreateTicketed(x)
  <2>1. Unshown
    BY <1>3 DEF CreateTicketed
  <2> QED
    BY <1>1, <2>1
<1>4. CASE \E x \in Reports : CreateIncident(x) \/ Report(x)
  <2>1. Unshown
    BY <1>4 DEF CreateIncident, Report, Issued, AddJiraRemoteLinks, IssueFails,
                Created
  <2> QED
    BY <1>1, <2>1
<1>5. CASE \E x \in Sources : JiraIssues(x) \/ JiraCloses(x)
  <2>1. Unshown
    BY <1>5 DEF JiraIssues, JiraCloses
  <2> QED
    BY <1>1, <2>1
<1>6. CASE UNCHANGED vars
  <2>1. Unshown
    BY <1>6 DEF vars
  <2> QED
    BY <1>1, <2>1
<1> QED
  BY <1>2, <1>3, <1>4, <1>5, <1>6, StepCases

LEMMA GaugeStep ==
    TypeOK /\ GaugeTellsImprovement /\ [Next]_vars => GaugeTellsImprovement'
<1> SUFFICES ASSUME TypeOK, GaugeTellsImprovement, [Next]_vars
             PROVE  GaugeTellsImprovement'
  OBVIOUS
<1> USE Types DEF GaugeTellsImprovement
<1>1. CASE /\ UNCHANGED <<active, count, rate, counted>>
           /\ \A r \in Resolvers : Resolving(r) <=> Resolving(r)'
  <2>1. UnderWay' = UnderWay
    BY <1>1 DEF UnderWay
  <2> QED
    BY <1>1, <2>1
<1>2. CASE \E r \in Resolvers : Demand(r)
  <2>1. PICK r \in Resolvers : Demand(r)
    BY <1>2
  <2>2. CASE Unresolved(r)
    <3>1. UnderWay' = UnderWay
      BY <2>1, <2>2, DemandCases DEF Unresolved, GoTo, UnderWay, Resolving
    <3> QED
      BY <2>2, <3>1 DEF Unresolved, metricVars
  <2>3. CASE \E x \in Sources : Resolve(r, x)
    <3>1. r \in UnderWay'
      BY <2>3 DEF Resolve, GoTo, UnderWay, Resolving
    <3>2. rate' < PoorRate
      BY <2>3 DEF Resolve, ImpactRate, PoorRate
    <3> QED
      BY <3>1, <3>2
  <2> QED
    BY <2>1, <2>2, <2>3, DemandCases
<1>3. CASE \E r \in Resolvers : Resolution(r)
  <2>1. PICK r \in Resolvers : Resolution(r)
    BY <1>3
  <2>2. CASE Waits(r)
    <3>1. r \in UnderWay'
      BY <2>2 DEF Waits, GoTo, UnderWay, Resolving
    <3> QED
      BY <2>2, <3>1 DEF Waits, metricVars
  <2>3. CASE Ends(r)
    <3>1. active' = TRUE
      BY <2>3 DEF Ends, OnIncidentResolved
    <3>2. rate' < PoorRate
      <4>1. (active /\ rate' = rate) \/ rate' \in ImprovedRates
        BY <2>3, Zenon DEF Ends, OnIncidentResolved
      <4>2. active => rate < PoorRate
        OBVIOUS
      <4> QED
        BY <4>1, <4>2, ImprovedIsBetter
    <3> QED
      BY <3>1, <3>2
  <2> QED
    BY <2>1, <2>2, <2>3, ResolutionCases
<1>4. CASE UpdateMetrics
  <2>1. active' = active
    BY <1>4 DEF UpdateMetrics
  <2>2. IF active THEN rate' \in ImprovedRates ELSE rate' = PoorRate
    BY <1>4, Zenon DEF UpdateMetrics
  <2>3. ~(PoorRate < PoorRate)
    BY DEF PoorRate
  <2> QED
    BY <2>1, <2>2, <2>3, ImprovedIsBetter
<1>5. CASE Reset \/ Restart
  <2>1. active' = FALSE /\ rate' = PoorRate
    BY <1>5 DEF Reset, Restart, NothingEarned
  <2>2. ~(PoorRate < PoorRate)
    BY DEF PoorRate
  <2> QED
    BY <2>1, <2>2
<1> QED
  BY <1>1, <1>2, <1>3, <1>4, <1>5, ShownCases

LEMMA CountStep ==
    TypeOK /\ TargetsInv /\ CountInv /\ [Next]_vars => CountInv'
<1> SUFFICES ASSUME TypeOK, TargetsInv, CountInv, [Next]_vars PROVE CountInv'
  OBVIOUS
<1>1. CASE UNCHANGED <<active, count, counted>>
  BY <1>1 DEF CountInv
<1>2. CASE \E r \in Resolvers : Resolution(r) /\ Ends(r)
  <2>1. PICK r \in Resolvers : Resolution(r) /\ Ends(r)
    BY <1>2
  <2>2. r \notin counted
    BY <2>1, ResolutionCases DEF TargetsInv, Resolving
  <2>3. /\ active' = TRUE
        /\ count' = count + 1
        /\ counted' = counted \cup {r}
    BY <2>1 DEF Ends, OnIncidentResolved
  <2>4. IsFiniteSet(counted)
    BY IncidentsAssumption, FS_Subset DEF TypeOK
  <2>5. Cardinality(counted') = Cardinality(counted) + 1
    BY <2>2, <2>3, <2>4, FS_AddElement
  <2> QED
    BY <2>3, <2>5 DEF CountInv
<1>3. CASE Reset \/ Restart
  <2>1. active' = FALSE /\ count' = 0 /\ counted' = {}
    BY <1>3 DEF Reset, Restart, NothingEarned
  <2> QED
    BY <2>1, FS_EmptySet DEF CountInv
<1>4. ASSUME NEW r \in Resolvers, Demand(r)
      PROVE  UNCHANGED <<active, count, counted>>
  BY <1>4, DemandCases DEF Unresolved, Resolve, metricVars, historyVars
<1>5. ASSUME NEW r \in Resolvers, Resolution(r), ~Ends(r)
      PROVE  UNCHANGED <<active, count, counted>>
  BY <1>5, ResolutionCases DEF Waits, metricVars, historyVars
<1>6. UpdateMetrics => UNCHANGED <<active, count, counted>>
  BY DEF UpdateMetrics, historyVars
<1> QED
  BY <1>1, <1>2, <1>3, <1>4, <1>5, <1>6, ShownCases

-----------------------------------------------------------------------------
(***************************************************************************)
(* The counters.  An incident enters the first set when its creation is    *)
(* over, a handler the second when it finds its incident; a restart        *)
(* empties both.                                                           *)
(***************************************************************************)
CreatedIncidents == {x \in Sources : Live(x) /\ ~Creating(x)}

Resolutions == {r \in Resolvers : target[r] # NoIncident /\ Live(target[r])}

LEMMA CountedSetsFinite ==
    IsFiniteSet(CreatedIncidents) /\ IsFiniteSet(Resolutions)
<1>1. CreatedIncidents \subseteq Sources /\ Resolutions \subseteq Resolvers
  BY DEF CreatedIncidents, Resolutions
<1> QED
  BY <1>1, IncidentsAssumption, FS_Subset

LEMMA CountersStep ==
    TypeOK /\ SourcesInv /\ TargetsInv /\ CountersMatch /\ [Next]_vars
        => CountersMatch'
<1> SUFFICES ASSUME TypeOK, SourcesInv, TargetsInv, CountersMatch, [Next]_vars
             PROVE  CountersMatch'
  OBVIOUS
<1>a. opened = Cardinality(CreatedIncidents) /\ resolved = Cardinality(Resolutions)
  BY DEF CountersMatch, CreatedIncidents, Resolutions
<1>b. CountersMatch' <=> /\ opened' = Cardinality(CreatedIncidents')
                         /\ resolved' = Cardinality(Resolutions')
  BY DEF CountersMatch, CreatedIncidents, Resolutions
<1>c. ASSUME UNCHANGED <<CreatedIncidents, Resolutions, opened, resolved>>
      PROVE  CountersMatch'
  BY <1>a, <1>b, <1>c
<1>d. ASSUME NEW x \in Sources, x \notin CreatedIncidents,
             CreatedIncidents' = CreatedIncidents \cup {x}, opened' = opened + 1,
             UNCHANGED <<Resolutions, resolved>>
      PROVE  CountersMatch'
  BY <1>a, <1>b, <1>d, CountedSetsFinite, FS_AddElement
<1> USE Types DEF SourcesInv, Live, Creating, GoTo, mapVars, metricVars
<1>1. CASE \E x \in Requests : CreateSupportRequest(x) \/ Support(x)
  <2>1. /\ UNCHANGED <<status, target, opened, resolved>>
        /\ \A x \in Reports : pc'[x] = pc[x]
    BY <1>1 DEF CreateSupportRequest, Support, SupportIssued, SupportIssueFails,
                CreateDoraIncident, SupportReplies
  <2> QED
    BY <1>c, <2>1 DEF CreatedIncidents, Resolutions
<1>2. CASE \E x \in Requests : CreateTicketed(x)
  <2>1. PICK x \in Requests : CreateTicketed(x)
    BY <1>2
  <2>2. status[x] = "none" /\ x \notin CreatedIncidents
    BY <2>1 DEF CreateTicketed, CreatedIncidents
  <2>3. /\ status' = [status EXCEPT ![x] = "open"] /\ opened' = opened + 1
        /\ UNCHANGED <<pc, target, resolved>>
    BY <2>1 DEF CreateTicketed, Insert
  <2>4. CreatedIncidents' = CreatedIncidents \cup {x}
    BY <2>3 DEF CreatedIncidents
  <2>5. Resolutions' = Resolutions
    BY <2>2, <2>3 DEF Resolutions, TargetsInv
  <2> QED
    BY <1>d, <2>2, <2>3, <2>4, <2>5
<1>3. CASE \E x \in Reports : CreateIncident(x)
  <2>1. PICK x \in Reports : CreateIncident(x)
    BY <1>3
  <2>2. status[x] = "none"
    BY <2>1 DEF CreateIncident
  <2>3. /\ status' = [status EXCEPT ![x] = "open"]
        /\ pc' = [pc EXCEPT ![x] = "issue"]
        /\ UNCHANGED <<target, opened, resolved>>
    BY <2>1 DEF CreateIncident, Insert
  <2>4. CreatedIncidents' = CreatedIncidents
    BY <2>2, <2>3 DEF CreatedIncidents
  <2>5. Resolutions' = Resolutions
    BY <2>2, <2>3 DEF Resolutions, TargetsInv
  <2> QED
    BY <1>c, <2>3, <2>4, <2>5
<1>4. CASE \E x \in Reports : Report(x)
  <2>1. PICK x \in Reports : Report(x)
    BY <1>4
  <2>2. Creating(x) /\ x \notin CreatedIncidents /\ UNCHANGED <<status, target>>
    BY <2>1 DEF Report, Issued, AddJiraRemoteLinks, IssueFails, CreatedIncidents
  <2>3. Resolutions' = Resolutions
    BY <2>2 DEF Resolutions
  <2>4. CASE Created(x)
    <3>1. CreatedIncidents' = CreatedIncidents \cup {x}
      BY <2>2, <2>4 DEF Created, CreatedIncidents
    <3> QED
      BY <1>d, <2>2, <2>3, <2>4, <3>1 DEF Created
  <2>5. CASE GoTo(x, "links") /\ UNCHANGED metricVars
    <3>1. CreatedIncidents' = CreatedIncidents
      BY <2>2, <2>5 DEF CreatedIncidents
    <3> QED
      BY <1>c, <2>3, <2>5, <3>1
  <2> QED
    BY <2>1, <2>4, <2>5 DEF Report, Issued, AddJiraRemoteLinks, IssueFails
<1>5. CASE \E x \in Sources : JiraIssues(x) \/ JiraCloses(x)
  BY <1>5, <1>c DEF JiraIssues, JiraCloses, CreatedIncidents, Resolutions
<1>6. CASE \E r \in Resolvers : Demand(r)
  <2>1. PICK r \in Resolvers : Demand(r)
    BY <1>6
  <2>2. CASE Unresolved(r)
    BY <1>c, <2>2 DEF Unresolved, CreatedIncidents, Resolutions
  <2>3. CASE \E x \in Sources : x \in incidents /\ Resolve(r, x)
    <3>0. PICK x \in Sources : x \in incidents /\ Resolve(r, x)
      BY <2>3
    <3>1. /\ pc' = [pc EXCEPT ![r] = "slack"]
          /\ target' = [target EXCEPT ![r] = x]
          /\ status' = [status EXCEPT ![x] = "resolved"]
          /\ resolved' = resolved + 1 /\ opened' = opened
      BY <3>0 DEF Resolve
    <3>2. target[r] = NoIncident
      BY <2>1, DemandCases DEF TargetsInv
    <3>3. CreatedIncidents' = CreatedIncidents
      BY <3>0, <3>1 DEF CreatedIncidents
    <3>4. r \notin Resolutions /\ Resolutions' = Resolutions \cup {r}
      BY <3>0, <3>1, <3>2 DEF Resolutions
    <3> QED
      BY <1>a, <1>b, <3>1, <3>3, <3>4, CountedSetsFinite, FS_AddElement
  <2>4. Unresolved(r) \/ \E x \in Sources : x \in incidents /\ Resolve(r, x)
    BY <2>1, DemandCases
  <2> QED
    BY <2>2, <2>3, <2>4
<1>7. CASE \E r \in Resolvers : Resolution(r)
  <2>1. PICK r \in Resolvers : Resolution(r)
    BY <1>7
  <2>2. UNCHANGED <<status, target, opened, resolved>>
    BY <2>1, ResolutionCases DEF Waits, Ends, OnIncidentResolved
  <2>3. \E step : GoTo(r, step)
    BY <2>1, ResolutionCases DEF Waits, Ends, OnIncidentResolved
  <2>4. \A x \in Reports : pc'[x] = pc[x]
    BY <2>3
  <2> QED
    BY <1>c, <2>2, <2>4 DEF CreatedIncidents, Resolutions
<1>8. CASE UpdateMetrics
  BY <1>8, <1>c DEF UpdateMetrics, CreatedIncidents, Resolutions
<1>9. CASE Reset
  BY <1>9, <1>c DEF Reset, CreatedIncidents, Resolutions
<1>10. CASE Restart
  <2>1. /\ opened' = 0 /\ resolved' = 0
        /\ \A x \in Sources : status'[x] \in {"none", "gone"}
        /\ UNCHANGED target
    BY <1>10 DEF Restart
  <2>2. CreatedIncidents' = {} /\ Resolutions' = {}
    BY <2>1 DEF CreatedIncidents, Resolutions
  <2> QED
    BY <1>b, <2>1, <2>2, FS_EmptySet
<1>11. CASE UNCHANGED vars
  BY <1>11, <1>c DEF vars, CreatedIncidents, Resolutions
<1> QED
  BY <1>1, <1>2, <1>3, <1>4, <1>5, <1>6, <1>7, <1>8, <1>9, <1>10, <1>11,
     StepCases

-----------------------------------------------------------------------------
(***************************************************************************)
(* The inductive invariant.                                                *)
(***************************************************************************)
IInv ==
    /\ TypeOK
    /\ SourcesInv
    /\ TargetsInv
    /\ HooksResolveOnce
    /\ TicketsInv
    /\ GaugeTellsImprovement
    /\ CountInv
    /\ CountersMatch

LEMMA InvInit == Init => IInv
<1> SUFFICES ASSUME Init PROVE IInv
  OBVIOUS
<1>1. /\ pc = [h \in Sources \cup Resolvers |-> "new"]
      /\ jira = [x \in Sources |-> "none"]
      /\ status = [x \in Sources |-> "none"]
      /\ target = [r \in Resolvers |-> NoIncident]
      /\ closing = {} /\ posted = {} /\ incidents = {} /\ counted = {}
      /\ active = FALSE /\ count = 0 /\ rate = PoorRate
  BY DEF Init
<1>2. SourcesInv
  BY <1>1 DEF SourcesInv, Sources, Creating
<1>3. TargetsInv /\ HooksResolveOnce
  BY <1>1 DEF TargetsInv, HooksResolveOnce, Resolving, Resolvers
<1>4. TicketsInv
  BY <1>1 DEF TicketsInv
<1>5. GaugeTellsImprovement
  BY <1>1 DEF GaugeTellsImprovement, PoorRate
<1>6. CountInv
  BY <1>1, FS_EmptySet DEF CountInv
<1>7. CountersMatch
  <2>1. opened = 0 /\ resolved = 0
    BY DEF Init
  <2>2. CreatedIncidents = {} /\ Resolutions = {}
    BY <1>1 DEF CreatedIncidents, Resolutions, Live
  <2> QED
    BY <2>1, <2>2, FS_EmptySet DEF CountersMatch, CreatedIncidents, Resolutions
<1> QED
  BY <1>2, <1>3, <1>4, <1>5, <1>6, <1>7, TypeInit DEF IInv

LEMMA InvStep == IInv /\ [Next]_vars => IInv'
<1>1. TargetsInv => Targeted
  BY DEF TargetsInv, Targeted
<1> QED
  BY <1>1, TypeStep, SourcesStep, TargetsStep, HooksStep, TicketsStep, GaugeStep,
     CountStep, CountersStep DEF IInv

LEMMA Invariant == Spec => []IInv
BY InvInit, InvStep, PTL DEF Spec

(***************************************************************************)
(* Every variable of Incidents always has its type.                        *)
(***************************************************************************)
THEOREM IncidentsTypeCorrect == Spec => []TypeOK
<1>1. IInv => TypeOK
  BY DEF IInv
<1> QED
  BY <1>1, Invariant, PTL

(***************************************************************************)
(* No two announcements of pull requests resolve the same incident,        *)
(* whatever handlers run at the awaits in between.                         *)
(***************************************************************************)
THEOREM IncidentsHooksResolveOnce == Spec => []HooksResolveOnce
<1>1. IInv => HooksResolveOnce
  BY DEF IInv
<1> QED
  BY <1>1, Invariant, PTL

(***************************************************************************)
(* Tickets are closed only for resolved incidents, and those that stay     *)
(* open were unknown to their incident or refused by Jira.                 *)
(***************************************************************************)
THEOREM IncidentsTicketFollowsIncident == Spec => []TicketFollowsIncident
<1>1. IInv => TicketFollowsIncident
  BY DEF IInv, TicketsInv, TicketFollowsIncident
<1> QED
  BY <1>1, Invariant, PTL

(***************************************************************************)
(* The failure rate shown is the poor one never while Augment is active,   *)
(* and without Augment always, but for resolutions under way.              *)
(***************************************************************************)
THEOREM IncidentsGaugeTellsImprovement == Spec => []GaugeTellsImprovement
<1>1. IInv => GaugeTellsImprovement
  BY DEF IInv
<1> QED
  BY <1>1, Invariant, PTL

(***************************************************************************)
(* Augment is active only by resolutions that count, each for an incident  *)
(* in the map or overtaken by a reset, and two for one incident only if    *)
(* one was asked for by hand: two webhooks never have the same target.     *)
(***************************************************************************)
THEOREM IncidentsImprovementEarned == Spec => []ImprovementEarned
<1>1. IInv => ImprovementEarned
  <2> SUFFICES ASSUME IInv PROVE ImprovementEarned
    OBVIOUS
  <2>1. (active <=> counted # {}) /\ count = Cardinality(counted)
    BY DEF IInv, CountInv
  <2>2. ASSUME NEW r \in counted
        PROVE  target[r] \in Sources /\ (target[r] \in incidents \/ r \in overtaken)
    BY Types DEF IInv, TargetsInv
  <2>3. ASSUME NEW r \in counted, NEW q \in counted, target[q] = target[r]
        PROVE  q = r \/ {q, r} \cap Puts # {}
    BY <2>2, <2>3, Types DEF IInv, HooksResolveOnce
  <2> QED
    BY <2>1, <2>2, <2>3 DEF ImprovementEarned
<1> QED
  BY <1>1, Invariant, PTL

(***************************************************************************)
(* The counters agree with the incidents, whatever Jira answers.           *)
(***************************************************************************)
THEOREM IncidentsCountersMatch == Spec => []CountersMatch
<1>1. IInv => CountersMatch
  BY DEF IInv
<1> QED
  BY <1>1, Invariant, PTL

-----------------------------------------------------------------------------
(***************************************************************************)
(* The book of incidents (BookSpec).  The inductive invariant tells that   *)
(* what Jira was asked to close is the target of a resolution, that what a *)
(* handler under way has found is resolved or gone, and that the gauge and *)
(* what counts agree.                                                      *)
(***************************************************************************)
Incident == [x \in Sources |-> Recorded(x)]

LEMMA BookInit == Init => Book!Init
<1> SUFFICES ASSUME Init PROVE Book!Init
  OBVIOUS
<1>1. Incident = [x \in Sources |-> "none"]
  BY DEF Init, Incident, Recorded
<1>2. UnderWay = {}
  BY DEF Init, UnderWay, Resolving, Resolvers
<1>3. ~(rate < PoorRate)
  BY DEF Init, PoorRate
<1> QED
  BY <1>1, <1>2, <1>3 DEF Init, Book!Init, Book!Resolvers, Resolvers, Incident

(***************************************************************************)
(* Who is under way, and what the book says of an incident, when they do   *)
(* not change.                                                             *)
(***************************************************************************)
LEMMA SameUnderWay ==
    ASSUME \A r \in Resolvers : pc'[r] = pc[r]
    PROVE  UnderWay' = UnderWay
BY DEF UnderWay, Resolving

LEMMA SameIncidents ==
    ASSUME UNCHANGED <<status, incidents>>
    PROVE  Incident' = Incident
BY DEF Incident, Recorded

\* An incident is put in the map.
LEMMA OpenInBook ==
    ASSUME IInv, NEW x \in Sources, status[x] = "none", Insert(x),
           UNCHANGED <<jira, target, counted, rate>>,
           \A r \in Resolvers : pc'[r] = pc[r]
    PROVE  Book!Next
<1>1. Incident[x] = "none"
  BY DEF Incident, Recorded
<1>2. Incident' = [Incident EXCEPT ![x] = "open"]
  BY Types DEF Insert, Incident, Recorded, IInv
<1>3. Book!Open(x)
  BY <1>1, <1>2, SameUnderWay DEF Book!Open, Incident
<1> QED
  BY <1>3 DEF Book!Next

\* A step the book does not see.
LEMMA UnseenByBook ==
    ASSUME UNCHANGED <<jira, status, incidents, target, counted, rate>>,
           \A r \in Resolvers : pc'[r] = pc[r]
    PROVE  UNCHANGED Book!vars
BY SameUnderWay, SameIncidents DEF Book!vars, Incident

LEMMA ResolveInBook ==
    ASSUME IInv, NEW r \in Resolvers, NEW x \in Sources, pc[r] = "new",
           x \in incidents, r \in Hooks => status[x] = "open", Resolve(r, x)
    PROVE  Book!Next
<1> USE Types DEF IInv
<1>1. target[r] = NoIncident
  BY DEF TargetsInv
<1>2. Incident[x] = status[x] /\ status[x] \in {"open", "resolved"}
  BY DEF Incident, Recorded, SourcesInv, Live
<1>3. Incident' = [Incident EXCEPT ![x] = "resolved"]
  BY DEF Resolve, Incident, Recorded
<1>4. UnderWay' = UnderWay \cup {r}
  BY DEF Resolve, GoTo, UnderWay, Resolving
<1>5. rate' < PoorRate
  BY DEF Resolve, ImpactRate, PoorRate
<1>6. UNCHANGED <<jira, counted>> /\ target' = [target EXCEPT ![r] = x]
  BY DEF Resolve, historyVars
<1>7. (rate' < PoorRate) = TRUE
  BY <1>5
<1>8. Book!Resolve(r, x)
  BY <1>1, <1>2, <1>3, <1>4, <1>6, <1>7 DEF Book!Resolve, Incident
<1> QED
  BY <1>8 DEF Book!Next, Book!Resolvers, Resolvers

\* The end of a resolution.
LEMMA ShowInBook ==
    ASSUME IInv, NEW r \in Resolvers, Resolution(r), Ends(r)
    PROVE  Book!Next
<1> USE Types DEF IInv
<1>1. /\ r \in UnderWay
      /\ target[r] \in Sources
      /\ status[target[r]] \in {"resolved", "gone"}
  BY ResolutionCases DEF UnderWay, TargetsInv
<1>2. Incident[target[r]] \in {"resolved", "cleared"}
  BY <1>1 DEF Incident, Recorded, SourcesInv, Live
<1>4. UnderWay' = UnderWay \ {r}
  BY DEF Ends, OnIncidentResolved, GoTo, UnderWay, Resolving
<1>5. rate' < PoorRate
  <2>1. (active /\ rate' = rate) \/ rate' \in ImprovedRates
    BY Zenon DEF Ends, OnIncidentResolved
  <2> QED
    BY <2>1, ImprovedIsBetter DEF GaugeTellsImprovement
<1>6. (rate' < PoorRate) = TRUE
  BY <1>5
<1>3. /\ UNCHANGED <<jira, status, incidents, target>>
      /\ counted' = counted \cup {r}
  BY DEF Ends, OnIncidentResolved, mapVars
<1>8. Incident' = Incident
  BY <1>3, SameIncidents
<1>9. Book!Show(r)
  BY <1>1, <1>2, <1>3, <1>4, <1>6, <1>8 DEF Book!Show, Incident
<1> QED
  BY <1>9 DEF Book!Next, Book!Resolvers, Resolvers

\* A reset and a restart.
LEMMA ClearInBook ==
    ASSUME IInv, Reset \/ Restart
    PROVE  Book!Next
<1> USE Types DEF IInv
<1>1. Incident' = [x \in Sources |->
                      IF Incident[x] = "none" THEN "none" ELSE "cleared"]
  <2>1. incidents' = {}
    BY DEF Reset, Restart, NothingEarned
  <2>2. \A x \in Sources : status'[x] = "none" <=> status[x] = "none"
    BY DEF Reset, Restart
  <2>3. \A x \in Sources : Incident[x] = "none" <=> status[x] = "none"
    BY DEF Incident, Recorded
  <2> QED
    BY <2>1, <2>2, <2>3 DEF Incident, Recorded
<1>2. UnderWay' \in {UnderWay, {}}
  <2>1. CASE Reset
    BY <2>1, SameUnderWay DEF Reset
  <2>2. CASE Restart
    BY <2>2 DEF Restart, UnderWay, Resolving
  <2> QED
    BY <2>1, <2>2
<1>3. UNCHANGED <<jira, target>> /\ counted' = {} /\ rate' = PoorRate
  BY DEF Reset, Restart, NothingEarned
<1>4. (rate' < PoorRate) = FALSE
  BY <1>3 DEF PoorRate
<1>5. Book!Clear
  BY <1>1, <1>2, <1>3, <1>4 DEF Book!Clear, Incident
<1> QED
  BY <1>5 DEF Book!Next

LEMMA UpdateInBook ==
    ASSUME IInv, UpdateMetrics
    PROVE  Book!Next
<1> USE DEF IInv
<1>1. (rate' < PoorRate) = (counted # {})
  <2>1. IF active THEN rate' \in ImprovedRates ELSE rate' = PoorRate
    BY Zenon DEF UpdateMetrics
  <2>2. ~(PoorRate < PoorRate)
    BY DEF PoorRate
  <2>3. active <=> counted # {}
    BY DEF CountInv
  <2>4. rate' < PoorRate <=> active
    BY <2>1, <2>2, ImprovedIsBetter
  <2> QED
    BY <2>3, <2>4
<1>2. /\ UNCHANGED <<jira, status, incidents, target, counted>>
      /\ \A r \in Resolvers : pc'[r] = pc[r]
  BY DEF UpdateMetrics, mapVars, historyVars
<1>3. Book!Update
  BY <1>1, <1>2, SameUnderWay, SameIncidents DEF Book!Update, Incident
<1> QED
  BY <1>3 DEF Book!Next

\* Jira makes a ticket.
LEMMA FileInBook ==
    ASSUME NEW x \in Sources, JiraIssues(x)
    PROVE  Book!Next
<1>1. /\ UNCHANGED <<status, incidents, target, counted, rate, pc>>
      /\ jira[x] = "none" /\ jira' = [jira EXCEPT ![x] = "open"]
  BY DEF JiraIssues, mapVars, metricVars, historyVars
<1>2. Book!File(x)
  BY <1>1, SameUnderWay, SameIncidents DEF Book!File, Incident
<1> QED
  BY <1>2 DEF Book!Next

\* Jira closes a ticket, which a resolution has asked for.
LEMMA CloseInBook ==
    ASSUME IInv, NEW x \in Sources, JiraCloses(x)
    PROVE  Book!Next
<1>1. /\ UNCHANGED <<status, incidents, target, counted, rate, pc>>
      /\ x \in closing /\ jira[x] = "open"
      /\ jira' = [jira EXCEPT ![x] = "done"]
  BY DEF JiraCloses, mapVars, metricVars, historyVars
<1>2. PICK r \in Resolvers : target[r] = x
  BY <1>1 DEF IInv, TicketsInv
<1>3. Incident[x] \in {"resolved", "cleared"}
  BY <1>1 DEF IInv, TicketsInv, Incident, Recorded, SourcesInv, Live
<1>4. x # NoIncident
  BY IncidentsAssumption
<1>5. Book!Close(r)
  BY <1>1, <1>2, <1>3, <1>4, SameUnderWay, SameIncidents DEF Book!Close, Incident
<1> QED
  BY <1>5 DEF Book!Next, Book!Resolvers, Resolvers

LEMMA BookStep == IInv /\ [Next]_vars => [Book!Next]_(Book!vars)
<1> SUFFICES ASSUME IInv, [Next]_vars
             PROVE  Book!Next \/ UNCHANGED Book!vars
  OBVIOUS
<1> USE Types DEF IInv
<1> DEFINE Unseen == /\ UNCHANGED <<jira, status, incidents, target, counted, rate>>
                     /\ \A r \in Resolvers : pc'[r] = pc[r]
<1>1. ASSUME NEW x \in Requests, CreateSupportRequest(x) \/ Support(x)
      PROVE  Unseen
  BY <1>1 DEF CreateSupportRequest, Support, SupportIssued, SupportIssueFails,
     CreateDoraIncident, SupportReplies, GoTo, mapVars, metricVars, historyVars
<1>2. ASSUME NEW x \in Requests, CreateTicketed(x) PROVE Book!Next
  <2>1. status[x] = "none" /\ Insert(x)
    BY <1>2 DEF CreateTicketed, SourcesInv
  <2>2. UNCHANGED <<jira, target, counted, rate, pc>>
    BY <1>2 DEF CreateTicketed, historyVars
  <2> QED
    BY <2>1, <2>2, OpenInBook
<1>3. ASSUME NEW x \in Reports, CreateIncident(x) PROVE Book!Next
  <2>1. status[x] = "none" /\ Insert(x)
    BY <1>3 DEF CreateIncident, SourcesInv
  <2>2. /\ UNCHANGED <<jira, target, counted, rate>>
        /\ \A r \in Resolvers : pc'[r] = pc[r]
    BY <1>3 DEF CreateIncident, GoTo, metricVars, historyVars
  <2> QED
    BY <2>1, <2>2, OpenInBook
<1>4. ASSUME NEW x \in Reports, Report(x) PROVE Unseen
  BY <1>4 DEF Report, Issued, AddJiraRemoteLinks, IssueFails, Created, GoTo,
              mapVars, metricVars, historyVars
<1>5. ASSUME NEW r \in Resolvers, Demand(r)
      PROVE  Book!Next \/ UNCHANGED Book!vars
  <2>1. CASE Unresolved(r)
    <3>1. UnderWay' = UnderWay
      BY <1>5, <2>1, DemandCases DEF Unresolved, GoTo, UnderWay, Resolving
    <3> QED
      BY <2>1, <3>1, SameIncidents
         DEF Unresolved, Book!vars, Incident, mapVars, metricVars, historyVars
  <2>2. CASE \E x \in Sources : /\ x \in incidents
                                /\ r \in Hooks => status[x] = "open"
                                /\ Resolve(r, x)
    BY <1>5, <2>2, DemandCases, ResolveInBook
  <2> QED
    BY <1>5, <2>1, <2>2, DemandCases
<1>6. ASSUME NEW r \in Resolvers, Resolution(r)
      PROVE  Book!Next \/ UNCHANGED Book!vars
  <2>1. CASE Waits(r)
    <3>1. UnderWay' = UnderWay
      BY <1>6, <2>1, ResolutionCases DEF Waits, GoTo, UnderWay, Resolving
    <3> QED
      BY <2>1, <3>1, SameIncidents
         DEF Waits, Book!vars, Incident, mapVars, metricVars, historyVars
  <2> QED
    BY <1>6, <2>1, ResolutionCases, ShowInBook
<1>7. UNCHANGED vars => Unseen
  BY DEF vars, mapVars, metricVars, historyVars
<1>8. Unseen => UNCHANGED Book!vars
  BY UnseenByBook
<1> QED
  BY <1>1, <1>2, <1>3, <1>4, <1>5, <1>6, <1>7, <1>8, StepCases, FileInBook,
     CloseInBook, ClearInBook, UpdateInBook

(***************************************************************************)
(* The handlers of support and dora-metrics, whatever they await, and Jira *)
(* whenever it performs what it was sent, keep the book of incidents as    *)
(* IncidentBook says, whatever fails, resets or restarts meanwhile.        *)
(***************************************************************************)
THEOREM IncidentsKeepBook == Spec => BookSpec
BY BookInit, BookStep, Invariant, PTL DEF Spec, BookSpec, Book!Spec
=============================================================================
