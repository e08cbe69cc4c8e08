----------------------------- MODULE Incidents -----------------------------
(***************************************************************************)
(* Incidents from the support request that opens them to the pull request  *)
(* that resolves them: the service support (src/src/support/main.go), the  *)
(* routes, the IncidentManager and the DoraMetricsGenerator of dora-metrics *)
(* (src/src/dora-metrics/src), and Jira.                                   *)
(*                                                                         *)
(* dora-metrics is one node process: a handler runs to its next await, and *)
(* every await is a place where the others run.  All it knows is in        *)
(* memory.                                                                 *)
(*                                                                         *)
(* A support request and a POST of an incident without a ticket each make  *)
(* at most one ticket and one incident, so that all three go by the name   *)
(* of their source.  Every incident is one of the service checkout.        *)
(***************************************************************************)
EXTENDS Integers, FiniteSets

CONSTANTS Requests,       \* calls of CreateSupportRequest
          Reports,        \* POST /incidents without a jiraTicketId
          Hooks,          \* deliveries of POST /webhook/pr-created
          Puts,           \* PUT /incidents/:id/resolve
          ImprovedRates,  \* failure rates generated once Augment is active
          NoIncident

Sources == Requests \cup Reports

Resolvers == Hooks \cup Puts

\* 35% and more, times 2.2 for checkout, is cut to 50%.
PoorRate == 50

ASSUME IncidentsAssumption ==
    /\ IsFiniteSet(Sources) /\ IsFiniteSet(Resolvers)
    /\ Requests \cap Reports = {} /\ Hooks \cap Puts = {}
    /\ Sources \cap Resolvers = {}
    /\ NoIncident \notin Sources
    /\ ImprovedRates \subseteq 0..23 /\ ImprovedRates # {}

VARIABLES
    pc,        \* [Sources \cup Resolvers -> ...]: where each handler is
    jira,      \* [Sources -> {"none", "open", "done"}]: tickets
    closing,   \* tickets Jira has been sent a PUT for, to close them
    posted,    \* requests whose POST of an incident is under way
    incidents, \* the map of IncidentManager
    status,    \* [Sources -> ...]: of incidents, in the map or not
    ticketed,  \* incidents with a jiraTicketId
    augmented, \* incidents with the workflow "augment", not "manual"
    target,    \* [Resolvers -> ...]: the incident a handler resolves
    active,    \* augmentActive
    count,     \* incidentResolutionCount
    rate,      \* the gauge dora_change_failure_rate
    opened,    \* the counter dora_incidents_total, status open
    resolved,  \* the same, status resolved
    counted,   \* history: resolutions counted since the last reset
    overtaken, \* history: resolutions that were under way at a reset
    missed     \* history: incidents whose ticket a resolution failed to close

mapVars == <<incidents, status, ticketed, augmented>>
metricVars == <<active, count, rate, opened, resolved>>
historyVars == <<counted, overtaken, missed>>

vars == <<pc, jira, closing, posted, mapVars, target, metricVars, historyVars>>

Init ==
    /\ pc = [h \in Sources \cup Resolvers |-> "new"]
    /\ jira = [x \in Sources |-> "none"]
    /\ closing = {} /\ posted = {}
    /\ incidents = {}
    /\ status = [x \in Sources |-> "none"]
    /\ ticketed = {}
    /\ augmented = {}
    /\ target = [r \in Resolvers |-> NoIncident]
    /\ active = FALSE /\ count = 0 /\ rate = PoorRate
    /\ opened = 0 /\ resolved = 0
    /\ counted = {} /\ overtaken = {} /\ missed = {}

GoTo(h, step) == pc' = [pc EXCEPT ![h] = step]

-----------------------------------------------------------------------------
(***************************************************************************)
(* A ticket is made, by support or by createIncident.                      *)
(***************************************************************************)
CreateSupportRequest(x) ==
    /\ pc[x] = "new"
    /\ GoTo(x, "issue")
    /\ UNCHANGED <<jira, closing, posted, mapVars, target, metricVars, historyVars>>

\* In time, or when the handler has given up or is lost.
JiraIssues(x) ==
    /\ pc[x] # "new"
    /\ jira[x] = "none"
    /\ jira' = [jira EXCEPT ![x] = "open"]
    /\ UNCHANGED <<pc, closing, posted, mapVars, target, metricVars, historyVars>>

\* Support replies, with or without a ticket and an incident: CREATED.
SupportIssueFails(x) ==
    /\ pc[x] = "issue"
    /\ GoTo(x, "done")
    /\ UNCHANGED <<jira, closing, posted, mapVars, target, metricVars, historyVars>>

\* The notification may fail; then createDoraIncident posts.
SupportIssued(x) ==
    /\ pc[x] = "issue"
    /\ jira[x] = "open"
    /\ GoTo(x, "slack")
    /\ UNCHANGED <<jira, closing, posted, mapVars, target, metricVars, historyVars>>

CreateDoraIncident(x) ==
    /\ pc[x] = "slack"
    /\ GoTo(x, "post")
    /\ posted' = posted \cup {x}
    /\ UNCHANGED <<jira, closing, mapVars, target, metricVars, historyVars>>

\* Answered, refused, or given up after 10 seconds with the POST under way.
SupportReplies(x) ==
    /\ pc[x] = "post"
    /\ GoTo(x, "done")
    /\ \/ UNCHANGED posted
       \/ posted' = posted \ {x}
    /\ UNCHANGED <<jira, closing, mapVars, target, metricVars, historyVars>>

-----------------------------------------------------------------------------
(***************************************************************************)
(* createIncident                                                          *)
(***************************************************************************)
Insert(x) ==
    /\ incidents' = incidents \cup {x}
    /\ status' = [status EXCEPT ![x] = "open"]

\* With its ticket given an incident is created without an await.
CreateTicketed(x) ==
    /\ x \in posted
    /\ posted' = posted \ {x}
    /\ Insert(x)
    /\ ticketed' = ticketed \cup {x}
    /\ opened' = opened + 1
    /\ UNCHANGED <<pc, jira, closing, augmented, target, active, count, rate, resolved,
                   historyVars>>

CreateIncident(x) ==
    /\ pc[x] = "new"
    /\ GoTo(x, "issue")
    /\ Insert(x)
    /\ \/ UNCHANGED augmented
       \/ augmented' = augmented \cup {x}
    /\ UNCHANGED <<jira, closing, posted, ticketed, target, metricVars, historyVars>>

Created(x) ==
    /\ GoTo(x, "done")
    /\ opened' = opened + 1
    /\ UNCHANGED <<active, count, rate, resolved>>

\* An augment ticket is given its remote links before the incident counts.
Issued(x) ==
    /\ pc[x] = "issue"
    /\ jira[x] = "open"
    /\ ticketed' = ticketed \cup {x}
    /\ IF x \in augmented
       THEN GoTo(x, "links") /\ UNCHANGED metricVars
       ELSE Created(x)
    /\ UNCHANGED <<jira, closing, posted, incidents, status, augmented, target,
                   historyVars>>

AddJiraRemoteLinks(x) ==
    /\ pc[x] = "links"
    /\ Created(x)
    /\ UNCHANGED <<jira, closing, posted, mapVars, target, historyVars>>

\* Seeded bug: the error is not caught, and the handler answers 500.
IssueFailsThrough(x) ==
    /\ pc[x] = "issue"
    /\ GoTo(x, "done")
    /\ UNCHANGED <<jira, closing, posted, mapVars, target, metricVars, historyVars>>

IssueFails(x) ==
    /\ pc[x] = "issue"
    /\ Created(x)
    /\ UNCHANGED <<jira, closing, posted, mapVars, target, historyVars>>

-----------------------------------------------------------------------------
(***************************************************************************)
(* resolveIncident, from the webhook or by hand                            *)
(***************************************************************************)

\* Seeded bug: the generator with the poor metrics, and the cut at 50 forgotten.
ImpactRateUncut(x) == IF x \in augmented THEN 55 ELSE 75

\* simulateIncidentImpact of a new generator, which has no metrics and takes
\* the rate to be 10.
ImpactRate(x) == IF x \in augmented THEN 11 ELSE 15

Resolve(r, x) ==
    /\ GoTo(r, "slack")
    /\ target' = [target EXCEPT ![r] = x]
    /\ status' = [status EXCEPT ![x] = "resolved"]
    /\ resolved' = resolved + 1
    /\ rate' = ImpactRate(x)
    /\ UNCHANGED <<jira, closing, posted, incidents, ticketed, augmented, active, count,
                   opened, historyVars>>

Unresolved(r) ==
    /\ GoTo(r, "done")
    /\ UNCHANGED <<jira, closing, posted, mapVars, target, metricVars, historyVars>>

\* Seeded bug: the webhook finds resolved incidents too.
FoundByAny(t) == t \in incidents /\ t \in ticketed

\* The incident of the ticket, unless there is none or it is resolved.
FoundBy(t) == t \in incidents /\ t \in ticketed /\ status[t] = "open"

\* A pull request for an existing ticket; what is found is resolved at once.
PrCreated(h, t) ==
    /\ pc[h] = "new"
    /\ jira[t] # "none"
    /\ IF FoundBy(t) THEN Resolve(h, t) ELSE Unresolved(h)

\* Seeded bug: what a reset has cleared can still be resolved by its id.
PutResolveCleared(p, x) ==
    /\ pc[p] = "new"
    /\ status[x] # "none"
    /\ Resolve(p, x)

\* By the id of an incident that is or was listed, resolved or not.
PutResolve(p, x) ==
    /\ pc[p] = "new"
    /\ status[x] # "none"
    /\ IF x \in incidents THEN Resolve(p, x) ELSE Unresolved(p)

\* Seeded bug: new metrics are not shown before the next update.
OnIncidentResolvedUnshown(r) ==
    /\ GoTo(r, "done")
    /\ count' = count + 1
    /\ active' = TRUE
    /\ counted' = counted \cup {r}
    /\ UNCHANGED <<posted, mapVars, target, rate, opened, resolved, overtaken>>

OnIncidentResolved(r) ==
    /\ GoTo(r, "done")
    /\ count' = count + 1
    /\ active' = TRUE
    /\ IF active THEN UNCHANGED rate ELSE rate' \in ImprovedRates
    /\ counted' = counted \cup {r}
    /\ UNCHANGED <<posted, mapVars, target, opened, resolved, overtaken>>

\* Slack has answered or failed; updateJiraTicket looks for the ticket.
CheckMttrThreshold(r) ==
    /\ pc[r] = "slack"
    /\ IF target[r] \in ticketed
       THEN /\ GoTo(r, "comment")
            /\ UNCHANGED <<posted, mapVars, target, metricVars, historyVars>>
       ELSE OnIncidentResolved(r) /\ missed' = missed \cup {target[r]}
    /\ UNCHANGED <<jira, closing>>

\* Seeded bug: a comment that fails ends updateJiraTicket.
CommentEnds(r) ==
    /\ pc[r] = "comment"
    /\ \/ /\ GoTo(r, "close")
          /\ closing' = closing \cup {target[r]}
          /\ UNCHANGED <<posted, mapVars, target, metricVars, historyVars>>
       \/ OnIncidentResolved(r) /\ UNCHANGED <<closing, missed>>
    /\ UNCHANGED jira

\* Whether or not the comment was added; the PUT to the ticket is sent.
Comment(r) ==
    /\ pc[r] = "comment"
    /\ GoTo(r, "close")
    /\ closing' = closing \cup {target[r]}
    /\ UNCHANGED <<jira, posted, mapVars, target, metricVars, historyVars>>

\* Jira performs a PUT, while its handler waits, when it has gone on, or
\* after its process has ended; a ticket closed twice is closed.
JiraCloses(x) ==
    /\ x \in closing
    /\ jira[x] = "open"
    /\ jira' = [jira EXCEPT ![x] = "done"]
    /\ UNCHANGED <<pc, closing, posted, mapVars, target, metricVars, historyVars>>

\* Jira has answered that the PUT is performed.
CloseTicket(r) ==
    /\ pc[r] = "close"
    /\ jira[target[r]] = "done"
    /\ OnIncidentResolved(r)
    /\ UNCHANGED <<jira, closing, missed>>

\* Seeded bug: the error is not caught, and resolveIncident ends with it.
CloseFailsThrough(r) ==
    /\ pc[r] = "close"
    /\ missed' = missed \cup {target[r]}
    /\ GoTo(r, "done")
    /\ UNCHANGED <<jira, closing, posted, mapVars, target, metricVars, counted,
                   overtaken>>

\* The PUT is refused, or its answer is lost: Jira has performed it, does so
\* later, or never.
CloseFails(r) ==
    /\ pc[r] = "close"
    /\ missed' = missed \cup {target[r]}
    /\ OnIncidentResolved(r)
    /\ UNCHANGED <<jira, closing>>

-----------------------------------------------------------------------------
(***************************************************************************)
(* DELETE /incidents/reset, the schedule of updates, and restarts.         *)
(***************************************************************************)
Resolving(r) == pc[r] \in {"slack", "comment", "close"}

UnderWay == {r \in Resolvers : Resolving(r)}

\* Seeded bug: the metrics keep what the incidents have earned.
ResetIncidentsOnly ==
    /\ incidents' = {}
    /\ counted' = {} /\ overtaken' = overtaken \cup UnderWay
    /\ UNCHANGED <<pc, jira, closing, posted, status, ticketed, augmented, target,
                   metricVars, missed>>

NothingEarned ==
    /\ incidents' = {}
    /\ active' = FALSE
    /\ count' = 0
    /\ rate' = PoorRate
    /\ counted' = {}

\* resetIncidents and resetAugmentStatus, without an await between them.
Reset ==
    /\ NothingEarned
    /\ overtaken' = overtaken \cup UnderWay
    /\ UNCHANGED <<pc, jira, closing, posted, status, ticketed, augmented, target,
                   opened, resolved, missed>>

\* Every 30 seconds.
UpdateMetrics ==
    /\ rate' \in IF active THEN ImprovedRates ELSE {PoorRate}
    /\ UNCHANGED <<pc, jira, closing, posted, mapVars, target, active, count, opened,
                   resolved, historyVars>>

Creating(x) == x \in Reports /\ pc[x] \in {"issue", "links"}

Restart ==
    /\ pc' = [h \in DOMAIN pc |->
                 IF h \in UnderWay \/ Creating(h) THEN "lost" ELSE pc[h]]
    /\ posted' = {}
    /\ NothingEarned
    /\ status' = [x \in Sources |->
                     IF status[x] = "none" THEN "none" ELSE "gone"]
    /\ opened' = 0 /\ resolved' = 0
    /\ UNCHANGED <<jira, closing, ticketed, augmented, target, overtaken, missed>>

Support(x) ==
    \/ SupportIssued(x)
    \/ SupportIssueFails(x)
    \/ CreateDoraIncident(x)
    \/ SupportReplies(x)

Report(x) == Issued(x) \/ AddJiraRemoteLinks(x) \/ IssueFails(x)

Resolution(r) ==
    \/ CheckMttrThreshold(r)
    \/ Comment(r)
    \/ CloseTicket(r)
    \/ CloseFails(r)

Next ==
    \/ \E x \in Requests :
          CreateSupportRequest(x) \/ Support(x) \/ CreateTicketed(x)
    \/ \E x \in Reports : CreateIncident(x) \/ Report(x)
    \/ \E x \in Sources : JiraIssues(x) \/ JiraCloses(x)
    \/ \E h \in Hooks, t \in Sources : PrCreated(h, t)
    \/ \E p \in Puts, x \in Sources : PutResolve(p, x)
    \/ \E r \in Resolvers : Resolution(r)
    \/ UpdateMetrics
    \/ Reset
    \/ Restart

Spec == Init /\ [][Next]_vars

(***************************************************************************)
(* Jira and Slack answer, or the connection to them fails, and the handler *)
(* goes on; the schedule runs.                                             *)
(***************************************************************************)
Fairness ==
    /\ \A x \in Requests : WF_vars(Support(x))
    /\ \A x \in Reports : WF_vars(Report(x))
    /\ \A r \in Resolvers : WF_vars(Resolution(r))
    /\ WF_vars(UpdateMetrics)

FairSpec == Spec /\ Fairness

-----------------------------------------------------------------------------
Steps == {"new", "issue", "slack", "post", "links", "comment", "close",
          "done", "lost"}

TypeOK ==
    /\ pc \in [Sources \cup Resolvers -> Steps]
    /\ jira \in [Sources -> {"none", "open", "done"}]
    /\ closing \subseteq Sources
    /\ posted \subseteq Requests
    /\ incidents \subseteq Sources
    /\ status \in [Sources -> {"none", "open", "resolved", "gone"}]
    /\ ticketed \subseteq Sources
    /\ augmented \subseteq Reports
    /\ target \in [Resolvers -> Sources \cup {NoIncident}]
    /\ active \in BOOLEAN
    /\ count \in Nat
    /\ rate \in 0..PoorRate
    /\ opened \in Nat /\ resolved \in Nat
    /\ counted \subseteq Resolvers /\ overtaken \subseteq Resolvers
    /\ missed \subseteq Sources

(***************************************************************************)
(* Pull requests resolve an incident once, however many are announced for  *)
(* its ticket and whatever runs at the awaits between: what find returns   *)
(* is resolved before anything else runs (index.js:192-206).               *)
(***************************************************************************)
HooksResolveOnce ==
    \A g, h \in Hooks :
        target[g] = target[h] /\ target[g] # NoIncident => g = h

(***************************************************************************)
(* The improvement shown is earned: Augment is active when a resolution    *)
(* has been counted since the last reset; two are counted for one incident *)
(* only if one of them was asked for by hand; and one whose incident is    *)
(* not in the map was under way when a reset cleared it                    *)
(* (dora-metrics-generator.js:211-248, incident-manager.js:102-105).       *)
(***************************************************************************)
ImprovementEarned ==
    /\ active <=> counted # {}
    /\ count = Cardinality(counted)
    /\ \A r \in counted :
          /\ target[r] \in incidents \/ r \in overtaken
          /\ \A q \in counted :
                target[q] = target[r] => q = r \/ {q, r} \cap Puts # {}

(***************************************************************************)
(* A ticket is closed only after its incident was resolved, and one that   *)
(* stays open when the resolution is over was not known to the incident    *)
(* when it was to be closed, or Jira failed (updateJiraTicket,             *)
(* incident-manager.js:321-369); a failed comment leaves nothing open.     *)
(***************************************************************************)
TicketFollowsIncident ==
    \A x \in Sources :
        /\ jira[x] = "done" => status[x] \in {"resolved", "gone"}
        /\ status[x] = "resolved" /\ jira[x] = "open" =>
              x \in missed \/ \E r \in Resolvers : target[r] = x /\ Resolving(r)

(***************************************************************************)
(* The failure rate is never the poor one while Augment is active, and     *)
(* without Augment it is better only while a resolution is under way, to   *)
(* make it active (updateMetrics, onIncidentResolved and                   *)
(* simulateIncidentImpact write the same gauge).                           *)
(***************************************************************************)
GaugeTellsImprovement ==
    /\ active => rate < PoorRate
    /\ ~active /\ rate < PoorRate => UnderWay # {}

(***************************************************************************)
(* The counters agree with the incidents since the process started,        *)
(* whatever Jira answers: an incident counts as open once createIncident   *)
(* is over, and as resolved each time its resolution begins, so that more  *)
(* may be resolved than were open (incident-manager.js:56-63 and 85-93).   *)
(***************************************************************************)
Live(x) == status[x] \in {"open", "resolved"}

CountersMatch ==
    /\ opened = Cardinality({x \in Sources : Live(x) /\ ~Creating(x)})
    /\ resolved = Cardinality({r \in Resolvers :
                                 target[r] # NoIncident /\ Live(target[r])})

(***************************************************************************)
(* What is resolved is shown: for an incident that is resolved the gauge   *)
(* comes to a rate generated with Augment active, whatever becomes of its  *)
(* ticket and of the notification, unless the incident is cleared before   *)
(* (resolveIncident, incident-manager.js:69-108).                          *)
(***************************************************************************)
ResolutionsShow ==
    \A x \in Sources :
        x \in incidents /\ status[x] = "resolved" ~>
            (active /\ rate \in ImprovedRates) \/ x \notin incidents

(***************************************************************************)
(* All of this, seen from outside, is a behaviour of IncidentBook: an      *)
(* incident is cleared when it has left the map, a resolution is due while *)
(* its handler runs, and the rate is better when it is below the poor one. *)
(***************************************************************************)
Recorded(x) == IF x \in incidents \/ status[x] = "none" THEN status[x] ELSE "cleared"

Book == INSTANCE IncidentBook
            WITH ticket <- jira,
                 incident <- [x \in Sources |-> Recorded(x)],
                 resolves <- target,
                 due <- UnderWay,
                 shown <- counted,
                 better <- rate < PoorRate

BookSpec == Book!Spec

(***************************************************************************)
(* "Increase change failure rate temporarily"                              *)
(* (src/src/dora-metrics/src/dora-metrics-generator.js:261): the impact of *)
(* an incident does not lower the rate.                                    *)
(***************************************************************************)
ImpactRaisesRate ==
    [][\A r \in Resolvers :
          pc[r] = "new" /\ pc'[r] = "slack" => rate' >= rate]_vars
=============================================================================
