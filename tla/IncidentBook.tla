---------------------------- MODULE IncidentBook ----------------------------
(***************************************************************************)
(* What dora-metrics and support promise of incidents, to the customer who *)
(* reads the ticket, to those who deliver a pull request or resolve by     *)
(* hand, and to whoever looks at the dashboard: an incident is opened      *)
(* once, its ticket is closed only when it is over, an announcement        *)
(* resolves only what is open, every resolution that began counts at most  *)
(* once, and what counts is shown until everything is cleared together.    *)
(* Nothing is said of handlers, of what they await, or of what Jira, Slack *)
(* and the process may do to them on the way: module Incidents has that,   *)
(* and implements this.                                                    *)
(***************************************************************************)
EXTENDS Integers

CONSTANTS Sources, Hooks, Puts, NoIncident

Resolvers == Hooks \cup Puts

VARIABLES ticket,   \* [Sources -> {"none", "open", "done"}]
          incident, \* [Sources -> {"none", "open", "resolved", "cleared"}]
          resolves, \* [Resolvers -> Sources \cup {NoIncident}]
          due,      \* resolutions that began and are still to be shown
          shown,    \* resolutions the improvement that is shown counts
          better    \* whether the rate on the dashboard is an improved one

vars == <<ticket, incident, resolves, due, shown, better>>

Init ==
    /\ ticket = [x \in Sources |-> "none"]
    /\ incident = [x \in Sources |-> "none"]
    /\ resolves = [r \in Resolvers |-> NoIncident]
    /\ due = {} /\ shown = {}
    /\ better = FALSE

File(x) ==
    /\ ticket[x] = "none"
    /\ ticket' = [ticket EXCEPT ![x] = "open"]
    /\ UNCHANGED <<incident, resolves, due, shown, better>>

Open(x) ==
    /\ incident[x] = "none"
    /\ incident' = [incident EXCEPT ![x] = "open"]
    /\ UNCHANGED <<ticket, resolves, due, shown, better>>

\* By hand what is resolved can be resolved again.
Resolve(r, x) ==
    /\ resolves[r] = NoIncident
    /\ incident[x] = "open" \/ (r \in Puts /\ incident[x] = "resolved")
    /\ incident' = [incident EXCEPT ![x] = "resolved"]
    /\ resolves' = [resolves EXCEPT ![r] = x]
    /\ due' = due \cup {r}
    /\ better' = TRUE
    /\ UNCHANGED <<ticket, shown>>

\* Jira closes the ticket of an incident that a resolution has begun on, at
\* any time from then on.
Close(r) ==
    /\ resolves[r] # NoIncident
    /\ ticket[resolves[r]] = "open"
    /\ incident[resolves[r]] \in {"resolved", "cleared"}
    /\ ticket' = [ticket EXCEPT ![resolves[r]] = "done"]
    /\ UNCHANGED <<incident, resolves, due, shown, better>>

\* What is due counts, whether or not the ticket is closed by then.
Show(r) ==
    /\ r \in due
    /\ incident[resolves[r]] \in {"resolved", "cleared"}
    /\ due' = due \ {r}
    /\ shown' = shown \cup {r}
    /\ better' = TRUE
    /\ UNCHANGED <<ticket, incident, resolves>>

\* What is due is still shown after a reset, and lost in a restart.
Clear ==
    /\ incident' = [x \in Sources |->
                       IF incident[x] = "none" THEN "none" ELSE "cleared"]
    /\ due' \in {due, {}}
    /\ shown' = {}
    /\ better' = FALSE
    /\ UNCHANGED <<ticket, resolves>>

\* The dashboard is updated by the schedule.
Update ==
    /\ better' = (shown # {})
    /\ UNCHANGED <<ticket, incident, resolves, due, shown>>

Next ==
    \/ \E x \in Sources : File(x) \/ Open(x)
    \/ \E r \in Resolvers, x \in Sources : Resolve(r, x)
    \/ \E r \in Resolvers : Close(r) \/ Show(r)
    \/ Clear
    \/ Update

Spec == Init /\ [][Next]_vars
=============================================================================
