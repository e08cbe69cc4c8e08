------------------------------ MODULE CpuLoad ------------------------------
(***************************************************************************)
(* The CPU load of the ad service (CPULoad.java): every GetAds request     *)
(* calls getInstance and then execute with what the flag adHighCpu says,   *)
(* on a thread of its own.  The singleton is made and `running' is read    *)
(* and written without a lock; spawning and stopping workers hold the lock *)
(* of the instance's list.                                                 *)
(*                                                                         *)
(* The threads race: a step here is one read or write of a field, or one   *)
(* block under the lock, and the steps of all requests come in any order.  *)
(***************************************************************************)
EXTENDS Naturals

CONSTANTS Requests,
          Null \* no instance yet

\* A request makes at most one instance, which is named after it.
Instances == Requests

VARIABLES
    instance, \* the static field
    running,  \* [Instances -> BOOLEAN]
    workers,  \* [Instances -> Nat]: sets of THREAD_COUNT workers that run
    pc,       \* [Requests -> ...]
    using     \* [Requests -> Instances \cup {Null}]: what getInstance returned

vars == <<instance, running, workers, pc, using>>

Init ==
    /\ instance = Null
    /\ running = [i \in Instances |-> FALSE]
    /\ workers = [i \in Instances |-> 0]
    /\ pc = [r \in Requests |-> "new"]
    /\ using = [r \in Requests |-> Null]

Goto(r, from, to) == pc[r] = from /\ pc' = [pc EXCEPT ![r] = to]

-----------------------------------------------------------------------------
(***************************************************************************)
(* getInstance, lines 33-38.                                               *)
(***************************************************************************)
FindNull(r) ==
    /\ instance = Null
    /\ Goto(r, "new", "null")
    /\ UNCHANGED <<instance, running, workers, using>>

MakeInstance(r) ==
    /\ Goto(r, "null", "made")
    /\ instance' = r
    /\ UNCHANGED <<running, workers, using>>

ReturnInstance(r) ==
    /\ instance # Null
    /\ \/ Goto(r, "new", "execute") \/ Goto(r, "made", "execute")
    /\ using' = [using EXCEPT ![r] = instance]
    /\ UNCHANGED <<instance, running, workers>>

-----------------------------------------------------------------------------
(***************************************************************************)
(* execute, lines 46-57, with the flag on.                                 *)
(***************************************************************************)
FindRunning(r) ==
    /\ Goto(r, "execute", "done")
    /\ running[using[r]]
    /\ UNCHANGED <<instance, running, workers, using>>

FindNotRunning(r) ==
    /\ Goto(r, "execute", "spawn")
    /\ ~running[using[r]]
    /\ UNCHANGED <<instance, running, workers, using>>

SpawnLoadWorkers(r) ==
    /\ Goto(r, "spawn", "spawned")
    /\ workers' = [workers EXCEPT ![using[r]] = @ + 1]
    /\ UNCHANGED <<instance, running, using>>

SetRunning(r) ==
    /\ Goto(r, "spawned", "done")
    /\ running' = [running EXCEPT ![using[r]] = TRUE]
    /\ UNCHANGED <<instance, workers, using>>

-----------------------------------------------------------------------------
(***************************************************************************)
(* execute with the flag off.                                              *)
(***************************************************************************)

ClearRunning(r) ==
    /\ Goto(r, "execute", "stop")
    /\ running' = [running EXCEPT ![using[r]] = FALSE]
    /\ UNCHANGED <<instance, workers, using>>

StopWorkers(r) ==
    /\ Goto(r, "stop", "done")
    /\ workers' = [workers EXCEPT ![using[r]] = 0]
    /\ UNCHANGED <<instance, running, using>>

GetInstance(r) == FindNull(r) \/ MakeInstance(r) \/ ReturnInstance(r)

ExecuteOn(r) ==
    FindRunning(r) \/ FindNotRunning(r) \/ SpawnLoadWorkers(r) \/ SetRunning(r)

\* Seeded bug: the workers are stopped first, and then `running' is cleared.
ExecuteOffStoppingFirst(r) ==
    \/ /\ Goto(r, "execute", "stop")
       /\ workers' = [workers EXCEPT ![using[r]] = 0]
       /\ UNCHANGED <<instance, running, using>>
    \/ /\ Goto(r, "stop", "done")
       /\ running' = [running EXCEPT ![using[r]] = FALSE]
       /\ UNCHANGED <<instance, workers, using>>

ExecuteOff(r) == ClearRunning(r) \/ StopWorkers(r)

\* What the flag says is chosen with the first step of execute.
Next == \E r \in Requests : GetInstance(r) \/ ExecuteOn(r) \/ ExecuteOff(r)

Spec == Init /\ [][Next]_vars

-----------------------------------------------------------------------------
TypeOK ==
    /\ instance \in Instances \cup {Null}
    /\ running \in [Instances -> BOOLEAN]
    /\ workers \in [Instances -> Nat]
    /\ pc \in [Requests -> {"new", "null", "made", "execute", "spawn",
                            "spawned", "stop", "done"}]
    /\ using \in [Requests -> Instances \cup {Null}]

(***************************************************************************)
(* When no request is underway and an instance is not `running', none of   *)
(* its workers run, however the requests before have overlapped: a request *)
(* with the flag off ends the load of its instance, unless one with the    *)
(* flag on is yet to finish (CPULoad.java:46-86).                          *)
(***************************************************************************)
Calm == \A r \in Requests : pc[r] \in {"new", "done"}

NoWorkersWhileOff ==
    Calm => \A i \in Instances : ~running[i] => workers[i] = 0
=============================================================================
