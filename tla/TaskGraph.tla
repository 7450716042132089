------------------------------ MODULE TaskGraph ------------------------------
(***************************************************************************)
(* Dependencies between tasks: operators add them, and accepting a review  *)
(* promotes the tasks that waited for it.                                  *)
(***************************************************************************)
EXTENDS Store

ungraphed == <<clock, leaderVars, controlVars, planned, claims, locks, runVars,
               workerVars>>

\* Fault: only a dependency of a task on itself is refused.
NoSelfDependency(deps) == \A t \in Task : t \notin deps[t]

\* Every set of tasks has a member that depends on no member of the set.
Acyclic(deps) ==
    \A S \in SUBSET Task : S # {} => \E t \in S : deps[t] \cap S = {}

\* A task is registered with dependencies on tasks that exist already, in a
\* transaction that is refused when it closes a cycle.
ASSUME RegistrationAssumption == Acyclic(DependsOn)

\* Adding a dependency reads the status of the task first ...
ReadTaskToEdit(t, d) ==
    /\ edit = NoEdit
    /\ <<t, d>> \in Edit
    /\ task[t] \in {"draft", "ready", "paused"}
    /\ edit' = [task |-> t, on |-> d, seen |-> task[t]]
    /\ UNCHANGED <<ungraphed, task, version, dependsOn>>

\* ... and then inserts the row in a transaction that consults the status
\* again only when the task was seen ready, to move it to paused.
AddDependency ==
    LET t == edit.task
        added == [dependsOn EXCEPT ![t] = @ \cup {edit.on}]
    IN  /\ edit # NoEdit
        /\ edit.on \notin dependsOn[t]
        /\ Acyclic(added)
        /\ dependsOn' = added
        /\ edit' = NoEdit
        /\ IF edit.seen = "ready" THEN Transition(t, "ready", "paused")
                                  ELSE UNCHANGED <<task, version>>
        /\ UNCHANGED ungraphed

\* The edit is refused (a duplicate, a cycle, a lost compare-and-swap) or its
\* process dies.
AbandonEdit ==
    /\ edit # NoEdit
    /\ edit' = NoEdit
    /\ UNCHANGED <<ungraphed, task, version, dependsOn>>

\* Tasks whose last incomplete dependency is t.
Promoted(t) ==
    {u \in Task : /\ t \in dependsOn[u]
                  /\ task[u] \in {"draft", "paused"}
                  /\ \A d \in dependsOn[u] \ {t} : task[d] = "completed"}

CompleteReview(t) ==
    /\ task[t] = "review"
    /\ task' = [u \in Task |-> CASE u = t -> "completed"
                                 [] u \in Promoted(t) -> "ready"
                                 [] OTHER -> task[u]]
    /\ version' = [u \in Task |-> IF u \in Promoted(t) \cup {t} THEN version[u] + 1
                                                                ELSE version[u]]
    /\ UNCHANGED <<ungraphed, graphVars>>

=============================================================================
