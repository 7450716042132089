------------------------------ MODULE Scheduler ------------------------------
(***************************************************************************)
(* The calls that schedule work: the leader row, claims with their         *)
(* exclusive locks, and the operator's control state.  A daemon makes them *)
(* from its loop and an operator can make each of them from the command    *)
(* line, under any identity and generation, so every call is an action     *)
(* that may interleave with every other.                                   *)
(***************************************************************************)
EXTENDS Store

unscheduled == <<clock, runs, leases, verifier, workerVars, graphVars>>

-----------------------------------------------------------------------------
(* Leadership. *)

RegisterSchedulerInstance(i) ==
    /\ registered' = registered \cup {i}
    /\ UNCHANGED <<unscheduled, leader, controlVars, task, version, planned,
                   claims, locks, requested>>

\* Fault: a takeover keeps the generation.
GenerationKept(i) == IF leader.owner = None THEN 1 ELSE leader.generation

\* The generation a successful acquisition installs: an owner keeps its own,
\* even an expired one; another instance takes over an expired row.
AcquiredGeneration(i) ==
    CASE leader.owner = None -> 1
      [] leader.owner = i -> leader.generation
      [] OTHER -> leader.generation + 1

MayAcquire(i, now) == leader.owner \in {None, i} \/ leader.expires <= now

AcquireSchedulerLeader(i, now) ==
    /\ i \in registered
    /\ MayAcquire(i, now)
    /\ AcquiredGeneration(i) <= MaxGeneration
    /\ WithinHorizon(now + LeaderTtl)
    /\ leader' = [owner |-> i, generation |-> AcquiredGeneration(i),
                  expires |-> now + LeaderTtl]
    /\ UNCHANGED <<unscheduled, registered, controlVars, task, version, planned,
                   claims, locks, requested>>

\* The fence: caller i presents generation g with timestamp now.
LeaderIs(i, g, now) ==
    /\ leader.owner = i
    /\ leader.generation = g
    /\ leader.expires > now

HeartbeatSchedulerLeader(i, g, now) ==
    /\ LeaderIs(i, g, now)
    /\ WithinHorizon(now + LeaderTtl)
    /\ leader' = [leader EXCEPT !.expires = now + LeaderTtl]
    /\ UNCHANGED <<unscheduled, registered, controlVars, task, version, planned,
                   claims, locks, requested>>

\* Ending an instance expires its leadership and hands back what it claimed
\* but did not start.
StopSchedulerInstance(i, now) ==
    LET gone == {c \in Active : claims[c].owner = i} IN
    /\ i \in registered
    /\ registered' = registered \ {i}
    /\ leader' = IF leader.owner = i THEN [leader EXCEPT !.expires = now]
                                     ELSE leader
    /\ task' = TaskAfter(gone, "ready")
    /\ version' = VersionAfter(gone, 2)
    /\ claims' = ClaimsMarked(gone, "released")
    /\ locks' = LocksWithout(gone)
    /\ UNCHANGED <<unscheduled, controlVars, planned, requested>>

-----------------------------------------------------------------------------
(* Claims. *)

\* A tick lists the ready tasks with their versions and records a route
\* decision for each before it tries to claim it.
RouteTask(i, t) ==
    /\ task[t] = "ready"
    /\ planned' = [planned EXCEPT ![i] = [task |-> t, version |-> version[t]]]
    /\ UNCHANGED <<unscheduled, leaderVars, controlVars, task, version, claims,
                   locks, requested>>

\* An operator pins or unpins a route, whatever the status of the task.
SetTaskRoutePin(t) ==
    /\ "pin" \in Command
    /\ version[t] < MaxVersion
    /\ version' = [version EXCEPT ![t] = @ + 1]
    /\ UNCHANGED <<unscheduled, leaderVars, controlVars, task, planned, claims,
                   locks, requested>>

\* Slot k is the lowest slot of pool q that no lock in "held" occupies.
FreeSlots(q, held) ==
    {k \in 0..(Limit[q] - 1) : \A l \in held : l.key # SlotKey(q, k)}
LowestFree(q, k, held) ==
    /\ k \in FreeSlots(q, held)
    /\ \A j \in FreeSlots(q, held) : k <= j

SlotChoice(t) == [PoolsOf[t] -> UNION {0..Limit[q] : q \in PoolsOf[t]}]
KeysFor(t, slot) ==
    {ProjectKey(ProjectOf[t])} \cup {SlotKey(q, slot[q]) : q \in PoolsOf[t]}

\* Fault: the unique index covers the slots only.
SlotsUnlocked(t, slot, held) ==
    \A l \in held, q \in PoolsOf[t] : l.key # SlotKey(q, slot[q])

\* The unique index over unreleased locks accepts the rows of this claim.
Unlocked(t, slot, held) == \A l \in held : l.key \notin KeysFor(t, slot)

\* The ceiling counts active claims, not the runs that consumed theirs.
BelowCeiling(gone) == Cardinality(Active \ gone) < MaxActive

\* Fault: the control state is not consulted.
AlwaysAllowed == TRUE

NewWorkAllowed == ~emergencyStop /\ ~pauseNewWork

\* Claim c: i, presenting generation g, claims the task its tick routed.  A
\* rejected claim rolls the whole transaction back, the expiry included.
ClaimTask(i, g, c, now) ==
    LET t == planned[i].task
        gone == ExpiredAt(now)
        held == LocksWithout(gone)
    IN  /\ LeaderIs(i, g, now)
        /\ NewWorkAllowed
        /\ BelowCeiling(gone)
        /\ t \in Task
        /\ TaskAfter(gone, "ready")[t] = "ready"
        /\ VersionAfter(gone, 2)[t] = planned[i].version
        /\ DependenciesComplete(t)
        /\ \A d \in Active \ gone : claims[d].task # t
        /\ claims[c].status = "unused"
        /\ WithinHorizon(now + ClaimTtl)
        /\ \E slot \in SlotChoice(t) :
            /\ \A q \in PoolsOf[t] : LowestFree(q, slot[q], held)
            /\ Unlocked(t, slot, held)
            /\ locks' = held \cup {[key |-> k, claim |-> c] : k \in KeysFor(t, slot)}
        /\ task' = [TaskAfter(gone, "ready") EXCEPT ![t] = "leased"]
        /\ version' = [VersionAfter(gone, 2) EXCEPT ![t] = @ + 1]
        /\ claims' = [ClaimsMarked(gone, "expired") EXCEPT ![c] =
                        [status |-> "active", task |-> t, owner |-> i,
                         generation |-> g, expires |-> now + ClaimTtl,
                         run |-> None]]
        /\ planned' = [planned EXCEPT ![i] = NoPlan]
        /\ UNCHANGED <<unscheduled, leaderVars, controlVars, requested>>

\* Renew the unexpired claims of one generation, after expiring the others.
HeartbeatSchedulerClaims(i, g, now) ==
    LET gone == ExpiredAt(now)
        renewed == {c \in Active \ gone : claims[c].owner = i
                                          /\ claims[c].generation = g}
    IN  /\ LeaderIs(i, g, now)
        /\ WithinHorizon(now + ClaimTtl)
        /\ claims' = [c \in Claim |->
                        IF c \in renewed
                        THEN [claims[c] EXCEPT !.expires = now + ClaimTtl]
                        ELSE ClaimsMarked(gone, "expired")[c]]
        /\ task' = TaskAfter(gone, "ready")
        /\ version' = VersionAfter(gone, 2)
        /\ locks' = LocksWithout(gone)
        /\ UNCHANGED <<unscheduled, leaderVars, controlVars, planned, requested>>

RecoverSchedulerClaims(now) ==
    /\ ExpiredAt(now) # {}
    /\ claims' = ClaimsMarked(ExpiredAt(now), "expired")
    /\ task' = TaskAfter(ExpiredAt(now), "ready")
    /\ version' = VersionAfter(ExpiredAt(now), 2)
    /\ locks' = LocksWithout(ExpiredAt(now))
    /\ UNCHANGED <<unscheduled, leaderVars, controlVars, planned, requested>>

-----------------------------------------------------------------------------
(* Operator control. *)

SetPauseNewWork(paused) ==
    /\ "pause" \in Command
    /\ emergencyStop => paused
    /\ pauseNewWork' = paused
    /\ UNCHANGED <<unscheduled, leaderVars, emergencyStop, task, version,
                   planned, claims, locks, requested>>

ResumeOperations ==
    /\ "resume" \in Command
    /\ pauseNewWork' = FALSE
    /\ emergencyStop' = FALSE
    /\ UNCHANGED <<unscheduled, leaderVars, task, version, planned, claims,
                   locks, requested>>

\* The runs an emergency stop asks to cancel: those of running tasks.
Cancellable ==
    {r \in Run : /\ runs[r].status = "running"
                 /\ task[runs[r].task] = "running"
                 /\ requested[r] # "completed"}

\* Stop new work, ask running work to cancel, and release what is claimed.
EmergencyStop ==
    /\ "emergency_stop" \in Command
    /\ pauseNewWork' = TRUE
    /\ emergencyStop' = TRUE
    /\ requested' = [r \in Run |-> IF r \in Cancellable THEN "cancel"
                                                        ELSE requested[r]]
    /\ task' = TaskAfter(Active, "paused")
    /\ version' = VersionAfter(Active, 1)
    /\ claims' = ClaimsMarked(Active, "released")
    /\ locks' = LocksWithout(Active)
    /\ UNCHANGED <<unscheduled, leaderVars, planned>>

=============================================================================
