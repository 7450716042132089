---------------------------- MODULE ControlPlane ----------------------------
(***************************************************************************)
(* The control plane: schedulers, workers, operators and recovery over one *)
(* database, and what their interleavings must preserve.                   *)
(***************************************************************************)
EXTENDS Runs, TaskGraph

SchedulerNext ==
    \/ \E i \in Instance : RegisterSchedulerInstance(i)
    \/ \E i \in Instance, now \in Observed : AcquireSchedulerLeader(i, now)
    \/ \E i \in Instance, g \in 1..MaxGeneration, now \in Observed :
            HeartbeatSchedulerLeader(i, g, now)
    \/ \E i \in Instance, now \in Observed : StopSchedulerInstance(i, now)
    \/ \E i \in Instance, t \in Task : RouteTask(i, t)
    \/ \E t \in Task : SetTaskRoutePin(t)
    \/ \E i \in Instance, g \in 1..MaxGeneration, c \in Claim, now \in Observed :
            ClaimTask(i, g, c, now)
    \/ \E i \in Instance, g \in 1..MaxGeneration, now \in Observed :
            HeartbeatSchedulerClaims(i, g, now)
    \/ \E now \in Observed : RecoverSchedulerClaims(now)
    \/ \E paused \in BOOLEAN : SetPauseNewWork(paused)
    \/ ResumeOperations
    \/ EmergencyStop

RunNext ==
    \/ \E c \in Claim : PrepareClaim(c)
    \/ \E c \in Claim : WorktreeFailed(c)
    \/ \E c \in Claim, r \in Run, now \in Observed : BeginClaimedRun(c, r, now)
    \/ \E c \in Claim : AgentExited(c)
    \/ \E c \in Claim : CreateVerifierRun(c)
    \/ \E c \in Claim, passed \in BOOLEAN : FinishVerifierRun(c, passed)
    \/ \E c \in Claim : CloseVerification(c)
    \/ \E c \in Claim : ApiRunFailed(c)
    \/ \E c \in Claim : FinishRun(c)
    \/ \E c \in Claim : WorkerDies(c)
    \/ \E r \in Run, s \in Supervisor : EvaluateCheckpoint(r, s)
    \/ \E r \in Run, s \in Supervisor, now \in Observed : ApplyRunCheckpoint(r, s, now)
    \/ \E r \in Run : OperatorCheckpointRefused(r)
    \/ \E r \in Run : RequestRunCancellation(r)
    \/ \E c \in Claim : RecordProcessOutcome(c)
    \/ \E now \in Observed : RecoverExpiredLeases(now)

GraphNext ==
    \/ \E t \in Task, d \in Task : ReadTaskToEdit(t, d)
    \/ AddDependency
    \/ AbandonEdit
    \/ \E t \in Task : CompleteReview(t)

Next == Tick \/ SchedulerNext \/ RunNext \/ GraphNext

Spec == Init /\ [][Next]_vars

\* The daemon that leads calls both recoveries in every tick with the time of
\* that tick, so while some daemon polls, expired rows are recovered.
FairSpec ==
    /\ Spec
    /\ WF_vars(Tick)
    /\ WF_vars(RecoverSchedulerClaims(clock))
    /\ WF_vars(RecoverExpiredLeases(clock))

TypeOK ==
    /\ clock \in Nat
    /\ registered \subseteq Instance
    /\ leader \in [owner: Instance \cup {None}, generation: Nat, expires: Nat]
    /\ pauseNewWork \in BOOLEAN
    /\ emergencyStop \in BOOLEAN
    /\ task \in [Task -> Status]
    /\ version \in [Task -> Nat]
    /\ dependsOn \in [Task -> SUBSET Task]
    /\ planned \in [Instance -> Plan]
    /\ edit \in EditRow
    /\ claims \in [Claim -> ClaimRow]
    /\ locks \subseteq [key: LockKey, claim: Claim]
    /\ runs \in [Run -> RunRow]
    /\ leases \in [Run -> LeaseRow]
    /\ verifier \in [Run -> VerifierStatus]
    /\ requested \in [Run -> Request]
    /\ worker \in [Claim -> WorkerState]
    /\ verdict \in [Run -> [Supervisor -> Verdict]]

-----------------------------------------------------------------------------
(* Claims and tasks. *)

\* Who holds resources: a claim not yet started, or one whose run is leased.
Holding(c) ==
    \/ claims[c].status = "active"
    \/ claims[c].status = "consumed" /\ leases[claims[c].run].held

KeysOf(c) == {l.key : l \in {m \in locks : m.claim = c}}

\* A leased task has exactly one active claim, and an active claim's task is
\* leased, or failed while its worktree was prepared: no task is lost between
\* a claim that ended and the queue, and none is promised to two workers.
LeasedMeansClaimed ==
    /\ \A t \in Task : task[t] = "leased" =>
            \E c \in Active : claims[c].task = t
    /\ \A c \in Active : /\ task[claims[c].task] \in {"leased", "failed"}
                         /\ \A d \in Active \ {c} : claims[d].task # claims[c].task

\* Locks follow their claim through its whole life: while the claim is active
\* or its run is leased it holds its project and one slot of each pool, and
\* the moment that ends it holds nothing.
LocksMatchHolders ==
    \A c \in Claim :
        IF Holding(c)
        THEN LET t == claims[c].task IN
             \E slot \in SlotChoice(t) :
                /\ \A q \in PoolsOf[t] : slot[q] < Limit[q]
                /\ KeysOf(c) = KeysFor(t, slot)
        ELSE KeysOf(c) = {}

\* No two claims hold the same project or the same slot.
LocksExclusive ==
    \A l, m \in locks : l.key = m.key => l.claim = m.claim

\* Adapters and accounts never run more work than they have slots, counting
\* claims and leased runs, and a project never runs two tasks.
CapacityRespected ==
    /\ \A q \in Pool :
        Cardinality({c \in Claim : Holding(c) /\ q \in PoolsOf[claims[c].task]})
            <= Limit[q]
    /\ \A p \in Project :
        Cardinality({c \in Claim : Holding(c) /\ ProjectOf[claims[c].task] = p}) <= 1

\* An emergency stop leaves no claim that could still start, however it
\* interleaves with claims and starts in progress.
StopMeansNoClaims == emergencyStop => Active = {}

\* A generation of the scheduler leadership belongs to one instance for ever:
\* two claims that carry it, and the leader row, name the same instance.
GenerationHasOneOwner ==
    \A c \in Claim : claims[c].status # "unused" =>
        /\ claims[c].generation <= leader.generation
        /\ claims[c].generation = leader.generation => claims[c].owner = leader.owner
        /\ \A d \in Claim : claims[d].generation = claims[c].generation =>
                claims[d].owner = claims[c].owner

-----------------------------------------------------------------------------
(* Runs and recovery. *)

LeasedRunsOf(t) == {r \in Run : leases[r].held /\ runs[r].task = t}

\* Work in flight is always under exactly one unreleased lease of a running
\* run, so that recovery can find it when its process is gone.
InFlightIsRecoverable ==
    \A t \in Task : task[t] \in {"running", "verifying"} =>
        \E r \in Run : /\ LeasedRunsOf(t) = {r}
                       /\ runs[r].status = "running"

\* A task that waits, in the queue or paused, holds no lease: nothing it used
\* before is still reserved.
WaitingHoldsNothing ==
    \A t \in Task : task[t] \in {"draft", "ready", "leased", "paused", "cancelled"} =>
        LeasedRunsOf(t) = {}

\* Tasks can be completed in some order, whatever edits race: each task can be
\* given a rank above the ranks of all it depends on.
DependenciesOrdered ==
    \E rank \in [Task -> 1..Cardinality(Task)] :
        \A t \in Task : \A d \in dependsOn[t] : rank[d] < rank[t]

-----------------------------------------------------------------------------
(* What a step may never do. *)

Started(c) == claims[c].status = "active" /\ claims'[c].status = "consumed"

\* A start consumes the newest generation's claim, before its expiry as its
\* caller saw it, and never during an emergency stop.
StaleLeaderNeverStarts ==
    [][\A c \in Claim : Started(c) =>
            /\ ~emergencyStop
            /\ \A d \in Claim : claims[d].generation <= claims[c].generation
            /\ claims[c].expires + MaxLag > clock]_vars

\* A lease is given up only by the process of its run, or by recovery after
\* it expired: operators and schedulers never take it away.
LeaseEndsByOwnerOrExpiry ==
    [][\A r \in Run : leases[r].held /\ ~leases'[r].held =>
            \/ leases[r].expires < clock
            \/ \E c \in Claim : /\ claims[c].run = r
                                /\ worker[c] # "done" /\ worker'[c] = "done"]_vars

\* The locks implement the abstract lock service.
Keys == [c \in Claim |-> KeysOf(c)]
Spent == {c \in Claim : claims[c].status # "unused" /\ ~Holding(c)}
Service == INSTANCE LockService WITH Client <- Claim, Key <- LockKey,
                                     keys <- Keys, spent <- Spent
ImplementsLockService == Service!Spec

-----------------------------------------------------------------------------
(* What must eventually happen. *)

\* Every claim ends: consumed, released, or expired by recovery, whatever
\* becomes of the process that made it.
ClaimsResolve ==
    \A c \in Claim : claims[c].status = "active" ~> claims[c].status # "active"

\* Work in flight ends, by its process or by recovery after its lease.
InFlightResolves ==
    \A t \in Task : task[t] \in {"running", "verifying"}
                        ~> task[t] \notin {"running", "verifying"}

=============================================================================
