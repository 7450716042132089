-------------------------------- MODULE Dispatch --------------------------------
(***************************************************************************)
(* Failures that are tried again: the retry budget and backoff of a task,  *)
(* the circuit breaker of a route target, and the wake times the scheduler *)
(* records for what it refuses.  A supervised process reports its outcome  *)
(* in three transactions: the run, then the circuit, then the retry.       *)
(***************************************************************************)
EXTENDS LocalRun, FiniteSetsExt

CONSTANTS
    Target,         \* identities a scheduler routes to
    TargetOf,       \* [Task -> Target]
    RetryLimit,     \* limits a task may be given; the default is 3
    Threshold,      \* failures in a row that open a circuit
    Cooldown,       \* how long an open circuit refuses
    BaseDelay, MaxDelay,
    Jitter,         \* [Task -> [1..20 -> 80..120]], drawn from a digest
    Asked           \* what operators ask for: "readiness" or nothing

VARIABLES
    retry,          \* task_retry_state
    circuit,        \* adapter_circuits
    wake,           \* scheduler_wakes: the wake time last recorded for a task
    report          \* what the supervisor of a claim still has to report

retryVars == <<retry, circuit, wake, report>>
dispatchVars == <<vars, localVars, retryVars>>

RetryRow == [limit: 0..20, used: Nat, notBefore: Nat \cup {None}]
CircuitRow == [state: {"closed", "open", "half_open"}, failures: Nat,
               nextProbe: Nat \cup {None}]
Failure == {"process_failed", "cancelled"}
ReportRow == [of: {"nothing", "circuit", "retry"}, failure: Failure \cup {None},
              now: Nat]
Closed == [state |-> "closed", failures |-> 0, nextProbe |-> None]
Reported == [of |-> "nothing", failure |-> None, now |-> 0]

ASSUME DispatchAssumption ==
    /\ TargetOf \in [Task -> Target]
    /\ RetryLimit \subseteq 0..20 /\ RetryLimit # {}
    /\ {Threshold, Cooldown, BaseDelay} \subseteq Nat \ {0}
    /\ MaxDelay \in Nat /\ MaxDelay >= BaseDelay
    /\ Jitter \in [Task -> [1..20 -> 80..120]]
    /\ None \notin Failure
    /\ Asked \subseteq {"readiness"}

-----------------------------------------------------------------------------
(* Gates.  Each is either open at "now" or names the time at which it opens. *)

RetryDue(t, now) == retry[t].notBefore \in {None} \cup 0..now

\* An open circuit lets one probe through when it is due; until that reports,
\* the circuit is half open and lets nothing through.
CircuitAllows(k, now) ==
    \/ circuit[k].state = "closed"
    \/ circuit[k].state = "open" /\ circuit[k].nextProbe <= now

\* Fault: the backoff is not looked at.
CircuitOnly(t, now) == CircuitAllows(TargetOf[t], now)

GatesOpen(t, now) == RetryDue(t, now) /\ CircuitAllows(TargetOf[t], now)

\* Fault: the first gate to open decides.
EarliestWake(t, now) ==
    LET due == (IF RetryDue(t, now) THEN {} ELSE {retry[t].notBefore})
                 \cup (IF CircuitAllows(TargetOf[t], now) THEN {}
                       ELSE {circuit[TargetOf[t]].nextProbe})
    IN  IF due = {} THEN None ELSE Min(due)

NextWake(t, now) ==
    LET due == (IF RetryDue(t, now) THEN {} ELSE {retry[t].notBefore})
                 \cup (IF CircuitAllows(TargetOf[t], now) THEN {}
                       ELSE {circuit[TargetOf[t]].nextProbe})
    IN  IF due = {} THEN None ELSE Max(due)

\* A route that is allowed takes the probe of an open circuit.
ProbeTaken(k) ==
    circuit' = IF circuit[k].state = "open"
               THEN [circuit EXCEPT ![k].state = "half_open"] ELSE circuit

-----------------------------------------------------------------------------
(* The scheduler's tick, one task at a time. *)

RouteAllowed(i, t, now) ==
    /\ RouteTask(i, t)
    /\ NewWorkAllowed /\ DependenciesComplete(t)
    /\ GatesOpen(t, now)
    /\ ProbeTaken(TargetOf[t])
    /\ UNCHANGED <<localVars, retry, wake, report>>

\* The route is refused: the next attempt is recorded with the task.
RouteRefused(t, now) ==
    /\ task[t] = "ready"
    /\ ~GatesOpen(t, now)
    /\ wake' = [wake EXCEPT ![t] = NextWake(t, now)]
    /\ UNCHANGED <<vars, localVars, retry, circuit, report>>

ClaimRouted(i, g, c, now) ==
    /\ ClaimTask(i, g, c, now)
    /\ UNCHANGED <<localVars, retryVars>>

\* What makes the claim transaction roll back.
Refused(i, now) ==
    LET t == planned[i].task
        gone == ExpiredAt(now)
        held == LocksWithout(gone)
    IN  \/ leader.owner # i \/ leader.expires <= now
        \/ ~NewWorkAllowed
        \/ ~BelowCeiling(gone)
        \/ TaskAfter(gone, "ready")[t] # "ready"
        \/ VersionAfter(gone, 2)[t] # planned[i].version
        \/ ~DependenciesComplete(t)
        \/ \E l \in held : l.key = ProjectKey(ProjectOf[t])
        \/ \E q \in PoolsOf[t] : FreeSlots(q, held) = {}

\* The claim is refused: the wake that is recorded names no time.
ClaimRefused(i, now) ==
    /\ planned[i].task # None
    /\ Refused(i, now)
    /\ planned' = [planned EXCEPT ![i] = NoPlan]
    /\ wake' = [wake EXCEPT ![planned[i].task] = None]
    /\ UNCHANGED <<unscheduled, leaderVars, controlVars, task, version, claims,
                   locks, requested, localVars, retry, circuit, report>>

\* An operator asks whether a task is ready: the route is decided as the
\* scheduler would, the probe included, but nothing is claimed.
TaskReadiness(t) ==
    /\ "readiness" \in Asked
    /\ task[t] = "ready"
    /\ NewWorkAllowed /\ DependenciesComplete(t)
    /\ GatesOpen(t, clock)
    /\ ProbeTaken(TargetOf[t])
    /\ UNCHANGED <<vars, localVars, retry, wake, report>>

-----------------------------------------------------------------------------
(* The supervisor's report: three transactions with one timestamp. *)

Owes(c, what, failure) ==
    report' = [report EXCEPT ![c] = [of |-> what, failure |-> failure, now |-> clock]]

\* First the run.  A process that was stopped is cancelled whatever its run
\* became; one that failed by itself is not, even when it was to be cancelled.
ProcessReported(c) ==
    /\ RecordProcessOutcome(c)
    /\ Owes(c, "circuit",
            IF worker[c] = "terminating" THEN "cancelled" ELSE "process_failed")
    /\ UNCHANGED <<localVars, retry, circuit, wake>>

SuccessReported(c) ==
    /\ AgentExited(c)
    /\ IF AdapterOf[claims[c].task] = "codex" THEN Owes(c, "circuit", None)
                                              ELSE UNCHANGED report
    /\ UNCHANGED <<localVars, retry, circuit, wake>>

\* The circuit opens at the threshold, and again when its probe failed.
AfterFailure(row, now) ==
    IF row.state = "half_open" \/ row.failures + 1 >= Threshold
    THEN [state |-> "open", failures |-> row.failures + 1, nextProbe |-> now + Cooldown]
    ELSE [Closed EXCEPT !.failures = row.failures + 1]

\* Then the circuit: success and cancellation close it, whatever it was.
RecordAdapterOutcome(c) ==
    LET k == TargetOf[claims[c].task]
        failed == report[c].failure = "process_failed" IN
    /\ report[c].of = "circuit"
    /\ circuit' = [circuit EXCEPT ![k] = IF failed THEN AfterFailure(@, report[c].now)
                                                   ELSE Closed]
    /\ report' = [report EXCEPT ![c] = IF failed THEN [@ EXCEPT !.of = "retry"]
                                                 ELSE Reported]
    /\ UNCHANGED <<vars, localVars, retry, wake>>

\* Doubled with every retry and bounded, before and after 20 percent of jitter.
Bounded(d) == IF d > MaxDelay THEN MaxDelay ELSE d
RetryDelay(t, n) == Bounded((Bounded(BaseDelay * 2^(n - 1)) * Jitter[t][n]) \div 100)

\* Fault: the retry is scheduled but not counted.
RetriedForFree(row, t, now) ==
    [row EXCEPT !.notBefore = now + RetryDelay(t, row.used + 1)]

Retried(row, t, now) ==
    [row EXCEPT !.used = @ + 1, !.notBefore = now + RetryDelay(t, row.used + 1)]

\* Last the retry: a failed task is ready again while its budget lasts.
PlanRetry(c) ==
    LET t == claims[c].task IN
    /\ report[c].of = "retry"
    /\ task[t] = "failed"
    /\ report' = [report EXCEPT ![c] = Reported]
    /\ IF retry[t].used < retry[t].limit
       THEN /\ Transition(t, "failed", "ready")
            /\ retry' = [retry EXCEPT ![t] = Retried(@, t, report[c].now)]
       ELSE /\ retry' = [retry EXCEPT ![t].notBefore = None]
            /\ UNCHANGED <<task, version>>
    /\ UNCHANGED <<unexecuted, graphVars, claims, locks, runVars, workerVars, localVars,
                   circuit, wake>>

\* The supervisor is killed between two of its transactions, or a call is
\* refused.
ReportLost(c) ==
    /\ report[c].of # "nothing"
    /\ report' = [report EXCEPT ![c] = Reported]
    /\ UNCHANGED <<vars, localVars, retry, circuit, wake>>

\* The limit may go below what is used; nothing else changes.
SetRetryLimit(t, limit) ==
    /\ retry' = [retry EXCEPT ![t].limit = limit]
    /\ UNCHANGED <<vars, localVars, circuit, wake, report>>

-----------------------------------------------------------------------------
(* The control plane with retries and local runs. *)

DispatchInit ==
    /\ Init
    /\ local = [o \in Invocation |-> NotInvoked]
    /\ risk \in [Task -> RiskClass]
    /\ retry = [t \in Task |-> [limit |-> Max(RetryLimit), used |-> 0, notBefore |-> None]]
    /\ circuit = [k \in Target |-> Closed]
    /\ wake = [t \in Task |-> None]
    /\ report = [c \in Claim |-> Reported]

RoutingNext ==
    \/ \E i \in Instance, t \in Task, now \in Observed : RouteAllowed(i, t, now)
    \/ \E t \in Task, now \in Observed : RouteRefused(t, now)
    \/ \E i \in Instance, g \in 1..MaxGeneration, c \in Claim, now \in Observed :
            ClaimRouted(i, g, c, now)
    \/ \E i \in Instance, now \in Observed : ClaimRefused(i, now)
    \/ \E t \in Task : TaskReadiness(t)
    \/ \E t \in Task, limit \in RetryLimit : SetRetryLimit(t, limit)
    \/ \E o \in Invocation, t \in Task :
            RouteLocally(o, t) /\ RetryDue(t, clock) /\ UNCHANGED retryVars

ReportNext ==
    \/ \E c \in Claim : ProcessReported(c)
    \/ \E c \in Claim : SuccessReported(c)
    \/ \E c \in Claim : RecordAdapterOutcome(c)
    \/ \E c \in Claim : PlanRetry(c)
    \/ \E c \in Claim : ReportLost(c)

DispatchUnboundNext ==
    /\ \/ Tick
       \/ \E i \in Instance : RegisterSchedulerInstance(i)
       \/ \E i \in Instance, now \in Observed : AcquireSchedulerLeader(i, now)
       \/ \E i \in Instance, g \in 1..MaxGeneration, now \in Observed :
                HeartbeatSchedulerLeader(i, g, now)
       \/ \E i \in Instance, g \in 1..MaxGeneration, now \in Observed :
                HeartbeatSchedulerClaims(i, g, now)
       \/ \E i \in Instance, now \in Observed : StopSchedulerInstance(i, now)
       \/ \E now \in Observed : RecoverSchedulerClaims(now)
       \/ \E t \in Task : SetTaskRoutePin(t)
       \/ \E paused \in BOOLEAN : SetPauseNewWork(paused)
       \/ ResumeOperations
       \/ EmergencyStop
       \/ \E c \in Claim : PrepareClaim(c)
       \/ \E c \in Claim : WorktreeFailed(c)
       \/ \E c \in Claim, r \in Run, now \in Observed : BeginClaimedRun(c, r, now)
       \/ \E c \in Claim : report[c].of = "nothing" /\ CreateVerifierRun(c)
       \/ \E c \in Claim, passed \in BOOLEAN : FinishVerifierRun(c, passed)
       \/ \E c \in Claim : CloseVerification(c)
       \/ \E c \in Claim : FinishRun(c)
       \/ \E c \in Claim : report[c].of = "nothing" /\ WorkerDies(c)
       \/ \E r \in Run, s \in Supervisor : EvaluateCheckpoint(r, s)
       \/ \E r \in Run, s \in Supervisor, now \in Observed : ApplyRunCheckpoint(r, s, now)
       \/ \E r \in Run : RequestRunCancellation(r)
       \/ \E now \in Observed : RecoverExpiredLeases(now)
       \/ GraphNext
    /\ UNCHANGED <<localVars, retryVars>>

DispatchNext ==
    \/ RoutingNext
    \/ ReportNext
    \/ DispatchUnboundNext
    \/ LocalNext /\ UNCHANGED retryVars

DispatchSpec == DispatchInit /\ [][DispatchNext]_dispatchVars

DispatchTypeOK ==
    /\ TypeOK
    /\ local \in [Invocation -> LocalRow]
    /\ risk \in [Task -> RiskClass]
    /\ retry \in [Task -> RetryRow]
    /\ circuit \in [Target -> CircuitRow]
    /\ wake \in [Task -> Nat \cup {None}]
    /\ report \in [Claim -> ReportRow]

-----------------------------------------------------------------------------
(* What retries and local runs must preserve. *)

RunsOf(t) == {r \in Run : runs[r].task = t}

\* Every run of a task but the first was paid for from its retry budget, while
\* no dependency is added to a task that was registered (Edit = {}): no expiry,
\* recovery, refused claim, lost report or local run starts one more.
EachRetryIsPaid ==
    \A t \in Task : Cardinality(RunsOf(t)) <= 1 + retry[t].used

\* A retry never starts from a claim before its backoff is over, although the
\* claim transaction does not look at it: the task is routed again after its
\* failure was planned, and the backoff with it (service.rs:2602-2624).
BackoffRespected ==
    [][\A c \in Claim : (claims[c].status = "unused" /\ claims'[c].status = "active")
            => RetryDue(claims'[c].task, clock)]_dispatchVars

\* The wake recorded for a refused task is its first chance: the gates refuse it
\* at every moment before, and let it through at that moment, unless a probe
\* is out.
WakeIsFirstChance ==
    [][\A t \in Task :
        (wake'[t] # wake[t] /\ wake'[t] # None /\ circuit[TargetOf[t]].state # "half_open")
            => /\ GatesOpen(t, wake'[t])
               /\ \A n \in clock..(wake'[t] - 1) : ~GatesOpen(t, n)]_dispatchVars

\* One process at a time executes a task, although a local run takes no claim
\* and a claim knows nothing of local runs: retries, expiries and recoveries
\* hand a task on only after its process can no longer change it.
Executors(t) ==
    {c \in Claim : /\ claims[c].task = t /\ Holding(c)
                   /\ worker[c] \notin {"idle", "done", "dead"}}
        \cup {o \in Invocation : /\ local[o].task = t
                                 /\ local[o].at \notin {"idle", "routed", "done", "dead"}
                                 /\ local[o].run # None => leases[local[o].run].held}
OneExecutor == \A t \in Task : Cardinality(Executors(t)) <= 1

=============================================================================
