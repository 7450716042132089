-------------------------------- MODULE Store --------------------------------
(***************************************************************************)
(* The rows of the canonical database that the scheduler and the runs      *)
(* share.  Every method of the database is one transaction, so every       *)
(* action of the modules that extend this one is one atomic step; what     *)
(* interleaves are the processes (daemons, workers, operator commands)     *)
(* between their calls.                                                    *)
(***************************************************************************)
EXTENDS Integers, FiniteSets, TaskStatus

CONSTANTS
    Instance,       \* identities of scheduler instances
    Task,           \* registered tasks
    Claim,          \* scheduler claims that may be created (a history bound)
    Run,            \* implementer runs that may be started (a history bound)
    Project,        \* registered projects
    Pool,           \* adapters and accounts with numbered capacity slots
    ProjectOf,      \* [Task -> Project]
    PoolsOf,        \* [Task -> SUBSET Pool], the selected adapter and account
    AdapterOf,      \* [Task -> Adapter], the adapter its route selects
    DependsOn,      \* [Task -> SUBSET Task], the dependencies registered first
    Edit,           \* SUBSET (Task \X Task), dependencies operators may add
    Limit,          \* [Pool -> Nat], slots of each pool
    Supervisor,     \* who evaluates checkpoints: "worker", "operator" or both
    Command,        \* operator commands that are exercised
    MaxActive,      \* global ceiling on active claims
    LeaderTtl, ClaimTtl, LeaseTtl,
    MaxLag,         \* how old the timestamp of a call may be when it commits
    MaxClock,       \* bound: no lease is granted or renewed past this time
    MaxGeneration,  \* bound on leader generations
    MaxVersion,     \* bound on task versions reached by operator edits
    None            \* absent identity

Adapter == {"fake", "codex", "api"}

ASSUME IdentityAssumption ==
    /\ None \notin Instance \cup Task \cup Claim \cup Run \cup Project \cup Pool
    /\ IsFiniteSet(Task) /\ IsFiniteSet(Claim) /\ IsFiniteSet(Run)

ASSUME TopologyAssumption ==
    /\ ProjectOf \in [Task -> Project]
    /\ PoolsOf \in [Task -> SUBSET Pool]
    /\ AdapterOf \in [Task -> Adapter]
    /\ DependsOn \in [Task -> SUBSET Task]
    /\ Edit \subseteq Task \X Task
    /\ Supervisor \subseteq {"worker", "operator"}
    /\ Command \subseteq {"pause", "resume", "emergency_stop", "cancel", "pin"}
    /\ Limit \in [Pool -> Nat \ {0}]

ASSUME BoundAssumption ==
    /\ {MaxActive, LeaderTtl, ClaimTtl, LeaseTtl} \subseteq Nat \ {0}
    /\ {MaxLag, MaxClock, MaxGeneration, MaxVersion} \subseteq Nat

VARIABLES
    clock,          \* wall-clock time
    registered,     \* scheduler_instances whose status is active
    leader,         \* the singleton row of scheduler_leader
    pauseNewWork, emergencyStop,            \* control_state
    task, version,  \* tasks: status and optimistic version
    dependsOn,      \* task_dependencies
    planned,        \* per instance: the task and version its tick last routed
    edit,           \* a dependency edit whose status check has been made
    claims,         \* scheduler_claims
    locks,          \* resource_locks with released_at IS NULL
    runs, leases,   \* implementer runs and their leases
    verifier,       \* the verifier run that is the child of a run
    requested,      \* run_supervision: the cancellation that is pending
    worker,         \* control state of the process that executes a claim
    verdict         \* checkpoint decisions computed but not yet applied

leaderVars == <<registered, leader>>
controlVars == <<pauseNewWork, emergencyStop>>
graphVars == <<dependsOn, edit>>
runVars == <<runs, leases, verifier, requested>>
workerVars == <<worker, verdict>>

vars == <<clock, registered, leader, pauseNewWork, emergencyStop, task, version,
          dependsOn, edit, planned, claims, locks, runs, leases, verifier,
          requested, worker, verdict>>

-----------------------------------------------------------------------------
(* Row types. *)

ClaimStatus == {"unused", "active", "consumed", "expired", "released"}
RunStatus == {"unused", "running", "review", "failed", "paused", "cancelled",
              "orphaned"}
VerifierStatus == {"none", "running", "passed", "failed", "orphaned"}
Request == {"none", "pause", "cancel", "completed"}
Verdict == {"none", "continue", "pause", "cancel"}

\* Control points of the process that executes a claim, from picking it up to
\* closing its run; "dead" is a process that failed or was killed.
WorkerState == {"idle", "preparing", "working", "terminating", "exited",
                "checking", "checked", "closing", "done", "dead"}

ClaimRow == [status: ClaimStatus, task: Task \cup {None},
             owner: Instance \cup {None}, generation: Nat, expires: Nat,
             run: Run \cup {None}]
RunRow == [status: RunStatus, task: Task \cup {None}]
LeaseRow == [held: BOOLEAN, expires: Nat]
Plan == [task: Task \cup {None}, version: Nat]

NoClaim == [status |-> "unused", task |-> None, owner |-> None,
            generation |-> 0, expires |-> 0, run |-> None]
NoRun == [status |-> "unused", task |-> None]
NoLease == [held |-> FALSE, expires |-> 0]
NoPlan == [task |-> None, version |-> 0]
NoEdit == [task |-> None, on |-> None, seen |-> "draft"]
EditRow == [task: Task, on: Task, seen: Status] \cup {NoEdit}

\* Resource keys: the project of the task, and numbered slots of the pools.
ProjectKey(p) == [kind |-> "project", of |-> p, slot |-> 0]
SlotKey(q, k) == [kind |-> "slot", of |-> q, slot |-> k]
LockKey == [kind: {"project", "slot"}, of: Project \cup Pool, slot: Nat]

-----------------------------------------------------------------------------
(* Timestamps.  A call compares stored expiries with a timestamp taken by    *)
(* its caller, which may be older than the moment the transaction commits:   *)
(* the daemon passes the time at which its tick began.                       *)

Observed == {now \in 0..clock : clock <= now + MaxLag}
WithinHorizon(expiry) == expiry < MaxClock

-----------------------------------------------------------------------------
(* Helpers of the claim and lock tables. *)

Active == {c \in Claim : claims[c].status = "active"}

\* Fault: only the claims of instances that stopped cleanly are recovered.
ExpiredAndStopped(now) ==
    {c \in Active : claims[c].expires <= now /\ claims[c].owner \notin registered}

ExpiredAt(now) == {c \in Active : claims[c].expires <= now}

\* The claim table after the claims in "gone" move to "status".  No call reads
\* the expiry of a claim that has ended.
Ended(row, status) == [row EXCEPT !.status = status, !.expires = 0]
ClaimsMarked(gone, status) ==
    [c \in Claim |-> IF c \in gone THEN Ended(claims[c], status) ELSE claims[c]]

\* Tasks still leased by a claim in "gone": they are handed back.
Returned(gone) ==
    {t \in Task : task[t] = "leased" /\ \E c \in gone : claims[c].task = t}

\* Fault: the status of the claim is written to its task.
TaskMarkedExpired(gone, status) ==
    [t \in Task |-> IF t \in Returned(gone) THEN "expired" ELSE task[t]]

\* Fault: the claim ends but its task is not handed back.
TaskKept(gone, status) == task

TaskAfter(gone, status) ==
    [t \in Task |-> IF t \in Returned(gone) THEN status ELSE task[t]]
VersionAfter(gone, steps) ==
    [t \in Task |-> IF t \in Returned(gone) THEN version[t] + steps
                                            ELSE version[t]]

\* Fault: capacity slots are not released with the project lock.
LocksWithoutProject(gone) ==
    {l \in locks : l.claim \in gone => l.key.kind = "slot"}

LocksWithout(gone) == {l \in locks : l.claim \notin gone}

\* The claims that run r consumed.
ClaimsOf(r) == {c \in Claim : claims[c].run = r}

\* A checked transition: compare-and-swap on the status, one version up.
Transition(t, from, to) ==
    /\ CanTransition(from, to)
    /\ task[t] = from
    /\ task' = [task EXCEPT ![t] = to]
    /\ version' = [version EXCEPT ![t] = @ + 1]

DependenciesComplete(t) == \A d \in dependsOn[t] : task[d] = "completed"

-----------------------------------------------------------------------------
(* A database just opened: tasks registered, nothing scheduled.  add_task    *)
(* leaves a task ready when its dependencies are complete, draft otherwise.  *)

Init ==
    /\ clock = 0
    /\ registered = {}
    /\ leader = [owner |-> None, generation |-> 0, expires |-> 0]
    /\ pauseNewWork = FALSE
    /\ emergencyStop = FALSE
    /\ task = [t \in Task |-> IF DependsOn[t] = {} THEN "ready" ELSE "draft"]
    /\ version = [t \in Task |-> 1]
    /\ dependsOn = DependsOn
    /\ planned = [i \in Instance |-> NoPlan]
    /\ edit = NoEdit
    /\ claims = [c \in Claim |-> NoClaim]
    /\ locks = {}
    /\ runs = [r \in Run |-> NoRun]
    /\ leases = [r \in Run |-> NoLease]
    /\ verifier = [r \in Run |-> "none"]
    /\ requested = [r \in Run |-> "none"]
    /\ worker = [c \in Claim |-> "idle"]
    /\ verdict = [r \in Run |-> [s \in Supervisor |-> "none"]]

\* Wall-clock time passes.
Tick ==
    /\ clock < MaxClock
    /\ clock' = clock + 1
    /\ UNCHANGED <<leaderVars, controlVars, graphVars, task, version, planned,
                   claims, locks, runVars, workerVars>>

=============================================================================
