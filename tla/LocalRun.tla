-------------------------------- MODULE LocalRun --------------------------------
(***************************************************************************)
(* Runs that an operator starts from the command line, beside the          *)
(* scheduler: without a claim, without locks and, until the run is         *)
(* created, without a lease.  Any task can be run, with the fake agent.    *)
(***************************************************************************)
EXTENDS ControlPlane

CONSTANTS
    Invocation,     \* executions of the command (a history bound)
    RiskClass       \* classes that add_task may be given

VARIABLES
    local,          \* control state of each invocation
    risk            \* tasks.risk_class, which nothing changes

localVars == <<local, risk>>

LocalState == {"idle", "routed", "leased", "planning", "authorized", "working",
               "exited", "checking", "checked", "closing", "done", "dead"}
LocalRow == [at: LocalState, task: Task \cup {None}, run: Run \cup {None}]
NotInvoked == [at |-> "idle", task |-> None, run |-> None]

\* What no step of an invocation touches.
elsewhere == <<clock, leaderVars, controlVars, graphVars, planned, claims, locks,
               requested, workerVars, risk>>

ASSUME LocalAssumption ==
    /\ None \notin Invocation
    /\ RiskClass \subseteq 0..4 /\ RiskClass # {}

Moves(o, at, next) ==
    /\ local[o].at = at
    /\ local' = [local EXCEPT ![o].at = next]

\* The route is decided once, before the first transition.
RouteLocally(o, t) ==
    /\ local[o].at = "idle"
    /\ task[t] \in {"ready", "draft"}
    /\ NewWorkAllowed
    /\ DependenciesComplete(t)
    /\ local' = [local EXCEPT ![o] = [at |-> "routed", task |-> t, run |-> None]]
    /\ UNCHANGED <<elsewhere, task, version, runs, leases, verifier>>

\* Fault: the task is taken whatever its status has become.
LeaseUnchecked(o) ==
    /\ Moves(o, "routed", "leased")
    /\ task' = [task EXCEPT ![local[o].task] = "leased"]
    /\ version' = [version EXCEPT ![local[o].task] = @ + 1]
    /\ UNCHANGED <<elsewhere, runs, leases, verifier>>

\* The status is compared again, the version that was routed is not.
LeaseLocally(o) ==
    /\ Moves(o, "routed", "leased")
    /\ Transition(local[o].task, "ready", "leased")
    /\ UNCHANGED <<elsewhere, runs, leases, verifier>>

\* A worktree of the task that is left from before is an error.
LocalWorktreeFailed(o) ==
    /\ Moves(o, "leased", "dead")
    /\ Transition(local[o].task, "leased", "failed")
    /\ UNCHANGED <<elsewhere, runs, leases, verifier>>

LocalWorktreeReady(o) ==
    /\ Moves(o, "leased", "planning")
    /\ Transition(local[o].task, "leased", "planning")
    /\ UNCHANGED <<elsewhere, runs, leases, verifier>>

\* The policy lets the two lowest risk classes run, holds the next two for an
\* approval, and denies the rest.
Authorized(o) ==
    /\ Moves(o, "planning", "authorized")
    /\ risk[local[o].task] \in 0..1
    /\ Transition(local[o].task, "planning", "running")
    /\ UNCHANGED <<elsewhere, runs, leases, verifier>>

NotAuthorized(o) ==
    LET t == local[o].task IN
    /\ Moves(o, "planning", "dead")
    /\ risk[t] \notin 0..1
    /\ Transition(t, "planning", IF risk[t] \in 2..3 THEN "awaiting_approval"
                                                     ELSE "blocked")
    /\ UNCHANGED <<elsewhere, runs, leases, verifier>>

\* The run and its lease are inserted; the status of the task is not read.
CreateRun(o, r) ==
    /\ local[o].at = "authorized"
    /\ runs[r].status = "unused"
    /\ WithinHorizon(clock + LeaseTtl)
    /\ runs' = [runs EXCEPT ![r] = [status |-> "running", task |-> local[o].task]]
    /\ leases' = [leases EXCEPT ![r] = [held |-> TRUE, expires |-> clock + LeaseTtl]]
    /\ local' = [local EXCEPT ![o].at = "working", ![o].run = r]
    /\ UNCHANGED <<elsewhere, task, version, verifier>>

\* From here on an invocation does what the worker of a fake claim does.
LocalAgentExited(o) ==
    /\ Moves(o, "working", "exited")
    /\ Transition(local[o].task, "running", "verifying")
    /\ UNCHANGED <<elsewhere, runs, leases, verifier>>

CreateLocalVerifier(o) ==
    LET r == local[o].run IN
    /\ Moves(o, "exited", "checking")
    /\ runs[r].status = "running"
    /\ verifier' = [verifier EXCEPT ![r] = "running"]
    /\ UNCHANGED <<elsewhere, task, version, runs, leases>>

FinishLocalVerifier(o, passed) ==
    LET r == local[o].run IN
    /\ Moves(o, "checking", "checked")
    /\ verifier[r] = "running"
    /\ verifier' = [verifier EXCEPT ![r] = IF passed THEN "passed" ELSE "failed"]
    /\ UNCHANGED <<elsewhere, task, version, runs, leases>>

CloseLocalVerification(o) ==
    /\ Moves(o, "checked", "closing")
    /\ Transition(local[o].task, "verifying", VerifiedStatus(local[o].run))
    /\ UNCHANGED <<elsewhere, runs, leases, verifier>>

FinishLocalRun(o) ==
    LET r == local[o].run IN
    /\ Moves(o, "closing", "done")
    /\ runs' = [runs EXCEPT ![r].status = VerifiedStatus(r)]
    /\ leases' = [leases EXCEPT ![r] = NoLease]
    /\ UNCHANGED <<elsewhere, task, version, verifier>>

\* A call is refused or the command is interrupted.
LocalDies(o) ==
    /\ local[o].at \notin {"idle", "done", "dead"}
    /\ local' = [local EXCEPT ![o].at = "dead"]
    /\ UNCHANGED <<elsewhere, task, version, runs, leases, verifier>>

\* From the lease on; routing is where the other gates are added.
LocalNext ==
    \/ \E o \in Invocation : LeaseLocally(o)
    \/ \E o \in Invocation : LocalWorktreeFailed(o)
    \/ \E o \in Invocation : LocalWorktreeReady(o)
    \/ \E o \in Invocation : Authorized(o)
    \/ \E o \in Invocation : NotAuthorized(o)
    \/ \E o \in Invocation, r \in Run : CreateRun(o, r)
    \/ \E o \in Invocation : LocalAgentExited(o)
    \/ \E o \in Invocation : CreateLocalVerifier(o)
    \/ \E o \in Invocation, passed \in BOOLEAN : FinishLocalVerifier(o, passed)
    \/ \E o \in Invocation : CloseLocalVerification(o)
    \/ \E o \in Invocation : FinishLocalRun(o)
    \/ \E o \in Invocation : LocalDies(o)

=============================================================================
