-------------------------------- MODULE Runs --------------------------------
(***************************************************************************)
(* The execution of claimed tasks: the process that takes a claim through  *)
(* its run and its verification, one database call at a time, and what     *)
(* operators and recovery do to runs meanwhile.  A process whose call is   *)
(* refused, or that is killed between two calls, is dead (WorkerDies).     *)
(***************************************************************************)
EXTENDS Scheduler

unexecuted == <<clock, leaderVars, controlVars, planned>>

\* Worker c is at control point "at" and moves to "next".
Goes(c, at, next) ==
    /\ worker[c] = at
    /\ worker' = [worker EXCEPT ![c] = next]

\* Fault: the locks are given back, the lease is not.
ReleaseLocksOnly(ended) ==
    /\ UNCHANGED leases
    /\ locks' = LocksWithout({c \in Claim : claims[c].run \in ended})

\* What ending the run releases: its lease and the locks of its claim.
ReleaseRuns(ended) ==
    /\ leases' = [r \in Run |-> IF r \in ended THEN NoLease ELSE leases[r]]
    /\ locks' = LocksWithout({c \in Claim : claims[c].run \in ended})

-----------------------------------------------------------------------------
(* From the claim to the run. *)

\* The daemon picks up a claim its tick created: it reads the task and
\* prepares a worktree, outside any transaction.
PrepareClaim(c) ==
    /\ claims[c].status # "unused"
    /\ Goes(c, "idle", "preparing")
    /\ task[claims[c].task] = "leased"
    /\ UNCHANGED <<unexecuted, graphVars, task, version, claims, locks, runVars,
                   verdict>>

\* The worktree cannot be created: the task fails, the claim stays as it is.
WorktreeFailed(c) ==
    /\ Goes(c, "preparing", "dead")
    /\ AdapterOf[claims[c].task] # "codex"
    /\ Transition(claims[c].task, "leased", "failed")
    /\ UNCHANGED <<unexecuted, graphVars, claims, locks, runVars, verdict>>

\* Fault: an expired claim that nobody recovered yet is accepted.
StartableUntilRecovered(c, now) ==
    /\ LeaderIs(claims[c].owner, claims[c].generation, now)
    /\ claims[c].status = "active"
    /\ task[claims[c].task] = "leased"

\* What the start of a run demands of its claim.
Startable(c, now) ==
    /\ LeaderIs(claims[c].owner, claims[c].generation, now)
    /\ claims[c].status = "active"
    /\ claims[c].expires > now
    /\ task[claims[c].task] = "leased"

\* Consume the claim: one transaction starts run r and leases it.  The
\* timestamp is the one at which the daemon's tick began.
BeginClaimedRun(c, r, now) ==
    LET t == claims[c].task IN
    /\ Goes(c, "preparing", "working")
    /\ Startable(c, now)
    /\ runs[r].status = "unused"
    /\ WithinHorizon(now + LeaseTtl)
    /\ task' = [task EXCEPT ![t] = "running"]
    /\ version' = [version EXCEPT ![t] = @ + 2]
    /\ runs' = [runs EXCEPT ![r] = [status |-> "running", task |-> t]]
    /\ leases' = [leases EXCEPT ![r] = [held |-> TRUE, expires |-> now + LeaseTtl]]
    /\ claims' = [claims EXCEPT ![c] =
                    [Ended(claims[c], "consumed") EXCEPT !.run = r]]
    /\ UNCHANGED <<unexecuted, graphVars, locks, verifier, requested, verdict>>

-----------------------------------------------------------------------------
(* From the exit of the agent to the end of the run: five transactions. *)

\* A fake, Codex or API agent has finished its work.
AgentExited(c) ==
    /\ Goes(c, "working", "exited")
    /\ \A s \in Supervisor : s = "worker" => verdict[claims[c].run][s] = "none"
    /\ Transition(runs[claims[c].run].task, "running", "verifying")
    /\ UNCHANGED <<unexecuted, graphVars, claims, locks, runVars, verdict>>

CreateVerifierRun(c) ==
    LET r == claims[c].run IN
    /\ Goes(c, "exited", "checking")
    /\ runs[r].status = "running"
    /\ verifier' = [verifier EXCEPT ![r] = "running"]
    /\ UNCHANGED <<unexecuted, graphVars, task, version, claims, locks, runs,
                   leases, requested, verdict>>

FinishVerifierRun(c, passed) ==
    LET r == claims[c].run IN
    /\ Goes(c, "checking", "checked")
    /\ verifier[r] = "running"
    /\ verifier' = [verifier EXCEPT ![r] = IF passed THEN "passed" ELSE "failed"]
    /\ UNCHANGED <<unexecuted, graphVars, task, version, claims, locks, runs,
                   leases, requested, verdict>>

\* The status that a task and its run take after verification.
VerifiedStatus(r) == IF verifier[r] = "passed" THEN "review" ELSE "failed"

\* The task follows the verification the process has in hand.
CloseVerification(c) ==
    LET r == claims[c].run IN
    /\ Goes(c, "checked", "closing")
    /\ Transition(runs[r].task, "verifying", VerifiedStatus(r))
    /\ UNCHANGED <<unexecuted, graphVars, claims, locks, runVars, verdict>>

\* An API attempt fails: the task first, the run in the next call.
ApiRunFailed(c) ==
    /\ Goes(c, "working", "closing")
    /\ AdapterOf[claims[c].task] = "api"
    /\ Transition(runs[claims[c].run].task, "running", "failed")
    /\ UNCHANGED <<unexecuted, graphVars, claims, locks, runVars, verdict>>

\* The run takes the outcome of its process whatever its status has become.
FinishRun(c) ==
    LET r == claims[c].run IN
    /\ Goes(c, "closing", "done")
    /\ runs' = [runs EXCEPT ![r].status = VerifiedStatus(r)]
    /\ ReleaseRuns({r})
    /\ UNCHANGED <<unexecuted, graphVars, task, version, claims, verifier,
                   requested, verdict>>

\* The process is killed, or one of its calls is refused.
WorkerDies(c) ==
    /\ worker[c] \notin {"idle", "done", "dead"}
    /\ worker' = [worker EXCEPT ![c] = "dead"]
    /\ verdict' = [r \in Run |->
                    IF r = claims[c].run
                    THEN [s \in Supervisor |-> IF s = "worker" THEN "none"
                                                               ELSE verdict[r][s]]
                    ELSE verdict[r]]
    /\ UNCHANGED <<unexecuted, graphVars, task, version, claims, locks, runVars>>

-----------------------------------------------------------------------------
(* Supervision of a Codex process.  A checkpoint first evaluates the         *)
(* cancellation flag, the schedule, the policy and the quota, and applies    *)
(* its verdict in a later transaction.                                       *)

Evaluates(r, s) ==
    CASE s = "operator" -> TRUE
      [] s = "worker" -> \E c \in Claim : /\ claims[c].run = r
                                          /\ worker[c] = "working"
                                          /\ AdapterOf[claims[c].task] = "codex"

EvaluateCheckpoint(r, s) ==
    /\ leases[r].held
    /\ Evaluates(r, s)
    /\ verdict[r][s] = "none"
    /\ \E v \in IF requested[r] \in {"pause", "cancel"} THEN {"cancel"}
                                                        ELSE {"continue", "pause"} :
            verdict' = [verdict EXCEPT ![r][s] = v]
    /\ UNCHANGED <<unexecuted, graphVars, task, version, claims, locks, runVars,
                   worker>>

\* The owner and the generation a caller presents are those it just read from
\* the lease, which never change.
ApplyRunCheckpoint(r, s, now) ==
    /\ verdict[r][s] # "none"
    /\ leases[r].held
    /\ leases[r].expires > now
    /\ runs[r].status = "running"
    /\ task[runs[r].task] = "running"
    /\ WithinHorizon(now + LeaseTtl)
    /\ leases' = [leases EXCEPT ![r].expires = now + LeaseTtl]
    /\ requested' = IF verdict[r][s] = "continue" THEN requested
                    ELSE [requested EXCEPT ![r] = verdict[r][s]]
    /\ verdict' = [verdict EXCEPT ![r][s] = "none"]
    /\ worker' = [c \in Claim |->
                    IF s = "worker" /\ verdict[r][s] # "continue"
                       /\ claims[c].run = r /\ worker[c] = "working"
                    THEN "terminating" ELSE worker[c]]
    /\ UNCHANGED <<unexecuted, graphVars, task, version, claims, locks, runs,
                   verifier>>

\* The operator's checkpoint is refused and its verdict is lost.
OperatorCheckpointRefused(r) ==
    /\ "operator" \in Supervisor
    /\ verdict[r]["operator"] # "none"
    /\ verdict' = [verdict EXCEPT ![r]["operator"] = "none"]
    /\ UNCHANGED <<unexecuted, graphVars, task, version, claims, locks, runVars,
                   worker>>

RequestRunCancellation(r) ==
    /\ "cancel" \in Command
    /\ runs[r].status = "running"
    /\ requested[r] = "none"
    /\ requested' = [requested EXCEPT ![r] = "cancel"]
    /\ UNCHANGED <<unexecuted, graphVars, task, version, claims, locks, runs,
                   leases, verifier, workerVars>>

\* The supervised process has ended without a usable result: stopped by a
\* checkpoint, or failed by itself.
RecordProcessOutcome(c) ==
    LET r == claims[c].run
        stopped == worker[c] = "terminating"
        paused == stopped /\ requested[r] = "pause"
        outcome == IF paused THEN "paused"
                   ELSE IF stopped THEN "cancelled" ELSE "failed"
    IN  /\ \E at \in {"working", "terminating"} : Goes(c, at, "done")
        /\ AdapterOf[claims[c].task] = "codex"
        /\ \A s \in Supervisor : s = "worker" => verdict[r][s] = "none"
        /\ runs[r].status = "running"
        /\ Transition(runs[r].task, "running", outcome)
        /\ runs' = [runs EXCEPT ![r].status = outcome]
        /\ requested' = IF stopped THEN [requested EXCEPT ![r] = "completed"]
                                   ELSE requested
        /\ ReleaseRuns({r})
        /\ UNCHANGED <<unexecuted, graphVars, claims, verifier, verdict>>

-----------------------------------------------------------------------------
(* Recovery: tasks in flight under an expired lease are set to paused by a   *)
(* direct update, their runs and running verifiers are orphaned.             *)

\* Fault: a lease is lost the moment it is due.
LeasesExpiring(now) ==
    {r \in Run : /\ leases[r].held
                 /\ leases[r].expires <= now
                 /\ task[runs[r].task] \in Recoverable}

ExpiredLeases(now) ==
    {r \in Run : /\ leases[r].held
                 /\ leases[r].expires < now
                 /\ task[runs[r].task] \in Recoverable}

\* Fault: only running tasks are paused.
ExpiredLeasesOfRunning(t, now) ==
    {r \in ExpiredLeases(now) : runs[r].task = t /\ task[t] = "running"}

ExpiredLeasesOf(t, now) == {r \in ExpiredLeases(now) : runs[r].task = t}

RecoverExpiredLeases(now) ==
    LET lost == ExpiredLeases(now) IN
    /\ lost # {}
    /\ task' = [t \in Task |-> IF ExpiredLeasesOf(t, now) # {} THEN "paused"
                                                              ELSE task[t]]
    /\ version' = [t \in Task |-> version[t] + Cardinality(ExpiredLeasesOf(t, now))]
    /\ runs' = [r \in Run |-> IF r \in lost THEN [runs[r] EXCEPT !.status = "orphaned"]
                                            ELSE runs[r]]
    /\ verifier' = [r \in Run |-> IF r \in lost /\ verifier[r] = "running"
                                  THEN "orphaned" ELSE verifier[r]]
    /\ ReleaseRuns(lost)
    /\ UNCHANGED <<unexecuted, graphVars, claims, requested, workerVars>>

=============================================================================
