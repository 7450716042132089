# Verification of the harness-garnish control plane

TLA+ models of the program in `src/`, TLC configurations that check them on
small instances, and theorems about them that the TLA+ proof system checks for
every instance. Paths are relative to the repository root: the crate is
`src/src/*.rs`, its documents `src/docs/*.md`; line numbers without a path are
of the file named beside them.

harness-garnish schedules coding tasks to agents (Codex, a fake adapter, remote
API models). One SQLite database holds everything that matters. Any number of
processes act on it: scheduler daemons, the workers they run, operator commands
of the CLI and the web interface. Each method of `Database` is one transaction;
nothing else is atomic, and a process may be killed between any two of them.

## 1. Inventory

### Components

| Component | State | Operations | Code | Modelled by |
|---|---|---|---|---|
| Task lifecycle | `tasks.status`, `tasks.version` | the transition table, compare-and-swap transitions | `domain.rs` 109-170, `db.rs` `transition_task_tx` | `TaskStatus`, `Store` |
| Scheduler leadership | `scheduler_instances`, the one row of `scheduler_leader` | register, acquire, heartbeat, stop | `db.rs` 912-1093, 5075 | `Scheduler` |
| Claims and locks | `scheduler_claims`, `resource_locks` | claim, heartbeat, expire, release | `db.rs` 1218-1690, 5096, 5353 | `Scheduler`, `LockService` |
| Operator control | `control_state` | pause, resume, emergency stop, route pin | `db.rs` 89-278, 1856 | `Scheduler`, `Deciding` |
| Runs and verification | `runs`, `run_leases`, the verifier run | start, exit, verify, finish | `db.rs` 1516, 4018-4214, `service.rs` 2860-3656 | `Runs` |
| Supervision | `run_supervision` | checkpoint, cancellation, process outcome | `db.rs` 4363-4683, `service.rs` 1215 | `Runs` |
| Recovery | all of the above | expired claims, leases and reservations | `db.rs` 1683, 4861 | `Scheduler`, `Runs`, `ApiBudget`, `Quota` |
| Local run | as runs, without claim or lock | `run_task` | `service.rs` 2771 | `LocalRun`, `Dispatch` |
| Quota | `quota_surfaces`, overrides, reservations | observe, refresh, override, reserve, renew, release | `db.rs` 2063-2374, 5142-5295, `quota.rs` | `Quota` |
| Retries and circuit breaker | `task_retry_state`, `adapter_circuits`, `scheduler_wakes` | report, plan, probe, wake | `db.rs` 4216-4339, 4685-4804, 6540, `service.rs` 1308-1430 | `Dispatch` |
| Routing, calendars, policy | what a decision reads; decisions | list, select, claim; next eligible day | `routing.rs`, `schedule.rs`, `policy.rs`, `service.rs` 1443-1809, 2149-2748 | `Calendar`, `Routing`, `Deciding` |
| API budgets and dispatch | budget and price revisions, reservations, attempts, spend | configure, reserve, dispatch, retry, settle, release, expire | `db.rs` 2585-3840, 6123-6405, `service.rs` 700-902 | `ApiBudget` |
| API providers | the exchange in progress | send, classify, read a body or a stream, price | `api_providers.rs`, `service.rs` 774-850 | `ResponseStream`, `ApiExchange` |
| Processes | one process group, its pipes | spawn, feed, watch, stop, reap, join | `process.rs` | `ProcessTree` |
| Projections | `TASKS.md` and its digest | list, compare, write, rename, sign | `projections.rs` | `Projection` |
| Task graph | `task_dependencies` | add a dependency, accept a review | `db.rs` 1908-1990, 6627 | `TaskGraph` |
| Approvals, notifications | approvals, notifications | request, decide, consume | `db.rs` 5033 | not modelled (5) |
| Event log, evidence | event chain, evidence files | append, verify | `db.rs`, `evidence.rs` | not modelled (5) |
| Adapters, git | none of their own | argv, parse, worktrees | `adapters.rs`, `git.rs` | as outcomes only |
| CLI, web interface | none | call the service | `main.rs`, `web_ui.rs` | as the callers of every action |
| Migrations, secrets, transports | files | SQL text, I/O | `db.rs`, `secrets.rs`, `notifications.rs` | not modelled (5) |

### How they interact

A daemon (`run_scheduler_daemon_with`) acquires leadership and loops: renew the
leadership and its own claims, recover expired claims and leases, list the ready
tasks, look at every target of each, select one, claim, run each claim to its end
in the same thread, sleep until the next wake; the first call that is refused
ends it. All of it is done with the timestamp taken at the start of the tick, so
a call may compare expiries with a time older than its commit. Every one of those
calls is also a CLI command, with any identity and generation the operator types.

A claim moves its task from `ready` to `leased`, takes an exclusive lock on the
project and on the lowest free numbered slot of the adapter and of the account,
and reserves quota (a subscription) or money (an API). `begin_claimed_run`
consumes the claim and puts a lease on the new run; from then on the locks and
the reservations belong to whatever ends that run. The end of a run is spread over
five transactions (`running` to `verifying`, create the verifier, finish the
verifier, move the task to `review` or `failed`, finish the run); a supervised
process adds two, one for the circuit of its target and one for the retry. An
operator may instead run a task directly: `run_task` takes neither claim nor lock.

### What is hard

* **Interleaving.** Leadership moves while its old owner still believes it
  leads; recovery runs beside a process that is slow and still alive; two
  checkpoints of one run (worker and operator) overlap; edits of the dependency
  graph race with claims; a local run races with the claim, the retry and the
  recovery of the same task; a supervisor, the thread that drains the output, the
  child and its descendants run at once.
* **Atomicity.** Some calls read outside the transaction that uses what they
  read (`add_dependency`, a checkpoint's evaluation, `WorktreeFailed`); a
  decision is made in three steps; a file is compared, written and renamed.
* **Crash.** A process may die between any two of the transactions of a run,
  between the transactions around a paid request, when nobody knows whether it
  was sent, between the transactions of a report, and between two file calls.
* **Money and quota.** Admission compares sums over reservations, attempts and
  spend, or what is left of a surface, while all of them change; a reservation
  ends by expiry, release or settlement, and a claim, a run or a recovery must end
  the one bound to it.
* **Untrusted answers.** A provider, a gateway or the network may lose, cut,
  repeat or garble an answer that has been paid for.
* **Time.** Claims, leases, leadership, evidence and backoffs expire; timestamps
  are stale; clocks are set ahead and back.
* **Limits.** Numbered slots, a global ceiling, one task per project, pipes that
  are full, output past the limit, 64-bit counters.

The list with its lines is `hazards` in `PROJECT.json`.

## 2. The model

### Modules

| Module | Role |
|---|---|
| `TaskStatus` | statuses and the transition table |
| `Store` | CONSTANTS with their assumptions, VARIABLES (the shared rows), row types, the expiry and release helpers, `Init`, `Tick` |
| `Scheduler` | leadership, claims, operator control: one action per database call |
| `Runs` | a worker from its claim to the end of its run, supervision, recovery of leases |
| `TaskGraph` | dependency edits, review acceptance |
| `ControlPlane` | the composition (`Next`, `Spec`, `FairSpec`) and its properties |
| `ApiBudget` | paid requests on top of `ControlPlane`: calls that also change a reservation are the conjunction of their action there and their part here |
| `Quota` | subscription quota on top of `ControlPlane`, in the same way, with the observations it is measured against |
| `LocalRun` | `run_task` beside `ControlPlane` |
| `Dispatch` | retries, circuits and wakes on top of `LocalRun` |
| `Calendar` | work days over time zones, as operators |
| `Routing` | what a decision reads, the gates of a target in their order, the selection |
| `Deciding` | the three steps of a decision, and everybody who changes what it reads |
| `ResponseStream` | how bodies and streams are read, event by event, as operators |
| `ApiExchange` | one conversation with a provider: send, fail, retry, read, price |
| `ProcessTree` | one external process under supervision, call by call |
| `Projection` | several processes that write one task list, call by call |
| `LockService` | abstract: clients that take sets of keys, once, and give them up |
| `Documented` | a statement of a document that the code does not keep |
| `MC...` | topologies, rates, calendars, event sets and symmetry for TLC, one per state machine |
| `ControlPlaneProofs` | minimal and largest members, sums over finite sets; type correctness, emergency stop, fencing, exclusion, starts, dependencies can be ordered; locks follow claims, capacity, refinement of `LockService`, who goes on holding across each step, work in flight, leases that end in turn |
| `ApiBudgetProofs` | paid work refines the control plane, linear journals, one request in flight, retention, reservations have holders, ceilings are kept |
| `QuotaProofs` | work with quota refines the control plane, reservations follow holders, fit and last as long as the work, headroom was reported |
| `DispatchProofs` | one process executes a task, every retry is paid and waits, wakes are first chances |
| `DecidingProofs` | types, paid work stays exact, decisions hold when they are made, the best candidate wins, days off end on time |
| `ApiExchangeProofs` | the parser follows the stream, answers are whole, requests are carried out once, costs are covered |
| `ProcessTreeProofs` | output, verdict and signals of a supervised process |
| `ProjectionProofs` | task lists are whole, follow the database and leave edits alone |

`Scheduler` and `TaskGraph` extend `Store`, `Runs` extends `Scheduler`,
`ControlPlane` extends `Runs` and `TaskGraph`; `ApiBudget`, `Quota` and `LocalRun`
each extend `ControlPlane`, and `Dispatch` extends `LocalRun`. `Routing` extends
`Calendar`, `Deciding` extends `Routing`, `ApiExchange` extends `ResponseStream`;
these, `ProcessTree` and `Projection` are state machines of their own: what they
share with the control plane is the guard of `RouteTask` (a decision that
allowed), the outcome an exchange leaves in the journal of `ApiBudget`, and the
exit a supervisor reports through `RecordProcessOutcome`.

Operators whose comment begins with "Fault:" are plausible wrong versions of the
definition that follows; nothing uses them, except that each property is shown to
fail when one of them takes the place of the right one (`mutants` in
`PROJECT.json`). `QuotaTypeOK`, `DispatchTypeOK`, `RoutingTypeOK`, `ExchangeTypeOK`,
`ApiTypeOK`, `TreeTypeOK` and `ListTypeOK` state the types of their modules for the
reader; they are proved, as `TypeOK` is.

### State and code

| Variable | Code |
|---|---|
| `clock` | `Utc::now()` |
| `registered`, `leader` | `scheduler_instances.status = 'active'`, the row of `scheduler_leader` |
| `pauseNewWork`, `emergencyStop` | `control_state` |
| `task`, `version` | `tasks.status`, `tasks.version` |
| `dependsOn`, `edit` | `task_dependencies`; the status `add_dependency` has read and not yet used |
| `planned` | the ready task and version the tick of an instance holds in memory |
| `claims`, `locks` | `scheduler_claims`, unreleased rows of `resource_locks` |
| `runs`, `leases`, `verifier` | implementer runs, `run_leases`, the status of the verifier child run |
| `requested` | `run_supervision.requested_action`, and "completed" once the outcome is recorded |
| `worker` | the program counter of the process that executes a claim; "dead" after a kill or a refused call |
| `verdict` | a checkpoint's decision, computed and not yet applied |
| `latest`, `price` | the newest rows of `api_budgets` and `api_model_prices` |
| `reservation` | `api_budget_reservations`; the row of a claim has the claim's identity |
| `journal` | `api_dispatch_attempts` of each reservation, in order |
| `spend` | `api_spend` |
| `sender` | where a process stands in `execute_reserved_api_request`, with the time, price and attempt it holds |
| `surface`, `overrides`, `quota` | `quota_surfaces`, `quota_overrides` of each in order of creation, `quota_reservations` of each claim and surface |
| `local`, `risk` | where an invocation of `run_task` stands; `tasks.risk_class` |
| `retry`, `circuit`, `wake` | `task_retry_state`, `adapter_circuits`, the wake last recorded in `scheduler_wakes` |
| `report` | what a process has yet to report of an outcome it has recorded, in memory |
| `stopped`, `paused`, `projectPaused`, `pattern`, `exceptions`, `pin`, `plan`, ... of `Routing` | the columns a decision reads, each as far as it does |
| `listed`, `decision`, `claimed` | the tick's first look, `route_decisions`, the target a claim was made for |
| `body`, `parser`, `result`, `journal`, `carriedOut` of `ApiExchange` | events received, what the parser holds of them, the answer, the attempts recorded, and what the provider really did |
| `life`, `holds`, `inbox`, `pipe`, `reader`, `at`, `signals`, ... of `ProcessTree` | the processes of the group, who has the pipe open, both pipes, the two threads of the supervisor, the signals sent |
| `disk`, `name`, `digest`, `proc` of `Projection` | files, the names that refer to them, the sidecar, where each process stands in `refresh` |

An action has the name of the method it models and is one transaction or one
system call. Its guard is the conjunction of the method's checks; a method that
fails a check rolls back and is simply not enabled. What the caller does next is
the business of `WorkerDies` (a worker whose call is refused stops, and so does
one that is killed) and of actions such as `OperatorCheckpointRefused`,
`AbandonEdit`, `BeginRefused`, `SettlementRefused`, `ClaimRefused`.

Decisions that deserve a reader's attention:

* **Stale time.** A call uses any `now` in `Observed`: not in the future and at
  most `MaxLag` old. The daemon's timestamp is as old as its tick. The CLI
  option `run checkpoint --at` accepts any time; the model bounds its lag too.
* **No trust in identities.** Leadership, heartbeat, stop and claim may be called
  for any instance with any generation. A start uses the identity in the claim
  it was given, as `begin_claimed_run` does.
* **Several workers.** Nothing says who may execute a claim; the model has one
  process per claim, and claims of one task follow each other, so a slow process
  of an expired claim runs beside the process of the next one.
* **Whole transactions.** `ClaimTask` expires overdue claims first, in the same
  step, and both are lost when the claim is refused, as in the code.
* **Starting is consuming.** `begin_claimed_run` adds two to the version
  (leased, planning, running) in one transaction; the intermediate `planning` is
  never visible.
* **Ended rows.** The expiry of a claim or lease that has ended is reset, since
  no call reads it again. The owner and generation columns of a lease are left
  out: callers present what they have just read from the row itself.
* **Route evaluation** in `ControlPlane` is a free choice of a ready task
  (`RouteTask`): what an evaluation reads only reduces what is chosen.
  `ApiBudget`, `Quota` and `Dispatch` add what is left of the budget, the quota,
  the backoff and the circuit; `Deciding` models the evaluation itself. A
  checkpoint's evaluation is a free choice between continue and pause, unless a
  request is pending.
* **Adapters.** A fake or API run goes through `AgentExited`; an API run may fail
  through `ApiRunFailed`; only a Codex run has checkpoints and
  `RecordProcessOutcome`. With `ApiBudget` an API run ends by what became of its
  request: `ApiAgentExited` needs a settled answer, `ApiExecutionFailed` a
  refusal, a failure or an answer of no use.
* **One execution, one time.** `execute_reserved_api_request` uses the timestamp
  its caller began with for every attempt and for the settlement; `sender` keeps
  it, and so does the worker from the start of its run. An expiry that passes
  meanwhile does not stop the execution.
* **Prices.** A price record matters to an execution only when it takes effect
  before that execution's timestamp; those are the ones `ConfigureApiModelPrice`
  adds, at any moment.
* **One account.** The reservations of `ApiBudget` are those of one project,
  provider and account with one allowed model and role and distinct request
  digests. Tokens stand for input and output tokens together.
* **Collector output** is a set of records, one per account, with the lanes it
  prints; the text and its JSON are not told apart.
* **Jitter** is a constant function of task and retry: it is drawn from a digest.
* **Events of a stream** are records; the fields of an event take the few values
  the parser distinguishes, and an event that is not valid JSON or lacks a type
  is "garbage". A text is the sequence of its pieces.
* **Requests carried out.** `carriedOut` counts what the provider did, which the
  program cannot see. Replies with a status that is retried are assumed to mean
  that it did nothing; a lost connection may mean either.
* **Processes** fork, write, handle signals, close the pipe and end as they like;
  the child is reaped by the supervisor alone. The graces and deadlines are
  alarms that may go off at any moment (`raised`).
* **Open files** are inodes: a process that has opened the temporary file goes on
  writing it when another has renamed it.

### Bounds

| Bound | Meaning | Why it is enough |
|---|---|---|
| `Claim`, `Run` | rows that may be created | two claims of one task are an old and a new holder; three contend for two pools; three runs are two retries |
| `MaxClock` | nothing is granted whose expiry reaches it | two or three expiries in a row: claim, lease and leadership each expire and are granted again |
| `MaxLag` | age of a timestamp | one tick, as long as any of the time-to-live values it is compared with; 0 where reservations or retries are added, which `Fencing` and `Supervision` make up for as far as claims and leases go |
| `MaxGeneration` | takeovers | two generations are an old and a new leader |
| `MaxVersion` | versions an operator's pin may reach | one edit between reading and claiming |
| `Direct`, `Caller` | direct reservations, processes that execute them | one competes with the claim's; two processes may execute the same one |
| `Revision`, `Rate` | budget and price revisions | an old and a new one of each; the budgets bind in money, tokens, requests and concurrency |
| `Wanted`, `MaxUsage` | what callers ask for and providers report | with one retry and without; usage up to one more than was reserved |
| `Run = {r1}`, `ClaimTtl = LeaseTtl = 2`, `MaxClock = 4` of `Reserving` | one run beside a claim that waits | the claim and the lease are each renewed once, before and after which they may expire; the shares of both tasks fit beside each other on the weekly surface only with the override |
| `Invocation`, `RetryLimit` of `Retrying` | local runs, limits an operator sets | one local run beside two claims and one retry; the limit is raised and lowered while a retry is planned |
| `MaxChanges`, `Setup` of `Deciding` | changes by others while a task is decided, what was set up before | one change after each look; from nothing, from a full set of evidence, pinned or planned |
| `DayLength`, `LocalOf` | minutes of a day, readings of a clock | four-minute days with a gap over one midnight and an hour shown twice over the next; a search of three days crosses both |
| `Member`, `Output`, `PipeSize`, `Input` of `Stopping` | processes, units written | a child and two descendants, one deaf to TERM and one without the pipe, so that each may be the last; output one past its limit of 2; input one past what the pipe holds |
| `MaxEvents`, `Index`, `MaxCount` of `Answering` | events of a body, blocks, counters | nine events are a whole message with a text and a tool block, one block two pieces long; the counters reach the largest value that is accepted |
| `MaxVersion`, `MaxTouches`, `MaxCrashes` of `Projecting` | changes, edits and removals, deaths | three processes with a change each; an edit, and a removal after it; one death between any two calls |

The horizon `MaxClock` also stands for renewals that cease: a lease that is
renewed for ever never expires, and no code promises that it ends.

## 3. What is checked

### Passing runs

| Run | Instance | Properties | What it shows |
|---|---|---|---|
| `Contention` | 3 tasks, 2 projects, pools of 1 and 2 slots, 3 claims, 2 runs | `TypeOK`, `LocksMatchHolders`, `LocksExclusive`, `ImplementsLockService` | locks follow claims through expiry, start, verification, recovery and death; a slot has one holder; the locks implement `LockService` |
| `Fencing` | 2 instances, 1 task, 2 claims, emergency stop, lag 1 | `LeasedMeansClaimed`, `StopMeansNoClaims`, `GenerationHasOneOwner`, `StaleLeaderNeverStarts` | takeovers, stops and re-registrations never let a superseded leader start work, and lose no task |
| `Supervision` | 1 Codex task, checkpoints by worker and operator, every command, lag 1 | `InFlightIsRecoverable`, `WaitingHoldsNothing`, `LeaseEndsByOwnerOrExpiry` | work in flight is always under exactly one lease; a task that waits has none; nobody takes a live lease away |
| `Recovery` | 2 tasks, 1 project, edits in both directions, fairness | `DependenciesOrdered`, `ClaimsResolve`, `InFlightResolves` | racing edits make no cycle; whatever dies, claims and work in flight end |
| `Spending` | 1 API task and its claim, 1 direct reservation, 2 callers, 2 budgets, 2 prices, emergency stop | `NeverOvercommitted`, `JournalIsLinear`, `HeldReservationsHaveHolders`, `DispatchedIsRetained` | each budget holds what it admitted, whatever retries, expires, settles or dies; no attempt is sent again without a recorded retryable failure; ended claims and runs give back what was not sent, and nothing gives back what was |
| `Reserving` | 2 Codex tasks of one account with 2 surfaces, 2 claims, 1 run, refreshes, manual values, overrides, emergency stop | `ReservationsFollowHolders`, `WorkIsReserved`, `NeverOverReserved`, `NoInventedHeadroom` | a claim reserves no more than is known to be left, quota follows the claim to its run and lasts as long as either, and a refresh never leaves headroom nobody reported |
| `Retrying` | 1 Codex task, 2 claims, 3 runs, 1 local run, a circuit that opens at once | `EachRetryIsPaid`, `OneExecutor`, `BackoffRespected`, `WakeIsFirstChance` | every run but the first is paid from the retry budget, none starts within its backoff, nobody executes the task beside another, and a recorded wake is the first chance |
| `Deciding` | 1 task, 4 targets, 2 surfaces, a calendar with both changes of the clocks, 2 changes by others | `NextEligibleIsFirst`, `PaidWorkIsExact`, `DecidedOnWhatHolds`, `BestCandidateWins` | only exactly pinned paid work is claimed, nothing is allowed that has closed meanwhile, and the best candidate wins |
| `Stopping` | a child with two descendants | `OutputIsWhole`, `VerdictIsTrue`, `NoSignalAfterReap`, `SupervisionEnds` | the verdict and the output are true, no signal goes to a reaped group, and supervision ends unless the input is unread or a process outlives the child |
| `Answering` | 2 requests, either provider, streams of up to 9 events, every reply | `AnswerIsWhole`, `CarriedOutOnce`, `CostIsCovered` | only a whole answer is read as one, no request is carried out twice, and no answer within the reserved tokens costs more than was reserved |
| `Projecting` | 3 processes, 3 changes, 2 touches by a person, 1 death | `EditStands`, `NeverTorn`, `ListFollows` | an edit that stands is not overwritten, one process alone never leaves half a list, and undisturbed the list follows the database |

Together the passing runs take every action of the modules they run. Symmetry is
used for claims, runs, processes and, in `Fencing`, instances, never in
`Recovery` and `Stopping`, which have liveness properties. In `Reserving` the two
tasks are exchanged together with their projects.

Deadlock is checked where the system never stops. Three runs switch the check
off: a supervisor returns (`Stopping`), an exchange ends (`Answering`), and
commands and people may stop (`Projecting`). Elsewhere the check says little,
since an instance may register at any time; what must go on is stated by the
liveness properties.

### Fairness

`ControlPlane!FairSpec` assumes weak fairness of three actions: time passes, and
`RecoverSchedulerClaims` and `RecoverExpiredLeases` are called with the current
time. A daemon makes both calls when it starts and in every iteration of its loop
(`run_scheduler_daemon_with`, `service.rs` 2009-2033), after it acquired or renewed
its leadership; when it cannot, it exits and whoever leads makes them. So what is
assumed is that some daemon is started again and again and polls: the code offers
the calls, and keeping a daemon alive is the operator's part. No fairness is
assumed of workers, of claims or of operators: every one of them may stop for ever.

`ProcessTree!FairSpec` assumes that the two threads of the supervisor run, one
weak fairness condition each, and that its deadline and its grace pass. Nothing is
assumed of the child and its descendants: they need not read, write or end, and
those deaf to TERM never obey it.

### The run that ends with a counterexample

`LocksLeak` checks `HoldersLetGo`: ceilings are released during recovery
(`docs/phase-2-plan.md` 73). A process that dies after its task reached `review`
or `failed`, and before `finish_run`, leaves its lease and its locks; recovery
looks only at tasks in flight, so they are held for ever. It is checked under
`FairSpec`.

### Disagreements met while modelling

What the models showed of the code besides `LocksLeak`. Where a document, a
message or a test says otherwise, it is named; the rest is behaviour a reader of
the code may not expect. The first six were found as counterexamples of TLC.

The control plane:

* A worker whose claim has expired reports a failed worktree and fails the task
  under the next claim: `transition_task_tx` compares the status, not a version
  the caller expected (`service.rs` 3236 and 2897; `docs/architecture.md` 130).
* The ceiling counts claims; a claim that has become a run is not counted
  (`db.rs` 1249; `docs/phase-2-plan.md` 44).
* A second checkpoint takes the pending pause for a cancellation, and the task is
  cancelled for good (`service.rs` 1255; `docs/phase-2-plan.md` 16).
* A checkpoint evaluated before a cancellation is requested and applied after it
  replaces the request by a pause (`db.rs` 4450; `README.md` 142).
* The status of a task is read before the transaction that adds a dependency, and
  not again (`db.rs` 1909; the message at 1915).
* A process that fails by itself after its cancellation was requested is tried
  again: only its own failure decides (`service.rs` 1372; `README.md` 142).
* Recovery moves `verifying` to `paused`, which the transition table does not list
  (`db.rs` 4889; `docs/data-model.md` 258). `complete_review` promotes a task
  without looking at a lease that its earlier run may still hold. `finish_run`
  overwrites the status of a run that recovery orphaned.
* The daemon executes a claim in the thread that renews it, so that nothing is
  renewed meanwhile, nor during a verification; the first claim that fails ends
  the daemon.
* A crash of `run_task` between its lease and `create_run` strands the task, which
  no recovery looks for; a local run that was routed before a failure may lease the
  task within the backoff planned for it.

Quota, retries and decisions:

* A second run may start unpaid when a dependency is added to a task that has run:
  recovery pauses the task, `add_dependency` leaves a task it has seen paused as it
  is, and the acceptance of that dependency's review promotes it to `ready` without
  the retry `schedule_retry` would have charged (`db.rs` 1908-1990). TLC found it on
  an instance with edits; `EachRetryIsPaid` is run and proved without them.
* `TaskReadiness` takes the only probe of an open circuit although it claims
  nothing, and a worker that dies takes one along: the circuit stays half open
  (`service.rs` 1413-1430; `docs/phase-2-plan.md` 69, `README.md` 263).
* The claim looks at the version of a task alone: a circuit, a pause of a project,
  a calendar or evidence that closes after the routing does not stop it.
* A checkpoint with an older timestamp renews the lease of a run while its quota
  row stays expired. An older snapshot of the collector overwrites a newer one. A
  primary lane that carries another window leaves the expected one unrefreshed.
* The wake for a lack of quota is the latest reset over all surfaces, those with
  room among them, so the task may oversleep (`docs/phase-2-plan.md` 17).
* The selection compares the smallest remainder of a target's surfaces with the
  largest of their reserves. `unknown_quota_unattended` opens the first look, and
  the selection denies the same target. A denial by stale evidence records no wake.
* Nothing that routes, claims or runs consults an approval, and nothing continues
  a task that awaits one (`docs/data-model.md` 253).
* The next eligible day may start in the past when clocks are set back over a
  midnight they have passed: the earlier of two starts is taken (`schedule.rs`
  117; `DaysFollow` excludes it from `WakesAreFirst`). A local date that is
  skipped altogether is an error; `CalendarAssumption` excludes the latter.

Paid requests:

* An attempt left started or uncertain can be neither retried nor settled
  (`docs/data-model.md` 186 promises a later settlement). The same is true of a paid
  attempt whose price was replaced before its settlement, or that used more than was
  reserved. What was reserved stays reserved.
* The latest budget is compared once, before the attempts: a budget disabled
  meanwhile does not stop the next one.
* An empty delta of a text or of a tool's input is refused, and with it the answer.
  A gateway's error page, or a reply without a request id, makes a retryable
  failure uncertain. A block that follows `message_delta` is accepted.

Processes and files:

* Descendants that handle TERM survive a cancellation when the child ends within
  the grace, since only the child is looked at (`docs/phase-2-plan.md` 47).
* `process.rs` 98-100 writes all the input before the child is watched: a child
  that does not read blocks the supervisor for ever, and one that closed its input
  is left unwaited. The join at 153 has no deadline.
* An edit between the comparison of a task list and its rename is lost. A crash
  between the rename and the digest leaves a conflict for ever. Two writers share
  the temporary file, so that half a list may be named, and the slower one may
  write an older list last. A list without a digest is overwritten unchecked. A
  command that has committed fails when its projection meets a conflict. The
  import of `docs/architecture.md` 198 does not exist.

## 4. What is proved

The proofs about `Spec` are for any sets of instances and projects, any pools, any
finite sets of tasks, claims and runs, any topology and any bounds, under the named
assumptions of `Store` and `TaskGraph`: identities differ from `None`, and claims and
runs are finite (`IdentityAssumption`); the topology has its types and every pool has
at least one slot, as the daemon demands (`TopologyAssumption`); bounds are natural
numbers and the time-to-live values positive (`BoundAssumption`); the dependencies
tasks are registered with have no cycle (`RegistrationAssumption`).

Each layer adds its own. `ApiAssumption`: the identities of direct reservations and
callers are neither claims nor `None`, and budgets, requests and prices have their
types; nothing is assumed of the ceilings, the prices or their number.
`QuotaAssumption`: the types of surfaces, forecasts, printed records and expected
lanes. `LocalAssumption` and `DispatchAssumption`: the types of targets, failures and
limits, and a jitter between 80 and 120 percent for each of the twenty retries a
limit may allow. `ProcessTree`: a finite group with its child (`GroupAssumption`),
any input, pipe and output limit (`SizeAssumption`), a `None` that is no verdict.
`Projection`: any processes, changes and pieces (`BoundAssumption`), and a `None` that
is neither a file nor a content. `StreamAssumption` and `ExchangeAssumption`:
finitely many block indices, limits that are numbers, at least one request, statuses
that refuse, and events and values with the fields their types carry; nothing is
assumed of how a provider orders, cuts, repeats or mixes them. `CalendarAssumption`,
`RoutingAssumption` and `DecidingAssumption`: any zone in which every date occurs, the
types of targets, surfaces and set-ups, and that other processes write no half-open
circuit. Three theorems have a hypothesis of their own, without which the property is
false (see the disagreements): `RetriesArePaid`, that no dependency is added after
registration (`Edit = {}`); `WorkStaysReserved`, that calls use the time of their
transaction (`MaxLag = 0`); `WakesAreFirst`, that the days of the zone follow each
other and begin once (`DaysFollow`, `DaysBeginOnce`, which `MCDeciding` evaluates for
the zone it checks).

| Theorem | States |
|---|---|
| `TypeCorrect` | `Spec => []TypeOK` |
| `StopIsFinal` | `Spec => []StopMeansNoClaims` |
| `TasksCanBeOrdered` | `Spec => []DependenciesOrdered` |
| `GenerationsAreFenced` | `Spec => []GenerationHasOneOwner` |
| `LocksAreExclusive` | `Spec => []LocksExclusive` |
| `StartsAreFenced` | `Spec => StaleLeaderNeverStarts` |
| `LocksFollowClaims` | `Spec => []LocksMatchHolders` |
| `CapacityIsRespected` | `Spec => []CapacityRespected` |
| `LocksRefineService` | `Spec => ImplementsLockService` |
| `LeasedTasksAreClaimed` | `Spec => []LeasedMeansClaimed` |
| `FlightIsRecoverable` | `Spec => []InFlightIsRecoverable` |
| `WaitingTasksHoldNothing` | `Spec => []WaitingHoldsNothing` |
| `LeasesEndInTurn` | `Spec => LeaseEndsByOwnerOrExpiry` |
| `PaidWorkIsControlled` | `ApiSpec => ImplementsControlPlane`, that is `ApiSpec => Spec` |
| `ApiTypesCorrect` | `ApiSpec => []ApiTypeOK` |
| `JournalsAreLinear` | `ApiSpec => []JournalIsLinear` |
| `OneIsInFlight` | `ApiSpec => []OneRequestInFlight` |
| `DispatchedStaysReserved` | `ApiSpec => DispatchedIsRetained` |
| `ReservationsHaveHolders` | `ApiSpec => []HeldReservationsHaveHolders` |
| `CeilingsAreKept` | `ApiSpec => []NeverOvercommitted` |
| `QuotaWorkIsControlled` | `QuotaSpec => Spec` |
| `QuotaFollowsHolders` | `QuotaSpec => []ReservationsFollowHolders` |
| `QuotaTypesCorrect` | `QuotaSpec => []QuotaTypeOK` |
| `HeadroomIsObserved` | `QuotaSpec => NoInventedHeadroom` |
| `ReservedFits` | `QuotaSpec => []NeverOverReserved` |
| `ClaimsStayReserved` | `QuotaSpec => []ClaimsCovered`: the claims' half of `WorkIsReserved`, for any lag |
| `WorkStaysReserved` | `MaxLag = 0 /\ QuotaSpec => []WorkIsReserved` |
| `DispatchTypesCorrect` | `DispatchSpec => []DispatchTypeOK` |
| `OneProcessExecutes` | `DispatchSpec => []OneExecutor` |
| `RetriesArePaid` | `Edit = {} /\ DispatchSpec => []EachRetryIsPaid` |
| `RetriesWait` | `DispatchSpec => BackoffRespected` |
| `WakesAreFirstChances` | `DispatchSpec => WakeIsFirstChance` |
| `TreeTypesCorrect` | `ProcessTree!Spec => []TreeTypeOK` |
| `OutputReturned` | `ProcessTree!Spec => []OutputIsWhole` |
| `VerdictsAreTrue` | `ProcessTree!Spec => []VerdictIsTrue` |
| `ReapedGroupsAreLeft` | `ProcessTree!Spec => NoSignalAfterReap` |
| `ListTypesCorrect` | `Projection!Spec => []ListTypeOK` |
| `EditsAreKept` | `Projection!Spec => []EditStands` |
| `ListsAreWhole` | `Projection!Spec => []NeverTorn` |
| `ListsFollow` | `Projection!Spec => []ListFollows` |
| `ExchangeTypesCorrect` | `ApiExchange!Spec => []ExchangeTypeOK` |
| `AnswersAreWhole` | `ApiExchange!Spec => []AnswerIsWhole` |
| `RequestsAreCarriedOutOnce` | `ApiExchange!Spec => []CarriedOutOnce` |
| `CostsAreCovered` | `ApiExchange!Spec => []CostIsCovered` |
| `PaidWorkStaysExact` | `RoutingSpec => PaidWorkIsExact` |
| `DecisionsHold` | `RoutingSpec => DecidedOnWhatHolds` |
| `TheBestWin` | `RoutingSpec => BestCandidateWins` |
| `WakesAreFirst` | `DaysFollow /\ DaysBeginOnce /\ RoutingSpec => []NextEligibleIsFirst` |
| `RoutingTypesCorrect` | `RoutingSpec => []RoutingTypeOK` |

`CapacityRespected` and `OneRequestInFlight` are proved and not kept as invariants
of a run.

The arguments:

* *Claims change in three ways.* `ClaimsKept` shows once, over all actions, that
  a step is a claim, a start, or leaves every claim as it is or ends an active
  one. `LeaderKept`, `EmergencyFlag` and `LocksKept` say the same of the leader
  row, the flag and the locks. The rest uses these lemmas, not the actions.
* *Fencing.* `GenerationHasOneOwner` is not inductive: it must be known that a
  row without owner has generation 0 and that an unused claim has generation 0.
  `FenceInv` adds both. The generation grows exactly when another instance takes
  the row over, so a claim is of an older generation or of the leader itself.
* *Starts.* A step that consumes a claim is `BeginClaimedRun` by `ClaimsKept`;
  its guard compares with the leader row; `FenceInv` bounds every other claim's
  generation by that row's, and `StopMeansNoClaims` excludes an emergency stop.
* *Locks.* `LocksMatchHolders` ties locks to claims and, once a claim is
  consumed, to the lease of its run. It is inductive only with the links between
  them (`LockInv`): a claim has a run exactly when it is consumed, two claims
  never share one, an unused run has no lease, and only the process of a consumed
  claim gets as far as ending a run. Without the last, ending a run named `None`
  would release the locks of every active claim. `StepForms` sorts all steps into
  five forms; `KeysChange` reduces these to two effects, losing keys and gaining
  them, from which the invariant and the refinement both follow.
* *Capacity* is a counting argument: holders of a pool have, by
  `LocksMatchHolders`, a slot below its limit and, by `LocksExclusive`, not the
  same one, so they inject into its slots.
* *Paid work.* Every step of `ApiNext` contains a step of `Next` or leaves `vars`
  alone (`PaidWorkIsControlled`), so every theorem about `Spec` holds of
  `ApiSpec`; the same holds of `QuotaNext`. `ApiForms` sorts the steps of `ApiNext`
  into four: a quiet one, which leaves the journal alone, and those that begin, fail
  or settle one attempt.
* *Dispatch.* `JournalIsLinear` and `OneRequestInFlight` are inductive only
  together (`DispatchInv`): an outcome is recorded for the attempt a process
  began, and only if that is still the last one is the journal linear; a second
  process can begin only after a retryable failure, and only while the journal is
  linear does that mean that the first has had its answer. `SendersBound` adds
  that whoever is about to send holds a reservation, and whoever sends has begun.
* *Holders.* Both layers of reservations have the same argument, made once in
  `ControlPlaneProofs`: `HoldsOn(gone)` says that every claim outside `gone` that holds
  goes on holding, and one lemma per call (`HeartbeatHolds`, `BeginHolds`,
  `FinishHolds`, `OutcomeHolds`, `RecoveryHolds`, ...) shows it for the claims that
  call releases. What is left of each layer is that its part of the call releases at
  least those. For money this needs `HeldInv`, which adds that only claims of API
  tasks have reservations: a process without an answer ends its run and releases
  nothing. For quota, `QuotaInv` adds the types and links of the rows.
* *Processes.* `SignalInv` says what each verdict and each signal implies of the
  processes, and that after the child is reaped the supervisor only leaves; `OutputInv` that what is kept,
  what is in the pipe and what was dropped add up to what was written, and that the
  reader is done only when nobody holds the pipe; `OutcomeInv` that the returned
  record is what the two threads had found.

* *Work in flight.* The properties about leases need each other (`FlightInv`): a run
  may start because its task is `leased` and therefore holds nothing; recovery may
  pause a task because the lease it found is the only one of that task; a process
  that closes its run after the task left the flight (`ClosingIsSettled`) ends no
  lease the task still needs. One lemma per form of a step (`MoveKeeps`,
  `ReleaseKeeps`, `ClaimKeeps...`, `BeginKeeps...`, `FinishKeeps`, `OutcomeKeeps`,
  `RecoveryKeeps`) carries all of them.
* *Dependencies.* `Acyclic` says that each set of tasks has a member without
  dependency in the set; a ranking exists because a smallest set without one would
  have such a member, which can be ranked below the rest (`Ranked`).
* *Sums* over finite sets are folds; that they exist, grow and shrink with a member
  is derived from minimal counterexamples among the subsets (`Minimal`),
  since the library's induction theorems cannot be instantiated.
* *Ceilings.* A revision's commitments are sums of what was settled and of what is
  reserved, in money, tokens and requests, and the number of live reservations. Each call changes one row
  (`TotalChanged`), or only lowers rows; a reservation compares the sums in the
  transaction that adds its row, and a settlement moves no more than was reserved.
  For quota, only `ClaimWithQuota` makes a row live (`Fresh`), and it measures what
  is left of each surface it reserves.
* *Quota lasts.* `CoverInv` says that a row of each claim ends exactly when the claim
  does, and then exactly when the lease of its run does. A claim and a renewal first
  expire what is due, of every account, and `RowsNotDue` shows that this spares the
  rows of whoever is not due. For leases it must be known that a checkpoint found the
  lease, and so its row, still valid by the clock: that is where `MaxLag = 0` is used.
* *Retries.* `Tokens(t)` are the rights to execute a task: its active claim, its
  leased run, the invocation that has taken it. `DispatchInv` says that there is at
  most one, none while the task may be taken or a retry is pending, and which row
  belongs to which process. Each step either carries the tokens (`Carries`), promises
  a waiting task (`Promises`) or turns a token into a run (`Starts`). From this follow
  `OneExecutor`, and with the count of runs `EachRetryIsPaid`: while a task is still
  owed a run, it has had fewer runs than its budget paid for.
* *Backoffs and wakes.* A plan in memory that still matches the task's version was
  made after the backoff of the last retry, because a new retry moves the version
  (`PlansDue`); the claim compares exactly the version. A wake is the latest of the
  times at which a gate that refused opens, so before it one of them is closed.
* *Lists.* `EditInv` says that whoever may still overwrite an edit has seen it or has
  yet to look; `SoleInv` that a process alone owns the temporary file, which is
  another inode than the list; `CourseInv` where each stage of a refresh stands
  between the promised version and the one it lists. A fresh inode exists since
  the used ones are fewer (`FreshExists`).

* *Exchanges.* `ExchangeInv` says what each field of the parser proves about the
  events that came: `Followed` that a block has begun once, that everything told of it
  lies between its begin and its end, and that its pieces are those events in their
  order; `OpenAiFollowed` that what is kept is the value of the last event that ends an
  answer. One lemma per event (`StreamIsFollowed` combines them) extends this by the
  event that is received. `Complete` then turns it into `WholeStream`. The answer lists
  blocks by rank: ranks in a finite set of indices leave no gap (`NthIn`), so a block
  is in its place, however the indices were chosen. That no request is carried out
  twice follows once it is known that nothing was carried out while one is being
  prepared or sent (`CarriedOutLate`).
* *Costs* are products, summed and divided with rounding up. The dearest category of
  input is at least each of the three that are used, products and sums grow with their
  parts, and so does the quotient (`CostIsCovered` needs nothing of the state but what
  was read: its usage is sane).
* *Decisions.* `ListedKept` is what a tick may still rely on while others act: as long
  as the version is the one it listed, the pin is the one it looked at (every change of
  a pin moves the version), and paid targets passed only with that pin. The claim
  compares just the version, and this gives `PaidWorkIsExact`. Every step of somebody
  else is of one form (`Aside`), one of the tick either decides nothing, refuses, or
  decides the winner of `Selected` after all gates were seen open in the same step.
  Margins lie between 0 and 100, so the candidates have a largest (`GreatestOf`), and
  targets are numbered, so equals have a first (`LeastOf`).
* *Wakes of the calendar.* A day's start has a reading of that day, since the search
  for it is shorter than a day (`StartIsOfTheDay`); so the least matching day's start
  lies after now, and an earlier instant is of an earlier day (`FirstEligible`).

Left to TLC: liveness and ENABLED (the proof system has no rules for fairness). Every
other property of the passing runs is a theorem.

## 5. What is not modelled

* Approvals and notifications: each call on an approval is one compare-and-set of
  a single row, and nothing that routes, claims or runs reads one.
* The event log and evidence: events are appended inside the transactions of their
  callers and read by nobody; evidence files are written once.
* Tasks are registered before the behaviour starts (`add_task` is in `Init`):
  `ready` when they have no dependency, `draft` otherwise.
* The choice and the digest of a request plan in `ApiBudget` (a claim asks for any
  of `Wanted`; `Deciding` has the plan of a version), models, roles, token
  categories and the prices of each; 64-bit overflow checks of reservations, which
  refuse and change nothing. The counters of an answer keep their limit.
* The verifier's route and the plain-text policy file of `routing.rs` and
  `policy.rs`. Building and rendering API requests.
* The second pipe of a process, drained the same way, and processes that leave the
  group (`setsid`), which no signal reaches.
* Delivery of a worktree's patch, several git calls in a row, and patches cut at
  10 MiB; git succeeds or fails.
* Migrations (`user_version` is read outside its transaction), backup, secrets,
  transports, argv, output parsing of agents, SQL text, rendering.

## 6. Plan

What a next step would take, most useful first:

1. An abstract account whose committed amount never exceeds its limit, refined by
   the budget of one revision.
2. `Dispatch` with two schedulers and stale timestamps; `Reserving` with a lag.
3. `Deciding` composed with `Dispatch`: the decision and the claim as steps of one
   scheduler that also recovers.
