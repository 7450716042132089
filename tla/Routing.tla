-------------------------------- MODULE Routing --------------------------------
(***************************************************************************)
(* How a tick decides on the route of a task.  Operators, health probes    *)
(* and collectors, in other processes, change what it depends on between   *)
(* its reads: the first look at every target, the selection, with a second *)
(* look at the winner, and the claim are three steps.                      *)
(***************************************************************************)
EXTENDS Calendar, Sequences

CONSTANTS
    Task, Target,       \* targets are numbered in the order of their names
    Configured,         \* the targets this daemon routes to
    Surface,            \* quota surfaces, in the order of theirs
    AdapterOf,          \* [Target -> {"fake", "codex", "claude", "api"}]
    Supported,          \* targets whose provider fits their adapter
    TargetsOf,          \* [Surface -> SUBSET Target]: one account, many adapters
    ReserveOf,          \* [Surface -> 0..100], kept free on a surface
    Forecast,           \* [Target -> 1..100], what a task is expected to use
    PolicyReserve,      \* kept free wherever it is counted; 20 by default
    UnknownQuotaAllowed, BranchesAllowed,   \* policy of the data directory
    Enabled,            \* API targets the policy enables
    PeriodEnd,          \* when the period of every API budget ends
    Risk, AffinityOf,   \* [Task -> ...], fixed with the task
    Deadline,           \* [Task -> Instant \cup {None}]
    Patching,           \* tasks that ask for the patch capability of the API
    PatchRuntime,       \* whether this daemon may run them
    Pattern,            \* weekly patterns that are configured
    MaxClock, MaxChanges    \* history bounds

VARIABLES
    clock,
    stopped, paused,    \* control_state: emergency_stop, pause_new_work
    projectPaused,
    pattern, exceptions,    \* the calendar of the project
    blocked,            \* tasks with a dependency that is not completed
    pin, version,       \* the task rows
    plan,               \* task version its API request plan was made for
    notBefore,          \* task_retry_state.retry_not_before
    circuit,            \* adapter_circuits
    probe,              \* latest agent_capability_probes of an adapter
    quota,              \* quota_surfaces with their overrides
    capacity,           \* what the API budget of a target leaves, in percent
    listed,             \* the tick: what it has read of a task
    decision,           \* route_decisions: the last one of a task
    claimed,            \* the target a task was claimed for
    changes             \* number of changes from outside so far

gates == <<stopped, paused, projectPaused, pattern, exceptions, blocked, notBefore,
           capacity>>
tick == <<listed, decision, claimed>>
routingVars == <<clock, gates, pin, version, plan, circuit, probe, quota, tick, changes>>

SurfaceRow == [remaining: 0..100 \cup {None}, until: Instant \cup {None},
               reset: Instant \cup {None}, overridden: BOOLEAN]
Health == {"healthy", "missing", "unsupported", "unhealthy"}
ProbeRow == [health: Health, capable: BOOLEAN, until: Instant]
CircuitRow == [state: {"closed", "open", "half_open"}, nextProbe: Instant \cup {None}]
Stage == {"idle", "listed", "looked", "decided"}
ListedRow == [stage: Stage, at: Instant, version: Nat, pin: Target \cup {None},
              passed: SUBSET Target]
Reason ==
    {"scheduler.pending", "operations.emergency_stop", "operations.paused", "project.paused",
     "dependency.incomplete", "manual_pin.mismatch", "manual_pin.unavailable",
     "schedule.ineligible", "deadline.expired", "retry.backoff", "circuit.closed",
     "circuit.probe_claimed", "circuit.probe_available", "circuit.open",
     "capability.missing", "capability.unproved", "adapter.unhealthy",
     "policy.git_branch_denied", "policy.approval_required", "policy.denied",
     "api.provider_denied", "api.policy_disabled", "api.disabled", "api.period_inactive",
     "api.budget_exhausted", "api.request_plan_stale", "api.patch_mode",
     "codex.provider_denied", "explicit_selection_required", "quota.unavailable",
     "quota.stale", "quota.unknown", "quota.insufficient", "route.no_candidate",
     "route.allowed"}
DecisionRow == [allowed: BOOLEAN, target: Target \cup {None}, at: Instant,
                reason: Reason, wake: Instant \cup {None}]

ASSUME RoutingAssumption ==
    /\ Target \subseteq Nat /\ Surface \subseteq Nat /\ Target # {} /\ None \notin Target
    /\ Configured \subseteq Target /\ Configured # {}
    /\ AdapterOf \in [Target -> {"fake", "codex", "claude", "api"}]
    /\ Supported \subseteq Target /\ Enabled \subseteq Target
    /\ TargetsOf \in [Surface -> SUBSET Target]
    /\ ReserveOf \in [Surface -> 0..100] /\ Forecast \in [Target -> 1..100]
    /\ PolicyReserve \in 0..100
    /\ Risk \in [Task -> 0..4] /\ AffinityOf \in [Task -> Affinity]
    /\ Pattern \subseteq [0..6 -> Kind] /\ Pattern # {}
    /\ {MaxClock, PeriodEnd} \subseteq Instant

-----------------------------------------------------------------------------
(* Policy. *)

\* The effect class of a task: read, write in a container, and two that need
\* an approval nobody records for a route.
Authorize(risk) ==
    IF risk \in 0..1 THEN "route.allowed"
    ELSE IF risk \in 2..3 THEN "policy.approval_required" ELSE "policy.denied"

PolicyReason(t) ==
    IF BranchesAllowed THEN Authorize(Risk[t]) ELSE "policy.git_branch_denied"

Api(k) == AdapterOf[k] = "api"
ApiPolicyReason(k) ==
    IF k \notin Supported THEN "api.provider_denied"
    ELSE IF k \notin Enabled THEN "api.policy_disabled" ELSE "route.allowed"

\* The API answers a task that only reads, or takes a patch when it was asked
\* to and may; only it can be asked for patches.
PatchMode(t) ==
    \/ Risk[t] = 0 /\ t \notin Patching
    \/ Risk[t] = 1 /\ t \in Patching /\ PatchRuntime

\* A scheduler needs the exact pin of a task for what is paid for.
Paid(k) == AdapterOf[k] \in {"api", "codex"}
ExactlyPinned(t, k) == Paid(k) => pin[t] = k

-----------------------------------------------------------------------------
(* Quota. *)

SurfacesOf(k) == {s \in Surface : quota[s] # None /\ k \in TargetsOf[s]}
Remaining(k) == {quota[s].remaining : s \in SurfacesOf(k)} \ {None}

Stale(s, now) ==
    ~quota[s].overridden /\ quota[s].until # None /\ quota[s].until <= now
Insufficient(s, k) ==
    quota[s].remaining # None /\ quota[s].remaining < ReserveOf[s] + Forecast[k]
Unfit(k) == {s \in SurfacesOf(k) : quota[s].remaining = None \/ Insufficient(s, k)}

QuotaReason(k, now) ==
    IF SurfacesOf(k) = {}
    THEN IF UnknownQuotaAllowed THEN "route.allowed" ELSE "quota.unavailable"
    ELSE IF \E s \in SurfacesOf(k) : Stale(s, now) THEN "quota.stale"
    ELSE IF Unfit(k) = {} THEN "route.allowed"
    ELSE IF quota[Min(Unfit(k))].remaining = None THEN "quota.unknown"
    ELSE "quota.insufficient"

CapacityReason(k, now) ==
    IF capacity[k] = None THEN "api.disabled"
    ELSE IF now >= PeriodEnd THEN "api.period_inactive"
    ELSE IF capacity[k] = 0 THEN "api.budget_exhausted" ELSE "route.allowed"

\* A surface is expected to have room at its reset, an API budget at its end.
ResourceWakes(k, now) ==
    IF ~Api(k)
    THEN IF QuotaReason(k, now) = "route.allowed" THEN {}
         ELSE {quota[s].reset : s \in SurfacesOf(k)}
    ELSE IF CapacityReason(k, now) = "api.budget_exhausted" THEN {PeriodEnd} ELSE {}

-----------------------------------------------------------------------------
(* Evidence about the installed agents. *)

\* Looked at now, in this process: without a required capability nothing is
\* asked, and the API is known at compile time.
CapabilityPresent(t, k) ==
    \/ t \notin Patching
    \/ Api(k)

Freshness(k, now) ==
    LET row == probe[AdapterOf[k]] IN
    IF AdapterOf[k] \in {"fake", "api"} THEN "fresh"
    ELSE IF row = None THEN "unknown"
    ELSE IF row.until <= now THEN "stale" ELSE "fresh"

HealthOf(k) ==
    IF AdapterOf[k] \in {"fake", "api"} THEN "healthy" ELSE probe[AdapterOf[k]].health

-----------------------------------------------------------------------------
(* The gates of a route, in the order in which a refusal names them. *)

CircuitReason(k, now) ==
    IF circuit[k].state = "closed" THEN "circuit.closed"
    ELSE IF circuit[k].state = "half_open" THEN "circuit.probe_claimed"
    ELSE IF circuit[k].nextProbe <= now THEN "circuit.probe_available"
    ELSE "circuit.open"

Gate(open, reason) == [open |-> open, reason |-> reason]

OperationGates(t, k, now) ==
    << Gate(~stopped, "operations.emergency_stop"),
       Gate(~paused, "operations.paused"),
       Gate(~projectPaused, "project.paused"),
       Gate(t \notin blocked, "dependency.incomplete"),
       Gate(pin[t] \in {None, k}, "manual_pin.mismatch"),
       Gate(Eligible(pattern, exceptions, AffinityOf[t], now), "schedule.ineligible"),
       Gate(Deadline[t] = None \/ now <= Deadline[t], "deadline.expired"),
       Gate(notBefore[t] \in {None} \cup 0..now, "retry.backoff") >>

TargetGates(t, k, now) ==
    << Gate(CircuitReason(k, now) \in {"circuit.closed", "circuit.probe_available"},
            CircuitReason(k, now)),
       Gate(CapabilityPresent(t, k), "capability.missing"),
       Gate(PolicyReason(t) = "route.allowed", PolicyReason(t)) >>

ResourceGates(k, now) ==
    IF Api(k)
    THEN << Gate(ApiPolicyReason(k) = "route.allowed", ApiPolicyReason(k)),
            Gate(CapacityReason(k, now) = "route.allowed", CapacityReason(k, now)) >>
    ELSE << Gate(QuotaReason(k, now) = "route.allowed", QuotaReason(k, now)) >>

Gates(t, k, now) ==
    OperationGates(t, k, now) \o TargetGates(t, k, now) \o ResourceGates(k, now)

Passes(t, k, now) ==
    \A n \in DOMAIN Gates(t, k, now) : Gates(t, k, now)[n].open

RouteReason(t, k, now) ==
    LET row == Gates(t, k, now)
        closed == {n \in DOMAIN row : ~row[n].open}
    IN  IF closed = {} THEN "route.allowed" ELSE row[Min(closed)].reason

\* The last of the times at which a closed gate is expected to open.
RouteWake(t, k, now) ==
    LET due == {ScheduleWake(pattern, exceptions, AffinityOf[t], now)}
                 \cup ResourceWakes(k, now)
                 \cup (IF notBefore[t] # None /\ notBefore[t] > now THEN {notBefore[t]} ELSE {})
                 \cup (IF CircuitReason(k, now) \in {"circuit.open", "circuit.probe_claimed"}
                       THEN {circuit[k].nextProbe} ELSE {})
    IN  IF due \subseteq {None} THEN None ELSE Max(due \ {None})

-----------------------------------------------------------------------------
(* Selection among the targets that pass their gates. *)

MinRemaining(k) ==
    IF Api(k) THEN capacity[k]
    ELSE IF Remaining(k) = {} THEN None ELSE Min(Remaining(k))

MaxReserve(k) ==
    IF Api(k) THEN 0 ELSE Max({ReserveOf[s] : s \in SurfacesOf(k)} \cup {PolicyReserve})
Headroom(k) == MaxReserve(k) + (IF Api(k) THEN 0 ELSE Forecast[k])

\* Stricter than the gates: the smallest remainder of any surface is compared
\* with the largest reserve of any.
CandidateReason(t, k, now) ==
    IF listed[t].pin \notin {None, k} THEN "manual_pin.mismatch"
    ELSE IF Freshness(k, now) # "fresh" THEN "capability.unproved"
    ELSE IF HealthOf(k) # "healthy" THEN "adapter.unhealthy"
    ELSE IF t \in Patching /\ ~Api(k) THEN "capability.missing"
    ELSE IF MinRemaining(k) = None THEN "quota.unknown"
    ELSE IF MinRemaining(k) < Headroom(k) THEN "quota.insufficient" ELSE "route.allowed"

\* Every other part of the score is the same for all candidates.
Margin(k) == MinRemaining(k) - Headroom(k)

\* Fault: the largest remainder wins, whatever is kept free of it.
MostRemaining(t, fit) ==
    Min({k \in fit : \A j \in fit : MinRemaining(j) <= MinRemaining(k)})

\* The largest margin wins, and the first name among equals.
Selected(t, fit) == Min({k \in fit : \A j \in fit : Margin(j) <= Margin(k)})

=============================================================================
