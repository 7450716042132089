-------------------------------- MODULE Deciding --------------------------------
(***************************************************************************)
(* Ticks that decide, operators and probes that change what they decide    *)
(* about, and claims of what was decided.                                  *)
(***************************************************************************)
EXTENDS Routing

NotListed == [stage |-> "idle", at |-> 0, version |-> 0, pin |-> None, passed |-> {}]

CONSTANT Setup          \* how an installation may have been set up before
SetupRow == [pin: Target \cup {None}, planned: BOOLEAN, probe: ProbeRow \cup {None},
             quota: SurfaceRow \cup {None}, capacity: 0..100 \cup {None}]

Undecided == [allowed |-> FALSE, target |-> None, at |-> 0,
              reason |-> "scheduler.pending", wake |-> None]

RoutingInit ==
    /\ clock = 0 /\ changes = 0
    /\ stopped = FALSE /\ paused = FALSE /\ projectPaused = FALSE
    /\ pattern \in Pattern
    /\ exceptions = [d \in Day |-> None]
    /\ blocked = {}
    /\ version = [t \in Task |-> 1]
    /\ notBefore = [t \in Task |-> None]
    /\ circuit = [k \in Target |-> [state |-> "closed", nextProbe |-> None]]
    /\ \E row \in Setup :
         /\ pin = [t \in Task |-> row.pin]
         /\ plan = [t \in Task |-> IF row.planned THEN 1 ELSE 0]
         /\ probe = [a \in {"codex", "claude"} |-> row.probe]
         /\ quota = [s \in Surface |-> row.quota]
         /\ capacity = [k \in Target |-> IF Api(k) THEN row.capacity ELSE None]
    /\ listed = [t \in Task |-> NotListed]
    /\ decision = [t \in Task |-> Undecided]
    /\ claimed = [t \in Task |-> None]

-----------------------------------------------------------------------------
(* Changes from other processes. *)

Changed == changes < MaxChanges /\ changes' = changes + 1
Controls == <<clock, pin, version, plan, circuit, probe, quota, tick>>

\* Not counted: pausing and resuming never end.
SetPauseNewWork ==
    /\ paused' \in BOOLEAN
    /\ stopped => paused'
    /\ UNCHANGED <<stopped, projectPaused, pattern, exceptions, blocked, notBefore, capacity,
                   Controls, changes>>

\* An emergency stop pauses too, and resuming operations ends both.
ChangeControl ==
    /\ Changed
    /\ stopped' \in BOOLEAN
    /\ paused' = stopped'
    /\ UNCHANGED <<projectPaused, pattern, exceptions, blocked, notBefore, capacity, Controls>>

SetProjectSchedulerPause ==
    /\ Changed
    /\ projectPaused' \in BOOLEAN
    /\ UNCHANGED <<stopped, paused, pattern, exceptions, blocked, notBefore, capacity, Controls>>

ConfigureCalendar ==
    /\ Changed
    /\ pattern' \in Pattern
    /\ UNCHANGED <<stopped, paused, projectPaused, exceptions, blocked, notBefore, capacity,
                   Controls>>

SetCalendarException(d, kind) ==
    /\ Changed
    /\ exceptions' = [exceptions EXCEPT ![d] = kind]
    /\ UNCHANGED <<stopped, paused, projectPaused, pattern, blocked, notBefore, capacity,
                   Controls>>

\* A dependency is added, or completed.
ChangeDependencies(t) ==
    /\ Changed
    /\ blocked' \in {blocked \cup {t}, blocked \ {t}}
    /\ UNCHANGED <<stopped, paused, projectPaused, pattern, exceptions, notBefore, capacity,
                   Controls>>

\* A claim ends and its task is ready again, at once or after a backoff; the
\* task has moved on by then.
ClaimEnds(t, n) ==
    /\ Changed
    /\ claimed[t] # None
    /\ claimed' = [claimed EXCEPT ![t] = None]
    /\ version' = [version EXCEPT ![t] = @ + 1]
    /\ notBefore' = [notBefore EXCEPT ![t] = n]
    /\ UNCHANGED <<clock, stopped, paused, projectPaused, pattern, exceptions, blocked,
                   capacity, pin, plan, circuit, probe, quota, listed, decision>>

\* API spending, new budgets.
CapacityChanges(k, percent) ==
    /\ Changed /\ Api(k)
    /\ capacity' = [capacity EXCEPT ![k] = percent]
    /\ UNCHANGED <<stopped, paused, projectPaused, pattern, exceptions, blocked, notBefore,
                   Controls>>

\* Fault: the version of the task stays the same.
PinSilently(t, k) ==
    /\ Changed
    /\ pin' = [pin EXCEPT ![t] = k]
    /\ UNCHANGED <<clock, gates, version, plan, circuit, probe, quota, tick>>

SetTaskRoutePin(t, k) ==
    /\ Changed
    /\ pin' = [pin EXCEPT ![t] = k]
    /\ version' = [version EXCEPT ![t] = @ + 1]
    /\ UNCHANGED <<clock, gates, plan, circuit, probe, quota, tick>>

\* A plan is rendered for a version of a task that is pinned to the API.
ConfigureApiRequestPlan(t) ==
    /\ Changed
    /\ pin[t] # None /\ Api(pin[t])
    /\ plan' = [plan EXCEPT ![t] = version[t]]
    /\ UNCHANGED <<clock, gates, pin, version, circuit, probe, quota, tick>>

\* Processes report: a circuit opens, or closes again.
CircuitChanges(k, row) ==
    /\ Changed
    /\ circuit' = [circuit EXCEPT ![k] = row]
    /\ UNCHANGED <<clock, gates, pin, version, plan, probe, quota, tick>>

RecordAgentCapabilityProbe(a, row) ==
    /\ Changed
    /\ row.until > clock
    /\ probe' = [probe EXCEPT ![a] = row]
    /\ UNCHANGED <<clock, gates, pin, version, plan, circuit, quota, tick>>

QuotaChanges(s, row) ==
    /\ Changed
    /\ quota' = [quota EXCEPT ![s] = row]
    /\ UNCHANGED <<clock, gates, pin, version, plan, circuit, probe, tick>>

Tick ==
    /\ clock < MaxClock
    /\ clock' = clock + 1
    /\ UNCHANGED <<gates, pin, version, plan, circuit, probe, quota, tick, changes>>

-----------------------------------------------------------------------------
(* A tick. *)

Keeps == <<clock, gates, pin, version, plan, probe, quota, changes>>

\* Tasks are listed with the version a claim will have to match.
ListTask(t) ==
    /\ claimed[t] = None /\ listed[t].stage = "idle"
    /\ listed' = [listed EXCEPT ![t] = [NotListed EXCEPT !.stage = "listed", !.at = clock,
                                                         !.version = version[t]]]
    /\ UNCHANGED <<Keeps, circuit, decision, claimed>>

\* What a scheduler asks beyond the gates: a paid target needs the exact pin,
\* a fitting provider and, for the API, a request plan for this version.
FirstReason(t, k, now) ==
    IF AdapterOf[k] = "codex" /\ k \notin Supported THEN "codex.provider_denied"
    ELSE IF Paid(k) /\ pin[t] # k THEN "explicit_selection_required"
    ELSE IF RouteReason(t, k, now) # "route.allowed" THEN RouteReason(t, k, now)
    ELSE IF Api(k) /\ plan[t] # version[t] THEN "api.request_plan_stale"
    ELSE IF Api(k) /\ ~PatchMode(t) THEN "api.patch_mode"
    ELSE "route.allowed"

PassingFirst(t, now) == {k \in Configured : FirstReason(t, k, now) = "route.allowed"}

\* Every target is looked at, its probe is not taken.
Preliminary(t) ==
    /\ listed[t].stage = "listed"
    /\ PassingFirst(t, listed[t].at) # {}
    /\ listed' = [listed EXCEPT ![t].stage = "looked", ![t].pin = pin[t],
                                ![t].passed = PassingFirst(t, listed[t].at)]
    /\ UNCHANGED <<Keeps, circuit, decision, claimed>>

Decide(t, row) ==
    /\ decision' = [decision EXCEPT ![t] = row]
    /\ listed' = [listed EXCEPT ![t] = IF row.allowed THEN [@ EXCEPT !.stage = "decided"]
                                                      ELSE NotListed]
    /\ UNCHANGED <<Keeps, claimed>>

Denied(t, reason, wake) ==
    Decide(t, [allowed |-> FALSE, target |-> None, at |-> listed[t].at,
               reason |-> reason, wake |-> wake])

Allowed(t, k) ==
    Decide(t, [allowed |-> TRUE, target |-> k, at |-> listed[t].at,
               reason |-> "route.allowed", wake |-> None])

\* No target passes: the reason and the wake are those of the first one.
NothingPasses(t) ==
    LET now == listed[t].at
        first == Min(Configured) IN
    /\ listed[t].stage = "listed"
    /\ PassingFirst(t, now) = {}
    /\ Denied(t, IF pin[t] \notin Configured \cup {None} THEN "manual_pin.unavailable"
                 ELSE FirstReason(t, first, now),
              RouteWake(t, first, now))
    /\ UNCHANGED circuit

\* Candidates have evidence that is fresh, and headroom.
Fit(t) ==
    {k \in listed[t].passed : CandidateReason(t, k, listed[t].at) = "route.allowed"}

NothingFits(t) ==
    /\ listed[t].stage = "looked"
    /\ Fit(t) = {}
    /\ Denied(t, IF listed[t].pin = None THEN "route.no_candidate"
                 ELSE CandidateReason(t, listed[t].pin, listed[t].at), None)
    /\ UNCHANGED circuit

ProbeTaken(k) ==
    circuit' = IF circuit[k].state = "open"
               THEN [circuit EXCEPT ![k].state = "half_open"] ELSE circuit

\* Fault: what was seen at first is decided.
SelectAtOnce(t) ==
    /\ listed[t].stage = "looked" /\ Fit(t) # {}
    /\ Allowed(t, Selected(t, Fit(t)))
    /\ UNCHANGED circuit

\* The winner is looked at again, and its probe taken when all gates are open.
Select(t) ==
    LET k == Selected(t, Fit(t))
        now == listed[t].at IN
    /\ listed[t].stage = "looked" /\ Fit(t) # {}
    /\ IF Passes(t, k, now)
       THEN Allowed(t, k) /\ ProbeTaken(k)
       ELSE /\ Denied(t, RouteReason(t, k, now), RouteWake(t, k, now))
            /\ UNCHANGED circuit

\* What a claim compares again.  A paid request is planned from the task that
\* was listed.
Claimable(t) ==
    LET k == decision[t].target IN
    /\ ~stopped /\ ~paused /\ t \notin blocked
    /\ version[t] = listed[t].version
    /\ Api(k) => plan[t] = listed[t].version

\* Locks, capacity and reservations, which may refuse it too, are elsewhere.
ClaimDecided(t) ==
    /\ listed[t].stage = "decided"
    /\ Claimable(t)
    /\ claimed' = [claimed EXCEPT ![t] = decision[t].target]
    /\ version' = [version EXCEPT ![t] = @ + 1]
    /\ listed' = [listed EXCEPT ![t] = NotListed]
    /\ UNCHANGED <<clock, gates, pin, plan, circuit, probe, quota, changes, decision>>

ClaimRefused(t) ==
    /\ listed[t].stage = "decided"
    /\ listed' = [listed EXCEPT ![t] = NotListed]
    /\ UNCHANGED <<Keeps, circuit, decision, claimed>>

-----------------------------------------------------------------------------
CONSTANTS
    Exception,      \* [day, kind] operators set
    Backoff,        \* times a retry may wait for
    Percent,        \* what an API budget may have left
    CircuitRows, ProbeRows, QuotaRows   \* rows other processes may write

\* Other processes open and close circuits; a probe is taken by a tick only.
ASSUME DecidingAssumption ==
    /\ MaxChanges \in Nat /\ Setup \subseteq SetupRow
    /\ \A e \in Exception : e.day \in Day /\ e.kind \in Kind \cup {None}
    /\ Backoff \subseteq Instant \cup {None}
    /\ Percent \subseteq 0..100 \cup {None}
    /\ CircuitRows \subseteq {row \in CircuitRow : row.state # "half_open"}
    /\ ProbeRows \subseteq ProbeRow
    /\ QuotaRows \subseteq SurfaceRow \cup {None}

Outside ==
    \/ SetPauseNewWork
    \/ ChangeControl
    \/ SetProjectSchedulerPause
    \/ ConfigureCalendar
    \/ \E e \in Exception : SetCalendarException(e.day, e.kind)
    \/ \E t \in Task : ChangeDependencies(t)
    \/ \E t \in Task, n \in Backoff : ClaimEnds(t, n)
    \/ \E k \in Target, percent \in Percent : CapacityChanges(k, percent)
    \/ \E t \in Task, k \in Target \cup {None} : SetTaskRoutePin(t, k)
    \/ \E t \in Task : ConfigureApiRequestPlan(t)
    \/ \E k \in Target, row \in CircuitRows : CircuitChanges(k, row)
    \/ \E a \in DOMAIN probe, row \in ProbeRows : RecordAgentCapabilityProbe(a, row)
    \/ \E s \in Surface, row \in QuotaRows : QuotaChanges(s, row)

RoutingTick ==
    \/ \E t \in Task : ListTask(t)
    \/ \E t \in Task : Preliminary(t)
    \/ \E t \in Task : NothingPasses(t)
    \/ \E t \in Task : NothingFits(t)
    \/ \E t \in Task : Select(t)
    \/ \E t \in Task : ClaimDecided(t)
    \/ \E t \in Task : ClaimRefused(t)

RoutingNext == Outside \/ RoutingTick \/ Tick
RoutingSpec == RoutingInit /\ [][RoutingNext]_routingVars

RoutingTypeOK ==
    /\ clock \in 0..MaxClock /\ changes \in 0..MaxChanges
    /\ {stopped, paused, projectPaused} \subseteq BOOLEAN
    /\ pattern \in Pattern /\ exceptions \in [Day -> Kind \cup {None}]
    /\ blocked \subseteq Task
    /\ pin \in [Task -> Target \cup {None}]
    /\ version \in [Task -> Nat] /\ plan \in [Task -> Nat]
    /\ notBefore \in [Task -> Instant \cup {None}]
    /\ circuit \in [Target -> CircuitRow]
    /\ probe \in [{"codex", "claude"} -> ProbeRow \cup {None}]
    /\ quota \in [Surface -> SurfaceRow \cup {None}]
    /\ capacity \in [Target -> 0..100 \cup {None}]
    /\ listed \in [Task -> ListedRow]
    /\ decision \in [Task -> DecisionRow]
    /\ \A t \in Task : decision[t].allowed <=> decision[t].target # None
    /\ claimed \in [Task -> Target \cup {None}]

-----------------------------------------------------------------------------
(* What deciding must preserve. *)

\* Whatever is paid for is claimed only for a task that is pinned to exactly
\* this target at that moment, and an API request only with the plan of the
\* version that is claimed: the claim does not look at the pin, the version
\* fence stands for it.
PaidWorkIsExact ==
    [][\A t \in Task : (claimed[t] = None /\ claimed'[t] # None)
        => /\ ExactlyPinned(t, claimed'[t])
           /\ Api(claimed'[t]) => plan[t] = version[t]]_routingVars

\* A decision allows nothing that operators, calendars or reports have closed
\* since the targets were looked at, and takes a probe only when it allows.
DecidedOnWhatHolds ==
    [][\A t \in Task, k \in Target :
        /\ (decision'[t] # decision[t] /\ decision'[t].allowed /\ decision'[t].target = k)
              => RouteReason(t, k, decision'[t].at) = "route.allowed"
        /\ (circuit[k].state = "open" /\ circuit'[k].state = "half_open")
              => \E u \in Task : decision'[u].allowed /\ decision'[u].target = k
       ]_routingVars

\* No candidate with the evidence and the headroom is passed over for one with
\* a smaller margin, or for a later one with the same.
BestCandidateWins ==
    [][\A t \in Task : (decision'[t] # decision[t] /\ decision'[t].allowed)
        => LET k == decision'[t].target IN
           /\ k \in Fit(t)
           /\ \A j \in Fit(t) \ {k} :
                \/ Margin(j) < Margin(k)
                \/ Margin(j) = Margin(k) /\ k < j]_routingVars

\* Two things about a time zone, without which the next property is false: no
\* clock is set back over a midnight it has passed, and nothing of a day comes
\* before its first reading.
DaysFollow == \A u, v \in Instant : u <= v => DayOf(u) <= DayOf(v)
DaysBeginOnce ==
    \A d \in Day, u \in Instant :
        d > DayOf(0) /\ LocalDayStart(d) # None /\ DayOf(u) = d => LocalDayStart(d) <= u

\* The wake of a task on the wrong kind of day is the first minute of the right
\* kind, through gaps and repeated hours, and without one there is no such day
\* in reach.
NextEligibleIsFirst ==
    \A affinity \in Affinity :
        LET fits(u) == Eligible(pattern, exceptions, affinity, u)
            next == NextEligible(pattern, exceptions, affinity, DayOf(clock)) IN
        ~fits(clock) =>
            IF next # None
            THEN fits(next) /\ next > clock /\ \A u \in clock..(next - 1) : ~fits(u)
            ELSE \A u \in clock..MaxInstant :
                    DayOf(u) <= DayOf(clock) + SearchDays => ~fits(u)

=============================================================================
