----------------------------- MODULE DispatchProofs ----------------------------
(***************************************************************************)
(* Theorems about retries beside local runs: a task has one executor,      *)
(* every run but the first was paid for, a retry waits for its backoff,    *)
(* and a recorded wake is the first chance of its task.                    *)
(***************************************************************************)
EXTENDS Dispatch, ControlPlaneProofs

-----------------------------------------------------------------------------
(* What a step of DispatchNext does to the control plane: a step of Next or  *)
(* nothing, besides three calls of its own.                                  *)

\* Steps that are calls of the control plane, or leave it alone.
ControlStep == [Next]_vars /\ UNCHANGED risk

\* The reports these calls, and the calls of this module, leave behind.
Untold == UNCHANGED <<retry, report>>

LEMMA RoutingForms ==
    ASSUME RoutingNext
    PROVE  \/ ControlStep /\ UNCHANGED local /\ Untold
           \/ \E i \in Instance, now \in Observed : ClaimRefused(i, now)
           \/ \E t \in Task, limit \in RetryLimit : SetRetryLimit(t, limit)
           \/ \E o \in Invocation, t \in Task : RouteLocally(o, t) /\ UNCHANGED retryVars
<1>1. CASE \E i \in Instance, t \in Task, now \in Observed : RouteAllowed(i, t, now)
  <2>1. PICK i \in Instance, t \in Task, now \in Observed : RouteAllowed(i, t, now)
    BY <1>1
  <2>2. RouteTask(i, t) /\ UNCHANGED <<localVars, retry, report>>
    BY <2>1 DEF RouteAllowed
  <2> QED
    BY <2>2 DEF ControlStep, Untold, localVars, Next, SchedulerNext
<1>2. CASE \/ \E t \in Task, now \in Observed : RouteRefused(t, now)
           \/ \E t \in Task : TaskReadiness(t)
  BY <1>2 DEF RouteRefused, TaskReadiness, ControlStep, Untold, localVars
<1>3. CASE \E i \in Instance, g \in 1..MaxGeneration, c \in Claim, now \in Observed :
                ClaimRouted(i, g, c, now)
  <2>1. PICK i \in Instance, g \in 1..MaxGeneration, c \in Claim, now \in Observed :
            ClaimRouted(i, g, c, now)
    BY <1>3
  <2>2. ClaimTask(i, g, c, now) /\ UNCHANGED <<localVars, retryVars>>
    BY <2>1 DEF ClaimRouted
  <2> QED
    BY <2>2 DEF ControlStep, Untold, localVars, retryVars, Next, SchedulerNext
<1> QED
  BY <1>1, <1>2, <1>3 DEF RoutingNext

LEMMA UnboundForms ==
    ASSUME DispatchUnboundNext
    PROVE  ControlStep /\ UNCHANGED local /\ Untold /\ UNCHANGED retryVars
<1>1. Next
  BY DEF DispatchUnboundNext, Next, SchedulerNext, RunNext
<1>2. UNCHANGED <<localVars, retryVars>>
  BY DEF DispatchUnboundNext
<1> QED
  BY <1>1, <1>2 DEF ControlStep, Untold, localVars, retryVars

LEMMA ReportForms ==
    ASSUME ReportNext
    PROVE  \/ \E c \in Claim : ProcessReported(c) \/ SuccessReported(c)
           \/ \E c \in Claim : RecordAdapterOutcome(c) \/ ReportLost(c)
           \/ \E c \in Claim : PlanRetry(c)
BY DEF ReportNext

-----------------------------------------------------------------------------
(* Types.                                                                    *)

\* Doubling is counted by the subsets of 1..n.
LEMMA PowerType == ASSUME NEW n \in Nat PROVE 2^n \in Nat
<1>1. IsFiniteSet(1..n) /\ Cardinality(1..n) = n
  BY FS_Interval
<1>2. IsFiniteSet(SUBSET (1..n)) /\ Cardinality(SUBSET (1..n)) = 2^n
  BY <1>1, FS_SUBSET
<1> QED
  BY <1>2, FS_CardinalityType

LEMMA BoundedType == ASSUME NEW d \in Nat PROVE Bounded(d) \in Nat
BY DispatchAssumption DEF Bounded

LEMMA DelayType ==
    ASSUME NEW t \in Task, NEW n \in 1..20
    PROVE  RetryDelay(t, n) \in Nat
<1>1. 2^(n - 1) \in Nat
  BY PowerType
<1>2. BaseDelay * 2^(n - 1) \in Nat
  BY <1>1, DispatchAssumption
<1> DEFINE capped == Bounded(BaseDelay * 2^(n - 1))
<1>3. capped \in Nat /\ Jitter[t][n] \in 80..120
  BY <1>2, BoundedType, DispatchAssumption
<1>4. (capped * Jitter[t][n]) \div 100 \in Nat
  <2> HIDE DEF capped
  <2>1. PICK j \in 80..120 : Jitter[t][n] = j
    BY <1>3
  <2>2. capped * j \in Nat
    BY <1>3
  <2> QED
    BY <2>1, <2>2
<1> QED
  BY <1>4, BoundedType DEF RetryDelay

\* What the gates wait for.
Awaited(t, now) ==
    (IF RetryDue(t, now) THEN {} ELSE {retry[t].notBefore})
        \cup (IF CircuitAllows(TargetOf[t], now) THEN {} ELSE {circuit[TargetOf[t]].nextProbe})

\* A circuit that is not closed has a time for its next probe.
ProbesKnown == \A k \in Target : circuit[k].state # "closed" => circuit[k].nextProbe \in Nat

RetryTypes ==
    /\ local \in [Invocation -> LocalRow]
    /\ risk \in [Task -> RiskClass]
    /\ retry \in [Task -> RetryRow]
    /\ circuit \in [Target -> CircuitRow]
    /\ wake \in [Task -> Nat \cup {None}]
    /\ report \in [Claim -> ReportRow]
    /\ ProbesKnown

LEMMA PairIsFinite == ASSUME NEW x, NEW y PROVE IsFiniteSet({x, y})
<1>1. IsFiniteSet({x})
  BY FS_Singleton
<1>2. {x, y} = {x} \cup {y}
  OBVIOUS
<1> QED
  BY <1>1, <1>2, FS_AddElement

LEMMA WakeAwaited ==
    ASSUME RetryTypes, NEW t \in Task, NEW now \in Nat, ~GatesOpen(t, now)
    PROVE  /\ NextWake(t, now) \in Awaited(t, now)
           /\ \A n \in Awaited(t, now) : n \in Nat /\ NextWake(t, now) >= n
<1> DEFINE due == Awaited(t, now)
           k == TargetOf[t]
<1>1. retry[t] \in RetryRow /\ k \in Target /\ circuit[k] \in CircuitRow
  BY DispatchAssumption DEF RetryTypes
<1>2. ~RetryDue(t, now) => retry[t].notBefore \in Nat
  BY <1>1 DEF RetryDue, RetryRow
<1>3. ~CircuitAllows(k, now) => circuit[k].nextProbe \in Nat
  BY <1>1 DEF CircuitAllows, RetryTypes, ProbesKnown
<1>4. due # {} /\ \A n \in due : n \in Nat
  BY <1>2, <1>3 DEF GatesOpen, Awaited
<1>5. IsFiniteSet(due)
  <2>1. due \subseteq {retry[t].notBefore, circuit[k].nextProbe}
    BY DEF Awaited
  <2>2. IsFiniteSet({retry[t].notBefore, circuit[k].nextProbe})
    BY PairIsFinite
  <2> QED
    BY <2>1, <2>2, FS_Subset
<1>6. NextWake(t, now) = Max(due)
  BY <1>4 DEF NextWake, Awaited
<1> HIDE DEF due
<1>7. \A n \in due : n \in Int
  BY <1>4
<1>8. Max(due) \in due /\ \A n \in due : Max(due) >= n
  BY <1>4, <1>5, <1>7, LargestIn
<1> QED
  BY <1>4, <1>6, <1>8 DEF due

LEMMA DispatchInitTypes == DispatchInit => TypeOK /\ RetryTypes
<1> SUFFICES ASSUME DispatchInit PROVE TypeOK /\ RetryTypes
  OBVIOUS
<1>1. TypeOK
  BY InitTypes DEF DispatchInit
<1>2. Max(RetryLimit) \in 0..20
  <2>1. IsFiniteSet(RetryLimit) /\ \A x \in RetryLimit : x \in Int
    <3>1. 0 \in Int /\ 20 \in Int
      OBVIOUS
    <3>2. IsFiniteSet(0..20)
      BY <3>1, FS_Interval, Zenon
    <3>3. IsFiniteSet(RetryLimit)
      BY <3>2, FS_Subset, DispatchAssumption
    <3> QED
      BY <3>3, DispatchAssumption
  <2> QED
    BY <2>1, LargestIn, DispatchAssumption
<1>3. local \in [Invocation -> LocalRow]
  BY DEF DispatchInit, NotInvoked, LocalRow, LocalState
<1>4. retry \in [Task -> RetryRow]
  BY <1>2 DEF DispatchInit, RetryRow
<1>5. circuit \in [Target -> CircuitRow] /\ ProbesKnown
  BY DEF DispatchInit, CircuitRow, Closed, ProbesKnown
<1>6. report \in [Claim -> ReportRow]
  BY DEF DispatchInit, ReportRow, Reported
<1> QED
  BY <1>1, <1>3, <1>4, <1>5, <1>6 DEF RetryTypes, DispatchInit


\* A probe that is taken leaves the row as it is but for its state.
LEMMA ProbeTypes ==
    ASSUME RetryTypes, NEW k \in Target, ProbeTaken(k)
    PROVE  circuit' \in [Target -> CircuitRow] /\ ProbesKnown'
<1>1. circuit \in [Target -> CircuitRow] /\ ProbesKnown
  BY DEF RetryTypes
<1>2. CASE circuit' = circuit
  BY <1>1, <1>2 DEF ProbesKnown
<1>3. CASE circuit[k].state = "open" /\ circuit' = [circuit EXCEPT ![k].state = "half_open"]
  <2>1. circuit[k] \in CircuitRow /\ circuit[k].nextProbe \in Nat
    BY <1>1, <1>3 DEF ProbesKnown
  <2>2. [circuit[k] EXCEPT !.state = "half_open"] \in CircuitRow
    BY <2>1 DEF CircuitRow
  <2>3. circuit' = [circuit EXCEPT ![k] = [circuit[k] EXCEPT !.state = "half_open"]]
    BY <1>3
  <2>4. circuit'[k].nextProbe = circuit[k].nextProbe
    BY <1>1, <2>1, <2>3 DEF CircuitRow
  <2> QED
    BY <1>1, <2>1, <2>2, <2>3, <2>4 DEF ProbesKnown
<1> QED
  BY <1>2, <1>3 DEF ProbeTaken

LEMMA AfterFailureType ==
    ASSUME NEW row \in CircuitRow, NEW now \in Nat
    PROVE  /\ AfterFailure(row, now) \in CircuitRow
           /\ AfterFailure(row, now).state # "closed" => AfterFailure(row, now).nextProbe \in Nat
<1>1. row.failures + 1 \in Nat /\ now + Cooldown \in Nat
  BY DispatchAssumption DEF CircuitRow
<1> QED
  BY <1>1 DEF AfterFailure, CircuitRow, Closed

LEMMA RetriedType ==
    ASSUME NEW t \in Task, NEW row \in RetryRow, row.used < row.limit, NEW now \in Nat
    PROVE  Retried(row, t, now) \in RetryRow
<1>1. row.used + 1 \in 1..20
  BY DEF RetryRow
<1> DEFINE m == row.used + 1
           n == now + RetryDelay(t, row.used + 1)
<1>2. m \in Nat /\ n \in Nat
  BY <1>1, DelayType
<1>3. Retried(row, t, now) = [row EXCEPT !.used = m, !.notBefore = n]
  BY DEF Retried
<1> HIDE DEF m, n
<1>4. [row EXCEPT !.used = m, !.notBefore = n] \in RetryRow
  BY <1>2 DEF RetryRow
<1> QED
  BY <1>3, <1>4

LEMMA RoutingTypes ==
    ASSUME TypeOK, RetryTypes, RoutingNext
    PROVE  RetryTypes'
<1>1. ASSUME NEW t \in Task, ProbeTaken(TargetOf[t]), UNCHANGED <<localVars, retry, wake, report>>
      PROVE  RetryTypes'
  <2>1. TargetOf[t] \in Target
    BY DispatchAssumption
  <2> QED
    BY <1>1, <2>1, ProbeTypes DEF RetryTypes, localVars
<1>2. ASSUME UNCHANGED <<localVars, retry, circuit, report>>, NEW t \in Task,
             NEW n \in Nat \cup {None}, wake' = [wake EXCEPT ![t] = n]
      PROVE  RetryTypes'
  BY <1>2 DEF RetryTypes, localVars, ProbesKnown
<1>3. CASE \E i \in Instance, t \in Task, now \in Observed : RouteAllowed(i, t, now)
  BY <1>1, <1>3 DEF RouteAllowed
<1>4. CASE \E t \in Task, now \in Observed : RouteRefused(t, now)
  <2>1. PICK t \in Task, now \in Observed : RouteRefused(t, now)
    BY <1>4
  <2>2. now \in Nat
    BY DEF Observed, TypeOK
  <2>3. NextWake(t, now) \in Nat
    BY <2>1, <2>2, WakeAwaited DEF RouteRefused
  <2> QED
    BY <1>2, <2>1, <2>3 DEF RouteRefused
<1>5. CASE \E i \in Instance, g \in 1..MaxGeneration, c \in Claim, now \in Observed :
                ClaimRouted(i, g, c, now)
  BY <1>5 DEF ClaimRouted, RetryTypes, ProbesKnown, localVars, retryVars
<1>6. CASE \E i \in Instance, now \in Observed : ClaimRefused(i, now)
  <2>1. PICK i \in Instance, now \in Observed : ClaimRefused(i, now)
    BY <1>6
  <2>2. planned[i].task \in Task
    BY <2>1 DEF ClaimRefused, TypeOK, Plan
  <2> QED
    BY <1>2, <2>1, <2>2 DEF ClaimRefused
<1>7. CASE \E t \in Task : TaskReadiness(t)
  BY <1>1, <1>7 DEF TaskReadiness
<1>8. CASE \E t \in Task, limit \in RetryLimit : SetRetryLimit(t, limit)
  <2>1. PICK t \in Task, limit \in RetryLimit : SetRetryLimit(t, limit)
    BY <1>8
  <2>2. retry' = [retry EXCEPT ![t] = [retry[t] EXCEPT !.limit = limit]]
    BY <2>1 DEF SetRetryLimit
  <2>3. retry[t] \in RetryRow /\ limit \in 0..20
    BY DispatchAssumption DEF RetryTypes
  <2>4. [retry[t] EXCEPT !.limit = limit] \in RetryRow
    BY <2>3 DEF RetryRow
  <2> QED
    BY <2>1, <2>2, <2>4 DEF SetRetryLimit, RetryTypes, ProbesKnown, localVars
<1>9. CASE \E o \in Invocation, t \in Task : RouteLocally(o, t) /\ UNCHANGED retryVars
  <2>1. PICK o \in Invocation, t \in Task : RouteLocally(o, t) /\ UNCHANGED retryVars
    BY <1>9
  <2>2. [at |-> "routed", task |-> t, run |-> None] \in LocalRow
    BY DEF LocalRow, LocalState
  <2> QED
    BY <2>1, <2>2 DEF RouteLocally, elsewhere, retryVars, RetryTypes, ProbesKnown
<1> QED
  BY <1>3, <1>4, <1>5, <1>6, <1>7, <1>8, <1>9 DEF RoutingNext


LEMMA ReportRowType ==
    ASSUME TypeOK, RetryTypes, NEW c \in Claim, NEW what \in {"nothing", "circuit", "retry"},
           NEW failure \in Failure \cup {None}, Owes(c, what, failure)
    PROVE  report' \in [Claim -> ReportRow]
BY DEF Owes, RetryTypes, ReportRow, TypeOK

LEMMA ReportTypes ==
    ASSUME TypeOK, RetryTypes, ReportNext,
           \A c \in Claim : report[c].of # "nothing" => claims[c].task \in Task
    PROVE  RetryTypes'
<1>1. Reported \in ReportRow
  BY DEF Reported, ReportRow
<1>2. CASE \E c \in Claim : ProcessReported(c)
  <2>1. PICK c \in Claim : ProcessReported(c)
    BY <1>2
  <2>2. \E failure \in Failure : Owes(c, "circuit", failure)
    BY <2>1 DEF ProcessReported, Failure
  <2> QED
    BY <2>1, <2>2, ReportRowType DEF ProcessReported, RetryTypes, ProbesKnown, localVars
<1>3. CASE \E c \in Claim : SuccessReported(c)
  <2>1. PICK c \in Claim : SuccessReported(c)
    BY <1>3
  <2>2. Owes(c, "circuit", None) \/ UNCHANGED report
    BY <2>1 DEF SuccessReported
  <2> QED
    BY <2>1, <2>2, ReportRowType DEF SuccessReported, RetryTypes, ProbesKnown, localVars
<1>4. CASE \E c \in Claim : RecordAdapterOutcome(c)
  <2>1. PICK c \in Claim : RecordAdapterOutcome(c)
    BY <1>4
  <2> DEFINE k == TargetOf[claims[c].task]
  <2>2. k \in Target /\ circuit[k] \in CircuitRow /\ report[c] \in ReportRow
    BY <2>1, DispatchAssumption DEF RecordAdapterOutcome, RetryTypes
  <2>3. \E row \in CircuitRow : /\ circuit' = [circuit EXCEPT ![k] = row]
                                /\ row.state # "closed" => row.nextProbe \in Nat
    <3>1. report[c].now \in Nat
      BY <2>2 DEF ReportRow
    <3>2. Closed \in CircuitRow /\ Closed.state = "closed"
      BY DEF Closed, CircuitRow
    <3>3. CASE report[c].failure = "process_failed"
      BY <2>1, <2>2, <3>1, <3>3, AfterFailureType DEF RecordAdapterOutcome
    <3>4. CASE report[c].failure # "process_failed"
      BY <2>1, <3>2, <3>4 DEF RecordAdapterOutcome
    <3> QED
      BY <3>3, <3>4
  <2>4. PICK row \in CircuitRow : /\ circuit' = [circuit EXCEPT ![k] = row]
                                  /\ row.state # "closed" => row.nextProbe \in Nat
    BY <2>3
  <2>5. circuit' \in [Target -> CircuitRow] /\ ProbesKnown'
    BY <2>2, <2>4 DEF RetryTypes, ProbesKnown
  <2>6. [report[c] EXCEPT !.of = "retry"] \in ReportRow
    BY <2>2 DEF ReportRow
  <2>7. report' \in [Claim -> ReportRow]
    BY <1>1, <2>1, <2>6 DEF RecordAdapterOutcome, RetryTypes
  <2> QED
    BY <2>1, <2>5, <2>7 DEF RecordAdapterOutcome, RetryTypes, localVars
<1>5. CASE \E c \in Claim : ReportLost(c)
  BY <1>1, <1>5 DEF ReportLost, RetryTypes, ProbesKnown, localVars
<1>6. CASE \E c \in Claim : PlanRetry(c)
  <2>1. PICK c \in Claim : PlanRetry(c)
    BY <1>6
  <2> DEFINE t == claims[c].task
  <2>2. t \in Task /\ retry[t] \in RetryRow /\ report[c].now \in Nat
    BY <2>1 DEF PlanRetry, RetryTypes, ReportRow
  <2>3. CASE retry[t].used < retry[t].limit
    <3>1. Retried(retry[t], t, report[c].now) \in RetryRow
      BY <2>2, <2>3, RetriedType
    <3>2. retry' = [retry EXCEPT ![t] = Retried(retry[t], t, report[c].now)]
      BY <2>1, <2>3 DEF PlanRetry
    <3>3. retry' \in [Task -> RetryRow]
      BY <3>1, <3>2 DEF RetryTypes
    <3> QED
      BY <1>1, <2>1, <3>3 DEF PlanRetry, RetryTypes, ProbesKnown, localVars
  <2>4. CASE ~(retry[t].used < retry[t].limit)
    <3>1. retry' = [retry EXCEPT ![t] = [retry[t] EXCEPT !.notBefore = None]]
      BY <2>1, <2>4 DEF PlanRetry
    <3>2. [retry[t] EXCEPT !.notBefore = None] \in RetryRow
      BY <2>2 DEF RetryRow
    <3>3. retry' \in [Task -> RetryRow]
      BY <3>1, <3>2 DEF RetryTypes
    <3> QED
      BY <1>1, <2>1, <3>3 DEF PlanRetry, RetryTypes, ProbesKnown, localVars
  <2> QED
    BY <2>3, <2>4
<1> QED
  BY <1>2, <1>3, <1>4, <1>5, <1>6 DEF ReportNext


-----------------------------------------------------------------------------
(* An invocation's own steps.                                                *)

LEMMA MovesFacts ==
    ASSUME RetryTypes, NEW o \in Invocation, NEW at, NEW next \in LocalState, Moves(o, at, next)
    PROVE  /\ local[o].at = at
           /\ local'[o].at = next
           /\ local'[o].task = local[o].task /\ local'[o].run = local[o].run
           /\ \A p \in Invocation \ {o} : local'[p] = local[p]
           /\ local' \in [Invocation -> LocalRow]
<1>1. local[o] \in LocalRow /\ local \in [Invocation -> LocalRow]
  BY DEF RetryTypes
<1>2. local[o].at = at /\ local' = [local EXCEPT ![o] = [local[o] EXCEPT !.at = next]]
  BY DEF Moves
<1>3. [local[o] EXCEPT !.at = next] \in LocalRow
  BY <1>1 DEF LocalRow
<1> QED
  BY <1>1, <1>2, <1>3 DEF LocalRow

LEMMA LocalTypes ==
    ASSUME TypeOK, RetryTypes, LocalNext, UNCHANGED retryVars
    PROVE  TypeOK' /\ RetryTypes'
<1>1. ASSUME UNCHANGED elsewhere, UNCHANGED <<runs, leases, verifier>>,
             task' \in [Task -> Status], version' \in [Task -> Nat],
             local' \in [Invocation -> LocalRow]
      PROVE  TypeOK' /\ RetryTypes'
  BY <1>1 DEF elsewhere, leaderVars, controlVars, graphVars, workerVars, TypeOK,
      RetryTypes, retryVars, ProbesKnown
<1>2. ASSUME UNCHANGED elsewhere, UNCHANGED <<task, version>>,
             runs' \in [Run -> RunRow], leases' \in [Run -> LeaseRow],
             verifier' \in [Run -> VerifierStatus],
             local' \in [Invocation -> LocalRow]
      PROVE  TypeOK' /\ RetryTypes'
  BY <1>2 DEF elsewhere, leaderVars, controlVars, graphVars, workerVars, TypeOK,
      RetryTypes, retryVars, ProbesKnown
<1>3. /\ runs \in [Run -> RunRow] /\ leases \in [Run -> LeaseRow]
      /\ verifier \in [Run -> VerifierStatus] /\ local \in [Invocation -> LocalRow]
      /\ task \in [Task -> Status] /\ version \in [Task -> Nat]
  BY DEF TypeOK, RetryTypes
<1>4. ASSUME NEW o \in Invocation, NEW at, NEW next \in LocalState, Moves(o, at, next),
             NEW from, NEW to \in Status, Transition(local[o].task, from, to),
             UNCHANGED <<elsewhere, runs, leases, verifier>>
      PROVE  TypeOK' /\ RetryTypes'
  <2>1. task' \in [Task -> Status] /\ version' \in [Task -> Nat]
    BY <1>4, TransitionType
  <2>2. local' \in [Invocation -> LocalRow]
    BY <1>4, MovesFacts
  <2> QED
    BY <1>1, <1>4, <2>1, <2>2
<1>5. \A r : VerifiedStatus(r) \in Status /\ VerifiedStatus(r) \in RunStatus
  BY DEF VerifiedStatus, Status, RunStatus
<1>6. CASE \E o \in Invocation : LeaseLocally(o) \/ LocalWorktreeFailed(o)
                                 \/ LocalWorktreeReady(o) \/ Authorized(o)
                                 \/ NotAuthorized(o) \/ LocalAgentExited(o)
                                 \/ CloseLocalVerification(o)
  <2>1. PICK o \in Invocation : LeaseLocally(o) \/ LocalWorktreeFailed(o)
                                 \/ LocalWorktreeReady(o) \/ Authorized(o)
                                 \/ NotAuthorized(o) \/ LocalAgentExited(o)
                                 \/ CloseLocalVerification(o)
    BY <1>6
  <2> USE DEF LocalState, Status
  <2>2. CASE LeaseLocally(o)
    BY <1>4, <2>2 DEF LeaseLocally
  <2>3. CASE LocalWorktreeFailed(o)
    BY <1>4, <2>3 DEF LocalWorktreeFailed
  <2>4. CASE LocalWorktreeReady(o)
    BY <1>4, <2>4 DEF LocalWorktreeReady
  <2>5. CASE Authorized(o)
    BY <1>4, <2>5 DEF Authorized
  <2>6. CASE NotAuthorized(o)
    <3>1. PICK to \in {"awaiting_approval", "blocked"} :
              Transition(local[o].task, "planning", to)
      BY <2>6 DEF NotAuthorized
    <3> QED
      BY <1>4, <2>6, <3>1 DEF NotAuthorized
  <2>7. CASE LocalAgentExited(o)
    BY <1>4, <2>7 DEF LocalAgentExited
  <2>8. CASE CloseLocalVerification(o)
    <3>1. VerifiedStatus(local[o].run) \in Status
      BY <1>5
    <3> QED
      BY <1>4, <2>8, <3>1 DEF CloseLocalVerification
  <2> QED
    BY <2>1, <2>2, <2>3, <2>4, <2>5, <2>6, <2>7, <2>8
<1>7. CASE \E o \in Invocation, r \in Run : CreateRun(o, r)
  <2>1. PICK o \in Invocation, r \in Run : CreateRun(o, r)
    BY <1>7
  <2>2. /\ runs' = [runs EXCEPT ![r] = [status |-> "running", task |-> local[o].task]]
        /\ leases' = [leases EXCEPT ![r] = [held |-> TRUE, expires |-> clock + LeaseTtl]]
        /\ local' = [local EXCEPT ![o] = [local[o] EXCEPT !.at = "working", !.run = r]]
        /\ UNCHANGED <<elsewhere, task, version, verifier>>
    BY <2>1 DEF CreateRun
  <2>3. local[o] \in LocalRow
    BY <1>3
  <2>4. [status |-> "running", task |-> local[o].task] \in RunRow
    BY <2>3 DEF RunRow, LocalRow, RunStatus
  <2>5. [held |-> TRUE, expires |-> clock + LeaseTtl] \in LeaseRow
    BY BoundAssumption DEF LeaseRow, TypeOK
  <2>6. [local[o] EXCEPT !.at = "working", !.run = r] \in LocalRow
    BY <2>3 DEF LocalRow, LocalState
  <2> QED
    BY <1>2, <1>3, <2>2, <2>4, <2>5, <2>6
<1>8. CASE \E o \in Invocation : FinishLocalRun(o)
  <2>1. PICK o \in Invocation : FinishLocalRun(o)
    BY <1>8
  <2> DEFINE r == local[o].run
  <2>2. runs' \in [Run -> RunRow]
    <3>1. runs' = [runs EXCEPT ![r].status = VerifiedStatus(r)]
      BY <2>1 DEF FinishLocalRun
    <3>2. CASE r \in Run
      <4>1. [runs[r] EXCEPT !.status = VerifiedStatus(r)] \in RunRow
        BY <1>3, <1>5, <3>2 DEF RunRow
      <4> QED
        BY <1>3, <3>1, <4>1
    <3>3. CASE r \notin Run
      BY <1>3, <3>1, <3>3
    <3> QED
      BY <3>2, <3>3
  <2>3. leases' \in [Run -> LeaseRow]
    BY <1>3, <2>1 DEF FinishLocalRun, NoLease, LeaseRow
  <2>4. Moves(o, "closing", "done") /\ UNCHANGED <<elsewhere, task, version, verifier>>
    BY <2>1 DEF FinishLocalRun
  <2>5. local' \in [Invocation -> LocalRow]
    BY <2>4, MovesFacts DEF LocalState
  <2> QED
    BY <1>2, <1>3, <2>2, <2>3, <2>4, <2>5
<1>9. CASE \E o \in Invocation : CreateLocalVerifier(o) \/ LocalDies(o)
  <2>1. PICK o \in Invocation : CreateLocalVerifier(o) \/ LocalDies(o)
    BY <1>9
  <2>2. PICK at, next \in LocalState : Moves(o, at, next)
    <3>1. CASE CreateLocalVerifier(o)
      BY <3>1 DEF CreateLocalVerifier, LocalState
    <3>2. CASE LocalDies(o)
      <4>1. Moves(o, local[o].at, "dead")
        BY <3>2 DEF LocalDies, Moves
      <4>2. local[o].at \in LocalState /\ "dead" \in LocalState
        BY <1>3 DEF LocalRow, LocalState
      <4> QED
        BY <4>1, <4>2
    <3> QED
      BY <2>1, <3>1, <3>2
  <2>3. verifier' \in [Run -> VerifierStatus]
    BY <1>3, <2>1 DEF CreateLocalVerifier, LocalDies, VerifierStatus
  <2>4. UNCHANGED <<elsewhere, task, version, runs, leases>>
    BY <2>1 DEF CreateLocalVerifier, LocalDies
  <2> QED
    BY <1>2, <1>3, <2>2, <2>3, <2>4, MovesFacts
<1>10. CASE \E o \in Invocation, passed \in BOOLEAN : FinishLocalVerifier(o, passed)
  <2>1. PICK o \in Invocation, passed \in BOOLEAN : FinishLocalVerifier(o, passed)
    BY <1>10
  <2>2. Moves(o, "checking", "checked") /\ UNCHANGED <<elsewhere, task, version, runs, leases>>
    BY <2>1 DEF FinishLocalVerifier
  <2>3. verifier' \in [Run -> VerifierStatus]
    BY <1>3, <2>1 DEF FinishLocalVerifier, VerifierStatus
  <2>4. local' \in [Invocation -> LocalRow]
    BY <2>2, MovesFacts DEF LocalState
  <2> QED
    BY <1>2, <1>3, <2>2, <2>3, <2>4
<1> QED
  BY <1>6, <1>7, <1>8, <1>9, <1>10 DEF LocalNext


-----------------------------------------------------------------------------
(* The invariant.  Who may change a task is a token of it: an active claim,  *)
(* a leased run, or an invocation that has taken the task and not started    *)
(* its run.  A task has at most one token, and none while it waits or while  *)
(* a retry of it is still to be planned.                                     *)

Promised == {"leased", "planning", "authorized"}
Executing == {"working", "exited", "checking", "checked", "closing"}
Vacant == {"draft", "ready", "paused", "cancelled"}

ClaimsFor(t) == {c \in Active : claims[c].task = t}
PromisedTo(t) == {o \in Invocation : local[o].at \in Promised /\ local[o].task = t}
Tokens(t) ==
    {<<"claim", c>> : c \in ClaimsFor(t)} \cup {<<"run", r>> : r \in LeasedRunsOf(t)}
        \cup {<<"local", o>> : o \in PromisedTo(t)}

Alone(S) == \A x, y \in S : x = y

\* A process has recorded its failure and has not reported it to the end.
Pending(c) == report[c].of \in {"circuit", "retry"} /\ report[c].failure = "process_failed"
PendingOf(t) == {c \in Claim : Pending(c) /\ claims[c].task = t}

TokensInv ==
    \A t \in Task :
        /\ Alone(Tokens(t))
        /\ task[t] \in Vacant => Tokens(t) = {}
        /\ Alone(PendingOf(t))
        /\ PendingOf(t) # {} => task[t] = "failed" /\ Tokens(t) = {}

\* Runs know their tasks, and claims and invocations their runs.
StartsLinked ==
    /\ \A r \in Run : /\ runs[r].status # "unused" => runs[r].task \in Task
                      /\ runs[r].status = "unused" => runs[r].task = None
    /\ \A r \in Run : runs[r].status = "running" => leases[r].held
    /\ \A c \in Claim : claims[c].status = "consumed" =>
            runs[claims[c].run].task = claims[c].task

LocalsLinked ==
    \A o \in Invocation :
        /\ local[o].at \in {"routed"} \cup Promised => local[o].task \in Task
        /\ local[o].at \in Executing => local[o].run \in Run
        /\ local[o].run # None =>
                /\ runs[local[o].run].status # "unused"
                /\ runs[local[o].run].task = local[o].task
                /\ \A c \in Claim : claims[c].run # local[o].run
                /\ \A p \in Invocation \ {o} : local[p].run # local[o].run

ReportsLinked ==
    \A c \in Claim :
        /\ report[c].of # "nothing" => claims[c].status = "consumed"
        /\ report[c].of = "retry" => report[c].failure = "process_failed"

DispatchInv ==
    /\ TypeOK /\ RetryTypes
    /\ LockInv
    /\ StartsLinked /\ LocalsLinked /\ ReportsLinked
    /\ TokensInv

\* Who executes a task has a token of it, and nobody else has the same.
LEMMA ExecutorsAlone ==
    ASSUME DispatchInv, NEW t \in Task, NEW x \in Executors(t), NEW y \in Executors(t)
    PROVE  x = y
<1> DEFINE Claims == {c \in Claim : /\ claims[c].task = t /\ Holding(c)
                                    /\ worker[c] \notin {"idle", "done", "dead"}}
           Locals == {o \in Invocation : /\ local[o].task = t
                                         /\ local[o].at \notin {"idle", "routed", "done", "dead"}
                                         /\ local[o].run # None => leases[local[o].run].held}
           Held(c) == <<"claim", c>> \in Tokens(t) \/ <<"run", claims[c].run>> \in Tokens(t)
<1>1. ASSUME NEW c \in Claims
      PROVE  \/ claims[c].status = "active" /\ <<"claim", c>> \in Tokens(t)
             \/ /\ claims[c].status = "consumed"
                /\ claims[c].run \in Run
                /\ <<"run", claims[c].run>> \in Tokens(t)
  <2>1. CASE claims[c].status = "active"
    BY <2>1 DEF Tokens, ClaimsFor, Active
  <2>2. CASE claims[c].status = "consumed" /\ leases[claims[c].run].held
    <3>1. claims[c].run \in Run /\ runs[claims[c].run].task = t
      BY <2>2 DEF DispatchInv, LockInv, ClaimsLinked, StartsLinked
    <3>2. claims[c].run \in LeasedRunsOf(t)
      BY <2>2, <3>1 DEF LeasedRunsOf
    <3> QED
      BY <2>2, <3>1, <3>2 DEF Tokens
  <2> QED
    BY <2>1, <2>2 DEF Holding
<1>2. ASSUME NEW o \in Locals
      PROVE  \/ <<"local", o>> \in Tokens(t)
             \/ local[o].run \in Run /\ <<"run", local[o].run>> \in Tokens(t)
  <2>1. local[o].at \in Promised \cup Executing
    BY DEF DispatchInv, RetryTypes, LocalRow, LocalState, Promised, Executing
  <2>2. CASE local[o].at \in Promised
    BY <2>2 DEF Tokens, PromisedTo
  <2>3. CASE local[o].at \in Executing
    <3>1. local[o].run \in Run /\ local[o].run # None
      BY <2>3, IdentityAssumption DEF DispatchInv, LocalsLinked
    <3>2. leases[local[o].run].held /\ runs[local[o].run].task = t
      BY <3>1 DEF DispatchInv, LocalsLinked
    <3>3. local[o].run \in LeasedRunsOf(t)
      BY <3>1, <3>2 DEF LeasedRunsOf
    <3> QED
      BY <3>1, <3>3 DEF Tokens
  <2> QED
    BY <2>1, <2>2, <2>3
<1>3. \A p, q \in Tokens(t) : p = q
  BY DEF DispatchInv, TokensInv, Alone
<1>4. ASSUME NEW c \in Claims, NEW d \in Claims PROVE c = d
  <2>1. CASE claims[c].status = "active" /\ <<"claim", c>> \in Tokens(t)
    <3>1. ~(claims[d].run \in Run /\ <<"run", claims[d].run>> \in Tokens(t))
      BY <1>3, <2>1
    <3>2. <<"claim", d>> \in Tokens(t)
      BY <1>1, <3>1
    <3> QED
      BY <1>3, <2>1, <3>2
  <2>2. CASE claims[c].status = "consumed" /\ <<"run", claims[c].run>> \in Tokens(t)
    <3>1. ~(<<"claim", d>> \in Tokens(t))
      BY <1>3, <2>2
    <3>2. claims[d].status = "consumed" /\ <<"run", claims[d].run>> \in Tokens(t)
      BY <1>1, <3>1
    <3>3. claims[c].run = claims[d].run
      BY <1>3, <2>2, <3>2
    <3> QED
      BY <2>2, <3>2, <3>3 DEF DispatchInv, LockInv, ClaimsLinked
  <2> QED
    BY <1>1, <2>1, <2>2
<1>5. ASSUME NEW c \in Claims, NEW o \in Locals PROVE FALSE
  <2>1. <<"local", o>> \notin Tokens(t)
    BY <1>1, <1>3
  <2>2. local[o].run \in Run /\ <<"run", local[o].run>> \in Tokens(t)
    BY <1>2, <2>1
  <2>3. <<"run", claims[c].run>> \in Tokens(t)
    BY <1>1, <1>3, <2>2
  <2>4. claims[c].run = local[o].run
    BY <1>3, <2>2, <2>3
  <2> QED
    BY <2>2, <2>4, IdentityAssumption DEF DispatchInv, LocalsLinked
<1>6. ASSUME NEW o \in Locals, NEW p \in Locals PROVE o = p
  <2>1. CASE <<"local", o>> \in Tokens(t)
    <3>1. ~(local[p].run \in Run /\ <<"run", local[p].run>> \in Tokens(t))
      BY <1>3, <2>1
    <3>2. <<"local", p>> \in Tokens(t)
      BY <1>2, <3>1
    <3> QED
      BY <1>3, <2>1, <3>2
  <2>2. CASE local[o].run \in Run /\ <<"run", local[o].run>> \in Tokens(t)
    <3>1. ~(<<"local", p>> \in Tokens(t))
      BY <1>3, <2>2
    <3>2. local[p].run \in Run /\ <<"run", local[p].run>> \in Tokens(t)
      BY <1>2, <3>1
    <3>3. local[o].run = local[p].run /\ local[o].run # None
      BY <1>3, <2>2, <3>2, IdentityAssumption
    <3> QED
      BY <3>3 DEF DispatchInv, LocalsLinked
  <2> QED
    BY <1>2, <2>1, <2>2
<1>7. Executors(t) = Claims \cup Locals
  BY DEF Executors
<1> HIDE DEF Claims, Locals
<1> QED
  BY <1>4, <1>5, <1>6, <1>7



-----------------------------------------------------------------------------
(* What a step does to the runs and claims that have started, and to a task. *)

RunsCarried ==
    \A r \in Run :
        /\ runs'[r].task = runs[r].task
        /\ runs'[r].status = "unused" <=> runs[r].status = "unused"
        /\ leases'[r].held => leases[r].held
        /\ runs'[r].status = "running" =>
                runs[r].status = "running" /\ (leases[r].held => leases'[r].held)

ClaimsCarried ==
    \A c \in Claim :
        /\ claims'[c].run = claims[c].run
        /\ claims'[c].status = "consumed" <=> claims[c].status = "consumed"
        /\ claims[c].status = "consumed" => claims'[c].task = claims[c].task

\* The task waits for a first run, or for one that its budget paid already.
Owed(t) == task[t] \in {"draft", "ready"} \/ ClaimsFor(t) # {} \/ PromisedTo(t) # {}

\* Its last dependency is completed in this step.
Unblocked(t) ==
    ~DependenciesComplete(t) /\ \A d \in dependsOn[t] : task'[d] = "completed"

\* No token is added, and the task does not wait while it has one.
Carries(t) ==
    /\ Tokens(t)' \subseteq Tokens(t)
    /\ RunsOf(t)' = RunsOf(t)
    /\ task'[t] \in Vacant => task[t] \in Vacant \/ Tokens(t)' = {}
    /\ task[t] = "failed" => task'[t] = "failed"
    /\ task'[t] \in {"draft", "ready"} => Owed(t) \/ Unblocked(t)

\* A task that waits takes a token.
Promises(t) ==
    /\ Alone(Tokens(t))'
    /\ RunsOf(t)' = RunsOf(t)
    /\ task'[t] \notin Vacant
    /\ task[t] # "failed"
    /\ Owed(t)

\* Its token turns into a new run.
Starts(t) ==
    \E r \in Run :
        /\ Tokens(t)' \subseteq {<<"run", r>>}
        /\ RunsOf(t)' = RunsOf(t) \cup {r}
        /\ task'[t] \notin Vacant
        /\ Tokens(t) # {}
        /\ Owed(t)

\* How far a task may go while no report of it is made or planned for.
Advances(t) == Carries(t) \/ Promises(t) \/ Starts(t)

LEMMA TokensLess ==
    ASSUME NEW t \in Task, ClaimsFor(t)' \subseteq ClaimsFor(t),
           LeasedRunsOf(t)' \subseteq LeasedRunsOf(t),
           PromisedTo(t)' \subseteq PromisedTo(t)
    PROVE  Tokens(t)' \subseteq Tokens(t)
BY DEF Tokens

LEMMA CarriedRuns ==
    ASSUME RunsCarried, NEW t
    PROVE  RunsOf(t)' = RunsOf(t) /\ LeasedRunsOf(t)' \subseteq LeasedRunsOf(t)
BY DEF RunsCarried, RunsOf, LeasedRunsOf

LEMMA CarriedPending ==
    ASSUME ReportsLinked, ClaimsCarried, report' = report, NEW t
    PROVE  PendingOf(t)' \subseteq PendingOf(t)
<1>1. ASSUME NEW c \in Claim, Pending(c)', claims'[c].task = t
      PROVE  Pending(c) /\ claims[c].task = t
  <2>1. Pending(c) /\ report[c].of # "nothing"
    BY <1>1 DEF Pending
  <2>2. claims[c].status = "consumed"
    BY <2>1 DEF ReportsLinked
  <2> QED
    BY <1>1, <2>1, <2>2 DEF ClaimsCarried
<1> QED
  BY <1>1 DEF PendingOf

LEMMA CarriedLinks ==
    ASSUME RunsCarried, ClaimsCarried, LockInv, StartsLinked
    PROVE  StartsLinked'
<1>1. ASSUME NEW c \in Claim, claims'[c].status = "consumed"
      PROVE  runs'[claims'[c].run].task = claims'[c].task
  <2>1. /\ claims[c].status = "consumed" /\ claims[c].run \in Run
        /\ runs[claims[c].run].task = claims[c].task
    BY <1>1 DEF ClaimsCarried, LockInv, ClaimsLinked, StartsLinked
  <2> QED
    BY <2>1 DEF ClaimsCarried, RunsCarried
<1> QED
  BY <1>1 DEF RunsCarried, StartsLinked

LEMMA CarriedLocals ==
    ASSUME RunsCarried, ClaimsCarried, RetryTypes, LocalsLinked, local' = local
    PROVE  LocalsLinked'
<1>1. ASSUME NEW o \in Invocation, local[o].run # None
      PROVE  local[o].run \in Run
  BY <1>1 DEF RetryTypes, LocalRow
<1> QED
  BY <1>1 DEF RunsCarried, ClaimsCarried, LocalsLinked

LEMMA CarriedReports ==
    ASSUME ClaimsCarried, ReportsLinked, report' = report
    PROVE  ReportsLinked'
BY DEF ClaimsCarried, ReportsLinked


-----------------------------------------------------------------------------
(* Calls of the control plane.                                               *)

\* What a claim that ends, and a run that ends, mean for a task.
LEMMA EndCarries ==
    ASSUME TypeOK, LockInv, TokensInv, NEW gone, EndStep(gone), local' = local
    PROVE  RunsCarried /\ ClaimsCarried /\ \A t \in Task : Carries(t)
<1>1. PICK to \in {"ready", "paused"} : task' = TaskAfter(gone, to)
  BY DEF EndStep
<1>2. /\ gone \subseteq Active /\ UNCHANGED <<runs, leases>>
      /\ \A c \in Claim : claims'[c].task = claims[c].task /\ claims'[c].run = claims[c].run
      /\ \A c \in Claim \ gone : claims'[c].status = claims[c].status
      /\ \A c \in gone : /\ claims[c].status = "active"
                         /\ claims'[c].status \notin {"active", "consumed"}
  BY DEF EndStep, SameLink, Active
<1>3. RunsCarried
  BY <1>2 DEF RunsCarried
<1>4. ClaimsCarried
  BY <1>2 DEF ClaimsCarried
<1>5. ASSUME NEW t \in Task
      PROVE  Carries(t)
  <2>1. ClaimsFor(t)' \subseteq ClaimsFor(t) \ gone
    BY <1>2 DEF ClaimsFor, Active
  <2>2. LeasedRunsOf(t)' = LeasedRunsOf(t) /\ PromisedTo(t)' = PromisedTo(t)
    BY <1>2 DEF LeasedRunsOf, PromisedTo
  <2>3. Tokens(t)' \subseteq Tokens(t)
    BY <2>1, <2>2, TokensLess
  <2>4. CASE t \in Returned(gone)
    <3>1. PICK c \in gone : claims[c].task = t
      BY <2>4 DEF Returned
    <3>2. task[t] = "leased" /\ c \in ClaimsFor(t)
      BY <1>2, <2>4, <3>1 DEF Returned, ClaimsFor
    <3>3. <<"claim", c>> \in Tokens(t) /\ <<"claim", c>> \notin Tokens(t)'
      <4>1. <<"claim", c>> \in Tokens(t)
        BY <3>2 DEF Tokens
      <4>2. c \notin ClaimsFor(t)'
        BY <2>1
      <4> QED
        BY <4>1, <4>2 DEF Tokens
    <3>4. Tokens(t)' = {}
      BY <2>3, <3>3 DEF TokensInv, Alone
    <3> QED
      BY <1>3, <2>3, <3>2, <3>4, CarriedRuns DEF Carries, Owed
  <2>5. CASE t \notin Returned(gone)
    <3>1. task'[t] = task[t]
      BY <1>1, <2>5 DEF TaskAfter
    <3> QED
      BY <1>3, <2>3, <3>1, CarriedRuns DEF Carries, Owed
  <2> QED
    BY <2>4, <2>5
<1> QED
  BY <1>3, <1>4, <1>5

LEMMA MoveCarries ==
    ASSUME TokensInv, MoveStep, local' = local
    PROVE  RunsCarried /\ ClaimsCarried /\ \A t \in Task : Carries(t)
<1>1. /\ UNCHANGED <<claims, runs>>
      /\ \A r \in Run : leases'[r].held = leases[r].held
  BY DEF MoveStep, IdleStep
<1>2. RunsCarried /\ ClaimsCarried
  BY <1>1 DEF RunsCarried, ClaimsCarried
<1>3. ASSUME NEW t \in Task
      PROVE  Carries(t)
  <2>1. /\ ClaimsFor(t)' = ClaimsFor(t) /\ LeasedRunsOf(t)' = LeasedRunsOf(t)
        /\ PromisedTo(t)' = PromisedTo(t)
    BY <1>1 DEF ClaimsFor, Active, LeasedRunsOf, PromisedTo
  <2>2. Tokens(t)' \subseteq Tokens(t) /\ RunsOf(t)' = RunsOf(t)
    BY <1>2, <2>1, TokensLess, CarriedRuns
  <2>3. Follows(t)
    BY DEF MoveStep
  <2>4. task'[t] \in Vacant => task[t] \in Vacant
    BY <2>3 DEF Follows, Waiting, Vacant
  <2>5. task[t] = "failed" => task'[t] = "failed"
    BY <2>3 DEF Follows
  <2>6. task'[t] \in {"draft", "ready"} => Owed(t) \/ Unblocked(t)
    BY <2>3 DEF Follows, Owed, Unblocked
  <2> QED
    BY <2>2, <2>4, <2>5, <2>6 DEF Carries
<1> QED
  BY <1>2, <1>3

\* The runs in "ended" end; a task that starts to wait had one of them.
LEMMA ReleaseCarries ==
    ASSUME TypeOK, TokensInv, NEW ended, ReleaseRuns(ended),
           UNCHANGED <<claims, local>>,
           \A r \in Run : /\ runs'[r].task = runs[r].task
                          /\ r \in ended => /\ runs[r].status # "unused"
                                            /\ runs'[r].status \notin {"unused", "running"}
                          /\ r \notin ended => runs'[r] = runs[r],
           \A t \in Task : \/ task'[t] = task[t]
                           \/ /\ task[t] # "failed"
                              /\ task'[t] \notin {"draft", "ready"}
                              /\ \E r \in Run \cap ended : r \in LeasedRunsOf(t)
    PROVE  /\ RunsCarried /\ ClaimsCarried
           /\ \A t \in Task : Carries(t)
           /\ \A t \in Task : task'[t] # task[t] => Tokens(t) # {} /\ Tokens(t)' = {}
<1>1. \A r \in Run : leases'[r] = IF r \in ended THEN NoLease ELSE leases[r]
  BY DEF ReleaseRuns
<1>2. RunsCarried
  BY <1>1 DEF RunsCarried, NoLease
<1>3. ClaimsCarried
  BY DEF ClaimsCarried
<1>4. ASSUME NEW t \in Task
      PROVE  /\ Carries(t)
             /\ task'[t] # task[t] => Tokens(t) # {} /\ Tokens(t)' = {}
  <2>1. ClaimsFor(t)' = ClaimsFor(t) /\ PromisedTo(t)' = PromisedTo(t)
    BY DEF ClaimsFor, Active, PromisedTo
  <2>2. Tokens(t)' \subseteq Tokens(t) /\ RunsOf(t)' = RunsOf(t)
    BY <1>2, <2>1, TokensLess, CarriedRuns
  <2>3. CASE task'[t] = task[t]
    BY <2>2, <2>3 DEF Carries, Owed
  <2>4. CASE /\ task[t] # "failed" /\ task'[t] \notin {"draft", "ready"}
             /\ \E r \in Run \cap ended : r \in LeasedRunsOf(t)
    <3>1. PICK r \in Run \cap ended : r \in LeasedRunsOf(t)
      BY <2>4
    <3>2. r \notin LeasedRunsOf(t)'
      BY <1>1, <3>1 DEF LeasedRunsOf, NoLease
    <3>3. <<"run", r>> \in Tokens(t) /\ <<"run", r>> \notin Tokens(t)'
      BY <3>1, <3>2 DEF Tokens
    <3>4. Tokens(t)' = {}
      BY <2>2, <3>3 DEF TokensInv, Alone
    <3> QED
      BY <2>2, <2>4, <3>3, <3>4 DEF Carries
  <2> QED
    BY <2>3, <2>4
<1> QED
  BY <1>2, <1>3, <1>4


LEMMA FinishCarries ==
    ASSUME TypeOK, LockInv, TokensInv, NEW c \in Claim, FinishRun(c), local' = local
    PROVE  RunsCarried /\ ClaimsCarried /\ \A t \in Task : Carries(t)
<1> DEFINE r == claims[c].run
<1>1. /\ runs' = [runs EXCEPT ![r].status = VerifiedStatus(r)]
      /\ ReleaseRuns({r})
      /\ UNCHANGED <<task, claims>>
      /\ worker[c] \notin Unstarted
  BY DEF FinishRun, Goes, Unstarted
<1>2. r \in Run /\ runs[r].status # "unused"
  BY <1>1 DEF LockInv, ClaimsLinked, WorkersLinked
<1>3. VerifiedStatus(r) \in {"review", "failed"}
  BY DEF VerifiedStatus
<1> HIDE DEF r
<1>4. \A q \in Run : /\ runs'[q].task = runs[q].task
                     /\ q \in {r} => /\ runs[q].status # "unused"
                                     /\ runs'[q].status \notin {"unused", "running"}
                     /\ q \notin {r} => runs'[q] = runs[q]
  <2>1. runs \in [Run -> RunRow] /\ \A q \in Run : runs[q] \in RunRow
    BY DEF TypeOK
  <2> QED
    BY <1>1, <1>2, <1>3, <2>1 DEF RunRow
<1>5. \A t \in Task : task'[t] = task[t]
  BY <1>1
<1> QED
  BY <1>1, <1>4, <1>5, ReleaseCarries

\* The task of a process that reports, before and after.
LEMMA OutcomeCarries ==
    ASSUME TypeOK, LockInv, StartsLinked, TokensInv,
           NEW c \in Claim, RecordProcessOutcome(c), local' = local
    PROVE  /\ RunsCarried /\ ClaimsCarried
           /\ \A t \in Task : Carries(t)
           /\ claims[c].status = "consumed"
           /\ \E t \in Task :
                /\ claims[c].task = t
                /\ Tokens(t) # {} /\ Tokens(t)' = {}
                /\ task'[t] \in {"paused", "cancelled", "failed"}
                /\ worker[c] # "terminating" => task'[t] = "failed"
<1> DEFINE r == claims[c].run
<1>1. PICK outcome \in {"paused", "cancelled", "failed"} :
            /\ worker[c] # "terminating" => outcome = "failed"
            /\ Transition(runs[r].task, "running", outcome)
            /\ runs' = [runs EXCEPT ![r].status = outcome]
  BY DEF RecordProcessOutcome
<1>2. /\ runs[r].status = "running"
      /\ ReleaseRuns({r})
      /\ UNCHANGED claims
      /\ worker[c] \notin Unstarted
  BY DEF RecordProcessOutcome, Goes, Unstarted
<1> DEFINE t == claims[c].task
<1>3. /\ claims[c].status = "consumed" /\ r \in Run
      /\ runs[r].task = t /\ t \in Task
      /\ leases[r].held
  BY <1>2 DEF LockInv, ClaimsLinked, WorkersLinked, StartsLinked
<1> HIDE DEF r, t
<1>4. \A q \in Run : /\ runs'[q].task = runs[q].task
                     /\ q \in {r} => /\ runs[q].status # "unused"
                                     /\ runs'[q].status \notin {"unused", "running"}
                     /\ q \notin {r} => runs'[q] = runs[q]
  <2>1. runs \in [Run -> RunRow] /\ \A q \in Run : runs[q] \in RunRow
    BY DEF TypeOK
  <2> QED
    BY <1>1, <1>2, <1>3, <2>1 DEF RunRow
<1>5. /\ task[t] = "running" /\ task'[t] = outcome
      /\ \A u \in Task \ {t} : task'[u] = task[u]
  BY <1>1, <1>3 DEF Transition, TypeOK
<1>6. \A u \in Task : \/ task'[u] = task[u]
                      \/ /\ task[u] # "failed"
                         /\ task'[u] \notin {"draft", "ready"}
                         /\ \E q \in Run \cap {r} : q \in LeasedRunsOf(u)
  BY <1>3, <1>5 DEF LeasedRunsOf
<1>7. /\ RunsCarried /\ ClaimsCarried
      /\ \A u \in Task : Carries(u)
      /\ \A u \in Task : task'[u] # task[u] => Tokens(u) # {} /\ Tokens(u)' = {}
  BY <1>2, <1>4, <1>6, ReleaseCarries
<1>8. PICK u \in Task : u = t
  BY <1>3
<1>9. Tokens(u) # {} /\ Tokens(u)' = {}
  BY <1>1, <1>5, <1>7, <1>8
<1> QED
  BY <1>1, <1>3, <1>5, <1>7, <1>8, <1>9 DEF t

LEMMA RecoveryCarries ==
    ASSUME TypeOK, LockInv, StartsLinked, TokensInv,
           NEW now, RecoverExpiredLeases(now), local' = local
    PROVE  RunsCarried /\ ClaimsCarried /\ \A t \in Task : Carries(t)
<1> DEFINE lost == ExpiredLeases(now)
<1>1. /\ task' = [t \in Task |-> IF ExpiredLeasesOf(t, now) # {} THEN "paused" ELSE task[t]]
      /\ runs' = [r \in Run |-> IF r \in lost THEN [runs[r] EXCEPT !.status = "orphaned"]
                                              ELSE runs[r]]
      /\ ReleaseRuns(lost)
      /\ UNCHANGED claims
  BY DEF RecoverExpiredLeases
<1>2. ASSUME NEW r \in lost
      PROVE  /\ r \in Run /\ leases[r].held /\ runs[r].status # "unused"
             /\ task[runs[r].task] \in Recoverable
  BY DEF ExpiredLeases, LockInv, LeasesLinked
<1>3. \A r \in Run : /\ runs'[r].task = runs[r].task
                     /\ r \in lost => /\ runs[r].status # "unused"
                                      /\ runs'[r].status \notin {"unused", "running"}
                     /\ r \notin lost => runs'[r] = runs[r]
  <2>1. \A r \in Run : runs[r] \in RunRow
    BY DEF TypeOK
  <2> HIDE DEF lost
  <2> QED
    BY <1>1, <1>2, <2>1 DEF RunRow
<1>4. ASSUME NEW t \in Task, task'[t] # task[t]
      PROVE  /\ task[t] # "failed" /\ task'[t] \notin {"draft", "ready"}
             /\ \E r \in Run \cap lost : r \in LeasedRunsOf(t)
  <2>1. ExpiredLeasesOf(t, now) # {} /\ task'[t] = "paused"
    BY <1>1, <1>4
  <2>2. PICK r \in lost : runs[r].task = t
    BY <2>1 DEF ExpiredLeasesOf
  <2> QED
    BY <1>2, <2>1, <2>2 DEF LeasedRunsOf, Recoverable
<1> HIDE DEF lost
<1> QED
  BY <1>1, <1>3, <1>4, ReleaseCarries

LEMMA ControlCarries ==
    ASSUME DispatchInv, [Next]_vars, ~ClaimStep, ~BeginStep, local' = local
    PROVE  RunsCarried /\ ClaimsCarried /\ \A t \in Task : Carries(t)
<1>1. TypeOK /\ LockInv /\ StartsLinked /\ TokensInv
  BY DEF DispatchInv
<1>2. RunsLinked
  BY <1>1 DEF StartsLinked, RunsLinked
<1>3. CASE \E gone : EndStep(gone)
  BY <1>1, <1>3, EndCarries
<1>4. CASE \E c \in Claim : FinishRun(c)
  BY <1>1, <1>4, FinishCarries
<1>5. CASE \E c \in Claim : RecordProcessOutcome(c)
  BY <1>1, <1>5, OutcomeCarries
<1>6. CASE \E now \in Observed : RecoverExpiredLeases(now)
  BY <1>1, <1>6, RecoveryCarries
<1>7. CASE MoveStep
  BY <1>1, <1>7, MoveCarries
<1> QED
  BY <1>1, <1>2, <1>3, <1>4, <1>5, <1>6, <1>7, MoveSteps

LEMMA ClaimCarries ==
    ASSUME DispatchInv, NEW i \in Instance, NEW g \in 1..MaxGeneration, NEW c \in Claim,
           NEW now, ClaimTask(i, g, c, now), local' = local
    PROVE  RunsCarried /\ ClaimsCarried /\ \A t \in Task : Carries(t) \/ Promises(t)
<1> DEFINE gone == ExpiredAt(now)
<1>1. TypeOK /\ LockInv /\ TokensInv
  BY DEF DispatchInv
<1> PICK t \in Task : t = planned[i].task
  BY <1>1, ClaimFacts
<1>2. /\ claims[c].status = "unused"
      /\ claims'[c].status = "active"
      /\ claims'[c].task = t /\ claims'[c].run = None
      /\ UNCHANGED <<runs, leases>>
      /\ \A d \in Claim \ {c} :
            /\ claims'[d].task = claims[d].task /\ claims'[d].run = claims[d].run
            /\ d \in gone => claims'[d].status = "expired"
            /\ d \notin gone => claims'[d] = claims[d]
  BY <1>1, ClaimFacts DEF SameLink
<1>3. /\ task[t] = "ready" \/ t \in Returned(gone)
      /\ task'[t] = "leased"
      /\ \A d \in Active \ gone : claims[d].task # t
      /\ \A u \in Task \ {t} :
            \/ u \in Returned(gone) /\ task[u] = "leased" /\ task'[u] = "ready"
            \/ u \notin Returned(gone) /\ task'[u] = task[u]
  BY <1>1, ClaimedTasks
<1>4. gone \subseteq Active /\ Active \subseteq Claim \ {c}
  BY <1>2 DEF ExpiredAt, Active
<1> HIDE DEF gone
<1>5. Active' = (Active \ gone) \cup {c}
  BY <1>2, <1>4 DEF Active
<1>6. RunsCarried
  BY <1>2 DEF RunsCarried
<1>7. claims[c].run = None
  BY <1>1, <1>2 DEF LockInv, ClaimsLinked
<1>8. ClaimsCarried
  <2>1. \A d \in gone : claims[d].status = "active"
    BY <1>4 DEF Active
  <2> QED
    BY <1>2, <1>7, <2>1 DEF ClaimsCarried
<1>9. ASSUME NEW u \in Task
      PROVE  /\ LeasedRunsOf(u)' = LeasedRunsOf(u) /\ PromisedTo(u)' = PromisedTo(u)
             /\ RunsOf(u)' = RunsOf(u)
  BY <1>2 DEF LeasedRunsOf, PromisedTo, RunsOf
\* A task that is handed back had the claim that ended, and nothing else.
<1>10. ASSUME NEW u \in Task, u \in Returned(gone)
       PROVE  \E d \in gone : d \in ClaimsFor(u) /\ Tokens(u) = {<<"claim", d>>}
  <2>1. PICK d \in gone : claims[d].task = u
    BY <1>10 DEF Returned
  <2>2. d \in ClaimsFor(u)
    BY <1>4, <2>1 DEF ClaimsFor
  <2>3. <<"claim", d>> \in Tokens(u)
    BY <2>2 DEF Tokens
  <2>4. Tokens(u) = {<<"claim", d>>}
    BY <1>1, <2>3 DEF TokensInv, Alone
  <2> QED
    BY <2>2, <2>4
<1>11. ASSUME NEW u \in Task \ {t} PROVE Carries(u)
  <2>1. ClaimsFor(u)' \subseteq ClaimsFor(u) \ gone
    BY <1>2, <1>4, <1>5, <1>11 DEF ClaimsFor
  <2>2. Tokens(u)' \subseteq Tokens(u)
    BY <1>9, <2>1, TokensLess
  <2>3. CASE u \in Returned(gone)
    <3>1. PICK d \in gone : d \in ClaimsFor(u) /\ Tokens(u) = {<<"claim", d>>}
      BY <1>10, <2>3
    <3>2. <<"claim", d>> \notin Tokens(u)'
      BY <2>1 DEF Tokens
    <3>3. Tokens(u)' = {}
      BY <2>2, <3>1, <3>2
    <3> QED
      BY <1>3, <1>9, <2>2, <2>3, <3>1, <3>3 DEF Carries, Owed
  <2>4. CASE u \notin Returned(gone)
    BY <1>3, <1>9, <2>2, <2>4 DEF Carries, Owed
  <2> QED
    BY <2>3, <2>4
<1>12. Promises(t)
  <2>1. ClaimsFor(t)' \subseteq {c}
    BY <1>2, <1>3, <1>4, <1>5 DEF ClaimsFor
  <2>2. LeasedRunsOf(t) = {} /\ PromisedTo(t) = {} /\ Owed(t) /\ task[t] # "failed"
    <3>1. CASE task[t] = "ready"
      <4>1. Tokens(t) = {}
        BY <1>1, <1>2, <3>1 DEF TokensInv, Vacant
      <4> QED
        BY <3>1, <4>1 DEF Tokens, Owed
    <3>2. CASE t \in Returned(gone)
      <4>1. PICK d \in gone : d \in ClaimsFor(t) /\ Tokens(t) = {<<"claim", d>>}
        BY <1>2, <1>10, <3>2
      <4>2. /\ \A r \in LeasedRunsOf(t) : <<"run", r>> \in Tokens(t)
            /\ \A o \in PromisedTo(t) : <<"local", o>> \in Tokens(t)
        BY DEF Tokens
      <4>3. LeasedRunsOf(t) = {} /\ PromisedTo(t) = {}
        BY <4>1, <4>2
      <4>4. task[t] = "leased"
        BY <3>2 DEF Returned
      <4> QED
        BY <4>1, <4>3, <4>4 DEF Owed
    <3> QED
      BY <1>3, <3>1, <3>2
  <2>3. Tokens(t)' \subseteq {<<"claim", c>>}
    BY <1>2, <1>9, <2>1, <2>2 DEF Tokens
  <2>4. Alone(Tokens(t))'
    BY <2>3 DEF Alone
  <2> QED
    BY <1>2, <1>3, <1>9, <2>2, <2>4 DEF Promises, Vacant
<1> QED
  BY <1>6, <1>8, <1>11, <1>12


\* The links and the reports that a step keeps.
Linked ==
    /\ StartsLinked' /\ LocalsLinked' /\ ReportsLinked'
    /\ \A t \in Task : PendingOf(t)' \subseteq PendingOf(t)

LEMMA CarriedLinked ==
    ASSUME DispatchInv, RunsCarried, ClaimsCarried, local' = local, report' = report
    PROVE  Linked
BY CarriedPending, CarriedLinks, CarriedLocals, CarriedReports DEF DispatchInv, Linked

LEMMA BeginTakes ==
    ASSUME DispatchInv, NEW c \in Claim, NEW r \in Run, NEW now,
           BeginClaimedRun(c, r, now), local' = local, report' = report
    PROVE  Linked /\ \A t \in Task : Carries(t) \/ Starts(t)
<1>1. TypeOK /\ LockInv /\ TokensInv /\ StartsLinked /\ LocalsLinked /\ ReportsLinked
  BY DEF DispatchInv
<1>2. PICK t \in Task : t = claims[c].task
  BY <1>1, BegunRun
<1>3. /\ claims[c].status = "active" /\ runs[r].status = "unused"
      /\ claims'[c].status = "consumed" /\ claims'[c].run = r /\ claims'[c].task = t
      /\ \A d \in Claim \ {c} : claims'[d] = claims[d]
      /\ \A d \in Claim \ {c} : claims[d].status = "consumed" => claims[d].run # r
      /\ leases'[r].held
      /\ \A q \in Run \ {r} : leases'[q] = leases[q] /\ runs'[q] = runs[q]
  BY <1>1, <1>2, BeginFacts
<1>4. /\ task[t] = "leased" /\ task'[t] = "running"
      /\ \A u \in Task \ {t} : task'[u] = task[u]
      /\ runs'[r].status = "running" /\ runs'[r].task = t
  BY <1>1, <1>2, BegunRun
<1>5. runs[r].task = None /\ ~leases[r].held
  BY <1>1, <1>3 DEF StartsLinked, LockInv, LeasesLinked
<1>6. StartsLinked'
  <2>1. ASSUME NEW d \in Claim, claims'[d].status = "consumed"
        PROVE  runs'[claims'[d].run].task = claims'[d].task
    <3>1. CASE d = c
      BY <1>3, <1>4, <3>1
    <3>2. CASE d # c
      <4>1. /\ claims'[d] = claims[d] /\ claims[d].run \in Run \ {r}
            /\ runs[claims[d].run].task = claims[d].task
        BY <1>1, <1>3, <2>1, <3>2 DEF LockInv, ClaimsLinked, StartsLinked
      <4> QED
        BY <1>3, <4>1
    <3> QED
      BY <3>1, <3>2
  <2>2. ASSUME NEW q \in Run
        PROVE  /\ runs'[q].status # "unused" => runs'[q].task \in Task
               /\ runs'[q].status = "unused" => runs'[q].task = None
               /\ runs'[q].status = "running" => leases'[q].held
    BY <1>1, <1>3, <1>4 DEF StartsLinked
  <2> QED
    BY <2>1, <2>2 DEF StartsLinked
<1>7. LocalsLinked'
  <2>1. ASSUME NEW o \in Invocation, local[o].run # None
        PROVE  local[o].run \in Run \ {r}
    <3>1. local[o].run \in Run /\ runs[local[o].run].status # "unused"
      BY <1>1, <2>1 DEF DispatchInv, RetryTypes, LocalRow, LocalsLinked
    <3> QED
      BY <1>3, <3>1
  <2>2. ASSUME NEW o \in Invocation, local[o].run # None
        PROVE  /\ runs'[local[o].run].status # "unused"
               /\ runs'[local[o].run].task = local[o].task
               /\ \A d \in Claim : claims'[d].run # local[o].run
    BY <1>1, <1>3, <2>1, <2>2 DEF LocalsLinked
  <2> QED
    BY <1>1, <2>2 DEF LocalsLinked
<1>8. report[c].of = "nothing"
  BY <1>1, <1>3 DEF ReportsLinked
<1>9. ReportsLinked'
  BY <1>1, <1>3 DEF ReportsLinked
<1>10. \A u \in Task : PendingOf(u)' \subseteq PendingOf(u)
  BY <1>3, <1>8 DEF PendingOf, Pending
<1>11. ASSUME NEW u \in Task
       PROVE  /\ ClaimsFor(u)' = ClaimsFor(u) \ {c}
              /\ PromisedTo(u)' = PromisedTo(u)
  BY <1>3 DEF ClaimsFor, Active, PromisedTo
<1>12. ASSUME NEW u \in Task \ {t} PROVE Carries(u)
  <2>1. LeasedRunsOf(u)' = LeasedRunsOf(u) /\ RunsOf(u)' = RunsOf(u)
    BY <1>3, <1>4, <1>5, IdentityAssumption DEF LeasedRunsOf, RunsOf
  <2>2. Tokens(u)' \subseteq Tokens(u)
    BY <1>11, <2>1, TokensLess
  <2>3. task'[u] = task[u]
    BY <1>4
  <2> QED
    BY <2>1, <2>2, <2>3 DEF Carries, Owed
<1>13. Starts(t)
  <2>1. c \in ClaimsFor(t)
    BY <1>2, <1>3 DEF ClaimsFor, Active
  <2>2. <<"claim", c>> \in Tokens(t)
    BY <2>1 DEF Tokens
  <2>3. Tokens(t) = {<<"claim", c>>}
    BY <1>1, <2>2 DEF TokensInv, Alone
  <2>4. /\ \A d \in ClaimsFor(t) : <<"claim", d>> \in Tokens(t)
        /\ \A q \in LeasedRunsOf(t) : <<"run", q>> \in Tokens(t)
        /\ \A o \in PromisedTo(t) : <<"local", o>> \in Tokens(t)
    BY DEF Tokens
  <2>5. ClaimsFor(t)' = {} /\ PromisedTo(t)' = {} /\ LeasedRunsOf(t) = {}
    <3>1. /\ \A d \in ClaimsFor(t) : d = c
          /\ PromisedTo(t) = {} /\ LeasedRunsOf(t) = {}
      BY <2>3, <2>4
    <3> QED
      BY <1>11, <3>1
  <2>6. LeasedRunsOf(t)' \subseteq {r}
    BY <1>3, <2>5 DEF LeasedRunsOf
  <2>7. Tokens(t)' \subseteq {<<"run", r>>}
    BY <2>5, <2>6 DEF Tokens
  <2>8. RunsOf(t)' = RunsOf(t) \cup {r}
    BY <1>3, <1>4 DEF RunsOf
  <2> QED
    BY <1>4, <2>1, <2>2, <2>7, <2>8 DEF Starts, Owed, Vacant
<1> QED
  BY <1>6, <1>7, <1>9, <1>10, <1>12, <1>13 DEF Linked


-----------------------------------------------------------------------------
(* Calls of local runs.                                                      *)

\* No claim loses or gains anything by them.
LEMMA LocalLocks ==
    ASSUME LockInv, UNCHANGED <<claims, locks, worker>>,
           \A r \in Run : runs[r].status # "unused" => runs'[r].status # "unused",
           \A r \in Run : runs'[r].status = "unused" => ~leases'[r].held,
           \A c \in Claim : claims[c].status = "consumed" =>
                leases'[claims[c].run].held = leases[claims[c].run].held
    PROVE  LockInv'
<1>1. ClaimsLinked' /\ WorkersLinked' /\ LeasesLinked'
  BY DEF LockInv, ClaimsLinked, WorkersLinked, LeasesLinked
<1>2. \A c \in Claim : Holding(c)' = Holding(c) /\ KeysOf(c)' = KeysOf(c)
  BY DEF Holding, KeysOf
<1>3. LocksMatchHolders'
  BY <1>2 DEF LockInv, LocksMatchHolders
<1> QED
  BY <1>1, <1>3 DEF LockInv

\* How an invocation passes from one control point to the next.
Passes(at, next) ==
    /\ next # "routed"
    /\ next \in Promised => at \in {"routed"} \cup Promised
    /\ next \in Executing => at \in Executing

LEMMA MovesLinks ==
    ASSUME DispatchInv, NEW o \in Invocation, NEW at, NEW next \in LocalState,
           Moves(o, at, next), Passes(at, next), RunsCarried, UNCHANGED <<claims, report>>
    PROVE  Linked
<1>1. LockInv /\ StartsLinked /\ LocalsLinked /\ ReportsLinked /\ RetryTypes
  BY DEF DispatchInv
<1>2. ClaimsCarried
  BY DEF ClaimsCarried
<1>3. /\ local[o].at = at /\ local'[o].at = next
      /\ \A p \in Invocation : local'[p].task = local[p].task /\ local'[p].run = local[p].run
      /\ \A p \in Invocation \ {o} : local'[p] = local[p]
  BY <1>1, MovesFacts
<1>4. ASSUME NEW p \in Invocation
      PROVE  /\ local'[p].at \in {"routed"} \cup Promised => local'[p].task \in Task
             /\ local'[p].at \in Executing => local'[p].run \in Run
  BY <1>1, <1>3 DEF Passes, LocalsLinked
<1>5. ASSUME NEW p \in Invocation, local[p].run # None
      PROVE  /\ runs'[local[p].run].status # "unused"
             /\ runs'[local[p].run].task = local[p].task
  <2>1. local[p].run \in Run
    BY <1>1, <1>5 DEF RetryTypes, LocalRow
  <2> QED
    BY <1>1, <1>5, <2>1 DEF RunsCarried, LocalsLinked
<1>6. LocalsLinked'
  <2>1. ASSUME NEW p \in Invocation, local[p].run # None
        PROVE  /\ \A c \in Claim : claims'[c].run # local[p].run
               /\ \A q \in Invocation \ {p} : local'[q].run # local[p].run
    BY <1>1, <1>3, <2>1 DEF LocalsLinked
  <2> QED
    BY <1>3, <1>4, <1>5, <2>1 DEF LocalsLinked
<1> QED
  BY <1>1, <1>2, <1>6, CarriedLinks, CarriedPending, CarriedReports DEF Linked

LEMMA MovesCarries ==
    ASSUME RetryTypes, NEW o \in Invocation, NEW at, NEW next \in LocalState,
           Moves(o, at, next), next \in Promised => at \in Promised,
           RunsCarried, UNCHANGED claims,
           \A t \in Task : task'[t] = task[t] \/ (task[t] # "failed" /\ task'[t] \notin Vacant)
    PROVE  \A t \in Task : Carries(t)
<1>1. /\ local[o].at = at /\ local'[o].at = next
      /\ local'[o].task = local[o].task
      /\ \A p \in Invocation \ {o} : local'[p] = local[p]
  BY MovesFacts
<1>2. ASSUME NEW t \in Task
      PROVE  Carries(t)
  <2>1. ClaimsFor(t)' = ClaimsFor(t)
    BY DEF ClaimsFor, Active
  <2>2. PromisedTo(t)' \subseteq PromisedTo(t)
    BY <1>1 DEF PromisedTo
  <2>3. Tokens(t)' \subseteq Tokens(t) /\ RunsOf(t)' = RunsOf(t)
    BY <2>1, <2>2, CarriedRuns, TokensLess
  <2>4. CASE task'[t] = task[t]
    BY <2>3, <2>4 DEF Carries, Owed
  <2>5. CASE task[t] # "failed" /\ task'[t] \notin Vacant
    BY <2>3, <2>5 DEF Carries, Vacant
  <2> QED
    BY <2>4, <2>5
<1> QED
  BY <1>2

LEMMA TransitionMoves ==
    ASSUME TypeOK, NEW u, NEW from, NEW to, Transition(u, from, to), NEW t \in Task
    PROVE  task'[t] = task[t] \/ (t = u /\ task[t] = from /\ task'[t] = to)
BY DEF Transition, TypeOK

\* What a call of an invocation keeps.
LocalKeeps == LockInv' /\ Linked /\ \A t \in Task : Carries(t) \/ Promises(t) \/ Starts(t)

\* A call that moves the task of an invocation on.
LEMMA LocalTransition ==
    ASSUME DispatchInv, NEW o \in Invocation, NEW at, NEW next \in LocalState,
           Moves(o, at, next), Passes(at, next), at # "routed",
           NEW from, NEW to, Transition(local[o].task, from, to),
           from # "failed", to \notin Vacant,
           UNCHANGED <<elsewhere, runs, leases, verifier>>, UNCHANGED retryVars
    PROVE  LocalKeeps
<1>1. TypeOK /\ RetryTypes /\ LockInv
  BY DEF DispatchInv
<1>2. UNCHANGED <<claims, locks, worker, runs, leases, report>>
  BY DEF elsewhere, workerVars, retryVars
<1>3. RunsCarried
  BY <1>2 DEF RunsCarried
<1>4. LockInv'
  <2>1. LeasesLinked
    BY <1>1 DEF LockInv
  <2> QED
    BY <1>1, <1>2, <2>1, LocalLocks DEF LeasesLinked
<1>5. Linked
  BY <1>2, <1>3, MovesLinks
<1>6. next \in Promised => at \in Promised
  BY DEF Passes
<1>7. \A t \in Task : task'[t] = task[t] \/ (task[t] # "failed" /\ task'[t] \notin Vacant)
  BY <1>1, TransitionMoves
<1>8. \A t \in Task : Carries(t)
  BY <1>1, <1>2, <1>3, <1>6, <1>7, MovesCarries
<1> QED
  BY <1>4, <1>5, <1>8 DEF LocalKeeps

\* The task is taken: it was ready, so nobody had it.
LEMMA LeaseKeeps ==
    ASSUME DispatchInv, NEW o \in Invocation, LeaseLocally(o), UNCHANGED retryVars
    PROVE  LocalKeeps
<1>1. TypeOK /\ RetryTypes /\ LockInv /\ TokensInv /\ LocalsLinked
  BY DEF DispatchInv
<1>2. /\ UNCHANGED <<claims, locks, worker, runs, leases, report>>
      /\ Moves(o, "routed", "leased") /\ Transition(local[o].task, "ready", "leased")
  BY DEF LeaseLocally, elsewhere, workerVars, retryVars
<1>3. RunsCarried
  BY <1>2 DEF RunsCarried
<1>4. LockInv'
  <2>1. LeasesLinked
    BY <1>1 DEF LockInv
  <2> QED
    BY <1>1, <1>2, <2>1, LocalLocks DEF LeasesLinked
<1>5. "leased" \in LocalState /\ Passes("routed", "leased")
  BY DEF LocalState, Passes, Executing
<1>6. Linked
  BY <1>2, <1>3, <1>5, MovesLinks
<1>7. /\ local[o].at = "routed" /\ local'[o].task = local[o].task
      /\ \A p \in Invocation \ {o} : local'[p] = local[p]
  BY <1>1, <1>2, <1>5, MovesFacts
<1>8. PICK t \in Task : t = local[o].task
  BY <1>1, <1>7 DEF LocalsLinked
<1>9. task[t] = "ready" /\ task'[t] = "leased"
  BY <1>1, <1>2, <1>8 DEF Transition, TypeOK
<1>10. ASSUME NEW u \in Task
       PROVE  /\ ClaimsFor(u)' = ClaimsFor(u) /\ LeasedRunsOf(u)' = LeasedRunsOf(u)
              /\ RunsOf(u)' = RunsOf(u)
  BY <1>2 DEF ClaimsFor, Active, LeasedRunsOf, RunsOf
<1>11. Promises(t)
  <2>1. Tokens(t) = {}
    BY <1>1, <1>9 DEF TokensInv, Vacant
  <2>2. ClaimsFor(t) = {} /\ LeasedRunsOf(t) = {} /\ PromisedTo(t) = {}
    BY <2>1 DEF Tokens
  <2>3. PromisedTo(t)' \subseteq {o}
    BY <1>7, <2>2 DEF PromisedTo
  <2>4. Tokens(t)' \subseteq {<<"local", o>>}
    BY <1>10, <2>2, <2>3 DEF Tokens
  <2>5. Alone(Tokens(t))'
    BY <2>4 DEF Alone
  <2> QED
    BY <1>9, <1>10, <2>5 DEF Promises, Vacant, Owed
<1>12. ASSUME NEW u \in Task \ {t} PROVE Carries(u)
  <2>1. PromisedTo(u)' = PromisedTo(u)
    BY <1>7, <1>8 DEF PromisedTo, Promised
  <2>2. Tokens(u)' \subseteq Tokens(u)
    BY <1>10, <2>1, TokensLess
  <2>3. task'[u] = task[u]
    BY <1>1, <1>2, <1>8, TransitionMoves
  <2> QED
    BY <1>10, <2>2, <2>3 DEF Carries, Owed
<1> QED
  BY <1>4, <1>6, <1>11, <1>12 DEF LocalKeeps


\* Its token turns into a run that is inserted without a look at the task.
LEMMA CreateKeeps ==
    ASSUME DispatchInv, NEW o \in Invocation, NEW r \in Run, CreateRun(o, r),
           UNCHANGED retryVars
    PROVE  LocalKeeps
<1>1. /\ TypeOK /\ RetryTypes /\ LockInv /\ TokensInv
      /\ StartsLinked /\ LocalsLinked /\ ReportsLinked
  BY DEF DispatchInv
<1>2. /\ UNCHANGED <<claims, locks, worker, task, report>>
      /\ local[o].at = "authorized" /\ runs[r].status = "unused"
  BY DEF CreateRun, elsewhere, workerVars, retryVars
<1>3. PICK t \in Task : t = local[o].task
  BY <1>1, <1>2 DEF LocalsLinked, Promised
<1>4. /\ runs' = [runs EXCEPT ![r] = [status |-> "running", task |-> t]]
      /\ leases' = [leases EXCEPT ![r] = [held |-> TRUE, expires |-> clock + LeaseTtl]]
      /\ local' = [local EXCEPT ![o] = [local[o] EXCEPT !.at = "working", !.run = r]]
  BY <1>3 DEF CreateRun
<1>5. /\ runs'[r].status = "running" /\ runs'[r].task = t /\ leases'[r].held
      /\ \A q \in Run \ {r} : runs'[q] = runs[q] /\ leases'[q] = leases[q]
  BY <1>1, <1>4 DEF TypeOK
<1>6. /\ local'[o].at = "working" /\ local'[o].task = t /\ local'[o].run = r
      /\ \A p \in Invocation \ {o} : local'[p] = local[p]
  BY <1>1, <1>3, <1>4 DEF RetryTypes, LocalRow
<1>7. runs[r].task = None /\ ~leases[r].held
  BY <1>1, <1>2 DEF StartsLinked, LockInv, LeasesLinked
<1>8. \A c \in Claim : claims[c].run # r
  <2>1. ASSUME NEW c \in Claim, claims[c].run = r PROVE FALSE
    <3>1. claims[c].status # "consumed"
      BY <1>1, <1>2, <2>1 DEF LockInv, ClaimsLinked
    <3>2. claims[c].run = None
      BY <1>1, <3>1 DEF LockInv, ClaimsLinked
    <3> QED
      BY <2>1, <3>2, IdentityAssumption
  <2> QED
    BY <2>1
<1>9. LockInv'
  <2>1. \A c \in Claim : claims[c].status = "consumed" => claims[c].run \in Run \ {r}
    BY <1>1, <1>8 DEF LockInv, ClaimsLinked
  <2>2. \A q \in Run : runs'[q].status = "unused" => ~leases'[q].held
    BY <1>1, <1>5 DEF LockInv, LeasesLinked
  <2> QED
    BY <1>1, <1>2, <1>5, <2>1, <2>2, LocalLocks
<1>10. StartsLinked'
  <2>1. ASSUME NEW c \in Claim, claims[c].status = "consumed"
        PROVE  runs'[claims[c].run].task = claims[c].task
    BY <1>1, <1>5, <1>8, <2>1 DEF LockInv, ClaimsLinked, StartsLinked
  <2>2. ASSUME NEW q \in Run
        PROVE  /\ runs'[q].status # "unused" => runs'[q].task \in Task
               /\ runs'[q].status = "unused" => runs'[q].task = None
               /\ runs'[q].status = "running" => leases'[q].held
    BY <1>1, <1>5 DEF StartsLinked
  <2> QED
    BY <1>2, <2>1, <2>2 DEF StartsLinked
<1>11. \A p \in Invocation : local[p].run # None => local[p].run \in Run \ {r}
  BY <1>1, <1>2 DEF RetryTypes, LocalRow, LocalsLinked
<1>12. LocalsLinked'
  <2>1. ASSUME NEW p \in Invocation, local'[p].run # None
        PROVE  /\ runs'[local'[p].run].status # "unused"
               /\ runs'[local'[p].run].task = local'[p].task
               /\ \A c \in Claim : claims'[c].run # local'[p].run
               /\ \A q \in Invocation \ {p} : local'[q].run # local'[p].run
    <3>1. CASE p = o
      <4>1. \A q \in Invocation \ {o} : local'[q].run # r
        BY <1>6, <1>11, IdentityAssumption
      <4> QED
        BY <1>2, <1>5, <1>6, <1>8, <3>1, <4>1
    <3>2. CASE p # o
      <4>1. local'[p] = local[p] /\ local[p].run \in Run \ {r}
        BY <1>6, <1>11, <2>1, <3>2
      <4>2. \A q \in Invocation \ {p} : local'[q].run # local[p].run
        BY <1>1, <1>6, <2>1, <4>1 DEF LocalsLinked
      <4> QED
        BY <1>1, <1>2, <1>5, <2>1, <4>1, <4>2 DEF LocalsLinked
    <3> QED
      BY <3>1, <3>2
  <2>2. ASSUME NEW p \in Invocation
        PROVE  /\ local'[p].at \in {"routed"} \cup Promised => local'[p].task \in Task
               /\ local'[p].at \in Executing => local'[p].run \in Run
    BY <1>1, <1>6 DEF LocalsLinked, Promised
  <2> QED
    BY <2>1, <2>2 DEF LocalsLinked
<1>13. ReportsLinked' /\ \A u \in Task : PendingOf(u)' \subseteq PendingOf(u)
  BY <1>1, <1>2 DEF ReportsLinked, PendingOf, Pending
<1>14. \A u \in Task : ClaimsFor(u)' = ClaimsFor(u)
  BY <1>2 DEF ClaimsFor, Active
<1>15. ASSUME NEW u \in Task \ {t} PROVE Carries(u)
  <2>1. LeasedRunsOf(u)' = LeasedRunsOf(u) /\ RunsOf(u)' = RunsOf(u)
    BY <1>5, <1>7, IdentityAssumption DEF LeasedRunsOf, RunsOf
  <2>2. PromisedTo(u)' = PromisedTo(u)
    BY <1>3, <1>6 DEF PromisedTo
  <2>3. Tokens(u)' \subseteq Tokens(u)
    BY <1>14, <2>1, <2>2, TokensLess
  <2> QED
    BY <1>2, <2>1, <2>3 DEF Carries, Owed
<1>16. Starts(t)
  <2>1. o \in PromisedTo(t)
    BY <1>2, <1>3 DEF PromisedTo, Promised
  <2>2. <<"local", o>> \in Tokens(t)
    BY <2>1 DEF Tokens
  <2>3. Tokens(t) = {<<"local", o>>}
    BY <1>1, <2>2 DEF TokensInv, Alone
  <2>4. /\ \A c \in ClaimsFor(t) : <<"claim", c>> \in Tokens(t)
        /\ \A q \in LeasedRunsOf(t) : <<"run", q>> \in Tokens(t)
        /\ \A p \in PromisedTo(t) : <<"local", p>> \in Tokens(t)
    BY DEF Tokens
  <2>5. ClaimsFor(t) = {} /\ LeasedRunsOf(t) = {} /\ \A p \in PromisedTo(t) : p = o
    BY <2>3, <2>4
  <2>6. PromisedTo(t)' = {}
    BY <1>6, <2>5 DEF PromisedTo, Promised
  <2>7. LeasedRunsOf(t)' \subseteq {r}
    BY <1>5, <2>5 DEF LeasedRunsOf
  <2>8. Tokens(t)' \subseteq {<<"run", r>>}
    BY <1>14, <2>5, <2>6, <2>7 DEF Tokens
  <2>9. RunsOf(t)' = RunsOf(t) \cup {r}
    BY <1>5 DEF RunsOf
  <2>10. task'[t] \notin Vacant
    BY <1>1, <1>2, <2>2 DEF TokensInv
  <2> QED
    BY <2>1, <2>2, <2>8, <2>9, <2>10 DEF Starts, Owed
<1> QED
  BY <1>9, <1>10, <1>12, <1>13, <1>15, <1>16 DEF LocalKeeps, Linked

LEMMA FinishLocalKeeps ==
    ASSUME DispatchInv, NEW o \in Invocation, FinishLocalRun(o), UNCHANGED retryVars
    PROVE  LocalKeeps
<1> DEFINE r == local[o].run
<1>1. TypeOK /\ RetryTypes /\ LockInv /\ LocalsLinked
  BY DEF DispatchInv
<1>2. /\ UNCHANGED <<claims, locks, worker, task, report>>
      /\ Moves(o, "closing", "done")
      /\ runs' = [runs EXCEPT ![r].status = VerifiedStatus(r)]
      /\ leases' = [leases EXCEPT ![r] = NoLease]
  BY DEF FinishLocalRun, elsewhere, workerVars, retryVars
<1>3. VerifiedStatus(r) \in {"review", "failed"}
  BY DEF VerifiedStatus
<1>4. /\ r \in Run /\ runs[r].status # "unused"
      /\ \A c \in Claim : claims[c].run # r
  <2>1. local[o].at = "closing"
    BY <1>2 DEF Moves
  <2>2. r \in Run /\ r # None
    BY <1>1, <2>1, IdentityAssumption DEF LocalsLinked, Executing
  <2> QED
    BY <1>1, <2>2 DEF LocalsLinked
<1> HIDE DEF r
<1>5. /\ \A q \in Run : runs'[q].task = runs[q].task
      /\ runs'[r].status \in {"review", "failed"} /\ ~leases'[r].held
      /\ \A q \in Run \ {r} : runs'[q] = runs[q] /\ leases'[q] = leases[q]
  <2>1. runs \in [Run -> RunRow] /\ runs[r] \in RunRow /\ leases \in [Run -> LeaseRow]
    BY <1>1, <1>4 DEF TypeOK
  <2> QED
    BY <1>2, <1>3, <1>4, <2>1 DEF RunRow, NoLease
<1>6. RunsCarried
  BY <1>4, <1>5 DEF RunsCarried
<1>7. LockInv'
  <2>1. \A c \in Claim : claims[c].status = "consumed" => claims[c].run \in Run \ {r}
    BY <1>1, <1>4 DEF LockInv, ClaimsLinked
  <2>2. \A q \in Run : runs'[q].status = "unused" => ~leases'[q].held
    BY <1>1, <1>5 DEF LockInv, LeasesLinked
  <2>3. \A q \in Run : runs[q].status # "unused" => runs'[q].status # "unused"
    BY <1>5
  <2> QED
    BY <1>1, <1>2, <1>5, <2>1, <2>2, <2>3, LocalLocks
<1>8. "done" \in LocalState /\ Passes("closing", "done") /\ "done" \notin Promised
  BY DEF LocalState, Passes, Promised, Executing
<1>9. Linked
  BY <1>2, <1>6, <1>8, MovesLinks
<1>10. \A t \in Task : Carries(t)
  BY <1>1, <1>2, <1>6, <1>8, MovesCarries
<1> QED
  BY <1>7, <1>9, <1>10 DEF LocalKeeps

LEMMA StillKeeps ==
    ASSUME DispatchInv, NEW o \in Invocation, UNCHANGED retryVars,
           \/ CreateLocalVerifier(o)
           \/ \E passed \in BOOLEAN : FinishLocalVerifier(o, passed)
           \/ LocalDies(o)
    PROVE  LocalKeeps
<1>1. TypeOK /\ RetryTypes /\ LockInv
  BY DEF DispatchInv
<1>2. UNCHANGED <<claims, locks, worker, task, runs, leases, report>>
  BY DEF CreateLocalVerifier, FinishLocalVerifier, LocalDies, elsewhere, workerVars, retryVars
<1>3. PICK at, next \in LocalState : Moves(o, at, next) /\ Passes(at, next) /\ next \notin Promised
  <2>1. CASE CreateLocalVerifier(o)
    BY <2>1 DEF CreateLocalVerifier, LocalState, Passes, Promised, Executing
  <2>2. CASE \E passed \in BOOLEAN : FinishLocalVerifier(o, passed)
    BY <2>2 DEF FinishLocalVerifier, LocalState, Passes, Promised, Executing
  <2>3. CASE LocalDies(o)
    <3>1. Moves(o, local[o].at, "dead")
      BY <2>3 DEF LocalDies, Moves
    <3>2. "dead" \in LocalState /\ Passes(local[o].at, "dead") /\ "dead" \notin Promised
      BY DEF LocalState, Passes, Promised, Executing
    <3>3. local[o].at \in LocalState
      BY <1>1 DEF RetryTypes, LocalRow
    <3> QED
      BY <3>1, <3>2, <3>3
  <2> QED
    BY <2>1, <2>2, <2>3
<1>4. RunsCarried
  BY <1>2 DEF RunsCarried
<1>5. LockInv'
  <2>1. LeasesLinked
    BY <1>1 DEF LockInv
  <2> QED
    BY <1>1, <1>2, <2>1, LocalLocks DEF LeasesLinked
<1>6. Linked
  BY <1>2, <1>3, <1>4, MovesLinks
<1>7. \A t \in Task : Carries(t)
  BY <1>1, <1>2, <1>3, <1>4, MovesCarries
<1> QED
  BY <1>5, <1>6, <1>7 DEF LocalKeeps

LEMMA LocalStep ==
    ASSUME DispatchInv, LocalNext, UNCHANGED retryVars
    PROVE  LocalKeeps
<1>1. CASE \E o \in Invocation : LeaseLocally(o) \/ FinishLocalRun(o)
  BY <1>1, LeaseKeeps, FinishLocalKeeps
<1>2. CASE \E o \in Invocation, r \in Run : CreateRun(o, r)
  BY <1>2, CreateKeeps
<1>3. CASE \/ \E o \in Invocation : CreateLocalVerifier(o) \/ LocalDies(o)
           \/ \E o \in Invocation, passed \in BOOLEAN : FinishLocalVerifier(o, passed)
  BY <1>3, StillKeeps
<1>4. ASSUME NEW o \in Invocation,
             \/ LocalWorktreeFailed(o) \/ LocalWorktreeReady(o) \/ Authorized(o)
             \/ NotAuthorized(o) \/ LocalAgentExited(o) \/ CloseLocalVerification(o)
      PROVE  LocalKeeps
  <2>1. CASE LocalWorktreeFailed(o)
    <3>1. /\ Moves(o, "leased", "dead") /\ Transition(local[o].task, "leased", "failed")
          /\ UNCHANGED <<elsewhere, runs, leases, verifier>>
      BY <2>1 DEF LocalWorktreeFailed
    <3>2. "dead" \in LocalState /\ Passes("leased", "dead") /\ "failed" \notin Vacant
      BY DEF LocalState, Passes, Promised, Executing, Vacant
    <3> QED
      BY <3>1, <3>2, LocalTransition
  <2>2. CASE LocalWorktreeReady(o)
    <3>1. /\ Moves(o, "leased", "planning") /\ Transition(local[o].task, "leased", "planning")
          /\ UNCHANGED <<elsewhere, runs, leases, verifier>>
      BY <2>2 DEF LocalWorktreeReady
    <3>2. "planning" \in LocalState /\ Passes("leased", "planning") /\ "planning" \notin Vacant
      BY DEF LocalState, Passes, Promised, Executing, Vacant
    <3> QED
      BY <3>1, <3>2, LocalTransition
  <2>3. CASE Authorized(o)
    <3>1. /\ Moves(o, "planning", "authorized") /\ Transition(local[o].task, "planning", "running")
          /\ UNCHANGED <<elsewhere, runs, leases, verifier>>
      BY <2>3 DEF Authorized
    <3>2. "authorized" \in LocalState /\ Passes("planning", "authorized") /\ "running" \notin Vacant
      BY DEF LocalState, Passes, Promised, Executing, Vacant
    <3> QED
      BY <3>1, <3>2, LocalTransition
  <2>4. CASE NotAuthorized(o)
    <3>1. PICK to \in {"awaiting_approval", "blocked"} :
            /\ Moves(o, "planning", "dead") /\ Transition(local[o].task, "planning", to)
            /\ UNCHANGED <<elsewhere, runs, leases, verifier>>
      BY <2>4 DEF NotAuthorized
    <3>2. "dead" \in LocalState /\ Passes("planning", "dead") /\ to \notin Vacant
      BY DEF LocalState, Passes, Promised, Executing, Vacant
    <3> QED
      BY <3>1, <3>2, LocalTransition
  <2>5. CASE LocalAgentExited(o)
    <3>1. /\ Moves(o, "working", "exited") /\ Transition(local[o].task, "running", "verifying")
          /\ UNCHANGED <<elsewhere, runs, leases, verifier>>
      BY <2>5 DEF LocalAgentExited
    <3>2. "exited" \in LocalState /\ Passes("working", "exited") /\ "verifying" \notin Vacant
      BY DEF LocalState, Passes, Promised, Executing, Vacant
    <3> QED
      BY <3>1, <3>2, LocalTransition
  <2>6. CASE CloseLocalVerification(o)
    <3>1. PICK to \in {"review", "failed"} :
            /\ Moves(o, "checked", "closing") /\ Transition(local[o].task, "verifying", to)
            /\ UNCHANGED <<elsewhere, runs, leases, verifier>>
      BY <2>6 DEF CloseLocalVerification, VerifiedStatus
    <3>2. "closing" \in LocalState /\ Passes("checked", "closing") /\ to \notin Vacant
      BY DEF LocalState, Passes, Promised, Executing, Vacant
    <3> QED
      BY <3>1, <3>2, LocalTransition
  <2> QED
    BY <1>4, <2>1, <2>2, <2>3, <2>4, <2>5, <2>6
<1> QED
  BY <1>1, <1>2, <1>3, <1>4 DEF LocalNext


-----------------------------------------------------------------------------
(* Every step but two is steady: it starts no report of a failure and plans  *)
(* no retry.                                                                 *)

Steady ==
    /\ LockInv' /\ Linked
    /\ \A t \in Task : Advances(t)
    /\ \A t \in Task : retry'[t].used = retry[t].used

LEMMA SteadyTokens ==
    ASSUME TokensInv, Steady
    PROVE  TokensInv'
<1>1. ASSUME NEW t \in Task
      PROVE  /\ Alone(Tokens(t))'
             /\ task'[t] \in Vacant => Tokens(t)' = {}
             /\ Alone(PendingOf(t))'
             /\ PendingOf(t)' # {} => task'[t] = "failed" /\ Tokens(t)' = {}
  <2>1. PendingOf(t)' \subseteq PendingOf(t)
    BY DEF Steady, Linked
  <2>2. Alone(PendingOf(t))'
    BY <2>1 DEF TokensInv, Alone
  <2>3. CASE Carries(t)
    <3>1. /\ Tokens(t)' \subseteq Tokens(t)
          /\ task'[t] \in Vacant => task[t] \in Vacant \/ Tokens(t)' = {}
          /\ task[t] = "failed" => task'[t] = "failed"
      BY <2>3 DEF Carries
    <3>2. Alone(Tokens(t))'
      BY <3>1 DEF TokensInv, Alone
    <3> QED
      BY <2>1, <2>2, <3>1, <3>2 DEF TokensInv
  <2>4. CASE Promises(t)
    <3>1. Alone(Tokens(t))' /\ task'[t] \notin Vacant /\ task[t] # "failed"
      BY <2>4 DEF Promises
    <3>2. PendingOf(t)' = {}
      BY <2>1, <3>1 DEF TokensInv
    <3> QED
      BY <2>2, <3>1, <3>2
  <2>5. CASE Starts(t)
    <3>1. PICK r \in Run : Tokens(t)' \subseteq {<<"run", r>>}
      BY <2>5 DEF Starts
    <3>2. task'[t] \notin Vacant /\ Tokens(t) # {}
      BY <2>5 DEF Starts
    <3>3. PendingOf(t)' = {}
      BY <2>1, <3>2 DEF TokensInv
    <3>4. Alone(Tokens(t))'
      BY <3>1 DEF Alone
    <3> QED
      BY <2>2, <3>2, <3>3, <3>4
  <2> QED
    BY <2>2, <2>3, <2>4, <2>5 DEF Steady, Advances
<1> QED
  BY <1>1 DEF TokensInv

LEMMA ControlSteady ==
    ASSUME DispatchInv, [Next]_vars, UNCHANGED <<local, retry, report>>
    PROVE  Steady
<1>1. LockInv'
  BY LockStep DEF DispatchInv
<1>2. CASE ClaimStep
  <2>1. RunsCarried /\ ClaimsCarried /\ \A t \in Task : Carries(t) \/ Promises(t)
    BY <1>2, ClaimCarries DEF ClaimStep
  <2> QED
    BY <1>1, <2>1, CarriedLinked DEF Steady, Advances
<1>3. CASE BeginStep
  BY <1>1, <1>3, BeginTakes DEF BeginStep, Steady, Advances
<1>4. CASE ~ClaimStep /\ ~BeginStep
  <2>1. RunsCarried /\ ClaimsCarried /\ \A t \in Task : Carries(t)
    BY <1>4, ControlCarries
  <2> QED
    BY <1>1, <2>1, CarriedLinked DEF Steady, Advances
<1> QED
  BY <1>2, <1>3, <1>4

\* Calls that leave tasks, claims and runs alone.
LEMMA ApartSteady ==
    ASSUME DispatchInv, UNCHANGED <<task, claims, locks, worker, runs, leases, local, report>>,
           \A t \in Task : retry'[t].used = retry[t].used
    PROVE  Steady
<1>1. LockInv'
  <2>1. LockInv /\ LeasesLinked
    BY DEF DispatchInv, LockInv
  <2> QED
    BY <2>1, LocalLocks DEF LeasesLinked
<1>2. RunsCarried /\ ClaimsCarried
  BY DEF RunsCarried, ClaimsCarried
<1>3. ASSUME NEW t \in Task PROVE Carries(t)
  <2>1. Tokens(t)' = Tokens(t) /\ RunsOf(t)' = RunsOf(t)
    BY DEF Tokens, ClaimsFor, Active, LeasedRunsOf, PromisedTo, RunsOf
  <2> QED
    BY <2>1 DEF Carries, Owed
<1> QED
  BY <1>1, <1>2, <1>3, CarriedLinked DEF Steady, Advances

\* A local run is routed: it has no token yet.
LEMMA RouteSteady ==
    ASSUME DispatchInv, NEW o \in Invocation, NEW t \in Task, RouteLocally(o, t),
           UNCHANGED retryVars
    PROVE  Steady
<1>1. LockInv /\ LeasesLinked /\ StartsLinked /\ LocalsLinked /\ ReportsLinked /\ RetryTypes
  BY DEF DispatchInv, LockInv
<1>2. /\ UNCHANGED <<task, claims, locks, worker, runs, leases, report, retry>>
      /\ local[o].at = "idle"
      /\ local' = [local EXCEPT ![o] = [at |-> "routed", task |-> t, run |-> None]]
  BY DEF RouteLocally, elsewhere, workerVars, retryVars
<1>3. /\ local'[o] = [at |-> "routed", task |-> t, run |-> None]
      /\ \A p \in Invocation \ {o} : local'[p] = local[p]
  BY <1>1, <1>2 DEF RetryTypes
<1>4. LockInv'
  BY <1>1, <1>2, LocalLocks DEF LeasesLinked
<1>5. RunsCarried /\ ClaimsCarried
  BY <1>2 DEF RunsCarried, ClaimsCarried
<1>6. LocalsLinked'
  <2>1. ASSUME NEW p \in Invocation, local'[p].run # None
        PROVE  /\ p # o
               /\ runs[local[p].run].status # "unused"
               /\ runs[local[p].run].task = local[p].task
               /\ \A c \in Claim : claims[c].run # local[p].run
               /\ \A q \in Invocation \ {p} : local'[q].run # local'[p].run
    BY <1>1, <1>3, <2>1 DEF LocalsLinked
  <2>2. ASSUME NEW p \in Invocation
        PROVE  /\ local'[p].at \in {"routed"} \cup Promised => local'[p].task \in Task
               /\ local'[p].at \in Executing => local'[p].run \in Run
    BY <1>1, <1>3 DEF LocalsLinked, Executing
  <2> QED
    BY <1>2, <1>3, <2>1, <2>2 DEF LocalsLinked
<1>7. Linked
  BY <1>1, <1>2, <1>5, <1>6, CarriedLinks, CarriedPending, CarriedReports DEF Linked
<1>8. ASSUME NEW u \in Task PROVE Carries(u)
  <2>1. PromisedTo(u)' \subseteq PromisedTo(u)
    BY <1>3 DEF PromisedTo, Promised
  <2>2. ClaimsFor(u)' = ClaimsFor(u)
    BY <1>2 DEF ClaimsFor, Active
  <2>3. Tokens(u)' \subseteq Tokens(u) /\ RunsOf(u)' = RunsOf(u)
    BY <1>5, <2>1, <2>2, CarriedRuns, TokensLess
  <2> QED
    BY <1>2, <2>3 DEF Carries, Owed
<1> QED
  BY <1>2, <1>4, <1>7, <1>8 DEF Steady, Advances

LEMMA RoutingSteady ==
    ASSUME DispatchInv, RoutingNext
    PROVE  Steady
<1>1. CASE ControlStep /\ UNCHANGED local /\ Untold
  BY <1>1, ControlSteady DEF ControlStep, Untold
<1>2. CASE \E i \in Instance, now \in Observed : ClaimRefused(i, now)
  BY <1>2, ApartSteady DEF ClaimRefused, unscheduled, workerVars, localVars
<1>3. CASE \E t \in Task, limit \in RetryLimit : SetRetryLimit(t, limit)
  <2>1. PICK t \in Task, limit \in RetryLimit : SetRetryLimit(t, limit)
    BY <1>3
  <2>2. retry' = [retry EXCEPT ![t] = [retry[t] EXCEPT !.limit = limit]]
    BY <2>1 DEF SetRetryLimit
  <2>3. retry \in [Task -> RetryRow]
    BY DEF DispatchInv, RetryTypes
  <2>4. \A u \in Task : retry'[u].used = retry[u].used
    BY <2>2, <2>3 DEF RetryRow
  <2> QED
    BY <2>1, <2>4, ApartSteady DEF SetRetryLimit, vars, localVars
<1>4. CASE \E o \in Invocation, t \in Task : RouteLocally(o, t) /\ UNCHANGED retryVars
  BY <1>4, RouteSteady
<1> QED
  BY <1>1, <1>2, <1>3, <1>4, RoutingForms

\* A report that closes the circuit or plans nothing is not of a failure.
LEMMA ReportedLinks ==
    ASSUME DispatchInv, RunsCarried, ClaimsCarried, local' = local, NEW c \in Claim,
           claims[c].status = "consumed", NEW row \in ReportRow,
           report' = [report EXCEPT ![c] = row],
           row.of = "retry" => row.failure = "process_failed",
           (row.of # "nothing" /\ row.failure = "process_failed") => Pending(c)
    PROVE  Linked
<1>1. /\ LockInv /\ StartsLinked /\ LocalsLinked /\ ReportsLinked /\ RetryTypes
  BY DEF DispatchInv
<1>2. report'[c] = row /\ \A d \in Claim \ {c} : report'[d] = report[d]
  BY <1>1 DEF RetryTypes
<1>3. ReportsLinked'
  BY <1>1, <1>2 DEF ReportsLinked, ClaimsCarried
<1>4. ASSUME NEW d \in Claim, Pending(d)'
      PROVE  Pending(d) /\ claims'[d].task = claims[d].task
  <2>1. Pending(d)
    <3>1. CASE d = c
      <4>1. row.of # "nothing" /\ row.failure = "process_failed"
        BY <1>2, <1>4, <3>1 DEF Pending
      <4> QED
        BY <3>1, <4>1
    <3>2. CASE d # c
      BY <1>2, <1>4, <3>2 DEF Pending
    <3> QED
      BY <3>1, <3>2
  <2>2. claims[d].status = "consumed"
    BY <1>1, <2>1 DEF ReportsLinked, Pending
  <2> QED
    BY <2>1, <2>2 DEF ClaimsCarried
<1>5. \A t \in Task : PendingOf(t)' \subseteq PendingOf(t)
  BY <1>4 DEF PendingOf
<1> QED
  BY <1>1, <1>3, <1>5, CarriedLinks, CarriedLocals DEF Linked

LEMMA SuccessSteady ==
    ASSUME DispatchInv, NEW c \in Claim, SuccessReported(c)
    PROVE  Steady
<1>1. TypeOK /\ LockInv
  BY DEF DispatchInv
<1>2. AgentExited(c) /\ UNCHANGED <<local, retry>>
  BY DEF SuccessReported, localVars
<1>3. Next
  BY <1>2 DEF Next, RunNext
<1>4. ~ClaimStep /\ ~BeginStep
  <2>1. worker'[c] = "exited" /\ worker[c] = "working"
    BY <1>1, <1>2 DEF AgentExited, Goes, TypeOK
  <2>2. ASSUME NEW d \in Claim, NEW r \in Run, NEW now, BeginClaimedRun(d, r, now) PROVE FALSE
    BY <2>1, <2>2 DEF BeginClaimedRun, Goes
  <2>3. ASSUME NEW i \in Instance, NEW g \in 1..MaxGeneration, NEW d \in Claim, NEW now,
               ClaimTask(i, g, d, now)
        PROVE  FALSE
    BY <2>1, <2>3 DEF ClaimTask, unscheduled, workerVars
  <2> QED
    BY <2>2, <2>3 DEF ClaimStep, BeginStep
<1>5. RunsCarried /\ ClaimsCarried /\ \A t \in Task : Carries(t)
  BY <1>2, <1>3, <1>4, ControlCarries
<1>6. LockInv'
  BY <1>1, <1>3, LockStep
<1>7. claims[c].status = "consumed"
  BY <1>1, <1>2 DEF AgentExited, Goes, LockInv, WorkersLinked, Unstarted
<1>8. Linked
  <2>1. CASE UNCHANGED report
    BY <1>2, <1>5, <2>1, CarriedLinked
  <2>2. CASE Owes(c, "circuit", None)
    <3> DEFINE row == [of |-> "circuit", failure |-> None, now |-> clock]
    <3>1. row \in ReportRow /\ row.of = "circuit" /\ row.failure # "process_failed"
      <4>1. clock \in Nat /\ None # "process_failed"
        BY <1>1, DispatchAssumption DEF TypeOK, Failure
      <4> QED
        BY <4>1 DEF ReportRow
    <3>2. report' = [report EXCEPT ![c] = row]
      BY <2>2 DEF Owes
    <3> HIDE DEF row
    <3> QED
      BY <1>2, <1>5, <1>7, <3>1, <3>2, ReportedLinks
  <2> QED
    BY <2>1, <2>2 DEF SuccessReported
<1> QED
  BY <1>2, <1>5, <1>6, <1>8 DEF Steady, Advances

LEMMA CircuitSteady ==
    ASSUME DispatchInv, NEW c \in Claim, RecordAdapterOutcome(c) \/ ReportLost(c)
    PROVE  Steady
<1>1. LockInv /\ LeasesLinked /\ ReportsLinked /\ RetryTypes /\ report[c] \in ReportRow
  BY DEF DispatchInv, LockInv, RetryTypes
<1>2. UNCHANGED <<task, claims, locks, worker, runs, leases, local, retry>>
  BY DEF RecordAdapterOutcome, ReportLost, vars, localVars
<1>3. RunsCarried /\ ClaimsCarried
  BY <1>2 DEF RunsCarried, ClaimsCarried
<1>4. LockInv'
  BY <1>1, <1>2, LocalLocks DEF LeasesLinked
<1>5. claims[c].status = "consumed"
  BY <1>1 DEF RecordAdapterOutcome, ReportLost, ReportsLinked
<1>6. Reported \in ReportRow /\ Reported.of = "nothing"
  BY DEF Reported, ReportRow
<1>7. Linked
  <2>1. CASE report' = [report EXCEPT ![c] = Reported]
    BY <1>2, <1>3, <1>5, <1>6, <2>1, ReportedLinks
  <2>2. CASE /\ report[c].of = "circuit" /\ report[c].failure = "process_failed"
             /\ report' = [report EXCEPT ![c] = [report[c] EXCEPT !.of = "retry"]]
    <3> DEFINE row == [report[c] EXCEPT !.of = "retry"]
    <3>1. row \in ReportRow /\ row.failure = "process_failed"
      BY <1>1, <2>2 DEF ReportRow
    <3>2. Pending(c)
      BY <2>2 DEF Pending
    <3>3. report' = [report EXCEPT ![c] = row]
      BY <2>2
    <3> HIDE DEF row
    <3> QED
      BY <1>2, <1>3, <1>5, <3>1, <3>2, <3>3, ReportedLinks
  <2> QED
    BY <2>1, <2>2 DEF RecordAdapterOutcome, ReportLost
<1>8. ASSUME NEW t \in Task PROVE Carries(t)
  <2>1. Tokens(t)' = Tokens(t) /\ RunsOf(t)' = RunsOf(t)
    BY <1>2 DEF Tokens, ClaimsFor, Active, LeasedRunsOf, PromisedTo, RunsOf
  <2> QED
    BY <1>2, <2>1 DEF Carries, Owed
<1> QED
  BY <1>2, <1>4, <1>7, <1>8 DEF Steady, Advances


\* A failure is reported: the task fails with its run, and has one report.
LEMMA FailureKeeps ==
    ASSUME DispatchInv, NEW c \in Claim, ProcessReported(c)
    PROVE  /\ LockInv' /\ StartsLinked' /\ LocalsLinked' /\ ReportsLinked' /\ TokensInv'
           /\ \A t \in Task : Carries(t)
           /\ \A t \in Task : retry'[t].used = retry[t].used
<1>1. TypeOK /\ LockInv /\ StartsLinked /\ LocalsLinked /\ ReportsLinked /\ RetryTypes /\ TokensInv
  BY DEF DispatchInv
<1>2. RecordProcessOutcome(c) /\ UNCHANGED <<local, retry>>
  BY DEF ProcessReported, localVars
<1>3. Next
  BY <1>2 DEF Next, RunNext
<1>4. PICK t \in Task :
        /\ claims[c].task = t
        /\ Tokens(t) # {} /\ Tokens(t)' = {}
        /\ task'[t] \in {"paused", "cancelled", "failed"}
        /\ worker[c] # "terminating" => task'[t] = "failed"
  BY <1>1, <1>2, OutcomeCarries
<1>5. /\ RunsCarried /\ ClaimsCarried /\ claims[c].status = "consumed"
      /\ \A u \in Task : Carries(u)
  BY <1>1, <1>2, OutcomeCarries
<1>6. LockInv' /\ StartsLinked' /\ LocalsLinked'
  BY <1>1, <1>2, <1>3, <1>5, LockStep, CarriedLinks, CarriedLocals
<1>7. /\ report'[c].of = "circuit"
      /\ report'[c].failure = IF worker[c] = "terminating" THEN "cancelled" ELSE "process_failed"
      /\ \A d \in Claim \ {c} : report'[d] = report[d]
  BY <1>1 DEF ProcessReported, Owes, RetryTypes
<1>8. ReportsLinked'
  BY <1>1, <1>5, <1>7 DEF ReportsLinked, ClaimsCarried
<1>9. claims' = claims
  BY <1>2 DEF RecordProcessOutcome
<1>10. \A u \in Task \ {t} : PendingOf(u)' = PendingOf(u)
  BY <1>4, <1>7, <1>9 DEF PendingOf, Pending
<1>11. PendingOf(t)' \subseteq {c}
  <2>1. PendingOf(t) = {}
    BY <1>1, <1>4 DEF TokensInv
  <2> QED
    BY <1>7, <1>9, <2>1 DEF PendingOf, Pending
<1>12. PendingOf(t)' # {} => task'[t] = "failed"
  <2>1. ASSUME PendingOf(t)' # {} PROVE worker[c] # "terminating"
    <3>1. Pending(c)'
      BY <1>11, <2>1 DEF PendingOf
    <3> QED
      BY <1>7, <3>1 DEF Pending
  <2> QED
    BY <1>4, <2>1
<1>13. ASSUME NEW u \in Task
       PROVE  /\ Alone(Tokens(u))'
              /\ task'[u] \in Vacant => Tokens(u)' = {}
              /\ Alone(PendingOf(u))'
              /\ PendingOf(u)' # {} => task'[u] = "failed" /\ Tokens(u)' = {}
  <2>1. CASE u = t
    <3>1. Alone(Tokens(t))' /\ Alone(PendingOf(t))'
      BY <1>4, <1>11 DEF Alone
    <3> QED
      BY <1>4, <1>12, <2>1, <3>1
  <2>2. CASE u # t
    <3>1. PendingOf(u)' = PendingOf(u)
      BY <1>10, <2>2
    <3>2. /\ Tokens(u)' \subseteq Tokens(u)
          /\ task'[u] \in Vacant => task[u] \in Vacant \/ Tokens(u)' = {}
          /\ task[u] = "failed" => task'[u] = "failed"
      BY <1>5 DEF Carries
    <3>3. Alone(Tokens(u))' /\ Alone(PendingOf(u))'
      BY <1>1, <3>1, <3>2 DEF TokensInv, Alone
    <3> QED
      BY <1>1, <3>1, <3>2, <3>3 DEF TokensInv
  <2> QED
    BY <2>1, <2>2
<1>14. TokensInv'
  BY <1>13 DEF TokensInv
<1> QED
  BY <1>2, <1>5, <1>6, <1>8, <1>14

\* The retry of a task is planned: it is still failed and nobody has it.
LEMMA PlanKeeps ==
    ASSUME DispatchInv, NEW c \in Claim, PlanRetry(c)
    PROVE  /\ LockInv' /\ StartsLinked' /\ LocalsLinked' /\ ReportsLinked' /\ TokensInv'
           /\ \A t \in Task : RunsOf(t)' = RunsOf(t)
           /\ \E t \in Task :
                /\ claims[c].task = t
                /\ Tokens(t)' = {}
                /\ task[t] = "failed"
                /\ \/ /\ task'[t] = "failed" /\ UNCHANGED version
                      /\ retry'[t].used = retry[t].used
                      /\ retry'[t].notBefore = None
                   \/ /\ task'[t] = "ready" /\ version'[t] = version[t] + 1
                      /\ retry'[t].used = retry[t].used + 1
                /\ \A u \in Task \ {t} : /\ Carries(u) /\ task'[u] = task[u]
                                         /\ version'[u] = version[u]
                                         /\ retry'[u] = retry[u]
<1>1. TypeOK /\ LockInv /\ StartsLinked /\ LocalsLinked /\ ReportsLinked /\ RetryTypes /\ TokensInv
  BY DEF DispatchInv
<1>2. /\ UNCHANGED <<claims, locks, worker, runs, leases, local>>
      /\ report[c].of = "retry"
      /\ report' = [report EXCEPT ![c] = Reported]
  BY DEF PlanRetry, runVars, workerVars, localVars
<1>3. claims[c].status = "consumed" /\ Pending(c)
  BY <1>1, <1>2 DEF ReportsLinked, Pending
<1>4. PICK t \in Task : t = claims[c].task
  BY <1>1, <1>3 DEF LockInv, ClaimsLinked
<1>5. c \in PendingOf(t)
  BY <1>3, <1>4 DEF PendingOf
<1>6. PendingOf(t) = {c} /\ Tokens(t) = {} /\ task[t] = "failed"
  BY <1>1, <1>5 DEF TokensInv, Alone
<1>7. RunsCarried /\ ClaimsCarried
  BY <1>2 DEF RunsCarried, ClaimsCarried
<1>8. LockInv'
  <2>1. LeasesLinked
    BY <1>1 DEF LockInv
  <2> QED
    BY <1>1, <1>2, <2>1, LocalLocks DEF LeasesLinked
<1>9. StartsLinked' /\ LocalsLinked'
  BY <1>1, <1>2, <1>7, CarriedLinks, CarriedLocals
<1>10. report'[c] = Reported /\ \A d \in Claim \ {c} : report'[d] = report[d]
  BY <1>1, <1>2 DEF RetryTypes
<1>11. ReportsLinked'
  BY <1>1, <1>2, <1>10 DEF ReportsLinked, Reported
<1>12. PendingOf(t)' = {} /\ \A u \in Task : PendingOf(u)' \subseteq PendingOf(u)
  <2>1. ~Pending(c)' /\ \A d \in Claim \ {c} : Pending(d)' = Pending(d)
    BY <1>10 DEF Pending, Reported
  <2>2. \A u \in Task : PendingOf(u)' \subseteq PendingOf(u) \ {c}
    BY <1>2, <2>1 DEF PendingOf
  <2> QED
    BY <1>6, <2>2
<1>13. ASSUME NEW u \in Task
       PROVE  Tokens(u)' = Tokens(u) /\ RunsOf(u)' = RunsOf(u)
  BY <1>2 DEF Tokens, ClaimsFor, Active, LeasedRunsOf, PromisedTo, RunsOf
<1>14. /\ \/ /\ task'[t] = "failed" /\ UNCHANGED version
             /\ retry'[t].used = retry[t].used
             /\ retry'[t].notBefore = None
          \/ /\ task'[t] = "ready" /\ version'[t] = version[t] + 1
             /\ retry'[t].used = retry[t].used + 1
       /\ \A u \in Task \ {t} : task'[u] = task[u] /\ version'[u] = version[u] /\ retry'[u] = retry[u]
  <2>1. /\ retry \in [Task -> RetryRow] /\ retry[t] \in RetryRow
        /\ task \in [Task -> Status] /\ version \in [Task -> Nat]
    BY <1>1 DEF RetryTypes, TypeOK
  <2>2. CASE retry[t].used < retry[t].limit
    <3> DEFINE n == retry[t].used + 1
               d == report[c].now + RetryDelay(t, retry[t].used + 1)
    <3>1. /\ Transition(t, "failed", "ready")
          /\ retry' = [retry EXCEPT ![t] = Retried(retry[t], t, report[c].now)]
      BY <1>4, <2>2 DEF PlanRetry
    <3>2. Retried(retry[t], t, report[c].now) = [retry[t] EXCEPT !.used = n, !.notBefore = d]
      BY DEF Retried
    <3> HIDE DEF n, d
    <3>3. retry'[t].used = n /\ \A u \in Task \ {t} : retry'[u] = retry[u]
      BY <2>1, <3>1, <3>2 DEF RetryRow
    <3>4. /\ task'[t] = "ready" /\ version'[t] = version[t] + 1
          /\ \A u \in Task \ {t} : task'[u] = task[u] /\ version'[u] = version[u]
      BY <2>1, <3>1 DEF Transition
    <3> QED
      BY <3>3, <3>4 DEF n
  <2>3. CASE ~(retry[t].used < retry[t].limit)
    <3>1. /\ UNCHANGED <<task, version>>
          /\ retry' = [retry EXCEPT ![t] = [retry[t] EXCEPT !.notBefore = None]]
      BY <1>4, <2>3 DEF PlanRetry
    <3> QED
      BY <1>6, <2>1, <3>1 DEF RetryRow
  <2> QED
    BY <2>2, <2>3
<1>15. ASSUME NEW u \in Task \ {t} PROVE Carries(u)
  BY <1>13, <1>14 DEF Carries, Owed
<1>16. ASSUME NEW u \in Task
       PROVE  /\ Alone(Tokens(u))'
              /\ task'[u] \in Vacant => Tokens(u)' = {}
              /\ Alone(PendingOf(u))'
              /\ PendingOf(u)' # {} => task'[u] = "failed" /\ Tokens(u)' = {}
  <2>1. Alone(Tokens(u))' /\ Alone(PendingOf(u))'
    BY <1>1, <1>12, <1>13 DEF TokensInv, Alone
  <2>2. CASE u = t
    BY <1>6, <1>12, <1>13, <2>1, <2>2
  <2>3. CASE u # t
    BY <1>1, <1>12, <1>13, <1>14, <2>1, <2>3 DEF TokensInv
  <2> QED
    BY <2>2, <2>3
<1>17. TokensInv'
  BY <1>16 DEF TokensInv
<1>18. Tokens(t)' = {}
  BY <1>6, <1>13
<1> QED
  BY <1>4, <1>6, <1>8, <1>9, <1>11, <1>13, <1>14, <1>15, <1>17, <1>18

-----------------------------------------------------------------------------
(* The invariant holds.                                                      *)

LEMMA DispatchTypes ==
    ASSUME DispatchInv, [DispatchNext]_dispatchVars
    PROVE  TypeOK' /\ RetryTypes'
<1>1. TypeOK /\ RetryTypes /\ LockInv /\ ReportsLinked
  BY DEF DispatchInv
<1>2. CASE UNCHANGED dispatchVars
  BY <1>1, <1>2 DEF dispatchVars, vars, localVars, retryVars, TypeOK, RetryTypes, ProbesKnown
<1>3. CASE RoutingNext
  <2>1. RetryTypes'
    BY <1>1, <1>3, RoutingTypes
  <2>2. TypeOK'
    <3>1. CASE ControlStep
      BY <1>1, <3>1, NextTypes DEF ControlStep
    <3>2. CASE \E i \in Instance, now \in Observed : ClaimRefused(i, now)
      <4>1. PICK i \in Instance, now \in Observed : ClaimRefused(i, now)
        BY <3>2
      <4>2. planned' \in [Instance -> Plan]
        BY <1>1, <4>1 DEF ClaimRefused, TypeOK, Plan, NoPlan
      <4> QED
        BY <1>1, <4>1, <4>2 DEF ClaimRefused, unscheduled, leaderVars, controlVars,
            workerVars, graphVars, TypeOK
    <3>3. CASE \/ \E t \in Task, limit \in RetryLimit : SetRetryLimit(t, limit)
               \/ \E o \in Invocation, t \in Task : RouteLocally(o, t)
      <4>1. UNCHANGED vars
        BY <3>3 DEF SetRetryLimit, RouteLocally, elsewhere, leaderVars, controlVars,
            graphVars, workerVars, vars
      <4> QED
        BY <1>1, <4>1 DEF vars, TypeOK
    <3> QED
      BY <1>3, <3>1, <3>2, <3>3, RoutingForms
  <2> QED
    BY <2>1, <2>2
<1>4. CASE ReportNext
  <2>1. RetryTypes'
    BY <1>1, <1>4, ReportTypes DEF ReportsLinked, LockInv, ClaimsLinked
  <2>2. TypeOK'
    <3>1. CASE \E c \in Claim : ProcessReported(c) \/ SuccessReported(c)
      <4>1. Next
        BY <3>1 DEF ProcessReported, SuccessReported, Next, RunNext
      <4> QED
        BY <1>1, <4>1, NextTypes
    <3>2. CASE \E c \in Claim : RecordAdapterOutcome(c) \/ ReportLost(c)
      <4>1. UNCHANGED vars
        BY <3>2 DEF RecordAdapterOutcome, ReportLost
      <4> QED
        BY <1>1, <4>1 DEF vars, TypeOK
    <3>3. CASE \E c \in Claim : PlanRetry(c)
      <4>1. PICK c \in Claim : PlanRetry(c)
        BY <3>3
      <4>2. Transition(claims[c].task, "failed", "ready") \/ UNCHANGED <<task, version>>
        BY <4>1 DEF PlanRetry
      <4>3. task' \in [Task -> Status] /\ version' \in [Task -> Nat]
        BY <1>1, <4>2, TransitionType DEF Status, TypeOK
      <4> QED
        BY <1>1, <4>1, <4>3 DEF PlanRetry, unexecuted, graphVars, runVars, leaderVars,
            controlVars, workerVars, TypeOK
    <3> QED
      BY <1>4, <3>1, <3>2, <3>3, ReportForms
  <2> QED
    BY <2>1, <2>2
<1>5. CASE DispatchUnboundNext
  <2>1. [Next]_vars /\ UNCHANGED <<local, risk, retry, circuit, wake, report>>
    BY <1>5, UnboundForms DEF ControlStep, retryVars
  <2> QED
    BY <1>1, <2>1, NextTypes DEF RetryTypes, ProbesKnown
<1>6. CASE LocalNext /\ UNCHANGED retryVars
  BY <1>1, <1>6, LocalTypes
<1> QED
  BY <1>2, <1>3, <1>4, <1>5, <1>6 DEF DispatchNext

\* Every step is steady, reports a failure, or plans a retry.
LEMMA DispatchForms ==
    ASSUME DispatchInv, [DispatchNext]_dispatchVars
    PROVE  Steady \/ \E c \in Claim : ProcessReported(c) \/ PlanRetry(c)
<1>1. CASE UNCHANGED dispatchVars
  BY <1>1, ApartSteady DEF dispatchVars, vars, localVars, retryVars
<1>2. CASE RoutingNext
  BY <1>2, RoutingSteady
<1>3. CASE ReportNext
  BY <1>3, ReportForms, SuccessSteady, CircuitSteady
<1>4. CASE DispatchUnboundNext
  BY <1>4, UnboundForms, ControlSteady DEF ControlStep, retryVars
<1>5. CASE LocalNext /\ UNCHANGED retryVars
  BY <1>5, LocalStep DEF LocalKeeps, Steady, Advances, retryVars
<1> QED
  BY <1>1, <1>2, <1>3, <1>4, <1>5 DEF DispatchNext

LEMMA DispatchStart == DispatchInit => DispatchInv
<1> SUFFICES ASSUME DispatchInit PROVE DispatchInv
  OBVIOUS
<1>1. Init /\ TypeOK /\ RetryTypes /\ LockInv
  BY DispatchInitTypes, LockInit DEF DispatchInit
<1>2. /\ \A r \in Run : runs[r] = NoRun /\ ~leases[r].held
      /\ \A c \in Claim : claims[c] = NoClaim /\ report[c] = Reported
      /\ \A o \in Invocation : local[o] = NotInvoked
  BY DEF DispatchInit, Init, NoLease
<1>3. StartsLinked /\ LocalsLinked /\ ReportsLinked
  BY <1>2 DEF StartsLinked, LocalsLinked, ReportsLinked, NoRun, NoClaim, Reported,
      NotInvoked, Promised, Executing
<1>4. ASSUME NEW t \in Task PROVE Tokens(t) = {} /\ PendingOf(t) = {}
  <2>1. ClaimsFor(t) = {} /\ LeasedRunsOf(t) = {} /\ PromisedTo(t) = {} /\ PendingOf(t) = {}
    BY <1>2 DEF ClaimsFor, Active, NoClaim, LeasedRunsOf, PromisedTo, NotInvoked, Promised,
        PendingOf, Pending, Reported
  <2> QED
    BY <2>1 DEF Tokens
<1>5. TokensInv
  BY <1>4 DEF TokensInv, Alone
<1> QED
  BY <1>1, <1>3, <1>5 DEF DispatchInv

LEMMA DispatchStep == DispatchInv /\ [DispatchNext]_dispatchVars => DispatchInv'
<1> SUFFICES ASSUME DispatchInv, [DispatchNext]_dispatchVars PROVE DispatchInv'
  OBVIOUS
<1>1. TypeOK' /\ RetryTypes'
  BY DispatchTypes
<1>2. LockInv' /\ StartsLinked' /\ LocalsLinked' /\ ReportsLinked' /\ TokensInv'
  <2>1. CASE Steady
    BY <2>1, SteadyTokens DEF Steady, Linked, DispatchInv
  <2>2. CASE \E c \in Claim : ProcessReported(c) \/ PlanRetry(c)
    BY <2>2, FailureKeeps, PlanKeeps
  <2> QED
    BY <2>1, <2>2, DispatchForms
<1> QED
  BY <1>1, <1>2 DEF DispatchInv

LEMMA DispatchInvariant == DispatchSpec => []DispatchInv
BY DispatchStart, DispatchStep, PTL DEF DispatchSpec

\* Rows of retries, circuits, wakes and reports keep their types beside the
\* rows of the control plane.
THEOREM DispatchTypesCorrect == DispatchSpec => []DispatchTypeOK
<1>1. DispatchInv => DispatchTypeOK
  BY DEF DispatchInv, RetryTypes, DispatchTypeOK
<1> QED
  BY <1>1, DispatchInvariant, PTL

\* A task is executed by one process at a time, whether a claim or an operator
\* at the command line started it (claim_task, begin_claimed_run, run_task,
\* recover_expired_leases, schedule_retry): whoever executes it has the only
\* token of it.
THEOREM OneProcessExecutes == DispatchSpec => []OneExecutor
<1>1. DispatchInv => OneExecutor
  <2>1. SUFFICES ASSUME DispatchInv, NEW t \in Task
                 PROVE  Cardinality(Executors(t)) <= 1
    BY DEF OneExecutor
  <2>2. CASE Executors(t) = {}
    BY <2>2, FS_EmptySet
  <2>3. CASE Executors(t) # {}
    <3>1. PICK x : x \in Executors(t)
      BY <2>3
    <3>2. ASSUME NEW y \in Executors(t) PROVE y = x
      BY <2>1, <3>1, ExecutorsAlone
    <3>3. Executors(t) = {x}
      BY <3>1, <3>2
    <3>4. Cardinality({x}) = 1
      BY FS_Singleton
    <3> QED
      BY <3>3, <3>4
  <2> QED
    BY <2>2, <2>3
<1> QED
  BY <1>1, DispatchInvariant, PTL

-----------------------------------------------------------------------------
(* Retries are paid.  A task that left draft has its dependencies completed  *)
(* while none is added, so nothing but a planned retry puts a task that has  *)
(* run back into the queue.                                                  *)

\* What a step does to the order of tasks.
Ordered(t) ==
    /\ task[t] = "completed" => task'[t] = "completed"
    /\ task'[t] = "draft" => task[t] = "draft"
    /\ (task[t] = "draft" /\ task'[t] # "draft") =>
            \A d \in dependsOn[t] : task'[d] = "completed"

GraphKeeps == UNCHANGED <<dependsOn, edit>> /\ \A t \in Task : Ordered(t)

\* A task that stays, or is busy and does not return to draft.
Busy(t) == task'[t] = task[t] \/ (task[t] \notin {"draft", "completed"} /\ task'[t] # "draft")

LEMMA BusyOrdered == ASSUME NEW t \in Task, Busy(t) PROVE Ordered(t)
BY DEF Busy, Ordered

LEMMA TransitionBusy ==
    ASSUME TypeOK, NEW u, NEW from, NEW to, Transition(u, from, to),
           from \notin {"draft", "completed"}, to # "draft"
    PROVE  \A t \in Task : Busy(t)
BY TransitionMoves DEF Busy

LEMMA HandedBackBusy ==
    ASSUME NEW gone, NEW to \in {"ready", "paused"}, NEW t \in Task
    PROVE  /\ TaskAfter(gone, to)[t] \in {task[t], to}
           /\ TaskAfter(gone, to)[t] # task[t] => task[t] = "leased"
BY DEF TaskAfter, Returned

LEMMA NextOrdered ==
    ASSUME TypeOK, LockInv, RunsLinked, [Next]_vars, edit = NoEdit
    PROVE  \A t \in Task : Ordered(t)
<1>1. CASE ClaimStep
  <2>1. PICK i \in Instance, g \in 1..MaxGeneration, c \in Claim, now \in Observed :
            ClaimTask(i, g, c, now)
    BY <1>1 DEF ClaimStep
  <2>2. PICK t \in Task : t = planned[i].task
    BY <2>1, ClaimFacts
  <2> DEFINE after == TaskAfter(ExpiredAt(now), "ready")
  <2>3. after[t] = "ready" /\ task' = [after EXCEPT ![t] = "leased"]
    BY <2>1, <2>2 DEF ClaimTask
  <2>4. after \in [Task -> Status]
    BY TaskAfterType DEF Status
  <2>5. ASSUME NEW u \in Task PROVE Busy(u)
    <3>1. after[u] \in {task[u], "ready"} /\ (after[u] # task[u] => task[u] = "leased")
      BY HandedBackBusy
    <3> HIDE DEF after
    <3> QED
      BY <2>3, <2>4, <3>1 DEF Busy
  <2> QED
    BY <2>5, BusyOrdered
<1>2. CASE BeginStep
  <2>1. PICK c \in Claim, r \in Run, now \in Observed : BeginClaimedRun(c, r, now)
    BY <1>2 DEF BeginStep
  <2>2. /\ task[claims[c].task] = "leased"
        /\ task' = [task EXCEPT ![claims[c].task] = "running"]
    BY <2>1 DEF BeginClaimedRun, Startable
  <2>3. \A t \in Task : Busy(t)
    BY <2>2 DEF Busy, TypeOK
  <2> QED
    BY <2>3, BusyOrdered
<1>3. CASE \E gone : EndStep(gone)
  <2>1. \E gone : \E to \in {"ready", "paused"} : task' = TaskAfter(gone, to)
    BY <1>3 DEF EndStep
  <2>2. ASSUME NEW gone, NEW to \in {"ready", "paused"}, task' = TaskAfter(gone, to)
        PROVE  \A t \in Task : Busy(t)
    BY <2>2, HandedBackBusy DEF Busy
  <2> QED
    BY <2>1, <2>2, BusyOrdered
<1>4. CASE \E c \in Claim : FinishRun(c)
  BY <1>4, BusyOrdered DEF FinishRun, Busy
<1>5. CASE \E c \in Claim : RecordProcessOutcome(c)
  <2>1. \E u, to : Transition(u, "running", to) /\ to \in {"paused", "cancelled", "failed"}
    BY <1>5 DEF RecordProcessOutcome
  <2> QED
    BY <2>1, TransitionBusy, BusyOrdered
<1>6. CASE \E now \in Observed : RecoverExpiredLeases(now)
  <2>1. PICK now \in Observed : RecoverExpiredLeases(now)
    BY <1>6
  <2>2. task' = [t \in Task |-> IF ExpiredLeasesOf(t, now) # {} THEN "paused" ELSE task[t]]
    BY <2>1 DEF RecoverExpiredLeases
  <2>3. ASSUME NEW t \in Task, ExpiredLeasesOf(t, now) # {} PROVE task[t] \in Recoverable
    BY <2>3 DEF ExpiredLeasesOf, ExpiredLeases
  <2>4. \A t \in Task : Busy(t)
    BY <2>2, <2>3 DEF Busy, Recoverable
  <2> QED
    BY <2>4, BusyOrdered
<1>7. CASE MoveStep
  BY <1>7 DEF MoveStep, Follows, Ordered
<1> QED
  BY <1>1, <1>2, <1>3, <1>4, <1>5, <1>6, <1>7, MoveSteps

LEMMA ControlGraph ==
    ASSUME DispatchInv, [Next]_vars, edit = NoEdit, Edit = {}
    PROVE  GraphKeeps
<1>1. TypeOK /\ LockInv /\ RunsLinked
  BY DEF DispatchInv, StartsLinked, RunsLinked
<1>2. \A t \in Task : Ordered(t)
  BY <1>1, NextOrdered
<1>3. ~AddDependency
  BY DEF AddDependency
<1>4. UNCHANGED <<dependsOn, edit>>
  BY <1>3, GraphKept
<1> QED
  BY <1>2, <1>4 DEF GraphKeeps

LEMMA ApartGraph ==
    ASSUME UNCHANGED <<dependsOn, edit>>, \A t \in Task : Busy(t)
    PROVE  GraphKeeps
BY BusyOrdered DEF GraphKeeps

LEMMA LocalGraph == ASSUME DispatchInv, LocalNext PROVE GraphKeeps
<1>1. TypeOK
  BY DEF DispatchInv
<1>2. UNCHANGED <<dependsOn, edit>>
  BY DEF LocalNext, LeaseLocally, LocalWorktreeFailed, LocalWorktreeReady, Authorized,
      NotAuthorized, CreateRun, LocalAgentExited, CreateLocalVerifier, FinishLocalVerifier,
      CloseLocalVerification, FinishLocalRun, LocalDies, elsewhere, graphVars
<1>3. \/ task' = task
      \/ \E u, from, to : /\ Transition(u, from, to)
                          /\ from \notin {"draft", "completed"} /\ to # "draft"
  <2>1. ASSUME NEW o \in Invocation, NotAuthorized(o)
        PROVE  \E u, to : Transition(u, "planning", to) /\ to # "draft"
    <3>1. \E to \in {"awaiting_approval", "blocked"} :
                Transition(local[o].task, "planning", to)
      BY <2>1 DEF NotAuthorized
    <3> QED
      BY <3>1
  <2>2. ASSUME NEW o \in Invocation, CloseLocalVerification(o)
        PROVE  \E u, to : Transition(u, "verifying", to) /\ to # "draft"
    <3>1. \E to \in {"review", "failed"} : Transition(local[o].task, "verifying", to)
      BY <2>2 DEF CloseLocalVerification, VerifiedStatus
    <3> QED
      BY <3>1
  <2>3. CASE \/ \E o \in Invocation : LocalWorktreeFailed(o) \/ LocalWorktreeReady(o)
             \/ \E o \in Invocation : LeaseLocally(o)
    BY <2>3 DEF LeaseLocally, LocalWorktreeFailed, LocalWorktreeReady
  <2>4. CASE \E o \in Invocation : Authorized(o) \/ LocalAgentExited(o)
    BY <2>4 DEF Authorized, LocalAgentExited
  <2>5. CASE \/ \E o \in Invocation, r \in Run : CreateRun(o, r)
             \/ \E o \in Invocation, passed \in BOOLEAN : FinishLocalVerifier(o, passed)
             \/ \E o \in Invocation : CreateLocalVerifier(o) \/ FinishLocalRun(o)
             \/ \E o \in Invocation : LocalDies(o)
    BY <2>5 DEF CreateRun, FinishLocalVerifier, CreateLocalVerifier, FinishLocalRun, LocalDies
  <2> QED
    BY <2>1, <2>2, <2>3, <2>4, <2>5 DEF LocalNext
<1>4. \A t \in Task : Busy(t)
  BY <1>1, <1>3, TransitionBusy DEF Busy
<1> QED
  BY <1>2, <1>4, ApartGraph

LEMMA DispatchGraph ==
    ASSUME DispatchInv, [DispatchNext]_dispatchVars, edit = NoEdit, Edit = {}
    PROVE  GraphKeeps
<1>1. CASE UNCHANGED vars
  BY <1>1, ApartGraph DEF vars, Busy
<1>2. CASE [Next]_vars
  BY <1>2, ControlGraph
<1>3. CASE RoutingNext
  <2>1. CASE \E i \in Instance, now \in Observed : ClaimRefused(i, now)
    BY <2>1, ApartGraph DEF ClaimRefused, unscheduled, graphVars, Busy
  <2>2. CASE \/ \E t \in Task, limit \in RetryLimit : SetRetryLimit(t, limit)
             \/ \E o \in Invocation, t \in Task : RouteLocally(o, t) /\ UNCHANGED retryVars
    <3>1. UNCHANGED <<dependsOn, edit, task>>
      BY <2>2 DEF SetRetryLimit, RouteLocally, elsewhere, graphVars, vars
    <3> QED
      BY <3>1, ApartGraph DEF Busy
  <2> QED
    BY <1>2, <1>3, <2>1, <2>2, RoutingForms DEF ControlStep
<1>4. CASE ReportNext
  <2>1. CASE \E c \in Claim : ProcessReported(c) \/ SuccessReported(c)
    BY <1>2, <2>1 DEF ProcessReported, SuccessReported, Next, RunNext
  <2>2. CASE \E c \in Claim : RecordAdapterOutcome(c) \/ ReportLost(c)
    BY <1>1, <2>2 DEF RecordAdapterOutcome, ReportLost
  <2>3. CASE \E c \in Claim : PlanRetry(c)
    <3>1. PICK c \in Claim : PlanRetry(c)
      BY <2>3
    <3>2. UNCHANGED <<dependsOn, edit>>
      BY <3>1 DEF PlanRetry, graphVars
    <3>3. Transition(claims[c].task, "failed", "ready") \/ task' = task
      BY <3>1 DEF PlanRetry
    <3>4. \A t \in Task : Busy(t)
      BY <3>3, TransitionBusy DEF Busy, DispatchInv
    <3> QED
      BY <3>2, <3>4, ApartGraph
  <2> QED
    BY <1>4, <2>1, <2>2, <2>3, ReportForms
<1>5. CASE DispatchUnboundNext
  BY <1>2, <1>5, UnboundForms DEF ControlStep
<1>6. CASE LocalNext
  BY <1>6, LocalGraph
<1> QED
  BY <1>1, <1>3, <1>4, <1>5, <1>6 DEF DispatchNext, dispatchVars

DraftsInv ==
    /\ Edit = {} /\ edit = NoEdit
    /\ \A t \in Task : task[t] # "draft" => DependenciesComplete(t)

LEMMA DraftsKept ==
    ASSUME TypeOK, DraftsInv, GraphKeeps
    PROVE  DraftsInv'
<1>1. UNCHANGED <<dependsOn, edit>>
  BY DEF GraphKeeps
<1>2. ASSUME NEW t \in Task, task'[t] # "draft"
      PROVE  DependenciesComplete(t)'
  <2>1. Ordered(t) /\ \A d \in dependsOn[t] : Ordered(d)
    BY DEF GraphKeeps, TypeOK
  <2>2. CASE task[t] = "draft"
    BY <1>1, <1>2, <2>1, <2>2 DEF Ordered, DependenciesComplete
  <2>3. CASE task[t] # "draft"
    <3>1. \A d \in dependsOn[t] : task[d] = "completed"
      BY <2>3 DEF DraftsInv, DependenciesComplete
    <3> QED
      BY <1>1, <2>1, <3>1 DEF Ordered, DependenciesComplete
  <2> QED
    BY <2>2, <2>3
<1> QED
  BY <1>1, <1>2 DEF DraftsInv

\* A task that still waits for a run of its own has used less.
Paid(t) ==
    IF Owed(t) THEN Cardinality(RunsOf(t)) <= retry[t].used
               ELSE Cardinality(RunsOf(t)) <= 1 + retry[t].used

LEMMA RunsCounted ==
    /\ \A t \in Task : IsFiniteSet(RunsOf(t)) /\ Cardinality(RunsOf(t)) \in Nat
<1>1. ASSUME NEW t \in Task PROVE IsFiniteSet(RunsOf(t))
  BY IdentityAssumption, FS_Subset DEF RunsOf
<1> QED
  BY <1>1, FS_CardinalityType

LEMMA OneRunMore ==
    ASSUME NEW S, NEW T, NEW r, IsFiniteSet(S), T = S \cup {r}
    PROVE  Cardinality(T) <= Cardinality(S) + 1 /\ Cardinality(T) \in Nat
<1>1. /\ Cardinality(S) \in Nat
      /\ Cardinality(T) = IF r \in S THEN Cardinality(S) ELSE Cardinality(S) + 1
  BY FS_CardinalityType, FS_AddElement
<1> QED
  BY <1>1

LEMMA PaidOnwards ==
    ASSUME DispatchInv, DraftsInv, NEW t \in Task, Paid(t), Advances(t),
           retry'[t].used = retry[t].used
    PROVE  Paid(t)'
<1>1. /\ IsFiniteSet(RunsOf(t)) /\ Cardinality(RunsOf(t)) \in Nat
      /\ retry[t].used \in Nat
  BY RunsCounted DEF DispatchInv, RetryTypes, RetryRow
<1>2. Owed(t)' => task'[t] \in {"draft", "ready"} \/ Tokens(t)' # {}
  BY DEF Owed, Tokens
<1>3. CASE Carries(t)
  <2>1. RunsOf(t)' = RunsOf(t)
    BY <1>3 DEF Carries
  <2>2. Unblocked(t) => Owed(t)
    BY DEF Unblocked, DraftsInv, Owed
  <2>3. Owed(t)' => Owed(t)
    <3>1. CASE task'[t] \in {"draft", "ready"}
      BY <1>3, <2>2, <3>1 DEF Carries
    <3>2. CASE ClaimsFor(t)' # {}
      <4>1. PICK c : c \in ClaimsFor(t)'
        BY <3>2
      <4>2. <<"claim", c>> \in Tokens(t)
        BY <1>3, <4>1 DEF Carries, Tokens
      <4>3. c \in ClaimsFor(t)
        BY <4>2 DEF Tokens
      <4> QED
        BY <4>3 DEF Owed
    <3>3. CASE PromisedTo(t)' # {}
      <4>1. PICK o : o \in PromisedTo(t)'
        BY <3>3
      <4>2. <<"local", o>> \in Tokens(t)
        BY <1>3, <4>1 DEF Carries, Tokens
      <4>3. o \in PromisedTo(t)
        BY <4>2 DEF Tokens
      <4> QED
        BY <4>3 DEF Owed
    <3> QED
      BY <3>1, <3>2, <3>3 DEF Owed
  <2> QED
    BY <1>1, <2>1, <2>3 DEF Paid
<1>4. CASE Promises(t)
  <2>1. RunsOf(t)' = RunsOf(t) /\ Owed(t)
    BY <1>4 DEF Promises
  <2> QED
    BY <1>1, <2>1 DEF Paid
<1>5. CASE Starts(t)
  <2>1. PICK r \in Run : /\ Tokens(t)' \subseteq {<<"run", r>>}
                         /\ RunsOf(t)' = RunsOf(t) \cup {r}
    BY <1>5 DEF Starts
  <2>2. Owed(t) /\ task'[t] \notin Vacant
    BY <1>5 DEF Starts
  <2>3. ClaimsFor(t)' = {} /\ PromisedTo(t)' = {}
    <3>1. ASSUME NEW c \in ClaimsFor(t)' PROVE FALSE
      <4>1. <<"claim", c>> \in Tokens(t)'
        BY DEF Tokens
      <4>2. <<"claim", c>> = <<"run", r>>
        BY <2>1, <4>1
      <4> QED
        BY <4>2
    <3>2. ASSUME NEW o \in PromisedTo(t)' PROVE FALSE
      <4>1. <<"local", o>> \in Tokens(t)'
        BY DEF Tokens
      <4>2. <<"local", o>> = <<"run", r>>
        BY <2>1, <4>1
      <4> QED
        BY <4>2
    <3> QED
      BY <3>1, <3>2
  <2>4. ~Owed(t)'
    BY <2>2, <2>3 DEF Owed, Vacant
  <2>5. /\ Cardinality(RunsOf(t)') <= Cardinality(RunsOf(t)) + 1
        /\ Cardinality(RunsOf(t)') \in Nat
    BY <1>1, <2>1, OneRunMore
  <2>6. Cardinality(RunsOf(t)) <= retry[t].used
    BY <2>2 DEF Paid
  <2>7. Cardinality(RunsOf(t))' <= 1 + retry'[t].used
    BY <1>1, <2>5, <2>6
  <2> QED
    BY <2>4, <2>7 DEF Paid
<1> QED
  BY <1>3, <1>4, <1>5 DEF Advances

PaidInv == DispatchInv /\ DraftsInv /\ \A t \in Task : Paid(t)

LEMMA PaidStep ==
    ASSUME PaidInv, [DispatchNext]_dispatchVars
    PROVE  PaidInv'
<1>1. DispatchInv /\ DraftsInv /\ DispatchInv'
  BY DispatchStep DEF PaidInv
<1>2. DraftsInv'
  <2>1. TypeOK /\ GraphKeeps
    BY <1>1, DispatchGraph DEF DispatchInv, DraftsInv
  <2> QED
    BY <1>1, <2>1, DraftsKept
<1>3. CASE Steady
  BY <1>1, <1>2, <1>3, PaidOnwards DEF Steady, PaidInv
<1>4. CASE \E c \in Claim : ProcessReported(c)
  <2>1. \A t \in Task : Advances(t) /\ retry'[t].used = retry[t].used
    BY <1>1, <1>4, FailureKeeps DEF Advances
  <2> QED
    BY <1>1, <1>2, <2>1, PaidOnwards DEF PaidInv
<1>5. CASE \E c \in Claim : PlanRetry(c)
  <2>1. PICK c \in Claim : PlanRetry(c)
    BY <1>5
  <2>2. \A t \in Task : RunsOf(t)' = RunsOf(t)
    BY <1>1, <2>1, PlanKeeps
  <2>3. PICK t \in Task :
                /\ claims[c].task = t
                /\ Tokens(t)' = {}
                /\ task[t] = "failed"
                /\ \/ /\ task'[t] = "failed" /\ UNCHANGED version
                      /\ retry'[t].used = retry[t].used
                      /\ retry'[t].notBefore = None
                   \/ /\ task'[t] = "ready" /\ version'[t] = version[t] + 1
                      /\ retry'[t].used = retry[t].used + 1
                /\ \A u \in Task \ {t} : /\ Carries(u) /\ task'[u] = task[u]
                                         /\ version'[u] = version[u]
                                         /\ retry'[u] = retry[u]
    BY <1>1, <2>1, PlanKeeps
  <2>4. ASSUME NEW u \in Task \ {t} PROVE Paid(u)'
    BY <1>1, <2>3, PaidOnwards DEF Advances, PaidInv
  <2>5. Paid(t)'
    <3>1. Cardinality(RunsOf(t)) <= 1 + retry[t].used
      <4>1. Cardinality(RunsOf(t)) \in Nat /\ retry[t].used \in Nat /\ Paid(t)
        BY <1>1, RunsCounted DEF DispatchInv, RetryTypes, RetryRow, PaidInv
      <4> QED
        BY <4>1 DEF Paid
    <3>2. ClaimsFor(t)' = {} /\ PromisedTo(t)' = {}
      <4>1. /\ \A d \in ClaimsFor(t)' : <<"claim", d>> \in Tokens(t)'
            /\ \A o \in PromisedTo(t)' : <<"local", o>> \in Tokens(t)'
        BY DEF Tokens
      <4> QED
        BY <2>3, <4>1
    <3>3. CASE task'[t] = "failed" /\ retry'[t].used = retry[t].used
      <4>1. ~Owed(t)'
        BY <3>2, <3>3 DEF Owed
      <4>2. Cardinality(RunsOf(t))' = Cardinality(RunsOf(t))
        BY <2>2
      <4> QED
        BY <3>1, <3>3, <4>1, <4>2 DEF Paid
    <3>4. CASE retry'[t].used = retry[t].used + 1
      <4>1. /\ Cardinality(RunsOf(t))' = Cardinality(RunsOf(t))
            /\ Cardinality(RunsOf(t)) \in Nat /\ retry[t].used \in Nat
        BY <1>1, <2>2, RunsCounted DEF DispatchInv, RetryTypes, RetryRow
      <4>2. /\ Cardinality(RunsOf(t))' <= retry'[t].used
            /\ Cardinality(RunsOf(t))' <= 1 + retry'[t].used
        BY <3>1, <3>4, <4>1
      <4> QED
        BY <4>2 DEF Paid
    <3> QED
      BY <2>3, <3>3, <3>4
  <2> QED
    BY <1>1, <1>2, <2>4, <2>5 DEF PaidInv
<1> QED
  BY <1>1, <1>3, <1>4, <1>5, DispatchForms

LEMMA PaidStart == Edit = {} /\ DispatchInit => PaidInv
<1> SUFFICES ASSUME Edit = {}, DispatchInit PROVE PaidInv
  OBVIOUS
<1>1. DispatchInv
  BY DispatchStart
<1>2. DraftsInv
  BY DEF DispatchInit, Init, DraftsInv, DependenciesComplete
<1>3. ASSUME NEW t \in Task PROVE Paid(t)
  <2>1. RunsOf(t) = {}
    BY IdentityAssumption DEF RunsOf, DispatchInit, Init, NoRun
  <2>2. Cardinality(RunsOf(t)) = 0
    BY <2>1, FS_EmptySet
  <2>3. retry[t].used \in Nat
    BY <1>1 DEF DispatchInv, RetryTypes, RetryRow
  <2> QED
    BY <2>2, <2>3 DEF Paid
<1> QED
  BY <1>1, <1>2, <1>3 DEF PaidInv

\* Every run of a task but the first was paid for from its retry budget, while
\* no dependency is added to a task that was registered: neither expiry nor
\* recovery, a refused claim, a lost report or a local run starts one more
\* (schedule_retry, claim_task, run_task, recover_expired_leases).
THEOREM RetriesArePaid == Edit = {} /\ DispatchSpec => []EachRetryIsPaid
<1>1. PaidInv /\ [DispatchNext]_dispatchVars => PaidInv'
  BY PaidStep
<1>2. PaidInv => EachRetryIsPaid
  <2>1. SUFFICES ASSUME PaidInv, NEW t \in Task
                 PROVE  Cardinality(RunsOf(t)) <= 1 + retry[t].used
    BY DEF EachRetryIsPaid
  <2>2. Cardinality(RunsOf(t)) \in Nat /\ retry[t].used \in Nat /\ Paid(t)
    BY <2>1, RunsCounted DEF PaidInv, DispatchInv, RetryTypes, RetryRow
  <2> QED
    BY <2>2 DEF Paid
<1> QED
  BY <1>1, <1>2, PaidStart, PTL DEF DispatchSpec

-----------------------------------------------------------------------------
(* Backoff is respected.  A plan that still holds the version of its task    *)
(* was made when the backoff was over: whatever starts another backoff moves *)
(* the version on.                                                           *)

PlansDue ==
    \A i \in Instance, t \in Task : planned[i].task = t =>
        /\ planned[i].version <= version[t]
        /\ planned[i].version = version[t] => RetryDue(t, clock)

\* Versions and time only go on.
Onwards == clock' >= clock /\ \A t \in Task : version'[t] >= version[t]

\* Plans are dropped.
PlansDropped == \A i \in Instance : planned'[i] \in {planned[i], NoPlan}

\* A step that puts no backoff in the way of a plan that holds.
Undelayed ==
    \A t \in Task : \/ retry'[t].notBefore \in {None, retry[t].notBefore}
                    \/ version'[t] > version[t]

LEMMA PlansKept ==
    ASSUME TypeOK, TypeOK', RetryTypes, PlansDue, Onwards, PlansDropped, Undelayed
    PROVE  PlansDue'
<1>1. ASSUME NEW i \in Instance, NEW t \in Task, planned'[i].task = t
      PROVE  /\ planned'[i].version <= version'[t]
             /\ planned'[i].version = version'[t] => RetryDue(t, clock)'
  <2>1. planned'[i] = planned[i]
    BY <1>1, IdentityAssumption DEF PlansDropped, NoPlan
  <2>2. /\ planned[i].version \in Nat /\ version[t] \in Nat /\ version'[t] \in Nat
        /\ clock \in Nat /\ clock' \in Nat
    BY DEF TypeOK, Plan
  <2>3. /\ planned[i].version <= version[t] /\ version[t] <= version'[t]
        /\ planned[i].version = version[t] => RetryDue(t, clock)
    BY <1>1, <2>1 DEF PlansDue, Onwards
  <2>4. ASSUME planned[i].version = version'[t] PROVE RetryDue(t, clock)'
    <3>1. planned[i].version = version[t] /\ ~(version'[t] > version[t])
      BY <2>2, <2>3, <2>4
    <3>2. retry'[t].notBefore \in {None, retry[t].notBefore}
      BY <3>1 DEF Undelayed
    <3>3. clock <= clock'
      BY DEF Onwards
    <3> QED
      BY <2>2, <2>3, <3>1, <3>2, <3>3 DEF RetryDue
  <2> QED
    BY <2>1, <2>2, <2>3, <2>4
<1> QED
  BY <1>1 DEF PlansDue

LEMMA VersionsAfter ==
    ASSUME TypeOK, NEW gone, NEW steps \in Nat, NEW t \in Task
    PROVE  /\ VersionAfter(gone, steps)[t] \in Nat
           /\ VersionAfter(gone, steps)[t] >= version[t]
BY DEF VersionAfter, TypeOK

LEMMA TransitionOnwards ==
    ASSUME TypeOK, NEW u, NEW from, NEW to, Transition(u, from, to)
    PROVE  \A t \in Task : version'[t] >= version[t]
BY DEF Transition, TypeOK

LEMMA SchedulerOnwards ==
    ASSUME TypeOK, SchedulerNext
    PROVE  Onwards
<1>1. clock \in Nat /\ \A t \in Task : version[t] \in Nat
  BY DEF TypeOK
<1>2. clock' = clock
  <2>1. \A i, g, c, now : ClaimTask(i, g, c, now) => clock' = clock
    BY DEF ClaimTask, unscheduled
  <2> QED
    BY <2>1 DEF SchedulerNext, RegisterSchedulerInstance, AcquireSchedulerLeader,
        HeartbeatSchedulerLeader, StopSchedulerInstance, RouteTask, SetTaskRoutePin,
        HeartbeatSchedulerClaims, RecoverSchedulerClaims, SetPauseNewWork,
        ResumeOperations, EmergencyStop, unscheduled
<1>3. CASE UNCHANGED version
  BY <1>1, <1>2, <1>3 DEF Onwards
<1>4. CASE \E gone : \E steps \in {1, 2} : version' = VersionAfter(gone, steps)
  BY <1>1, <1>2, <1>4, VersionsAfter DEF Onwards
<1>5. CASE \E t \in Task : SetTaskRoutePin(t)
  BY <1>1, <1>2, <1>5 DEF SetTaskRoutePin, Onwards, TypeOK
<1>6. CASE \E i \in Instance, g \in 1..MaxGeneration, c \in Claim, now \in Observed :
                ClaimTask(i, g, c, now)
  <2>1. PICK i \in Instance, now \in Observed :
            version' = [VersionAfter(ExpiredAt(now), 2) EXCEPT ![planned[i].task] = @ + 1]
    BY <1>6 DEF ClaimTask
  <2> DEFINE after == VersionAfter(ExpiredAt(now), 2)
  <2>2. after \in [Task -> Nat] /\ \A u \in Task : after[u] >= version[u]
    BY VersionAfterType, VersionsAfter
  <2> HIDE DEF after
  <2>3. version' = [after EXCEPT ![planned[i].task] = after[planned[i].task] + 1]
    BY <2>1 DEF after
  <2>4. \A u \in Task : version'[u] >= version[u]
    BY <1>1, <2>2, <2>3
  <2> QED
    BY <1>1, <1>2, <2>4 DEF Onwards
<1> QED
  BY <1>3, <1>4, <1>5, <1>6 DEF SchedulerNext, RegisterSchedulerInstance,
      AcquireSchedulerLeader, HeartbeatSchedulerLeader, StopSchedulerInstance, RouteTask,
      HeartbeatSchedulerClaims, RecoverSchedulerClaims, SetPauseNewWork,
      ResumeOperations, EmergencyStop

LEMMA RunOnwards ==
    ASSUME TypeOK, RunNext
    PROVE  Onwards
<1>1. clock \in Nat /\ \A t \in Task : version[t] \in Nat
  BY DEF TypeOK
<1>2. clock' = clock
  BY DEF RunNext, PrepareClaim, WorktreeFailed, BeginClaimedRun, AgentExited,
      CreateVerifierRun, FinishVerifierRun, CloseVerification, ApiRunFailed, FinishRun,
      WorkerDies, RecordProcessOutcome, EvaluateCheckpoint, ApplyRunCheckpoint,
      OperatorCheckpointRefused, RequestRunCancellation, RecoverExpiredLeases, unexecuted
<1>3. CASE UNCHANGED version
  BY <1>1, <1>2, <1>3 DEF Onwards
<1>4. CASE \E u, from, to : Transition(u, from, to)
  BY <1>1, <1>2, <1>4, TransitionOnwards DEF Onwards
<1>5. CASE \E c \in Claim, r \in Run, now \in Observed : BeginClaimedRun(c, r, now)
  <2>1. PICK t : version' = [version EXCEPT ![t] = @ + 2]
    BY <1>5 DEF BeginClaimedRun
  <2> QED
    BY <1>1, <1>2, <2>1 DEF Onwards, TypeOK
<1>6. CASE \E now \in Observed : RecoverExpiredLeases(now)
  <2>1. PICK now \in Observed :
            version' = [t \in Task |-> version[t] + Cardinality(ExpiredLeasesOf(t, now))]
    BY <1>6 DEF RecoverExpiredLeases
  <2>2. ASSUME NEW t \in Task PROVE Cardinality(ExpiredLeasesOf(t, now)) \in Nat
    <3>1. IsFiniteSet(ExpiredLeasesOf(t, now))
      BY IdentityAssumption, FS_Subset DEF ExpiredLeasesOf, ExpiredLeases
    <3> QED
      BY <3>1, FS_CardinalityType
  <2> QED
    BY <1>1, <1>2, <2>1, <2>2 DEF Onwards
<1>7. CASE \/ \E c \in Claim : PrepareClaim(c) \/ CreateVerifierRun(c) \/ FinishRun(c)
           \/ \E c \in Claim, passed \in BOOLEAN : FinishVerifierRun(c, passed)
           \/ \E c \in Claim : WorkerDies(c)
           \/ \E r \in Run, s \in Supervisor : EvaluateCheckpoint(r, s)
           \/ \E r \in Run, s \in Supervisor, now \in Observed : ApplyRunCheckpoint(r, s, now)
           \/ \E r \in Run : OperatorCheckpointRefused(r) \/ RequestRunCancellation(r)
  BY <1>3, <1>7 DEF PrepareClaim, CreateVerifierRun, FinishRun, FinishVerifierRun, WorkerDies,
      EvaluateCheckpoint, ApplyRunCheckpoint, OperatorCheckpointRefused,
      RequestRunCancellation
<1>8. CASE \/ \E c \in Claim : WorktreeFailed(c) \/ AgentExited(c)
           \/ \E c \in Claim : CloseVerification(c) \/ ApiRunFailed(c)
           \/ \E c \in Claim : RecordProcessOutcome(c)
  BY <1>4, <1>8 DEF WorktreeFailed, AgentExited, CloseVerification, ApiRunFailed,
      RecordProcessOutcome
<1> QED
  BY <1>5, <1>6, <1>7, <1>8 DEF RunNext

LEMMA NextOnwards == ASSUME TypeOK, [Next]_vars PROVE Onwards
<1>1. clock \in Nat /\ \A t \in Task : version[t] \in Nat
  BY DEF TypeOK
<1>2. CASE Tick \/ UNCHANGED vars
  BY <1>1, <1>2 DEF Tick, vars, Onwards
<1>3. CASE GraphNext
  <2>1. clock' = clock
    BY <1>3 DEF GraphNext, ReadTaskToEdit, AddDependency, AbandonEdit, CompleteReview, ungraphed
  <2>2. CASE UNCHANGED version
    BY <1>1, <2>1, <2>2 DEF Onwards
  <2>3. CASE \E u, from, to : Transition(u, from, to)
    BY <1>1, <2>1, <2>3, TransitionOnwards DEF Onwards
  <2>4. CASE \E t \in Task : CompleteReview(t)
    BY <1>1, <2>1, <2>4 DEF CompleteReview, Onwards
  <2> QED
    BY <1>3, <2>2, <2>3, <2>4 DEF GraphNext, ReadTaskToEdit, AddDependency, AbandonEdit
<1> QED
  BY <1>2, <1>3, SchedulerOnwards, RunOnwards DEF Next

LEMMA RoutedPlan ==
    ASSUME TypeOK, PlansDue, NEW i \in Instance, NEW t \in Task, NEW now \in Observed,
           RouteAllowed(i, t, now)
    PROVE  PlansDue'
<1>1. /\ planned' = [planned EXCEPT ![i] = [task |-> t, version |-> version[t]]]
      /\ RetryDue(t, now)
      /\ UNCHANGED <<clock, version, retry>>
  BY DEF RouteAllowed, RouteTask, GatesOpen, unscheduled
<1>2. RetryDue(t, clock)
  <2>1. now \in Nat /\ clock \in Nat /\ now <= clock
    BY DEF Observed, TypeOK
  <2> QED
    BY <1>1, <2>1 DEF RetryDue
<1>3. \A u \in Task : RetryDue(u, clock)' <=> RetryDue(u, clock)
  BY <1>1 DEF RetryDue
<1>4. version[t] \in Nat /\ planned \in [Instance -> Plan]
  BY DEF TypeOK
<1>5. ASSUME NEW j \in Instance, NEW u \in Task, planned'[j].task = u
      PROVE  /\ planned'[j].version <= version'[u]
             /\ planned'[j].version = version'[u] => RetryDue(u, clock)'
  <2>1. CASE j = i
    BY <1>1, <1>2, <1>3, <1>4, <1>5, <2>1
  <2>2. CASE j # i
    BY <1>1, <1>3, <1>4, <1>5, <2>2 DEF PlansDue
  <2> QED
    BY <2>1, <2>2
<1> QED
  BY <1>5 DEF PlansDue

LEMMA LocalOnwards == ASSUME TypeOK, LocalNext PROVE Onwards /\ UNCHANGED planned
<1>1. clock \in Nat /\ \A t \in Task : version[t] \in Nat
  BY DEF TypeOK
<1>2. UNCHANGED <<clock, planned>>
  BY DEF LocalNext, LeaseLocally, LocalWorktreeFailed, LocalWorktreeReady, Authorized,
      NotAuthorized, CreateRun, LocalAgentExited, CreateLocalVerifier, FinishLocalVerifier,
      CloseLocalVerification, FinishLocalRun, LocalDies, elsewhere
<1>3. CASE UNCHANGED version
  BY <1>1, <1>2, <1>3 DEF Onwards
<1>4. CASE \E u, from, to : Transition(u, from, to)
  BY <1>1, <1>2, <1>4, TransitionOnwards DEF Onwards
<1>5. CASE \/ \E o \in Invocation : LeaseLocally(o) \/ LocalWorktreeFailed(o)
           \/ \E o \in Invocation : LocalWorktreeReady(o) \/ Authorized(o)
           \/ \E o \in Invocation : NotAuthorized(o) \/ LocalAgentExited(o)
           \/ \E o \in Invocation : CloseLocalVerification(o)
  BY <1>4, <1>5 DEF LeaseLocally, LocalWorktreeFailed, LocalWorktreeReady, Authorized,
      NotAuthorized, LocalAgentExited, CloseLocalVerification
<1>6. CASE \/ \E o \in Invocation, r \in Run : CreateRun(o, r)
           \/ \E o \in Invocation, passed \in BOOLEAN : FinishLocalVerifier(o, passed)
           \/ \E o \in Invocation : CreateLocalVerifier(o) \/ FinishLocalRun(o)
           \/ \E o \in Invocation : LocalDies(o)
  BY <1>3, <1>6 DEF CreateRun, FinishLocalVerifier, CreateLocalVerifier, FinishLocalRun,
      LocalDies
<1> QED
  BY <1>2, <1>5, <1>6 DEF LocalNext

LEMMA UnboundPlans == ASSUME DispatchUnboundNext PROVE UNCHANGED planned
BY DEF DispatchUnboundNext, Tick, RegisterSchedulerInstance, AcquireSchedulerLeader,
    HeartbeatSchedulerLeader, HeartbeatSchedulerClaims, StopSchedulerInstance,
    RecoverSchedulerClaims, SetTaskRoutePin, SetPauseNewWork, ResumeOperations,
    EmergencyStop, PrepareClaim, WorktreeFailed, BeginClaimedRun, CreateVerifierRun,
    FinishVerifierRun, CloseVerification, FinishRun, WorkerDies, EvaluateCheckpoint,
    ApplyRunCheckpoint, RequestRunCancellation, RecoverExpiredLeases, GraphNext,
    ReadTaskToEdit, AddDependency, AbandonEdit, CompleteReview, unexecuted, ungraphed

LEMMA PlansStep ==
    ASSUME DispatchInv, DispatchInv', PlansDue, [DispatchNext]_dispatchVars
    PROVE  PlansDue'
<1>1. TypeOK /\ TypeOK' /\ RetryTypes
  BY DEF DispatchInv
<1>2. clock \in Nat /\ \A t \in Task : version[t] \in Nat
  BY <1>1 DEF TypeOK
<1>3. ASSUME Onwards, PlansDropped, retry' = retry PROVE PlansDue'
  BY <1>1, <1>3, PlansKept DEF Undelayed
<1>4. CASE UNCHANGED vars /\ UNCHANGED retry
  BY <1>2, <1>3, <1>4 DEF vars, Onwards, PlansDropped
<1>5. CASE RoutingNext
  <2>1. CASE \E i \in Instance, t \in Task, now \in Observed : RouteAllowed(i, t, now)
    BY <1>1, <2>1, RoutedPlan
  <2>2. CASE \/ \E t \in Task, now \in Observed : RouteRefused(t, now)
             \/ \E t \in Task : TaskReadiness(t)
    BY <1>4, <2>2 DEF RouteRefused, TaskReadiness
  <2>3. CASE \E i \in Instance, g \in 1..MaxGeneration, c \in Claim, now \in Observed :
                ClaimRouted(i, g, c, now)
    <3>1. PICK i \in Instance, g \in 1..MaxGeneration, c \in Claim, now \in Observed :
              ClaimTask(i, g, c, now) /\ retry' = retry
      BY <2>3 DEF ClaimRouted, retryVars
    <3>2. Onwards
      BY <1>1, <3>1, SchedulerOnwards DEF SchedulerNext
    <3>3. PlansDropped
      BY <1>1, <3>1 DEF ClaimTask, PlansDropped, TypeOK
    <3> QED
      BY <1>3, <3>1, <3>2, <3>3
  <2>4. CASE \E i \in Instance, now \in Observed : ClaimRefused(i, now)
    <3>1. Onwards /\ PlansDropped /\ retry' = retry
      BY <1>1, <1>2, <2>4 DEF ClaimRefused, PlansDropped, Onwards, unscheduled, TypeOK
    <3> QED
      BY <1>3, <3>1
  <2>5. CASE \E t \in Task, limit \in RetryLimit : SetRetryLimit(t, limit)
    <3>1. PICK t \in Task, limit \in RetryLimit :
              /\ retry' = [retry EXCEPT ![t] = [retry[t] EXCEPT !.limit = limit]]
              /\ UNCHANGED vars
      BY <2>5 DEF SetRetryLimit
    <3>2. \A u \in Task : retry'[u].notBefore = retry[u].notBefore
      BY <1>1, <3>1 DEF RetryTypes, RetryRow
    <3>3. Onwards /\ PlansDropped /\ Undelayed
      BY <1>2, <3>1, <3>2 DEF Onwards, PlansDropped, Undelayed, vars
    <3> QED
      BY <1>1, <3>3, PlansKept
  <2>6. CASE \E o \in Invocation, t \in Task : RouteLocally(o, t) /\ UNCHANGED retryVars
    <3>1. Onwards /\ PlansDropped /\ retry' = retry
      BY <1>2, <2>6 DEF RouteLocally, elsewhere, retryVars, Onwards, PlansDropped
    <3> QED
      BY <1>3, <3>1
  <2> QED
    BY <1>5, <2>1, <2>2, <2>3, <2>4, <2>5, <2>6 DEF RoutingNext
<1>6. CASE ReportNext
  <2>1. CASE \E c \in Claim : ProcessReported(c) \/ SuccessReported(c)
    <3>1. RunNext /\ UNCHANGED <<planned, retry>>
      BY <2>1 DEF ProcessReported, SuccessReported, RunNext, RecordProcessOutcome,
          AgentExited, unexecuted
    <3>2. Onwards
      BY <1>1, <3>1, RunOnwards
    <3> QED
      BY <1>3, <3>1, <3>2 DEF PlansDropped
  <2>2. CASE \E c \in Claim : RecordAdapterOutcome(c) \/ ReportLost(c)
    BY <1>4, <2>2 DEF RecordAdapterOutcome, ReportLost
  <2>3. CASE \E c \in Claim : PlanRetry(c)
    <3>1. PICK c \in Claim : PlanRetry(c)
      BY <2>3
    <3>2. UNCHANGED <<clock, planned>>
      BY <3>1 DEF PlanRetry, unexecuted
    <3>3. PICK t \in Task :
                /\ \/ version' = version /\ retry'[t].notBefore = None
                   \/ version'[t] = version[t] + 1
                /\ \A u \in Task \ {t} : version'[u] = version[u] /\ retry'[u] = retry[u]
      BY <3>1, PlanKeeps
    <3>4. ASSUME NEW u \in Task
          PROVE  /\ version'[u] >= version[u]
                 /\ \/ retry'[u].notBefore \in {None, retry[u].notBefore}
                    \/ version'[u] > version[u]
      BY <1>2, <3>3
    <3>5. Onwards /\ PlansDropped /\ Undelayed
      BY <1>2, <3>2, <3>4 DEF Onwards, PlansDropped, Undelayed
    <3> QED
      BY <1>1, <3>5, PlansKept
  <2> QED
    BY <1>6, <2>1, <2>2, <2>3, ReportForms
<1>7. CASE DispatchUnboundNext
  <2>1. Onwards /\ PlansDropped /\ retry' = retry
    BY <1>1, <1>7, UnboundForms, UnboundPlans, NextOnwards DEF ControlStep, Untold, PlansDropped
  <2> QED
    BY <1>3, <2>1
<1>8. CASE LocalNext /\ UNCHANGED retryVars
  <2>1. Onwards /\ PlansDropped /\ retry' = retry
    BY <1>1, <1>8, LocalOnwards DEF PlansDropped, retryVars
  <2> QED
    BY <1>3, <2>1
<1> QED
  BY <1>4, <1>5, <1>6, <1>7, <1>8 DEF DispatchNext, dispatchVars, retryVars

\* Only a claim of a routed task makes a claim active.
LEMMA ClaimBegins ==
    ASSUME TypeOK, [Next]_vars, NEW c \in Claim,
           claims[c].status = "unused", claims'[c].status = "active"
    PROVE  \E i \in Instance, g \in 1..MaxGeneration, now \in Observed : ClaimTask(i, g, c, now)
<1>1. CASE ClaimStep
  <2>1. PICK i \in Instance, g \in 1..MaxGeneration, d \in Claim, now \in Observed :
            ClaimTask(i, g, d, now)
    BY <1>1 DEF ClaimStep
  <2>2. c # d => Kept(c, {"expired", "released"})
    BY <2>1, ClaimTaskKeeps
  <2> QED
    BY <2>1, <2>2 DEF Kept
<1>2. CASE BeginStep
  <2>1. Kept(c, {"consumed"})
    BY <1>2, BeginKeeps DEF BeginStep
  <2> QED
    BY <2>1 DEF Kept
<1>3. CASE ~ClaimStep /\ ~BeginStep
  <2>1. Kept(c, {"expired", "released"})
    BY <1>3, ClaimsKept
  <2> QED
    BY <2>1 DEF Kept
<1> QED
  BY <1>1, <1>2, <1>3

LEMMA ClaimDue ==
    ASSUME TypeOK, PlansDue, NEW c \in Claim, NEW i \in Instance, NEW g \in 1..MaxGeneration,
           NEW now, ClaimTask(i, g, c, now)
    PROVE  RetryDue(claims'[c].task, clock)
<1>1. PICK t \in Task : t = planned[i].task
  BY ClaimFacts
<1>2. claims'[c].task = t
  BY <1>1, ClaimTaskKeeps
<1>3. VersionAfter(ExpiredAt(now), 2)[t] = planned[i].version
  BY <1>1 DEF ClaimTask
<1>4. /\ VersionAfter(ExpiredAt(now), 2)[t] \in Nat
      /\ VersionAfter(ExpiredAt(now), 2)[t] >= version[t]
  BY VersionsAfter
<1>5. planned[i].version <= version[t] /\ version[t] \in Nat
  BY <1>1 DEF PlansDue, TypeOK
<1>6. planned[i].version = version[t]
  BY <1>3, <1>4, <1>5
<1> QED
  BY <1>1, <1>2, <1>6 DEF PlansDue

\* Steps that are no calls of the control plane leave the claims alone.
LEMMA ClaimsOfDispatch ==
    ASSUME [DispatchNext]_dispatchVars
    PROVE  [Next]_vars \/ UNCHANGED claims
<1>1. CASE RoutingNext
  BY <1>1, RoutingForms DEF ControlStep, ClaimRefused, SetRetryLimit, RouteLocally, elsewhere, vars
<1>2. CASE ReportNext
  BY <1>2 DEF ReportNext, ProcessReported, SuccessReported, RecordAdapterOutcome, PlanRetry,
      ReportLost, Next, RunNext, vars
<1>3. CASE LocalNext
  BY <1>3 DEF LocalNext, LeaseLocally, LocalWorktreeFailed, LocalWorktreeReady, Authorized,
      NotAuthorized, CreateRun, LocalAgentExited, CreateLocalVerifier, FinishLocalVerifier,
      CloseLocalVerification, FinishLocalRun, LocalDies, elsewhere
<1> QED
  BY <1>1, <1>2, <1>3, UnboundForms DEF ControlStep, DispatchNext, dispatchVars

\* A retry never starts from a claim before its backoff is over, although the
\* claim transaction compares a version and no time: whoever plans a retry
\* moves the version of the task on (schedule_retry, claim_task).
THEOREM RetriesWait == DispatchSpec => BackoffRespected
<1>1. DispatchInit => PlansDue
  BY IdentityAssumption DEF DispatchInit, Init, PlansDue, NoPlan
<1>2. DispatchInv /\ DispatchInv' /\ PlansDue /\ [DispatchNext]_dispatchVars => PlansDue'
  BY PlansStep
<1>3. DispatchInv /\ PlansDue /\ [DispatchNext]_dispatchVars =>
        [\A c \in Claim : (claims[c].status = "unused" /\ claims'[c].status = "active")
            => RetryDue(claims'[c].task, clock)]_dispatchVars
  <2>1. SUFFICES ASSUME DispatchInv, PlansDue, [DispatchNext]_dispatchVars, NEW c \in Claim,
                        claims[c].status = "unused", claims'[c].status = "active"
                 PROVE  RetryDue(claims'[c].task, clock)
    OBVIOUS
  <2>2. TypeOK /\ [Next]_vars
    BY <2>1, ClaimsOfDispatch DEF DispatchInv
  <2> QED
    BY <2>1, <2>2, ClaimBegins, ClaimDue
<1> QED
  BY <1>1, <1>2, <1>3, DispatchInvariant, PTL DEF DispatchSpec, BackoffRespected

-----------------------------------------------------------------------------
(* Recorded wakes.                                                           *)

\* The gates of a refused task are closed until the time it waits for.
LEMMA WakeOpens ==
    ASSUME TypeOK, RetryTypes, NEW t \in Task, NEW now \in Observed, ~GatesOpen(t, now),
           NEW w, w = NextWake(t, now), w # None, circuit[TargetOf[t]].state # "half_open"
    PROVE  /\ GatesOpen(t, w)
           /\ \A n \in clock..(w - 1) : ~GatesOpen(t, n)
<1> DEFINE k == TargetOf[t]
           b == retry[t].notBefore
           p == circuit[TargetOf[t]].nextProbe
<1>1. now \in Nat /\ clock \in Nat /\ now <= clock
  BY DEF Observed, TypeOK
<1>2. /\ w \in Awaited(t, now) /\ w \in Nat
      /\ \A n \in Awaited(t, now) : n \in Nat /\ w >= n
  BY <1>1, WakeAwaited
<1>3. k \in Target /\ circuit[k].state \in {"closed", "open"}
      /\ b \in Nat \cup {None}
  BY DispatchAssumption DEF RetryTypes, CircuitRow, RetryRow
<1>4. circuit[k].state = "open" => p \in Nat
  BY <1>3 DEF RetryTypes, ProbesKnown
<1>5. ~RetryDue(t, now) => b \in Nat /\ b > now /\ w >= b
  <2>1. SUFFICES ASSUME ~RetryDue(t, now) PROVE b \in Nat /\ b > now /\ w >= b
    OBVIOUS
  <2>2. b \in Nat /\ b > now
    BY <1>1, <1>3, <2>1 DEF RetryDue
  <2>3. b \in Awaited(t, now)
    BY <2>1 DEF Awaited
  <2> QED
    BY <1>2, <2>2, <2>3
<1>6. ~CircuitAllows(k, now) => circuit[k].state = "open" /\ p > now /\ w >= p
  <2>1. SUFFICES ASSUME ~CircuitAllows(k, now)
                 PROVE  circuit[k].state = "open" /\ p > now /\ w >= p
    OBVIOUS
  <2>2. circuit[k].state = "open" /\ p > now
    BY <1>1, <1>3, <1>4, <2>1 DEF CircuitAllows
  <2>3. p \in Awaited(t, now)
    BY <2>1 DEF Awaited
  <2> QED
    BY <1>2, <2>2, <2>3
<1>7. \/ ~RetryDue(t, now) /\ w = b
      \/ ~CircuitAllows(k, now) /\ w = p
  BY <1>2 DEF Awaited
<1>8. w > now
  BY <1>1, <1>2, <1>3, <1>4, <1>5, <1>6, <1>7
<1>9. RetryDue(t, w)
  <2>1. CASE RetryDue(t, now)
    BY <1>1, <1>2, <1>8, <2>1 DEF RetryDue
  <2>2. CASE ~RetryDue(t, now)
    BY <1>2, <1>5, <2>2 DEF RetryDue
  <2> QED
    BY <2>1, <2>2
<1>10. CircuitAllows(k, w)
  <2>1. CASE CircuitAllows(k, now)
    BY <1>1, <1>2, <1>3, <1>4, <1>8, <2>1 DEF CircuitAllows
  <2>2. CASE ~CircuitAllows(k, now)
    BY <1>6, <2>2 DEF CircuitAllows
  <2> QED
    BY <2>1, <2>2
<1>11. ASSUME NEW n \in clock..(w - 1) PROVE ~GatesOpen(t, n)
  <2>1. n \in Nat /\ n < w
    BY <1>1, <1>2
  <2>2. CASE ~RetryDue(t, now) /\ w = b
    BY <1>2, <2>1, <2>2 DEF GatesOpen, RetryDue
  <2>3. CASE ~CircuitAllows(k, now) /\ w = p
    BY <1>2, <1>6, <2>1, <2>3 DEF GatesOpen, CircuitAllows
  <2> QED
    BY <1>7, <2>2, <2>3
<1> QED
  BY <1>9, <1>10, <1>11 DEF GatesOpen

LEMMA WakeWritten ==
    ASSUME RetryTypes, [DispatchNext]_dispatchVars, NEW t \in Task,
           wake'[t] # wake[t], wake'[t] # None
    PROVE  \E now \in Observed : ~GatesOpen(t, now) /\ wake'[t] = NextWake(t, now)
<1>1. wake \in [Task -> Nat \cup {None}]
  BY DEF RetryTypes
<1>2. RoutingNext
  BY UnboundForms DEF DispatchNext, dispatchVars, retryVars, ReportNext, ProcessReported,
      SuccessReported, RecordAdapterOutcome, PlanRetry, ReportLost
<1>3. CASE \E u \in Task, now \in Observed : RouteRefused(u, now)
  BY <1>1, <1>3 DEF RouteRefused
<1>4. CASE \E i \in Instance, now \in Observed : ClaimRefused(i, now)
  BY <1>1, <1>4 DEF ClaimRefused
<1> QED
  BY <1>2, <1>3, <1>4 DEF RoutingNext, RouteAllowed, ClaimRouted, TaskReadiness, SetRetryLimit,
      retryVars

\* The wake recorded for a refused task is its first chance: every gate is open
\* then and some gate is closed at every moment before, whatever the retry and
\* the circuit wait for (record_scheduler_wake, route).
THEOREM WakesAreFirstChances == DispatchSpec => WakeIsFirstChance
<1>1. DispatchInv /\ [DispatchNext]_dispatchVars =>
        [\A t \in Task :
            (wake'[t] # wake[t] /\ wake'[t] # None /\ circuit[TargetOf[t]].state # "half_open")
                => /\ GatesOpen(t, wake'[t])
                   /\ \A n \in clock..(wake'[t] - 1) : ~GatesOpen(t, n)]_dispatchVars
  <2>1. SUFFICES ASSUME DispatchInv, [DispatchNext]_dispatchVars, NEW t \in Task,
                        wake'[t] # wake[t], wake'[t] # None,
                        circuit[TargetOf[t]].state # "half_open"
                 PROVE  /\ GatesOpen(t, wake'[t])
                        /\ \A n \in clock..(wake'[t] - 1) : ~GatesOpen(t, n)
    OBVIOUS
  <2>2. TypeOK /\ RetryTypes
    BY <2>1 DEF DispatchInv
  <2>3. PICK now \in Observed : ~GatesOpen(t, now) /\ wake'[t] = NextWake(t, now)
    BY <2>1, <2>2, WakeWritten
  <2> QED
    BY <2>1, <2>2, <2>3, WakeOpens
<1> QED
  BY <1>1, DispatchInvariant, PTL DEF DispatchSpec, WakeIsFirstChance

=============================================================================
