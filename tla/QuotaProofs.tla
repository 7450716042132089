------------------------------ MODULE QuotaProofs ------------------------------
(***************************************************************************)
(* Theorems about quota, for every number of accounts, surfaces, claims    *)
(* and runs, every evidence and every bound.                               *)
(***************************************************************************)
EXTENDS Quota, ControlPlaneProofs

-----------------------------------------------------------------------------
(* Work under quota is the work of the control plane. *)

LEMMA QuotaStepIsControlled ==
    ASSUME [QuotaNext]_quotaAllVars
    PROVE  [Next]_vars
<1>1. CASE UNCHANGED quotaAllVars
  BY <1>1 DEF quotaAllVars
<1>2. CASE EvidenceNext
  BY <1>2 DEF EvidenceNext, SetQuotaObservation, RefreshQuotaCodexbar, OverrideQuota
<1>3. CASE ReservingNext
  <2>1. CASE \/ \E i \in Instance, t \in Task, now \in Observed : RouteWithQuota(i, t, now)
             \/ \E i \in Instance, g \in 1..MaxGeneration, c \in Claim, now \in Observed :
                     ClaimWithQuota(i, g, c, now)
             \/ \E i \in Instance, g \in 1..MaxGeneration, now \in Observed :
                     HeartbeatWithQuota(i, g, now)
             \/ \E i \in Instance, now \in Observed : StopAndReleaseQuota(i, now)
             \/ \E now \in Observed : RecoverClaimsAndReleaseQuota(now)
             \/ EmergencyStopAndReleaseQuota
    <3>1. SchedulerNext
      BY <2>1 DEF SchedulerNext, RouteWithQuota, ClaimWithQuota, HeartbeatWithQuota,
         StopAndReleaseQuota, RecoverClaimsAndReleaseQuota, EmergencyStopAndReleaseQuota
    <3> QED
      BY <3>1 DEF Next
  <2>2. CASE \/ \E c \in Claim, r \in Run, now \in Observed : BeginRunWithQuota(c, r, now)
             \/ \E r \in Run, s \in Supervisor, now \in Observed :
                     CheckpointWithQuota(r, s, now)
             \/ \E c \in Claim : AgentExitedAndReleaseQuota(c)
             \/ \E c \in Claim : ProcessEndedAndReleaseQuota(c)
             \/ \E c \in Claim : FinishRunAndReleaseQuota(c)
             \/ \E now \in Observed : RecoverLeasesAndReleaseQuota(now)
    <3>1. RunNext
      BY <2>2 DEF RunNext, BeginRunWithQuota, CheckpointWithQuota,
         AgentExitedAndReleaseQuota, ProcessEndedAndReleaseQuota,
         FinishRunAndReleaseQuota, RecoverLeasesAndReleaseQuota
    <3> QED
      BY <3>1 DEF Next
  <2> QED
    BY <1>3, <2>1, <2>2 DEF ReservingNext
<1>4. CASE QuotaUnboundNext
  BY <1>4 DEF QuotaUnboundNext, Next, SchedulerNext, RunNext
<1> QED
  BY <1>1, <1>2, <1>3, <1>4 DEF QuotaNext

\* Whatever is observed, overridden, reserved or released, schedulers, workers,
\* operators and recovery do what they may do without quota, so every theorem
\* about the control plane holds of it (reserve_quota_tx and its callers).
THEOREM QuotaWorkIsControlled == QuotaSpec => Spec
<1>1. QuotaInit => Init
  BY DEF QuotaInit
<1>2. [QuotaNext]_quotaAllVars => [Next]_vars
  BY QuotaStepIsControlled
<1> QED
  BY <1>1, <1>2, PTL DEF QuotaSpec, Spec

-----------------------------------------------------------------------------
(* Reservations and their holders.  A call may make rows of a holder live,   *)
(* and must release those of the claims it lets go: it must be known which   *)
(* claims a call lets go, for which the locks' invariant is needed.          *)

QuotaRows == quota \in [Claim -> [Surface -> ReservedRow]]

QuotaInv == TypeOK /\ LockInv /\ QuotaRows /\ ReservationsFollowHolders

\* The claims in "gone" release their rows, the others keep theirs.
LEMMA ReleasedRows ==
    ASSUME QuotaRows, NEW gone
    PROVE  /\ ReleasedFor(gone) \in [Claim -> [Surface -> ReservedRow]]
           /\ \A c \in Claim, s \in Surface :
                IsLive(ReleasedFor(gone)[c][s]) => c \notin gone /\ IsLive(quota[c][s])
<1> SUFFICES ASSUME NEW c \in Claim, NEW s \in Surface
             PROVE  /\ ReleasedFor(gone)[c][s] \in ReservedRow
                    /\ IsLive(ReleasedFor(gone)[c][s]) => c \notin gone /\ IsLive(quota[c][s])
  BY DEF ReleasedFor
<1>1. quota[c][s] \in ReservedRow
  BY DEF QuotaRows
<1>2. CASE c \in gone /\ IsLive(quota[c][s])
  <2>1. ReleasedFor(gone)[c][s] = [quota[c][s] EXCEPT !.status = "released"]
    BY <1>2 DEF ReleasedFor
  <2> QED
    BY <1>1, <2>1 DEF ReservedRow, IsLive
<1>3. CASE ~(c \in gone /\ IsLive(quota[c][s]))
  <2>1. ReleasedFor(gone)[c][s] = quota[c][s]
    BY <1>3 DEF ReleasedFor
  <2> QED
    BY <1>1, <1>3, <2>1
<1> QED
  BY <1>2, <1>3

\* Expiring what is overdue makes nothing live.
LEMMA OverdueRows ==
    ASSUME NEW table \in [Claim -> [Surface -> ReservedRow]], NEW now
    PROVE  /\ WithoutOverdue(table, now) \in [Claim -> [Surface -> ReservedRow]]
           /\ \A c \in Claim, s \in Surface :
                IsLive(WithoutOverdue(table, now)[c][s]) => IsLive(table[c][s])
<1> SUFFICES ASSUME NEW c \in Claim, NEW s \in Surface
             PROVE  /\ WithoutOverdue(table, now)[c][s] \in ReservedRow
                    /\ IsLive(WithoutOverdue(table, now)[c][s]) => IsLive(table[c][s])
  BY DEF WithoutOverdue
<1>1. table[c][s] \in ReservedRow
  OBVIOUS
<1>2. CASE IsLive(table[c][s]) /\ table[c][s].expires <= now
  <2>1. WithoutOverdue(table, now)[c][s] = [table[c][s] EXCEPT !.status = "expired"]
    BY <1>2 DEF WithoutOverdue
  <2> QED
    BY <1>1, <1>2, <2>1 DEF ReservedRow
<1>3. CASE ~(IsLive(table[c][s]) /\ table[c][s].expires <= now)
  <2>1. WithoutOverdue(table, now)[c][s] = table[c][s]
    BY <1>3 DEF WithoutOverdue
  <2> QED
    BY <1>1, <2>1
<1> QED
  BY <1>2, <1>3

\* Rows that only release some claims, while the others go on holding.
LEMMA ReleasedFollow ==
    ASSUME QuotaInv, NEW gone, quota' = ReleasedFor(gone), HoldsOn(gone)
    PROVE  QuotaRows' /\ ReservationsFollowHolders'
<1>1. QuotaRows
  BY DEF QuotaInv
<1>2. QuotaRows'
  BY <1>1, ReleasedRows DEF QuotaRows
<1>3. ASSUME NEW c \in Claim, NEW s \in Surface, IsLive(quota'[c][s])
      PROVE  Holding(c)'
  <2>1. c \notin gone /\ IsLive(quota[c][s])
    BY <1>1, <1>3, ReleasedRows
  <2>2. Holding(c)
    BY <2>1 DEF QuotaInv, ReservationsFollowHolders
  <2> QED
    BY <2>1, <2>2 DEF HoldsOn
<1> QED
  BY <1>2, <1>3 DEF ReservationsFollowHolders, IsLive

\* Rows that change without a new one becoming live.
LEMMA KeptFollow ==
    ASSUME QuotaInv, QuotaRows',
           \A c \in Claim, s \in Surface : IsLive(quota'[c][s]) => IsLive(quota[c][s]),
           HoldsOn({})
    PROVE  ReservationsFollowHolders'
BY DEF HoldsOn, QuotaInv, ReservationsFollowHolders, IsLive

LEMMA ObservedTimes == TypeOK => Observed \subseteq Nat
BY DEF TypeOK, Observed

-----------------------------------------------------------------------------
(* The calls of the scheduler. *)

LEMMA ClaimFollows ==
    ASSUME QuotaInv, NEW i \in Instance, NEW g, NEW c \in Claim, NEW now \in Observed,
           ClaimWithQuota(i, g, c, now)
    PROVE  QuotaRows' /\ ReservationsFollowHolders'
<1> DEFINE t == planned[i].task
           gone == ExpiredAt(now)
           freed == ReleasedFor(gone)
<1>1. TypeOK /\ QuotaRows
  BY DEF QuotaInv
<1>2. HoldsOn(gone) /\ t \in Task /\ Holding(c)'
  BY <1>1, ClaimHolds DEF ClaimWithQuota
<1>3. CASE AdapterOf[t] = "api"
  BY <1>2, <1>3, ReleasedFollow DEF ClaimWithQuota
<1>4. CASE AdapterOf[t] # "api"
  <2> DEFINE table == WithoutOverdue(freed, now)
  <2>1. /\ freed \in [Claim -> [Surface -> ReservedRow]]
        /\ \A d \in Claim, s \in Surface :
                IsLive(freed[d][s]) => d \notin gone /\ IsLive(quota[d][s])
    BY <1>1, ReleasedRows
  <2> HIDE DEF freed
  <2>2. /\ table \in [Claim -> [Surface -> ReservedRow]]
        /\ \A d \in Claim, s \in Surface : IsLive(table[d][s]) => IsLive(freed[d][s])
    BY <2>1, OverdueRows
  <2>3. ReserveQuota(c, t, table, now)
    BY <1>4 DEF ClaimWithQuota, freed
  <2> HIDE DEF table
  <2> DEFINE fresh == [s \in Surface |->
                IF s \in Surfaces(t)
                THEN [status |-> "active", percent |-> Forecast[t], expires |-> now + ClaimTtl]
                ELSE table[c][s]]
  <2>4. quota' = [table EXCEPT ![c] = fresh]
    BY <2>3 DEF ReserveQuota
  <2>5. fresh \in [Surface -> ReservedRow]
    <3>1. Forecast[t] \in Nat /\ now + ClaimTtl \in Nat
      BY <1>1, <1>2, ObservedTimes, QuotaAssumption, BoundAssumption
    <3> QED
      BY <2>2, <3>1 DEF ReservedRow
  <2> HIDE DEF fresh
  <2>6. QuotaRows'
    BY <2>2, <2>4, <2>5 DEF QuotaRows
  <2>7. ASSUME NEW d \in Claim, NEW s \in Surface, IsLive(quota'[d][s])
        PROVE  Holding(d)'
    <3>1. CASE d = c
      BY <1>2, <3>1
    <3>2. CASE d # c
      <4>1. quota'[d] = table[d]
        BY <2>2, <2>4, <3>2
      <4>2. d \notin gone /\ IsLive(quota[d][s])
        BY <2>1, <2>2, <2>7, <4>1
      <4> QED
        BY <1>2, <4>2 DEF HoldsOn, QuotaInv, ReservationsFollowHolders
    <3> QED
      BY <3>1, <3>2
  <2> QED
    BY <2>6, <2>7 DEF ReservationsFollowHolders, IsLive
<1> QED
  BY <1>3, <1>4

LEMMA HeartbeatFollows ==
    ASSUME QuotaInv, NEW i, NEW g, NEW now \in Observed, HeartbeatWithQuota(i, g, now)
    PROVE  QuotaRows' /\ ReservationsFollowHolders'
<1> DEFINE gone == ExpiredAt(now)
           freed == ReleasedFor(gone)
<1>1. TypeOK /\ QuotaRows
  BY DEF QuotaInv
<1>2. /\ freed \in [Claim -> [Surface -> ReservedRow]]
      /\ \A c \in Claim, s \in Surface :
            IsLive(freed[c][s]) => c \notin gone /\ IsLive(quota[c][s])
  BY <1>1, ReleasedRows
<1>3. HoldsOn(gone)
  BY <1>1, HeartbeatHolds DEF HeartbeatWithQuota
<1>4. now + ClaimTtl \in Nat
  BY <1>1, ObservedTimes, BoundAssumption
<1> HIDE DEF freed
<1>5. /\ quota' = [c \in Claim |-> [s \in Surface |-> quota'[c][s]]]
      /\ \A c \in Claim, s \in Surface :
            \/ quota'[c][s] = freed[c][s]
            \/ quota'[c][s] = [freed[c][s] EXCEPT !.expires = now + ClaimTtl]
  BY DEF HeartbeatWithQuota, freed
<1>6. ASSUME NEW c \in Claim, NEW s \in Surface
      PROVE  quota'[c][s] \in ReservedRow /\ quota'[c][s].status = freed[c][s].status
  <2>1. freed[c][s] \in ReservedRow
    BY <1>2
  <2>2. CASE quota'[c][s] = freed[c][s]
    BY <2>1, <2>2
  <2>3. CASE quota'[c][s] = [freed[c][s] EXCEPT !.expires = now + ClaimTtl]
    BY <1>4, <2>1, <2>3 DEF ReservedRow
  <2> QED
    BY <1>5, <2>2, <2>3
<1>7. QuotaRows'
  BY <1>5, <1>6 DEF QuotaRows
<1>8. ASSUME NEW c \in Claim, NEW s \in Surface, IsLive(quota'[c][s])
      PROVE  Holding(c)'
  <2>1. c \notin gone /\ IsLive(quota[c][s])
    BY <1>2, <1>6, <1>8 DEF IsLive
  <2> QED
    BY <1>3, <2>1 DEF HoldsOn, QuotaInv, ReservationsFollowHolders
<1> QED
  BY <1>7, <1>8 DEF ReservationsFollowHolders, IsLive

LEMMA HandingBackFollows ==
    ASSUME QuotaInv,
           \/ \E i \in Instance, now \in Observed : StopAndReleaseQuota(i, now)
           \/ \E now \in Observed : RecoverClaimsAndReleaseQuota(now)
           \/ EmergencyStopAndReleaseQuota
    PROVE  QuotaRows' /\ ReservationsFollowHolders'
<1> TypeOK
  BY DEF QuotaInv
<1>1. ASSUME NEW gone \in SUBSET Active, NEW end \in {"expired", "released"},
             claims' = ClaimsMarked(gone, end), UNCHANGED leases,
             quota' = ReleasedFor(gone)
      PROVE  QuotaRows' /\ ReservationsFollowHolders'
  BY <1>1, SparedHold, ReleasedFollow
<1>2. ASSUME NEW i, NEW now, StopAndReleaseQuota(i, now)
      PROVE  QuotaRows' /\ ReservationsFollowHolders'
  <2>1. {c \in Active : claims[c].owner = i} \in SUBSET Active
    OBVIOUS
  <2> QED
    BY <1>1, <1>2, <2>1 DEF StopAndReleaseQuota, StopSchedulerInstance, unscheduled
<1>3. ASSUME NEW now, RecoverClaimsAndReleaseQuota(now)
      PROVE  QuotaRows' /\ ReservationsFollowHolders'
  <2>1. ExpiredAt(now) \in SUBSET Active
    BY DEF ExpiredAt
  <2> QED
    BY <1>1, <1>3, <2>1 DEF RecoverClaimsAndReleaseQuota, RecoverSchedulerClaims, unscheduled
<1>4. ASSUME EmergencyStopAndReleaseQuota
      PROVE  QuotaRows' /\ ReservationsFollowHolders'
  BY <1>1, <1>4 DEF EmergencyStopAndReleaseQuota, EmergencyStop, unscheduled
<1> QED
  BY <1>2, <1>3, <1>4

-----------------------------------------------------------------------------
(* The calls of runs. *)

LEMMA BeginFollows ==
    ASSUME QuotaInv, NEW c \in Claim, NEW r \in Run, NEW now \in Observed,
           BeginRunWithQuota(c, r, now)
    PROVE  QuotaRows' /\ ReservationsFollowHolders'
<1>1. TypeOK /\ QuotaRows /\ LockInv
  BY DEF QuotaInv
<1>2. HoldsOn({}) /\ Holding(c)'
  BY <1>1, BeginHolds DEF BeginRunWithQuota
<1> DEFINE begun == RowsOfRun(quota[c], now + LeaseTtl)
<1>3. quota' = [quota EXCEPT ![c] = begun]
  BY DEF BeginRunWithQuota
<1>4. begun \in [Surface -> ReservedRow]
  <2> SUFFICES ASSUME NEW s \in Surface PROVE begun[s] \in ReservedRow
    BY DEF RowsOfRun
  <2>1. quota[c][s] \in ReservedRow
    BY <1>1 DEF QuotaRows
  <2>2. now + LeaseTtl \in Nat
    BY <1>1, ObservedTimes, BoundAssumption
  <2>3. CASE quota[c][s].status = "active"
    <3>1. begun[s] = [quota[c][s] EXCEPT !.status = "running", !.expires = now + LeaseTtl]
      BY <2>3 DEF RowsOfRun
    <3> QED
      BY <2>1, <2>2, <3>1 DEF ReservedRow
  <2>4. CASE quota[c][s].status # "active"
    BY <2>1, <2>4 DEF RowsOfRun
  <2> QED
    BY <2>3, <2>4
<1> HIDE DEF begun
<1>5. QuotaRows'
  BY <1>1, <1>3, <1>4 DEF QuotaRows
<1>6. ASSUME NEW d \in Claim, NEW s \in Surface, IsLive(quota'[d][s])
      PROVE  Holding(d)'
  <2>1. CASE d # c
    <3>1. quota'[d] = quota[d]
      BY <1>1, <1>3, <2>1 DEF QuotaRows
    <3> QED
      BY <1>2, <1>6, <3>1 DEF HoldsOn, QuotaInv, ReservationsFollowHolders
  <2> QED
    BY <1>2, <2>1
<1> QED
  BY <1>5, <1>6 DEF ReservationsFollowHolders, IsLive

LEMMA CheckpointFollows ==
    ASSUME QuotaInv, NEW r \in Run, NEW v \in Supervisor, NEW now \in Observed,
           CheckpointWithQuota(r, v, now)
    PROVE  QuotaRows' /\ ReservationsFollowHolders'
<1>1. TypeOK /\ QuotaRows /\ LockInv
  BY DEF QuotaInv
<1>2. HoldsOn({})
  BY <1>1, CheckpointHolds DEF CheckpointWithQuota
<1>3. ASSUME NEW c \in Claim
      PROVE  /\ quota'[c] \in [Surface -> ReservedRow]
             /\ \A s \in Surface : quota'[c][s].status = quota[c][s].status
  <2>1. quota[c] \in [Surface -> ReservedRow]
    BY <1>1 DEF QuotaRows
  <2>2. CASE quota'[c] = quota[c]
    BY <2>1, <2>2
  <2>3. CASE quota'[c] = RowsRenewed(quota[c], now + LeaseTtl)
    <3>1. ASSUME NEW s \in Surface
          PROVE  /\ quota'[c][s] \in ReservedRow
                 /\ quota'[c][s].status = quota[c][s].status
      <4>1. quota[c][s] \in ReservedRow /\ now + LeaseTtl \in Nat
        BY <1>1, <2>1, ObservedTimes, BoundAssumption
      <4>2. \/ quota'[c][s] = quota[c][s]
            \/ quota'[c][s] = [quota[c][s] EXCEPT !.expires = now + LeaseTtl]
        BY <2>3 DEF RowsRenewed
      <4>3. CASE quota'[c][s] = quota[c][s]
        BY <4>1, <4>3
      <4>4. CASE quota'[c][s] = [quota[c][s] EXCEPT !.expires = now + LeaseTtl]
        BY <4>1, <4>4 DEF ReservedRow
      <4> QED
        BY <4>2, <4>3, <4>4
    <3> QED
      BY <2>3, <3>1 DEF RowsRenewed
  <2> QED
    BY <2>2, <2>3 DEF CheckpointWithQuota
<1>4. QuotaRows'
  BY <1>3 DEF CheckpointWithQuota, QuotaRows
<1> QED
  BY <1>2, <1>3, <1>4, KeptFollow DEF IsLive

LEMMA EndingFollows ==
    ASSUME QuotaInv,
           \/ \E c \in Claim : AgentExitedAndReleaseQuota(c)
           \/ \E c \in Claim : ProcessEndedAndReleaseQuota(c)
           \/ \E c \in Claim : FinishRunAndReleaseQuota(c)
           \/ \E now \in Observed : RecoverLeasesAndReleaseQuota(now)
    PROVE  QuotaRows' /\ ReservationsFollowHolders'
<1>1. TypeOK /\ LockInv
  BY DEF QuotaInv
<1>2. ASSUME NEW c \in Claim, AgentExitedAndReleaseQuota(c)
      PROVE  QuotaRows' /\ ReservationsFollowHolders'
  <2>1. HoldsOn({})
    BY <1>2, IdleHolds DEF AgentExitedAndReleaseQuota, AgentExited, runVars
  <2>2. CASE quota' = ReleasedFor({c})
    BY <2>1, <2>2, ReleasedFollow DEF HoldsOn
  <2>3. CASE quota' = quota
    BY <2>1, <2>3, KeptFollow DEF QuotaInv, QuotaRows
  <2> QED
    BY <1>2, <2>2, <2>3 DEF AgentExitedAndReleaseQuota
<1>3. ASSUME NEW c \in Claim, ProcessEndedAndReleaseQuota(c)
      PROVE  QuotaRows' /\ ReservationsFollowHolders'
  BY <1>1, <1>3, OutcomeHolds, ReleasedFollow DEF ProcessEndedAndReleaseQuota
<1>4. ASSUME NEW c \in Claim, FinishRunAndReleaseQuota(c)
      PROVE  QuotaRows' /\ ReservationsFollowHolders'
  BY <1>1, <1>4, FinishHolds, ReleasedFollow DEF FinishRunAndReleaseQuota
<1>5. ASSUME NEW now, RecoverLeasesAndReleaseQuota(now)
      PROVE  QuotaRows' /\ ReservationsFollowHolders'
  BY <1>1, <1>5, RecoveryHolds, ReleasedFollow DEF RecoverLeasesAndReleaseQuota
<1> QED
  BY <1>2, <1>3, <1>4, <1>5

-----------------------------------------------------------------------------
(* Every step. *)

LEMMA UntouchedFollow ==
    ASSUME QuotaInv, UNCHANGED quota,
           UNCHANGED <<claims, leases>>
    PROVE  QuotaRows' /\ ReservationsFollowHolders'
BY DEF QuotaInv, QuotaRows, ReservationsFollowHolders, Holding, IsLive

LEMMA QuotaStep == QuotaInv /\ [QuotaNext]_quotaAllVars => QuotaInv'
<1> SUFFICES ASSUME QuotaInv, [QuotaNext]_quotaAllVars PROVE QuotaInv'
  OBVIOUS
<1>1. TypeOK' /\ LockInv'
  BY QuotaStepIsControlled, NextTypes, LockStep DEF QuotaInv
<1> SUFFICES QuotaRows' /\ ReservationsFollowHolders'
  BY <1>1 DEF QuotaInv
<1>2. CASE UNCHANGED quotaAllVars
  BY <1>2, UntouchedFollow DEF quotaAllVars, quotaVars, vars, runVars
<1>3. CASE EvidenceNext
  BY <1>3, UntouchedFollow DEF EvidenceNext, SetQuotaObservation, RefreshQuotaCodexbar,
     OverrideQuota, vars, runVars
<1>4. CASE ReservingNext
  <2>1. ASSUME NEW i, NEW t, NEW now, RouteWithQuota(i, t, now)
        PROVE  QuotaRows' /\ ReservationsFollowHolders'
    BY <2>1, UntouchedFollow DEF RouteWithQuota, RouteTask, quotaVars, unscheduled
  <2> QED
    BY <1>4, <2>1, ClaimFollows, HeartbeatFollows, HandingBackFollows, BeginFollows,
       CheckpointFollows, EndingFollows DEF ReservingNext
<1>5. CASE QuotaUnboundNext
  <2>1. UNCHANGED <<claims, leases>>
    BY <1>5 DEF QuotaUnboundNext, Tick, RegisterSchedulerInstance, AcquireSchedulerLeader,
       HeartbeatSchedulerLeader, SetTaskRoutePin, SetPauseNewWork, ResumeOperations,
       PrepareClaim, WorktreeFailed, ApiRunFailed, WorkerDies, CreateVerifierRun,
       FinishVerifierRun, CloseVerification, EvaluateCheckpoint,
       OperatorCheckpointRefused, RequestRunCancellation, GraphNext, ReadTaskToEdit,
       AddDependency, AbandonEdit, CompleteReview, ungraphed, unscheduled, runVars
  <2> QED
    BY <1>5, <2>1, UntouchedFollow DEF QuotaUnboundNext, quotaVars
<1> QED
  BY <1>2, <1>3, <1>4, <1>5 DEF QuotaNext

LEMMA QuotaInvInit == QuotaInit => QuotaInv
<1> SUFFICES ASSUME QuotaInit PROVE QuotaInv
  OBVIOUS
<1>1. TypeOK /\ LockInv
  BY InitTypes, LockInit DEF QuotaInit
<1>2. QuotaRows
  BY DEF QuotaInit, QuotaRows, NotReserved, ReservedRow
<1>3. ReservationsFollowHolders
  BY DEF QuotaInit, ReservationsFollowHolders, NotReserved, IsLive
<1> QED
  BY <1>1, <1>2, <1>3 DEF QuotaInv

\* A live reservation belongs to a claim that waits or to a run that holds its
\* lease, whatever expires, stops, ends or is recovered (reserve_quota_tx and
\* release_quota_reservations_tx with every call that ends a claim or a run).
THEOREM QuotaFollowsHolders == QuotaSpec => []ReservationsFollowHolders
<1>1. QuotaInv => ReservationsFollowHolders
  BY DEF QuotaInv
<1> QED
  BY <1>1, QuotaInvInit, QuotaStep, PTL DEF QuotaSpec

-----------------------------------------------------------------------------
(* What is known of the surfaces. *)

EvidenceTypes ==
    /\ surface \in [Surface -> SurfaceRow]
    /\ overrides \in [Surface -> Seq(Override)]

LEMMA RecordedRows ==
    ASSUME surface \in [Surface -> SurfaceRow], NEW p \in Payload, RecordQuotaObservations(p)
    PROVE  surface' \in [Surface -> SurfaceRow]
<1> SUFFICES ASSUME NEW s \in Surface PROVE surface'[s] \in SurfaceRow
  BY DEF RecordQuotaObservations
<1>1. p.at + Validity \in Nat /\ Reserve \in Nat
  BY QuotaAssumption DEF Payload
<1>2. ASSUME NEW left \in Share
      PROVE  [remaining |-> left, reserve |-> Reserve, until |-> p.at + Validity]
                \in SurfaceRow
  BY <1>1 DEF SurfaceRow
<1>3. CASE Reported(p, s) # {}
  <2> DEFINE l == CHOOSE k \in Reported(p, s) : TRUE
  <2>1. l \in Reported(p, s)
    BY <1>3
  <2>2. surface'[s] = [remaining |-> p.window[l].remaining, reserve |-> Reserve,
                       until |-> p.at + Validity]
    BY <1>3 DEF RecordQuotaObservations, Missing
  <2> HIDE DEF l
  <2>3. p.window[l].remaining \in Share
    BY <2>1 DEF Reported, Present, Payload
  <2> QED
    BY <1>2, <2>2, <2>3
<1>4. CASE Reported(p, s) = {} /\ s \in Missing(p)
  <2>1. surface'[s] = [remaining |-> None, reserve |-> Reserve, until |-> p.at + Validity]
    BY <1>4 DEF RecordQuotaObservations
  <2> QED
    BY <1>2, <2>1 DEF Share
<1>5. CASE Reported(p, s) = {} /\ s \notin Missing(p)
  <2>1. surface'[s] = surface[s]
    BY <1>5 DEF RecordQuotaObservations
  <2> QED
    BY <2>1
<1> QED
  BY <1>3, <1>4, <1>5

LEMMA EvidenceStep ==
    ASSUME EvidenceTypes, EvidenceNext
    PROVE  EvidenceTypes'
<1>1. ASSUME NEW seen \in Manual, SetQuotaObservation(seen)
      PROVE  EvidenceTypes'
  <2>1. [remaining |-> seen.remaining, reserve |-> seen.reserve, until |-> None]
            \in SurfaceRow
    BY QuotaAssumption DEF SurfaceRow
  <2> QED
    BY <1>1, <2>1 DEF SetQuotaObservation, EvidenceTypes
<1>2. ASSUME NEW printed \in Output, RefreshQuotaCodexbar(printed)
      PROVE  EvidenceTypes'
  <2>1. PICK p \in printed : RecordQuotaObservations(p)
    BY <1>2 DEF RefreshQuotaCodexbar
  <2>2. p \in Payload
    BY QuotaAssumption
  <2>3. surface' \in [Surface -> SurfaceRow]
    BY <2>1, <2>2, RecordedRows DEF EvidenceTypes
  <2> QED
    BY <1>2, <2>3 DEF RefreshQuotaCodexbar, EvidenceTypes
<1>3. ASSUME NEW relief \in Relief, OverrideQuota(relief)
      PROVE  EvidenceTypes'
  <2> DEFINE s == relief.surface
             more == [remaining |-> relief.remaining, expires |-> relief.expires]
  <2>1. s \in Surface /\ more \in Override
    BY QuotaAssumption DEF Override
  <2>2. Append(overrides[s], more) \in Seq(Override)
    BY <2>1 DEF EvidenceTypes
  <2> HIDE DEF more
  <2>3. overrides' = [overrides EXCEPT ![s] = Append(overrides[s], more)]
    BY <1>3 DEF OverrideQuota, more
  <2> QED
    BY <1>3, <2>1, <2>2, <2>3 DEF OverrideQuota, EvidenceTypes
<1> QED
  BY <1>1, <1>2, <1>3 DEF EvidenceNext

LEMMA EvidenceKept ==
    ASSUME EvidenceTypes, [QuotaNext]_quotaAllVars
    PROVE  EvidenceTypes'
<1>1. CASE UNCHANGED evidence
  BY <1>1 DEF evidence, EvidenceTypes
<1>2. CASE QuotaUnboundNext \/ UNCHANGED quotaAllVars
  BY <1>2 DEF QuotaUnboundNext, quotaAllVars, quotaVars, EvidenceTypes
<1>3. CASE ReservingNext
  <2>1. ASSUME NEW i, NEW t, NEW now, RouteWithQuota(i, t, now)
        PROVE  UNCHANGED evidence
    BY <2>1 DEF RouteWithQuota, quotaVars, evidence
  <2>2. UNCHANGED evidence
    BY <1>3, <2>1 DEF ReservingNext, ClaimWithQuota, HeartbeatWithQuota,
       StopAndReleaseQuota, RecoverClaimsAndReleaseQuota, EmergencyStopAndReleaseQuota,
       BeginRunWithQuota, CheckpointWithQuota, AgentExitedAndReleaseQuota,
       ProcessEndedAndReleaseQuota, FinishRunAndReleaseQuota, RecoverLeasesAndReleaseQuota
  <2> QED
    BY <1>1, <2>2
<1> QED
  BY <1>1, <1>2, <1>3, EvidenceStep DEF QuotaNext

LEMMA QuotaInvariant == QuotaSpec => [](QuotaInv /\ EvidenceTypes)
<1>1. QuotaInit => EvidenceTypes
  <2> SUFFICES ASSUME QuotaInit PROVE EvidenceTypes
    OBVIOUS
  <2>1. Unobserved \in SurfaceRow
    BY DEF Unobserved, SurfaceRow, Share
  <2> QED
    BY <2>1 DEF QuotaInit, EvidenceTypes
<1> QED
  BY <1>1, QuotaInvInit, QuotaStep, EvidenceKept, PTL DEF QuotaSpec

\* Every table of quota has its type, in every behaviour (schema of
\* quota_surfaces, quota_overrides and quota_reservations).
THEOREM QuotaTypesCorrect == QuotaSpec => []QuotaTypeOK
<1>1. QuotaInv /\ EvidenceTypes => QuotaTypeOK
  BY DEF QuotaInv, QuotaRows, EvidenceTypes, QuotaTypeOK
<1> QED
  BY <1>1, QuotaInvariant, PTL

\* A refresh that does not find what it was expected to report makes it unknown,
\* whatever the collector prints and whatever was known before
\* (record_quota_observations and normalize_codexbar_payload).
THEOREM HeadroomIsObserved == QuotaSpec => NoInventedHeadroom
<1>1. ASSUME NEW printed \in Output, RefreshQuotaCodexbar(printed),
             NEW p \in printed, NEW l \in Lane \ Present(p),
             surface'[Expected[l]].remaining # None
      PROVE  \E k \in Present(p) : p.window[k].surface = Expected[l]
  <2> DEFINE s == Expected[l]
  <2>1. PICK q \in printed : RecordQuotaObservations(q)
    BY <1>1 DEF RefreshQuotaCodexbar
  <2>2. q = p
    <3>1. IsFiniteSet(printed) /\ Cardinality(printed) = 1
      BY <1>1, QuotaAssumption DEF RefreshQuotaCodexbar, Acceptable
    <3>2. \E x : printed = {x}
      BY <3>1, FS_Singleton
    <3> QED
      BY <3>2
  <2>3. s \in Surface
    BY QuotaAssumption
  <2>4. SUFFICES ASSUME Reported(p, s) = {} PROVE FALSE
    BY DEF Reported
  <2>5. s \in Missing(p)
    BY <2>3, <2>4 DEF Missing
  <2>6. surface'[s] = [remaining |-> None, reserve |-> Reserve, until |-> p.at + Validity]
    BY <2>1, <2>2, <2>3, <2>4, <2>5 DEF RecordQuotaObservations
  <2> QED
    BY <1>1, <2>6
<1>2. [QuotaNext]_quotaAllVars =>
        [\A printed \in Output : RefreshQuotaCodexbar(printed) =>
            \A p \in printed : \A l \in Lane \ Present(p) :
                surface'[Expected[l]].remaining # None =>
                    \E k \in Present(p) : p.window[k].surface = Expected[l]]_quotaAllVars
  BY <1>1
<1> QED
  BY <1>2, PTL DEF QuotaSpec, NoInventedHeadroom

-----------------------------------------------------------------------------
(* What is reserved of a surface fits.  Only a claim adds to the sum, and it *)
(* looks at the sum in the transaction that adds to it.                      *)

\* Fresh(c, s): the step reserves surface s for claim c.
Fresh(c, s) == quota[c][s].status = "unused" /\ quota'[c][s].status = "active"

LEMMA ReleasedStatus ==
    ASSUME QuotaRows, NEW gone, NEW c \in Claim, NEW s \in Surface
    PROVE  /\ quota[c][s].status = "unused" => ReleasedFor(gone)[c][s] = quota[c][s]
           /\ ReleasedFor(gone)[c][s].status = "active" => quota[c][s].status = "active"
<1>1. quota[c][s] \in ReservedRow
  BY DEF QuotaRows
<1>2. CASE c \in gone /\ IsLive(quota[c][s])
  <2>1. ReleasedFor(gone)[c][s] = [quota[c][s] EXCEPT !.status = "released"]
    BY <1>2 DEF ReleasedFor
  <2> QED
    BY <1>1, <1>2, <2>1 DEF ReservedRow, IsLive
<1>3. CASE ~(c \in gone /\ IsLive(quota[c][s]))
  <2>1. ReleasedFor(gone)[c][s] = quota[c][s]
    BY <1>3 DEF ReleasedFor
  <2> QED
    BY <2>1
<1> QED
  BY <1>2, <1>3

LEMMA ReleasingIsNotFresh ==
    ASSUME QuotaRows, NEW gone, quota' = ReleasedFor(gone)
    PROVE  \A c \in Claim, s \in Surface : ~Fresh(c, s)
BY ReleasedStatus DEF Fresh

LEMMA RowsAreNotFresh ==
    ASSUME QuotaRows, [QuotaNext]_quotaAllVars,
           ~ \E i \in Instance, g \in 1..MaxGeneration, c \in Claim, now \in Observed :
                ClaimWithQuota(i, g, c, now)
    PROVE  \A c \in Claim, s \in Surface : ~Fresh(c, s)
<1>1. CASE quota' = quota
  BY <1>1 DEF Fresh
<1>2. CASE QuotaUnboundNext \/ UNCHANGED quotaAllVars \/ EvidenceNext
  <2>1. quota' = quota
    BY <1>2 DEF QuotaUnboundNext, quotaAllVars, quotaVars, EvidenceNext,
       SetQuotaObservation, RefreshQuotaCodexbar, OverrideQuota
  <2> QED
    BY <1>1, <2>1
<1>3. ASSUME NEW i, NEW t, NEW now, RouteWithQuota(i, t, now)
      PROVE  quota' = quota
  BY <1>3 DEF RouteWithQuota, quotaVars
<1>4. ASSUME NEW i, NEW g, NEW now, HeartbeatWithQuota(i, g, now),
             NEW c \in Claim, NEW s \in Surface
      PROVE  ~Fresh(c, s)
  <2> PICK freed : freed = ReleasedFor(ExpiredAt(now))
    OBVIOUS
  <2>1. quota'[c][s] = IF /\ freed[c][s].status = "active" /\ claims'[c].status = "active"
                          /\ claims[c].owner = i /\ claims[c].generation = g
                       THEN [freed[c][s] EXCEPT !.expires = now + ClaimTtl]
                       ELSE freed[c][s]
    BY <1>4 DEF HeartbeatWithQuota
  <2>2. quota'[c][s].status = "active" => freed[c][s].status = "active"
    BY <2>1
  <2>3. freed[c][s].status = "active" => quota[c][s].status = "active"
    BY ReleasedStatus
  <2> QED
    BY <2>2, <2>3 DEF Fresh
<1>5. ASSUME NEW d \in Claim, NEW r, NEW now, BeginRunWithQuota(d, r, now),
             NEW c \in Claim, NEW s \in Surface
      PROVE  ~Fresh(c, s)
  <2>1. quota[d] \in [Surface -> ReservedRow] /\ quota \in [Claim -> [Surface -> ReservedRow]]
    BY DEF QuotaRows
  <2>2. quota' = [quota EXCEPT ![d] = RowsOfRun(quota[d], now + LeaseTtl)]
    BY <1>5 DEF BeginRunWithQuota
  <2>3. CASE c # d
    BY <2>1, <2>2, <2>3 DEF Fresh
  <2>4. CASE c = d
    <3>1. quota'[c] = RowsOfRun(quota[c], now + LeaseTtl)
      BY <2>1, <2>2, <2>4
    <3>2. CASE quota[c][s].status = "unused"
      <4>1. quota'[c][s] = quota[c][s]
        BY <3>1, <3>2, Zenon DEF RowsOfRun
      <4> QED
        BY <3>2, <4>1 DEF Fresh
    <3> QED
      BY <3>2 DEF Fresh
  <2> QED
    BY <2>3, <2>4
<1>6. ASSUME NEW r, NEW v, NEW now, CheckpointWithQuota(r, v, now),
             NEW c \in Claim, NEW s \in Surface
      PROVE  ~Fresh(c, s)
  <2>1. quota'[c] = quota[c] \/ quota'[c] = RowsRenewed(quota[c], now + LeaseTtl)
    BY <1>6 DEF CheckpointWithQuota
  <2>2. quota[c][s].status = "unused" => quota'[c][s] = quota[c][s]
    BY <2>1 DEF RowsRenewed
  <2> QED
    BY <2>2 DEF Fresh
<1>7. CASE ReservingNext
  <2>1. CASE \/ \E i \in Instance, now \in Observed : StopAndReleaseQuota(i, now)
             \/ \E now \in Observed : RecoverClaimsAndReleaseQuota(now)
             \/ EmergencyStopAndReleaseQuota
             \/ \E c \in Claim : AgentExitedAndReleaseQuota(c)
             \/ \E c \in Claim : ProcessEndedAndReleaseQuota(c)
             \/ \E c \in Claim : FinishRunAndReleaseQuota(c)
             \/ \E now \in Observed : RecoverLeasesAndReleaseQuota(now)
    <3>1. quota' = quota \/ \E gone : quota' = ReleasedFor(gone)
      BY <2>1 DEF StopAndReleaseQuota, RecoverClaimsAndReleaseQuota,
         EmergencyStopAndReleaseQuota, AgentExitedAndReleaseQuota,
         ProcessEndedAndReleaseQuota, FinishRunAndReleaseQuota, RecoverLeasesAndReleaseQuota
    <3> QED
      BY <1>1, <3>1, ReleasingIsNotFresh
  <2> QED
    BY <1>1, <1>3, <1>4, <1>5, <1>6, <1>7, <2>1 DEF ReservingNext
<1> QED
  BY <1>2, <1>7 DEF QuotaNext

\* A row that becomes live adds its share to the sum.
LEMMA ReservedMore ==
    ASSUME NEW table \in [Claim -> [Surface -> ReservedRow]], NEW c \in Claim,
           NEW s \in Surface, ~IsLive(table[c][s]),
           NEW after \in [Claim -> [Surface -> ReservedRow]], IsLive(after[c][s]),
           \A d \in Claim \ {c} : after[d] = table[d]
    PROVE  /\ ReservedOf(s, table) \in Nat
           /\ ReservedOf(s, after) = ReservedOf(s, table) + after[c][s].percent
<1> DEFINE live == {d \in Claim : IsLive(table[d][s])}
           more == {d \in Claim : IsLive(after[d][s])}
           e == [d \in live \cup {c} |-> after[d][s].percent]
<1>1. IsFiniteSet(live) /\ c \notin live /\ more = live \cup {c}
  BY IdentityAssumption, FS_Subset
<1>2. e \in [live \cup {c} -> Nat]
  BY DEF ReservedRow
<1>3. [d \in live |-> e[d]] = [d \in live |-> table[d][s].percent]
  BY <1>1
<1>4. [d \in live |-> table[d][s].percent] \in [live -> Nat]
  BY DEF ReservedRow
<1>5. /\ ReservedOf(s, table) = SumFunction([d \in live |-> table[d][s].percent])
      /\ ReservedOf(s, after) = SumFunction(e)
      /\ e[c] = after[c][s].percent
  BY <1>1 DEF ReservedOf
<1> HIDE DEF live, more, e
<1>6. SumFunction(e) = SumFunction([d \in live |-> e[d]]) + e[c]
  BY <1>1, <1>2, TotalWith
<1>7. SumFunction([d \in live |-> table[d][s].percent]) \in Nat
  BY <1>1, <1>4, TotalIsNat
<1> QED
  BY <1>3, <1>5, <1>6, <1>7

Fits(s, now) ==
    /\ Remaining(s, now) # None
    /\ ReservedOf(s, quota') + surface[s].reserve <= Remaining(s, now)

LEMMA RemainingIsNat ==
    ASSUME EvidenceTypes, NEW s \in Surface, NEW now \in Nat, Remaining(s, now) # None
    PROVE  Remaining(s, now) \in Nat
<1>1. CASE Effective(s, now) = {}
  <2>1. surface[s].remaining \in Share
    BY DEF EvidenceTypes, SurfaceRow
  <2> QED
    BY <1>1, <2>1 DEF Remaining, Share
<1>2. CASE Effective(s, now) # {}
  <2> PICK n : n = Max(Effective(s, now))
    OBVIOUS
  <2>1. n \in Effective(s, now)
    <3>1. overrides[s] \in Seq(Override)
      BY DEF EvidenceTypes
    <3>2. /\ Effective(s, now) \subseteq 1..Len(overrides[s])
          /\ Len(overrides[s]) \in Nat
      BY <3>1 DEF Effective
    <3>3. \A x \in Effective(s, now) : x \in Int
      BY <3>2
    <3>4. IsFiniteSet(Effective(s, now))
      <4>1. IsFiniteSet(1..Len(overrides[s]))
        BY <3>2, FS_Interval
      <4> QED
        BY <3>2, <4>1, FS_Subset
    <3> QED
      BY <1>2, <3>3, <3>4, LargestIn
  <2>2. overrides[s][n] \in Override
    BY <2>1 DEF Effective, EvidenceTypes
  <2> QED
    BY <1>2, <2>2 DEF Remaining, Override
<1> QED
  BY <1>1, <1>2

\* What was unused is untouched by what a claim frees, and not live before it.
LEMMA UnusedStays ==
    ASSUME QuotaRows, NEW gone, NEW now, NEW c \in Claim, NEW s \in Surface,
           quota[c][s].status = "unused"
    PROVE  WithoutOverdue(ReleasedFor(gone), now)[c][s] = quota[c][s]
<1>1. ReleasedFor(gone)[c][s] = quota[c][s]
  BY ReleasedStatus
<1>2. ~IsLive(ReleasedFor(gone)[c][s])
  BY <1>1 DEF IsLive
<1>3. WithoutOverdue(ReleasedFor(gone), now)[c][s] = ReleasedFor(gone)[c][s]
  BY <1>2 DEF WithoutOverdue
<1> QED
  BY <1>1, <1>3

\* Nothing that a claim frees becomes active by it.
LEMMA FreedStatus ==
    ASSUME QuotaRows, NEW gone, NEW now, NEW c \in Claim, NEW s \in Surface,
           WithoutOverdue(ReleasedFor(gone), now)[c][s].status = "active"
    PROVE  quota[c][s].status = "active"
<1> PICK freed : freed = ReleasedFor(gone)
  OBVIOUS
<1>1. freed[c][s] \in ReservedRow
  BY ReleasedRows
<1>2. CASE IsLive(freed[c][s]) /\ freed[c][s].expires <= now
  <2>1. WithoutOverdue(freed, now)[c][s] = [freed[c][s] EXCEPT !.status = "expired"]
    BY <1>2 DEF WithoutOverdue
  <2> QED
    BY <1>1, <2>1 DEF ReservedRow
<1>3. CASE ~(IsLive(freed[c][s]) /\ freed[c][s].expires <= now)
  <2>1. WithoutOverdue(freed, now)[c][s] = freed[c][s]
    BY <1>3 DEF WithoutOverdue
  <2> QED
    BY <2>1, ReleasedStatus
<1> QED
  BY <1>2, <1>3

LEMMA ClaimFits ==
    ASSUME QuotaInv, EvidenceTypes, QuotaRows', NEW i \in Instance, NEW g, NEW c \in Claim,
           NEW now \in Observed, ClaimWithQuota(i, g, c, now),
           NEW s \in Surface, NEW d \in Claim, Fresh(d, s)
    PROVE  Fits(s, now)
<1>1. TypeOK /\ QuotaRows /\ now \in Nat
  BY ObservedTimes DEF QuotaInv
<1>2. PICK t, table : /\ t = planned[i].task
                      /\ table = WithoutOverdue(ReleasedFor(ExpiredAt(now)), now)
  OBVIOUS
<1>3. t \in Task
  BY <1>1, <1>2, ClaimHolds DEF ClaimWithQuota, QuotaInv
<1>4. table \in [Claim -> [Surface -> ReservedRow]]
  BY <1>1, <1>2, ReleasedRows, OverdueRows
<1>5. ReserveQuota(c, t, table, now)
  <2>1. quota' # ReleasedFor(ExpiredAt(now))
    BY <1>1, ReleasingIsNotFresh
  <2> QED
    BY <1>2, <2>1 DEF ClaimWithQuota
<1>6. \A e \in Claim \ {c} : quota'[e] = table[e]
  BY <1>4, <1>5 DEF ReserveQuota
<1>7. d = c
  <2>1. ASSUME d # c PROVE FALSE
    <3>1. table[d][s].status = "active"
      BY <1>6, <2>1 DEF Fresh
    <3> QED
      BY <1>1, <1>2, <3>1, FreedStatus DEF Fresh
  <2> QED
    BY <2>1
<1>8. quota'[c][s] = IF s \in Surfaces(t)
                     THEN [status |-> "active", percent |-> Forecast[t],
                           expires |-> now + ClaimTtl]
                     ELSE table[c][s]
  BY <1>4, <1>5 DEF ReserveQuota
<1>9. table[c][s] = quota[c][s] /\ quota[c][s].status = "unused"
  BY <1>1, <1>2, <1>7, UnusedStays DEF Fresh
<1>10. s \in Surfaces(t) /\ quota'[c][s].status = "active" /\ quota'[c][s].percent = Forecast[t]
  BY <1>7, <1>8, <1>9 DEF Fresh
<1>11. /\ ReservedOf(s, table) \in Nat
       /\ ReservedOf(s, quota') = ReservedOf(s, table) + Forecast[t]
  <2>1. ~IsLive(table[c][s]) /\ IsLive(quota'[c][s])
    BY <1>9, <1>10 DEF IsLive
  <2>2. PICK after : after = quota'
    OBVIOUS
  <2>3. after \in [Claim -> [Surface -> ReservedRow]]
    BY <2>2 DEF QuotaRows
  <2>4. IsLive(after[c][s]) /\ \A e \in Claim \ {c} : after[e] = table[e]
    BY <1>6, <2>1, <2>2
  <2>5. /\ ReservedOf(s, table) \in Nat
        /\ ReservedOf(s, after) = ReservedOf(s, table) + after[c][s].percent
    BY <1>4, <2>1, <2>3, <2>4, ReservedMore
  <2> QED
    BY <1>10, <2>2, <2>5
<1>12. Room(s, t, table, now)
  BY <1>5, <1>10 DEF ReserveQuota
<1>13. /\ Remaining(s, now) # None
       /\ Remaining(s, now) >= surface[s].reserve + ReservedOf(s, table) + Forecast[t]
  BY <1>12 DEF Room
<1>14. /\ Remaining(s, now) \in Nat /\ surface[s].reserve \in Nat /\ Forecast[t] \in Nat
  BY <1>1, <1>3, <1>13, RemainingIsNat, QuotaAssumption DEF EvidenceTypes, SurfaceRow
<1>15. ReservedOf(s, quota') + surface[s].reserve <= Remaining(s, now)
  BY <1>11, <1>13, <1>14
<1> QED
  BY <1>13, <1>15 DEF Fits

\* Whatever is released, renewed, observed or overridden in between, the claim
\* that adds to what is reserved of a surface leaves all of it, with the reserve,
\* within what is known to be left at the time of the claim (reserve_quota_tx).
THEOREM ReservedFits == QuotaSpec => NeverOverReserved
<1>1. ASSUME QuotaInv /\ EvidenceTypes, [QuotaNext]_quotaAllVars
      PROVE  \A s \in Surface :
                (\E c \in Claim : quota[c][s].status = "unused"
                                    /\ quota'[c][s].status = "active")
                    => \E now \in Observed :
                        /\ Remaining(s, now) # None
                        /\ ReservedOf(s, quota') + surface[s].reserve <= Remaining(s, now)
  <2> SUFFICES ASSUME NEW s \in Surface, NEW c \in Claim, Fresh(c, s)
               PROVE  \E now \in Observed : Fits(s, now)
    BY DEF Fresh, Fits
  <2>1. QuotaRows /\ QuotaRows'
    BY <1>1, QuotaStep DEF QuotaInv
  <2>2. PICK i \in Instance, g \in 1..MaxGeneration, d \in Claim, now \in Observed :
            ClaimWithQuota(i, g, d, now)
    BY <1>1, <2>1, RowsAreNotFresh
  <2> QED
    BY <1>1, <2>1, <2>2, ClaimFits
<1>2. QuotaInv /\ EvidenceTypes /\ [QuotaNext]_quotaAllVars =>
        [\A s \in Surface :
            (\E c \in Claim : quota[c][s].status = "unused"
                                /\ quota'[c][s].status = "active")
                => \E now \in Observed :
                    /\ Remaining(s, now) # None
                    /\ ReservedOf(s, quota') + surface[s].reserve <= Remaining(s, now)
        ]_quotaAllVars
  BY <1>1
<1> QED
  BY <1>2, QuotaInvariant, PTL DEF QuotaSpec, NeverOverReserved

-----------------------------------------------------------------------------
(* What is reserved lasts.  A claim and its row are renewed together and     *)
(* expire together, whatever timestamps are used.  A run and its row do so   *)
(* when no timestamp is old: a checkpoint that renews a lease that another   *)
(* call, with a later timestamp, takes for overdue cannot revive its row.    *)

AtWork(c) == worker[c] \in {"working", "terminating"}

\* A row of claim c that has this status ends at this time.
Covered(c, status, expiry) ==
    \E s \in SurfacesOf[claims[c].task] :
        quota[c][s].status = status /\ quota[c][s].expires = expiry

ClaimCovered(c) ==
    (claims[c].status = "active" /\ AdapterOf[claims[c].task] # "api")
        => Covered(c, "active", claims[c].expires)

RunCovered(c) ==
    (AtWork(c) /\ AdapterOf[claims[c].task] # "api" /\ leases[claims[c].run].expires > clock)
        => Covered(c, "running", leases[claims[c].run].expires)

ClaimsCovered == \A c \in Claim : ClaimCovered(c)
RunsCovered == MaxLag = 0 => \A c \in Claim : RunCovered(c)

\* What claim c and its rows must keep to be covered.
ClaimAsBefore(c) ==
    claims'[c].status = "active" =>
        /\ claims[c].status = "active"
        /\ claims'[c].task = claims[c].task
        /\ claims'[c].expires = claims[c].expires
        /\ \A s \in Surface :
            (quota[c][s].status = "active" /\ quota[c][s].expires = claims[c].expires)
                => quota'[c][s] = quota[c][s]

RunAsBefore(c) ==
    (AtWork(c)' /\ leases'[claims'[c].run].expires > clock') =>
        /\ AtWork(c)
        /\ claims'[c].task = claims[c].task
        /\ claims'[c].run = claims[c].run
        /\ leases[claims[c].run].expires > clock
        /\ leases'[claims[c].run].expires = leases[claims[c].run].expires
        /\ \A s \in Surface :
            (quota[c][s].status = "running" /\ quota[c][s].expires > clock)
                => quota'[c][s] = quota[c][s]

LEMMA ClaimStays ==
    ASSUME QuotaInv, NEW c \in Claim, ClaimCovered(c), ClaimAsBefore(c)
    PROVE  ClaimCovered(c)'
<1> SUFFICES ASSUME claims'[c].status = "active", AdapterOf[claims'[c].task] # "api"
             PROVE  Covered(c, "active", claims[c].expires)'
  BY DEF ClaimCovered, ClaimAsBefore, Covered
<1>1. claims[c].status = "active" /\ claims'[c].task = claims[c].task
  BY DEF ClaimAsBefore
<1>2. PICK s \in SurfacesOf[claims[c].task] :
            quota[c][s].status = "active" /\ quota[c][s].expires = claims[c].expires
  BY <1>1 DEF ClaimCovered, Covered
<1>3. s \in Surface
  BY <1>1, <1>2, QuotaAssumption DEF QuotaInv, LockInv, ClaimsLinked
<1>4. quota'[c][s] = quota[c][s] /\ claims'[c].expires = claims[c].expires
  BY <1>2, <1>3 DEF ClaimAsBefore
<1> QED
  BY <1>1, <1>2, <1>4 DEF Covered

LEMMA RunStays ==
    ASSUME QuotaInv, NEW c \in Claim, RunCovered(c), RunAsBefore(c)
    PROVE  RunCovered(c)'
<1> SUFFICES ASSUME AtWork(c)', AdapterOf[claims'[c].task] # "api",
                    leases'[claims'[c].run].expires > clock'
             PROVE  Covered(c, "running", leases[claims[c].run].expires)'
  BY DEF RunCovered, Covered, AtWork
<1>1. /\ AtWork(c) /\ claims'[c].task = claims[c].task /\ claims'[c].run = claims[c].run
      /\ leases[claims[c].run].expires > clock
      /\ leases'[claims[c].run].expires = leases[claims[c].run].expires
  BY DEF RunAsBefore
<1>2. claims[c].status = "consumed"
  BY <1>1 DEF AtWork, QuotaInv, LockInv, WorkersLinked, Unstarted
<1>3. PICK s \in SurfacesOf[claims[c].task] :
            /\ quota[c][s].status = "running"
            /\ quota[c][s].expires = leases[claims[c].run].expires
  BY <1>1 DEF RunCovered, Covered
<1>4. s \in Surface
  BY <1>2, <1>3, QuotaAssumption DEF QuotaInv, LockInv, ClaimsLinked
<1>5. quota'[c][s] = quota[c][s]
  BY <1>1, <1>3, <1>4 DEF RunAsBefore
<1> QED
  BY <1>1, <1>3, <1>5 DEF Covered

AsBefore(c) == ClaimAsBefore(c) /\ RunAsBefore(c)

LEMMA CoverStays ==
    ASSUME QuotaInv, ClaimsCovered, RunsCovered, \A c \in Claim : AsBefore(c)
    PROVE  ClaimsCovered' /\ RunsCovered'
BY ClaimStays, RunStays DEF AsBefore, ClaimsCovered, RunsCovered

\* Rows of claims that are not released stay as they are.
LEMMA SparedRows ==
    ASSUME NEW gone, NEW c \in Claim, c \notin gone, NEW s \in Surface
    PROVE  ReleasedFor(gone)[c][s] = quota[c][s]
BY DEF ReleasedFor

\* Active claims end, and their rows with them.
LEMMA HandingBackCovers ==
    ASSUME QuotaInv, NEW gone \in SUBSET Active, NEW end \in {"expired", "released"},
           claims' = ClaimsMarked(gone, end), UNCHANGED <<clock, leases, worker>>,
           quota' = ReleasedFor(gone)
    PROVE  \A c \in Claim : AsBefore(c)
<1> SUFFICES ASSUME NEW c \in Claim PROVE AsBefore(c)
  OBVIOUS
<1>1. CASE c \in gone
  <2>1. claims'[c].status # "active" /\ claims[c].status = "active"
    BY <1>1, MarkedEnds DEF QuotaInv, Active
  <2>2. ~AtWork(c)'
    BY <2>1 DEF AtWork, QuotaInv, LockInv, WorkersLinked, Unstarted
  <2> QED
    BY <2>1, <2>2 DEF AsBefore, ClaimAsBefore, RunAsBefore
<1>2. CASE c \notin gone
  <2>1. claims'[c] = claims[c]
    BY <1>2, MarkedEnds DEF QuotaInv
  <2>2. \A s \in Surface : quota'[c][s] = quota[c][s]
    BY <1>2, SparedRows
  <2> QED
    BY <2>1, <2>2 DEF AsBefore, ClaimAsBefore, RunAsBefore, AtWork
<1> QED
  BY <1>1, <1>2

\* A claim or a renewal first ends what is due.
LEMMA RowsNotDue ==
    ASSUME QuotaInv, NEW now \in Observed, NEW c \in Claim, NEW s \in Surface,
           LET row == quota[c][s] IN
            \/ c \notin ExpiredAt(now) /\ row.status = "active" /\ row.expires = claims[c].expires
                    /\ claims[c].status = "active"
            \/ row.status = "running" /\ row.expires > clock /\ AtWork(c)
    PROVE  /\ ReleasedFor(ExpiredAt(now))[c][s] = quota[c][s]
           /\ WithoutOverdue(ReleasedFor(ExpiredAt(now)), now)[c][s] = quota[c][s]
<1>1. quota[c][s] \in ReservedRow /\ clock \in Nat /\ now \in Nat /\ now <= clock
  BY DEF QuotaInv, QuotaRows, TypeOK, Observed
<1>2. c \notin ExpiredAt(now)
  BY DEF AtWork, QuotaInv, LockInv, WorkersLinked, Unstarted, ExpiredAt, Active
<1>3. ReleasedFor(ExpiredAt(now))[c][s] = quota[c][s]
  BY <1>2, SparedRows
<1>4. ~(quota[c][s].expires <= now)
  <2>1. CASE c \notin ExpiredAt(now) /\ quota[c][s].expires = claims[c].expires
                /\ claims[c].status = "active"
    BY <2>1 DEF ExpiredAt, Active
  <2>2. CASE quota[c][s].expires > clock
    BY <1>1, <2>2 DEF ReservedRow
  <2> QED
    BY <2>1, <2>2
<1> QED
  BY <1>3, <1>4 DEF WithoutOverdue

LEMMA ClaimCovers ==
    ASSUME QuotaInv, ClaimsCovered, RunsCovered,
           NEW i \in Instance, NEW g, NEW c \in Claim, NEW now \in Observed,
           ClaimWithQuota(i, g, c, now)
    PROVE  ClaimsCovered' /\ RunsCovered'
<1> PICK t, table : /\ t = planned[i].task
                    /\ table = WithoutOverdue(ReleasedFor(ExpiredAt(now)), now)
  OBVIOUS
<1>1. TypeOK /\ QuotaRows
  BY DEF QuotaInv
<1>2. ExpiredAt(now) \in SUBSET Active
  BY DEF ExpiredAt
<1>3. table \in [Claim -> [Surface -> ReservedRow]]
  BY <1>1, ReleasedRows, OverdueRows
<1>4. /\ claims[c].status = "unused" /\ t \in Task
      /\ \A d \in Claim \ {c} : claims'[d] = ClaimsMarked(ExpiredAt(now), "expired")[d]
      /\ claims'[c].status = "active" /\ claims'[c].task = t
      /\ claims'[c].expires = now + ClaimTtl
      /\ UNCHANGED <<clock, leases, worker>>
  BY DEF ClaimWithQuota, ClaimTask, unscheduled, workerVars, ClaimsMarked
<1>5. \/ AdapterOf[t] = "api" /\ quota' = ReleasedFor(ExpiredAt(now))
      \/ AdapterOf[t] # "api" /\ ReserveQuota(c, t, table, now)
  BY DEF ClaimWithQuota
<1>6. \A d \in Claim \ {c} : \/ quota'[d] = ReleasedFor(ExpiredAt(now))[d]
                             \/ quota'[d] = table[d]
  BY <1>3, <1>5 DEF ReserveQuota
<1>7. ~AtWork(c) /\ ~AtWork(c)'
  BY <1>4 DEF AtWork, QuotaInv, LockInv, WorkersLinked, Unstarted
<1>8. ASSUME NEW d \in Claim \ {c} PROVE AsBefore(d)
  <2>1. ClaimAsBefore(d)
    <3> SUFFICES ASSUME claims'[d].status = "active"
                 PROVE  /\ claims[d].status = "active" /\ claims'[d] = claims[d]
                        /\ \A s \in Surface :
                            (quota[d][s].status = "active"
                                /\ quota[d][s].expires = claims[d].expires)
                                => quota'[d][s] = quota[d][s]
      BY DEF ClaimAsBefore
    <3>1. d \notin ExpiredAt(now) /\ claims'[d] = claims[d]
      BY <1>1, <1>2, <1>4, MarkedEnds
    <3> QED
      BY <1>6, <3>1, RowsNotDue
  <2>2. RunAsBefore(d)
    <3> SUFFICES ASSUME AtWork(d)', leases'[claims'[d].run].expires > clock'
                 PROVE  /\ AtWork(d) /\ claims'[d] = claims[d]
                        /\ \A s \in Surface :
                            (quota[d][s].status = "running" /\ quota[d][s].expires > clock)
                                => quota'[d][s] = quota[d][s]
      BY <1>4 DEF RunAsBefore
    <3>1. AtWork(d)
      BY <1>4 DEF AtWork
    <3>2. d \notin ExpiredAt(now)
      BY <3>1 DEF AtWork, QuotaInv, LockInv, WorkersLinked, Unstarted, ExpiredAt, Active
    <3>3. claims'[d] = claims[d]
      BY <1>1, <1>2, <1>4, <3>2, MarkedEnds
    <3> QED
      BY <1>6, <3>1, <3>3, RowsNotDue
  <2> QED
    BY <2>1, <2>2 DEF AsBefore
<1>9. ClaimCovered(c)'
  <2> SUFFICES ASSUME AdapterOf[t] # "api" PROVE Covered(c, "active", now + ClaimTtl)'
    BY <1>4 DEF ClaimCovered, Covered
  <2>1. ReserveQuota(c, t, table, now)
    BY <1>5
  <2>2. PICK s \in Surfaces(t) : TRUE
    BY <2>1 DEF ReserveQuota
  <2>3. s \in SurfacesOf[t] /\ s \in Surface
    BY <1>4, <2>2, QuotaAssumption DEF Surfaces
  <2>4. quota'[c][s].status = "active" /\ quota'[c][s].expires = now + ClaimTtl
    BY <1>3, <2>1, <2>2, <2>3 DEF ReserveQuota
  <2> QED
    BY <1>4, <2>3, <2>4 DEF Covered
<1>10. RunCovered(c)'
  BY <1>7 DEF RunCovered, AtWork
<1> QED
  BY <1>8, <1>9, <1>10, ClaimStays, RunStays DEF AsBefore, ClaimsCovered, RunsCovered

LEMMA HeartbeatCovers ==
    ASSUME QuotaInv, ClaimsCovered, RunsCovered,
           NEW i, NEW g, NEW now \in Observed, HeartbeatWithQuota(i, g, now)
    PROVE  ClaimsCovered' /\ RunsCovered'
<1> PICK freed : freed = ReleasedFor(ExpiredAt(now))
  OBVIOUS
<1>1. TypeOK /\ QuotaRows
  BY DEF QuotaInv
<1>2. /\ UNCHANGED <<clock, leases, worker>>
      /\ ExpiredAt(now) \in SUBSET Active
  BY DEF HeartbeatWithQuota, HeartbeatSchedulerClaims, unscheduled, workerVars, ExpiredAt
<1>3. ASSUME NEW c \in Claim PROVE ClaimCovered(c)' /\ (MaxLag = 0 => RunCovered(c)')
  <2> DEFINE renewed == /\ c \in Active \ ExpiredAt(now)
                        /\ claims[c].owner = i /\ claims[c].generation = g
  <2>1. claims'[c] = IF renewed THEN [claims[c] EXCEPT !.expires = now + ClaimTtl]
                                ELSE ClaimsMarked(ExpiredAt(now), "expired")[c]
    BY DEF HeartbeatWithQuota, HeartbeatSchedulerClaims
  <2>2. \A s \in Surface :
            quota'[c][s] = IF /\ freed[c][s].status = "active" /\ claims'[c].status = "active"
                              /\ claims[c].owner = i /\ claims[c].generation = g
                           THEN [freed[c][s] EXCEPT !.expires = now + ClaimTtl]
                           ELSE freed[c][s]
    BY DEF HeartbeatWithQuota
  <2>3. claims[c] \in ClaimRow
    BY <1>1 DEF TypeOK
  <2>4. CASE renewed
    <3>1. /\ claims[c].status = "active" /\ claims'[c].status = "active"
          /\ claims'[c].task = claims[c].task /\ claims'[c].expires = now + ClaimTtl
      BY <2>1, <2>3, <2>4 DEF Active, ClaimRow
    <3>2. ~AtWork(c)'
      BY <1>2, <3>1 DEF AtWork, QuotaInv, LockInv, WorkersLinked, Unstarted
    <3>3. ASSUME AdapterOf[claims[c].task] # "api"
          PROVE  Covered(c, "active", now + ClaimTtl)'
      <4>1. PICK s \in SurfacesOf[claims[c].task] :
                quota[c][s].status = "active" /\ quota[c][s].expires = claims[c].expires
        BY <3>1, <3>3 DEF ClaimsCovered, ClaimCovered, Covered
      <4>2. s \in Surface
        BY <3>1, <4>1, QuotaAssumption DEF QuotaInv, LockInv, ClaimsLinked
      <4>3. freed[c][s] = quota[c][s] /\ quota[c][s] \in ReservedRow
        BY <1>1, <2>4, <4>2, SparedRows DEF QuotaRows
      <4>4. quota'[c][s] = [quota[c][s] EXCEPT !.expires = now + ClaimTtl]
        BY <2>2, <2>4, <3>1, <4>1, <4>2, <4>3
      <4>5. quota'[c][s].status = "active" /\ quota'[c][s].expires = now + ClaimTtl
        BY <4>1, <4>3, <4>4 DEF ReservedRow
      <4> QED
        BY <3>1, <4>1, <4>5 DEF Covered
    <3>4. ClaimCovered(c)'
      BY <3>1, <3>3 DEF ClaimCovered, Covered
    <3>5. RunCovered(c)'
      BY <3>2 DEF RunCovered, AtWork
    <3> QED
      BY <3>4, <3>5
  <2>5. CASE ~renewed
    <3>1. claims'[c] = ClaimsMarked(ExpiredAt(now), "expired")[c]
      BY <2>1, <2>5
    <3>2. CASE c \in ExpiredAt(now)
      <4>1. claims'[c].status = "expired" /\ claims[c].status = "active"
        BY <1>1, <1>2, <3>1, <3>2, MarkedEnds DEF ExpiredAt, Active
      <4>2. ~AtWork(c)'
        BY <1>2, <4>1 DEF AtWork, QuotaInv, LockInv, WorkersLinked, Unstarted
      <4>3. ClaimCovered(c)' /\ RunCovered(c)'
        BY <4>1, <4>2 DEF ClaimCovered, RunCovered, AtWork
      <4> QED
        BY <4>3
    <3>3. CASE c \notin ExpiredAt(now)
      <4>1. claims'[c] = claims[c]
        BY <1>1, <1>2, <3>1, <3>3, MarkedEnds
      <4>2. \A s \in Surface : quota'[c][s] = quota[c][s]
        <5>1. ~(claims'[c].status = "active" /\ claims[c].owner = i /\ claims[c].generation = g)
          BY <2>5, <3>3, <4>1 DEF Active
        <5> QED
          BY <2>2, <3>3, <5>1, SparedRows
      <4>3. ClaimAsBefore(c) /\ RunAsBefore(c)
        BY <1>2, <4>1, <4>2 DEF ClaimAsBefore, RunAsBefore, AtWork
      <4> QED
        BY <4>3, ClaimStays, RunStays DEF ClaimsCovered, RunsCovered
    <3> QED
      BY <3>2, <3>3
  <2> QED
    BY <2>4, <2>5
<1> QED
  BY <1>3 DEF ClaimsCovered, RunsCovered

LEMMA BeginCovers ==
    ASSUME QuotaInv, QuotaInv', ClaimsCovered, RunsCovered,
           NEW c \in Claim, NEW r \in Run, NEW now \in Observed, BeginRunWithQuota(c, r, now)
    PROVE  ClaimsCovered' /\ RunsCovered'
<1>1. TypeOK /\ QuotaRows
  BY DEF QuotaInv
<1>2. /\ claims[c].status = "active"
      /\ worker' = [worker EXCEPT ![c] = "working"]
      /\ claims' = [claims EXCEPT ![c] = [Ended(claims[c], "consumed") EXCEPT !.run = r]]
      /\ leases' = [leases EXCEPT ![r] = [held |-> TRUE, expires |-> now + LeaseTtl]]
      /\ UNCHANGED clock
  BY DEF BeginRunWithQuota, BeginClaimedRun, Goes, Startable, unexecuted
<1>3. /\ claims'[c].status = "consumed" /\ claims'[c].run = r
      /\ claims'[c].task = claims[c].task
  BY <1>1, <1>2 DEF TypeOK, Ended, ClaimRow
<1>4. quota' = [quota EXCEPT ![c] = RowsOfRun(quota[c], now + LeaseTtl)]
  BY DEF BeginRunWithQuota
<1>5. ClaimCovered(c)'
  BY <1>3 DEF ClaimCovered
<1>6. RunCovered(c)'
  <2> SUFFICES ASSUME AdapterOf[claims[c].task] # "api"
               PROVE  Covered(c, "running", now + LeaseTtl)'
    <3>1. leases'[claims'[c].run].expires = now + LeaseTtl
      BY <1>1, <1>2, <1>3 DEF TypeOK
    <3> QED
      BY <1>3, <3>1 DEF RunCovered, Covered
  <2>1. PICK s \in SurfacesOf[claims[c].task] : quota[c][s].status = "active"
    BY <1>2 DEF ClaimsCovered, ClaimCovered, Covered
  <2>2. s \in Surface
    BY <1>2, <2>1, QuotaAssumption DEF QuotaInv, LockInv, ClaimsLinked
  <2>3. /\ quota'[c] = RowsOfRun(quota[c], now + LeaseTtl)
        /\ quota[c][s] \in ReservedRow
    BY <1>1, <1>4, <2>2 DEF QuotaRows
  <2> DEFINE begun == RowsOfRun(quota[c], now + LeaseTtl)
  <2>4. quota'[c][s] = [quota[c][s] EXCEPT !.status = "running", !.expires = now + LeaseTtl]
    <3>1. begun[s] = [quota[c][s] EXCEPT !.status = "running", !.expires = now + LeaseTtl]
      BY <2>1, <2>2, Zenon DEF RowsOfRun
    <3>2. quota'[c] = begun
      BY <2>3
    <3> HIDE DEF begun
    <3> QED
      BY <3>1, <3>2
  <2>5. quota'[c][s].status = "running" /\ quota'[c][s].expires = now + LeaseTtl
    BY <2>3, <2>4 DEF ReservedRow
  <2> QED
    BY <1>3, <2>1, <2>5 DEF Covered
<1>7. ASSUME NEW d \in Claim \ {c} PROVE AsBefore(d)
  <2>1. /\ claims'[d] = claims[d] /\ quota'[d] = quota[d] /\ worker'[d] = worker[d]
    BY <1>1, <1>2, <1>4 DEF TypeOK, QuotaRows
  <2>2. ASSUME AtWork(d) PROVE leases'[claims[d].run] = leases[claims[d].run]
    <3>1. claims[d].status = "consumed" /\ claims[d].run \in Run
      BY <2>2 DEF AtWork, QuotaInv, LockInv, WorkersLinked, ClaimsLinked, Unstarted
    <3>2. claims[d].run # r
      BY <1>3, <2>1, <3>1 DEF QuotaInv, LockInv, ClaimsLinked
    <3> QED
      BY <1>1, <1>2, <3>1, <3>2 DEF TypeOK
  <2> QED
    BY <1>2, <2>1, <2>2 DEF AsBefore, ClaimAsBefore, RunAsBefore, AtWork
<1> QED
  BY <1>5, <1>6, <1>7, ClaimStays, RunStays DEF AsBefore, ClaimsCovered, RunsCovered
\* With the clock as timestamp, what a checkpoint renews had not run out.
LEMMA CheckpointCovers ==
    ASSUME QuotaInv, ClaimsCovered, RunsCovered,
           NEW r \in Run, NEW v \in Supervisor, NEW now \in Observed,
           CheckpointWithQuota(r, v, now)
    PROVE  ClaimsCovered' /\ RunsCovered'
<1>1. TypeOK /\ QuotaRows
  BY DEF QuotaInv
<1>2. /\ leases[r].expires > now
      /\ leases' = [leases EXCEPT ![r].expires = now + LeaseTtl]
      /\ UNCHANGED <<clock, claims>>
      /\ \A c \in Claim : AtWork(c)' => AtWork(c)
  BY DEF CheckpointWithQuota, ApplyRunCheckpoint, unexecuted, AtWork
<1>3. \A c \in Claim : quota'[c] = IF claims[c].run = r
                                   THEN RowsRenewed(quota[c], now + LeaseTtl)
                                   ELSE quota[c]
  BY DEF CheckpointWithQuota, ClaimsOf
<1>4. ASSUME NEW c \in Claim PROVE ClaimAsBefore(c)
  <2> SUFFICES ASSUME NEW s \in Surface, quota[c][s].status = "active"
               PROVE  quota'[c][s] = quota[c][s]
    BY <1>2 DEF ClaimAsBefore
  <2>1. RowsRenewed(quota[c], now + LeaseTtl)[s] = quota[c][s]
    BY DEF RowsRenewed
  <2> QED
    BY <1>3, <2>1
<1>5. ASSUME MaxLag = 0, NEW c \in Claim PROVE RunCovered(c)'
  <2>1. CASE claims[c].run # r
    <3>1. ASSUME AtWork(c) PROVE leases'[claims[c].run] = leases[claims[c].run]
      <4>1. claims[c].run \in Run
        BY <3>1 DEF AtWork, QuotaInv, LockInv, WorkersLinked, ClaimsLinked, Unstarted
      <4> QED
        BY <1>1, <1>2, <2>1, <4>1 DEF TypeOK
    <3>2. RunAsBefore(c)
      BY <1>2, <1>3, <2>1, <3>1 DEF RunAsBefore
    <3> QED
      BY <1>5, <3>2, RunStays DEF RunsCovered
  <2>2. CASE claims[c].run = r
    <3> DEFINE renewed == RowsRenewed(quota[c], now + LeaseTtl)
    <3> SUFFICES ASSUME AtWork(c), AdapterOf[claims[c].task] # "api"
                 PROVE  Covered(c, "running", now + LeaseTtl)'
      <4>1. leases[r] \in LeaseRow
        BY <1>1 DEF TypeOK
      <4>2. leases'[r].expires = now + LeaseTtl
        BY <1>1, <1>2, <4>1 DEF TypeOK, LeaseRow
      <4> QED
        BY <1>2, <2>2, <4>2 DEF RunCovered, Covered
    <3>1. leases[r].expires > clock
      <4>1. now \in Nat /\ clock \in Nat /\ now <= clock /\ clock <= now
        BY <1>1, <1>5 DEF Observed, TypeOK
      <4>2. now = clock
        BY <4>1
      <4> QED
        BY <1>2, <4>2
    <3>2. PICK s \in SurfacesOf[claims[c].task] : quota[c][s].status = "running"
      BY <1>5, <2>2, <3>1 DEF RunsCovered, RunCovered, Covered
    <3>3. claims[c].status = "consumed"
      BY DEF AtWork, QuotaInv, LockInv, WorkersLinked, Unstarted
    <3>4. s \in Surface
      BY <3>2, <3>3, QuotaAssumption DEF QuotaInv, LockInv, ClaimsLinked
    <3>5. renewed[s] = [quota[c][s] EXCEPT !.expires = now + LeaseTtl]
      BY <3>2, <3>4, Zenon DEF RowsRenewed
    <3>6. quota'[c] = renewed
      BY <1>3, <2>2
    <3> HIDE DEF renewed
    <3>7. quota[c][s] \in ReservedRow
      BY <1>1, <3>4 DEF QuotaRows
    <3>8. quota'[c][s].status = "running" /\ quota'[c][s].expires = now + LeaseTtl
      BY <3>2, <3>5, <3>6, <3>7 DEF ReservedRow
    <3> QED
      BY <1>2, <3>2, <3>8 DEF Covered
  <2> QED
    BY <2>1, <2>2
<1> QED
  BY <1>4, <1>5, ClaimStays DEF ClaimsCovered, RunsCovered

\* What ends the work of claims gives back the rows of these claims only.
LEMMA EndingKeeps ==
    ASSUME QuotaInv, NEW gone, UNCHANGED <<clock, claims>>,
           quota' = ReleasedFor(gone),
           \A c \in Claim : AtWork(c)' => AtWork(c),
           \A c \in gone : claims[c].status # "active",
           \A c \in gone : AtWork(c)' => ~(leases'[claims[c].run].expires > clock),
           \A c \in Claim \ gone : AtWork(c) => leases'[claims[c].run] = leases[claims[c].run]
    PROVE  \A c \in Claim : AsBefore(c)
<1> SUFFICES ASSUME NEW c \in Claim PROVE AsBefore(c)
  OBVIOUS
<1>1. CASE c \in gone
  BY <1>1 DEF AsBefore, ClaimAsBefore, RunAsBefore
<1>2. CASE c \notin gone
  <2>1. \A s \in Surface : quota'[c][s] = quota[c][s]
    BY <1>2, SparedRows
  <2> QED
    BY <1>2, <2>1 DEF AsBefore, ClaimAsBefore, RunAsBefore
<1> QED
  BY <1>1, <1>2

\* The leases of runs that end expire.
LEMMA EndedLeases ==
    ASSUME QuotaInv, NEW ended \in SUBSET Run, ReleaseRuns(ended)
    PROVE  /\ \A r \in ended : ~(leases'[r].expires > clock)
           /\ \A r \in Run \ ended : leases'[r] = leases[r]
<1>1. clock \in Nat /\ NoLease.expires = 0
  BY DEF QuotaInv, TypeOK, NoLease
<1> QED
  BY <1>1 DEF ReleaseRuns

LEMMA EndingCovers ==
    ASSUME QuotaInv, ClaimsCovered, RunsCovered,
           \/ \E c \in Claim : AgentExitedAndReleaseQuota(c)
           \/ \E c \in Claim : ProcessEndedAndReleaseQuota(c)
           \/ \E c \in Claim : FinishRunAndReleaseQuota(c)
           \/ \E now \in Observed : RecoverLeasesAndReleaseQuota(now)
    PROVE  ClaimsCovered' /\ RunsCovered'
<1>1. TypeOK /\ LockInv
  BY DEF QuotaInv
<1> SUFFICES \A c \in Claim : AsBefore(c)
  BY CoverStays
<1>2. \A c \in Claim : AtWork(c) => claims[c].status = "consumed" /\ claims[c].run \in Run
  BY <1>1 DEF AtWork, LockInv, WorkersLinked, ClaimsLinked, Unstarted
<1>3. \A r \in Run : \A c \in ClaimsOf(r) : claims[c].status # "active"
  BY <1>1, IdentityAssumption DEF ClaimsOf, LockInv, ClaimsLinked
<1>4. ASSUME NEW c \in Claim, AgentExitedAndReleaseQuota(c)
      PROVE  \A d \in Claim : AsBefore(d)
  <2>1. /\ UNCHANGED <<clock, claims, leases>>
        /\ worker[c] = "working" /\ worker' = [worker EXCEPT ![c] = "exited"]
    BY <1>4 DEF AgentExitedAndReleaseQuota, AgentExited, Goes, unexecuted, runVars
  <2>2. AtWork(c) /\ ~AtWork(c)' /\ \A d \in Claim : AtWork(d)' => AtWork(d)
    BY <1>1, <2>1 DEF AtWork, TypeOK
  <2>3. CASE quota' = ReleasedFor({c})
    BY <1>2, <2>1, <2>2, <2>3, EndingKeeps
  <2>4. CASE quota' = quota
    BY <2>1, <2>2, <2>4 DEF AsBefore, ClaimAsBefore, RunAsBefore
  <2> QED
    BY <1>4, <2>3, <2>4 DEF AgentExitedAndReleaseQuota
<1>5. ASSUME NEW c \in Claim, ProcessEndedAndReleaseQuota(c)
      PROVE  \A d \in Claim : AsBefore(d)
  <2>1. /\ UNCHANGED <<clock, claims>> /\ ReleaseRuns({claims[c].run})
        /\ worker[c] \in {"working", "terminating"}
        /\ worker' = [worker EXCEPT ![c] = "done"]
        /\ quota' = ReleasedFor({c})
    BY <1>5 DEF ProcessEndedAndReleaseQuota, RecordProcessOutcome, Goes, unexecuted
  <2>2. AtWork(c) /\ ~AtWork(c)' /\ \A d \in Claim : AtWork(d)' => AtWork(d)
    BY <1>1, <2>1 DEF AtWork, TypeOK
  <2>3. ASSUME NEW d \in Claim \ {c}, AtWork(d)
        PROVE  leases'[claims[d].run] = leases[claims[d].run]
    <3>1. claims[d].run # claims[c].run
      BY <1>1, <1>2, <2>2, <2>3 DEF LockInv, ClaimsLinked
    <3> QED
      BY <1>2, <2>1, <2>2, <2>3, <3>1, EndedLeases
  <2> QED
    BY <1>2, <2>1, <2>2, <2>3, EndingKeeps
<1>6. ASSUME NEW c \in Claim, FinishRunAndReleaseQuota(c)
      PROVE  \A d \in Claim : AsBefore(d)
  <2>1. /\ UNCHANGED <<clock, claims>> /\ ReleaseRuns({claims[c].run})
        /\ worker[c] = "closing" /\ worker' = [worker EXCEPT ![c] = "done"]
        /\ quota' = ReleasedFor(ClaimsOf(claims[c].run))
    BY <1>6 DEF FinishRunAndReleaseQuota, FinishRun, Goes, unexecuted
  <2>2. ~AtWork(c)' /\ \A d \in Claim : AtWork(d)' => AtWork(d)
    BY <1>1, <2>1 DEF AtWork, TypeOK
  <2>3. claims[c].run \in Run
    BY <1>1, <2>1 DEF LockInv, WorkersLinked, ClaimsLinked, Unstarted
  <2> QED
    BY <1>2, <1>3, <2>1, <2>2, <2>3, EndingKeeps, EndedLeases DEF ClaimsOf
<1>7. ASSUME NEW now \in Observed, RecoverLeasesAndReleaseQuota(now)
      PROVE  \A d \in Claim : AsBefore(d)
  <2>1. /\ UNCHANGED <<clock, claims, worker>> /\ ReleaseRuns(ExpiredLeases(now))
        /\ quota' = ReleasedFor(UNION {ClaimsOf(r) : r \in ExpiredLeases(now)})
    BY <1>7 DEF RecoverLeasesAndReleaseQuota, RecoverExpiredLeases, workerVars, unexecuted
  <2>2. ExpiredLeases(now) \in SUBSET Run
    BY DEF ExpiredLeases
  <2> DEFINE gone == UNION {ClaimsOf(r) : r \in ExpiredLeases(now)}
  <2>3. \A c \in gone : claims[c].status # "active" /\ claims[c].run \in ExpiredLeases(now)
    BY <1>3, <2>2 DEF ClaimsOf
  <2>4. \A c \in Claim \ gone : claims[c].run \notin ExpiredLeases(now)
    BY DEF ClaimsOf
  <2>5. \A c \in Claim : AtWork(c)' <=> AtWork(c)
    BY <2>1 DEF AtWork
  <2>6. \A c \in gone : ~(leases'[claims[c].run].expires > clock)
    BY <2>1, <2>2, <2>3, EndedLeases
  <2>7. \A c \in Claim \ gone : AtWork(c) => leases'[claims[c].run] = leases[claims[c].run]
    BY <1>2, <2>1, <2>2, <2>4, EndedLeases
  <2> HIDE DEF gone
  <2>8. quota' = ReleasedFor(gone)
    BY <2>1 DEF gone
  <2> QED
    BY <2>1, <2>3, <2>5, <2>6, <2>7, <2>8, EndingKeeps
<1> QED
  BY <1>4, <1>5, <1>6, <1>7
\* What leaves claims, leases and rows alone can only let time pass.
LEMMA IdleCovers ==
    ASSUME QuotaInv, ClaimsCovered, RunsCovered,
           UNCHANGED <<claims, leases, quota>>,
           clock' \in Nat, clock' >= clock,
           \A c \in Claim : AtWork(c)' => AtWork(c)
    PROVE  ClaimsCovered' /\ RunsCovered'
<1>1. TypeOK /\ LockInv
  BY DEF QuotaInv
<1> SUFFICES ASSUME NEW c \in Claim PROVE AsBefore(c)
  BY CoverStays
<1>2. ClaimAsBefore(c)
  BY DEF ClaimAsBefore
<1>3. ASSUME AtWork(c), leases[claims[c].run].expires > clock'
      PROVE  leases[claims[c].run].expires > clock
  <2>1. claims[c].run \in Run
    BY <1>1, <1>3 DEF AtWork, LockInv, WorkersLinked, ClaimsLinked, Unstarted
  <2>2. leases[claims[c].run].expires \in Nat /\ clock \in Nat
    BY <1>1, <2>1 DEF TypeOK, LeaseRow
  <2> QED
    BY <1>3, <2>2
<1>4. RunAsBefore(c)
  BY <1>3 DEF RunAsBefore
<1> QED
  BY <1>2, <1>4 DEF AsBefore

CoverInv == QuotaInv /\ ClaimsCovered /\ RunsCovered

LEMMA CoverStep == CoverInv /\ [QuotaNext]_quotaAllVars => CoverInv'
<1> SUFFICES ASSUME CoverInv, [QuotaNext]_quotaAllVars PROVE CoverInv'
  OBVIOUS
<1>1. QuotaInv /\ QuotaInv' /\ ClaimsCovered /\ RunsCovered
  BY QuotaStep DEF CoverInv
<1>2. TypeOK /\ clock \in Nat
  BY <1>1 DEF QuotaInv, TypeOK
<1> SUFFICES ClaimsCovered' /\ RunsCovered'
  BY <1>1 DEF CoverInv
<1>3. CASE UNCHANGED <<clock, claims, leases, worker, quota>>
  BY <1>1, <1>2, <1>3, IdleCovers DEF AtWork
<1>4. CASE UNCHANGED quotaAllVars
  BY <1>3, <1>4 DEF quotaAllVars, quotaVars, vars, runVars, workerVars
<1>5. CASE EvidenceNext
  BY <1>3, <1>5 DEF EvidenceNext, SetQuotaObservation, RefreshQuotaCodexbar,
     OverrideQuota, vars, runVars, workerVars
<1>6. CASE ReservingNext
  <2>1. ASSUME NEW i, NEW t, NEW now, RouteWithQuota(i, t, now)
        PROVE  ClaimsCovered' /\ RunsCovered'
    BY <1>3, <2>1 DEF RouteWithQuota, RouteTask, quotaVars, unscheduled, workerVars
  <2>2. ASSUME NEW i, NEW now, StopAndReleaseQuota(i, now)
        PROVE  ClaimsCovered' /\ RunsCovered'
    <3> DEFINE gone == {c \in Active : claims[c].owner = i}
    <3>1. /\ gone \in SUBSET Active /\ claims' = ClaimsMarked(gone, "released")
          /\ UNCHANGED <<clock, leases, worker>> /\ quota' = ReleasedFor(gone)
      BY <2>2 DEF StopAndReleaseQuota, StopSchedulerInstance, unscheduled, workerVars
    <3> HIDE DEF gone
    <3> QED
      BY <1>1, <3>1, HandingBackCovers, CoverStays
  <2>3. ASSUME NEW now, RecoverClaimsAndReleaseQuota(now)
        PROVE  ClaimsCovered' /\ RunsCovered'
    <3>1. /\ ExpiredAt(now) \in SUBSET Active
          /\ claims' = ClaimsMarked(ExpiredAt(now), "expired")
          /\ UNCHANGED <<clock, leases, worker>> /\ quota' = ReleasedFor(ExpiredAt(now))
      BY <2>3 DEF RecoverClaimsAndReleaseQuota, RecoverSchedulerClaims, unscheduled,
         workerVars, ExpiredAt
    <3> QED
      BY <1>1, <3>1, HandingBackCovers, CoverStays
  <2>4. ASSUME EmergencyStopAndReleaseQuota
        PROVE  ClaimsCovered' /\ RunsCovered'
    <3>1. /\ Active \in SUBSET Active /\ claims' = ClaimsMarked(Active, "released")
          /\ UNCHANGED <<clock, leases, worker>> /\ quota' = ReleasedFor(Active)
      BY <2>4 DEF EmergencyStopAndReleaseQuota, EmergencyStop, unscheduled, workerVars
    <3> QED
      BY <1>1, <3>1, HandingBackCovers, CoverStays
  <2> QED
    BY <1>1, <1>6, <2>1, <2>2, <2>3, <2>4, ClaimCovers, HeartbeatCovers, BeginCovers,
       CheckpointCovers, EndingCovers DEF ReservingNext
<1>7. CASE QuotaUnboundNext
  <2>1. /\ UNCHANGED <<claims, leases, quota>>
        /\ clock' \in Nat /\ clock' >= clock
        /\ \A c \in Claim : AtWork(c)' => AtWork(c)
    <3>1. UNCHANGED quota
      BY <1>7 DEF QuotaUnboundNext, quotaVars
    <3>2. CASE Tick
      BY <1>2, <3>1, <3>2 DEF Tick, runVars, workerVars, AtWork
    <3>3. CASE UNCHANGED <<clock, claims, leases, worker>>
      BY <1>2, <3>1, <3>3 DEF AtWork
    <3>4. ASSUME UNCHANGED <<clock, claims, leases>>,
                 NEW c \in Claim, NEW at \in WorkerState \ {"working", "terminating"},
                 worker' = [worker EXCEPT ![c] = at]
          PROVE  \A d \in Claim : AtWork(d)' => AtWork(d)
      BY <1>2, <3>4 DEF AtWork, TypeOK
    <3>5. CASE \/ \E i \in Instance : RegisterSchedulerInstance(i)
               \/ \E i \in Instance, now \in Observed : AcquireSchedulerLeader(i, now)
               \/ \E i \in Instance, g \in 1..MaxGeneration, now \in Observed :
                        HeartbeatSchedulerLeader(i, g, now)
               \/ \E t \in Task : SetTaskRoutePin(t)
               \/ \E paused \in BOOLEAN : SetPauseNewWork(paused)
               \/ ResumeOperations
      BY <3>3, <3>5 DEF RegisterSchedulerInstance, AcquireSchedulerLeader,
         HeartbeatSchedulerLeader, SetTaskRoutePin, SetPauseNewWork, ResumeOperations,
         unscheduled, workerVars
    <3>6. CASE \/ \E r \in Run, s \in Supervisor : EvaluateCheckpoint(r, s)
               \/ \E r \in Run : OperatorCheckpointRefused(r)
               \/ \E r \in Run : RequestRunCancellation(r)
               \/ GraphNext
      BY <3>3, <3>6 DEF EvaluateCheckpoint, OperatorCheckpointRefused,
         RequestRunCancellation, GraphNext, ReadTaskToEdit, AddDependency, AbandonEdit,
         CompleteReview, ungraphed, unexecuted, unscheduled, runVars, workerVars
    <3>7. ASSUME NEW c \in Claim,
                 \/ PrepareClaim(c) \/ WorktreeFailed(c) \/ ApiRunFailed(c)
                 \/ WorkerDies(c) \/ CreateVerifierRun(c) \/ CloseVerification(c)
                 \/ \E passed \in BOOLEAN : FinishVerifierRun(c, passed)
          PROVE  /\ UNCHANGED <<clock, claims, leases>>
                 /\ \E at \in WorkerState \ {"working", "terminating"} :
                        worker' = [worker EXCEPT ![c] = at]
      <4>1. UNCHANGED <<clock, claims, leases>>
        BY <3>7 DEF PrepareClaim, WorktreeFailed, ApiRunFailed, WorkerDies,
           CreateVerifierRun, CloseVerification, FinishVerifierRun, unexecuted, runVars
      <4>2. \E at \in {"preparing", "dead", "closing", "checking", "checked"} :
                worker' = [worker EXCEPT ![c] = at]
        BY <3>7 DEF PrepareClaim, WorktreeFailed, ApiRunFailed, WorkerDies,
           CreateVerifierRun, CloseVerification, FinishVerifierRun, Goes
      <4> QED
        BY <4>1, <4>2 DEF WorkerState
    <3> QED
      BY <1>2, <1>7, <3>1, <3>2, <3>4, <3>5, <3>6, <3>7, <3>3 DEF QuotaUnboundNext
  <2> QED
    BY <1>1, <2>1, IdleCovers
<1> QED
  BY <1>4, <1>5, <1>6, <1>7 DEF QuotaNext

LEMMA CoverInvariant == QuotaSpec => []CoverInv
<1>1. QuotaInit => CoverInv
  <2> SUFFICES ASSUME QuotaInit PROVE ClaimsCovered /\ RunsCovered
    BY QuotaInvInit DEF CoverInv
  <2>1. \A c \in Claim : claims[c].status = "unused" /\ worker[c] = "idle"
    BY DEF QuotaInit, Init, NoClaim
  <2> QED
    BY <2>1 DEF ClaimsCovered, RunsCovered, ClaimCovered, RunCovered, AtWork
<1> QED
  BY <1>1, CoverStep, PTL DEF QuotaSpec

\* Whatever timestamps the calls use, an active claim for a subscription account
\* has a reservation that ends when the claim does.
THEOREM ClaimsStayReserved == QuotaSpec => []ClaimsCovered
BY CoverInvariant, PTL DEF CoverInv

\* A claim, and after it the agent at work under its lease, has its share
\* reserved for as long as it may last (WorkIsReserved), while every call uses
\* the time of its transaction.
THEOREM WorkStaysReserved ==
    ASSUME MaxLag = 0
    PROVE  QuotaSpec => []WorkIsReserved
<1>1. CoverInv => WorkIsReserved
  <2> SUFFICES ASSUME CoverInv, NEW c \in Claim,
                      claims[c].status # "unused", AdapterOf[claims[c].task] # "api"
               PROVE  /\ claims[c].status = "active" /\ claims[c].expires > clock =>
                            \E s \in SurfacesOf[claims[c].task] :
                                /\ quota[c][s].status = "active"
                                /\ quota[c][s].expires > clock
                      /\ AtWork(c) /\ leases[claims[c].run].expires > clock =>
                            \E s \in SurfacesOf[claims[c].task] :
                                /\ quota[c][s].status = "running"
                                /\ quota[c][s].expires > clock
    BY DEF WorkIsReserved, Active, AtWork
  <2> QED
    BY DEF CoverInv, ClaimsCovered, RunsCovered, ClaimCovered, RunCovered, Covered
<1> QED
  BY <1>1, CoverInvariant, PTL

=============================================================================
