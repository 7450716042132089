--------------------------------- MODULE Quota ---------------------------------
(***************************************************************************)
(* Subscription quota: what is known of the surfaces of each account, the  *)
(* overrides of operators, and the reservations that claims make against   *)
(* what is left.  A call of the scheduler or of a run that also changes a  *)
(* reservation is the conjunction of its action in ControlPlane and its    *)
(* part here.                                                              *)
(***************************************************************************)
EXTENDS ControlPlane, Sequences, FiniteSetsExt

CONSTANTS
    Surface,        \* quota surfaces, each of one account
    SurfacesOf,     \* [Task -> SUBSET Surface], those of the account it routes to
    Forecast,       \* [Task -> Nat], the share of an account a task is to use
    Manual,         \* observations an operator may enter
    Relief,         \* overrides an operator may add
    MaxOverrides,   \* bound on the overrides of one surface
    Output,         \* what the collector may print
    Expected,       \* [lane -> Surface], the surfaces that must be reported
    Reserve,        \* the share a refresh keeps in reserve
    Validity        \* how long a refreshed observation is valid

VARIABLES
    surface,        \* quota_surfaces
    overrides,      \* quota_overrides of each surface, in order of creation
    quota           \* quota_reservations of each claim

quotaVars == <<surface, overrides, quota>>
evidence == <<surface, overrides>>
quotaAllVars == <<vars, quotaVars>>

Share == Nat \cup {None}
SurfaceRow == [remaining: Share, reserve: Nat, until: Nat \cup {None}]
Override == [remaining: Nat, expires: Nat \cup {None}]
ReservedRow == [status: {"unused", "active", "running", "released", "expired"},
                percent: Nat, expires: Nat]
Unobserved == [remaining |-> None, reserve |-> 0, until |-> 0]
NotReserved == [status |-> "unused", percent |-> 0, expires |-> 0]

\* The collector prints payloads, each with an account, the time at which the
\* provider was asked, and per lane a window (a surface and what is left of it)
\* or None.
Lane == DOMAIN Expected
Payload == [at: Nat, selected: BOOLEAN,
            window: [Lane -> [surface: Surface, remaining: Share] \cup {None}]]

ASSUME QuotaAssumption ==
    /\ SurfacesOf \in [Task -> SUBSET Surface]
    /\ Forecast \in [Task -> Nat]
    /\ Manual \subseteq [surface: Surface, remaining: Share, reserve: Nat]
    /\ Relief \subseteq [surface: Surface, remaining: Nat, expires: Nat \cup {None}]
    /\ \A l \in Lane : Expected[l] \in Surface
    /\ Output \subseteq SUBSET Payload
    /\ \A printed \in Output : IsFiniteSet(printed)
    /\ {MaxOverrides, Reserve} \subseteq Nat /\ Validity \in Nat \ {0}

-----------------------------------------------------------------------------
(* What is known of a surface. *)

Known == {s \in Surface : surface[s] # Unobserved}

\* Manual observations do not expire.
SetQuotaObservation(seen) ==
    /\ surface' = [surface EXCEPT ![seen.surface] =
            [remaining |-> seen.remaining, reserve |-> seen.reserve, until |-> None]]
    /\ UNCHANGED <<vars, overrides, quota>>

Present(p) == {l \in Lane : p.window[l] # None}

\* Only one payload of the selected account, which names no surface twice and
\* at least one, is accepted.
Acceptable(printed) ==
    /\ Cardinality(printed) = 1
    /\ \A p \in printed :
        /\ p.selected
        /\ Lane # {} \/ Present(p) # {}
        /\ \A l, k \in Present(p) :
                l # k => p.window[l].surface # p.window[k].surface

Reported(p, s) == {l \in Present(p) : p.window[l].surface = s}

\* Fault: a lane that is not reported is left as it was.
MissingKept(p) == {}

\* The surfaces of the expected lanes that are missing.
Missing(p) ==
    {s \in Surface : /\ Reported(p, s) = {}
                     /\ \E l \in Lane \ Present(p) : Expected[l] = s}

\* One transaction records every surface of the payload.
RecordQuotaObservations(p) ==
    surface' = [s \in Surface |->
        CASE Reported(p, s) # {} ->
                [remaining |-> p.window[CHOOSE l \in Reported(p, s) : TRUE].remaining,
                 reserve |-> Reserve, until |-> p.at + Validity]
          [] s \in Missing(p) ->
                [remaining |-> None, reserve |-> Reserve, until |-> p.at + Validity]
          [] OTHER -> surface[s]]

\* Output that is refused leaves what is known as it was.
RefreshQuotaCodexbar(printed) ==
    /\ Acceptable(printed)
    /\ \E p \in printed : p.at <= clock /\ RecordQuotaObservations(p)
    /\ UNCHANGED <<vars, overrides, quota>>

OverrideQuota(relief) ==
    /\ relief.surface \in Known
    /\ Len(overrides[relief.surface]) < MaxOverrides
    /\ overrides' = [overrides EXCEPT ![relief.surface] = Append(@,
            [remaining |-> relief.remaining, expires |-> relief.expires])]
    /\ UNCHANGED <<vars, surface, quota>>

\* The latest override that has not expired counts instead of the observation,
\* however old that is.
Effective(s, now) ==
    {n \in DOMAIN overrides[s] : \/ overrides[s][n].expires = None
                                 \/ overrides[s][n].expires > now}
Remaining(s, now) ==
    IF Effective(s, now) = {} THEN surface[s].remaining
    ELSE overrides[s][Max(Effective(s, now))].remaining
Stale(s, now) ==
    /\ Effective(s, now) = {}
    /\ surface[s].until # None
    /\ surface[s].until <= now

Surfaces(t) == SurfacesOf[t] \cap Known

\* What routing looks at: reservations do not count yet.
Headroom(t, now) ==
    /\ Surfaces(t) # {}
    /\ \A s \in Surfaces(t) :
        /\ ~Stale(s, now)
        /\ Remaining(s, now) # None
        /\ Remaining(s, now) >= surface[s].reserve + Forecast[t]

-----------------------------------------------------------------------------
(* Reservations. *)

IsLive(row) == row.status \in {"active", "running"}

\* The table after the overdue reservations, of any account, have expired.
WithoutOverdue(table, now) ==
    [c \in Claim |-> [s \in Surface |->
        IF IsLive(table[c][s]) /\ table[c][s].expires <= now
        THEN [table[c][s] EXCEPT !.status = "expired"] ELSE table[c][s]]]

ReleasedFor(gone) ==
    [c \in Claim |-> [s \in Surface |->
        IF c \in gone /\ IsLive(quota[c][s])
        THEN [quota[c][s] EXCEPT !.status = "released"] ELSE quota[c][s]]]

\* What is reserved of surface s in a table.
ReservedOf(s, table) ==
    SumFunction([c \in {d \in Claim : IsLive(table[d][s])} |-> table[c][s].percent])

\* Fault: reservations that already run are not summed.
RoomBesideWaiting(s, t, table, now) ==
    /\ ~Stale(s, now)
    /\ Remaining(s, now) # None
    /\ Remaining(s, now) >= surface[s].reserve + Forecast[t]
        + SumFunction([c \in {d \in Claim : table[d][s].status = "active"} |->
                        table[c][s].percent])

\* Whether the account still has room for task t beside what is reserved.
Room(s, t, table, now) ==
    /\ ~Stale(s, now)
    /\ Remaining(s, now) # None
    /\ Remaining(s, now)
        >= surface[s].reserve + ReservedOf(s, table) + Forecast[t]

\* One row per surface of the account, or the claim is rolled back.
ReserveQuota(c, t, table, now) ==
    /\ Surfaces(t) # {}
    /\ \A s \in Surfaces(t) : Room(s, t, table, now)
    /\ quota' = [table EXCEPT ![c] = [s \in Surface |->
            IF s \in Surfaces(t)
            THEN [status |-> "active", percent |-> Forecast[t],
                  expires |-> now + ClaimTtl]
            ELSE table[c][s]]]

-----------------------------------------------------------------------------
(* Calls of the scheduler and of runs, with what they do to reservations.    *)

RouteWithQuota(i, t, now) ==
    /\ RouteTask(i, t)
    /\ AdapterOf[t] # "api" => Headroom(t, now)
    /\ UNCHANGED quotaVars

ClaimWithQuota(i, g, c, now) ==
    LET t == planned[i].task
        freed == ReleasedFor(ExpiredAt(now)) IN
    /\ ClaimTask(i, g, c, now)
    /\ IF AdapterOf[t] = "api" THEN quota' = freed
       ELSE ReserveQuota(c, t, WithoutOverdue(freed, now), now)
    /\ UNCHANGED evidence

\* Fault: the claims are renewed, what is reserved for them is not.
HeartbeatClaimsOnly(i, g, now) ==
    /\ HeartbeatSchedulerClaims(i, g, now)
    /\ quota' = ReleasedFor(ExpiredAt(now))
    /\ UNCHANGED evidence

HeartbeatWithQuota(i, g, now) ==
    LET freed == ReleasedFor(ExpiredAt(now)) IN
    /\ HeartbeatSchedulerClaims(i, g, now)
    /\ quota' = [c \in Claim |-> [s \in Surface |->
            IF /\ freed[c][s].status = "active" /\ claims'[c].status = "active"
               /\ claims[c].owner = i /\ claims[c].generation = g
            THEN [freed[c][s] EXCEPT !.expires = now + ClaimTtl] ELSE freed[c][s]]]
    /\ UNCHANGED evidence

StopAndReleaseQuota(i, now) ==
    /\ StopSchedulerInstance(i, now)
    /\ quota' = ReleasedFor({c \in Active : claims[c].owner = i})
    /\ UNCHANGED evidence

RecoverClaimsAndReleaseQuota(now) ==
    /\ RecoverSchedulerClaims(now)
    /\ quota' = ReleasedFor(ExpiredAt(now))
    /\ UNCHANGED evidence

EmergencyStopAndReleaseQuota ==
    /\ EmergencyStop
    /\ quota' = ReleasedFor(Active)
    /\ UNCHANGED evidence

\* The rows of a claim follow it to its run and take the expiry of the lease.
RowsOfRun(rows, expiry) ==
    [s \in Surface |-> IF rows[s].status = "active"
                       THEN [rows[s] EXCEPT !.status = "running", !.expires = expiry]
                       ELSE rows[s]]

BeginRunWithQuota(c, r, now) ==
    /\ BeginClaimedRun(c, r, now)
    /\ quota' = [quota EXCEPT ![c] = RowsOfRun(@, now + LeaseTtl)]
    /\ UNCHANGED evidence

\* A checkpoint renews the rows that are still running with the lease.
RowsRenewed(rows, expiry) ==
    [s \in Surface |-> IF rows[s].status = "running"
                       THEN [rows[s] EXCEPT !.expires = expiry] ELSE rows[s]]

CheckpointWithQuota(r, s, now) ==
    /\ ApplyRunCheckpoint(r, s, now)
    /\ quota' = [c \in Claim |-> IF c \in ClaimsOf(r)
                                 THEN RowsRenewed(quota[c], now + LeaseTtl)
                                 ELSE quota[c]]
    /\ UNCHANGED evidence

\* A Codex process has ended, with success or not: its outcome is recorded.
AgentExitedAndReleaseQuota(c) ==
    /\ AgentExited(c)
    /\ quota' = IF AdapterOf[claims[c].task] = "codex" THEN ReleasedFor({c}) ELSE quota
    /\ UNCHANGED evidence

ProcessEndedAndReleaseQuota(c) ==
    /\ RecordProcessOutcome(c)
    /\ quota' = ReleasedFor({c})
    /\ UNCHANGED evidence

FinishRunAndReleaseQuota(c) ==
    /\ FinishRun(c)
    /\ quota' = ReleasedFor(ClaimsOf(claims[c].run))
    /\ UNCHANGED evidence

\* Fault: a recovered run keeps what was reserved for it.
RecoverLeasesOnly(now) ==
    /\ RecoverExpiredLeases(now)
    /\ UNCHANGED quotaVars

RecoverLeasesAndReleaseQuota(now) ==
    /\ RecoverExpiredLeases(now)
    /\ quota' = ReleasedFor(UNION {ClaimsOf(r) : r \in ExpiredLeases(now)})
    /\ UNCHANGED evidence

-----------------------------------------------------------------------------
(* The control plane with quota. *)

QuotaInit ==
    /\ Init
    /\ surface = [s \in Surface |-> Unobserved]
    /\ overrides = [s \in Surface |-> <<>>]
    /\ quota = [c \in Claim |-> [s \in Surface |-> NotReserved]]

EvidenceNext ==
    \/ \E seen \in Manual : SetQuotaObservation(seen)
    \/ \E printed \in Output : RefreshQuotaCodexbar(printed)
    \/ \E relief \in Relief : OverrideQuota(relief)

ReservingNext ==
    \/ \E i \in Instance, t \in Task, now \in Observed : RouteWithQuota(i, t, now)
    \/ \E i \in Instance, g \in 1..MaxGeneration, c \in Claim, now \in Observed :
            ClaimWithQuota(i, g, c, now)
    \/ \E i \in Instance, g \in 1..MaxGeneration, now \in Observed :
            HeartbeatWithQuota(i, g, now)
    \/ \E i \in Instance, now \in Observed : StopAndReleaseQuota(i, now)
    \/ \E now \in Observed : RecoverClaimsAndReleaseQuota(now)
    \/ EmergencyStopAndReleaseQuota
    \/ \E c \in Claim, r \in Run, now \in Observed : BeginRunWithQuota(c, r, now)
    \/ \E r \in Run, s \in Supervisor, now \in Observed : CheckpointWithQuota(r, s, now)
    \/ \E c \in Claim : AgentExitedAndReleaseQuota(c)
    \/ \E c \in Claim : ProcessEndedAndReleaseQuota(c)
    \/ \E c \in Claim : FinishRunAndReleaseQuota(c)
    \/ \E now \in Observed : RecoverLeasesAndReleaseQuota(now)

QuotaUnboundNext ==
    /\ \/ Tick
       \/ \E i \in Instance : RegisterSchedulerInstance(i)
       \/ \E i \in Instance, now \in Observed : AcquireSchedulerLeader(i, now)
       \/ \E i \in Instance, g \in 1..MaxGeneration, now \in Observed :
                HeartbeatSchedulerLeader(i, g, now)
       \/ \E t \in Task : SetTaskRoutePin(t)
       \/ \E paused \in BOOLEAN : SetPauseNewWork(paused)
       \/ ResumeOperations
       \/ \E c \in Claim : PrepareClaim(c)
       \/ \E c \in Claim : WorktreeFailed(c)
       \/ \E c \in Claim : ApiRunFailed(c)
       \/ \E c \in Claim : WorkerDies(c)
       \/ \E c \in Claim : CreateVerifierRun(c)
       \/ \E c \in Claim, passed \in BOOLEAN : FinishVerifierRun(c, passed)
       \/ \E c \in Claim : CloseVerification(c)
       \/ \E r \in Run, s \in Supervisor : EvaluateCheckpoint(r, s)
       \/ \E r \in Run : OperatorCheckpointRefused(r)
       \/ \E r \in Run : RequestRunCancellation(r)
       \/ GraphNext
    /\ UNCHANGED quotaVars

QuotaNext == EvidenceNext \/ ReservingNext \/ QuotaUnboundNext

QuotaSpec == QuotaInit /\ [][QuotaNext]_quotaAllVars

QuotaTypeOK ==
    /\ surface \in [Surface -> SurfaceRow]
    /\ overrides \in [Surface -> Seq(Override)]
    /\ quota \in [Claim -> [Surface -> ReservedRow]]

\* docs/phase-3-plan.md:31: whatever claims, checkpoints, expiries and refreshes
\* race, the claim that adds a reservation leaves the surface with its reserve:
\* all that is live, its own share included, fits in what is known to be left at
\* the time of the claim.
NeverOverReserved ==
    [][\A s \in Surface :
        (\E c \in Claim : quota[c][s].status = "unused" /\ quota'[c][s].status = "active")
            => \E now \in Observed :
                /\ Remaining(s, now) # None
                /\ ReservedOf(s, quota') + surface[s].reserve <= Remaining(s, now)
      ]_quotaAllVars

\* A live reservation belongs to a claim that is active or whose run still holds
\* its lease: every way a claim or a run can end gives the quota back with it.
ReservationsFollowHolders ==
    \A c \in Claim : (\E s \in Surface : IsLive(quota[c][s])) => Holding(c)

\* A claim, and after it an agent at work under its lease, has its share reserved
\* for as long as it may last: no other claim can expire the reservation, and no
\* renewal of the claim or of the lease leaves it behind.
WorkIsReserved ==
    LET Kept(c, status) == \E s \in SurfacesOf[claims[c].task] :
                                /\ quota[c][s].status = status
                                /\ quota[c][s].expires > clock
    IN  \A c \in Claim :
            (claims[c].status # "unused" /\ AdapterOf[claims[c].task] # "api") =>
                /\ c \in Active /\ claims[c].expires > clock => Kept(c, "active")
                /\ /\ worker[c] \in {"working", "terminating"}
                   /\ leases[claims[c].run].expires > clock
                   => Kept(c, "running")

\* docs/phase-3-plan.md:29: a surface that a refresh was expected to report and
\* did not is unknown afterwards, whatever was known of it, and no value stays
\* valid longer than one refresh grants.
NoInventedHeadroom ==
    [][\A printed \in Output : RefreshQuotaCodexbar(printed) =>
        \A p \in printed : \A l \in Lane \ Present(p) :
            surface'[Expected[l]].remaining # None =>
                \E k \in Present(p) : p.window[k].surface = Expected[l]]_quotaAllVars

=============================================================================
