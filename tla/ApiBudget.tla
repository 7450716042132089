------------------------------- MODULE ApiBudget -------------------------------
(***************************************************************************)
(* Paid requests of one project to one provider account: the revisions of  *)
(* its budget, the reservations made against them, the journal of dispatch *)
(* attempts and the settled spend.  Reservations are made by claims of API *)
(* tasks and by direct callers; the process that executes one sends a      *)
(* request between two transactions.                                       *)
(*                                                                         *)
(* A call of the scheduler or of a run that also changes a reservation is  *)
(* the conjunction of its action in ControlPlane and its part here.        *)
(***************************************************************************)
EXTENDS ControlPlane, Sequences, FiniteSetsExt

CONSTANTS
    Direct,         \* reservations that direct callers may make (a history bound)
    Caller,         \* processes that execute direct reservations
    Revision,       \* the successive revisions of the budget
    Wanted,         \* what callers ask for, per attempt
    Rate,           \* successive prices of a token, one per price revision
    DirectTtl,      \* validity of a direct reservation
    MaxUsage        \* bound on the tokens a provider reports

VARIABLES
    latest,         \* api_budgets: how many revisions there are
    price,          \* api_model_prices: the revision that is effective
    reservation,    \* api_budget_reservations
    journal,        \* api_dispatch_attempts of each reservation, in order
    spend,          \* api_spend
    sender          \* local state of the processes that execute reservations

apiVars == <<latest, price, reservation, journal, spend, sender>>
tables == <<latest, price, reservation, journal, spend>>
allVars == <<vars, apiVars>>

\* The reservation of a claim has the identity of the claim.
Order == Claim \cup Direct
Sender == Claim \cup Caller

Ceiling == Nat \cup {None}
ConfigRow == [enabled: BOOLEAN, from: Nat, until: Nat, micros: Ceiling,
              tokens: Ceiling, requests: Ceiling, output: Nat, retries: Nat,
              concurrent: Nat]
RequestRow == [attempts: Nat \ {0}, tokens: Nat \ {0}, micros: Nat]
ReservationRow ==
    [status: {"unused", "active", "dispatched", "settled", "released", "expired"},
     budget: Nat, attempts: Nat, tokens: Nat, micros: Nat, expires: Nat,
     run: BOOLEAN]
AttemptStatus == {"started", "retryable_failure", "terminal_failure",
                  "uncertain", "succeeded"}
SpendRow == [order: Order, tokens: Nat, micros: Nat]
SenderRow == [at: {"idle", "prepared", "sending", "ok", "error"},
              order: Order \cup {None}, now: Nat, price: Nat, attempt: Nat]

NoReservation == [status |-> "unused", budget |-> 0, attempts |-> 0, tokens |-> 0,
                  micros |-> 0, expires |-> 0, run |-> FALSE]
NoSender == [at |-> "idle", order |-> None, now |-> 0, price |-> 0, attempt |-> 0]

ASSUME ApiAssumption ==
    /\ None \notin Direct \cup Caller
    /\ Claim \cap (Direct \cup Caller) = {}
    /\ IsFiniteSet(Direct)
    /\ Revision \in Seq(ConfigRow)
    /\ Wanted \subseteq RequestRow
    /\ Rate \in Seq(Nat \ {0}) /\ Rate # <<>>
    /\ {DirectTtl, MaxUsage} \subseteq Nat

-----------------------------------------------------------------------------
(* The sums that an admission compares with the limits of revision b.        *)

Against(b, table) == {o \in Order : table[o].status # "unused" /\ table[o].budget = b}
Live(b, table) ==
    {o \in Against(b, table) : table[o].status \in {"active", "dispatched"}}
SettledFor(b) == {s \in spend : reservation[s.order].budget = b}

\* Spend and reservations count micros and tokens; every started attempt counts
\* as a request, and so does a settlement without attempts.
SettledMicros(b) == SumFunction([s \in SettledFor(b) |-> s.micros])
SettledTokens(b) == SumFunction([s \in SettledFor(b) |-> s.tokens])
SpentRequests(b) ==
    SumFunction([o \in Against(b, reservation) |-> Len(journal[o])])
        + Cardinality({s \in SettledFor(b) : journal[s.order] = <<>>})

ReservedMicros(live, table) == SumFunction([o \in live |-> table[o].micros])
ReservedTokens(live, table) ==
    SumFunction([o \in live |-> table[o].attempts * table[o].tokens])
ReservedRequests(live, table) ==
    SumFunction([o \in live |-> table[o].attempts - Len(journal[o])])

Within(total, ceiling) == ceiling # None => total <= ceiling

\* The latest revision is enabled and its period has begun and not ended.
Open(now) ==
    /\ latest # 0
    /\ Revision[latest].enabled
    /\ Revision[latest].from <= now
    /\ now < Revision[latest].until

\* Fault: a recovery also frees what was already dispatched.
EndedEvenIfSent(table, gone, status) ==
    [o \in Order |-> IF o \in gone /\ table[o].status \in {"active", "dispatched"}
                     THEN [table[o] EXCEPT !.status = status] ELSE table[o]]

\* The table after the undispatched reservations among "gone" ended.
EndedIn(table, gone, status) ==
    [o \in Order |-> IF o \in gone /\ table[o].status = "active"
                     THEN [table[o] EXCEPT !.status = status] ELSE table[o]]
Ending(gone, status) == EndedIn(reservation, gone, status)

Overdue(now) ==
    {o \in Order : reservation[o].status = "active" /\ reservation[o].expires <= now}

\* Fault: what is compared with the ceilings is one attempt, not all.
AdmissibleOnce(q, b, table) ==
    LET live == Live(b, table) IN
    /\ q.attempts <= Revision[b].retries + 1
    /\ q.tokens <= Revision[b].output
    /\ Cardinality(live) < Revision[b].concurrent
    /\ (Revision[b].micros = None) <=> (q.micros = 0)
    /\ Within(SettledMicros(b) + ReservedMicros(live, table) + q.micros,
              Revision[b].micros)
    /\ Within(SettledTokens(b) + ReservedTokens(live, table) + q.tokens,
              Revision[b].tokens)
    /\ Within(SpentRequests(b) + ReservedRequests(live, table) + 1,
              Revision[b].requests)

\* Whether request q fits revision b, after the overdue reservations expired.
Admissible(q, b, table) ==
    LET live == Live(b, table) IN
    /\ q.attempts <= Revision[b].retries + 1
    /\ q.tokens <= Revision[b].output
    /\ Cardinality(live) < Revision[b].concurrent
    /\ (Revision[b].micros = None) <=> (q.micros = 0)
    /\ Within(SettledMicros(b) + ReservedMicros(live, table)
                + q.attempts * q.micros, Revision[b].micros)
    /\ Within(SettledTokens(b) + ReservedTokens(live, table)
                + q.attempts * q.tokens, Revision[b].tokens)
    /\ Within(SpentRequests(b) + ReservedRequests(live, table)
                + q.attempts, Revision[b].requests)

\* Reserve the worst case of every attempt against the latest revision.
Reserve(o, q, table, now, expiry) ==
    /\ reservation[o].status = "unused"
    /\ Open(now)
    /\ Admissible(q, latest, table)
    /\ reservation' = [table EXCEPT ![o] =
            [status |-> "active", budget |-> latest, attempts |-> q.attempts,
             tokens |-> q.tokens, micros |-> q.attempts * q.micros,
             expires |-> expiry, run |-> FALSE]]

-----------------------------------------------------------------------------
(* Configuration and direct calls. *)

\* A revision supersedes the one before; what was reserved against that one
\* stays there.
ConfigureApiBudget ==
    /\ latest < Len(Revision)
    /\ latest' = latest + 1
    /\ UNCHANGED <<vars, price, reservation, journal, spend, sender>>

\* A price that takes effect before the executions in progress began, as its
\* operator may choose; others do not change what a settlement looks up.
ConfigureApiModelPrice ==
    /\ price < Len(Rate)
    /\ price' = price + 1
    /\ UNCHANGED <<vars, latest, reservation, journal, spend, sender>>

ReserveApiBudget(o, q, now) ==
    /\ o \in Direct
    /\ WithinHorizon(now + DirectTtl)
    /\ Reserve(o, q, Ending(Overdue(now), "expired"), now, now + DirectTtl)
    /\ UNCHANGED <<vars, latest, price, journal, spend, sender>>

RecoverExpiredApiReservations(now) ==
    /\ Overdue(now) # {}
    /\ reservation' = Ending(Overdue(now), "expired")
    /\ UNCHANGED <<vars, latest, price, journal, spend, sender>>

\* A reservation that a claim made is not released by hand.
ReleaseApiReservation(o) ==
    /\ o \in Direct
    /\ reservation[o].status = "active"
    /\ reservation' = Ending({o}, "released")
    /\ UNCHANGED <<vars, latest, price, journal, spend, sender>>

\* A claimed reservation is dispatched only by the run it was handed to.
Handed(o) == o \in Claim => reservation[o].run

ClaimApiDispatch(o, now) ==
    /\ reservation[o].status = "active"
    /\ reservation[o].expires > now
    /\ Handed(o)
    /\ reservation' = [reservation EXCEPT ![o].status = "dispatched"]
    /\ UNCHANGED <<vars, latest, price, journal, spend, sender>>

-----------------------------------------------------------------------------
(* Executing a reservation: a check of the latest budget outside any         *)
(* transaction, then for each attempt one transaction that begins it, the    *)
(* request, and one transaction that records the outcome.  The timestamp of  *)
(* the whole execution is the one its caller began with.                     *)

LastAttempt(o) == journal[o][Len(journal[o])]
Retryable(o) == journal[o] # <<>> /\ LastAttempt(o) = "retryable_failure"

\* An unfinished execution may be taken up again after a retryable failure.
Resumable(o) ==
    /\ reservation[o].status = "dispatched"
    /\ Retryable(o)
    /\ Len(journal[o]) < reservation[o].attempts

Preparable(o, now) ==
    /\ reservation[o].status = "active" \/ Resumable(o)
    /\ reservation[o].expires > now
    /\ Handed(o)
    /\ reservation[o].budget = latest
    /\ Open(now)

\* A worker executes the reservation of its claim with the time of its start,
\* a direct caller any direct reservation.
MayExecute(s, o, now) ==
    IF s \in Claim
    THEN s = o /\ worker[s] = "working" /\ AdapterOf[claims[s].task] = "api"
         /\ now = sender[s].now
    ELSE o \in Direct /\ now \in Observed

PrepareReservedApiRequest(s, o, now) ==
    /\ sender[s].at = "idle"
    /\ MayExecute(s, o, now)
    /\ Preparable(o, now)
    /\ sender' = [sender EXCEPT ![s] = [at |-> "prepared", order |-> o,
                        now |-> now, price |-> price, attempt |-> 0]]
    /\ UNCHANGED <<vars, tables>>

\* Fault: the outcome of the attempt before is not consulted.
MayBeginAnyway(o, now) ==
    /\ reservation[o].expires > now
    /\ \/ reservation[o].status = "active" /\ Handed(o)
       \/ reservation[o].status = "dispatched"
    /\ Len(journal[o]) + 1 <= reservation[o].attempts

\* One more attempt: the first claims the dispatch, the others follow a
\* retryable failure, and there are no more than were reserved.
MayBegin(o, now) ==
    /\ reservation[o].expires > now
    /\ \/ reservation[o].status = "active" /\ Handed(o)
       \/ reservation[o].status = "dispatched"
    /\ journal[o] # <<>> => Retryable(o)
    /\ Len(journal[o]) + 1 <= reservation[o].attempts

BeginApiDispatchAttempt(s) ==
    LET o == sender[s].order IN
    /\ sender[s].at = "prepared"
    /\ MayBegin(o, sender[s].now)
    /\ reservation' = [reservation EXCEPT ![o].status = "dispatched"]
    /\ journal' = [journal EXCEPT ![o] = Append(@, "started")]
    /\ sender' = [sender EXCEPT ![s].at = "sending",
                                ![s].attempt = Len(journal[o]) + 1]
    /\ UNCHANGED <<vars, latest, price, spend>>

\* An execution that ends leaves a direct caller free, and its worker to close
\* the run.
Closed(s, at) ==
    sender' = [sender EXCEPT ![s] = IF s \in Claim THEN [@ EXCEPT !.at = at]
                                                   ELSE NoSender]

BeginRefused(s) ==
    /\ sender[s].at = "prepared"
    /\ ~MayBegin(sender[s].order, sender[s].now)
    /\ Closed(s, "error")
    /\ UNCHANGED <<vars, tables>>

\* The attempt of s still awaits its outcome, and takes it.
Concludes(s, outcome) ==
    LET o == sender[s].order IN
    /\ sender[s].at = "sending"
    /\ journal[o][sender[s].attempt] = "started"
    /\ journal' = [journal EXCEPT ![o][sender[s].attempt] = outcome]

\* The transport failed, or the answer is not authoritative.
OutcomeUncertain(s) ==
    /\ Concludes(s, "uncertain")
    /\ Closed(s, "error")
    /\ UNCHANGED <<vars, latest, price, reservation, spend>>

\* The provider answered with a failure, retryable or not.
ProviderFails(s, retryable) ==
    LET again == retryable
                 /\ sender[s].attempt < reservation[sender[s].order].attempts IN
    /\ Concludes(s, IF again THEN "retryable_failure" ELSE "terminal_failure")
    /\ IF again THEN sender' = [sender EXCEPT ![s].at = "prepared"]
                ELSE Closed(s, "error")
    /\ UNCHANGED <<vars, latest, price, reservation, spend>>

CostOf(o, tokens, rate) ==
    IF Revision[reservation[o].budget].micros = None THEN 0 ELSE tokens * rate

\* What a settlement of this usage demands.  Its evidence is the price read
\* when the execution was prepared, which must still be the effective one.
Settleable(o, tokens, evidence) ==
    /\ reservation[o].status = "dispatched"
    /\ tokens <= reservation[o].tokens
    /\ CostOf(o, tokens, Rate[evidence]) <= reservation[o].micros
    /\ Revision[reservation[o].budget].micros # None => evidence = price

Settle(o, tokens, evidence) ==
    /\ Settleable(o, tokens, evidence)
    /\ reservation' = [reservation EXCEPT ![o].status = "settled"]
    /\ spend' = spend \cup {[order |-> o, tokens |-> tokens,
                             micros |-> CostOf(o, tokens, Rate[evidence])]}

SettleApiDispatchAttempt(s, tokens) ==
    /\ Concludes(s, "succeeded")
    /\ Settle(sender[s].order, tokens, sender[s].price)
    /\ Closed(s, "ok")
    /\ UNCHANGED <<vars, latest, price>>

\* The provider was paid but the settlement is refused: nothing is recorded.
SettlementRefused(s, tokens) ==
    /\ sender[s].at = "sending"
    /\ ~Settleable(sender[s].order, tokens, sender[s].price)
    /\ Closed(s, "error")
    /\ UNCHANGED <<vars, tables>>

\* A caller that dispatched by hand settles by hand.
SettleApiReservation(o, tokens) ==
    /\ journal[o] = <<>>
    /\ Settle(o, tokens, price)
    /\ UNCHANGED <<vars, latest, price, journal, sender>>

\* A direct caller is killed between two steps.
CallerDies(s) ==
    /\ s \in Caller
    /\ sender[s].at # "idle"
    /\ sender' = [sender EXCEPT ![s] = NoSender]
    /\ UNCHANGED <<vars, tables>>

-----------------------------------------------------------------------------
(* Calls of the scheduler and of runs, with what they do to reservations.    *)

untouched == <<latest, price, journal, spend>>

\* The routing of an API task looks at the room that is left; the claim looks
\* again.
RoomLeft(now) ==
    LET live == Live(latest, reservation) \ Overdue(now) IN
    /\ Open(now)
    /\ Cardinality(live) < Revision[latest].concurrent
    /\ \A use \in {<<SettledMicros(latest) + ReservedMicros(live, reservation),
                     Revision[latest].micros>>,
                   <<SettledTokens(latest) + ReservedTokens(live, reservation),
                     Revision[latest].tokens>>,
                   <<SpentRequests(latest) + ReservedRequests(live, reservation),
                     Revision[latest].requests>>} :
            use[2] # None => use[1] < use[2]

RouteApiTask(i, t, now) ==
    /\ RouteTask(i, t)
    /\ AdapterOf[t] = "api" => RoomLeft(now)
    /\ UNCHANGED apiVars

\* The claim of an API task and its reservation commit together or not at all.
ClaimWithReservation(i, g, c, now, q) ==
    LET t == planned[i].task
        freed == Ending(ExpiredAt(now), "released") IN
    /\ ClaimTask(i, g, c, now)
    /\ IF AdapterOf[t] # "api" THEN reservation' = freed
       ELSE Reserve(c, q, EndedIn(freed, Overdue(now), "expired"), now,
                    now + ClaimTtl)
    /\ UNCHANGED <<untouched, sender>>

HeartbeatReservations(i, g, now) ==
    LET freed == Ending(ExpiredAt(now), "released") IN
    /\ HeartbeatSchedulerClaims(i, g, now)
    /\ reservation' = [o \in Order |->
            IF /\ o \in Claim /\ freed[o].status = "active"
               /\ claims'[o].status = "active"
               /\ claims[o].owner = i /\ claims[o].generation = g
            THEN [freed[o] EXCEPT !.expires = now + ClaimTtl] ELSE freed[o]]
    /\ UNCHANGED <<untouched, sender>>

StopAndRelease(i, now) ==
    /\ StopSchedulerInstance(i, now)
    /\ reservation' = Ending({c \in Active : claims[c].owner = i}, "released")
    /\ UNCHANGED <<untouched, sender>>

RecoverClaimsAndRelease(now) ==
    /\ RecoverSchedulerClaims(now)
    /\ reservation' = Ending(ExpiredAt(now), "released")
    /\ UNCHANGED <<untouched, sender>>

EmergencyStopAndRelease ==
    /\ EmergencyStop
    /\ reservation' = Ending(Active, "released")
    /\ UNCHANGED <<untouched, sender>>

\* The reservation follows its claim to the run and takes the expiry of its
\* lease; what the worker sends, it sends with the time of this start.
BeginRunWithReservation(c, r, now) ==
    /\ BeginClaimedRun(c, r, now)
    /\ reservation' = IF reservation[c].status # "active" THEN reservation
                      ELSE [reservation EXCEPT ![c].run = TRUE,
                                               ![c].expires = now + LeaseTtl]
    /\ sender' = [sender EXCEPT ![c].now = now]
    /\ UNCHANGED untouched

\* A worker goes on to verification only with a settled answer.
ApiAgentExited(c) ==
    /\ AgentExited(c)
    /\ AdapterOf[claims[c].task] = "api" => sender[c].at = "ok"
    /\ UNCHANGED apiVars

\* The execution was refused or failed, or its answer was of no use.
ExecutionFailed(c) ==
    \/ sender[c].at = "idle" /\ ~Preparable(c, sender[c].now)
    \/ sender[c].at \in {"ok", "error"}

ApiExecutionFailed(c) ==
    /\ ApiRunFailed(c)
    /\ ExecutionFailed(c)
    /\ UNCHANGED apiVars

FinishRunAndRelease(c) ==
    /\ FinishRun(c)
    /\ reservation' = Ending(ClaimsOf(claims[c].run), "released")
    /\ UNCHANGED <<untouched, sender>>

\* Fault: recovery forgets the reservations of the runs it orphans.
RecoverLeasesOnly(now) ==
    /\ RecoverExpiredLeases(now)
    /\ UNCHANGED apiVars

RecoverLeasesAndRelease(now) ==
    /\ RecoverExpiredLeases(now)
    /\ reservation' = Ending(UNION {ClaimsOf(r) : r \in ExpiredLeases(now)}, "released")
    /\ UNCHANGED <<untouched, sender>>

\* The process that executes a reservation dies with its worker.
WorkerAndSenderDie(c) ==
    /\ WorkerDies(c)
    /\ sender' = [sender EXCEPT ![c] = NoSender]
    /\ UNCHANGED tables

-----------------------------------------------------------------------------
(* The control plane with paid requests. *)

ApiInit ==
    /\ Init
    /\ latest = 0
    /\ price = 1
    /\ reservation = [o \in Order |-> NoReservation]
    /\ journal = [o \in Order |-> <<>>]
    /\ spend = {}
    /\ sender = [s \in Sender |-> NoSender]

BudgetNext ==
    \/ ConfigureApiBudget
    \/ ConfigureApiModelPrice
    \/ \E o \in Direct, q \in Wanted, now \in Observed : ReserveApiBudget(o, q, now)
    \/ \E now \in Observed : RecoverExpiredApiReservations(now)
    \/ \E o \in Direct : ReleaseApiReservation(o)
    \/ \E o \in Order, now \in Observed : ClaimApiDispatch(o, now)
    \/ \E o \in Order, tokens \in 1..MaxUsage : SettleApiReservation(o, tokens)

ExecutionNext ==
    \/ \E s \in Sender, o \in Order : \E now \in Observed \cup {sender[s].now} :
            PrepareReservedApiRequest(s, o, now)
    \/ \E s \in Sender : BeginApiDispatchAttempt(s)
    \/ \E s \in Sender : BeginRefused(s)
    \/ \E s \in Sender : OutcomeUncertain(s)
    \/ \E s \in Sender, retryable \in BOOLEAN : ProviderFails(s, retryable)
    \/ \E s \in Sender, tokens \in 1..MaxUsage : SettleApiDispatchAttempt(s, tokens)
    \/ \E s \in Sender, tokens \in 1..MaxUsage : SettlementRefused(s, tokens)
    \/ \E s \in Caller : CallerDies(s)

\* The calls of the control plane that change reservations.
BoundNext ==
    \/ \E i \in Instance, t \in Task, now \in Observed : RouteApiTask(i, t, now)
    \/ \E i \in Instance, g \in 1..MaxGeneration, c \in Claim, now \in Observed,
          q \in Wanted : ClaimWithReservation(i, g, c, now, q)
    \/ \E i \in Instance, g \in 1..MaxGeneration, now \in Observed :
            HeartbeatReservations(i, g, now)
    \/ \E i \in Instance, now \in Observed : StopAndRelease(i, now)
    \/ \E now \in Observed : RecoverClaimsAndRelease(now)
    \/ EmergencyStopAndRelease
    \/ \E c \in Claim, r \in Run, now \in Observed : BeginRunWithReservation(c, r, now)
    \/ \E c \in Claim : ApiAgentExited(c)
    \/ \E c \in Claim : ApiExecutionFailed(c)
    \/ \E c \in Claim : FinishRunAndRelease(c)
    \/ \E now \in Observed : RecoverLeasesAndRelease(now)
    \/ \E c \in Claim : WorkerAndSenderDie(c)

\* The calls that do not: the outcome of a process closes its run, but the claim
\* of such a run never reserved anything.
UnboundNext ==
    /\ \/ Tick
       \/ \E i \in Instance : RegisterSchedulerInstance(i)
       \/ \E i \in Instance, now \in Observed : AcquireSchedulerLeader(i, now)
       \/ \E i \in Instance, g \in 1..MaxGeneration, now \in Observed :
                HeartbeatSchedulerLeader(i, g, now)
       \/ \E t \in Task : SetTaskRoutePin(t)
       \/ \E paused \in BOOLEAN : SetPauseNewWork(paused)
       \/ ResumeOperations
       \/ \E c \in Claim : PrepareClaim(c)
       \/ \E c \in Claim : WorktreeFailed(c)
       \/ \E c \in Claim : RecordProcessOutcome(c)
       \/ \E c \in Claim : CreateVerifierRun(c)
       \/ \E c \in Claim, passed \in BOOLEAN : FinishVerifierRun(c, passed)
       \/ \E c \in Claim : CloseVerification(c)
       \/ \E r \in Run, s \in Supervisor : EvaluateCheckpoint(r, s)
       \/ \E r \in Run, s \in Supervisor, now \in Observed : ApplyRunCheckpoint(r, s, now)
       \/ \E r \in Run : OperatorCheckpointRefused(r)
       \/ \E r \in Run : RequestRunCancellation(r)
       \/ GraphNext
    /\ UNCHANGED apiVars

ApiNext == BudgetNext \/ ExecutionNext \/ BoundNext \/ UnboundNext

ApiSpec == ApiInit /\ [][ApiNext]_allVars

ApiTypeOK ==
    /\ latest \in 0..Len(Revision)
    /\ price \in 1..Len(Rate)
    /\ reservation \in [Order -> ReservationRow]
    /\ journal \in [Order -> Seq(AttemptStatus)]
    /\ spend \subseteq SpendRow
    /\ sender \in [Sender -> SenderRow]

\* Whatever claims, direct callers, retries, expiries and settlements race, what
\* a revision of the budget has spent and still reserves stays within each of
\* its ceilings, and so does the number of requests that may be in flight.
NeverOvercommitted ==
    \A b \in 1..latest :
        LET live == Live(b, reservation) IN
        /\ Within(SettledMicros(b) + ReservedMicros(live, reservation),
                  Revision[b].micros)
        /\ Within(SettledTokens(b) + ReservedTokens(live, reservation),
                  Revision[b].tokens)
        /\ Within(SpentRequests(b) + ReservedRequests(live, reservation),
                  Revision[b].requests)
        /\ Cardinality(live) <= Revision[b].concurrent

\* No attempt is replayed unless its failure was recorded as retryable: every
\* attempt but the last failed retryably, there are no more than were reserved,
\* and an attempt succeeded exactly when its reservation was settled with it.
JournalIsLinear ==
    \A o \in Order :
        /\ Len(journal[o]) <= reservation[o].attempts
        /\ \A n \in 1..(Len(journal[o]) - 1) : journal[o][n] = "retryable_failure"
        /\ journal[o] # <<>> =>
            /\ reservation[o].status \in {"dispatched", "settled"}
            /\ LastAttempt(o) = "succeeded" <=> reservation[o].status = "settled"

\* A request is in the hands of at most one process, which holds the attempt
\* that the journal shows last and open.
OneRequestInFlight ==
    \A s \in Sender : sender[s].at = "sending" =>
        LET o == sender[s].order IN
        /\ sender[s].attempt = Len(journal[o])
        /\ LastAttempt(o) = "started"
        /\ \A u \in Sender \ {s} :
                ~(sender[u].at = "sending" /\ sender[u].order = o)

\* An undispatched reservation of a claim never outlives what it was made for:
\* the claim is active, or its run still holds its lease.
HeldReservationsHaveHolders ==
    \A c \in Claim : reservation[c].status = "active" => Holding(c)

\* Once a request may have been sent, what was reserved for it is given back
\* only by its settlement, and a settlement is final.
DispatchedIsRetained ==
    [][\A o \in Order :
        /\ reservation[o].status = "dispatched" =>
                reservation'[o].status \in {"dispatched", "settled"}
        /\ reservation[o].status \in {"settled", "released", "expired"} =>
                reservation'[o] = reservation[o]]_allVars

\* With paid requests the control plane still does only what it may do without.
ImplementsControlPlane == Spec

=============================================================================
