---------------------------- MODULE ApiBudgetProofs ----------------------------
(***************************************************************************)
(* Theorems about paid requests, for every number of claims, callers and   *)
(* reservations, every sequence of budgets and prices and every bound.     *)
(***************************************************************************)
EXTENDS ApiBudget, ControlPlaneProofs, SequenceTheorems

-----------------------------------------------------------------------------
(* Paid work is the work of the control plane, with money. *)

LEMMA StepIsControlled ==
    ASSUME [ApiNext]_allVars
    PROVE  [Next]_vars
<1>1. CASE UNCHANGED allVars
  BY <1>1 DEF allVars, vars
<1>2. CASE BudgetNext
  BY <1>2 DEF BudgetNext, ConfigureApiBudget, ConfigureApiModelPrice, ReserveApiBudget,
     RecoverExpiredApiReservations, ReleaseApiReservation, ClaimApiDispatch,
     SettleApiReservation
<1>3. CASE ExecutionNext
  BY <1>3 DEF ExecutionNext, PrepareReservedApiRequest, BeginApiDispatchAttempt,
     BeginRefused, OutcomeUncertain, ProviderFails, SettleApiDispatchAttempt,
     SettlementRefused, CallerDies
<1>4. CASE BoundNext
  <2>1. CASE \/ \E i \in Instance, t \in Task, now \in Observed : RouteApiTask(i, t, now)
             \/ \E i \in Instance, g \in 1..MaxGeneration, c \in Claim, now \in Observed,
                   q \in Wanted : ClaimWithReservation(i, g, c, now, q)
             \/ \E i \in Instance, g \in 1..MaxGeneration, now \in Observed :
                     HeartbeatReservations(i, g, now)
             \/ \E i \in Instance, now \in Observed : StopAndRelease(i, now)
             \/ \E now \in Observed : RecoverClaimsAndRelease(now)
             \/ EmergencyStopAndRelease
    <3>1. SchedulerNext
      BY <2>1 DEF SchedulerNext, RouteApiTask, ClaimWithReservation, HeartbeatReservations,
         StopAndRelease, RecoverClaimsAndRelease, EmergencyStopAndRelease
    <3> QED
      BY <3>1 DEF Next
  <2>2. CASE \/ \E c \in Claim, r \in Run, now \in Observed : BeginRunWithReservation(c, r, now)
             \/ \E c \in Claim : ApiAgentExited(c)
             \/ \E c \in Claim : ApiExecutionFailed(c)
             \/ \E c \in Claim : FinishRunAndRelease(c)
             \/ \E now \in Observed : RecoverLeasesAndRelease(now)
             \/ \E c \in Claim : WorkerAndSenderDie(c)
    <3>1. RunNext
      BY <2>2 DEF RunNext, BeginRunWithReservation, ApiAgentExited, ApiExecutionFailed,
         FinishRunAndRelease, RecoverLeasesAndRelease, WorkerAndSenderDie
    <3> QED
      BY <3>1 DEF Next
  <2> QED
    BY <1>4, <2>1, <2>2 DEF BoundNext
<1>5. CASE UnboundNext
  BY <1>5 DEF UnboundNext, Next, SchedulerNext, RunNext
<1> QED
  BY <1>1, <1>2, <1>3, <1>4, <1>5 DEF ApiNext

\* Whatever is reserved, sent, paid or lost, schedulers, workers, operators and
\* recovery do what they may do without money, so every theorem about the
\* control plane holds of it (reserve_api_budget_tx and its callers).
THEOREM PaidWorkIsControlled == ApiSpec => ImplementsControlPlane
<1>1. ApiInit => Init
  BY DEF ApiInit
<1>2. [ApiNext]_allVars => [Next]_vars
  BY StepIsControlled
<1> QED
  BY <1>1, <1>2, PTL DEF ApiSpec, Spec, ImplementsControlPlane

-----------------------------------------------------------------------------
(* Types. *)

LEMMA ObservedIsNat ==
    ASSUME TypeOK, NEW now \in Observed
    PROVE  now \in Nat
BY DEF TypeOK, Observed

LEMMA ProductIsNat ==
    ASSUME NEW m \in Nat, NEW n \in Nat
    PROVE  m * n \in Nat
OBVIOUS

LEMMA EndedInType ==
    ASSUME NEW table \in [Order -> ReservationRow], NEW gone,
           NEW status \in {"released", "expired"}
    PROVE  EndedIn(table, gone, status) \in [Order -> ReservationRow]
<1>1. ASSUME NEW o \in Order
      PROVE  [table[o] EXCEPT !.status = status] \in ReservationRow
  <2>1. table[o] \in ReservationRow
    OBVIOUS
  <2> QED
    BY <2>1 DEF ReservationRow
<1> QED
  BY <1>1 DEF EndedIn

LEMMA EndingType ==
    ASSUME ApiTypeOK, NEW gone, NEW status \in {"released", "expired"}
    PROVE  Ending(gone, status) \in [Order -> ReservationRow]
BY EndedInType DEF ApiTypeOK, Ending

LEMMA ReserveType ==
    ASSUME ApiTypeOK, NEW o \in Order, NEW q \in Wanted, NEW now \in Nat,
           NEW expiry \in Nat, NEW table \in [Order -> ReservationRow],
           Reserve(o, q, table, now, expiry)
    PROVE  reservation' \in [Order -> ReservationRow]
<1>1. q \in RequestRow
  BY ApiAssumption
<1>2. q.attempts \in Nat /\ q.tokens \in Nat /\ q.micros \in Nat
  BY <1>1 DEF RequestRow
<1>3. q.attempts * q.micros \in Nat
  BY <1>2, ProductIsNat
<1>4. latest \in Nat
  BY ApiAssumption DEF ApiTypeOK
<1> DEFINE row == [status |-> "active", budget |-> latest, attempts |-> q.attempts,
                   tokens |-> q.tokens, micros |-> q.attempts * q.micros,
                   expires |-> expiry, run |-> FALSE]
<1>5. row \in ReservationRow
  BY <1>2, <1>3, <1>4 DEF ReservationRow
<1>6. reservation' = [table EXCEPT ![o] = row]
  BY DEF Reserve
<1> QED
  BY <1>5, <1>6

LEMMA InitApiTypes == ApiInit => ApiTypeOK
<1> SUFFICES ASSUME ApiInit PROVE ApiTypeOK
  OBVIOUS
<1>1. Len(Revision) \in Nat /\ Len(Rate) \in Nat /\ 1 <= Len(Rate)
  BY ApiAssumption
<1>2. NoReservation \in ReservationRow
  BY DEF NoReservation, ReservationRow
<1>3. NoSender \in SenderRow
  BY DEF NoSender, SenderRow
<1>4. <<>> \in Seq(AttemptStatus)
  OBVIOUS
<1> QED
  BY <1>1, <1>2, <1>3, <1>4 DEF ApiInit, ApiTypeOK

\* Who is about to send or sends holds a reservation, and who sends has begun.
SendersBound ==
    \A s \in Sender :
        /\ sender[s].at \in {"prepared", "sending"} => sender[s].order \in Order
        /\ sender[s].at = "sending" => journal[sender[s].order] # <<>>

LEMMA SettleTypes ==
    ASSUME ApiTypeOK, NEW o \in Order, NEW tokens \in 1..MaxUsage, NEW evidence \in Nat,
           Settle(o, tokens, evidence)
    PROVE  reservation' \in [Order -> ReservationRow] /\ spend' \subseteq SpendRow
<1>1. CostOf(o, tokens, Rate[evidence]) \in Nat
  <2>1. CASE Revision[reservation[o].budget].micros = None
    BY <2>1 DEF CostOf
  <2>2. CASE Revision[reservation[o].budget].micros # None
    <3>1. evidence \in 1..Len(Rate)
      BY <2>2 DEF Settle, Settleable, ApiTypeOK
    <3>2. Rate[evidence] \in Nat /\ tokens \in Nat
      BY <3>1, ApiAssumption
    <3>3. tokens * Rate[evidence] \in Nat
      BY <3>2, ProductIsNat
    <3> QED
      BY <2>2, <3>3 DEF CostOf
  <2> QED
    BY <2>1, <2>2
<1>2. [order |-> o, tokens |-> tokens, micros |-> CostOf(o, tokens, Rate[evidence])]
            \in SpendRow
  BY <1>1, ApiAssumption DEF SpendRow
<1>3. reservation' \in [Order -> ReservationRow]
  BY DEF Settle, ApiTypeOK, ReservationRow
<1> QED
  BY <1>2, <1>3 DEF Settle, ApiTypeOK

LEMMA ClosedType ==
    ASSUME ApiTypeOK, NEW s \in Sender, NEW at \in {"ok", "error"}, Closed(s, at)
    PROVE  sender' \in [Sender -> SenderRow]
<1>1. sender[s] \in SenderRow
  BY DEF ApiTypeOK
<1>2. NoSender \in SenderRow /\ [sender[s] EXCEPT !.at = at] \in SenderRow
  BY <1>1 DEF NoSender, SenderRow
<1> QED
  BY <1>2 DEF Closed, ApiTypeOK

LEMMA ConcludesType ==
    ASSUME ApiTypeOK, SendersBound, NEW s \in Sender, NEW outcome \in AttemptStatus,
           Concludes(s, outcome)
    PROVE  journal' \in [Order -> Seq(AttemptStatus)]
<1> DEFINE o == sender[s].order
           n == sender[s].attempt
<1>1. o \in Order
  BY DEF Concludes, SendersBound
<1>2. journal[o] \in Seq(AttemptStatus)
  BY <1>1 DEF ApiTypeOK
<1>3. [journal[o] EXCEPT ![n] = outcome] \in Seq(AttemptStatus)
  <2>1. CASE n \in 1..Len(journal[o])
    BY <1>2, <2>1, ExceptSeq
  <2>2. CASE n \notin 1..Len(journal[o])
    <3>1. [journal[o] EXCEPT ![n] = outcome] = journal[o]
      BY <1>2, <2>2
    <3> QED
      BY <1>2, <3>1
  <2> QED
    BY <2>1, <2>2
<1>4. journal' = [journal EXCEPT ![o] = [journal[o] EXCEPT ![n] = outcome]]
  BY DEF Concludes
<1> QED
  BY <1>1, <1>3, <1>4 DEF ApiTypeOK

LEMMA BudgetTypes ==
    ASSUME TypeOK, ApiTypeOK, BudgetNext
    PROVE  ApiTypeOK'
<1>1. CASE ConfigureApiBudget
  <2>1. latest' \in 0..Len(Revision)
    BY <1>1, ApiAssumption DEF ConfigureApiBudget, ApiTypeOK
  <2> QED
    BY <1>1, <2>1 DEF ConfigureApiBudget, ApiTypeOK
<1>2. CASE ConfigureApiModelPrice
  <2>1. price' \in 1..Len(Rate)
    BY <1>2, ApiAssumption DEF ConfigureApiModelPrice, ApiTypeOK
  <2> QED
    BY <1>2, <2>1 DEF ConfigureApiModelPrice, ApiTypeOK
<1>3. ASSUME NEW o \in Direct, NEW q \in Wanted, NEW now \in Observed,
             ReserveApiBudget(o, q, now)
      PROVE  ApiTypeOK'
  <2>1. o \in Order /\ now \in Nat /\ now + DirectTtl \in Nat
    BY ObservedIsNat, ApiAssumption DEF Order
  <2>2. Reserve(o, q, Ending(Overdue(now), "expired"), now, now + DirectTtl)
    BY <1>3 DEF ReserveApiBudget
  <2>3. Ending(Overdue(now), "expired") \in [Order -> ReservationRow]
    BY EndingType
  <2>4. reservation' \in [Order -> ReservationRow]
    BY <2>1, <2>2, <2>3, ReserveType
  <2> QED
    BY <1>3, <2>4 DEF ReserveApiBudget, ApiTypeOK
<1>4. ASSUME NEW now \in Observed, RecoverExpiredApiReservations(now)
      PROVE  ApiTypeOK'
  BY <1>4, EndingType DEF RecoverExpiredApiReservations, ApiTypeOK
<1>5. ASSUME NEW o \in Direct, ReleaseApiReservation(o)
      PROVE  ApiTypeOK'
  BY <1>5, EndingType DEF ReleaseApiReservation, ApiTypeOK
<1>6. ASSUME NEW o \in Order, NEW now, ClaimApiDispatch(o, now)
      PROVE  ApiTypeOK'
  <2>1. reservation' \in [Order -> ReservationRow]
    BY <1>6 DEF ClaimApiDispatch, ApiTypeOK, ReservationRow
  <2> QED
    BY <1>6, <2>1 DEF ClaimApiDispatch, ApiTypeOK
<1>7. ASSUME NEW o \in Order, NEW tokens \in 1..MaxUsage, SettleApiReservation(o, tokens)
      PROVE  ApiTypeOK'
  <2>1. price \in 1..Len(Rate)
    BY DEF ApiTypeOK
  <2>2. Settle(o, tokens, price)
    BY <1>7 DEF SettleApiReservation
  <2> QED
    BY <1>7, <2>1, <2>2, SettleTypes DEF SettleApiReservation, ApiTypeOK
<1> QED
  BY <1>1, <1>2, <1>3, <1>4, <1>5, <1>6, <1>7 DEF BudgetNext

LEMMA ExecutionTypes ==
    ASSUME TypeOK, ApiTypeOK, SendersBound, ExecutionNext
    PROVE  ApiTypeOK'
<1>1. ASSUME NEW s \in Sender, NEW o \in Order, NEW now \in Observed \cup {sender[s].now},
             PrepareReservedApiRequest(s, o, now)
      PROVE  ApiTypeOK'
  <2>1. now \in Nat /\ price \in Nat
    BY ObservedIsNat, ApiAssumption DEF ApiTypeOK, SenderRow
  <2>2. [at |-> "prepared", order |-> o, now |-> now, price |-> price, attempt |-> 0]
            \in SenderRow
    BY <2>1 DEF SenderRow
  <2> QED
    BY <1>1, <2>2 DEF PrepareReservedApiRequest, ApiTypeOK, tables
<1>2. ASSUME NEW s \in Sender, BeginApiDispatchAttempt(s)
      PROVE  ApiTypeOK'
  <2> DEFINE o == sender[s].order
  <2>1. o \in Order
    BY <1>2 DEF BeginApiDispatchAttempt, SendersBound
  <2>2. journal[o] \in Seq(AttemptStatus)
    BY <2>1 DEF ApiTypeOK
  <2>3. Append(journal[o], "started") \in Seq(AttemptStatus) /\ Len(journal[o]) + 1 \in Nat
    BY <2>2 DEF AttemptStatus
  <2>4. journal' \in [Order -> Seq(AttemptStatus)]
    BY <1>2, <2>1, <2>3 DEF BeginApiDispatchAttempt, ApiTypeOK
  <2>5. reservation' \in [Order -> ReservationRow]
    BY <1>2, <2>1 DEF BeginApiDispatchAttempt, ApiTypeOK, ReservationRow
  <2>6. sender' \in [Sender -> SenderRow]
    BY <1>2, <2>3 DEF BeginApiDispatchAttempt, ApiTypeOK, SenderRow
  <2> QED
    BY <1>2, <2>4, <2>5, <2>6 DEF BeginApiDispatchAttempt, ApiTypeOK
<1>3. ASSUME NEW s \in Sender, BeginRefused(s)
      PROVE  ApiTypeOK'
  BY <1>3, ClosedType DEF BeginRefused, ApiTypeOK, tables
<1>4. ASSUME NEW s \in Sender, OutcomeUncertain(s)
      PROVE  ApiTypeOK'
  <2>1. journal' \in [Order -> Seq(AttemptStatus)]
    BY <1>4, ConcludesType DEF OutcomeUncertain, AttemptStatus
  <2> QED
    BY <1>4, <2>1, ClosedType DEF OutcomeUncertain, ApiTypeOK
<1>5. ASSUME NEW s \in Sender, NEW retryable \in BOOLEAN, ProviderFails(s, retryable)
      PROVE  ApiTypeOK'
  <2>1. journal' \in [Order -> Seq(AttemptStatus)]
    BY <1>5, ConcludesType DEF ProviderFails, AttemptStatus
  <2>2. sender' \in [Sender -> SenderRow]
    <3>1. CASE sender' = [sender EXCEPT ![s].at = "prepared"]
      BY <3>1 DEF ApiTypeOK, SenderRow
    <3>2. CASE Closed(s, "error")
      BY <3>2, ClosedType
    <3> QED
      BY <1>5, <3>1, <3>2 DEF ProviderFails
  <2> QED
    BY <1>5, <2>1, <2>2 DEF ProviderFails, ApiTypeOK
<1>6. ASSUME NEW s \in Sender, NEW tokens \in 1..MaxUsage, SettleApiDispatchAttempt(s, tokens)
      PROVE  ApiTypeOK'
  <2>1. sender[s].order \in Order /\ sender[s].price \in Nat
    BY <1>6 DEF SettleApiDispatchAttempt, Concludes, SendersBound, ApiTypeOK, SenderRow
  <2>2. Settle(sender[s].order, tokens, sender[s].price)
    BY <1>6 DEF SettleApiDispatchAttempt
  <2>3. journal' \in [Order -> Seq(AttemptStatus)]
    BY <1>6, ConcludesType DEF SettleApiDispatchAttempt, AttemptStatus
  <2>4. sender' \in [Sender -> SenderRow]
    BY <1>6, ClosedType DEF SettleApiDispatchAttempt
  <2> QED
    BY <1>6, <2>1, <2>2, <2>3, <2>4, SettleTypes DEF SettleApiDispatchAttempt, ApiTypeOK
<1>7. ASSUME NEW s \in Sender, NEW tokens \in 1..MaxUsage, SettlementRefused(s, tokens)
      PROVE  ApiTypeOK'
  BY <1>7, ClosedType DEF SettlementRefused, ApiTypeOK, tables
<1>8. ASSUME NEW s \in Caller, CallerDies(s)
      PROVE  ApiTypeOK'
  <2>1. NoSender \in SenderRow
    BY DEF NoSender, SenderRow
  <2> QED
    BY <1>8, <2>1 DEF CallerDies, ApiTypeOK, tables
<1> QED
  BY <1>1, <1>2, <1>3, <1>4, <1>5, <1>6, <1>7, <1>8 DEF ExecutionNext

LEMMA BoundTypes ==
    ASSUME TypeOK, ApiTypeOK, BoundNext
    PROVE  ApiTypeOK'
<1>1. ASSUME NEW i \in Instance, NEW t \in Task, NEW now, RouteApiTask(i, t, now)
      PROVE  ApiTypeOK'
  BY <1>1 DEF RouteApiTask, apiVars, ApiTypeOK
<1>2. ASSUME NEW i \in Instance, NEW g, NEW c \in Claim, NEW now \in Observed,
             NEW q \in Wanted, ClaimWithReservation(i, g, c, now, q)
      PROVE  ApiTypeOK'
  <2> DEFINE freed == Ending(ExpiredAt(now), "released")
             table == EndedIn(freed, Overdue(now), "expired")
  <2>1. freed \in [Order -> ReservationRow] /\ table \in [Order -> ReservationRow]
    BY EndingType, EndedInType
  <2>2. c \in Order /\ now \in Nat /\ now + ClaimTtl \in Nat
    BY ObservedIsNat, BoundAssumption DEF Order
  <2>3. CASE reservation' = freed
    BY <1>2, <2>1, <2>3 DEF ClaimWithReservation, untouched, ApiTypeOK
  <2>4. CASE Reserve(c, q, table, now, now + ClaimTtl)
    <3>1. reservation' \in [Order -> ReservationRow]
      BY <2>1, <2>2, <2>4, ReserveType
    <3> QED
      BY <1>2, <3>1 DEF ClaimWithReservation, untouched, ApiTypeOK
  <2> QED
    BY <1>2, <2>3, <2>4 DEF ClaimWithReservation
<1>3. ASSUME NEW i \in Instance, NEW g, NEW now \in Observed, HeartbeatReservations(i, g, now)
      PROVE  ApiTypeOK'
  <2> DEFINE freed == Ending(ExpiredAt(now), "released")
  <2>1. freed \in [Order -> ReservationRow] /\ now + ClaimTtl \in Nat
    BY EndingType, ObservedIsNat, BoundAssumption
  <2>2. ASSUME NEW o \in Order
        PROVE  [freed[o] EXCEPT !.expires = now + ClaimTtl] \in ReservationRow
    <3>1. freed[o] \in ReservationRow
      BY <2>1
    <3> QED
      BY <2>1, <3>1 DEF ReservationRow
  <2>3. reservation' \in [Order -> ReservationRow]
    BY <1>3, <2>1, <2>2 DEF HeartbeatReservations
  <2> QED
    BY <1>3, <2>3 DEF HeartbeatReservations, untouched, ApiTypeOK
<1>4. ASSUME NEW i \in Instance, NEW now, StopAndRelease(i, now)
      PROVE  ApiTypeOK'
  BY <1>4, EndingType DEF StopAndRelease, untouched, ApiTypeOK
<1>5. ASSUME NEW now, RecoverClaimsAndRelease(now)
      PROVE  ApiTypeOK'
  BY <1>5, EndingType DEF RecoverClaimsAndRelease, untouched, ApiTypeOK
<1>6. CASE EmergencyStopAndRelease
  BY <1>6, EndingType DEF EmergencyStopAndRelease, untouched, ApiTypeOK
<1>7. ASSUME NEW c \in Claim, NEW r, NEW now \in Observed, BeginRunWithReservation(c, r, now)
      PROVE  ApiTypeOK'
  <2>1. now \in Nat /\ now + LeaseTtl \in Nat
    BY ObservedIsNat, BoundAssumption
  <2>2. reservation' \in [Order -> ReservationRow]
    <3> DEFINE row == [reservation[c] EXCEPT !.run = TRUE, !.expires = now + LeaseTtl]
    <3>1. reservation[c] \in ReservationRow
      BY DEF ApiTypeOK, Order
    <3>2. row \in ReservationRow
      BY <2>1, <3>1 DEF ReservationRow
    <3>3. reservation' = reservation \/ reservation' = [reservation EXCEPT ![c] = row]
      BY <1>7 DEF BeginRunWithReservation
    <3> QED
      BY <3>2, <3>3 DEF ApiTypeOK
  <2>3. sender' \in [Sender -> SenderRow]
    BY <1>7, <2>1 DEF BeginRunWithReservation, ApiTypeOK, SenderRow
  <2> QED
    BY <1>7, <2>2, <2>3 DEF BeginRunWithReservation, untouched, ApiTypeOK
<1>8. ASSUME NEW c \in Claim, ApiAgentExited(c) \/ ApiExecutionFailed(c)
      PROVE  ApiTypeOK'
  BY <1>8 DEF ApiAgentExited, ApiExecutionFailed, apiVars, ApiTypeOK
<1>9. ASSUME NEW c \in Claim, FinishRunAndRelease(c)
      PROVE  ApiTypeOK'
  BY <1>9, EndingType DEF FinishRunAndRelease, untouched, ApiTypeOK
<1>10. ASSUME NEW now, RecoverLeasesAndRelease(now)
       PROVE  ApiTypeOK'
  BY <1>10, EndingType DEF RecoverLeasesAndRelease, untouched, ApiTypeOK
<1>11. ASSUME NEW c \in Claim, WorkerAndSenderDie(c)
       PROVE  ApiTypeOK'
  <2>1. NoSender \in SenderRow
    BY DEF NoSender, SenderRow
  <2> QED
    BY <1>11, <2>1 DEF WorkerAndSenderDie, tables, ApiTypeOK
<1> QED
  BY <1>1, <1>2, <1>3, <1>4, <1>5, <1>6, <1>7, <1>8, <1>9, <1>10, <1>11 DEF BoundNext

LEMMA StepApiTypes ==
    ASSUME TypeOK, ApiTypeOK, SendersBound, [ApiNext]_allVars
    PROVE  ApiTypeOK'
<1>1. CASE UNCHANGED apiVars
  BY <1>1 DEF apiVars, ApiTypeOK
<1> QED
  BY <1>1, BudgetTypes, ExecutionTypes, BoundTypes DEF ApiNext, UnboundNext, allVars

-----------------------------------------------------------------------------
(* What a step does to reservations, attempts and senders: it is quiet, or it *)
(* begins, concludes or settles one attempt.                                  *)

\* Without touching the journal, a reservation is made, ends, is dispatched or
\* is settled by hand.
QuietReservation(o) ==
    \/ reservation'[o] = reservation[o]
    \/ reservation[o].status = "unused" /\ reservation'[o].status = "active"
    \/ /\ reservation[o].status = "active"
       /\ reservation'[o].status \in {"active", "dispatched", "released", "expired"}
       /\ reservation'[o].attempts = reservation[o].attempts
    \/ /\ reservation[o].status = "dispatched"
       /\ reservation'[o] = [reservation[o] EXCEPT !.status = "settled"]
       /\ journal[o] = <<>>

\* A sender goes on with what it was doing, is free, or prepares a reservation.
QuietSender(s) ==
    \/ /\ sender'[s].at = sender[s].at
       /\ sender'[s].order = sender[s].order
       /\ sender'[s].attempt = sender[s].attempt
    \/ sender'[s].at \notin {"prepared", "sending"}
    \/ sender'[s].at = "prepared" /\ sender'[s].order \in Order

QuietStep ==
    /\ journal' = journal
    /\ \A o \in Order : QuietReservation(o)
    /\ \A s \in Sender : QuietSender(s)

\* An attempt ends without a settlement, and its sender no longer sends.
FailStep(s, outcome) ==
    /\ Concludes(s, outcome)
    /\ UNCHANGED reservation
    /\ \A u \in Sender \ {s} : sender'[u] = sender[u]
    /\ sender'[s].at # "sending"
    /\ sender'[s].order = sender[s].order \/ sender'[s].at # "prepared"

LEMMA QuietReservations ==
    ASSUME ApiTypeOK, NEW gone, NEW status \in {"released", "expired"}, NEW o \in Order
    PROVE  \/ Ending(gone, status)[o] = reservation[o]
           \/ /\ reservation[o].status = "active"
              /\ Ending(gone, status)[o].status = status
              /\ Ending(gone, status)[o].attempts = reservation[o].attempts
<1>1. reservation[o] \in ReservationRow
  BY DEF ApiTypeOK
<1> QED
  BY <1>1 DEF Ending, EndedIn, ReservationRow

LEMMA ReservedQuietly ==
    ASSUME ApiTypeOK, NEW o \in Order, NEW q, NEW now, NEW expiry,
           NEW table \in [Order -> ReservationRow],
           \A p \in Order :
                \/ table[p] = reservation[p]
                \/ /\ reservation[p].status = "active"
                   /\ table[p].status \in {"active", "released", "expired"}
                   /\ table[p].attempts = reservation[p].attempts,
           Reserve(o, q, table, now, expiry)
    PROVE  \A p \in Order : QuietReservation(p)
<1> SUFFICES ASSUME NEW p \in Order PROVE QuietReservation(p)
  OBVIOUS
<1>1. CASE p = o
  <2>1. reservation[o].status = "unused" /\ reservation'[o].status = "active"
    BY DEF Reserve
  <2> QED
    BY <1>1, <2>1 DEF QuietReservation
<1>2. CASE p # o
  <2>1. reservation'[p] = table[p]
    BY <1>2 DEF Reserve
  <2> QED
    BY <2>1 DEF QuietReservation
<1> QED
  BY <1>1, <1>2

LEMMA EndedQuietly ==
    ASSUME ApiTypeOK, NEW gone, NEW status \in {"released", "expired"},
           reservation' = Ending(gone, status)
    PROVE  \A o \in Order : QuietReservation(o)
BY QuietReservations DEF QuietReservation

LEMMA BudgetForms ==
    ASSUME ApiTypeOK, BudgetNext
    PROVE  QuietStep
<1>1. journal' = journal /\ sender' = sender
  BY DEF BudgetNext, ConfigureApiBudget, ConfigureApiModelPrice, ReserveApiBudget,
     RecoverExpiredApiReservations, ReleaseApiReservation, ClaimApiDispatch,
     SettleApiReservation
<1>2. \A o \in Order : QuietReservation(o)
  <2>1. CASE ConfigureApiBudget \/ ConfigureApiModelPrice
    BY <2>1 DEF ConfigureApiBudget, ConfigureApiModelPrice, QuietReservation
  <2>2. ASSUME NEW o \in Direct, NEW q, NEW now, ReserveApiBudget(o, q, now)
        PROVE  \A p \in Order : QuietReservation(p)
    <3>1. Ending(Overdue(now), "expired") \in [Order -> ReservationRow]
      BY EndingType
    <3>2. o \in Order
      BY DEF Order
    <3>3. Reserve(o, q, Ending(Overdue(now), "expired"), now, now + DirectTtl)
      BY <2>2 DEF ReserveApiBudget
    <3> QED
      BY <3>1, <3>2, <3>3, QuietReservations, ReservedQuietly
  <2>3. CASE \E now \in Observed : RecoverExpiredApiReservations(now)
    BY <2>3, EndedQuietly DEF RecoverExpiredApiReservations
  <2>4. CASE \E o \in Direct : ReleaseApiReservation(o)
    BY <2>4, EndedQuietly DEF ReleaseApiReservation
  <2>5. ASSUME NEW o \in Order, NEW now, ClaimApiDispatch(o, now)
        PROVE  \A p \in Order : QuietReservation(p)
    BY <2>5 DEF ClaimApiDispatch, QuietReservation, ApiTypeOK, ReservationRow
  <2>6. ASSUME NEW o \in Order, NEW tokens, SettleApiReservation(o, tokens)
        PROVE  \A p \in Order : QuietReservation(p)
    BY <2>6 DEF SettleApiReservation, Settle, Settleable, QuietReservation, ApiTypeOK
  <2> QED
    BY <2>1, <2>2, <2>3, <2>4, <2>5, <2>6 DEF BudgetNext
<1> QED
  BY <1>1, <1>2 DEF QuietStep, QuietSender

LEMMA ClosedSender ==
    ASSUME ApiTypeOK, NEW s \in Sender, NEW at \in {"ok", "error"}, Closed(s, at)
    PROVE  /\ sender'[s].at \notin {"prepared", "sending"}
           /\ \A u \in Sender \ {s} : sender'[u] = sender[u]
<1>1. sender \in [Sender -> SenderRow] /\ sender[s] \in SenderRow
  BY DEF ApiTypeOK
<1>2. NoSender.at = "idle"
  BY DEF NoSender
<1>3. [sender[s] EXCEPT !.at = at].at = at
  BY <1>1 DEF SenderRow
<1> QED
  BY <1>1, <1>2, <1>3 DEF Closed

LEMMA ExecutionForms ==
    ASSUME ApiTypeOK, ExecutionNext
    PROVE  \/ QuietStep
           \/ \E s \in Sender : BeginApiDispatchAttempt(s)
           \/ \E s \in Sender, outcome \in AttemptStatus \ {"started", "succeeded"} :
                    FailStep(s, outcome)
           \/ \E s \in Sender, tokens \in 1..MaxUsage : SettleApiDispatchAttempt(s, tokens)
<1>1. ASSUME NEW s \in Sender, NEW o \in Order, NEW now, PrepareReservedApiRequest(s, o, now)
      PROVE  QuietStep
  <2>1. sender'[s].at = "prepared" /\ sender'[s].order = o
    BY <1>1 DEF PrepareReservedApiRequest, ApiTypeOK
  <2>2. \A u \in Sender \ {s} : sender'[u] = sender[u]
    BY <1>1 DEF PrepareReservedApiRequest, ApiTypeOK
  <2>3. UNCHANGED <<reservation, journal>>
    BY <1>1 DEF PrepareReservedApiRequest, tables
  <2> QED
    BY <2>1, <2>2, <2>3 DEF QuietStep, QuietReservation, QuietSender
<1>2. ASSUME NEW s \in Sender, BeginRefused(s) \/ \E tokens : SettlementRefused(s, tokens)
      PROVE  QuietStep
  <2>1. Closed(s, "error") /\ UNCHANGED <<reservation, journal>>
    BY <1>2 DEF BeginRefused, SettlementRefused, tables
  <2> QED
    BY <2>1, ClosedSender DEF QuietStep, QuietReservation, QuietSender
<1>3. ASSUME NEW s \in Sender, OutcomeUncertain(s)
      PROVE  FailStep(s, "uncertain")
  BY <1>3, ClosedSender DEF OutcomeUncertain, FailStep
<1>4. ASSUME NEW s \in Sender, NEW retryable, ProviderFails(s, retryable)
      PROVE  \E outcome \in AttemptStatus \ {"started", "succeeded"} : FailStep(s, outcome)
  <2> DEFINE again == retryable
                      /\ sender[s].attempt < reservation[sender[s].order].attempts
  <2>1. UNCHANGED reservation
    BY <1>4 DEF ProviderFails
  <2>2. CASE again
    <3>1. Concludes(s, "retryable_failure")
      BY <1>4, <2>2 DEF ProviderFails
    <3>2. sender' = [sender EXCEPT ![s].at = "prepared"]
      BY <1>4, <2>2 DEF ProviderFails
    <3>3. FailStep(s, "retryable_failure")
      BY <2>1, <3>1, <3>2 DEF FailStep, ApiTypeOK, SenderRow
    <3> QED
      BY <3>3 DEF AttemptStatus
  <2>3. CASE ~again
    <3>1. Concludes(s, "terminal_failure") /\ Closed(s, "error")
      BY <1>4, <2>3 DEF ProviderFails
    <3>2. FailStep(s, "terminal_failure")
      BY <2>1, <3>1, ClosedSender DEF FailStep
    <3> QED
      BY <3>2 DEF AttemptStatus
  <2> QED
    BY <2>2, <2>3
<1>5. ASSUME NEW s \in Caller, CallerDies(s)
      PROVE  QuietStep
  <2>1. \A u \in Sender : sender'[u] = sender[u] \/ sender'[u].at = "idle"
    BY <1>5 DEF CallerDies, NoSender, ApiTypeOK
  <2> QED
    BY <1>5, <2>1 DEF CallerDies, tables, QuietStep, QuietReservation, QuietSender
<1>6. "uncertain" \in AttemptStatus \ {"started", "succeeded"}
  BY DEF AttemptStatus
<1> QED
  BY <1>1, <1>2, <1>3, <1>4, <1>5, <1>6 DEF ExecutionNext

LEMMA ClaimedQuietly ==
    ASSUME ApiTypeOK, NEW i, NEW g, NEW c \in Claim, NEW now, NEW q,
           ClaimWithReservation(i, g, c, now, q)
    PROVE  \A o \in Order : QuietReservation(o)
<1> DEFINE freed == Ending(ExpiredAt(now), "released")
           table == EndedIn(freed, Overdue(now), "expired")
<1>1. freed \in [Order -> ReservationRow] /\ table \in [Order -> ReservationRow]
  BY EndingType, EndedInType
<1>2. ASSUME NEW p \in Order
      PROVE  \/ table[p] = reservation[p]
             \/ /\ reservation[p].status = "active"
                /\ table[p].status \in {"active", "released", "expired"}
                /\ table[p].attempts = reservation[p].attempts
  <2>1. CASE table[p] = freed[p]
    BY <2>1, QuietReservations
  <2>2. CASE table[p] # freed[p]
    <3>1. freed[p] \in ReservationRow
      BY <1>1
    <3>2. freed[p].status = "active" /\ table[p] = [freed[p] EXCEPT !.status = "expired"]
      BY <2>2 DEF EndedIn
    <3>3. table[p].status = "expired" /\ table[p].attempts = freed[p].attempts
      BY <3>1, <3>2 DEF ReservationRow
    <3>4. freed[p] = reservation[p]
      BY <3>2, QuietReservations
    <3> QED
      BY <3>2, <3>3, <3>4
  <2> QED
    BY <2>1, <2>2
<1>3. CASE reservation' = freed
  BY <1>3, EndedQuietly
<1>4. CASE Reserve(c, q, table, now, now + ClaimTtl)
  <2>1. c \in Order
    BY DEF Order
  <2> HIDE DEF table
  <2> QED
    BY <1>1, <1>2, <1>4, <2>1, ReservedQuietly
<1> QED
  BY <1>3, <1>4 DEF ClaimWithReservation

LEMMA RenewedQuietly ==
    ASSUME ApiTypeOK, NEW i, NEW g, NEW now, HeartbeatReservations(i, g, now)
    PROVE  \A o \in Order : QuietReservation(o)
<1> DEFINE freed == Ending(ExpiredAt(now), "released")
<1> SUFFICES ASSUME NEW o \in Order PROVE QuietReservation(o)
  OBVIOUS
<1>1. \/ freed[o] = reservation[o]
      \/ /\ reservation[o].status = "active"
         /\ freed[o].status = "released"
         /\ freed[o].attempts = reservation[o].attempts
  BY QuietReservations
<1>2. freed[o] \in ReservationRow
  BY EndingType
<1>3. CASE reservation'[o] = freed[o]
  BY <1>1, <1>3 DEF QuietReservation
<1>4. CASE /\ freed[o].status = "active"
           /\ reservation'[o] = [freed[o] EXCEPT !.expires = now + ClaimTtl]
  <2>1. reservation'[o].status = "active" /\ reservation'[o].attempts = freed[o].attempts
    BY <1>2, <1>4 DEF ReservationRow
  <2> QED
    BY <1>1, <1>4, <2>1 DEF QuietReservation
<1> QED
  BY <1>3, <1>4 DEF HeartbeatReservations

LEMMA BegunQuietly ==
    ASSUME ApiTypeOK, NEW c \in Claim, NEW r, NEW now, BeginRunWithReservation(c, r, now)
    PROVE  QuietStep
<1>1. \A s \in Sender : QuietSender(s)
  <2>1. sender \in [Sender -> SenderRow]
    BY DEF ApiTypeOK
  <2>2. sender' = [sender EXCEPT ![c].now = now]
    BY DEF BeginRunWithReservation
  <2>3. \A s \in Sender : /\ sender'[s].at = sender[s].at
                         /\ sender'[s].order = sender[s].order
                         /\ sender'[s].attempt = sender[s].attempt
    BY <2>1, <2>2 DEF SenderRow
  <2> QED
    BY <2>3 DEF QuietSender
<1>2. \A o \in Order : QuietReservation(o)
  <2> DEFINE row == [reservation[c] EXCEPT !.run = TRUE, !.expires = now + LeaseTtl]
  <2>1. reservation \in [Order -> ReservationRow] /\ reservation[c] \in ReservationRow
    BY DEF ApiTypeOK, Order
  <2>2. row.status = reservation[c].status /\ row.attempts = reservation[c].attempts
    BY <2>1 DEF ReservationRow
  <2>3. CASE reservation' = reservation
    BY <2>3 DEF QuietReservation
  <2>4. CASE reservation[c].status = "active" /\ reservation' = [reservation EXCEPT ![c] = row]
    BY <2>1, <2>2, <2>4 DEF QuietReservation
  <2> QED
    BY <2>3, <2>4 DEF BeginRunWithReservation
<1>3. journal' = journal
  BY DEF BeginRunWithReservation, untouched
<1> QED
  BY <1>1, <1>2, <1>3 DEF QuietStep

LEMMA BoundForms ==
    ASSUME ApiTypeOK, BoundNext
    PROVE  QuietStep
<1>1. ASSUME NEW c, ApiAgentExited(c) \/ ApiExecutionFailed(c)
      PROVE  QuietStep
  BY <1>1 DEF ApiAgentExited, ApiExecutionFailed, apiVars, QuietStep, QuietReservation,
     QuietSender
<1>2. ASSUME NEW i, NEW t, NEW now, RouteApiTask(i, t, now)
      PROVE  QuietStep
  BY <1>2 DEF RouteApiTask, apiVars, QuietStep, QuietReservation, QuietSender
<1>3. ASSUME UNCHANGED <<journal, sender>>, \A o \in Order : QuietReservation(o)
      PROVE  QuietStep
  BY <1>3 DEF QuietStep, QuietSender
<1>4. ASSUME NEW i, NEW g, NEW c \in Claim, NEW now, NEW q, ClaimWithReservation(i, g, c, now, q)
      PROVE  QuietStep
  BY <1>3, <1>4, ClaimedQuietly DEF ClaimWithReservation, untouched
<1>5. ASSUME NEW i, NEW g, NEW now, HeartbeatReservations(i, g, now)
      PROVE  QuietStep
  BY <1>3, <1>5, RenewedQuietly DEF HeartbeatReservations, untouched
<1>6. ASSUME \/ \E i, now : StopAndRelease(i, now)
             \/ \E now : RecoverClaimsAndRelease(now)
             \/ EmergencyStopAndRelease
             \/ \E c : FinishRunAndRelease(c)
             \/ \E now : RecoverLeasesAndRelease(now)
      PROVE  QuietStep
  <2>1. UNCHANGED <<journal, sender>> /\ \E gone : reservation' = Ending(gone, "released")
    BY <1>6 DEF StopAndRelease, RecoverClaimsAndRelease, EmergencyStopAndRelease,
       FinishRunAndRelease, RecoverLeasesAndRelease, untouched
  <2> QED
    BY <1>3, <2>1, EndedQuietly
<1>7. ASSUME NEW c \in Claim, WorkerAndSenderDie(c)
      PROVE  QuietStep
  <2>1. \A s \in Sender : sender'[s] = sender[s] \/ sender'[s].at = "idle"
    BY <1>7 DEF WorkerAndSenderDie, NoSender, ApiTypeOK
  <2> QED
    BY <1>7, <2>1 DEF WorkerAndSenderDie, tables, QuietStep, QuietReservation, QuietSender
<1> QED
  BY <1>1, <1>2, <1>4, <1>5, <1>6, <1>7, BegunQuietly DEF BoundNext

LEMMA ApiForms ==
    ASSUME ApiTypeOK, [ApiNext]_allVars
    PROVE  \/ QuietStep
           \/ \E s \in Sender : BeginApiDispatchAttempt(s)
           \/ \E s \in Sender, outcome \in AttemptStatus \ {"started", "succeeded"} :
                    FailStep(s, outcome)
           \/ \E s \in Sender, tokens \in 1..MaxUsage : SettleApiDispatchAttempt(s, tokens)
<1>1. CASE UNCHANGED apiVars
  BY <1>1 DEF apiVars, QuietStep, QuietReservation, QuietSender
<1> QED
  BY <1>1, BudgetForms, ExecutionForms, BoundForms DEF ApiNext, UnboundNext, allVars

-----------------------------------------------------------------------------
(* Journals are linear and one request is in flight.  Each needs the other:  *)
(* that the attempt a process concludes is the last one, and that no second  *)
(* process can begin while the last one is open.                             *)

DispatchInv == ApiTypeOK /\ SendersBound /\ JournalIsLinear /\ OneRequestInFlight

LinearAt(o) ==
    /\ Len(journal[o]) <= reservation[o].attempts
    /\ \A n \in 1..(Len(journal[o]) - 1) : journal[o][n] = "retryable_failure"
    /\ journal[o] # <<>> =>
        /\ reservation[o].status \in {"dispatched", "settled"}
        /\ LastAttempt(o) = "succeeded" <=> reservation[o].status = "settled"

InFlightAt(s) ==
    sender[s].at = "sending" =>
        /\ sender[s].attempt = Len(journal[sender[s].order])
        /\ LastAttempt(sender[s].order) = "started"
        /\ \A u \in Sender \ {s} :
                ~(sender[u].at = "sending" /\ sender[u].order = sender[s].order)

LEMMA LinearEverywhere == JournalIsLinear <=> \A o \in Order : LinearAt(o)
BY DEF JournalIsLinear, LinearAt

LEMMA InFlightEverywhere == OneRequestInFlight <=> \A s \in Sender : InFlightAt(s)
BY DEF OneRequestInFlight, InFlightAt

LEMMA QuietKeeps ==
    ASSUME DispatchInv, ApiTypeOK', QuietStep
    PROVE  DispatchInv'
<1>1. SendersBound'
  BY DEF DispatchInv, SendersBound, QuietStep, QuietSender
<1>2. ASSUME NEW o \in Order PROVE LinearAt(o)'
  <2>1. LinearAt(o) /\ QuietReservation(o) /\ journal' = journal
    BY LinearEverywhere DEF DispatchInv, QuietStep
  <2>2. /\ journal[o] \in Seq(AttemptStatus)
        /\ reservation[o] \in ReservationRow
        /\ reservation'[o] \in ReservationRow
    BY DEF DispatchInv, ApiTypeOK
  <2>3. CASE journal[o] = <<>>
    <3>1. Len(journal'[o]) = 0 /\ reservation'[o].attempts \in Nat
      BY <2>1, <2>2, <2>3 DEF ReservationRow
    <3> QED
      BY <2>1, <2>3, <3>1 DEF LinearAt
  <2>4. CASE journal[o] # <<>>
    <3>1. reservation'[o] = reservation[o]
      BY <2>1, <2>4 DEF LinearAt, QuietReservation
    <3> QED
      BY <2>1, <3>1 DEF LinearAt, LastAttempt
  <2> QED
    BY <2>3, <2>4
<1>3. ASSUME NEW s \in Sender PROVE InFlightAt(s)'
  <2>1. InFlightAt(s) /\ journal' = journal
    BY InFlightEverywhere DEF DispatchInv, QuietStep
  <2>2. \A u \in Sender : sender'[u].at = "sending" =>
            /\ sender[u].at = "sending"
            /\ sender'[u].order = sender[u].order
            /\ sender'[u].attempt = sender[u].attempt
    BY DEF QuietStep, QuietSender
  <2> QED
    BY <2>1, <2>2 DEF InFlightAt, LastAttempt
<1> QED
  BY <1>1, <1>2, <1>3, LinearEverywhere, InFlightEverywhere DEF DispatchInv,
     JournalIsLinear, OneRequestInFlight, LinearAt, InFlightAt

\* To show the invariant, show it of every order and every sender.
LEMMA ByParts ==
    ASSUME ApiTypeOK', SendersBound', \A o \in Order : LinearAt(o)',
           \A s \in Sender : InFlightAt(s)'
    PROVE  DispatchInv'
BY DEF DispatchInv, JournalIsLinear, OneRequestInFlight, LinearAt, InFlightAt

LEMMA BegunKeeps ==
    ASSUME DispatchInv, ApiTypeOK', NEW s \in Sender, BeginApiDispatchAttempt(s)
    PROVE  DispatchInv'
<1> DEFINE o == sender[s].order
<1>1. /\ o \in Order /\ sender[s].at = "prepared"
      /\ sender \in [Sender -> SenderRow]
      /\ journal \in [Order -> Seq(AttemptStatus)]
      /\ reservation \in [Order -> ReservationRow]
  BY DEF BeginApiDispatchAttempt, DispatchInv, SendersBound, ApiTypeOK
<1>2. /\ reservation' = [reservation EXCEPT ![o].status = "dispatched"]
      /\ journal' = [journal EXCEPT ![o] = Append(journal[o], "started")]
      /\ sender' = [sender EXCEPT ![s].at = "sending",
                                  ![s].attempt = Len(journal[o]) + 1]
      /\ MayBegin(o, sender[s].now)
  BY DEF BeginApiDispatchAttempt
<1>3. /\ journal[o] \in Seq(AttemptStatus) /\ Len(journal[o]) \in Nat
      /\ journal'[o] = Append(journal[o], "started")
      /\ Len(journal'[o]) = Len(journal[o]) + 1
      /\ \A n \in 1..Len(journal[o]) : journal'[o][n] = journal[o][n]
      /\ journal'[o][Len(journal[o]) + 1] = "started"
  BY <1>1, <1>2
<1>4. /\ sender'[s].at = "sending" /\ sender'[s].order = o
      /\ sender'[s].attempt = Len(journal[o]) + 1
      /\ \A u \in Sender \ {s} : sender'[u] = sender[u]
  BY <1>1, <1>2 DEF SenderRow
<1>5. /\ reservation'[o].status = "dispatched"
      /\ reservation'[o].attempts = reservation[o].attempts
      /\ \A p \in Order \ {o} : reservation'[p] = reservation[p] /\ journal'[p] = journal[p]
  BY <1>1, <1>2 DEF ReservationRow
<1>6. /\ Len(journal[o]) + 1 <= reservation[o].attempts
      /\ journal[o] # <<>> => LastAttempt(o) = "retryable_failure"
  BY <1>2 DEF MayBegin, Retryable
<1>7. SendersBound'
  <2>1. journal'[o] # <<>>
    BY <1>3
  <2>2. \A u \in Sender : sender[u].at = "sending" => sender[u].order \in Order
    BY DEF DispatchInv, SendersBound
  <2> QED
    BY <1>1, <1>4, <1>5, <2>1, <2>2 DEF DispatchInv, SendersBound
<1>8. ASSUME NEW p \in Order PROVE LinearAt(p)'
  <2>1. LinearAt(p)
    BY LinearEverywhere DEF DispatchInv
  <2>2. CASE p # o
    BY <1>5, <2>1, <2>2 DEF LinearAt, LastAttempt
  <2>3. CASE p = o
    <3>1. \A n \in 1..Len(journal[o]) : journal[o][n] = "retryable_failure"
      <4> SUFFICES ASSUME NEW n \in 1..Len(journal[o])
                   PROVE  journal[o][n] = "retryable_failure"
        OBVIOUS
      <4>1. journal[o] # <<>>
        BY <1>3
      <4>2. CASE n = Len(journal[o])
        BY <1>6, <4>1, <4>2 DEF LastAttempt
      <4>3. CASE n # Len(journal[o])
        BY <1>3, <2>1, <2>3, <4>3 DEF LinearAt
      <4> QED
        BY <4>2, <4>3
    <3>2. Len(journal'[o]) - 1 = Len(journal[o])
      BY <1>3
    <3>3. journal'[o][Len(journal'[o])] = "started"
      BY <1>3
    <3>4. LinearAt(p)' <=>
            /\ Len(journal'[o]) <= reservation'[o].attempts
            /\ \A n \in 1..(Len(journal'[o]) - 1) : journal'[o][n] = "retryable_failure"
            /\ journal'[o] # <<>> =>
                /\ reservation'[o].status \in {"dispatched", "settled"}
                /\ journal'[o][Len(journal'[o])] = "succeeded"
                        <=> reservation'[o].status = "settled"
      BY <2>3 DEF LinearAt, LastAttempt
    <3> QED
      BY <1>3, <1>5, <1>6, <3>1, <3>2, <3>3, <3>4
  <2> QED
    BY <2>2, <2>3
<1>9. \A u \in Sender : sender[u].at = "sending" => sender[u].order # o
  <2> SUFFICES ASSUME NEW u \in Sender, sender[u].at = "sending", sender[u].order = o
               PROVE  FALSE
    OBVIOUS
  <2>1. LastAttempt(o) = "started"
    BY InFlightEverywhere DEF DispatchInv, InFlightAt
  <2>2. journal[o] # <<>>
    BY DEF DispatchInv, SendersBound
  <2> QED
    BY <1>6, <2>1, <2>2
<1>10. ASSUME NEW u \in Sender PROVE InFlightAt(u)'
  <2>1. CASE u = s
    <3>1. journal'[o][Len(journal'[o])] = "started"
      BY <1>3
    <3> QED
      BY <1>3, <1>4, <1>9, <2>1, <3>1 DEF InFlightAt, LastAttempt
  <2>2. CASE u # s
    <3>1. InFlightAt(u) /\ sender'[u] = sender[u]
      BY <1>4, <2>2, InFlightEverywhere DEF DispatchInv
    <3>2. sender[u].at = "sending" => sender[u].order \in Order \ {o}
      BY <1>9 DEF DispatchInv, SendersBound
    <3> QED
      BY <1>4, <1>5, <2>2, <3>1, <3>2 DEF InFlightAt, LastAttempt
  <2> QED
    BY <2>1, <2>2
<1> QED
  BY <1>7, <1>8, <1>10, ByParts

\* What concluding an attempt does to the journal: its last entry changes.
LEMMA ConcludedJournal ==
    ASSUME DispatchInv, NEW s \in Sender, NEW outcome \in AttemptStatus, Concludes(s, outcome)
    PROVE  LET o == sender[s].order IN
           /\ o \in Order /\ journal[o] # <<>>
           /\ LastAttempt(o) = "started"
           /\ Len(journal'[o]) = Len(journal[o])
           /\ \A n \in 1..(Len(journal[o]) - 1) : journal'[o][n] = journal[o][n]
           /\ journal'[o][Len(journal[o])] = outcome
           /\ \A p \in Order \ {o} : journal'[p] = journal[p]
           /\ \A u \in Sender \ {s} : sender[u].at = "sending" => sender[u].order # o
<1> DEFINE o == sender[s].order
           n == Len(journal[o])
<1>1. /\ o \in Order /\ sender[s].at = "sending" /\ journal[o] # <<>>
      /\ journal \in [Order -> Seq(AttemptStatus)]
  BY DEF Concludes, DispatchInv, SendersBound, ApiTypeOK
<1>2. /\ sender[s].attempt = n /\ LastAttempt(o) = "started"
      /\ \A u \in Sender \ {s} : sender[u].at = "sending" => sender[u].order # o
  BY <1>1, InFlightEverywhere DEF DispatchInv, InFlightAt
<1>3. journal[o] \in Seq(AttemptStatus) /\ n \in 1..Len(journal[o])
  BY <1>1
<1>4. journal' = [journal EXCEPT ![o] = [journal[o] EXCEPT ![n] = outcome]]
  BY <1>2 DEF Concludes
<1>5. journal'[o] = [journal[o] EXCEPT ![n] = outcome]
  BY <1>1, <1>4
<1>6. /\ Len(journal'[o]) = n
      /\ \A j \in 1..n : journal'[o][j] = IF j = n THEN outcome ELSE journal[o][j]
  BY <1>3, <1>5, ExceptSeq
<1> QED
  BY <1>1, <1>2, <1>3, <1>4, <1>6

LEMMA ConcludeKeeps ==
    ASSUME DispatchInv, ApiTypeOK', NEW s \in Sender, NEW outcome \in AttemptStatus \ {"started"},
           Concludes(s, outcome),
           sender'[s].at # "sending",
           sender'[s].at = "prepared" => sender'[s].order \in Order,
           \A u \in Sender \ {s} : sender'[u] = sender[u],
           \A p \in Order \ {sender[s].order} : reservation'[p] = reservation[p],
           reservation'[sender[s].order].attempts = reservation[sender[s].order].attempts,
           reservation'[sender[s].order].status
                = IF outcome = "succeeded" THEN "settled" ELSE "dispatched"
    PROVE  DispatchInv'
<1> DEFINE o == sender[s].order
<1>1. /\ o \in Order /\ journal[o] # <<>>
      /\ LastAttempt(o) = "started"
      /\ Len(journal'[o]) = Len(journal[o])
      /\ \A n \in 1..(Len(journal[o]) - 1) : journal'[o][n] = journal[o][n]
      /\ journal'[o][Len(journal[o])] = outcome
      /\ \A p \in Order \ {o} : journal'[p] = journal[p]
      /\ \A u \in Sender \ {s} : sender[u].at = "sending" => sender[u].order # o
  BY ConcludedJournal
<1>2. \A u \in Sender : sender'[u].at = "sending" =>
            /\ u # s /\ sender'[u] = sender[u]
            /\ sender[u].order \in Order \ {o}
  BY <1>1 DEF DispatchInv, SendersBound
<1>3. SendersBound'
  BY <1>1, <1>2 DEF DispatchInv, SendersBound
<1>4. ASSUME NEW p \in Order PROVE LinearAt(p)'
  <2>1. LinearAt(p)
    BY LinearEverywhere DEF DispatchInv
  <2>2. CASE p # o
    BY <1>1, <2>1, <2>2 DEF LinearAt, LastAttempt
  <2>3. CASE p = o
    <3>1. /\ reservation'[o].attempts = reservation[o].attempts
          /\ reservation'[o].status = IF outcome = "succeeded" THEN "settled" ELSE "dispatched"
      OBVIOUS
    <3>2. LinearAt(p)' <=>
            /\ Len(journal'[o]) <= reservation'[o].attempts
            /\ \A n \in 1..(Len(journal'[o]) - 1) : journal'[o][n] = "retryable_failure"
            /\ journal'[o] # <<>> =>
                /\ reservation'[o].status \in {"dispatched", "settled"}
                /\ journal'[o][Len(journal'[o])] = "succeeded"
                        <=> reservation'[o].status = "settled"
      BY <2>3 DEF LinearAt, LastAttempt
    <3>3. /\ Len(journal[o]) <= reservation[o].attempts
          /\ \A n \in 1..(Len(journal[o]) - 1) : journal[o][n] = "retryable_failure"
      BY <2>1, <2>3 DEF LinearAt
    <3> QED
      BY <1>1, <3>1, <3>2, <3>3
  <2> QED
    BY <2>2, <2>3
<1>5. ASSUME NEW u \in Sender PROVE InFlightAt(u)'
  <2>1. InFlightAt(u)
    BY InFlightEverywhere DEF DispatchInv
  <2> QED
    BY <1>1, <1>2, <2>1 DEF InFlightAt, LastAttempt
<1> QED
  BY <1>3, <1>4, <1>5, ByParts

LEMMA FailKeeps ==
    ASSUME DispatchInv, ApiTypeOK', NEW s \in Sender,
           NEW outcome \in AttemptStatus \ {"started", "succeeded"}, FailStep(s, outcome)
    PROVE  DispatchInv'
<1> DEFINE o == sender[s].order
<1>1. Concludes(s, outcome)
  BY DEF FailStep
<1>2. o \in Order /\ journal[o] # <<>> /\ LastAttempt(o) = "started"
  BY <1>1, ConcludedJournal
<1>3. reservation[o].status = "dispatched"
  BY <1>2, LinearEverywhere DEF DispatchInv, LinearAt
<1> QED
  BY <1>1, <1>2, <1>3, ConcludeKeeps DEF FailStep

LEMMA SettleKeeps ==
    ASSUME DispatchInv, ApiTypeOK', NEW s \in Sender, NEW tokens \in 1..MaxUsage,
           SettleApiDispatchAttempt(s, tokens)
    PROVE  DispatchInv'
<1> DEFINE o == sender[s].order
<1>1. Concludes(s, "succeeded") /\ Closed(s, "ok")
  BY DEF SettleApiDispatchAttempt
<1>2. o \in Order /\ "succeeded" \in AttemptStatus \ {"started"}
  BY <1>1 DEF Concludes, DispatchInv, SendersBound, AttemptStatus
<1>3. reservation' = [reservation EXCEPT ![o].status = "settled"]
  BY DEF SettleApiDispatchAttempt, Settle
<1>4. /\ reservation'[o].status = "settled"
      /\ reservation'[o].attempts = reservation[o].attempts
      /\ \A p \in Order \ {o} : reservation'[p] = reservation[p]
  <2>1. reservation \in [Order -> ReservationRow] /\ reservation[o] \in ReservationRow
    BY <1>2 DEF DispatchInv, ApiTypeOK
  <2>2. reservation'[o] = [reservation[o] EXCEPT !.status = "settled"]
    BY <1>2, <1>3, <2>1
  <2> QED
    BY <1>3, <2>1, <2>2 DEF ReservationRow
<1>5. /\ sender'[s].at \notin {"prepared", "sending"}
      /\ \A u \in Sender \ {s} : sender'[u] = sender[u]
  BY <1>1, ClosedSender DEF DispatchInv
<1> QED
  BY <1>1, <1>2, <1>4, <1>5, ConcludeKeeps

LEMMA DispatchInit == ApiInit => DispatchInv
<1> SUFFICES ASSUME ApiInit PROVE DispatchInv
  OBVIOUS
<1>1. ApiTypeOK
  BY InitApiTypes
<1>2. SendersBound /\ OneRequestInFlight
  BY DEF ApiInit, NoSender, SendersBound, OneRequestInFlight
<1>3. JournalIsLinear
  BY DEF ApiInit, NoReservation, JournalIsLinear
<1> QED
  BY <1>1, <1>2, <1>3 DEF DispatchInv

LEMMA DispatchStep == TypeOK /\ DispatchInv /\ [ApiNext]_allVars => DispatchInv'
<1> SUFFICES ASSUME TypeOK, DispatchInv, [ApiNext]_allVars PROVE DispatchInv'
  OBVIOUS
<1>1. ApiTypeOK'
  BY StepApiTypes DEF DispatchInv
<1> QED
  BY <1>1, ApiForms, QuietKeeps, BegunKeeps, FailKeeps, SettleKeeps DEF DispatchInv

LEMMA PaidTypes == ApiSpec => []TypeOK
BY PaidWorkIsControlled, TypeCorrect, PTL DEF ImplementsControlPlane

LEMMA DispatchInvariant == ApiSpec => []DispatchInv
BY DispatchInit, DispatchStep, PaidTypes, PTL DEF ApiSpec

\* Every table of the budgets has its type, in every behaviour (schema of
\* api_budgets to api_dispatch_attempts).
THEOREM ApiTypesCorrect == ApiSpec => []ApiTypeOK
<1>1. DispatchInv => ApiTypeOK
  BY DEF DispatchInv
<1> QED
  BY <1>1, DispatchInvariant, PTL

\* A request is sent again only after a recorded retryable failure, and never
\* more often than was reserved, whatever executions and settlements race and
\* wherever a process dies (begin_api_dispatch_attempt,
\* settle_api_reservation_inner).
THEOREM JournalsAreLinear == ApiSpec => []JournalIsLinear
<1>1. DispatchInv => JournalIsLinear
  BY DEF DispatchInv
<1> QED
  BY <1>1, DispatchInvariant, PTL

\* Of all the processes that may execute a reservation, at most one has a
\* request in flight for it (begin_api_dispatch_attempt).
THEOREM OneIsInFlight == ApiSpec => []OneRequestInFlight
<1>1. DispatchInv => OneRequestInFlight
  BY DEF DispatchInv
<1> QED
  BY <1>1, DispatchInvariant, PTL

-----------------------------------------------------------------------------
(* What was dispatched stays reserved until it is settled. *)

RetainedAt(o) ==
    /\ reservation[o].status = "dispatched" =>
            reservation'[o].status \in {"dispatched", "settled"}
    /\ reservation[o].status \in {"settled", "released", "expired"} =>
            reservation'[o] = reservation[o]

LEMMA StatusGiven ==
    ASSUME ApiTypeOK, NEW o \in Order, NEW status,
           reservation' = [reservation EXCEPT ![o].status = status],
           reservation[o].status \in {"active", "dispatched"},
           status \in {"dispatched", "settled"},
           NEW p \in Order
    PROVE  RetainedAt(p)
<1>1. reservation \in [Order -> ReservationRow] /\ reservation[o] \in ReservationRow
  BY DEF ApiTypeOK
<1>2. reservation'[o].status = status
  BY <1>1 DEF ReservationRow
<1>3. p # o => reservation'[p] = reservation[p]
  BY <1>1
<1> QED
  BY <1>2, <1>3 DEF RetainedAt

LEMMA StepRetains ==
    ASSUME ApiTypeOK, SendersBound, [ApiNext]_allVars, NEW p \in Order
    PROVE  RetainedAt(p)
<1>1. CASE QuietStep
  <2>1. QuietReservation(p) /\ reservation[p] \in ReservationRow
    BY <1>1 DEF QuietStep, ApiTypeOK
  <2>2. [reservation[p] EXCEPT !.status = "settled"].status = "settled"
    BY <2>1 DEF ReservationRow
  <2> QED
    BY <2>1, <2>2 DEF QuietReservation, RetainedAt
<1>2. ASSUME NEW s \in Sender, BeginApiDispatchAttempt(s)
      PROVE  RetainedAt(p)
  <2> DEFINE o == sender[s].order
  <2>1. o \in Order
    BY <1>2 DEF BeginApiDispatchAttempt, SendersBound
  <2>2. reservation[o].status \in {"active", "dispatched"}
    BY <1>2 DEF BeginApiDispatchAttempt, MayBegin
  <2>3. reservation' = [reservation EXCEPT ![o].status = "dispatched"]
    BY <1>2 DEF BeginApiDispatchAttempt
  <2> QED
    BY <2>1, <2>2, <2>3, StatusGiven
<1>3. ASSUME NEW s \in Sender, NEW outcome, FailStep(s, outcome)
      PROVE  RetainedAt(p)
  BY <1>3 DEF FailStep, RetainedAt
<1>4. ASSUME NEW s \in Sender, NEW tokens, SettleApiDispatchAttempt(s, tokens)
      PROVE  RetainedAt(p)
  <2> DEFINE o == sender[s].order
  <2>1. o \in Order
    BY <1>4 DEF SettleApiDispatchAttempt, Concludes, SendersBound
  <2>2. /\ reservation[o].status \in {"active", "dispatched"}
        /\ reservation' = [reservation EXCEPT ![o].status = "settled"]
    BY <1>4 DEF SettleApiDispatchAttempt, Settle, Settleable
  <2> QED
    BY <2>1, <2>2, StatusGiven
<1> QED
  BY <1>1, <1>2, <1>3, <1>4, ApiForms

\* What was reserved for a request that may have been sent is never released
\* and never expires, by recovery, an emergency stop or a closed run; and no
\* reservation that has ended changes again (recover_expired_leases,
\* release_bound_api_reservation_tx, settle_api_reservation_inner).
THEOREM DispatchedStaysReserved == ApiSpec => DispatchedIsRetained
<1>1. DispatchInv /\ [ApiNext]_allVars => [\A o \in Order : RetainedAt(o)]_allVars
  BY StepRetains DEF DispatchInv
<1>2. [\A o \in Order : RetainedAt(o)]_allVars <=>
      [\A o \in Order :
        /\ reservation[o].status = "dispatched" =>
                reservation'[o].status \in {"dispatched", "settled"}
        /\ reservation[o].status \in {"settled", "released", "expired"} =>
                reservation'[o] = reservation[o]]_allVars
  BY DEF RetainedAt
<1> QED
  BY <1>1, <1>2, DispatchInvariant, PTL DEF ApiSpec, DispatchedIsRetained

-----------------------------------------------------------------------------
(* Reservations of claims and their holders.  A process that ends without an *)
(* answer closes its run and releases no reservation, so it must be known    *)
(* that what is reserved is reserved by claims of API tasks.                 *)

HeldInv ==
    \A c \in Claim : reservation[c].status = "active" =>
                        Holding(c) /\ AdapterOf[claims[c].task] = "api"

PaidInv == TypeOK /\ LockInv /\ ApiTypeOK /\ HeldInv

\* No claim of those in "gone" has an active reservation in the table, and no
\* other has one that it had not.
Fewer(table, gone) ==
    \A c \in Claim : table[c].status = "active" =>
                        reservation[c].status = "active" /\ c \notin gone

LEMMA HeldKept ==
    ASSUME HeldInv, NEW gone, HoldsOn(gone), Fewer(reservation', gone)
    PROVE  HeldInv'
BY DEF HeldInv, HoldsOn, Fewer

LEMMA EndedFewer ==
    ASSUME ApiTypeOK, NEW gone, NEW status \in {"released", "expired"}
    PROVE  Fewer(Ending(gone, status), gone)
<1> SUFFICES ASSUME NEW c \in Claim, Ending(gone, status)[c].status = "active"
             PROVE  reservation[c].status = "active" /\ c \notin gone
  BY DEF Fewer
<1>1. c \in Order /\ reservation[c] \in ReservationRow
  BY DEF ApiTypeOK, Order
<1> QED
  BY <1>1 DEF Ending, EndedIn, ReservationRow

LEMMA BudgetHeld ==
    ASSUME PaidInv, BudgetNext
    PROVE  HeldInv'
<1>1. HoldsOn({}) /\ ApiTypeOK /\ HeldInv
  BY IdleHolds DEF PaidInv, BudgetNext, ConfigureApiBudget, ConfigureApiModelPrice,
     ReserveApiBudget, RecoverExpiredApiReservations, ReleaseApiReservation,
     ClaimApiDispatch, SettleApiReservation, vars
<1>2. ASSUME NEW o \in Direct, NEW q, NEW now, ReserveApiBudget(o, q, now)
      PROVE  Fewer(reservation', {})
  <2> DEFINE table == Ending(Overdue(now), "expired")
  <2>1. table \in [Order -> ReservationRow] /\ Fewer(table, Overdue(now))
    BY <1>1, EndingType, EndedFewer
  <2> HIDE DEF table
  <2>2. \A c \in Claim : c # o
    BY ApiAssumption
  <2>3. Reserve(o, q, table, now, now + DirectTtl)
    BY <1>2 DEF ReserveApiBudget, table
  <2>4. \A c \in Claim : reservation'[c] = table[c]
    BY <2>1, <2>2, <2>3 DEF Reserve, Order
  <2> QED
    BY <2>1, <2>4 DEF Fewer
<1>3. ASSUME \/ \E now : RecoverExpiredApiReservations(now)
             \/ \E o : ReleaseApiReservation(o)
      PROVE  Fewer(reservation', {})
  <2>1. \E gone : \E status \in {"released", "expired"} : reservation' = Ending(gone, status)
    BY <1>3 DEF RecoverExpiredApiReservations, ReleaseApiReservation
  <2>2. PICK gone, status : /\ status \in {"released", "expired"}
                           /\ reservation' = Ending(gone, status)
    BY <2>1
  <2>3. Fewer(reservation', gone)
    BY <1>1, <2>2, EndedFewer
  <2> QED
    BY <2>3 DEF Fewer
<1>4. ASSUME NEW o \in Order, NEW status \in {"dispatched", "settled"},
             reservation' = [reservation EXCEPT ![o].status = status]
      PROVE  Fewer(reservation', {})
  BY <1>1, <1>4 DEF Fewer, ApiTypeOK, ReservationRow, Order
<1>5. ASSUME \/ \E o \in Order, now \in Observed : ClaimApiDispatch(o, now)
             \/ \E o \in Order, tokens \in 1..MaxUsage : SettleApiReservation(o, tokens)
      PROVE  Fewer(reservation', {})
  BY <1>4, <1>5 DEF ClaimApiDispatch, SettleApiReservation, Settle
<1>6. ASSUME ConfigureApiBudget \/ ConfigureApiModelPrice
      PROVE  Fewer(reservation', {})
  BY <1>6 DEF ConfigureApiBudget, ConfigureApiModelPrice, Fewer
<1> QED
  BY <1>1, <1>2, <1>3, <1>5, <1>6, HeldKept DEF BudgetNext

LEMMA ExecutionHeld ==
    ASSUME PaidInv, ExecutionNext
    PROVE  HeldInv'
<1>1. HoldsOn({}) /\ ApiTypeOK /\ HeldInv
  BY IdleHolds DEF PaidInv, ExecutionNext, PrepareReservedApiRequest,
     BeginApiDispatchAttempt, BeginRefused, OutcomeUncertain, ProviderFails,
     SettleApiDispatchAttempt, SettlementRefused, CallerDies, vars
<1>2. ASSUME NEW o, NEW status \in {"dispatched", "settled"},
             reservation' = [reservation EXCEPT ![o].status = status]
      PROVE  Fewer(reservation', {})
  BY <1>1, <1>2 DEF Fewer, ApiTypeOK, ReservationRow, Order
<1>3. ASSUME reservation' = reservation
      PROVE  Fewer(reservation', {})
  BY <1>3 DEF Fewer
<1>4. \/ reservation' = reservation
      \/ \E o : \E status \in {"dispatched", "settled"} :
            reservation' = [reservation EXCEPT ![o].status = status]
  <2>1. ASSUME NEW s \in Sender, BeginApiDispatchAttempt(s)
        PROVE  \E o : \E status \in {"dispatched", "settled"} :
                    reservation' = [reservation EXCEPT ![o].status = status]
    BY <2>1 DEF BeginApiDispatchAttempt
  <2>2. ASSUME NEW s \in Sender, NEW tokens, SettleApiDispatchAttempt(s, tokens)
        PROVE  \E o : \E status \in {"dispatched", "settled"} :
                    reservation' = [reservation EXCEPT ![o].status = status]
    BY <2>2 DEF SettleApiDispatchAttempt, Settle
  <2>3. \/ reservation' = reservation
        \/ \E s \in Sender : BeginApiDispatchAttempt(s)
        \/ \E s \in Sender, tokens \in 1..MaxUsage : SettleApiDispatchAttempt(s, tokens)
    BY DEF ExecutionNext, PrepareReservedApiRequest, BeginRefused, OutcomeUncertain,
       ProviderFails, SettlementRefused, CallerDies, tables
  <2> QED
    BY <2>1, <2>2, <2>3
<1> QED
  BY <1>1, <1>2, <1>3, <1>4, HeldKept

LEMMA ClaimHeld ==
    ASSUME PaidInv, NEW i \in Instance, NEW g, NEW c \in Claim, NEW now, NEW q,
           ClaimWithReservation(i, g, c, now, q)
    PROVE  HeldInv'
<1> DEFINE t == planned[i].task
           gone == ExpiredAt(now)
           freed == Ending(gone, "released")
           table == EndedIn(freed, Overdue(now), "expired")
<1>1. TypeOK /\ LockInv /\ ApiTypeOK /\ HeldInv
  BY DEF PaidInv
<1>2. HoldsOn(gone) /\ Holding(c)' /\ claims'[c].task = t
  BY <1>1, ClaimHolds DEF ClaimWithReservation
<1>3. freed \in [Order -> ReservationRow] /\ Fewer(freed, gone)
  BY <1>1, EndingType, EndedFewer
<1>4. CASE AdapterOf[t] # "api"
  BY <1>1, <1>2, <1>3, <1>4, HeldKept DEF ClaimWithReservation
<1>5. CASE AdapterOf[t] = "api"
  <2>1. Reserve(c, q, table, now, now + ClaimTtl)
    BY <1>5 DEF ClaimWithReservation
  <2> HIDE DEF freed
  <2>2. table \in [Order -> ReservationRow]
    BY <1>3, EndedInType
  <2>3. ASSUME NEW d \in Claim, table[d].status = "active"
        PROVE  freed[d].status = "active"
    <3>1. d \in Order /\ freed[d] \in ReservationRow
      BY <1>3 DEF Order
    <3> QED
      BY <2>3, <3>1 DEF EndedIn, ReservationRow
  <2> HIDE DEF table
  <2>4. ASSUME NEW d \in Claim, d # c, reservation'[d].status = "active"
        PROVE  Holding(d)' /\ AdapterOf[claims'[d].task] = "api"
    <3>1. reservation'[d] = table[d]
      BY <2>1, <2>2, <2>4 DEF Reserve, Order
    <3>2. reservation[d].status = "active" /\ d \notin gone
      BY <1>3, <2>3, <2>4, <3>1 DEF Fewer
    <3> QED
      BY <1>1, <1>2, <3>2 DEF HeldInv, HoldsOn
  <2> QED
    BY <1>2, <1>5, <2>4 DEF HeldInv
<1> QED
  BY <1>4, <1>5

LEMMA BoundHeld ==
    ASSUME PaidInv, BoundNext
    PROVE  HeldInv'
<1>1. TypeOK /\ LockInv /\ ApiTypeOK /\ HeldInv
  BY DEF PaidInv
<1>2. ASSUME NEW gone, HoldsOn(gone), reservation' = Ending(gone, "released")
      PROVE  HeldInv'
  BY <1>1, <1>2, EndedFewer, HeldKept
<1>3. ASSUME UNCHANGED <<claims, leases>>, UNCHANGED reservation
      PROVE  HeldInv'
  BY <1>1, <1>3, IdleHolds, HeldKept DEF Fewer
<1>4. ASSUME NEW i, NEW t, NEW now, RouteApiTask(i, t, now)
      PROVE  HeldInv'
  BY <1>3, <1>4 DEF RouteApiTask, RouteTask, apiVars, unscheduled
<1>5. ASSUME NEW i, NEW g, NEW now, HeartbeatReservations(i, g, now)
      PROVE  HeldInv'
  <2> DEFINE gone == ExpiredAt(now)
             freed == Ending(gone, "released")
  <2>1. HoldsOn(gone)
    BY <1>1, <1>5, HeartbeatHolds DEF HeartbeatReservations
  <2>2. freed \in [Order -> ReservationRow] /\ Fewer(freed, gone)
    BY <1>1, EndingType, EndedFewer
  <2> HIDE DEF freed
  <2>3. ASSUME NEW c \in Claim, reservation'[c].status = "active"
        PROVE  freed[c].status = "active"
    <3>1. c \in Order /\ freed[c] \in ReservationRow
      BY <2>2 DEF Order
    <3>2. \/ reservation'[c] = freed[c]
          \/ reservation'[c] = [freed[c] EXCEPT !.expires = now + ClaimTtl]
      BY <1>5, <3>1 DEF HeartbeatReservations, freed
    <3> QED
      BY <2>3, <3>1, <3>2 DEF ReservationRow
  <2> QED
    BY <1>1, <2>1, <2>2, <2>3, HeldKept DEF Fewer
<1>6. ASSUME NEW gone \in SUBSET Active, NEW end \in {"expired", "released"},
             claims' = ClaimsMarked(gone, end), UNCHANGED leases,
             reservation' = Ending(gone, "released")
      PROVE  HeldInv'
  BY <1>1, <1>2, <1>6, SparedHold
<1>7. ASSUME NEW i, NEW now, StopAndRelease(i, now)
      PROVE  HeldInv'
  <2>1. {c \in Active : claims[c].owner = i} \in SUBSET Active
    OBVIOUS
  <2> QED
    BY <1>6, <1>7, <2>1 DEF StopAndRelease, StopSchedulerInstance, unscheduled
<1>8. ASSUME NEW now, RecoverClaimsAndRelease(now)
      PROVE  HeldInv'
  <2>1. ExpiredAt(now) \in SUBSET Active
    BY DEF ExpiredAt
  <2> QED
    BY <1>6, <1>8, <2>1 DEF RecoverClaimsAndRelease, RecoverSchedulerClaims, unscheduled
<1>9. ASSUME EmergencyStopAndRelease
      PROVE  HeldInv'
  BY <1>6, <1>9 DEF EmergencyStopAndRelease, EmergencyStop, unscheduled
<1>10. ASSUME NEW c \in Claim, NEW r \in Run, NEW now, BeginRunWithReservation(c, r, now)
       PROVE  HeldInv'
  <2>1. HoldsOn({})
    BY <1>1, <1>10, BeginHolds DEF BeginRunWithReservation
  <2>2. Fewer(reservation', {})
    BY <1>1, <1>10 DEF BeginRunWithReservation, Fewer, ApiTypeOK, ReservationRow, Order
  <2> QED
    BY <1>1, <2>1, <2>2, HeldKept
<1>11. ASSUME NEW c, \/ ApiAgentExited(c) \/ ApiExecutionFailed(c)
                     \/ WorkerAndSenderDie(c)
       PROVE  HeldInv'
  BY <1>3, <1>11 DEF ApiAgentExited, ApiExecutionFailed, WorkerAndSenderDie, AgentExited,
     ApiRunFailed, WorkerDies, runVars, apiVars, tables
<1>12. ASSUME NEW c \in Claim, FinishRunAndRelease(c)
       PROVE  HeldInv'
  BY <1>1, <1>2, <1>12, FinishHolds DEF FinishRunAndRelease
<1>13. ASSUME NEW now, RecoverLeasesAndRelease(now)
       PROVE  HeldInv'
  BY <1>1, <1>2, <1>13, RecoveryHolds DEF RecoverLeasesAndRelease
<1> QED
  BY <1>4, <1>5, <1>7, <1>8, <1>9, <1>10, <1>11, <1>12, <1>13, ClaimHeld DEF BoundNext

\* A process without an answer closes the run of a claim that reserved nothing.
LEMMA UnboundHeld ==
    ASSUME PaidInv, UnboundNext
    PROVE  HeldInv'
<1>1. /\ TypeOK /\ LockInv /\ HeldInv
      /\ UNCHANGED reservation
  BY DEF PaidInv, UnboundNext, apiVars
<1>2. ASSUME NEW gone, HoldsOn(gone), \A c \in gone : reservation[c].status # "active"
      PROVE  HeldInv'
  BY <1>1, <1>2, HeldKept DEF Fewer
<1>3. CASE \E c \in Claim : RecordProcessOutcome(c)
  <2>1. PICK c \in Claim : RecordProcessOutcome(c)
    BY <1>3
  <2>2. HoldsOn({c})
    BY <1>1, <2>1, OutcomeHolds
  <2>3. reservation[c].status # "active"
    BY <1>1, <2>1 DEF RecordProcessOutcome, HeldInv
  <2> QED
    BY <1>2, <2>2, <2>3
<1>4. CASE \E r \in Run, s \in Supervisor, now \in Observed : ApplyRunCheckpoint(r, s, now)
  BY <1>1, <1>2, <1>4, CheckpointHolds
<1>5. CASE UNCHANGED <<claims, leases>>
  BY <1>2, <1>5, IdleHolds
<1> QED
  BY <1>3, <1>4, <1>5 DEF UnboundNext, Tick, RegisterSchedulerInstance,
     AcquireSchedulerLeader, HeartbeatSchedulerLeader, SetTaskRoutePin, SetPauseNewWork,
     ResumeOperations, PrepareClaim, WorktreeFailed, CreateVerifierRun, FinishVerifierRun,
     CloseVerification, EvaluateCheckpoint, OperatorCheckpointRefused,
     RequestRunCancellation, GraphNext, ReadTaskToEdit, AddDependency, AbandonEdit,
     CompleteReview, ungraphed, unscheduled, runVars

LEMMA HeldStep == PaidInv /\ [ApiNext]_allVars => HeldInv'
<1> SUFFICES ASSUME PaidInv, [ApiNext]_allVars PROVE HeldInv'
  OBVIOUS
<1>1. CASE UNCHANGED allVars
  <2>1. UNCHANGED <<claims, leases>> /\ UNCHANGED reservation
    BY <1>1 DEF allVars, vars, apiVars
  <2>2. Fewer(reservation', {})
    BY <2>1 DEF Fewer
  <2>3. HoldsOn({})
    BY <2>1, IdleHolds
  <2>4. HeldInv
    BY DEF PaidInv
  <2> QED
    BY <2>2, <2>3, <2>4, HeldKept
<1>2. CASE ApiNext
  BY <1>2, BudgetHeld, ExecutionHeld, BoundHeld, UnboundHeld DEF ApiNext
<1> QED
  BY <1>1, <1>2

\* An undispatched reservation of a claim never outlives its claim and its run,
\* whatever expires, stops, fails or is recovered
\* (release_bound_api_reservation_tx and its callers).
THEOREM ReservationsHaveHolders == ApiSpec => []HeldReservationsHaveHolders
<1>1. ApiInit => HeldInv
  BY DEF ApiInit, HeldInv, NoReservation, Order
<1>2. DispatchInv => ApiTypeOK
  BY DEF DispatchInv
<1>3. TypeOK /\ LockInv /\ ApiTypeOK /\ HeldInv => PaidInv
  BY DEF PaidInv
<1>4. HeldInv => HeldReservationsHaveHolders
  BY DEF HeldInv, HeldReservationsHaveHolders
<1>5. ApiSpec => []LockInv
  BY PaidWorkIsControlled, LockInvariant, PTL DEF ImplementsControlPlane
<1>6. ApiSpec => []HeldInv
  BY <1>1, <1>2, <1>3, <1>5, HeldStep, PaidTypes, DispatchInvariant, PTL DEF ApiSpec
<1> QED
  BY <1>4, <1>6, PTL

-----------------------------------------------------------------------------
(* Ceilings.  What a revision has spent and still reserves is a sum over its *)
(* settlements and its live reservations: only an admission lets it grow, a  *)
(* settlement moves no more than was reserved from one part to the other.    *)

CeilingsHold(b) ==
    LET live == Live(b, reservation) IN
    /\ Within(SettledMicros(b) + ReservedMicros(live, reservation), Revision[b].micros)
    /\ Within(SettledTokens(b) + ReservedTokens(live, reservation), Revision[b].tokens)
    /\ Within(SpentRequests(b) + ReservedRequests(live, reservation),
              Revision[b].requests)
    /\ Cardinality(live) <= Revision[b].concurrent

\* What was spent was settled, and no reservation is ahead of its budget.
Booked ==
    /\ IsFiniteSet(spend)
    /\ \A s \in spend : reservation[s.order].status = "settled"
    /\ \A o \in Order : /\ reservation[o].budget <= latest
                        /\ reservation[o].status # "unused" => reservation[o].attempts >= 1

AccountInv == DispatchInv /\ Booked /\ NeverOvercommitted

LEMMA CeilingsEverywhere == NeverOvercommitted <=> \A b \in 1..latest : CeilingsHold(b)
BY DEF NeverOvercommitted, CeilingsHold

LEMMA OrderIsFinite == IsFiniteSet(Order)
BY IdentityAssumption, ApiAssumption, FS_Union DEF Order

LEMMA CeilingsAre ==
    ASSUME ApiTypeOK, NEW b \in 1..latest
    PROVE  /\ Revision[b].micros \in Ceiling /\ Revision[b].tokens \in Ceiling
           /\ Revision[b].requests \in Ceiling /\ Revision[b].concurrent \in Nat
<1>1. latest \in 0..Len(Revision) /\ Revision \in Seq(ConfigRow)
  BY ApiAssumption DEF ApiTypeOK
<1>2. Revision[b] \in ConfigRow
  BY <1>1
<1> QED
  BY <1>2 DEF ConfigRow

LEMMA LessIsWithin ==
    ASSUME NEW total \in Nat, NEW less \in Nat, less <= total, NEW ceiling \in Ceiling,
           Within(total, ceiling)
    PROVE  Within(less, ceiling)
BY DEF Within, Ceiling

\* The types of what is summed.
LEMMA RowsAre ==
    ASSUME DispatchInv, NEW o \in Order
    PROVE  /\ reservation[o] \in ReservationRow
           /\ reservation[o].micros \in Nat /\ reservation[o].tokens \in Nat
           /\ reservation[o].attempts \in Nat /\ reservation[o].budget \in Nat
           /\ reservation[o].attempts * reservation[o].tokens \in Nat
           /\ journal[o] \in Seq(AttemptStatus) /\ Len(journal[o]) \in Nat
           /\ Len(journal[o]) <= reservation[o].attempts
           /\ reservation[o].attempts - Len(journal[o]) \in Nat
<1>1. reservation[o] \in ReservationRow /\ journal[o] \in Seq(AttemptStatus)
  BY DEF DispatchInv, ApiTypeOK
<1>2. /\ reservation[o].micros \in Nat /\ reservation[o].tokens \in Nat
      /\ reservation[o].attempts \in Nat /\ reservation[o].budget \in Nat
  BY <1>1 DEF ReservationRow
<1>3. Len(journal[o]) \in Nat /\ Len(journal[o]) <= reservation[o].attempts
  BY <1>1 DEF DispatchInv, JournalIsLinear
<1> QED
  BY <1>1, <1>2, <1>3, ProductIsNat

LEMMA RowsAfter ==
    ASSUME DispatchInv', NEW o \in Order
    PROVE  /\ reservation'[o].micros \in Nat /\ reservation'[o].tokens \in Nat
           /\ reservation'[o].attempts \in Nat
           /\ reservation'[o].attempts * reservation'[o].tokens \in Nat
           /\ journal'[o] \in Seq(AttemptStatus) /\ Len(journal'[o]) \in Nat
           /\ reservation'[o].attempts - Len(journal'[o]) \in Nat
<1>1. reservation'[o] \in ReservationRow /\ journal'[o] \in Seq(AttemptStatus)
  BY DEF DispatchInv, ApiTypeOK
<1>2. /\ reservation'[o].micros \in Nat /\ reservation'[o].tokens \in Nat
      /\ reservation'[o].attempts \in Nat
  BY <1>1 DEF ReservationRow
<1>3. Len(journal'[o]) \in Nat /\ Len(journal'[o]) <= reservation'[o].attempts
  BY <1>1 DEF DispatchInv, JournalIsLinear
<1> QED
  BY <1>1, <1>2, <1>3, ProductIsNat

LEMMA RecordsAre ==
    ASSUME ApiTypeOK, NEW s \in spend
    PROVE  s.order \in Order /\ s.tokens \in Nat /\ s.micros \in Nat
BY DEF ApiTypeOK, SpendRow

LEMMA SummedSetsAreFinite ==
    ASSUME Booked, NEW b, NEW table
    PROVE  /\ IsFiniteSet(SettledFor(b)) /\ SettledFor(b) \subseteq spend
           /\ IsFiniteSet({s \in SettledFor(b) : journal[s.order] = <<>>})
           /\ IsFiniteSet(Against(b, table)) /\ Against(b, table) \subseteq Order
           /\ IsFiniteSet(Live(b, table)) /\ Live(b, table) \subseteq Against(b, table)
<1>1. Against(b, table) \subseteq Order /\ Live(b, table) \subseteq Against(b, table)
  BY DEF Against, Live
<1>2. IsFiniteSet(Against(b, table))
  BY <1>1, OrderIsFinite, FS_Subset
<1>3. IsFiniteSet(Live(b, table))
  BY <1>1, <1>2, FS_Subset
<1>4. SettledFor(b) \subseteq spend /\ IsFiniteSet(SettledFor(b))
  BY FS_Subset DEF SettledFor, Booked
<1>5. IsFiniteSet({s \in SettledFor(b) : journal[s.order] = <<>>})
  <2>1. {s \in SettledFor(b) : journal[s.order] = <<>>} \subseteq SettledFor(b)
    OBVIOUS
  <2> QED
    BY <1>4, <2>1, FS_Subset
<1> QED
  BY <1>1, <1>2, <1>3, <1>4, <1>5

\* The parts of the sums are numbers.
LEMMA SettledAreNat ==
    ASSUME DispatchInv, Booked, NEW b
    PROVE  SettledMicros(b) \in Nat /\ SettledTokens(b) \in Nat /\ SpentRequests(b) \in Nat
<1> DEFINE empty == {s \in SettledFor(b) : journal[s.order] = <<>>}
           all == Against(b, reservation)
<1>1. /\ IsFiniteSet(SettledFor(b)) /\ SettledFor(b) \subseteq spend
      /\ IsFiniteSet(empty) /\ IsFiniteSet(all) /\ all \subseteq Order
  BY SummedSetsAreFinite
<1>2. \A s \in SettledFor(b) : s.tokens \in Nat /\ s.micros \in Nat
  BY <1>1, RecordsAre DEF DispatchInv
<1>3. /\ [s \in SettledFor(b) |-> s.micros] \in [SettledFor(b) -> Nat]
      /\ [s \in SettledFor(b) |-> s.tokens] \in [SettledFor(b) -> Nat]
  BY <1>2
<1>4. SettledMicros(b) \in Nat /\ SettledTokens(b) \in Nat
  BY <1>1, <1>3, TotalIsNat DEF SettledMicros, SettledTokens
<1>5. [o \in all |-> Len(journal[o])] \in [all -> Nat]
  BY <1>1, RowsAre
<1>6. Cardinality(empty) \in Nat
  BY <1>1, FS_CardinalityType
<1>7. SumFunction([o \in all |-> Len(journal[o])]) \in Nat
  BY <1>1, <1>5, TotalIsNat
<1>8. SpentRequests(b) = SumFunction([o \in all |-> Len(journal[o])]) + Cardinality(empty)
  BY DEF SpentRequests
<1> QED
  BY <1>4, <1>6, <1>7, <1>8

LEMMA ReservedAreNat ==
    ASSUME DispatchInv, NEW live \in SUBSET Order
    PROVE  /\ ReservedMicros(live, reservation) \in Nat
           /\ ReservedTokens(live, reservation) \in Nat
           /\ ReservedRequests(live, reservation) \in Nat
<1>1. IsFiniteSet(live)
  BY OrderIsFinite, FS_Subset
<1>2. /\ [o \in live |-> reservation[o].micros] \in [live -> Nat]
      /\ [o \in live |-> reservation[o].attempts * reservation[o].tokens] \in [live -> Nat]
      /\ [o \in live |-> reservation[o].attempts - Len(journal[o])] \in [live -> Nat]
  BY RowsAre
<1> QED
  BY <1>1, <1>2, TotalIsNat DEF ReservedMicros, ReservedTokens, ReservedRequests

\* Reservations that end give back what they reserved.
LEMMA ReservedFall ==
    ASSUME DispatchInv, NEW live \in SUBSET Order, NEW less \in SUBSET live,
           \A o \in less : /\ reservation'[o].micros = reservation[o].micros
                           /\ reservation'[o].tokens = reservation[o].tokens
                           /\ reservation'[o].attempts = reservation[o].attempts
                           /\ Len(journal'[o]) = Len(journal[o])
    PROVE  /\ ReservedMicros(less, reservation') \in Nat
           /\ ReservedMicros(less, reservation') <= ReservedMicros(live, reservation)
           /\ ReservedTokens(less, reservation') \in Nat
           /\ ReservedTokens(less, reservation') <= ReservedTokens(live, reservation)
           /\ ReservedRequests(less, reservation)' \in Nat
           /\ ReservedRequests(less, reservation)' <= ReservedRequests(live, reservation)
<1>1. IsFiniteSet(live) /\ IsFiniteSet(less)
  BY OrderIsFinite, FS_Subset
<1> DEFINE micros(S) == [o \in S |-> reservation[o].micros]
           tokens(S) == [o \in S |-> reservation[o].attempts * reservation[o].tokens]
           requests(S) == [o \in S |-> reservation[o].attempts - Len(journal[o])]
<1>2. ASSUME NEW S \in SUBSET Order
      PROVE  micros(S) \in [S -> Nat] /\ tokens(S) \in [S -> Nat] /\ requests(S) \in [S -> Nat]
  BY RowsAre
<1>3. /\ ReservedMicros(less, reservation') = SumFunction(micros(less))
      /\ ReservedTokens(less, reservation') = SumFunction(tokens(less))
      /\ ReservedRequests(less, reservation)' = SumFunction(requests(less))
  <2>1. /\ [o \in less |-> reservation'[o].micros] = micros(less)
        /\ [o \in less |-> reservation'[o].attempts * reservation'[o].tokens] = tokens(less)
        /\ [o \in less |-> reservation'[o].attempts - Len(journal'[o])] = requests(less)
    OBVIOUS
  <2> QED
    BY <2>1 DEF ReservedMicros, ReservedTokens, ReservedRequests
<1>4. /\ ReservedMicros(live, reservation) = SumFunction(micros(live))
      /\ ReservedTokens(live, reservation) = SumFunction(tokens(live))
      /\ ReservedRequests(live, reservation) = SumFunction(requests(live))
  BY DEF ReservedMicros, ReservedTokens, ReservedRequests
<1>5. \A o \in less : /\ micros(less)[o] = micros(live)[o]
                      /\ tokens(less)[o] = tokens(live)[o]
                      /\ requests(less)[o] = requests(live)[o]
  OBVIOUS
<1>6. \A n \in Nat : n <= n
  OBVIOUS
<1> HIDE DEF micros, tokens, requests
<1>7. /\ SumFunction(micros(less)) \in Nat
      /\ SumFunction(tokens(less)) \in Nat
      /\ SumFunction(requests(less)) \in Nat
  BY <1>1, <1>2, TotalIsNat
<1>8. SumFunction(micros(less)) <= SumFunction(micros(live))
  <2>1. micros(live) \in [live -> Nat] /\ micros(less) \in [less -> Nat]
    BY <1>2
  <2>2. \A o \in less : micros(less)[o] <= micros(live)[o]
    BY <1>5, <2>1
  <2> QED
    BY <1>1, <2>1, <2>2, TotalAtMost
<1>9. SumFunction(tokens(less)) <= SumFunction(tokens(live))
  <2>1. tokens(live) \in [live -> Nat] /\ tokens(less) \in [less -> Nat]
    BY <1>2
  <2>2. \A o \in less : tokens(less)[o] <= tokens(live)[o]
    BY <1>5, <2>1
  <2> QED
    BY <1>1, <2>1, <2>2, TotalAtMost
<1>10. SumFunction(requests(less)) <= SumFunction(requests(live))
  <2>1. requests(live) \in [live -> Nat] /\ requests(less) \in [less -> Nat]
    BY <1>2
  <2>2. \A o \in less : requests(less)[o] <= requests(live)[o]
    BY <1>5, <2>1
  <2> QED
    BY <1>1, <2>1, <2>2, TotalAtMost
<1> QED
  BY <1>3, <1>4, <1>7, <1>8, <1>9, <1>10

\* One more live reservation adds the worst case of its attempts.
Counted(more, p) ==
    /\ more[p].micros \in Nat
    /\ more[p].attempts * more[p].tokens \in Nat
    /\ more[p].attempts - Len(journal[p]) \in Nat

OneMore(live, o, table, more) ==
    /\ live \in SUBSET Order /\ o \in live
    /\ \A p \in live \ {o} : more[p] = table[p]
    /\ \A p \in live : Counted(more, p)

Adds(live, o, table, more) ==
    LET less == live \ {o} IN
    /\ ReservedMicros(live, more) = ReservedMicros(less, table) + more[o].micros
    /\ ReservedTokens(live, more)
            = ReservedTokens(less, table) + more[o].attempts * more[o].tokens
    /\ ReservedRequests(live, more)
            = ReservedRequests(less, table) + (more[o].attempts - Len(journal[o]))

LEMMA ReservedWith ==
    ASSUME NEW live, NEW o, NEW table, NEW more, OneMore(live, o, table, more)
    PROVE  Adds(live, o, table, more)
<1> PICK less : less = live \ {o}
  OBVIOUS
<1>1. /\ live \in SUBSET Order /\ o \in live
      /\ \A p \in less : more[p] = table[p]
      /\ \A p \in live : Counted(more, p)
  BY DEF OneMore
<1>2. live = less \cup {o} /\ o \notin less
  BY <1>1
<1>3. IsFiniteSet(less)
  BY <1>1, OrderIsFinite, FS_Subset
<1>4. /\ [p \in less |-> table[p].micros] = [p \in less |-> more[p].micros]
      /\ [p \in less |-> table[p].attempts * table[p].tokens]
            = [p \in less |-> more[p].attempts * more[p].tokens]
      /\ [p \in less |-> table[p].attempts - Len(journal[p])]
            = [p \in less |-> more[p].attempts - Len(journal[p])]
  BY <1>1
<1>5. \A p \in less \cup {o} : Counted(more, p)
  BY <1>2, <1>1
<1>6. ASSUME NEW S \in SUBSET (less \cup {o})
      PROVE  /\ [p \in S |-> more[p].micros] \in [S -> Nat]
             /\ [p \in S |-> more[p].attempts * more[p].tokens] \in [S -> Nat]
             /\ [p \in S |-> more[p].attempts - Len(journal[p])] \in [S -> Nat]
  BY <1>5 DEF Counted
<1>7. less \in SUBSET (less \cup {o}) /\ less \cup {o} \in SUBSET (less \cup {o})
  OBVIOUS
<1>8. SumFunction([p \in less \cup {o} |-> more[p].micros])
        = SumFunction([p \in less |-> more[p].micros]) + more[o].micros
  <2> DEFINE e == [p \in less \cup {o} |-> more[p].micros]
  <2>1. e \in [less \cup {o} -> Nat]
    BY <1>6, <1>7
  <2>2. [p \in less |-> e[p]] = [p \in less |-> more[p].micros] /\ e[o] = more[o].micros
    OBVIOUS
  <2> HIDE DEF e
  <2>3. SumFunction(e) = SumFunction([p \in less |-> e[p]]) + e[o]
    BY <1>3, <1>2, <2>1, TotalWith
  <2> QED
    BY <2>2, <2>3 DEF e
<1>9. SumFunction([p \in less \cup {o} |-> more[p].attempts * more[p].tokens])
        = SumFunction([p \in less |-> more[p].attempts * more[p].tokens])
            + more[o].attempts * more[o].tokens
  <2> DEFINE e == [p \in less \cup {o} |-> more[p].attempts * more[p].tokens]
  <2>1. e \in [less \cup {o} -> Nat]
    BY <1>6, <1>7
  <2>2. [p \in less |-> e[p]] = [p \in less |-> more[p].attempts * more[p].tokens] /\ e[o] = more[o].attempts * more[o].tokens
    OBVIOUS
  <2> HIDE DEF e
  <2>3. SumFunction(e) = SumFunction([p \in less |-> e[p]]) + e[o]
    BY <1>3, <1>2, <2>1, TotalWith
  <2> QED
    BY <2>2, <2>3 DEF e
<1>10. SumFunction([p \in less \cup {o} |-> more[p].attempts - Len(journal[p])])
        = SumFunction([p \in less |-> more[p].attempts - Len(journal[p])])
            + (more[o].attempts - Len(journal[o]))
  <2> DEFINE e == [p \in less \cup {o} |-> more[p].attempts - Len(journal[p])]
  <2>1. e \in [less \cup {o} -> Nat]
    BY <1>6, <1>7
  <2>2. [p \in less |-> e[p]] = [p \in less |-> more[p].attempts - Len(journal[p])] /\ e[o] = more[o].attempts - Len(journal[o])
    OBVIOUS
  <2> HIDE DEF e
  <2>3. SumFunction(e) = SumFunction([p \in less |-> e[p]]) + e[o]
    BY <1>3, <1>2, <2>1, TotalWith
  <2> QED
    BY <2>2, <2>3 DEF e
<1> QED
  BY <1>4, <1>8, <1>9, <1>10, <1>2 DEF Adds, ReservedMicros, ReservedTokens, ReservedRequests

\* A revision stays within its ceilings when its totals do not grow.
LEMMA TotalsFall ==
    ASSUME DispatchInv, Booked, NEW b \in 1..latest, CeilingsHold(b),
           NEW live, live = Live(b, reservation)', live \subseteq Live(b, reservation),
           NEW micros \in Nat, NEW tokens \in Nat, NEW requests \in Nat,
           micros = SettledMicros(b)' + ReservedMicros(live, reservation'),
           tokens = SettledTokens(b)' + ReservedTokens(live, reservation'),
           requests = SpentRequests(b)' + ReservedRequests(live, reservation)',
           micros <= SettledMicros(b) + ReservedMicros(Live(b, reservation), reservation),
           tokens <= SettledTokens(b) + ReservedTokens(Live(b, reservation), reservation),
           requests <= SpentRequests(b)
                         + ReservedRequests(Live(b, reservation), reservation)
    PROVE  CeilingsHold(b)'
<1> DEFINE before == Live(b, reservation)
<1>1. /\ IsFiniteSet(before) /\ before \in SUBSET Order
      /\ IsFiniteSet(live) /\ Cardinality(live) <= Cardinality(before)
      /\ Cardinality(live) \in Nat /\ Cardinality(before) \in Nat
  BY SummedSetsAreFinite, FS_Subset, FS_CardinalityType
<1>2. /\ SettledMicros(b) + ReservedMicros(before, reservation) \in Nat
      /\ SettledTokens(b) + ReservedTokens(before, reservation) \in Nat
      /\ SpentRequests(b) + ReservedRequests(before, reservation) \in Nat
  <2> HIDE DEF before
  <2> QED
    BY <1>1, SettledAreNat, ReservedAreNat
<1>3. /\ Revision[b].micros \in Ceiling /\ Revision[b].tokens \in Ceiling
      /\ Revision[b].requests \in Ceiling /\ Revision[b].concurrent \in Nat
  BY CeilingsAre DEF DispatchInv
<1>4. /\ Within(SettledMicros(b) + ReservedMicros(before, reservation), Revision[b].micros)
      /\ Within(SettledTokens(b) + ReservedTokens(before, reservation), Revision[b].tokens)
      /\ Within(SpentRequests(b) + ReservedRequests(before, reservation),
                Revision[b].requests)
      /\ Cardinality(before) <= Revision[b].concurrent
  BY DEF CeilingsHold
<1>5. /\ Within(micros, Revision[b].micros)
      /\ Within(tokens, Revision[b].tokens)
      /\ Within(requests, Revision[b].requests)
  <2> HIDE DEF before
  <2> QED
    BY <1>2, <1>3, <1>4, LessIsWithin DEF before
<1>6. Cardinality(live) <= Revision[b].concurrent
  <2> HIDE DEF before
  <2> QED
    BY <1>1, <1>3, <1>4
<1> QED
  BY <1>5, <1>6 DEF CeilingsHold, ReservedMicros, ReservedTokens, ReservedRequests

\* What was spent on a revision stays the same, however its attempts conclude.
LEMMA SpentKept ==
    ASSUME DispatchInv, DispatchInv', Booked, NEW b,
           SettledFor(b)' = SettledFor(b),
           Against(b, reservation)' = Against(b, reservation),
           \A o \in Against(b, reservation) : Len(journal'[o]) = Len(journal[o])
    PROVE  /\ SettledMicros(b)' = SettledMicros(b)
           /\ SettledTokens(b)' = SettledTokens(b)
           /\ SpentRequests(b)' = SpentRequests(b)
<1>1. SettledMicros(b)' = SettledMicros(b) /\ SettledTokens(b)' = SettledTokens(b)
  BY DEF SettledMicros, SettledTokens
<1>2. ASSUME NEW s \in SettledFor(b)
      PROVE  (journal'[s.order] = <<>>) <=> (journal[s.order] = <<>>)
  <2>1. s.order \in Order /\ s.order \in Against(b, reservation)
    BY RecordsAre DEF SettledFor, Booked, Against, DispatchInv
  <2>2. /\ journal[s.order] \in Seq(AttemptStatus)
        /\ journal'[s.order] \in Seq(AttemptStatus)
    BY <2>1 DEF DispatchInv, ApiTypeOK
  <2>3. Len(journal'[s.order]) = Len(journal[s.order])
    BY <2>1
  <2> QED
    BY <2>2, <2>3, EmptySeq
<1>3. [o \in Against(b, reservation)' |-> Len(journal'[o])]
        = [o \in Against(b, reservation) |-> Len(journal[o])]
  OBVIOUS
<1>4. {s \in SettledFor(b)' : journal'[s.order] = <<>>}
        = {s \in SettledFor(b) : journal[s.order] = <<>>}
  BY <1>2
<1> QED
  BY <1>1, <1>3, <1>4 DEF SpentRequests

\* The row of a reservation that goes on, is dispatched or ends unsettled.
Lasts(table, o) ==
    /\ table[o].budget = reservation[o].budget
    /\ table[o].attempts = reservation[o].attempts
    /\ table[o].tokens = reservation[o].tokens
    /\ table[o].micros = reservation[o].micros
    /\ \/ table[o].status = reservation[o].status
       \/ /\ reservation[o].status = "active"
          /\ table[o].status \in {"dispatched", "released", "expired"}

\* Whether order o counts for revision b, before or after the step.
Foreign(o, b) ==
    /\ reservation'[o].budget # b
    /\ reservation[o].status = "unused" \/ reservation[o].budget # b

LengthKept(o) == Len(journal'[o]) = Len(journal[o])

\* A revision for which orders only go on or end stays within its ceilings.
LEMMA OthersKept ==
    ASSUME DispatchInv, DispatchInv', Booked, NEW b \in 1..latest, CeilingsHold(b),
           SettledFor(b)' = SettledFor(b),
           \A o \in Order : (Lasts(reservation', o) /\ LengthKept(o)) \/ Foreign(o, b)
    PROVE  CeilingsHold(b)'
<1> DEFINE before == Live(b, reservation)
<1>1. Against(b, reservation)' = Against(b, reservation)
  BY DEF Against, Lasts, Foreign
<1>2. before \in SUBSET Order /\ Live(b, reservation)' \in SUBSET before
  BY DEF Live, Against, Lasts, Foreign
<1>3. PICK live \in SUBSET before : live = Live(b, reservation)'
  BY <1>2
<1>4. \A o \in Against(b, reservation) : Lasts(reservation', o) /\ LengthKept(o)
  BY DEF Against, Foreign
<1>5. /\ SettledMicros(b)' = SettledMicros(b)
      /\ SettledTokens(b)' = SettledTokens(b)
      /\ SpentRequests(b)' = SpentRequests(b)
  BY <1>1, <1>4, SpentKept DEF LengthKept
<1>6. \A o \in live : /\ reservation'[o].micros = reservation[o].micros
                      /\ reservation'[o].tokens = reservation[o].tokens
                      /\ reservation'[o].attempts = reservation[o].attempts
                      /\ Len(journal'[o]) = Len(journal[o])
  BY <1>3, <1>4 DEF Live, Against, Lasts, LengthKept
<1> HIDE DEF before
<1>7. /\ ReservedMicros(live, reservation') \in Nat
      /\ ReservedMicros(live, reservation') <= ReservedMicros(before, reservation)
      /\ ReservedTokens(live, reservation') \in Nat
      /\ ReservedTokens(live, reservation') <= ReservedTokens(before, reservation)
      /\ ReservedRequests(live, reservation)' \in Nat
      /\ ReservedRequests(live, reservation)' <= ReservedRequests(before, reservation)
  BY <1>2, <1>6, ReservedFall
<1>8. /\ SettledMicros(b) \in Nat /\ SettledTokens(b) \in Nat /\ SpentRequests(b) \in Nat
      /\ ReservedMicros(before, reservation) \in Nat
      /\ ReservedTokens(before, reservation) \in Nat
      /\ ReservedRequests(before, reservation) \in Nat
  BY <1>2, SettledAreNat, ReservedAreNat
<1> DEFINE micros == SettledMicros(b)' + ReservedMicros(live, reservation')
           tokens == SettledTokens(b)' + ReservedTokens(live, reservation')
           requests == SpentRequests(b)' + ReservedRequests(live, reservation)'
<1>9. /\ micros \in Nat /\ tokens \in Nat /\ requests \in Nat
      /\ micros <= SettledMicros(b) + ReservedMicros(before, reservation)
      /\ tokens <= SettledTokens(b) + ReservedTokens(before, reservation)
      /\ requests <= SpentRequests(b) + ReservedRequests(before, reservation)
  BY <1>5, <1>7, <1>8
<1> HIDE DEF micros, tokens, requests
<1> QED
  BY <1>2, <1>3, <1>9, TotalsFall DEF before, micros, tokens, requests

CarryStep ==
    /\ \A o \in Order : Lasts(reservation', o) /\ LengthKept(o)
    /\ UNCHANGED <<latest, spend>>

LEMMA CarryKeepsCeilings ==
    ASSUME AccountInv, DispatchInv', CarryStep
    PROVE  Booked' /\ NeverOvercommitted'
<1>1. latest' = latest /\ DispatchInv /\ Booked
  BY DEF CarryStep, AccountInv
<1>2. Booked'
  BY <1>1, RecordsAre DEF Booked, CarryStep, Lasts, DispatchInv
<1>3. ASSUME NEW b \in 1..latest PROVE CeilingsHold(b)'
  <2>1. CeilingsHold(b)
    BY CeilingsEverywhere DEF AccountInv
  <2>2. SettledFor(b)' = SettledFor(b)
    BY <1>1, RecordsAre DEF SettledFor, CarryStep, Lasts, DispatchInv
  <2> QED
    BY <1>1, <2>1, <2>2, OthersKept DEF CarryStep
<1> QED
  BY <1>1, <1>2, <1>3 DEF NeverOvercommitted, CeilingsHold

\* A new revision begins with nothing spent and nothing reserved.
LEMMA ConfigureKeepsCeilings ==
    ASSUME AccountInv, DispatchInv', latest' = latest + 1,
           UNCHANGED <<reservation, journal, spend>>
    PROVE  Booked' /\ NeverOvercommitted'
<1>1. DispatchInv /\ Booked /\ latest \in Nat
  BY ApiAssumption DEF AccountInv, DispatchInv, ApiTypeOK
<1>2. Booked'
  <2>1. \A o \in Order : reservation[o].budget \in Nat
    BY <1>1, RowsAre
  <2> QED
    BY <1>1, <2>1 DEF Booked
<1>3. ASSUME NEW b \in 1..latest' PROVE CeilingsHold(b)'
  <2>1. CASE b \in 1..latest
    <3>1. CeilingsHold(b)
      BY <2>1, CeilingsEverywhere DEF AccountInv
    <3>2. SettledFor(b)' = SettledFor(b)
      BY DEF SettledFor
    <3>3. \A o \in Order : Lasts(reservation', o) /\ LengthKept(o)
      BY DEF Lasts, LengthKept
    <3> QED
      BY <1>1, <2>1, <3>1, <3>2, <3>3, OthersKept
  <2>2. CASE b = latest + 1
    <3>1. \A o \in Order : reservation[o].budget # b
      BY <1>1, <2>2, RowsAre DEF Booked
    <3>2. Against(b, reservation)' = {} /\ Live(b, reservation)' = {}
      BY <3>1 DEF Live, Against
    <3>3. SettledFor(b)' = {}
      BY <1>1, <3>1, RecordsAre DEF SettledFor, DispatchInv
    <3>4. /\ SettledMicros(b)' = 0 /\ SettledTokens(b)' = 0
          /\ SumFunction([o \in Against(b, reservation)' |-> Len(journal'[o])]) = 0
      BY <3>2, <3>3, TotalOfNone DEF SettledMicros, SettledTokens
    <3>5. SpentRequests(b)' = 0
      <4>1. Cardinality({s \in SettledFor(b)' : journal'[s.order] = <<>>}) = 0
        <5>1. {s \in SettledFor(b)' : journal'[s.order] = <<>>} = {}
          BY <3>3
        <5> QED
          BY <5>1, FS_EmptySet
      <4> QED
        BY <3>4, <4>1 DEF SpentRequests
    <3>6. /\ ReservedMicros({}, reservation') = 0
          /\ ReservedTokens({}, reservation') = 0
          /\ ReservedRequests({}, reservation)' = 0
      BY TotalOfNone DEF ReservedMicros, ReservedTokens, ReservedRequests
    <3>7. /\ Revision[b].micros \in Ceiling /\ Revision[b].tokens \in Ceiling
          /\ Revision[b].requests \in Ceiling /\ Revision[b].concurrent \in Nat
      <4>1. latest' \in 0..Len(Revision) /\ Revision \in Seq(ConfigRow)
        BY ApiAssumption DEF DispatchInv, ApiTypeOK
      <4>2. Revision[b] \in ConfigRow
        BY <1>1, <1>3, <4>1
      <4> QED
        BY <4>2 DEF ConfigRow
    <3>8. \A c \in Ceiling : Within(0, c)
      BY DEF Within, Ceiling
    <3>9. Cardinality({}) <= Revision[b].concurrent
      BY <3>7, FS_EmptySet
    <3> QED
      BY <3>2, <3>4, <3>5, <3>6, <3>7, <3>8, <3>9
         DEF CeilingsHold, ReservedMicros, ReservedTokens, ReservedRequests
  <2> QED
    BY <1>1, <1>3, <2>1, <2>2
<1> QED
  BY <1>2, <1>3 DEF NeverOvercommitted, CeilingsHold

\* Two sums that differ by one, and one that moves from a sum to another.
LEMMA OneApart ==
    ASSUME NEW a \in Nat, NEW b \in Nat, NEW x \in Nat, NEW y \in Nat,
           x + 1 = y, a + y = b + x
    PROVE  a + 1 = b
OBVIOUS

LEMMA SameTotal ==
    ASSUME NEW spent \in Nat, NEW left \in Nat, NEW n, n = spent + left
    PROVE  n \in Nat /\ n <= spent + left
OBVIOUS

LEMMA OneMoved ==
    ASSUME NEW spent \in Nat, NEW left \in Nat, NEW n \in Nat, NEW m \in Nat,
           n = spent + 1, m + 1 = left
    PROVE  n + m = spent + left
OBVIOUS

\* Beginning an attempt turns one reserved request into a spent one.
LEMMA BegunKeepsCeilings ==
    ASSUME AccountInv, DispatchInv', NEW o \in Order,
           reservation[o].status \in {"active", "dispatched"},
           reservation' = [reservation EXCEPT ![o].status = "dispatched"],
           Len(journal'[o]) = Len(journal[o]) + 1,
           \A p \in Order \ {o} : journal'[p] = journal[p],
           UNCHANGED <<latest, spend>>
    PROVE  Booked' /\ NeverOvercommitted'
<1>1. DispatchInv /\ Booked
  BY DEF AccountInv
<1>2. /\ reservation \in [Order -> ReservationRow] /\ reservation[o] \in ReservationRow
      /\ reservation[o].budget \in Nat
  BY <1>1, RowsAre DEF DispatchInv, ApiTypeOK
<1>3. /\ Lasts(reservation', o) /\ reservation'[o].status = "dispatched"
      /\ \A p \in Order \ {o} : reservation'[p] = reservation[p]
  BY <1>2 DEF Lasts, ReservationRow
<1>4. \A p \in Order \ {o} : Lasts(reservation', p) /\ LengthKept(p)
  BY <1>3 DEF Lasts, LengthKept
<1>5. \A s \in spend : s.order \in Order \ {o}
  BY <1>1, RecordsAre DEF Booked, DispatchInv
<1>6. Booked'
  BY <1>1, <1>3, <1>5 DEF Booked, Lasts
<1>7. ASSUME NEW b \in 1..latest PROVE CeilingsHold(b)'
  <2>1. CeilingsHold(b)
    BY CeilingsEverywhere DEF AccountInv
  <2>2. SettledFor(b)' = SettledFor(b)
    BY <1>3, <1>5 DEF SettledFor
  <2>3. CASE reservation[o].budget # b
    <3>1. Foreign(o, b)
      BY <1>3, <2>3 DEF Foreign, Lasts
    <3> QED
      BY <1>1, <1>4, <2>1, <2>2, <3>1, OthersKept
  <2>4. CASE reservation[o].budget = b
    <3>1. PICK live, all : /\ live = Live(b, reservation)
                           /\ all = Against(b, reservation)
      OBVIOUS
    <3>2. o \in live /\ o \in all /\ live \in SUBSET Order /\ all \in SUBSET Order
      BY <2>4, <3>1 DEF Against, Live
    <3>3. IsFiniteSet(live) /\ IsFiniteSet(all)
      BY <1>1, <3>1, SummedSetsAreFinite
    <3>4. Against(b, reservation)' = all /\ Live(b, reservation)' = live
      BY <1>3, <3>1 DEF Against, Live, Lasts
    <3>5. SettledMicros(b)' = SettledMicros(b) /\ SettledTokens(b)' = SettledTokens(b)
      BY <2>2 DEF SettledMicros, SettledTokens
    <3>6. SpentRequests(b)' = SpentRequests(b) + 1
      <4> DEFINE f == [p \in all |-> Len(journal[p])]
                 e == [p \in all |-> Len(journal'[p])]
                 empty == {s \in SettledFor(b) : journal[s.order] = <<>>}
      <4>1. f \in [all -> Nat] /\ e \in [all -> Nat]
        <5>1. \A p \in all : Len(journal[p]) \in Nat /\ Len(journal'[p]) \in Nat
          BY <1>1, <3>2, RowsAre
        <5> QED
          BY <5>1
      <4>2. \A p \in all \ {o} : e[p] = f[p]
        BY <3>2
      <4>3. e[o] = f[o] + 1
        BY <3>2
      <4>4. {s \in SettledFor(b)' : journal'[s.order] = <<>>} = empty
        BY <1>5, <2>2 DEF SettledFor
      <4>5. Cardinality(empty) \in Nat
        BY <1>1, SummedSetsAreFinite, FS_CardinalityType
      <4>6. /\ SpentRequests(b) = SumFunction(f) + Cardinality(empty)
            /\ SpentRequests(b)' = SumFunction(e) + Cardinality(empty)
        BY <3>1, <3>4, <4>4 DEF SpentRequests
      <4> HIDE DEF e, f, empty
      <4>7. SumFunction(e) + f[o] = SumFunction(f) + e[o]
        BY <3>2, <3>3, <4>1, <4>2, TotalChanged
      <4>8. SumFunction(e) \in Nat /\ SumFunction(f) \in Nat /\ f[o] \in Nat
        BY <3>2, <3>3, <4>1, TotalIsNat
      <4>9. SumFunction(e) = SumFunction(f) + 1
        BY <4>7, <4>8, <4>3
      <4> QED
        BY <4>5, <4>6, <4>8, <4>9
    <3>7. /\ ReservedMicros(live, reservation') = ReservedMicros(live, reservation)
          /\ ReservedTokens(live, reservation') = ReservedTokens(live, reservation)
      <4>1. \A p \in live : Lasts(reservation', p)
        BY <1>3, <1>4, <3>2
      <4>2. /\ [p \in live |-> reservation'[p].micros] = [p \in live |-> reservation[p].micros]
            /\ [p \in live |-> reservation'[p].attempts * reservation'[p].tokens]
                = [p \in live |-> reservation[p].attempts * reservation[p].tokens]
        BY <4>1 DEF Lasts
      <4> QED
        BY <4>2 DEF ReservedMicros, ReservedTokens
    <3>8. ReservedRequests(live, reservation)' + 1 = ReservedRequests(live, reservation)
      <4> DEFINE f == [p \in live |-> reservation[p].attempts - Len(journal[p])]
                 e == [p \in live |-> reservation'[p].attempts - Len(journal'[p])]
      <4>1. f \in [live -> Nat]
        BY <1>1, <3>2, RowsAre
      <4>2. \A p \in live \ {o} : e[p] = f[p]
        BY <1>3, <3>2
      <4>3. e[o] + 1 = f[o]
        <5>1. reservation'[o].attempts = reservation[o].attempts
          BY <1>3 DEF Lasts
        <5>2. reservation[o].attempts \in Nat /\ Len(journal[o]) \in Nat
          BY <1>1, RowsAre
        <5> QED
          BY <3>2, <5>1, <5>2
      <4>4. e \in [live -> Nat]
        BY <3>2, RowsAfter
      <4>5. /\ ReservedRequests(live, reservation) = SumFunction(f)
            /\ ReservedRequests(live, reservation)' = SumFunction(e)
        BY DEF ReservedRequests
      <4> HIDE DEF e, f
      <4>6. SumFunction(e) + f[o] = SumFunction(f) + e[o]
        BY <3>2, <3>3, <4>1, <4>2, <4>4, TotalChanged
      <4>7. SumFunction(e) \in Nat /\ SumFunction(f) \in Nat /\ f[o] \in Nat /\ e[o] \in Nat
        BY <3>2, <3>3, <4>1, <4>4, TotalIsNat
      <4>8. SumFunction(e) + 1 = SumFunction(f)
        BY <4>3, <4>6, <4>7, OneApart
      <4> QED
        BY <4>5, <4>8
    <3>9. /\ SettledMicros(b) \in Nat /\ SettledTokens(b) \in Nat /\ SpentRequests(b) \in Nat
          /\ ReservedMicros(live, reservation) \in Nat
          /\ ReservedTokens(live, reservation) \in Nat
          /\ ReservedRequests(live, reservation) \in Nat
      BY <1>1, <3>2, SettledAreNat, ReservedAreNat
    <3>10. ReservedRequests(live, reservation)' \in Nat
      <4>1. \A p \in live : reservation'[p].attempts - Len(journal'[p]) \in Nat
        BY <3>2, RowsAfter
      <4>2. [p \in live |-> reservation'[p].attempts - Len(journal'[p])] \in [live -> Nat]
        BY <4>1
      <4> QED
        BY <3>3, <4>2, TotalIsNat DEF ReservedRequests
    <3> DEFINE micros == SettledMicros(b)' + ReservedMicros(live, reservation')
               tokens == SettledTokens(b)' + ReservedTokens(live, reservation')
               requests == SpentRequests(b)' + ReservedRequests(live, reservation)'
    <3>11. /\ micros = SettledMicros(b) + ReservedMicros(live, reservation)
           /\ tokens = SettledTokens(b) + ReservedTokens(live, reservation)
      BY <3>5, <3>7
    <3>12. requests = SpentRequests(b) + ReservedRequests(live, reservation)
      BY <3>6, <3>8, <3>9, <3>10, OneMoved
    <3> HIDE DEF micros, tokens, requests
    <3>13. /\ micros \in Nat /\ tokens \in Nat /\ requests \in Nat
           /\ micros <= SettledMicros(b) + ReservedMicros(live, reservation)
           /\ tokens <= SettledTokens(b) + ReservedTokens(live, reservation)
           /\ requests <= SpentRequests(b) + ReservedRequests(live, reservation)
      BY <3>9, <3>11, <3>12, SameTotal
    <3> QED
      BY <1>1, <2>1, <3>1, <3>4, <3>13, TotalsFall DEF micros, tokens, requests
  <2> QED
    BY <2>3, <2>4
<1> QED
  BY <1>6, <1>7 DEF NeverOvercommitted, CeilingsHold

\* A settlement adds its record to what the revision has spent.
LEMMA SettledWith ==
    ASSUME DispatchInv, DispatchInv', Booked, NEW b, NEW record, record \notin spend,
           spend' = spend \cup {record},
           SettledFor(b)' = SettledFor(b) \cup {record}
    PROVE  /\ record.micros \in Nat /\ SettledMicros(b)' = SettledMicros(b) + record.micros
           /\ record.tokens \in Nat /\ SettledTokens(b)' = SettledTokens(b) + record.tokens
<1> DEFINE old == SettledFor(b)
<1>1. IsFiniteSet(old) /\ old \subseteq spend /\ record \notin old
  BY SummedSetsAreFinite
<1>2. \A s \in old \cup {record} : s.tokens \in Nat /\ s.micros \in Nat
  <2>1. old \cup {record} \subseteq SpendRow
    BY <1>1 DEF DispatchInv, ApiTypeOK
  <2> QED
    BY <2>1 DEF SpendRow
<1>3. SettledMicros(b)' = SettledMicros(b) + record.micros
  <2> DEFINE e == [s \in old \cup {record} |-> s.micros]
  <2>1. e \in [old \cup {record} -> Nat] /\ e[record] = record.micros
    BY <1>2
  <2>2. [s \in old |-> e[s]] = [s \in old |-> s.micros]
    OBVIOUS
  <2>3. SettledMicros(b)' = SumFunction(e)
    BY DEF SettledMicros
  <2>4. SettledMicros(b) = SumFunction([s \in old |-> s.micros])
    BY DEF SettledMicros
  <2> HIDE DEF e, old
  <2>5. SumFunction(e) = SumFunction([s \in old |-> e[s]]) + e[record]
    BY <1>1, <2>1, TotalWith
  <2> QED
    BY <2>1, <2>2, <2>3, <2>4, <2>5
<1>4. SettledTokens(b)' = SettledTokens(b) + record.tokens
  <2> DEFINE e == [s \in old \cup {record} |-> s.tokens]
  <2>1. e \in [old \cup {record} -> Nat] /\ e[record] = record.tokens
    BY <1>2
  <2>2. [s \in old |-> e[s]] = [s \in old |-> s.tokens]
    OBVIOUS
  <2>3. SettledTokens(b)' = SumFunction(e)
    BY DEF SettledTokens
  <2>4. SettledTokens(b) = SumFunction([s \in old |-> s.tokens])
    BY DEF SettledTokens
  <2> HIDE DEF e, old
  <2>5. SumFunction(e) = SumFunction([s \in old |-> e[s]]) + e[record]
    BY <1>1, <2>1, TotalWith
  <2> QED
    BY <2>1, <2>2, <2>3, <2>4, <2>5
<1> QED
  BY <1>2, <1>3, <1>4

\* What a settlement makes of the table: the row of o is settled, and its record
\* is within what was reserved for it.
LEMMA SettledRow ==
    ASSUME DispatchInv, DispatchInv', Booked, NEW o \in Order, NEW tokens, NEW evidence,
           Settle(o, tokens, evidence), NEW record,
           record = [order |-> o, tokens |-> tokens,
                     micros |-> CostOf(o, tokens, Rate[evidence])]
    PROVE  /\ reservation[o].status = "dispatched" /\ reservation'[o].status = "settled"
           /\ reservation'[o].budget = reservation[o].budget
           /\ reservation'[o].attempts = reservation[o].attempts
           /\ \A p \in Order \ {o} : reservation'[p] = reservation[p]
           /\ spend' = spend \cup {record} /\ record.order = o
           /\ record.tokens \in Nat /\ record.tokens <= reservation[o].tokens
           /\ record.micros \in Nat /\ record.micros <= reservation[o].micros
           /\ \A s \in spend : s.order \in Order \ {o}
<1>1. /\ reservation \in [Order -> ReservationRow] /\ reservation[o] \in ReservationRow
      /\ spend' \subseteq SpendRow
  BY DEF DispatchInv, ApiTypeOK
<1>2. /\ reservation[o].status = "dispatched" /\ spend' = spend \cup {record}
      /\ reservation' = [reservation EXCEPT ![o].status = "settled"]
  BY DEF Settle, Settleable
<1>3. /\ reservation'[o] = [reservation[o] EXCEPT !.status = "settled"]
      /\ \A p \in Order \ {o} : reservation'[p] = reservation[p]
  BY <1>1, <1>2
<1>4. /\ reservation'[o].status = "settled"
      /\ reservation'[o].budget = reservation[o].budget
      /\ reservation'[o].attempts = reservation[o].attempts
  BY <1>1, <1>3 DEF ReservationRow
<1>5. /\ record.order = o /\ record.tokens = tokens
      /\ record.micros = CostOf(o, tokens, Rate[evidence])
  OBVIOUS
<1>6. record.tokens \in Nat /\ record.micros \in Nat
  BY <1>1, <1>2 DEF SpendRow
<1>7. tokens <= reservation[o].tokens /\ CostOf(o, tokens, Rate[evidence]) <= reservation[o].micros
  BY DEF Settle, Settleable
<1>8. \A s \in spend : s.order \in Order \ {o}
  BY <1>2, RecordsAre DEF Booked, DispatchInv
<1> QED
  BY <1>2, <1>3, <1>4, <1>5, <1>6, <1>7, <1>8

\* A settlement without attempts counts as one request.
LEMMA SettledRequests ==
    ASSUME DispatchInv, DispatchInv', Booked, Booked', NEW b, NEW record, record \notin spend,
           SettledFor(b)' = SettledFor(b) \cup {record},
           record.order \in Order,
           \A s \in spend : s.order \in Order,
           \A p \in Order : LengthKept(p),
           Against(b, reservation)' = Against(b, reservation)
    PROVE  SpentRequests(b)' = SpentRequests(b)
                                 + (IF Len(journal[record.order]) = 0 THEN 1 ELSE 0)
<1> DEFINE empty == {s \in SettledFor(b) : journal[s.order] = <<>>}
           lens == SumFunction([p \in Against(b, reservation) |-> Len(journal[p])])
<1>1. /\ IsFiniteSet(empty) /\ SettledFor(b) \subseteq spend
      /\ Cardinality(empty) \in Nat
  BY SummedSetsAreFinite, FS_CardinalityType
<1>2. ASSUME NEW p \in Order
      PROVE  (journal'[p] = <<>>) <=> (Len(journal[p]) = 0)
  <2>1. Len(journal'[p]) = Len(journal[p]) /\ journal'[p] \in Seq(AttemptStatus)
    BY DEF LengthKept, DispatchInv, ApiTypeOK
  <2> QED
    BY <2>1, EmptySeq
<1>3. ASSUME NEW p \in Order
      PROVE  (journal[p] = <<>>) <=> (Len(journal[p]) = 0)
  <2>1. journal[p] \in Seq(AttemptStatus)
    BY DEF DispatchInv, ApiTypeOK
  <2> QED
    BY <2>1, EmptySeq
<1>4. PICK after : after = {s \in SettledFor(b)' : journal'[s.order] = <<>>}
  OBVIOUS
<1>5. after = IF Len(journal[record.order]) = 0 THEN empty \cup {record} ELSE empty
  BY <1>1, <1>2, <1>3, <1>4
<1>6. record \notin empty
  BY <1>1
<1>7. Cardinality(after) = IF Len(journal[record.order]) = 0 THEN Cardinality(empty) + 1
                                                             ELSE Cardinality(empty)
  <2> HIDE DEF empty
  <2> QED
    BY <1>1, <1>5, <1>6, FS_AddElement
<1>8. [p \in Against(b, reservation)' |-> Len(journal'[p])]
        = [p \in Against(b, reservation) |-> Len(journal[p])]
  <2>1. Against(b, reservation) \subseteq Order
    BY DEF Against
  <2> QED
    BY <2>1 DEF LengthKept
<1>9. /\ SpentRequests(b) = lens + Cardinality(empty)
      /\ SpentRequests(b)' = lens + Cardinality(after)
  BY <1>4, <1>8 DEF SpentRequests
<1>10. lens \in Nat
  <2>1. IsFiniteSet(Against(b, reservation)) /\ Against(b, reservation) \subseteq Order
    BY SummedSetsAreFinite
  <2>2. [p \in Against(b, reservation) |-> Len(journal[p])]
            \in [Against(b, reservation) -> Nat]
    BY <2>1, RowsAre
  <2> QED
    BY <2>1, <2>2, TotalIsNat
<1> HIDE DEF empty, lens
<1> QED
  BY <1>1, <1>7, <1>9, <1>10

\* A settlement takes its order out of what is reserved.
TakesOut(live, o, less) ==
    /\ ReservedMicros(less, reservation') \in Nat
    /\ ReservedMicros(live, reservation)
            = ReservedMicros(less, reservation') + reservation[o].micros
    /\ ReservedTokens(less, reservation') \in Nat
    /\ ReservedTokens(live, reservation)
            = ReservedTokens(less, reservation')
                + reservation[o].attempts * reservation[o].tokens
    /\ ReservedRequests(less, reservation)' \in Nat
    /\ ReservedRequests(live, reservation)
            = ReservedRequests(less, reservation)'
                + (reservation[o].attempts - Len(journal[o]))

LEMMA ReservedWithout ==
    ASSUME DispatchInv, DispatchInv', NEW live \in SUBSET Order, NEW o \in live, NEW less,
           less = live \ {o},
           \A p \in less : reservation'[p] = reservation[p],
           \A p \in Order : LengthKept(p)
    PROVE  TakesOut(live, o, less)
<1>1. less \in SUBSET Order /\ o \in Order
  OBVIOUS
<1>2. /\ ReservedMicros(live, reservation)
            = ReservedMicros(less, reservation') + reservation[o].micros
      /\ ReservedTokens(live, reservation)
            = ReservedTokens(less, reservation')
                + reservation[o].attempts * reservation[o].tokens
      /\ ReservedRequests(live, reservation)
            = ReservedRequests(less, reservation')
                + (reservation[o].attempts - Len(journal[o]))
  <2>1. PICK table, more : table = reservation' /\ more = reservation
    OBVIOUS
  <2>2. OneMore(live, o, table, more)
    BY <2>1, RowsAre DEF OneMore, Counted
  <2>3. Adds(live, o, table, more)
    BY <2>2, ReservedWith
  <2> QED
    BY <2>1, <2>3 DEF Adds
<1>3. ReservedRequests(less, reservation)' = ReservedRequests(less, reservation')
  <2>1. [p \in less |-> reservation'[p].attempts - Len(journal'[p])]
            = [p \in less |-> reservation'[p].attempts - Len(journal[p])]
    BY <1>1 DEF LengthKept
  <2> QED
    BY <2>1 DEF ReservedRequests
<1>4. /\ ReservedMicros(less, reservation') \in Nat
      /\ ReservedTokens(less, reservation') \in Nat
      /\ ReservedRequests(less, reservation)' \in Nat
  <2>1. less \in SUBSET live
    BY <1>1
  <2>2. \A p \in less : /\ reservation'[p].micros = reservation[p].micros
                        /\ reservation'[p].tokens = reservation[p].tokens
                        /\ reservation'[p].attempts = reservation[p].attempts
                        /\ Len(journal'[p]) = Len(journal[p])
    BY <1>1 DEF LengthKept
  <2> QED
    BY <2>1, <2>2, ReservedFall
<1> QED
  BY <1>1, <1>2, <1>3, <1>4 DEF TakesOut

LEMMA OnceIsWithin ==
    ASSUME NEW n \in Nat, n >= 1, NEW m \in Nat
    PROVE  m <= n * m
<1>1. PICK k \in Nat : n = k + 1
  <2>1. n - 1 \in Nat /\ n = (n - 1) + 1
    OBVIOUS
  <2> QED
    BY <2>1
<1>2. k * m \in Nat /\ n * m = k * m + m
  BY <1>1
<1> QED
  BY <1>2

\* What costs no more than its reservation leaves the total within the old one.
LEMMA CostIsWithin ==
    ASSUME NEW spent \in Nat, NEW left \in Nat, NEW cost \in Nat, NEW reserved \in Nat,
           cost <= reserved, NEW n, n = spent + cost, NEW old, old = left + reserved
    PROVE  n + left \in Nat /\ n + left <= spent + old
OBVIOUS

\* A settlement spends no more than it takes out of what was reserved.
LEMMA SettleKeepsCeilings ==
    ASSUME AccountInv, DispatchInv', NEW o \in Order, NEW tokens, NEW evidence,
           \A p \in Order : LengthKept(p), latest' = latest
    PROVE  Settle(o, tokens, evidence) => Booked' /\ NeverOvercommitted'
<1>0. SUFFICES ASSUME Settle(o, tokens, evidence) PROVE Booked' /\ NeverOvercommitted'
  OBVIOUS
<1>1. DispatchInv /\ Booked
  BY DEF AccountInv
<1>2. PICK record : record = [order |-> o, tokens |-> tokens,
                              micros |-> CostOf(o, tokens, Rate[evidence])]
  OBVIOUS
<1>3. /\ reservation[o].status = "dispatched" /\ reservation'[o].status = "settled"
      /\ reservation'[o].budget = reservation[o].budget
      /\ reservation'[o].attempts = reservation[o].attempts
      /\ \A p \in Order \ {o} : reservation'[p] = reservation[p]
      /\ spend' = spend \cup {record} /\ record.order = o
      /\ record.tokens \in Nat /\ record.tokens <= reservation[o].tokens
      /\ record.micros \in Nat /\ record.micros <= reservation[o].micros
      /\ \A s \in spend : s.order \in Order \ {o}
  BY <1>0, <1>1, <1>2, SettledRow
<1>4. record \notin spend
  BY <1>3
<1>5. Booked'
  <2>1. IsFiniteSet(spend')
    BY <1>1, <1>3, FS_AddElement DEF Booked
  <2> QED
    BY <1>1, <1>3, <2>1 DEF Booked
<1>6. ASSUME NEW b \in 1..latest PROVE CeilingsHold(b)'
  <2>1. CeilingsHold(b)
    BY CeilingsEverywhere DEF AccountInv
  <2>2. CASE reservation[o].budget # b
    <3>1. SettledFor(b)' = SettledFor(b)
      BY <1>3, <2>2 DEF SettledFor
    <3>2. Foreign(o, b)
      BY <1>3, <2>2 DEF Foreign
    <3>3. \A p \in Order \ {o} : Lasts(reservation', p)
      BY <1>3 DEF Lasts
    <3> QED
      BY <1>1, <2>1, <3>1, <3>2, <3>3, OthersKept
  <2>3. CASE reservation[o].budget = b
    <3>1. PICK live, less : live = Live(b, reservation) /\ less = live \ {o}
      OBVIOUS
    <3>2. live \in SUBSET Order /\ o \in live
      BY <1>3, <2>3, <3>1 DEF Live, Against
    <3>3. less = Live(b, reservation)' /\ Against(b, reservation)' = Against(b, reservation)
      BY <1>3, <3>1 DEF Live, Against
    <3>4. SettledFor(b)' = SettledFor(b) \cup {record}
      BY <1>3, <2>3 DEF SettledFor
    <3>5. /\ SettledMicros(b)' = SettledMicros(b) + record.micros
          /\ SettledTokens(b)' = SettledTokens(b) + record.tokens
      BY <1>1, <1>3, <1>4, <3>4, SettledWith
    <3>6. SpentRequests(b)' = SpentRequests(b)
                                + (IF Len(journal[o]) = 0 THEN 1 ELSE 0)
      BY <1>1, <1>3, <1>4, <1>5, <3>3, <3>4, SettledRequests
    <3>7. /\ ReservedMicros(less, reservation') \in Nat
          /\ ReservedMicros(live, reservation)
                = ReservedMicros(less, reservation') + reservation[o].micros
          /\ ReservedTokens(less, reservation') \in Nat
          /\ ReservedTokens(live, reservation)
                = ReservedTokens(less, reservation')
                    + reservation[o].attempts * reservation[o].tokens
          /\ ReservedRequests(less, reservation)' \in Nat
          /\ ReservedRequests(live, reservation)
                = ReservedRequests(less, reservation)'
                    + (reservation[o].attempts - Len(journal[o]))
      <4>1. TakesOut(live, o, less)
        BY <1>1, <1>3, <3>1, <3>2, ReservedWithout
      <4> QED
        BY <4>1 DEF TakesOut
    <3>8. /\ SettledMicros(b) \in Nat /\ SettledTokens(b) \in Nat /\ SpentRequests(b) \in Nat
          /\ reservation[o].micros \in Nat /\ reservation[o].tokens \in Nat
          /\ reservation[o].attempts \in Nat /\ reservation[o].attempts >= 1
          /\ reservation[o].attempts * reservation[o].tokens \in Nat
          /\ reservation[o].attempts - Len(journal[o]) \in Nat
          /\ Len(journal[o]) \in Nat
      BY <1>1, <1>3, SettledAreNat, RowsAre DEF Booked
    <3>9. record.tokens <= reservation[o].attempts * reservation[o].tokens
      <4>1. reservation[o].tokens <= reservation[o].attempts * reservation[o].tokens
        BY <3>8, OnceIsWithin
      <4> HIDE DEF Order
      <4> QED
        BY <1>3, <3>8, <4>1
    <3>10. PICK cost \in Nat : cost = IF Len(journal[o]) = 0 THEN 1 ELSE 0
      OBVIOUS
    <3>11. cost <= reservation[o].attempts - Len(journal[o])
      BY <3>8, <3>10
    <3> DEFINE micros == SettledMicros(b)' + ReservedMicros(less, reservation')
               tokensTotal == SettledTokens(b)' + ReservedTokens(less, reservation')
               requests == SpentRequests(b)' + ReservedRequests(less, reservation)'
    <3>12. micros \in Nat /\ micros <= SettledMicros(b) + ReservedMicros(live, reservation)
      BY <1>3, <3>5, <3>7, <3>8, CostIsWithin
    <3>13. /\ tokensTotal \in Nat
           /\ tokensTotal <= SettledTokens(b) + ReservedTokens(live, reservation)
      BY <1>3, <3>5, <3>7, <3>8, <3>9, CostIsWithin
    <3>14. requests \in Nat /\ requests <= SpentRequests(b) + ReservedRequests(live, reservation)
      BY <3>6, <3>7, <3>8, <3>10, <3>11, CostIsWithin
    <3> HIDE DEF micros, tokensTotal, requests
    <3>15. less \subseteq Live(b, reservation)
      BY <3>1
    <3> QED
      BY <1>1, <2>1, <3>1, <3>3, <3>12, <3>13, <3>14, <3>15, TotalsFall
         DEF micros, tokensTotal, requests
  <2> QED
    BY <2>2, <2>3
<1> QED
  BY <1>5, <1>6 DEF NeverOvercommitted, CeilingsHold

\* The table after a reservation: a new row, the others go on or end.
LEMMA ReservedRow ==
    ASSUME DispatchInv, NEW o \in Order, NEW q \in Wanted, NEW now, NEW expiry,
           NEW table \in [Order -> ReservationRow], Reserve(o, q, table, now, expiry),
           \A p \in Order : Lasts(table, p)
    PROVE  /\ latest \in 1..latest /\ Admissible(q, latest, table)
           /\ reservation[o].status = "unused" /\ table[o].status = "unused"
           /\ reservation'[o].status = "active" /\ reservation'[o].budget = latest
           /\ reservation'[o].attempts = q.attempts /\ reservation'[o].tokens = q.tokens
           /\ reservation'[o].micros = q.attempts * q.micros
           /\ q.attempts \in Nat /\ q.attempts >= 1
           /\ q.attempts * q.tokens \in Nat /\ q.attempts * q.micros \in Nat
           /\ \A p \in Order \ {o} : reservation'[p] = table[p]
           /\ \A p \in Order \ {o} : Lasts(reservation', p)
           /\ Len(journal[o]) = 0
<1>1. /\ latest \in Nat /\ latest # 0 /\ reservation[o].status = "unused"
      /\ Admissible(q, latest, table)
  BY ApiAssumption DEF Reserve, Open, DispatchInv, ApiTypeOK
<1>2. table[o].status = "unused"
  BY <1>1 DEF Lasts
<1>3. /\ reservation'[o] =
            [status |-> "active", budget |-> latest, attempts |-> q.attempts,
             tokens |-> q.tokens, micros |-> q.attempts * q.micros,
             expires |-> expiry, run |-> FALSE]
      /\ \A p \in Order \ {o} : reservation'[p] = table[p]
  BY DEF Reserve
<1>4. q.attempts \in Nat \ {0} /\ q.tokens \in Nat /\ q.micros \in Nat
  BY ApiAssumption DEF RequestRow
<1>5. /\ q.attempts \in Nat /\ q.attempts >= 1
      /\ q.attempts * q.tokens \in Nat /\ q.attempts * q.micros \in Nat
  BY <1>4, ProductIsNat
<1>6. \A p \in Order \ {o} : Lasts(reservation', p)
  BY <1>3 DEF Lasts
<1>7. Len(journal[o]) = 0
  <2>1. journal[o] = <<>>
    BY <1>1, LinearEverywhere DEF DispatchInv, LinearAt
  <2> QED
    BY <2>1
<1> QED
  BY <1>1, <1>2, <1>3, <1>5, <1>6, <1>7

LEMMA InAnyOrder ==
    ASSUME NEW spent \in Nat, NEW left \in Nat, NEW cost \in Nat, NEW n, n = spent,
           NEW total, total = left + cost
    PROVE  n + total = spent + left + cost
OBVIOUS

\* A new reservation has spent nothing yet.
LEMMA ReservedSpent ==
    ASSUME DispatchInv, Booked, NEW b, NEW o \in Order, o \notin Against(b, reservation),
           Len(journal[o]) = 0, SettledFor(b)' = SettledFor(b), journal' = journal,
           Against(b, reservation)' = Against(b, reservation) \cup {o}
    PROVE  /\ SettledMicros(b)' = SettledMicros(b)
           /\ SettledTokens(b)' = SettledTokens(b)
           /\ SpentRequests(b)' = SpentRequests(b)
<1>1. SettledMicros(b)' = SettledMicros(b) /\ SettledTokens(b)' = SettledTokens(b)
  BY DEF SettledMicros, SettledTokens
<1> PICK all : all = Against(b, reservation)
  OBVIOUS
<1>2. IsFiniteSet(all) /\ all \subseteq Order /\ o \notin all
  BY SummedSetsAreFinite
<1> DEFINE e == [p \in all \cup {o} |-> Len(journal[p])]
           f == [p \in all |-> Len(journal[p])]
           empty == Cardinality({s \in SettledFor(b) : journal[s.order] = <<>>})
<1>3. e \in [all \cup {o} -> Nat] /\ f \in [all -> Nat]
  BY <1>2, RowsAre
<1>4. [p \in all |-> e[p]] = f /\ e[o] = 0
  OBVIOUS
<1>5. SpentRequests(b) = SumFunction(f) + empty
  BY DEF SpentRequests
<1>6. SpentRequests(b)' = SumFunction(e) + empty
  BY DEF SpentRequests
<1> HIDE DEF e, f, empty
<1>7. SumFunction(e) = SumFunction([p \in all |-> e[p]]) + e[o]
  BY <1>2, <1>3, TotalWith
<1>8. SumFunction(f) \in Nat
  BY <1>2, <1>3, TotalIsNat
<1>9. SumFunction(e) = SumFunction(f)
  BY <1>4, <1>7, <1>8
<1> QED
  BY <1>1, <1>5, <1>6, <1>9

\* What an admission adds fits what the ceilings have left.
LEMMA ReserveKeepsCeilings ==
    ASSUME AccountInv, DispatchInv', NEW o \in Order, NEW q \in Wanted, NEW now, NEW expiry,
           NEW table \in [Order -> ReservationRow], \A p \in Order : Lasts(table, p),
           UNCHANGED <<latest, journal, spend>>
    PROVE  Reserve(o, q, table, now, expiry) => Booked' /\ NeverOvercommitted'
<1>0. SUFFICES ASSUME Reserve(o, q, table, now, expiry)
               PROVE  Booked' /\ NeverOvercommitted'
  OBVIOUS
<1>1. DispatchInv /\ Booked
  BY DEF AccountInv
<1>2. /\ latest \in 1..latest /\ Admissible(q, latest, table)
      /\ reservation[o].status = "unused" /\ table[o].status = "unused"
      /\ reservation'[o].status = "active" /\ reservation'[o].budget = latest
      /\ reservation'[o].attempts = q.attempts /\ reservation'[o].tokens = q.tokens
      /\ reservation'[o].micros = q.attempts * q.micros
      /\ q.attempts \in Nat /\ q.attempts >= 1
      /\ q.attempts * q.tokens \in Nat /\ q.attempts * q.micros \in Nat
      /\ \A p \in Order \ {o} : reservation'[p] = table[p]
      /\ \A p \in Order \ {o} : Lasts(reservation', p)
      /\ Len(journal[o]) = 0
  BY <1>0, <1>1, ReservedRow
<1>3. \A s \in spend : s.order \in Order \ {o}
  BY <1>1, <1>2, RecordsAre DEF Booked, DispatchInv
<1>4. Booked'
  BY <1>1, <1>2, <1>3 DEF Booked, Lasts
<1>5. ASSUME NEW b \in 1..latest PROVE CeilingsHold(b)'
  <2>1. CeilingsHold(b)
    BY CeilingsEverywhere DEF AccountInv
  <2>2. SettledFor(b)' = SettledFor(b)
    BY <1>2, <1>3 DEF SettledFor, Lasts
  <2>3. CASE b # latest
    <3>1. Foreign(o, b)
      BY <1>2, <2>3 DEF Foreign
    <3> QED
      BY <1>1, <1>2, <2>1, <2>2, <3>1, OthersKept DEF LengthKept
  <2>4. CASE b = latest
    <3>1. PICK less, live : less = Live(b, table) /\ live = less \cup {o}
      OBVIOUS
    <3>2. /\ live \in SUBSET Order /\ o \notin less /\ live \ {o} = less
          /\ live = Live(b, reservation)'
      BY <1>2, <2>4, <3>1 DEF Live, Against
    <3>3. /\ Against(b, reservation)' = Against(b, reservation) \cup {o}
          /\ o \notin Against(b, reservation)
      BY <1>2, <2>4 DEF Against, Lasts
    <3>4. /\ SettledMicros(b)' = SettledMicros(b)
          /\ SettledTokens(b)' = SettledTokens(b)
          /\ SpentRequests(b)' = SpentRequests(b)
      BY <1>1, <1>2, <2>2, <3>3, ReservedSpent
    <3>5. PICK more : more = reservation'
      OBVIOUS
    <3>6. Adds(live, o, table, more)
      <4>1. \A p \in live : Counted(more, p)
        BY <3>2, <3>5, RowsAfter DEF Counted
      <4>2. OneMore(live, o, table, more)
        BY <1>2, <3>1, <3>2, <3>5, <4>1 DEF OneMore
      <4> QED
        BY <4>2, ReservedWith
    <3>7. /\ ReservedMicros(live, reservation')
                = ReservedMicros(less, table) + q.attempts * q.micros
          /\ ReservedTokens(live, reservation')
                = ReservedTokens(less, table) + q.attempts * q.tokens
          /\ ReservedRequests(live, reservation')
                = ReservedRequests(less, table) + (q.attempts - Len(journal[o]))
      BY <1>2, <3>2, <3>5, <3>6 DEF Adds
    <3>8. ReservedRequests(live, reservation)' = ReservedRequests(live, reservation')
      BY DEF ReservedRequests
    <3>9. /\ ReservedMicros(less, table) \in Nat /\ ReservedTokens(less, table) \in Nat
          /\ ReservedRequests(less, table) \in Nat
      <4>1. \A p \in less : /\ table[p].micros \in Nat
                            /\ table[p].attempts * table[p].tokens \in Nat
                            /\ table[p].attempts - Len(journal[p]) \in Nat
        BY <1>1, <3>2, RowsAre DEF Lasts
      <4>2. IsFiniteSet(less)
        BY <3>2, OrderIsFinite, FS_Subset
      <4>3. /\ [p \in less |-> table[p].micros] \in [less -> Nat]
            /\ [p \in less |-> table[p].attempts * table[p].tokens] \in [less -> Nat]
            /\ [p \in less |-> table[p].attempts - Len(journal[p])] \in [less -> Nat]
        BY <4>1
      <4> QED
        BY <4>2, <4>3, TotalIsNat DEF ReservedMicros, ReservedTokens, ReservedRequests
    <3>10. /\ SettledMicros(b) \in Nat /\ SettledTokens(b) \in Nat
           /\ SpentRequests(b) \in Nat
      BY <1>1, SettledAreNat
    <3>11. /\ SettledMicros(b)' + ReservedMicros(live, reservation')
                = SettledMicros(b) + ReservedMicros(less, table) + q.attempts * q.micros
           /\ SettledTokens(b)' + ReservedTokens(live, reservation')
                = SettledTokens(b) + ReservedTokens(less, table) + q.attempts * q.tokens
           /\ SpentRequests(b)' + ReservedRequests(live, reservation)'
                = SpentRequests(b) + ReservedRequests(less, table) + q.attempts
      <4>1. ReservedRequests(live, reservation') = ReservedRequests(less, table) + q.attempts
        BY <1>2, <3>7
      <4>2. SettledMicros(b)' + ReservedMicros(live, reservation')
                = SettledMicros(b) + ReservedMicros(less, table) + q.attempts * q.micros
        BY <1>2, <3>4, <3>7, <3>9, <3>10, InAnyOrder
      <4>3. SettledTokens(b)' + ReservedTokens(live, reservation')
                = SettledTokens(b) + ReservedTokens(less, table) + q.attempts * q.tokens
        BY <1>2, <3>4, <3>7, <3>9, <3>10, InAnyOrder
      <4>4. SpentRequests(b)' + ReservedRequests(live, reservation)'
                = SpentRequests(b) + ReservedRequests(less, table) + q.attempts
        <5>1. PICK total, n : /\ total = ReservedRequests(live, reservation)'
                              /\ n = SpentRequests(b)'
          OBVIOUS
        <5>2. total = ReservedRequests(less, table) + q.attempts /\ n = SpentRequests(b)
          BY <3>4, <3>8, <4>1, <5>1
        <5>3. n + total = SpentRequests(b) + ReservedRequests(less, table) + q.attempts
          <6>1. /\ q.attempts \in Nat /\ SpentRequests(b) \in Nat
                /\ ReservedRequests(less, table) \in Nat
            BY <1>2, <3>9, <3>10
          <6> QED
            BY <5>2, <6>1, InAnyOrder
        <5> QED
          BY <5>1, <5>3
      <4> QED
        BY <4>2, <4>3, <4>4
    <3>12. /\ Within(SettledMicros(b) + ReservedMicros(less, table)
                        + q.attempts * q.micros, Revision[b].micros)
           /\ Within(SettledTokens(b) + ReservedTokens(less, table)
                        + q.attempts * q.tokens, Revision[b].tokens)
           /\ Within(SpentRequests(b) + ReservedRequests(less, table)
                        + q.attempts, Revision[b].requests)
           /\ Cardinality(less) < Revision[b].concurrent
      BY <1>2, <2>4, <3>1 DEF Admissible
    <3>13. Cardinality(live) <= Revision[b].concurrent
      <4>1. IsFiniteSet(less) /\ Cardinality(less) \in Nat
        BY <3>2, OrderIsFinite, FS_Subset, FS_CardinalityType
      <4>2. Cardinality(live) = Cardinality(less) + 1
        BY <3>1, <3>2, <4>1, FS_AddElement
      <4>3. Revision[b].concurrent \in Nat
        BY <1>1, CeilingsAre DEF DispatchInv
      <4> QED
        BY <3>12, <4>1, <4>2, <4>3
    <3>14. /\ Within(SettledMicros(b)' + ReservedMicros(live, reservation'),
                     Revision[b].micros)
           /\ Within(SettledTokens(b)' + ReservedTokens(live, reservation'),
                     Revision[b].tokens)
           /\ Within(SpentRequests(b)' + ReservedRequests(live, reservation)',
                     Revision[b].requests)
      BY <3>11, <3>12
    <3> QED
      BY <3>2, <3>13, <3>14 DEF CeilingsHold, ReservedMicros, ReservedTokens,
         ReservedRequests
  <2> QED
    BY <2>3, <2>4
<1> QED
  BY <1>4, <1>5 DEF NeverOvercommitted, CeilingsHold

-----------------------------------------------------------------------------
(* Every step is one of these: it carries the reservations on or ends them,  *)
(* configures a revision, reserves, begins an attempt or settles.            *)

CeilingsStand == Booked' /\ NeverOvercommitted'

LEMMA EndedLasts ==
    ASSUME NEW table \in [Order -> ReservationRow], \A o \in Order : Lasts(table, o),
           NEW gone, NEW status \in {"released", "expired"}
    PROVE  \A o \in Order : Lasts(EndedIn(table, gone, status), o)
<1> SUFFICES ASSUME NEW o \in Order PROVE Lasts(EndedIn(table, gone, status), o)
  OBVIOUS
<1> DEFINE row == EndedIn(table, gone, status)[o]
<1>1. CASE row = table[o]
  BY <1>1 DEF Lasts
<1>2. CASE table[o].status = "active" /\ row = [table[o] EXCEPT !.status = status]
  <2>1. table[o] \in ReservationRow
    OBVIOUS
  <2>2. /\ row.status = status /\ row.budget = table[o].budget
        /\ row.attempts = table[o].attempts /\ row.tokens = table[o].tokens
        /\ row.micros = table[o].micros
    BY <1>2, <2>1 DEF ReservationRow
  <2>3. reservation[o].status = "active"
    BY <1>2 DEF Lasts
  <2> HIDE DEF row
  <2>4. /\ row.budget = reservation[o].budget
        /\ row.attempts = reservation[o].attempts
        /\ row.tokens = reservation[o].tokens
        /\ row.micros = reservation[o].micros
        /\ reservation[o].status = "active"
        /\ row.status \in {"dispatched", "released", "expired"}
    BY <2>2, <2>3 DEF Lasts
  <2> QED
    BY <2>4 DEF Lasts, row
<1>3. row = IF o \in gone /\ table[o].status = "active"
            THEN [table[o] EXCEPT !.status = status] ELSE table[o]
  BY DEF EndedIn
<1> HIDE DEF row
<1>4. Lasts(EndedIn(table, gone, status), o)
  BY <1>1, <1>2, <1>3
<1> QED
  BY <1>4

LEMMA EndingLasts ==
    ASSUME ApiTypeOK, NEW gone, NEW status \in {"released", "expired"}
    PROVE  \A o \in Order : Lasts(Ending(gone, status), o)
<1>1. \A o \in Order : Lasts(reservation, o)
  BY DEF Lasts
<1> QED
  BY <1>1, EndedLasts DEF Ending, ApiTypeOK

LEMMA CarriedOn ==
    ASSUME AccountInv, DispatchInv', \A o \in Order : Lasts(reservation', o),
           \A o \in Order : LengthKept(o), UNCHANGED <<latest, spend>>
    PROVE  CeilingsStand
BY CarryKeepsCeilings DEF CeilingsStand, CarryStep

LEMMA JournalKept == ASSUME journal' = journal PROVE \A o \in Order : LengthKept(o)
BY DEF LengthKept

LEMMA UntouchedKept ==
    ASSUME AccountInv, DispatchInv', UNCHANGED <<latest, reservation, journal, spend>>
    PROVE  CeilingsStand
<1>1. \A o \in Order : Lasts(reservation', o) /\ LengthKept(o)
  BY DEF Lasts, LengthKept
<1> QED
  BY <1>1, CarriedOn

LEMMA EndingKept ==
    ASSUME AccountInv, DispatchInv', NEW gone, NEW status \in {"released", "expired"},
           reservation' = Ending(gone, status), UNCHANGED <<latest, journal, spend>>
    PROVE  CeilingsStand
<1>1. \A o \in Order : Lasts(reservation', o)
  BY EndingLasts DEF AccountInv, DispatchInv
<1> QED
  BY <1>1, JournalKept, CarriedOn

LEMMA BudgetAccount ==
    ASSUME AccountInv, DispatchInv', BudgetNext
    PROVE  CeilingsStand
<1>1. ApiTypeOK /\ DispatchInv
  BY DEF AccountInv, DispatchInv
<1>2. CASE ConfigureApiBudget
  <2>1. latest' = latest + 1 /\ UNCHANGED <<reservation, journal, spend>>
    BY <1>2 DEF ConfigureApiBudget
  <2> QED
    BY <2>1, ConfigureKeepsCeilings DEF CeilingsStand
<1>3. CASE ConfigureApiModelPrice
  BY <1>3, UntouchedKept DEF ConfigureApiModelPrice
<1>4. ASSUME NEW o \in Direct, NEW q \in Wanted, NEW now, ReserveApiBudget(o, q, now)
      PROVE  CeilingsStand
  <2>1. PICK table : table = Ending(Overdue(now), "expired")
    OBVIOUS
  <2>2. table \in [Order -> ReservationRow] /\ \A p \in Order : Lasts(table, p)
    BY <1>1, <2>1, EndingType, EndingLasts
  <2>3. Reserve(o, q, table, now, now + DirectTtl) /\ UNCHANGED <<latest, journal, spend>>
    BY <1>4, <2>1 DEF ReserveApiBudget
  <2>4. o \in Order
    BY DEF Order
  <2> QED
    BY <2>2, <2>3, <2>4, ReserveKeepsCeilings DEF CeilingsStand
<1>5. CASE \/ \E now \in Observed : RecoverExpiredApiReservations(now)
           \/ \E o \in Direct : ReleaseApiReservation(o)
  BY <1>5, EndingKept DEF RecoverExpiredApiReservations, ReleaseApiReservation
<1>6. ASSUME NEW o \in Order, NEW now, ClaimApiDispatch(o, now)
      PROVE  CeilingsStand
  <2>1. /\ reservation[o].status = "active"
        /\ reservation' = [reservation EXCEPT ![o].status = "dispatched"]
        /\ UNCHANGED <<latest, journal, spend>>
    BY <1>6 DEF ClaimApiDispatch
  <2>2. reservation \in [Order -> ReservationRow] /\ reservation[o] \in ReservationRow
    BY <1>1 DEF ApiTypeOK
  <2>3. reservation'[o] = [reservation[o] EXCEPT !.status = "dispatched"]
    BY <2>1, <2>2
  <2>4. Lasts(reservation', o)
    BY <2>1, <2>2, <2>3 DEF Lasts, ReservationRow
  <2>5. \A p \in Order \ {o} : Lasts(reservation', p)
    BY <2>1, <2>2 DEF Lasts
  <2> QED
    BY <2>1, <2>4, <2>5, JournalKept, CarriedOn
<1>7. ASSUME NEW o \in Order, NEW tokens \in 1..MaxUsage, SettleApiReservation(o, tokens)
      PROVE  CeilingsStand
  BY <1>7, JournalKept, SettleKeepsCeilings DEF SettleApiReservation, CeilingsStand
<1> QED
  BY <1>2, <1>3, <1>4, <1>5, <1>6, <1>7 DEF BudgetNext

LEMMA ConcludedLength ==
    ASSUME DispatchInv, NEW s \in Sender, NEW outcome \in AttemptStatus, Concludes(s, outcome)
    PROVE  sender[s].order \in Order /\ \A p \in Order : LengthKept(p)
BY ConcludedJournal DEF LengthKept

LEMMA ExecutionAccount ==
    ASSUME AccountInv, DispatchInv', ExecutionNext
    PROVE  CeilingsStand
<1>1. DispatchInv
  BY DEF AccountInv
<1>2. CASE \/ \E s \in Sender, o \in Order : \E now \in Observed \cup {sender[s].now} :
                    PrepareReservedApiRequest(s, o, now)
           \/ \E s \in Sender : BeginRefused(s)
           \/ \E s \in Sender, tokens \in 1..MaxUsage : SettlementRefused(s, tokens)
           \/ \E s \in Caller : CallerDies(s)
  <2>1. UNCHANGED tables
    BY <1>2 DEF PrepareReservedApiRequest, BeginRefused, SettlementRefused, CallerDies
  <2> QED
    BY <2>1, UntouchedKept DEF tables
<1>3. ASSUME NEW s \in Sender, BeginApiDispatchAttempt(s)
      PROVE  CeilingsStand
  <2> PICK o : o = sender[s].order
    OBVIOUS
  <2>1. /\ o \in Order /\ journal \in [Order -> Seq(AttemptStatus)]
        /\ reservation' = [reservation EXCEPT ![o].status = "dispatched"]
        /\ journal' = [journal EXCEPT ![o] = Append(journal[o], "started")]
        /\ reservation[o].status \in {"active", "dispatched"}
        /\ UNCHANGED <<latest, spend>>
    BY <1>1, <1>3 DEF BeginApiDispatchAttempt, MayBegin, DispatchInv, SendersBound,
       ApiTypeOK
  <2>2. journal[o] \in Seq(AttemptStatus) /\ journal'[o] = Append(journal[o], "started")
    BY <2>1
  <2>3. Len(journal'[o]) = Len(journal[o]) + 1
    BY <2>2
  <2>4. \A p \in Order \ {o} : journal'[p] = journal[p]
    BY <2>1
  <2> QED
    BY <2>1, <2>3, <2>4, BegunKeepsCeilings DEF CeilingsStand
<1>4. ASSUME NEW s \in Sender, OutcomeUncertain(s) \/ \E retryable : ProviderFails(s, retryable)
      PROVE  CeilingsStand
  <2>1. \/ Concludes(s, "uncertain")
        \/ Concludes(s, "retryable_failure")
        \/ Concludes(s, "terminal_failure")
    BY <1>4 DEF OutcomeUncertain, ProviderFails
  <2>2. \A p \in Order : LengthKept(p)
    BY <1>1, <2>1, ConcludedLength DEF AttemptStatus
  <2>3. UNCHANGED <<latest, reservation, spend>>
    BY <1>4 DEF OutcomeUncertain, ProviderFails
  <2>4. \A p \in Order : Lasts(reservation', p)
    BY <2>3 DEF Lasts
  <2> QED
    BY <2>2, <2>3, <2>4, CarriedOn
<1>5. ASSUME NEW s \in Sender, NEW tokens \in 1..MaxUsage, SettleApiDispatchAttempt(s, tokens)
      PROVE  CeilingsStand
  <2>1. /\ Concludes(s, "succeeded")
        /\ Settle(sender[s].order, tokens, sender[s].price) /\ latest' = latest
    BY <1>5 DEF SettleApiDispatchAttempt
  <2>2. sender[s].order \in Order /\ \A p \in Order : LengthKept(p)
    BY <1>1, <2>1, ConcludedLength DEF AttemptStatus
  <2> QED
    BY <2>1, <2>2, SettleKeepsCeilings DEF CeilingsStand
<1> QED
  BY <1>2, <1>3, <1>4, <1>5 DEF ExecutionNext

LEMMA ClaimAccount ==
    ASSUME AccountInv, DispatchInv', NEW i, NEW g, NEW c \in Claim, NEW now, NEW q \in Wanted,
           ClaimWithReservation(i, g, c, now, q)
    PROVE  CeilingsStand
<1>1. ApiTypeOK
  BY DEF AccountInv, DispatchInv
<1>2. PICK freed, table : /\ freed = Ending(ExpiredAt(now), "released")
                          /\ table = EndedIn(freed, Overdue(now), "expired")
  OBVIOUS
<1>3. UNCHANGED <<latest, journal, spend>>
  BY DEF ClaimWithReservation, untouched
<1>4. CASE reservation' = freed
  BY <1>2, <1>3, <1>4, EndingKept
<1>5. CASE Reserve(c, q, table, now, now + ClaimTtl)
  <2>1. freed \in [Order -> ReservationRow] /\ \A o \in Order : Lasts(freed, o)
    BY <1>1, <1>2, EndingType, EndingLasts
  <2>2. table \in [Order -> ReservationRow] /\ \A o \in Order : Lasts(table, o)
    BY <1>2, <2>1, EndedInType, EndedLasts
  <2>3. c \in Order
    BY DEF Order
  <2> QED
    BY <1>3, <1>5, <2>2, <2>3, ReserveKeepsCeilings DEF CeilingsStand
<1>6. reservation' = freed \/ Reserve(c, q, table, now, now + ClaimTtl)
  BY <1>2 DEF ClaimWithReservation
<1> QED
  BY <1>4, <1>5, <1>6

LEMMA RenewAccount ==
    ASSUME AccountInv, DispatchInv', NEW i, NEW g, NEW now, HeartbeatReservations(i, g, now)
    PROVE  CeilingsStand
<1>1. ApiTypeOK
  BY DEF AccountInv, DispatchInv
<1>2. PICK freed : freed = Ending(ExpiredAt(now), "released")
  OBVIOUS
<1>3. freed \in [Order -> ReservationRow] /\ \A o \in Order : Lasts(freed, o)
  BY <1>1, <1>2, EndingType, EndingLasts
<1>4. ASSUME NEW o \in Order PROVE Lasts(reservation', o)
  <2>1. \/ reservation'[o] = freed[o]
        \/ reservation'[o] = [freed[o] EXCEPT !.expires = now + ClaimTtl]
    BY <1>2 DEF HeartbeatReservations
  <2>2. freed[o] \in ReservationRow
    BY <1>3
  <2>3. /\ reservation'[o].budget = freed[o].budget
        /\ reservation'[o].attempts = freed[o].attempts
        /\ reservation'[o].tokens = freed[o].tokens
        /\ reservation'[o].micros = freed[o].micros
        /\ reservation'[o].status = freed[o].status
    BY <2>1, <2>2 DEF ReservationRow
  <2> QED
    BY <1>3, <2>3 DEF Lasts
<1>5. UNCHANGED <<latest, journal, spend>>
  BY DEF HeartbeatReservations, untouched
<1> QED
  BY <1>4, <1>5, JournalKept, CarriedOn

LEMMA BeginAccount ==
    ASSUME AccountInv, DispatchInv', NEW c \in Claim, NEW r, NEW now,
           BeginRunWithReservation(c, r, now)
    PROVE  CeilingsStand
<1>1. reservation \in [Order -> ReservationRow] /\ reservation[c] \in ReservationRow
  BY DEF AccountInv, DispatchInv, ApiTypeOK, Order
<1>2. UNCHANGED <<latest, journal, spend>>
  BY DEF BeginRunWithReservation, untouched
<1>3. CASE reservation' = reservation
  BY <1>2, <1>3, UntouchedKept
<1>4. CASE reservation' = [reservation EXCEPT ![c].run = TRUE, ![c].expires = now + LeaseTtl]
  <2>1. reservation'[c] = [reservation[c] EXCEPT !.run = TRUE, !.expires = now + LeaseTtl]
    BY <1>1, <1>4 DEF Order
  <2>2. /\ reservation'[c].budget = reservation[c].budget
        /\ reservation'[c].attempts = reservation[c].attempts
        /\ reservation'[c].tokens = reservation[c].tokens
        /\ reservation'[c].micros = reservation[c].micros
        /\ reservation'[c].status = reservation[c].status
    BY <1>1, <2>1 DEF ReservationRow
  <2>3. \A o \in Order \ {c} : reservation'[o] = reservation[o]
    BY <1>1, <1>4
  <2>4. \A o \in Order : Lasts(reservation', o)
    BY <2>2, <2>3 DEF Lasts
  <2> QED
    BY <1>2, <2>4, JournalKept, CarriedOn
<1> QED
  BY <1>3, <1>4 DEF BeginRunWithReservation

LEMMA BoundAccount ==
    ASSUME AccountInv, DispatchInv', BoundNext
    PROVE  CeilingsStand
<1>1. CASE \/ \E i \in Instance, t \in Task, now \in Observed : RouteApiTask(i, t, now)
           \/ \E c \in Claim : ApiAgentExited(c)
           \/ \E c \in Claim : ApiExecutionFailed(c)
           \/ \E c \in Claim : WorkerAndSenderDie(c)
  <2>1. UNCHANGED tables
    BY <1>1 DEF RouteApiTask, ApiAgentExited, ApiExecutionFailed, WorkerAndSenderDie,
       apiVars, tables
  <2> QED
    BY <2>1, UntouchedKept DEF tables
<1>2. CASE \/ \E i \in Instance, now \in Observed : StopAndRelease(i, now)
           \/ \E now \in Observed : RecoverClaimsAndRelease(now)
           \/ EmergencyStopAndRelease
           \/ \E c \in Claim : FinishRunAndRelease(c)
           \/ \E now \in Observed : RecoverLeasesAndRelease(now)
  <2>1. /\ UNCHANGED <<latest, journal, spend>>
        /\ \E gone : reservation' = Ending(gone, "released")
    BY <1>2 DEF StopAndRelease, RecoverClaimsAndRelease, EmergencyStopAndRelease,
       FinishRunAndRelease, RecoverLeasesAndRelease, untouched
  <2> QED
    BY <2>1, EndingKept
<1> QED
  BY <1>1, <1>2, ClaimAccount, RenewAccount, BeginAccount DEF BoundNext

LEMMA AccountInit == ApiInit => Booked /\ NeverOvercommitted
<1> SUFFICES ASSUME ApiInit PROVE Booked /\ NeverOvercommitted
  OBVIOUS
<1>1. Booked
  BY FS_EmptySet DEF ApiInit, Booked, NoReservation
<1>2. NeverOvercommitted
  BY DEF ApiInit, NeverOvercommitted
<1> QED
  BY <1>1, <1>2

LEMMA AccountStep == AccountInv /\ DispatchInv' /\ [ApiNext]_allVars => AccountInv'
<1> SUFFICES ASSUME AccountInv, DispatchInv', [ApiNext]_allVars PROVE CeilingsStand
  BY DEF AccountInv, CeilingsStand
<1>1. CASE UNCHANGED apiVars
  BY <1>1, UntouchedKept DEF apiVars
<1> QED
  BY <1>1, BudgetAccount, ExecutionAccount, BoundAccount DEF ApiNext, UnboundNext, allVars

\* Claims, direct callers, retries, expiries and settlements in any order: no
\* revision of a budget ever has more spent and reserved than its ceilings allow,
\* nor more requests that may be in flight, for any number of orders and any
\* configuration (reserve_api_budget_inner, settle_api_reservation_inner).
THEOREM CeilingsAreKept == ApiSpec => []NeverOvercommitted
<1>1. ApiInit => AccountInv
  BY AccountInit, DispatchInit DEF AccountInv
<1>2. AccountInv => DispatchInv /\ NeverOvercommitted
  BY DEF AccountInv
<1>3. ApiSpec => []AccountInv
  BY <1>1, AccountStep, DispatchInvariant, PTL DEF ApiSpec
<1> QED
  BY <1>2, <1>3, PTL

=============================================================================
