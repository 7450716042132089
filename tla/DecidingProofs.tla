---------------------------- MODULE DecidingProofs ----------------------------
(***************************************************************************)
(* Theorems about routing decisions, for all tasks, targets, accounts,     *)
(* calendars and changes from other processes: paid work is claimed only   *)
(* for the exact target a task is pinned to, a decision holds when it is   *)
(* made, and the best candidate wins.                                      *)
(***************************************************************************)
EXTENDS Deciding, WellFoundedInduction, TLAPS

-----------------------------------------------------------------------------
(* The least and the greatest of a set of numbers. *)

LEMMA LeastOf ==
    ASSUME NEW S \in SUBSET Nat, S # {}
    PROVE  Min(S) \in S /\ \A y \in S : Min(S) <= y
<1> DEFINE R == {xy \in Nat \X Nat : xy[1] < xy[2]}
<1>1. IsWellFoundedOn(R, Nat)
  BY NatLessThanWellFounded DEF OpToRel
<1>2. PICK x \in S : \A y \in S : ~(y < x)
  <2>1. \A x, y \in Nat : y < x => <<y, x>> \in R
    OBVIOUS
  <2> HIDE DEF R
  <2>2. PICK x \in S : \A y \in S : ~(<<y, x>> \in R)
    BY <1>1, WFMin
  <2> QED
    BY <2>1, <2>2
<1>3. \A y \in S : x <= y
  BY <1>2
<1> QED
  BY <1>3 DEF Min

LEMMA GreatestOf ==
    ASSUME NEW S \in SUBSET Nat, S # {}, NEW b \in Nat, \A x \in S : x <= b
    PROVE  Max(S) \in S /\ \A y \in S : y <= Max(S)
<1> DEFINE T == {b - x : x \in S}
<1>1. T \in SUBSET Nat /\ T # {}
  <2>1. \A x \in S : b - x \in Nat
    OBVIOUS
  <2> QED
    BY <2>1
<1>2. PICK d \in T : \A y \in T : d <= y
  <2> HIDE DEF T
  <2> QED
    BY <1>1, LeastOf
<1>3. PICK x \in S : d = b - x
  BY <1>2
<1>4. ASSUME NEW y \in S PROVE x >= y
  <2>1. d <= b - y
    BY <1>2
  <2> QED
    BY <1>3, <2>1
<1>5. Max(S) \in S /\ \A y \in S : Max(S) >= y
  BY <1>4 DEF Max
<1>6. \A x1, y1 \in Nat : x1 >= y1 <=> y1 <= x1
  OBVIOUS
<1> QED
  BY <1>5, <1>6

-----------------------------------------------------------------------------
(* Types, as far as decisions depend on them. *)

Typed ==
    /\ clock \in 0..MaxClock
    /\ pin \in [Task -> Target \cup {None}]
    /\ version \in [Task -> Nat]
    /\ circuit \in [Target -> CircuitRow]
    /\ quota \in [Surface -> SurfaceRow \cup {None}]
    /\ capacity \in [Target -> 0..100 \cup {None}]
    /\ listed \in [Task -> ListedRow]
    /\ decision = [t \in Task |-> decision[t]]
    /\ claimed \in [Task -> Target \cup {None}]

\* A candidate has headroom, and its margin is that of numbers.
LEMMA MarginIsNat ==
    ASSUME Typed, NEW t \in Task, NEW k \in Fit(t)
    PROVE  k \in Target /\ k \in Nat /\ k \in listed[t].passed
           /\ Margin(k) \in Nat /\ Margin(k) <= 100
<1>1. k \in listed[t].passed /\ CandidateReason(t, k, listed[t].at) = "route.allowed"
  BY DEF Fit
<1>2. k \in Target /\ k \in Nat
  BY <1>1, RoutingAssumption DEF Typed, ListedRow
<1>3. MinRemaining(k) # None /\ ~(MinRemaining(k) < Headroom(k))
  BY <1>1 DEF CandidateReason
<1>4. MinRemaining(k) \in 0..100
  <2>1. CASE Api(k)
    BY <1>2, <1>3, <2>1 DEF MinRemaining, Typed
  <2>2. CASE ~Api(k)
    <3>1. Remaining(k) # {} /\ MinRemaining(k) = Min(Remaining(k))
      BY <1>3, <2>2 DEF MinRemaining
    <3>2. Remaining(k) \in SUBSET (0..100)
      BY DEF Remaining, SurfacesOf, Typed, SurfaceRow
    <3>3. Remaining(k) \in SUBSET Nat
      BY <3>2
    <3>4. Min(Remaining(k)) \in Remaining(k)
      BY <3>1, <3>3, LeastOf
    <3> QED
      BY <3>1, <3>2, <3>4
  <2> QED
    BY <2>1, <2>2
<1>5. Headroom(k) \in Nat
  <2>1. CASE Api(k)
    BY <2>1 DEF Headroom, MaxReserve
  <2>2. CASE ~Api(k)
    <3> DEFINE reserves == {ReserveOf[s] : s \in SurfacesOf(k)} \cup {PolicyReserve}
    <3>1. reserves \in SUBSET (0..100) /\ reserves # {}
      <4>1. PolicyReserve \in 0..100 /\ \A s \in Surface : ReserveOf[s] \in 0..100
        BY RoutingAssumption
      <4>2. \A s \in SurfacesOf(k) : s \in Surface
        BY DEF SurfacesOf
      <4> QED
        BY <4>1, <4>2
    <3>2. MaxReserve(k) = Max(reserves) /\ Headroom(k) = MaxReserve(k) + Forecast[k]
      BY <2>2 DEF Headroom, MaxReserve
    <3>3. Forecast[k] \in Nat
      BY <1>2, RoutingAssumption
    <3> HIDE DEF reserves
    <3>4. reserves \in SUBSET Nat /\ \A x \in reserves : x <= 100
      BY <3>1
    <3>5. Max(reserves) \in reserves
      BY <3>1, <3>4, GreatestOf
    <3>6. MaxReserve(k) \in Nat
      BY <3>2, <3>4, <3>5
    <3> QED
      BY <3>2, <3>3, <3>6
  <2> QED
    BY <2>1, <2>2
<1> QED
  BY <1>1, <1>2, <1>3, <1>4, <1>5 DEF Margin

\* Whoever is selected has the largest margin, and the first name of those.
LEMMA SelectedIsBest ==
    ASSUME Typed, NEW t \in Task, Fit(t) # {}, NEW k, k = Selected(t, Fit(t))
    PROVE  /\ k \in Fit(t)
           /\ \A j \in Fit(t) \ {k} :
                Margin(j) < Margin(k) \/ (Margin(j) = Margin(k) /\ k < j)
<1> DEFINE margins == {Margin(j) : j \in Fit(t)}
           best == {j \in Fit(t) : \A i \in Fit(t) : Margin(i) <= Margin(j)}
<1>1. margins \in SUBSET Nat /\ margins # {} /\ \A x \in margins : x <= 100
  BY MarginIsNat
<1>2. Max(margins) \in margins /\ \A y \in margins : y <= Max(margins)
  <2> HIDE DEF margins
  <2> QED
    BY <1>1, GreatestOf
<1>3. PICK j \in Fit(t) : Margin(j) = Max(margins)
  BY <1>2
<1>4. j \in best
  BY <1>2, <1>3
<1>5. best \in SUBSET Nat
  BY MarginIsNat
<1>6. k = Min(best)
  BY DEF Selected
<1>7. k \in best /\ \A i \in best : k <= i
  <2> HIDE DEF best
  <2> QED
    BY <1>4, <1>5, <1>6, LeastOf
<1>8. ASSUME NEW i \in Fit(t) \ {k}
      PROVE  Margin(i) < Margin(k) \/ (Margin(i) = Margin(k) /\ k < i)
  <2>1. k \in Fit(t) /\ i \in Fit(t) /\ Margin(i) <= Margin(k)
    BY <1>7
  <2> HIDE DEF margins, best
  <2>4. Margin(i) \in Nat /\ Margin(k) \in Nat /\ i \in Nat /\ k \in Nat
    <3>1. \A j1 \in Fit(t) : Margin(j1) \in Nat /\ j1 \in Nat
      BY MarginIsNat
    <3> QED
      BY <2>1, <3>1
  <2>2. CASE Margin(i) < Margin(k)
    BY <2>2
  <2>3. CASE Margin(i) = Margin(k)
    <3>1. i \in best
      BY <1>7, <2>3 DEF best
    <3>2. k <= i /\ k # i
      BY <1>7, <3>1
    <3> QED
      BY <2>3, <2>4, <3>2
  <2> QED
    BY <2>1, <2>2, <2>3, <2>4
<1> QED
  BY <1>7, <1>8

\* A target that passes every gate is refused by none.
LEMMA PassingIsAllowed ==
    ASSUME NEW t, NEW k, NEW now, Passes(t, k, now)
    PROVE  RouteReason(t, k, now) = "route.allowed"
<1>1. PICK row : row = Gates(t, k, now)
  OBVIOUS
<1>2. {n \in DOMAIN row : ~row[n].open} = {}
  BY <1>1 DEF Passes
<1> QED
  BY <1>1, <1>2 DEF RouteReason
-----------------------------------------------------------------------------
(* What a step does to what decisions are made of. *)

\* Somebody else's step: what was read is as it was, a pin changes with the
\* version, no probe is taken and nothing is claimed.
Aside ==
    /\ Typed'
    /\ listed' = listed /\ decision' = decision
    /\ \A t \in Task : /\ version[t] <= version'[t]
                       /\ version'[t] = version[t] => pin'[t] = pin[t]
                       /\ claimed'[t] \in {claimed[t], None}
    /\ \A k \in Target : circuit'[k].state = "half_open" => circuit[k].state = "half_open"

\* Nothing but gates, evidence and capacity changes.
LEMMA QuietIsAside ==
    ASSUME Typed, UNCHANGED <<pin, version, circuit, tick>>,
           clock' \in 0..MaxClock,
           quota' \in [Surface -> SurfaceRow \cup {None}],
           capacity' \in [Target -> 0..100 \cup {None}]
    PROVE  Aside
<1>1. /\ pin' = pin /\ version' = version /\ circuit' = circuit
      /\ listed' = listed /\ decision' = decision /\ claimed' = claimed
  BY DEF tick
<1>2. \A t \in Task : version[t] \in Nat /\ version[t] <= version[t]
  BY DEF Typed
<1>3. Typed'
  BY <1>1 DEF Typed
<1> QED
  BY <1>1, <1>2, <1>3 DEF Aside

LEMMA ClaimEndsAside ==
    ASSUME Typed, NEW t \in Task, NEW n, ClaimEnds(t, n)
    PROVE  Aside
<1>1. /\ claimed' = [claimed EXCEPT ![t] = None]
      /\ version' = [version EXCEPT ![t] = @ + 1]
      /\ UNCHANGED <<clock, capacity, pin, circuit, quota, listed, decision>>
  BY DEF ClaimEnds
<1>2. /\ version' \in [Task -> Nat]
      /\ \A u \in Task : version[u] <= version'[u]
      /\ \A u \in Task : version'[u] = version[u] => u # t
  BY <1>1 DEF Typed
<1>3. /\ claimed' \in [Task -> Target \cup {None}]
      /\ \A u \in Task : claimed'[u] \in {claimed[u], None}
  BY <1>1 DEF Typed
<1>4. Typed'
  BY <1>1, <1>2, <1>3 DEF Typed
<1> QED
  BY <1>1, <1>2, <1>3, <1>4 DEF Aside

LEMMA PinAside ==
    ASSUME Typed, NEW t \in Task, NEW k \in Target \cup {None}, SetTaskRoutePin(t, k)
    PROVE  Aside
<1>1. /\ pin' = [pin EXCEPT ![t] = k]
      /\ version' = [version EXCEPT ![t] = @ + 1]
      /\ UNCHANGED <<clock, capacity, circuit, quota, listed, decision, claimed>>
  BY DEF SetTaskRoutePin, gates, tick
<1>2. /\ version' \in [Task -> Nat]
      /\ \A u \in Task : version[u] <= version'[u]
      /\ \A u \in Task : version'[u] = version[u] => u # t
  BY <1>1 DEF Typed
<1>3. /\ pin' \in [Task -> Target \cup {None}]
      /\ \A u \in Task \ {t} : pin'[u] = pin[u]
  BY <1>1 DEF Typed
<1>4. Typed'
  BY <1>1, <1>2, <1>3 DEF Typed
<1> QED
  BY <1>1, <1>2, <1>3, <1>4 DEF Aside

LEMMA CircuitAside ==
    ASSUME Typed, NEW k \in Target, NEW row \in CircuitRows, CircuitChanges(k, row)
    PROVE  Aside
<1>1. /\ circuit' = [circuit EXCEPT ![k] = row]
      /\ UNCHANGED <<clock, capacity, pin, version, quota, listed, decision, claimed>>
  BY DEF CircuitChanges, gates, tick
<1>2. row \in CircuitRow /\ row.state # "half_open"
  BY DecidingAssumption
<1>3. /\ circuit' \in [Target -> CircuitRow]
      /\ \A j \in Target : circuit'[j].state = "half_open" => circuit[j].state = "half_open"
  BY <1>1, <1>2 DEF Typed
<1>4. \A t \in Task : version[t] \in Nat /\ version[t] <= version[t]
  BY DEF Typed
<1>5. Typed'
  BY <1>1, <1>3 DEF Typed
<1> QED
  BY <1>1, <1>3, <1>4, <1>5 DEF Aside

LEMMA OutsideIsAside ==
    ASSUME Typed, Outside
    PROVE  Aside
<1>1. CASE \/ SetPauseNewWork \/ ChangeControl \/ SetProjectSchedulerPause \/ ConfigureCalendar
           \/ \E e \in Exception : SetCalendarException(e.day, e.kind)
           \/ \E t \in Task : ChangeDependencies(t)
  <2>1. UNCHANGED <<Controls, capacity>>
    BY <1>1 DEF SetPauseNewWork, ChangeControl, SetProjectSchedulerPause, ConfigureCalendar,
                SetCalendarException, ChangeDependencies
  <2> QED
    BY <2>1, QuietIsAside DEF Controls, Typed
<1>2. ASSUME NEW k \in Target, NEW percent \in Percent, CapacityChanges(k, percent)
      PROVE  Aside
  <2>1. UNCHANGED Controls /\ capacity' = [capacity EXCEPT ![k] = percent]
    BY <1>2 DEF CapacityChanges
  <2>2. percent \in 0..100 \cup {None}
    BY DecidingAssumption
  <2>3. capacity' \in [Target -> 0..100 \cup {None}]
    BY <2>1, <2>2 DEF Typed
  <2> QED
    BY <2>1, <2>3, QuietIsAside DEF Controls, Typed
<1>3. ASSUME NEW s \in Surface, NEW row \in QuotaRows, QuotaChanges(s, row)
      PROVE  Aside
  <2>1. /\ UNCHANGED <<clock, gates, pin, version, circuit, tick>>
        /\ quota' = [quota EXCEPT ![s] = row]
    BY <1>3 DEF QuotaChanges
  <2>2. row \in SurfaceRow \cup {None}
    BY DecidingAssumption
  <2>3. quota' \in [Surface -> SurfaceRow \cup {None}]
    BY <2>1, <2>2 DEF Typed
  <2> QED
    BY <2>1, <2>3, QuietIsAside DEF gates, Typed
<1>4. CASE \/ \E t \in Task : ConfigureApiRequestPlan(t)
           \/ \E a \in DOMAIN probe, row \in ProbeRows : RecordAgentCapabilityProbe(a, row)
  <2>1. UNCHANGED <<clock, gates, pin, version, circuit, quota, tick>>
    BY <1>4 DEF ConfigureApiRequestPlan, RecordAgentCapabilityProbe
  <2> QED
    BY <2>1, QuietIsAside DEF gates, Typed
<1> QED
  BY <1>1, <1>2, <1>3, <1>4, ClaimEndsAside, PinAside, CircuitAside DEF Outside

LEMMA TickIsAside ==
    ASSUME Typed, Tick
    PROVE  Aside
<1>1. UNCHANGED <<gates, pin, version, circuit, quota, tick>> /\ clock' = clock + 1
      /\ clock < MaxClock
  BY DEF Tick
<1>2. clock' \in 0..MaxClock
  <2>1. MaxClock \in Nat
    BY RoutingAssumption DEF Instant
  <2> QED
    BY <1>1, <2>1 DEF Typed
<1> QED
  BY <1>1, <1>2, QuietIsAside DEF gates, Typed

LEMMA NothingIsAside ==
    ASSUME Typed, UNCHANGED routingVars
    PROVE  Aside
<1>1. UNCHANGED <<clock, gates, pin, version, circuit, quota, tick>>
  BY DEF routingVars
<1> QED
  BY <1>1, QuietIsAside DEF gates, Typed
-----------------------------------------------------------------------------
(* The inductive invariant: the version a task was listed with stands for   *)
(* its pin, and what was looked at is fit for that pin.                     *)

ListedKept(t) ==
    /\ listed[t].stage # "idle" => listed[t].version <= version[t]
    /\ listed[t].stage \in {"looked", "decided"} =>
        (version[t] = listed[t].version => pin[t] = listed[t].pin)
    /\ listed[t].stage = "looked" =>
        \A k \in listed[t].passed : Paid(k) => listed[t].pin = k
    /\ listed[t].stage = "decided" =>
        /\ decision[t].target \in Target
        /\ Paid(decision[t].target) => listed[t].pin = decision[t].target

DecidingInv == Typed /\ \A t \in Task : ListedKept(t)

LEMMA AsideKeepsListed ==
    ASSUME DecidingInv, Aside
    PROVE  DecidingInv'
<1> SUFFICES ASSUME NEW t \in Task PROVE ListedKept(t)'
  BY DEF DecidingInv, Aside
<1>1. /\ listed' = listed /\ decision' = decision
      /\ version[t] <= version'[t]
      /\ version'[t] = version[t] => pin'[t] = pin[t]
  BY DEF Aside
<1>2. /\ version[t] \in Nat /\ version'[t] \in Nat /\ listed[t].version \in Nat
      /\ ListedKept(t)
  BY DEF Aside, DecidingInv, Typed, ListedRow
<1>3. listed[t].version <= version[t] /\ version'[t] = listed[t].version
        => version'[t] = version[t]
  BY <1>1, <1>2
<1>4. listed[t].stage # "idle" => listed[t].version <= version'[t]
  BY <1>1, <1>2 DEF ListedKept
<1>5. listed[t].stage \in {"looked", "decided"} =>
        (version'[t] = listed[t].version => pin'[t] = listed[t].pin)
  BY <1>1, <1>2, <1>3 DEF ListedKept
<1> QED
  BY <1>1, <1>2, <1>4, <1>5 DEF ListedKept, Paid

\* Another task's row is as it was.
LEMMA OthersKept ==
    ASSUME NEW t \in Task, ListedKept(t), UNCHANGED pin, listed'[t] = listed[t],
           decision'[t] = decision[t], version'[t] = version[t]
    PROVE  ListedKept(t)'
BY DEF ListedKept, Paid

LEMMA NotListedRow ==
    /\ NotListed \in ListedRow /\ NotListed.stage = "idle"
    /\ 0 \in Instant
<1>1. 0 \in Instant
  BY CalendarAssumption DEF Instant
<1> QED
  BY <1>1 DEF NotListed, ListedRow, Stage

\* What a step of a tick leaves alone.
TickKeeps == UNCHANGED <<clock, pin, version, quota, capacity, claimed>>

LEMMA ListTaskKeeps ==
    ASSUME DecidingInv, NEW t \in Task, ListTask(t)
    PROVE  DecidingInv' /\ TickKeeps /\ UNCHANGED <<decision, circuit>>
<1>1. PICK row : row = [NotListed EXCEPT !.stage = "listed", !.at = clock, !.version = version[t]]
  OBVIOUS
<1>2. listed' = [listed EXCEPT ![t] = row] /\ TickKeeps /\ UNCHANGED <<decision, circuit>>
  BY <1>1 DEF ListTask, Keeps, gates, TickKeeps
<1>3. clock \in Instant
  BY RoutingAssumption, CalendarAssumption DEF DecidingInv, Typed, Instant
<1>4. row \in ListedRow /\ row.stage = "listed" /\ row.version = version[t]
  BY <1>1, <1>3, NotListedRow DEF DecidingInv, Typed, ListedRow, Stage
<1>5. listed' \in [Task -> ListedRow] /\ listed'[t] = row
      /\ \A u \in Task \ {t} : listed'[u] = listed[u]
  BY <1>2, <1>4 DEF DecidingInv, Typed
<1>6. Typed'
  BY <1>2, <1>5 DEF DecidingInv, Typed, TickKeeps
<1>7. ListedKept(t)'
  BY <1>2, <1>4, <1>5 DEF ListedKept, TickKeeps, DecidingInv, Typed
<1>8. \A u \in Task \ {t} : ListedKept(u)'
  BY <1>2, <1>5, OthersKept DEF DecidingInv, TickKeeps
<1> QED
  BY <1>2, <1>6, <1>7, <1>8 DEF DecidingInv

\* Only the target a task is pinned to passes when it is paid for.
LEMMA PassingIsPinned ==
    ASSUME NEW t, NEW now, NEW k \in PassingFirst(t, now), Paid(k)
    PROVE  pin[t] = k
<1>1. FirstReason(t, k, now) = "route.allowed"
  BY DEF PassingFirst
<1> QED
  BY <1>1 DEF FirstReason

LEMMA PreliminaryKeeps ==
    ASSUME DecidingInv, NEW t \in Task, Preliminary(t)
    PROVE  DecidingInv' /\ TickKeeps /\ UNCHANGED <<decision, circuit>>
<1>1. PICK passed : passed = PassingFirst(t, listed[t].at)
  OBVIOUS
<1>2. PICK row : row = [listed[t] EXCEPT !.stage = "looked", !.pin = pin[t], !.passed = passed]
  OBVIOUS
<1>3. listed[t] \in ListedRow /\ listed[t].stage = "listed" /\ listed[t].version <= version[t]
  BY DEF Preliminary, DecidingInv, Typed, ListedKept
<1>4. listed' = [listed EXCEPT ![t] = row] /\ TickKeeps /\ UNCHANGED <<decision, circuit>>
  BY <1>1, <1>2 DEF Preliminary, Keeps, gates, TickKeeps
<1>5. passed \in SUBSET Target
  BY <1>1, RoutingAssumption DEF PassingFirst
<1>6. /\ row \in ListedRow /\ row.stage = "looked" /\ row.pin = pin[t] /\ row.passed = passed
      /\ row.version = listed[t].version
  BY <1>2, <1>3, <1>5 DEF DecidingInv, Typed, ListedRow, Stage
<1>7. listed' \in [Task -> ListedRow] /\ listed'[t] = row
      /\ \A u \in Task \ {t} : listed'[u] = listed[u]
  BY <1>4, <1>6 DEF DecidingInv, Typed
<1>8. Typed'
  BY <1>4, <1>7 DEF DecidingInv, Typed, TickKeeps
<1>9. \A k \in passed : Paid(k) => pin[t] = k
  BY <1>1, PassingIsPinned
<1>10. ListedKept(t)'
  BY <1>3, <1>4, <1>6, <1>7, <1>9 DEF ListedKept, TickKeeps, Paid
<1>11. \A u \in Task \ {t} : ListedKept(u)'
  BY <1>4, <1>7, OthersKept DEF DecidingInv, TickKeeps
<1> QED
  BY <1>4, <1>8, <1>10, <1>11 DEF DecidingInv

\* A decision changes one task's rows: it ends what was read, or it allows.
LEMMA DecideKeeps ==
    ASSUME DecidingInv, NEW t \in Task, NEW row, Decide(t, row),
           row.allowed => /\ listed[t].stage = "looked"
                          /\ row.target \in listed[t].passed,
           circuit' \in [Target -> CircuitRow]
    PROVE  /\ DecidingInv' /\ TickKeeps
           /\ decision'[t] = row /\ \A u \in Task \ {t} : decision'[u] = decision[u]
<1>1. /\ decision' = [decision EXCEPT ![t] = row]
      /\ listed' = [listed EXCEPT ![t] = IF row.allowed THEN [listed[t] EXCEPT !.stage = "decided"]
                                                        ELSE NotListed]
      /\ TickKeeps
  BY DEF Decide, Keeps, gates, TickKeeps
<1>2. PICK next : next = IF row.allowed THEN [listed[t] EXCEPT !.stage = "decided"]
                                        ELSE NotListed
  OBVIOUS
<1>3. listed[t] \in ListedRow /\ ListedKept(t)
  BY DEF DecidingInv, Typed
<1>4. /\ next \in ListedRow
      /\ ~row.allowed => next.stage = "idle"
      /\ row.allowed => /\ next.stage = "decided" /\ next.version = listed[t].version
                        /\ next.pin = listed[t].pin
  BY <1>2, <1>3, NotListedRow DEF ListedRow, Stage
<1>5. listed' \in [Task -> ListedRow] /\ listed'[t] = next
      /\ \A u \in Task \ {t} : listed'[u] = listed[u]
  BY <1>1, <1>2, <1>4 DEF DecidingInv, Typed
<1>6. /\ decision' = [u \in Task |-> decision'[u]]
      /\ decision'[t] = row /\ \A u \in Task \ {t} : decision'[u] = decision[u]
  BY <1>1 DEF DecidingInv, Typed
<1>7. Typed'
  BY <1>1, <1>5, <1>6 DEF DecidingInv, Typed, TickKeeps
<1>8. ListedKept(t)'
  <2>1. CASE ~row.allowed
    BY <1>4, <1>5, <2>1 DEF ListedKept
  <2>2. CASE row.allowed
    <3>1. row.target \in Target
      BY <1>3, <2>2 DEF ListedRow
    <3> QED
      BY <1>1, <1>3, <1>4, <1>5, <1>6, <2>2, <3>1 DEF ListedKept, TickKeeps, Paid
  <2> QED
    BY <2>1, <2>2
<1>9. \A u \in Task \ {t} : ListedKept(u)'
  BY <1>1, <1>5, <1>6, OthersKept DEF DecidingInv, TickKeeps
<1> QED
  BY <1>1, <1>6, <1>7, <1>8, <1>9 DEF DecidingInv

\* A refusal.
LEMMA DeniedKeeps ==
    ASSUME DecidingInv, NEW t \in Task, NEW reason, NEW wake, Denied(t, reason, wake),
           UNCHANGED circuit
    PROVE  /\ DecidingInv' /\ TickKeeps
           /\ ~decision'[t].allowed /\ \A u \in Task \ {t} : decision'[u] = decision[u]
<1>1. PICK row : row = [allowed |-> FALSE, target |-> None, at |-> listed[t].at,
                        reason |-> reason, wake |-> wake]
  OBVIOUS
<1>2. Decide(t, row) /\ ~row.allowed /\ circuit' \in [Target -> CircuitRow]
  BY <1>1 DEF Denied, DecidingInv, Typed
<1> QED
  BY <1>2, DecideKeeps

\* The winner of a selection is decided when it passes again.
LEMMA SelectKeeps ==
    ASSUME DecidingInv, NEW t \in Task, Select(t)
    PROVE  /\ DecidingInv' /\ TickKeeps
           /\ \A u \in Task \ {t} : decision'[u] = decision[u]
           /\ decision'[t].allowed =>
                /\ decision'[t].target = Selected(t, Fit(t)) /\ Fit(t) # {}
                /\ RouteReason(t, decision'[t].target, decision'[t].at) = "route.allowed"
           /\ \A k \in Target : (circuit[k].state = "open" /\ circuit'[k].state = "half_open")
                => decision'[t].allowed /\ decision'[t].target = k
<1>1. PICK k : k = Selected(t, Fit(t))
  OBVIOUS
<1>2. PICK now : now = listed[t].at
  OBVIOUS
<1>3. /\ listed[t].stage = "looked" /\ Fit(t) # {}
      /\ IF Passes(t, k, now)
         THEN Allowed(t, k) /\ ProbeTaken(k)
         ELSE /\ Denied(t, RouteReason(t, k, now), RouteWake(t, k, now))
              /\ UNCHANGED circuit
  BY <1>1, <1>2, Zenon DEF Select
<1>4. k \in Target /\ k \in listed[t].passed
  BY <1>1, <1>3, SelectedIsBest, MarginIsNat DEF DecidingInv
<1>5. CASE ~Passes(t, k, now)
  <2>1. /\ DecidingInv' /\ TickKeeps /\ UNCHANGED circuit
        /\ ~decision'[t].allowed /\ \A u \in Task \ {t} : decision'[u] = decision[u]
    BY <1>3, <1>5, DeniedKeeps
  <2> QED
    BY <2>1
<1>6. CASE Passes(t, k, now)
  <2>1. PICK row : row = [allowed |-> TRUE, target |-> k, at |-> now,
                          reason |-> "route.allowed", wake |-> None]
    OBVIOUS
  <2>2. /\ Decide(t, row) /\ ProbeTaken(k)
        /\ row.allowed /\ row.target = k /\ row.at = now
    BY <1>2, <1>3, <1>6, <2>1 DEF Allowed
  <2>3. /\ circuit' \in [Target -> CircuitRow]
        /\ \A j \in Target \ {k} : circuit'[j] = circuit[j]
    BY <1>4, <2>2 DEF ProbeTaken, DecidingInv, Typed, CircuitRow
  <2>4. /\ DecidingInv' /\ TickKeeps
        /\ decision'[t] = row /\ \A u \in Task \ {t} : decision'[u] = decision[u]
    BY <1>3, <1>4, <2>2, <2>3, DecideKeeps
  <2>5. RouteReason(t, k, now) = "route.allowed"
    BY <1>6, PassingIsAllowed
  <2> QED
    BY <1>1, <1>3, <2>2, <2>3, <2>4, <2>5
<1> QED
  BY <1>5, <1>6

\* A task that is claimed or refused is not listed any more.
LEMMA UnlistedKeeps ==
    ASSUME DecidingInv, NEW t \in Task, listed' = [listed EXCEPT ![t] = NotListed],
           UNCHANGED <<clock, pin, circuit, quota, capacity, decision>>,
           version' \in [Task -> Nat], \A u \in Task \ {t} : version'[u] = version[u],
           claimed' \in [Task -> Target \cup {None}]
    PROVE  DecidingInv'
<1>1. listed' \in [Task -> ListedRow] /\ listed'[t].stage = "idle"
      /\ \A u \in Task \ {t} : listed'[u] = listed[u]
  BY NotListedRow DEF DecidingInv, Typed
<1>2. Typed'
  BY <1>1 DEF DecidingInv, Typed
<1>3. ListedKept(t)'
  BY <1>1 DEF ListedKept
<1>4. \A u \in Task \ {t} : ListedKept(u)'
  BY <1>1, OthersKept DEF DecidingInv
<1> QED
  BY <1>2, <1>3, <1>4 DEF DecidingInv
LEMMA ClaimDecidedKeeps ==
    ASSUME DecidingInv, NEW t \in Task, ClaimDecided(t)
    PROVE  /\ DecidingInv' /\ UNCHANGED <<decision, circuit>>
           /\ \A u \in Task \ {t} : claimed'[u] = claimed[u]
           /\ ExactlyPinned(t, claimed'[t])
           /\ Api(claimed'[t]) => plan[t] = version[t]
<1>1. PICK k : k = decision[t].target
  OBVIOUS
<1>2. /\ listed[t].stage = "decided" /\ ListedKept(t)
      /\ version[t] = listed[t].version
      /\ Api(k) => plan[t] = listed[t].version
      /\ claimed' = [claimed EXCEPT ![t] = k]
      /\ version' = [version EXCEPT ![t] = @ + 1]
      /\ listed' = [listed EXCEPT ![t] = NotListed]
      /\ UNCHANGED <<clock, capacity, pin, circuit, quota, decision>>
  BY <1>1 DEF ClaimDecided, Claimable, DecidingInv, gates
<1>3. k \in Target /\ pin[t] = listed[t].pin /\ (Paid(k) => listed[t].pin = k)
  BY <1>1, <1>2 DEF ListedKept
<1>4. /\ claimed' \in [Task -> Target \cup {None}] /\ claimed'[t] = k
      /\ \A u \in Task \ {t} : claimed'[u] = claimed[u]
  BY <1>2, <1>3 DEF DecidingInv, Typed
<1>5. version' \in [Task -> Nat] /\ \A u \in Task \ {t} : version'[u] = version[u]
  BY <1>2 DEF DecidingInv, Typed
<1>6. DecidingInv'
  BY <1>2, <1>4, <1>5, UnlistedKeeps
<1>7. ExactlyPinned(t, k)
  BY <1>3 DEF ExactlyPinned
<1> QED
  BY <1>2, <1>4, <1>6, <1>7

LEMMA ClaimRefusedKeeps ==
    ASSUME DecidingInv, NEW t \in Task, ClaimRefused(t)
    PROVE  DecidingInv' /\ UNCHANGED <<decision, circuit, claimed>>
<1>1. /\ listed' = [listed EXCEPT ![t] = NotListed]
      /\ UNCHANGED <<clock, pin, version, quota, capacity, circuit, decision, claimed>>
  BY DEF ClaimRefused, Keeps, gates
<1>2. version' \in [Task -> Nat] /\ claimed' \in [Task -> Target \cup {None}]
  BY <1>1 DEF DecidingInv, Typed
<1>3. DecidingInv'
  BY <1>1, <1>2, UnlistedKeeps
<1> QED
  BY <1>1, <1>3

-----------------------------------------------------------------------------
(* What a step may do. *)

ClaimsExactly ==
    \A t \in Task : (claimed[t] = None /\ claimed'[t] # None)
        => /\ ExactlyPinned(t, claimed'[t])
           /\ Api(claimed'[t]) => plan[t] = version[t]

AllowsWhatHolds ==
    \A t \in Task, k \in Target :
        /\ (decision'[t] # decision[t] /\ decision'[t].allowed /\ decision'[t].target = k)
              => RouteReason(t, k, decision'[t].at) = "route.allowed"
        /\ (circuit[k].state = "open" /\ circuit'[k].state = "half_open")
              => \E u \in Task : decision'[u].allowed /\ decision'[u].target = k

AllowsTheBest ==
    \A t \in Task : (decision'[t] # decision[t] /\ decision'[t].allowed)
        => LET k == decision'[t].target IN
           /\ k \in Fit(t)
           /\ \A j \in Fit(t) \ {k} :
                \/ Margin(j) < Margin(k)
                \/ Margin(j) = Margin(k) /\ k < j

Proper == DecidingInv' /\ ClaimsExactly /\ AllowsWhatHolds /\ AllowsTheBest

LEMMA AsideIsProper ==
    ASSUME DecidingInv, Aside
    PROVE  Proper
<1>1. DecidingInv'
  BY AsideKeepsListed
<1>2. ClaimsExactly /\ AllowsWhatHolds /\ AllowsTheBest
  <2>1. /\ decision' = decision /\ \A t \in Task : claimed'[t] \in {claimed[t], None}
        /\ \A k \in Target : circuit'[k].state = "half_open" => circuit[k].state = "half_open"
    BY DEF Aside
  <2>2. ClaimsExactly
    BY <2>1 DEF ClaimsExactly
  <2>3. AllowsWhatHolds
    BY <2>1 DEF AllowsWhatHolds
  <2> QED
    BY <2>1, <2>2, <2>3 DEF AllowsTheBest
<1> QED
  BY <1>1, <1>2 DEF Proper

\* Nothing is decided, and no probe is taken.
LEMMA UndecidingIsProper ==
    ASSUME DecidingInv', UNCHANGED <<decision, circuit>>, ClaimsExactly
    PROVE  Proper
<1>1. AllowsWhatHolds
  BY DEF AllowsWhatHolds
<1> QED
  BY <1>1 DEF Proper, AllowsTheBest

\* A refusal allows nothing.
LEMMA DeniedIsProper ==
    ASSUME DecidingInv, NEW t \in Task, NEW reason, NEW wake, Denied(t, reason, wake),
           UNCHANGED circuit
    PROVE  Proper
<1>1. /\ DecidingInv' /\ claimed' = claimed
      /\ ~decision'[t].allowed /\ \A u \in Task \ {t} : decision'[u] = decision[u]
  BY DeniedKeeps DEF TickKeeps
<1>2. ClaimsExactly
  BY <1>1 DEF ClaimsExactly
<1>3. AllowsWhatHolds
  BY <1>1 DEF AllowsWhatHolds
<1>4. AllowsTheBest
  BY <1>1 DEF AllowsTheBest
<1> QED
  BY <1>1, <1>2, <1>3, <1>4 DEF Proper

LEMMA SelectIsProper ==
    ASSUME DecidingInv, NEW t \in Task, Select(t)
    PROVE  Proper
<1>1. /\ DecidingInv' /\ claimed' = claimed
      /\ \A u \in Task \ {t} : decision'[u] = decision[u]
      /\ decision'[t].allowed =>
            /\ decision'[t].target = Selected(t, Fit(t)) /\ Fit(t) # {}
            /\ RouteReason(t, decision'[t].target, decision'[t].at) = "route.allowed"
      /\ \A k \in Target : (circuit[k].state = "open" /\ circuit'[k].state = "half_open")
            => decision'[t].allowed /\ decision'[t].target = k
  BY SelectKeeps DEF TickKeeps
<1>2. ClaimsExactly
  BY <1>1 DEF ClaimsExactly
<1>3. AllowsWhatHolds
  BY <1>1 DEF AllowsWhatHolds
<1>4. AllowsTheBest
  <2> SUFFICES ASSUME NEW u \in Task, decision'[u] # decision[u], decision'[u].allowed,
                      NEW k, k = decision'[u].target
               PROVE  /\ k \in Fit(u)
                      /\ \A j \in Fit(u) \ {k} :
                            \/ Margin(j) < Margin(k)
                            \/ Margin(j) = Margin(k) /\ k < j
    BY DEF AllowsTheBest
  <2>1. u = t
    BY <1>1
  <2>2. k = Selected(t, Fit(t)) /\ Fit(t) # {} /\ Typed
    BY <1>1, <2>1 DEF DecidingInv
  <2> QED
    BY <2>1, <2>2, SelectedIsBest
<1> QED
  BY <1>1, <1>2, <1>3, <1>4 DEF Proper

LEMMA RoutingTickIsProper ==
    ASSUME DecidingInv, RoutingTick
    PROVE  Proper
<1>1. ASSUME NEW t \in Task, ListTask(t) PROVE Proper
  <2>1. DecidingInv' /\ UNCHANGED <<decision, circuit, claimed>>
    BY <1>1, ListTaskKeeps DEF TickKeeps
  <2> QED
    BY <2>1, UndecidingIsProper DEF ClaimsExactly
<1>2. ASSUME NEW t \in Task, Preliminary(t) PROVE Proper
  <2>1. DecidingInv' /\ UNCHANGED <<decision, circuit, claimed>>
    BY <1>2, PreliminaryKeeps DEF TickKeeps
  <2> QED
    BY <2>1, UndecidingIsProper DEF ClaimsExactly
<1>3. ASSUME NEW t \in Task, NothingPasses(t) PROVE Proper
  <2>1. PICK reason, wake : Denied(t, reason, wake) /\ UNCHANGED circuit
    BY <1>3, Zenon DEF NothingPasses
  <2> QED
    BY <2>1, DeniedIsProper
<1>4. ASSUME NEW t \in Task, NothingFits(t) PROVE Proper
  <2>1. PICK reason, wake : Denied(t, reason, wake) /\ UNCHANGED circuit
    BY <1>4, Zenon DEF NothingFits
  <2> QED
    BY <2>1, DeniedIsProper
<1>5. ASSUME NEW t \in Task, Select(t) PROVE Proper
  BY <1>5, SelectIsProper
<1>6. ASSUME NEW t \in Task, ClaimDecided(t) PROVE Proper
  <2>1. /\ DecidingInv' /\ UNCHANGED <<decision, circuit>>
        /\ \A u \in Task \ {t} : claimed'[u] = claimed[u]
        /\ ExactlyPinned(t, claimed'[t])
        /\ Api(claimed'[t]) => plan[t] = version[t]
    BY <1>6, ClaimDecidedKeeps
  <2>2. ClaimsExactly
    BY <2>1 DEF ClaimsExactly
  <2> QED
    BY <2>1, <2>2, UndecidingIsProper
<1>7. ASSUME NEW t \in Task, ClaimRefused(t) PROVE Proper
  <2>1. DecidingInv' /\ UNCHANGED <<decision, circuit, claimed>>
    BY <1>7, ClaimRefusedKeeps
  <2> QED
    BY <2>1, UndecidingIsProper DEF ClaimsExactly
<1> QED
  BY <1>1, <1>2, <1>3, <1>4, <1>5, <1>6, <1>7 DEF RoutingTick

LEMMA NextIsProper == DecidingInv /\ [RoutingNext]_routingVars => Proper
<1> SUFFICES ASSUME DecidingInv, [RoutingNext]_routingVars PROVE Proper
  OBVIOUS
<1>1. Typed
  BY DEF DecidingInv
<1>2. CASE Outside
  BY <1>1, <1>2, OutsideIsAside, AsideIsProper
<1>3. CASE RoutingTick
  BY <1>3, RoutingTickIsProper
<1>4. CASE Tick
  BY <1>1, <1>4, TickIsAside, AsideIsProper
<1>5. CASE UNCHANGED routingVars
  BY <1>1, <1>5, NothingIsAside, AsideIsProper
<1> QED
  BY <1>2, <1>3, <1>4, <1>5 DEF RoutingNext

LEMMA InitDecides == RoutingInit => DecidingInv
<1> SUFFICES ASSUME RoutingInit PROVE DecidingInv
  OBVIOUS
<1>1. PICK row \in Setup :
        /\ pin = [t \in Task |-> row.pin]
        /\ quota = [s \in Surface |-> row.quota]
        /\ capacity = [k \in Target |-> IF Api(k) THEN row.capacity ELSE None]
  BY DEF RoutingInit
<1>2. /\ row.pin \in Target \cup {None} /\ row.quota \in SurfaceRow \cup {None}
      /\ row.capacity \in 0..100 \cup {None}
  BY DecidingAssumption DEF SetupRow
<1>3. /\ pin \in [Task -> Target \cup {None}]
      /\ quota \in [Surface -> SurfaceRow \cup {None}]
      /\ capacity \in [Target -> 0..100 \cup {None}]
  BY <1>1, <1>2
<1>4. /\ clock = 0 /\ version = [t \in Task |-> 1]
      /\ circuit = [k \in Target |-> [state |-> "closed", nextProbe |-> None]]
      /\ listed = [t \in Task |-> NotListed]
      /\ decision = [t \in Task |-> Undecided]
      /\ claimed = [t \in Task |-> None]
  BY DEF RoutingInit
<1>5. clock \in 0..MaxClock
  BY <1>4, RoutingAssumption DEF Instant
<1>6. listed \in [Task -> ListedRow] /\ \A t \in Task : listed[t].stage = "idle"
  BY <1>4, NotListedRow
<1>7. circuit \in [Target -> CircuitRow]
  BY <1>4 DEF CircuitRow
<1>8. Typed
  BY <1>3, <1>4, <1>5, <1>6, <1>7 DEF Typed
<1> QED
  BY <1>6, <1>8 DEF DecidingInv, ListedKept

THEOREM DecidingInvariant == RoutingSpec => []DecidingInv
<1>1. DecidingInv /\ [RoutingNext]_routingVars => DecidingInv'
  BY NextIsProper DEF Proper
<1> QED
  BY InitDecides, <1>1, PTL DEF RoutingSpec

\* Whatever other processes change between the steps of a tick, paid work is
\* claimed only for the exact target its task is pinned to at that moment, and
\* an API request only with the plan of that version of its task.
THEOREM PaidWorkStaysExact == RoutingSpec => PaidWorkIsExact
<1>1. DecidingInv /\ [RoutingNext]_routingVars => [ClaimsExactly]_routingVars
  BY NextIsProper DEF Proper
<1> QED
  BY <1>1, DecidingInvariant, PTL DEF RoutingSpec, PaidWorkIsExact, ClaimsExactly

\* Nothing that any gate closed since the first look is allowed, and no probe
\* of an open circuit is taken for a decision that allows nothing.
THEOREM DecisionsHold == RoutingSpec => DecidedOnWhatHolds
<1>1. DecidingInv /\ [RoutingNext]_routingVars => [AllowsWhatHolds]_routingVars
  BY NextIsProper DEF Proper
<1> QED
  BY <1>1, DecidingInvariant, PTL DEF RoutingSpec, DecidedOnWhatHolds, AllowsWhatHolds

\* For all quotas, reserves and forecasts the winner has the largest margin,
\* and among equals the first name.
THEOREM TheBestWin == RoutingSpec => BestCandidateWins
<1>1. DecidingInv /\ [RoutingNext]_routingVars => [AllowsTheBest]_routingVars
  BY NextIsProper DEF Proper
<1> QED
  BY <1>1, DecidingInvariant, PTL DEF RoutingSpec, BestCandidateWins, AllowsTheBest

-----------------------------------------------------------------------------
(* The first eligible day. *)

LEMMA ReadingOfDay ==
    ASSUME NEW d \in Nat, NEW m \in 0..GapSearch
    PROVE  d * DayLength + m \in Nat /\ (d * DayLength + m) \div DayLength = d
<1> DEFINE r == d * DayLength + m
           q == r \div DayLength
           n == r % DayLength
<1>1. d * DayLength \in Nat /\ r \in Nat
  <2>1. \A x, y \in Nat : x * y \in Nat
    OBVIOUS
  <2> QED
    BY <2>1, CalendarAssumption
<1>2. q \in Nat /\ n \in Nat /\ n < DayLength /\ r = DayLength * q + n
  <2>1. \A x \in Nat, y \in Nat \ {0} :
          x \div y \in Nat /\ x % y \in Nat /\ x % y < y /\ x = y * (x \div y) + (x % y)
    OBVIOUS
  <2> HIDE DEF r
  <2> QED
    BY <1>1, <2>1, CalendarAssumption
<1>3. m \in Nat /\ m < DayLength
  BY CalendarAssumption
<1>4. \A x, y, a, b, z \in Nat :
        a < z /\ b < z /\ x * z + a = z * y + b => ~(x < y) /\ ~(y < x)
  <2> SUFFICES ASSUME NEW x \in Nat, NEW y \in Nat, NEW a \in Nat, NEW b \in Nat,
                      NEW z \in Nat, a < z, b < z, x * z + a = z * y + b
               PROVE  ~(x < y) /\ ~(y < x)
    OBVIOUS
  <2>1. ASSUME x < y PROVE FALSE
    <3>1. PICK e \in Nat : y = x + 1 + e
      BY <2>1
    <3>2. z * y = x * z + z + z * e
      BY <3>1
    <3>3. z * e \in Nat /\ x * z \in Nat
      OBVIOUS
    <3> QED
      BY <3>2, <3>3
  <2>2. ASSUME y < x PROVE FALSE
    <3>1. PICK e \in Nat : x = y + 1 + e
      BY <2>2
    <3>2. x * z = z * y + z + z * e
      BY <3>1
    <3>3. z * e \in Nat /\ z * y \in Nat
      OBVIOUS
    <3> QED
      BY <3>2, <3>3
  <2> QED
    BY <2>1, <2>2
<1>5. d * DayLength + m = DayLength * q + n
  BY <1>2
<1>6. ~(d < q) /\ ~(q < d)
  <2> HIDE DEF r, q, n
  <2> QED
    BY <1>2, <1>3, <1>4, <1>5, CalendarAssumption
<1> QED
  <2> HIDE DEF r, q, n
  <2>1. q = d
    BY <1>2, <1>6
  <2> QED
    BY <1>1, <2>1 DEF r, q

\* A day starts at an instant of that day.
LEMMA StartIsOfTheDay ==
    ASSUME NEW d \in Nat, LocalDayStart(d) # None
    PROVE  LocalDayStart(d) \in Instant /\ DayOf(LocalDayStart(d)) = d
<1> DEFINE readings == {d * DayLength + m : m \in 0..GapSearch}
           shown == {l \in readings : ReadAt(l) # {}}
<1>1. readings \subseteq Nat
  BY ReadingOfDay
<1>2. shown # {} /\ LocalDayStart(d) = Min(ReadAt(Min(shown)))
  BY DEF LocalDayStart
<1>3. Min(shown) \in shown
  <2> HIDE DEF readings
  <2>1. shown \in SUBSET Nat
    BY <1>1
  <2> HIDE DEF shown
  <2> QED
    BY <1>2, <2>1, LeastOf
<1>4. PICK l \in readings : l = Min(shown) /\ ReadAt(l) # {}
  BY <1>3
<1>5. ReadAt(l) \in SUBSET Nat /\ ReadAt(l) # {}
  <2>1. Instant \subseteq Nat
    BY CalendarAssumption DEF Instant
  <2> HIDE DEF shown, readings
  <2> QED
    BY <1>4, <2>1 DEF ReadAt
<1>6. Min(ReadAt(l)) \in ReadAt(l)
  BY <1>5, LeastOf
<1>7. LocalDayStart(d) \in Instant /\ LocalOf[LocalDayStart(d)] = l
  <2> HIDE DEF shown, readings
  <2> QED
    BY <1>2, <1>4, <1>6 DEF ReadAt
<1>8. l \div DayLength = d
  BY ReadingOfDay
<1> QED
  BY <1>7, <1>8 DEF DayOf

LEMMA DaysAreNats ==
    ASSUME NEW u \in Instant
    PROVE  DayOf(u) \in Nat
<1>1. LocalOf[u] \in Nat
  BY CalendarAssumption
<1>2. \A x \in Nat, y \in Nat \ {0} : x \div y \in Nat
  OBVIOUS
<1> QED
  BY <1>1, <1>2, CalendarAssumption DEF DayOf

LEMMA FirstEligible ==
    ASSUME DaysFollow, DaysBeginOnce, NEW now \in Instant, NEW affinity,
           NEW week, NEW except, ~Eligible(week, except, affinity, now)
    PROVE  LET next == NextEligible(week, except, affinity, DayOf(now)) IN
           IF next # None
           THEN /\ Eligible(week, except, affinity, next) /\ next > now
                /\ \A u \in now..(next - 1) : ~Eligible(week, except, affinity, u)
           ELSE \A u \in now..MaxInstant :
                   DayOf(u) <= DayOf(now) + SearchDays => ~Eligible(week, except, affinity, u)
<1> DEFINE day == DayOf(now)
           next == NextEligible(week, except, affinity, day)
           match(x) == Matches(affinity, ResolveDay(week, except, x))
           later == {x \in (day + 1)..(day + SearchDays) : match(x)}
           last == DayOf(MaxInstant)
<1>1. day \in Nat /\ last \in Nat /\ MaxInstant \in Instant /\ 0 \in Instant
  BY DaysAreNats, CalendarAssumption DEF Instant
<1>2. next = IF later = {} THEN None ELSE LocalDayStart(Min(later))
  BY DEF NextEligible
<1>3. \A u : Eligible(week, except, affinity, u) <=> match(DayOf(u))
  BY DEF Eligible
<1>4. ~match(day)
  BY <1>3
<1>5. later \in SUBSET Nat /\ \A x \in later : x > day /\ x <= day + SearchDays
  BY <1>1, CalendarAssumption
<1>6. \A u \in Instant : u >= now => DayOf(u) \in Nat /\ DayOf(u) >= day
  BY DaysAreNats DEF DaysFollow, Instant
<1>7. \A x \in Nat : x > day /\ x <= day + SearchDays /\ match(x) => x \in later
  BY <1>1, CalendarAssumption
<1>8. \A x \in Nat : x >= day /\ x # day => x > day
  BY <1>1
<1> HIDE DEF match, next, later, day, last
<1>9. CASE later = {}
  <2>1. ASSUME NEW u \in now..MaxInstant, DayOf(u) <= day + SearchDays
        PROVE  ~match(DayOf(u))
    <3>1. u \in Instant /\ u >= now
      BY CalendarAssumption DEF Instant
    <3> QED
      BY <1>4, <1>6, <1>7, <1>8, <1>9, <2>1, <3>1
  <2> QED
    BY <1>2, <1>3, <1>9, <2>1 DEF next, day
<1>10. CASE later # {}
  <2> DEFINE first == Min(later)
  <2>1. first \in later /\ \A x \in later : first <= x
    BY <1>5, <1>10, LeastOf
  <2>2. first \in Nat /\ first > day /\ first <= day + SearchDays
    BY <1>5, <2>1
  <2>3. match(first)
    BY <2>1 DEF later
  <2> HIDE DEF first
  <2>4. next = LocalDayStart(first)
    BY <1>2, <1>10 DEF first
  <2>5. \A x \in Nat : x >= day /\ x < first => ~match(x)
    <3>1. \A x \in later : x \in Nat /\ ~(x < first)
      BY <1>5, <2>1, <2>2
    <3>2. \A x \in Nat : x < first => x <= day + SearchDays
      BY <1>1, <2>2, CalendarAssumption
    <3> QED
      BY <1>4, <1>7, <1>8, <3>1, <3>2
  <2>6. CASE next = None
    <3>1. \A u \in Instant : DayOf(u) \in Nat /\ DayOf(u) <= last
      BY <1>1, DaysAreNats DEF DaysFollow, Instant, last
    <3>2. ~(first \in 1..last)
      BY <2>4, <2>6, CalendarAssumption DEF last
    <3>3. first > last
      BY <1>1, <2>2, <3>2
    <3>4. ASSUME NEW u \in now..MaxInstant
          PROVE  ~match(DayOf(u))
      <4>1. u \in Instant /\ u >= now
        BY CalendarAssumption DEF Instant
      <4>2. DayOf(u) \in Nat /\ DayOf(u) >= day /\ DayOf(u) <= last
        BY <1>6, <3>1, <4>1
      <4>3. DayOf(u) < first
        BY <1>1, <2>2, <3>3, <4>2
      <4> QED
        BY <2>5, <4>2, <4>3
    <3> QED
      BY <1>3, <2>6, <3>4 DEF next, day
  <2>7. CASE next # None
    <3>1. next \in Instant /\ DayOf(next) = first
      BY <2>2, <2>4, <2>7, StartIsOfTheDay
    <3>2. next > now
      <4>1. next <= now => DayOf(next) <= DayOf(now)
        BY <3>1 DEF DaysFollow
      <4> QED
        BY <1>1, <2>2, <3>1, <4>1, CalendarAssumption DEF day, Instant
    <3>3. first > DayOf(0)
      <4>1. DayOf(0) \in Nat /\ DayOf(0) <= day
        BY <1>1, DaysAreNats, CalendarAssumption DEF DaysFollow, day, Instant
      <4> QED
        BY <1>1, <2>2, <4>1
    <3>4. first \in Day
      <4>1. day <= last
        BY <1>1, CalendarAssumption DEF DaysFollow, day, last, Instant
      <4> QED
        BY <1>1, <2>2, <4>1, CalendarAssumption DEF Day, last
    <3>5. ASSUME NEW u \in now..(next - 1) PROVE ~match(DayOf(u))
      <4>1. u \in Instant /\ u >= now /\ u < next
        BY <3>1, CalendarAssumption DEF Instant
      <4>2. DayOf(u) \in Nat /\ DayOf(u) >= day
        BY <1>6, <4>1
      <4>3. DayOf(u) <= first
        BY <3>1, <4>1 DEF DaysFollow, Instant
      <4>4. DayOf(u) # first
        <5>1. DayOf(u) = first => LocalDayStart(first) <= u
          BY <2>4, <2>7, <3>3, <3>4, <4>1 DEF DaysBeginOnce
        <5>2. next \in Int /\ u \in Int /\ ~(next <= u)
          BY <3>1, <4>1, CalendarAssumption DEF Instant
        <5> QED
          BY <2>4, <5>1, <5>2
      <4> QED
        <5>1. DayOf(u) < first
          BY <2>2, <4>2, <4>3, <4>4
        <5> QED
          BY <2>5, <4>2, <5>1
    <3>6. match(DayOf(next))
      BY <2>3, <3>1
    <3> QED
      BY <1>3, <2>7, <3>2, <3>5, <3>6 DEF next, day
  <2> QED
    BY <2>6, <2>7
<1> QED
  BY <1>9, <1>10

\* In every zone whose days follow each other and begin once, a task on the
\* wrong kind of day sleeps to the very minute on which the right kind begins.
THEOREM WakesAreFirst ==
    DaysFollow /\ DaysBeginOnce /\ RoutingSpec => []NextEligibleIsFirst
<1>1. ASSUME DaysFollow, DaysBeginOnce, DecidingInv PROVE NextEligibleIsFirst
  <2>1. clock \in Instant
    BY <1>1, RoutingAssumption, CalendarAssumption DEF DecidingInv, Typed, Instant
  <2> QED
    BY <1>1, <2>1, FirstEligible DEF NextEligibleIsFirst
<1>2. DaysFollow /\ DaysBeginOnce /\ [RoutingNext]_routingVars => (DaysFollow /\ DaysBeginOnce)'
  BY DEF DaysFollow, DaysBeginOnce, DayOf, LocalDayStart, ReadAt, Instant, Day, Min
<1> QED
  BY <1>1, <1>2, DecidingInvariant, PTL DEF RoutingSpec

-----------------------------------------------------------------------------
(* Types of reasons and wakes. *)

GateRow == [open: BOOLEAN, reason: Reason]

LEMMA GateIsTyped ==
    ASSUME NEW open \in BOOLEAN, NEW reason \in Reason
    PROVE  Gate(open, reason) \in GateRow
BY DEF Gate, GateRow

LEMMA PartsOfReasons ==
    ASSUME NEW t, NEW k, NEW now
    PROVE  /\ PolicyReason(t) \in Reason /\ ApiPolicyReason(k) \in Reason
           /\ QuotaReason(k, now) \in Reason /\ CapacityReason(k, now) \in Reason
           /\ CircuitReason(k, now) \in Reason /\ CandidateReason(t, k, now) \in Reason
<1>1. PolicyReason(t) \in Reason
  BY DEF PolicyReason, Authorize, Reason
<1>2. ApiPolicyReason(k) \in Reason
  BY DEF ApiPolicyReason, Reason
<1>3. QuotaReason(k, now) \in Reason
  BY DEF QuotaReason, Reason
<1>4. CapacityReason(k, now) \in Reason
  BY DEF CapacityReason, Reason
<1>5. CircuitReason(k, now) \in Reason
  BY DEF CircuitReason, Reason
<1>6. CandidateReason(t, k, now) \in Reason
  BY DEF CandidateReason, Reason
<1> QED
  BY <1>1, <1>2, <1>3, <1>4, <1>5, <1>6

LEMMA GatesAreTyped ==
    ASSUME NEW t, NEW k, NEW now
    PROVE  Gates(t, k, now) \in Seq(GateRow)
<1>1. OperationGates(t, k, now) \in Seq(GateRow)
  <2>1. /\ (~stopped) \in BOOLEAN
        /\ (~paused) \in BOOLEAN
        /\ (~projectPaused) \in BOOLEAN
        /\ (t \notin blocked) \in BOOLEAN
        /\ (pin[t] \in {None, k}) \in BOOLEAN
        /\ Eligible(pattern, exceptions, AffinityOf[t], now) \in BOOLEAN
        /\ (Deadline[t] = None \/ now <= Deadline[t]) \in BOOLEAN
        /\ (notBefore[t] \in {None} \cup 0..now) \in BOOLEAN
    BY SMT DEF Eligible, Matches
  <2>2. {"operations.emergency_stop", "operations.paused", "project.paused", "dependency.incomplete",
         "manual_pin.mismatch", "schedule.ineligible", "deadline.expired", "retry.backoff"} \subseteq Reason
    BY DEF Reason
  <2>3. Gate(~stopped, "operations.emergency_stop") \in GateRow
    BY <2>1, <2>2, GateIsTyped, Zenon
  <2>4. Gate(~paused, "operations.paused") \in GateRow
    BY <2>1, <2>2, GateIsTyped, Zenon
  <2>5. Gate(~projectPaused, "project.paused") \in GateRow
    BY <2>1, <2>2, GateIsTyped, Zenon
  <2>6. Gate(t \notin blocked, "dependency.incomplete") \in GateRow
    BY <2>1, <2>2, GateIsTyped, Zenon
  <2>7. Gate(pin[t] \in {None, k}, "manual_pin.mismatch") \in GateRow
    BY <2>1, <2>2, GateIsTyped, Zenon
  <2>8. Gate(Eligible(pattern, exceptions, AffinityOf[t], now), "schedule.ineligible") \in GateRow
    BY <2>1, <2>2, GateIsTyped, Zenon
  <2>9. Gate(Deadline[t] = None \/ now <= Deadline[t], "deadline.expired") \in GateRow
    BY <2>1, <2>2, GateIsTyped, Zenon
  <2>10. Gate(notBefore[t] \in {None} \cup 0..now, "retry.backoff") \in GateRow
    BY <2>1, <2>2, GateIsTyped, Zenon
  <2> QED
    BY <2>3, <2>4, <2>5, <2>6, <2>7, <2>8, <2>9, <2>10 DEF OperationGates
<1>2. TargetGates(t, k, now) \in Seq(GateRow)
  <2>1. "capability.missing" \in Reason
    BY DEF Reason
  <2>2. /\ Gate(CircuitReason(k, now) \in {"circuit.closed", "circuit.probe_available"},
                CircuitReason(k, now)) \in GateRow
        /\ Gate(CapabilityPresent(t, k), "capability.missing") \in GateRow
        /\ Gate(PolicyReason(t) = "route.allowed", PolicyReason(t)) \in GateRow
    <3>1. /\ (CircuitReason(k, now) \in {"circuit.closed", "circuit.probe_available"}) \in BOOLEAN
          /\ CapabilityPresent(t, k) \in BOOLEAN
          /\ (PolicyReason(t) = "route.allowed") \in BOOLEAN
      BY SMT DEF CapabilityPresent
    <3> QED
      BY <2>1, <3>1, GateIsTyped, PartsOfReasons, Zenon
  <2> QED
    BY <2>2 DEF TargetGates
<1>3. ResourceGates(k, now) \in Seq(GateRow)
  <2>1. /\ Gate(ApiPolicyReason(k) = "route.allowed", ApiPolicyReason(k)) \in GateRow
        /\ Gate(CapacityReason(k, now) = "route.allowed", CapacityReason(k, now)) \in GateRow
        /\ Gate(QuotaReason(k, now) = "route.allowed", QuotaReason(k, now)) \in GateRow
    BY GateIsTyped, PartsOfReasons
  <2> QED
    BY <2>1 DEF ResourceGates
<1>4. \A r, s \in Seq(GateRow) : r \o s \in Seq(GateRow)
  OBVIOUS
<1> QED
  BY <1>1, <1>2, <1>3, <1>4 DEF Gates

LEMMA ReasonsAreTyped ==
    ASSUME NEW t, NEW k, NEW now
    PROVE  RouteReason(t, k, now) \in Reason /\ FirstReason(t, k, now) \in Reason
<1> DEFINE row == Gates(t, k, now)
           closed == {n \in DOMAIN row : ~row[n].open}
<1>1. RouteReason(t, k, now) \in Reason
  <2>1. row \in Seq(GateRow)
    BY GatesAreTyped
  <2> HIDE DEF row
  <2>2. closed \in SUBSET Nat /\ \A n \in closed : row[n] \in GateRow
    BY <2>1
  <2>3. closed # {} => Min(closed) \in closed
    BY <2>2, LeastOf
  <2>4. RouteReason(t, k, now)
          = IF closed = {} THEN "route.allowed" ELSE row[Min(closed)].reason
    BY DEF RouteReason, row
  <2> HIDE DEF closed
  <2>5. CASE closed = {}
    BY <2>4, <2>5 DEF Reason
  <2>6. CASE closed # {}
    <3>1. row[Min(closed)] \in GateRow
      BY <2>2, <2>3, <2>6
    <3>2. row[Min(closed)].reason \in Reason
      BY <3>1 DEF GateRow
    <3> QED
      BY <2>4, <2>6, <3>2
  <2> QED
    BY <2>5, <2>6
<1>2. FirstReason(t, k, now) \in Reason
  BY <1>1 DEF FirstReason, Reason
<1> QED
  BY <1>1, <1>2

LEMMA NextEligibleIsTyped ==
    ASSUME NEW week, NEW except, NEW affinity, NEW now \in Instant
    PROVE  ScheduleWake(week, except, affinity, now) \in Instant \cup {None}
<1> DEFINE later == {x \in (DayOf(now) + 1)..(DayOf(now) + SearchDays) :
                       Matches(affinity, ResolveDay(week, except, x))}
<1>1. DayOf(now) \in Nat
  BY DaysAreNats
<1>2. later \in SUBSET Nat
  BY <1>1, CalendarAssumption
<1>3. NextEligible(week, except, affinity, DayOf(now))
        = IF later = {} THEN None ELSE LocalDayStart(Min(later))
  BY DEF NextEligible
<1> HIDE DEF later
<1>4. NextEligible(week, except, affinity, DayOf(now)) \in Instant \cup {None}
  <2>1. CASE later = {}
    BY <1>3, <2>1
  <2>2. CASE later # {}
    <3>1. Min(later) \in Nat
      BY <1>2, <2>2, LeastOf
    <3> QED
      BY <1>3, <2>2, <3>1, StartIsOfTheDay
  <2> QED
    BY <2>1, <2>2
<1> QED
  BY <1>4 DEF ScheduleWake

LEMMA WakeIsTyped ==
    ASSUME Typed, notBefore \in [Task -> Instant \cup {None}],
           NEW t \in Task, NEW k \in Target, NEW now \in Instant
    PROVE  RouteWake(t, k, now) \in Instant \cup {None}
<1> DEFINE sched == ScheduleWake(pattern, exceptions, AffinityOf[t], now)
           retry == IF notBefore[t] # None /\ notBefore[t] > now THEN {notBefore[t]} ELSE {}
           probing == IF CircuitReason(k, now) \in {"circuit.open", "circuit.probe_claimed"}
                      THEN {circuit[k].nextProbe} ELSE {}
           due == {sched} \cup ResourceWakes(k, now) \cup retry \cup probing
<1>1. sched \in Instant \cup {None}
  BY NextEligibleIsTyped
<1>2. ResourceWakes(k, now) \subseteq Instant \cup {None}
  <2>1. \A s \in SurfacesOf(k) : quota[s].reset \in Instant \cup {None}
    BY DEF Typed, SurfacesOf, SurfaceRow
  <2>2. PeriodEnd \in Instant
    BY RoutingAssumption
  <2> QED
    BY <2>1, <2>2 DEF ResourceWakes
<1>3. retry \subseteq Instant \cup {None}
  OBVIOUS
<1>4. probing \subseteq Instant \cup {None}
  <2>1. circuit[k].nextProbe \in Instant \cup {None}
    BY DEF Typed, CircuitRow
  <2> QED
    BY <2>1
<1>5. RouteWake(t, k, now) = IF due \subseteq {None} THEN None ELSE Max(due \ {None})
  BY DEF RouteWake
<1> HIDE DEF sched, retry, probing
<1>6. due \subseteq Instant \cup {None}
  BY <1>1, <1>2, <1>3, <1>4
<1> HIDE DEF due
<1>7. CASE due \subseteq {None}
  BY <1>5, <1>7
<1>8. CASE ~(due \subseteq {None})
  <2>1. due \ {None} # {} /\ due \ {None} \subseteq Instant
    BY <1>6, <1>8
  <2>2. MaxInstant \in Nat /\ Instant \in SUBSET Nat /\ \A x \in Instant : x <= MaxInstant
    BY CalendarAssumption DEF Instant
  <2>3. due \ {None} \in SUBSET Nat /\ \A x \in due \ {None} : x <= MaxInstant
    BY <2>1, <2>2
  <2>4. Max(due \ {None}) \in due \ {None}
    BY <2>1, <2>2, <2>3, GreatestOf
  <2> QED
    BY <1>5, <1>8, <2>1, <2>4
<1> QED
  BY <1>7, <1>8

-----------------------------------------------------------------------------
(* Types of all variables. *)

OthersTyped ==
    /\ changes \in 0..MaxChanges
    /\ stopped \in BOOLEAN /\ paused \in BOOLEAN /\ projectPaused \in BOOLEAN
    /\ pattern \in Pattern /\ exceptions \in [Day -> Kind \cup {None}]
    /\ blocked \subseteq Task
    /\ plan \in [Task -> Nat]
    /\ notBefore \in [Task -> Instant \cup {None}]
    /\ probe \in [{"codex", "claude"} -> ProbeRow \cup {None}]

DecisionTyped ==
    /\ decision \in [Task -> DecisionRow]
    /\ \A t \in Task : decision[t].allowed <=> decision[t].target # None

AllTyped == DecidingInv /\ OthersTyped /\ DecisionTyped

LEMMA ChangedIsTyped ==
    ASSUME OthersTyped, Changed
    PROVE  changes' \in 0..MaxChanges
BY DecidingAssumption DEF OthersTyped, Changed

LEMMA OutsideIsTyped ==
    ASSUME Typed, OthersTyped, Outside
    PROVE  OthersTyped' /\ UNCHANGED decision
<1>1. CASE SetPauseNewWork
  BY <1>1 DEF SetPauseNewWork, Controls, tick, OthersTyped
<1>2. CASE ChangeControl
  BY <1>2, ChangedIsTyped DEF ChangeControl, Controls, tick, OthersTyped
<1>3. CASE SetProjectSchedulerPause
  BY <1>3, ChangedIsTyped DEF SetProjectSchedulerPause, Controls, tick, OthersTyped
<1>4. CASE ConfigureCalendar
  BY <1>4, ChangedIsTyped DEF ConfigureCalendar, Controls, tick, OthersTyped
<1>5. ASSUME NEW e \in Exception, SetCalendarException(e.day, e.kind)
      PROVE  OthersTyped' /\ UNCHANGED decision
  <2>1. exceptions' \in [Day -> Kind \cup {None}]
    BY <1>5, DecidingAssumption DEF SetCalendarException, OthersTyped
  <2> QED
    BY <1>5, <2>1, ChangedIsTyped DEF SetCalendarException, Controls, tick, OthersTyped
<1>6. ASSUME NEW t \in Task, ChangeDependencies(t)
      PROVE  OthersTyped' /\ UNCHANGED decision
  <2>1. blocked' \subseteq Task
    BY <1>6 DEF ChangeDependencies, OthersTyped
  <2> QED
    BY <1>6, <2>1, ChangedIsTyped DEF ChangeDependencies, Controls, tick, OthersTyped
<1>7. ASSUME NEW t \in Task, NEW n \in Backoff, ClaimEnds(t, n)
      PROVE  OthersTyped' /\ UNCHANGED decision
  <2>1. notBefore' \in [Task -> Instant \cup {None}]
    BY <1>7, DecidingAssumption DEF ClaimEnds, OthersTyped
  <2> QED
    BY <1>7, <2>1, ChangedIsTyped DEF ClaimEnds, OthersTyped
<1>8. ASSUME NEW k \in Target, NEW percent \in Percent, CapacityChanges(k, percent)
      PROVE  OthersTyped' /\ UNCHANGED decision
  BY <1>8, ChangedIsTyped DEF CapacityChanges, Controls, tick, OthersTyped
<1>9. ASSUME NEW t \in Task, NEW k \in Target \cup {None}, SetTaskRoutePin(t, k)
      PROVE  OthersTyped' /\ UNCHANGED decision
  BY <1>9, ChangedIsTyped DEF SetTaskRoutePin, gates, tick, OthersTyped
<1>10. ASSUME NEW t \in Task, ConfigureApiRequestPlan(t)
       PROVE  OthersTyped' /\ UNCHANGED decision
  <2>1. plan' \in [Task -> Nat]
    BY <1>10 DEF ConfigureApiRequestPlan, OthersTyped, Typed
  <2> QED
    BY <1>10, <2>1, ChangedIsTyped DEF ConfigureApiRequestPlan, gates, tick, OthersTyped
<1>11. ASSUME NEW k \in Target, NEW row \in CircuitRows, CircuitChanges(k, row)
       PROVE  OthersTyped' /\ UNCHANGED decision
  BY <1>11, ChangedIsTyped DEF CircuitChanges, gates, tick, OthersTyped
<1>12. ASSUME NEW a \in DOMAIN probe, NEW row \in ProbeRows, RecordAgentCapabilityProbe(a, row)
       PROVE  OthersTyped' /\ UNCHANGED decision
  <2>1. probe' \in [{"codex", "claude"} -> ProbeRow \cup {None}]
    BY <1>12, DecidingAssumption DEF RecordAgentCapabilityProbe, OthersTyped
  <2> QED
    BY <1>12, <2>1, ChangedIsTyped DEF RecordAgentCapabilityProbe, gates, tick, OthersTyped
<1>13. ASSUME NEW s \in Surface, NEW row \in QuotaRows, QuotaChanges(s, row)
       PROVE  OthersTyped' /\ UNCHANGED decision
  BY <1>13, ChangedIsTyped DEF QuotaChanges, gates, tick, OthersTyped
<1> QED
  BY <1>1, <1>2, <1>3, <1>4, <1>5, <1>6, <1>7, <1>8, <1>9, <1>10, <1>11, <1>12, <1>13
     DEF Outside

LEMMA DecideIsTyped ==
    ASSUME DecisionTyped, NEW t \in Task, NEW row \in DecisionRow,
           row.allowed <=> row.target # None, Decide(t, row)
    PROVE  DecisionTyped'
<1>1. decision' = [decision EXCEPT ![t] = row]
  BY DEF Decide
<1>2. decision' \in [Task -> DecisionRow] /\ decision'[t] = row
      /\ \A u \in Task \ {t} : decision'[u] = decision[u]
  BY <1>1 DEF DecisionTyped
<1> QED
  BY <1>2 DEF DecisionTyped

LEMMA DeniedIsTyped ==
    ASSUME DecisionTyped, Typed, NEW t \in Task, NEW reason \in Reason,
           NEW wake \in Instant \cup {None}, Denied(t, reason, wake)
    PROVE  DecisionTyped'
<1>1. PICK row : row = [allowed |-> FALSE, target |-> None, at |-> listed[t].at,
                        reason |-> reason, wake |-> wake]
  OBVIOUS
<1>2. listed[t].at \in Instant
  BY DEF Typed, ListedRow
<1>3. row \in DecisionRow /\ (row.allowed <=> row.target # None)
  BY <1>1, <1>2 DEF DecisionRow
<1>4. Decide(t, row)
  BY <1>1 DEF Denied
<1> QED
  BY <1>3, <1>4, DecideIsTyped

LEMMA SelectIsTyped ==
    ASSUME AllTyped, NEW t \in Task, Select(t)
    PROVE  DecisionTyped'
<1>1. PICK k : k = Selected(t, Fit(t))
  OBVIOUS
<1>2. PICK now : now = listed[t].at
  OBVIOUS
<1>3. /\ Fit(t) # {}
      /\ IF Passes(t, k, now)
         THEN Allowed(t, k)
         ELSE Denied(t, RouteReason(t, k, now), RouteWake(t, k, now))
  BY <1>1, <1>2, Zenon DEF Select
<1>4. k \in Target /\ now \in Instant /\ Typed /\ DecisionTyped
      /\ notBefore \in [Task -> Instant \cup {None}]
  <2>1. Typed
    BY DEF AllTyped, DecidingInv
  <2>2. now \in Instant
    BY <1>2, <2>1 DEF Typed, ListedRow
  <2> QED
    BY <1>1, <1>3, <2>1, <2>2, SelectedIsBest, MarginIsNat DEF AllTyped, OthersTyped
<1>5. CASE Passes(t, k, now)
  <2>1. PICK row : row = [allowed |-> TRUE, target |-> k, at |-> now,
                          reason |-> "route.allowed", wake |-> None]
    OBVIOUS
  <2>2. Decide(t, row)
    BY <1>2, <1>3, <1>5, <2>1 DEF Allowed
  <2>3. row \in DecisionRow /\ (row.allowed <=> row.target # None)
    BY <1>4, <2>1, RoutingAssumption DEF DecisionRow, Reason
  <2> QED
    BY <1>4, <2>2, <2>3, DecideIsTyped
<1>6. CASE ~Passes(t, k, now)
  <2>1. RouteReason(t, k, now) \in Reason /\ RouteWake(t, k, now) \in Instant \cup {None}
    BY <1>4, ReasonsAreTyped, WakeIsTyped
  <2> QED
    BY <1>3, <1>4, <1>6, <2>1, DeniedIsTyped
<1> QED
  BY <1>5, <1>6

LEMMA RoutingTickIsTyped ==
    ASSUME AllTyped, RoutingTick
    PROVE  OthersTyped' /\ DecisionTyped'
<1>1. OthersTyped'
  <2>1. ASSUME NEW t \in Task,
               ListTask(t) \/ Preliminary(t) \/ ClaimDecided(t) \/ ClaimRefused(t)
        PROVE  UNCHANGED <<gates, plan, probe, changes>>
    BY <2>1 DEF ListTask, Preliminary, ClaimDecided, ClaimRefused, Keeps
  <2>2. ASSUME NEW t \in Task, NEW row, Decide(t, row)
        PROVE  UNCHANGED <<gates, plan, probe, changes>>
    BY <2>2 DEF Decide, Keeps
  <2>3. ASSUME NEW t \in Task, NothingPasses(t) \/ NothingFits(t) \/ Select(t)
        PROVE  \E row : Decide(t, row)
    BY <2>3, Zenon DEF NothingPasses, NothingFits, Select, Allowed, Denied
  <2>4. UNCHANGED <<gates, plan, probe, changes>>
    BY <2>1, <2>2, <2>3, Zenon DEF RoutingTick
  <2> QED
    BY <2>4 DEF gates, AllTyped, OthersTyped
<1>2. Typed /\ DecisionTyped
  BY DEF AllTyped, DecidingInv
<1>3. ASSUME UNCHANGED decision PROVE DecisionTyped'
  BY <1>2, <1>3 DEF DecisionTyped
<1>4. ASSUME NEW t \in Task, NothingPasses(t) PROVE DecisionTyped'
  <2>1. PICK now, first : now = listed[t].at /\ first = Min(Configured)
    OBVIOUS
  <2>2. PICK reason, wake :
          /\ reason = IF pin[t] \notin Configured \cup {None} THEN "manual_pin.unavailable"
                      ELSE FirstReason(t, first, now)
          /\ wake = RouteWake(t, first, now)
    OBVIOUS
  <2>3. Denied(t, reason, wake)
    BY <1>4, <2>1, <2>2, Zenon DEF NothingPasses
  <2>4. now \in Instant /\ first \in Target
    BY <1>2, <2>1, RoutingAssumption, LeastOf DEF Typed, ListedRow
  <2>5. reason \in Reason
    <3>1. "manual_pin.unavailable" \in Reason
      BY DEF Reason
    <3> QED
      BY <2>2, <3>1, ReasonsAreTyped
  <2>6. wake \in Instant \cup {None}
    <3>1. notBefore \in [Task -> Instant \cup {None}]
      BY DEF AllTyped, OthersTyped
    <3> QED
      BY <1>2, <2>2, <2>4, <3>1, WakeIsTyped
  <2> QED
    BY <1>2, <2>3, <2>5, <2>6, DeniedIsTyped
<1>5. ASSUME NEW t \in Task, NothingFits(t) PROVE DecisionTyped'
  <2>1. PICK reason :
          reason = IF listed[t].pin = None THEN "route.no_candidate"
                   ELSE CandidateReason(t, listed[t].pin, listed[t].at)
    OBVIOUS
  <2>2. Denied(t, reason, None)
    BY <1>5, <2>1, Zenon DEF NothingFits
  <2>3. "route.no_candidate" \in Reason
    BY DEF Reason
  <2>4. reason \in Reason
    BY <2>1, <2>3, PartsOfReasons
  <2> QED
    BY <1>2, <2>2, <2>4, DeniedIsTyped
<1>6. RoutingTick => \/ UNCHANGED decision
                     \/ \E t \in Task : NothingPasses(t) \/ NothingFits(t) \/ Select(t)
  <2>1. ASSUME NEW t \in Task,
               ListTask(t) \/ Preliminary(t) \/ ClaimDecided(t) \/ ClaimRefused(t)
        PROVE  UNCHANGED decision
    BY <2>1 DEF ListTask, Preliminary, ClaimDecided, ClaimRefused
  <2> QED
    BY <2>1, Zenon DEF RoutingTick
<1> QED
  BY <1>1, <1>3, <1>4, <1>5, <1>6, SelectIsTyped

LEMMA InitIsTyped == RoutingInit => OthersTyped /\ DecisionTyped
<1> SUFFICES ASSUME RoutingInit PROVE OthersTyped /\ DecisionTyped
  OBVIOUS
<1>1. PICK row \in Setup :
        /\ plan = [t \in Task |-> IF row.planned THEN 1 ELSE 0]
        /\ probe = [a \in {"codex", "claude"} |-> row.probe]
  BY DEF RoutingInit
<1>2. row.probe \in ProbeRow \cup {None}
  BY DecidingAssumption DEF SetupRow
<1>3. plan \in [Task -> Nat] /\ probe \in [{"codex", "claude"} -> ProbeRow \cup {None}]
  BY <1>1, <1>2
<1>4. OthersTyped
  <2>1. /\ changes = 0 /\ stopped = FALSE /\ paused = FALSE /\ projectPaused = FALSE
        /\ pattern \in Pattern /\ exceptions = [d \in Day |-> None]
        /\ blocked = {} /\ notBefore = [t \in Task |-> None]
    BY DEF RoutingInit
  <2>2. changes \in 0..MaxChanges
    BY <2>1, DecidingAssumption
  <2>3. /\ exceptions \in [Day -> Kind \cup {None}]
        /\ notBefore \in [Task -> Instant \cup {None}]
    BY <2>1
  <2> QED
    BY <1>3, <2>1, <2>2, <2>3 DEF OthersTyped
<1>5. Undecided \in DecisionRow /\ ~Undecided.allowed /\ Undecided.target = None
  BY NotListedRow DEF Undecided, DecisionRow, Reason
<1>6. decision = [t \in Task |-> Undecided]
  BY DEF RoutingInit
<1>7. DecisionTyped
  BY <1>5, <1>6 DEF DecisionTyped
<1> QED
  BY <1>4, <1>7

LEMMA NextIsTyped == AllTyped /\ [RoutingNext]_routingVars => AllTyped'
<1> SUFFICES ASSUME AllTyped, [RoutingNext]_routingVars PROVE AllTyped'
  OBVIOUS
<1>1. DecidingInv'
  BY NextIsProper DEF Proper, AllTyped
<1>2. CASE Outside
  <2>1. OthersTyped' /\ UNCHANGED decision
    BY <1>2, OutsideIsTyped DEF AllTyped, DecidingInv
  <2> QED
    BY <1>1, <2>1 DEF AllTyped, DecisionTyped
<1>3. CASE RoutingTick
  BY <1>1, <1>3, RoutingTickIsTyped DEF AllTyped
<1>4. CASE Tick \/ UNCHANGED routingVars
  <2>1. UNCHANGED <<gates, plan, probe, changes, decision>>
    BY <1>4 DEF Tick, routingVars, tick
  <2> QED
    BY <1>1, <2>1 DEF AllTyped, OthersTyped, DecisionTyped, gates
<1> QED
  BY <1>1, <1>2, <1>3, <1>4 DEF RoutingNext

\* Every variable of a decision keeps its type; every reason is one of
\* `Reason`, and a wake is an instant of the calendar or none.
THEOREM RoutingTypesCorrect == RoutingSpec => []RoutingTypeOK
<1>1. RoutingInit => AllTyped
  BY InitDecides, InitIsTyped DEF AllTyped
<1>2. AllTyped => RoutingTypeOK
  BY DEF AllTyped, DecidingInv, Typed, OthersTyped, DecisionTyped, RoutingTypeOK
<1> QED
  BY <1>1, <1>2, NextIsTyped, PTL DEF RoutingSpec

=============================================================================
