-------------------------------- MODULE Calendar --------------------------------
(***************************************************************************)
(* Work days and days off.  Instants are minutes of UTC; a time zone says  *)
(* what a clock on the wall reads at each of them, and may skip readings   *)
(* or show them twice.  Days are counted from a Monday.                    *)
(***************************************************************************)
EXTENDS Integers, FiniteSetsExt

CONSTANTS
    None,
    MaxInstant,     \* instants 0..MaxInstant are modelled (a bound)
    DayLength,      \* minutes of a local day; 1440 in the code
    LocalOf,        \* [0..MaxInstant -> Nat], the time zone
    GapSearch,      \* minutes searched for the start of a day; 180 in the code
    SearchDays      \* days searched for an eligible one; 370 in the code

Instant == 0..MaxInstant
DayOf(now) == LocalOf[now] \div DayLength
Day == 0..(DayOf(MaxInstant) + SearchDays)
Kind == {"work", "off"}
Affinity == {"work", "off", "both"}

\* An exception of the day comes before the pattern of its week.
ResolveDay(pattern, exceptions, d) ==
    IF exceptions[d] # None THEN exceptions[d] ELSE pattern[d % 7]

Matches(affinity, kind) == affinity \in {"both", kind}

\* The instants at which a local clock shows a reading: none, one or two.
ReadAt(reading) == {u \in Instant : LocalOf[u] = reading}

\* A day starts at its first reading that exists, at the earlier of two.
LocalDayStart(d) ==
    LET readings == {d * DayLength + m : m \in 0..GapSearch}
        shown == {l \in readings : ReadAt(l) # {}}
    IN  IF shown = {} THEN None ELSE Min(ReadAt(Min(shown)))

\* Fault: the day after, whatever its kind.
DayAfter(pattern, exceptions, affinity, d) == LocalDayStart(d + 1)

\* The search skips today, and ends after SearchDays.
NextEligible(pattern, exceptions, affinity, d) ==
    LET later == {x \in (d + 1)..(d + SearchDays) :
                    Matches(affinity, ResolveDay(pattern, exceptions, x))}
    IN  IF later = {} THEN None ELSE LocalDayStart(Min(later))

Eligible(pattern, exceptions, affinity, now) ==
    Matches(affinity, ResolveDay(pattern, exceptions, DayOf(now)))

\* The reason and the next chance of a task that is not eligible now.
ScheduleWake(pattern, exceptions, affinity, now) ==
    IF Eligible(pattern, exceptions, affinity, now) THEN None
    ELSE NextEligible(pattern, exceptions, affinity, DayOf(now))

\* Every day of the table starts within GapSearch of its midnight, so that the
\* search never ends in an error.
ASSUME CalendarAssumption ==
    /\ MaxInstant \in Nat /\ GapSearch \in Nat /\ SearchDays \in Nat
    /\ DayLength \in Nat \ {0} /\ GapSearch < DayLength
    /\ LocalOf \in [Instant -> Nat]
    /\ \A d \in 1..DayOf(MaxInstant) : LocalDayStart(d) # None
    /\ None \notin Kind /\ None \notin Instant

=============================================================================
