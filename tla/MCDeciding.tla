------------------------------- MODULE MCDeciding -------------------------------
(***************************************************************************)
(* One task and four targets: an API, an agent that shares its account     *)
(* with a codex subscription, and the fake agent.  Days of four minutes,   *)
(* begun in the middle of a Monday; clocks are set ahead over its          *)
(* midnight, so that day 1 starts at its second minute, and set back over  *)
(* the start of day 2, which is shown twice.                               *)
(***************************************************************************)
EXTENDS Deciding

CONSTANT t1

Readings == <<2, 3, 5, 6, 7, 8, 8, 9, 10, 11, 12, 13, 14, 15, 16>>
Zone == [u \in 0..14 |-> Readings[u + 1]]

Adapters == <<"api", "claude", "codex", "fake">>
Accounts == <<{2, 3}, {2, 4}>>
Reserves == <<10, 0>>
Forecasts == <<1, 5, 10, 30>>
Unhurried == [t \in Task |-> None]
ReadOnly == [t \in Task |-> 0]
Weekdays == [t \in Task |-> "work"]
WorkWeek == [d \in 0..6 |-> IF d \in {0, 3} THEN "work" ELSE "off"]
HolidayWeek == [d \in 0..6 |-> IF d = 1 THEN "work" ELSE "off"]
Patterns == {WorkWeek, HolidayWeek}
Exceptions == {[day |-> 0, kind |-> "off"], [day |-> 1, kind |-> "work"]}
OpenCircuits == {[state |-> "open", nextProbe |-> 2]}
Probes == {[health |-> "healthy", capable |-> TRUE, until |-> 3],
           [health |-> "missing", capable |-> FALSE, until |-> 9]}
Quotas == {[remaining |-> 60, until |-> 3, reset |-> 4, overridden |-> FALSE],
           [remaining |-> 40, until |-> None, reset |-> None, overridden |-> TRUE]}

Healthy == CHOOSE row \in Probes : row.health = "healthy"
Ample == CHOOSE row \in Quotas : row.remaining = 60
Installed(k, planned) == [pin |-> k, planned |-> planned, probe |-> Healthy,
                          quota |-> Ample, capacity |-> 50]
Setups == {[pin |-> None, planned |-> FALSE, probe |-> None, quota |-> None,
            capacity |-> None],
           Installed(None, FALSE), Installed(3, FALSE), Installed(1, TRUE)}

ASSUME ZoneAssumption == DaysFollow /\ DaysBeginOnce

=============================================================================
