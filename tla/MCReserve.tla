-------------------------------- MODULE MCReserve --------------------------------
(***************************************************************************)
(* A small instance of the control plane with quota: two tasks of one      *)
(* account that has room for one of them, or for both, at a time.          *)
(***************************************************************************)
EXTENDS Quota, TLC

CONSTANTS i1, t1, t2, c1, c2, r1, p1, p2, five_hour, weekly

OwnProject == [t \in Task |-> IF t = t1 THEN p1 ELSE p2]
NoPools == [t \in Task |-> {}]
AllCodex == [t \in Task |-> "codex"]
Independent == [t \in Task |-> {}]
NoLimits == [q \in Pool |-> 1]

OneAccount == [t \in Task |-> Surface]
OneEach == [t \in Task |-> 1]
Lanes == [primary |-> five_hour, secondary |-> weekly]

\* An operator enters room for both tasks beside the reserve for one surface,
\* without an expiry.  The collector, at time 1, finds room for one on the other
\* surface and misses the first; an override makes that room for both for a while.
Window(s, left) == [surface |-> s, remaining |-> left]
Weekly == [at |-> 1, selected |-> TRUE,
           window |-> [primary |-> None, secondary |-> Window(weekly, 2)]]
Printed == {{Weekly}, {Weekly, [Weekly EXCEPT !.selected = FALSE]}}
Entered == {[surface |-> five_hour, remaining |-> 3, reserve |-> 1]}
OneMore == {[surface |-> weekly, remaining |-> 3, expires |-> 2]}

\* The tasks are interchangeable together with their projects.
Interchangeable ==
    Permutations(Claim) \cup Permutations(Run)
        \cup {t1 :> t2 @@ t2 :> t1 @@ p1 :> p2 @@ p2 :> p1}

=============================================================================
