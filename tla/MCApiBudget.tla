----------------------------- MODULE MCApiBudget -----------------------------
(***************************************************************************)
(* A small instance of the control plane with paid requests: one API task, *)
(* whose claims compete with direct callers for one budget.                *)
(***************************************************************************)
EXTENDS ApiBudget, TLC

CONSTANTS i1, t1, c1, c2, r1, r2, p1, d1, u1, u2

OneProject == [t \in Task |-> p1]
NoPools == [t \in Task |-> {}]
AllApi == [t \in Task |-> "api"]
Independent == [t \in Task |-> {}]
NoLimits == [q \in Pool |-> 1]

\* Two periods of an account: a metered one, and a smaller one that counts
\* tokens only.
Metered == [enabled |-> TRUE, from |-> 0, until |-> 1, micros |-> 6, tokens |-> 3,
            requests |-> 3, output |-> 1, retries |-> 1, concurrent |-> 2]
Unmetered == [Metered EXCEPT !.from = 1, !.until = 2, !.micros = None,
                             !.tokens = 2, !.requests = None]
Periods == <<Metered, Unmetered>>

Twice == [attempts |-> 2, tokens |-> 1, micros |-> 1]
Unpriced == [attempts |-> 1, tokens |-> 1, micros |-> 0]
Requests == {Twice, Unpriced}

RisingPrice == <<1, 2>>

Interchangeable ==
    Permutations(Claim) \cup Permutations(Run) \cup Permutations(Caller)

=============================================================================
