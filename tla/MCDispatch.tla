------------------------------- MODULE MCDispatch -------------------------------
(***************************************************************************)
(* A small instance of retries: tasks of one target, a circuit that opens  *)
(* at its first failure, and an operator who runs one of them locally.     *)
(***************************************************************************)
EXTENDS Dispatch, TLC

CONSTANTS i1, t1, t2, c1, c2, c3, r1, r2, r3, p1, o1, k1

OneProject == [t \in Task |-> p1]
NoPools == [t \in Task |-> {}]
AllCodex == [t \in Task |-> "codex"]
Independent == [t \in Task |-> {}]
NoLimits == [q \in Pool |-> 1]
OneTarget == [t \in Task |-> k1]
NoJitter == [t \in Task |-> [n \in 1..20 |-> 100]]

Interchangeable == Permutations(Claim) \cup Permutations(Run)

=============================================================================
