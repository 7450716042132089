---------------------------- MODULE MCControlPlane ----------------------------
(***************************************************************************)
(* Small instances of the control plane for TLC.                           *)
(***************************************************************************)
EXTENDS Documented, TLC

CONSTANTS i1, i2, t1, t2, t3, c1, c2, c3, r1, r2, r3, p1, p2, qA, qB

\* Every task in the project p1, on the one pool.
OneProject == [t \in Task |-> p1]
EveryPool == [t \in Task |-> Pool]
OwnProject == [t \in Task |-> IF t = t1 THEN p1 ELSE p2]
NoPools == [t \in Task |-> {}]
AllFake == [t \in Task |-> "fake"]
AllCodex == [t \in Task |-> "codex"]
AllApi == [t \in Task |-> "api"]
Independent == [t \in Task |-> {}]
OneSlot == [q \in Pool |-> 1]

\* Three tasks: t1 and t2 share a project, t1 and t3 share the only slot of
\* qA, t2 and t3 share nothing but may each take a slot of qB.
SharedProject == [t \in Task |-> IF t = t3 THEN p2 ELSE p1]
SharedPools == [t \in Task |-> CASE t = t1 -> {qA}
                                 [] t = t2 -> {qB}
                                 [] t = t3 -> {qA, qB}]
OneAndTwoSlots == [q \in Pool |-> IF q = qA THEN 1 ELSE 2]

\* Each of two tasks may be made to wait for the other.
BothEdges == {<<t1, t2>>, <<t2, t1>>}

Interchangeable == Permutations(Claim) \cup Permutations(Run)
InterchangeableInstances == Interchangeable \cup Permutations(Instance)

=============================================================================
