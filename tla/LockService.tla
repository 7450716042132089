----------------------------- MODULE LockService -----------------------------
(***************************************************************************)
(* What the resource locks promise: a client takes a set of free keys in   *)
(* one step, at most once in its life, and gives them all up in one step;  *)
(* any number of clients may be made to give theirs up together, and one   *)
(* may take its keys in the step that evicts others.                       *)
(***************************************************************************)
CONSTANTS Client, Key

VARIABLES keys,     \* Client -> SUBSET Key, the keys each client holds
          spent     \* clients that have held keys and given them up

Init == keys = [c \in Client |-> {}] /\ spent = {}

After(leaving) == [c \in Client |-> IF c \in leaving THEN {} ELSE keys[c]]

Release(leaving) ==
    /\ keys' = After(leaving)
    /\ spent' = spent \cup leaving

Acquire(leaving, c) ==
    /\ c \notin spent \cup leaving
    /\ keys[c] = {}
    /\ keys'[c] # {}
    /\ keys'[c] \subseteq Key
    /\ \A d \in Client : keys'[c] \cap After(leaving)[d] = {}
    /\ keys' = [After(leaving) EXCEPT ![c] = keys'[c]]
    /\ spent' = spent \cup leaving

Next ==
    \E leaving \in SUBSET {c \in Client : keys[c] # {}} :
        \/ Release(leaving)
        \/ \E c \in Client : Acquire(leaving, c)

Spec == Init /\ [][Next]_<<keys, spent>>

=============================================================================
