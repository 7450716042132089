-------------------------- MODULE ControlPlaneProofs --------------------------
(***************************************************************************)
(* Theorems about the control plane, for every number of instances, tasks, *)
(* claims and runs, every topology and every bound: types, the stop and    *)
(* the fence, the graph of dependencies; then the resource locks, which    *)
(* follow their claim through its whole life, are never overbooked and     *)
(* implement the abstract lock service; then the work in flight that holds *)
(* them, which has its claim or its lease and gives neither up early.      *)
(***************************************************************************)
EXTENDS ControlPlane, FiniteSetsExt, FiniteSetTheorems, WellFoundedInduction, TLAPS

-----------------------------------------------------------------------------
(* Minimal and largest members of finite sets. *)

\* A set of subsets of a finite set has a member that contains no other.
LEMMA Minimal ==
    ASSUME NEW S, IsFiniteSet(S), NEW F \in SUBSET SUBSET S, F # {}
    PROVE  \E X \in F : \A Y \in F : Y \subseteq X => Y = X
<1>1. F \subseteq FiniteSubsetsOf(S)
  BY FS_Subset DEF FiniteSubsetsOf
<1>2. IsWellFoundedOn(StrictSubsetOrdering(S), FiniteSubsetsOf(S))
  BY FS_StrictSubsetOrderingWellFounded
<1>3. \E X \in F : \A Y \in F : <<Y, X>> \notin StrictSubsetOrdering(S)
  BY <1>1, <1>2, WFMin
<1>4. PICK X \in F : \A Y \in F : <<Y, X>> \notin StrictSubsetOrdering(S)
  BY <1>3
<1>5. \A Y \in F : ~(Y \subseteq X /\ Y # X)
  BY <1>4 DEF StrictSubsetOrdering
<1> QED
  BY <1>5

\* A finite set of integers has a largest member.
LEMMA LargestIn ==
    ASSUME NEW S, IsFiniteSet(S), S # {}, \A x \in S : x \in Int
    PROVE  Max(S) \in S /\ \A y \in S : Max(S) >= y
<1> DEFINE above(x) == {y \in S : y > x}
           F == {above(x) : x \in S}
<1>1. F \in SUBSET SUBSET S /\ F # {}
  OBVIOUS
<1>2. PICK X \in F : \A Y \in F : Y \subseteq X => Y = X
  <2> HIDE DEF above, F
  <2>1. IsFiniteSet(S) /\ F \in SUBSET SUBSET S /\ F # {}
    BY <1>1
  <2> QED
    BY <2>1, Minimal
<1>3. PICK x \in S : X = above(x)
  BY <1>2
<1>4. ASSUME NEW y \in S, y > x PROVE FALSE
  <2>1. y \in Int /\ x \in Int
    OBVIOUS
  <2>3. y \in above(x) /\ y \notin above(y)
    BY <1>4, <2>1
  <2>4. \A z \in S : z > y => z > x
    BY <1>4, <2>1
  <2>5. above(y) \subseteq above(x)
    BY <2>4
  <2>2. above(y) \in F
    OBVIOUS
  <2> HIDE DEF above, F
  <2> QED
    BY <1>2, <1>3, <2>2, <2>3, <2>5
<1>5. \A y \in S : x >= y
  BY <1>4
<1> QED
  BY <1>5 DEF Max

-----------------------------------------------------------------------------
(* What SumFunctionOnSet computes.                                           *)

OneOf(s) == CHOOSE x \in s : TRUE

\* g sums f over every subset of S, taking off one element after the other.
Sums(f, S, g) ==
    g = [s \in SUBSET S |-> IF s = {} THEN 0 ELSE f[OneOf(s)] + g[s \ {OneOf(s)}]]

LEMMA SumIsChosen ==
    ASSUME NEW S, NEW f
    PROVE  SumFunctionOnSet(f, S) = (CHOOSE g : Sums(f, S, g))[S]
BY DEF SumFunctionOnSet, FoldFunctionOnSet, MapThenFoldSet, Sums, OneOf

LEMMA OneOfIn == ASSUME NEW s, s # {} PROVE OneOf(s) \in s
BY DEF OneOf

\* Two such functions agree where both are defined and sum the same values.
LEMMA SumsAgree ==
    ASSUME NEW S, NEW f, NEW g, Sums(f, S, g), NEW T, NEW e, NEW h, Sums(e, T, h),
           NEW U \in SUBSET (S \cap T), IsFiniteSet(U), \A x \in U : f[x] = e[x]
    PROVE  g[U] = h[U]
<1> DEFINE Bad == {X \in SUBSET U : g[X] # h[X]}
<1>1. SUFFICES ASSUME Bad # {} PROVE FALSE
  OBVIOUS
<1>2. PICK X \in Bad : \A Y \in Bad : Y \subseteq X => Y = X
  <2>1. Bad \in SUBSET SUBSET U
    OBVIOUS
  <2> HIDE DEF Bad
  <2> QED
    BY <1>1, <2>1, Minimal
<1>3. X \in SUBSET S /\ X \in SUBSET T
  OBVIOUS
<1>4. /\ g[X] = IF X = {} THEN 0 ELSE f[OneOf(X)] + g[X \ {OneOf(X)}]
      /\ h[X] = IF X = {} THEN 0 ELSE e[OneOf(X)] + h[X \ {OneOf(X)}]
  BY <1>3 DEF Sums
<1>5. X # {}
  BY <1>4
<1>6. OneOf(X) \in X
  BY <1>5, OneOfIn
<1>7. g[X \ {OneOf(X)}] = h[X \ {OneOf(X)}]
  BY <1>2, <1>6
<1> QED
  BY <1>4, <1>6, <1>7

LEMMA SumIsAny ==
    ASSUME NEW S, IsFiniteSet(S), NEW f, NEW g, Sums(f, S, g)
    PROVE  SumFunctionOnSet(f, S) = g[S]
<1> DEFINE h == CHOOSE k : Sums(f, S, k)
<1>1. Sums(f, S, h)
  OBVIOUS
<1>2. S \in SUBSET (S \cap S)
  OBVIOUS
<1> HIDE DEF h
<1>3. g[S] = h[S]
  BY <1>1, <1>2, SumsAgree
<1> QED
  BY <1>3, SumIsChosen DEF h

\* The definition, without the function it goes through.
LEMMA SumStepIf ==
    ASSUME NEW S, IsFiniteSet(S), NEW f, NEW g, Sums(f, S, g)
    PROVE  SumFunctionOnSet(f, S) =
             IF S = {} THEN 0 ELSE f[OneOf(S)] + SumFunctionOnSet(f, S \ {OneOf(S)})
<1>1. g[S] = IF S = {} THEN 0 ELSE f[OneOf(S)] + g[S \ {OneOf(S)}]
  <2>1. S \in SUBSET S
    OBVIOUS
  <2> QED
    BY <2>1 DEF Sums
<1>2. CASE S = {}
  BY <1>1, <1>2, SumIsAny
<1>3. CASE S # {}
  <2> DEFINE T == S \ {OneOf(S)}
             h == [s \in SUBSET T |-> g[s]]
  <2>1. IsFiniteSet(T) /\ T \in SUBSET S
    BY FS_Subset
  <2>2. ASSUME NEW s \in SUBSET T
        PROVE  h[s] = IF s = {} THEN 0 ELSE f[OneOf(s)] + h[s \ {OneOf(s)}]
    <3>1. s \in SUBSET S /\ s \ {OneOf(s)} \in SUBSET T
      BY <2>1
    <3>2. g[s] = IF s = {} THEN 0 ELSE f[OneOf(s)] + g[s \ {OneOf(s)}]
      BY <3>1 DEF Sums
    <3> QED
      BY <3>1, <3>2
  <2>3. Sums(f, T, h)
    <3>1. h = [s \in SUBSET T |-> h[s]]
      OBVIOUS
    <3> HIDE DEF h, T
    <3>2. [s \in SUBSET T |-> h[s]]
            = [s \in SUBSET T |-> IF s = {} THEN 0 ELSE f[OneOf(s)] + h[s \ {OneOf(s)}]]
      BY <2>2
    <3> QED
      BY <3>1, <3>2 DEF Sums
  <2>4. h[T] = g[T]
    OBVIOUS
  <2> HIDE DEF h
  <2>5. SumFunctionOnSet(f, T) = g[T]
    BY <2>1, <2>3, <2>4, SumIsAny
  <2> QED
    BY <1>1, <1>3, <2>5, SumIsAny
<1> QED
  BY <1>2, <1>3

LEMMA SumExists == ASSUME NEW S, IsFiniteSet(S), NEW f PROVE \E g : Sums(f, S, g)
<1> DEFINE Bad == {X \in SUBSET S : ~ \E g : Sums(f, X, g)}
<1>1. SUFFICES ASSUME Bad # {} PROVE FALSE
  OBVIOUS
<1>2. PICK X \in Bad : \A Y \in Bad : Y \subseteq X => Y = X
  <2>1. Bad \in SUBSET SUBSET S
    OBVIOUS
  <2> HIDE DEF Bad
  <2> QED
    BY <1>1, <2>1, Minimal
<1>3. ASSUME NEW Y \in SUBSET X, Y # X PROVE \E g : Sums(f, Y, g)
  BY <1>2, <1>3
<1>4. ASSUME NEW Y \in SUBSET X, Y # X
      PROVE  SumFunctionOnSet(f, Y) =
               IF Y = {} THEN 0 ELSE f[OneOf(Y)] + SumFunctionOnSet(f, Y \ {OneOf(Y)})
  <2>1. IsFiniteSet(Y)
    BY FS_Subset
  <2> QED
    BY <1>3, <1>4, <2>1, SumStepIf
<1> DEFINE g == [Y \in SUBSET X |->
                   IF Y = {} THEN 0 ELSE f[OneOf(Y)] + SumFunctionOnSet(f, Y \ {OneOf(Y)})]
<1>5. ASSUME NEW Y \in SUBSET X
      PROVE  g[Y] = IF Y = {} THEN 0 ELSE f[OneOf(Y)] + g[Y \ {OneOf(Y)}]
  <2>1. CASE Y = {}
    BY <2>1
  <2>2. CASE Y # {}
    <3>1. Y \ {OneOf(Y)} \in SUBSET X /\ Y \ {OneOf(Y)} # X
      BY <2>2, OneOfIn
    <3>2. g[Y \ {OneOf(Y)}] = SumFunctionOnSet(f, Y \ {OneOf(Y)})
      BY <1>4, <3>1
    <3> QED
      BY <2>2, <3>2
  <2> QED
    BY <2>1, <2>2
<1>6. Sums(f, X, g)
  <2>1. g = [Y \in SUBSET X |-> g[Y]]
    OBVIOUS
  <2> HIDE DEF g
  <2>2. [Y \in SUBSET X |-> g[Y]]
          = [Y \in SUBSET X |-> IF Y = {} THEN 0 ELSE f[OneOf(Y)] + g[Y \ {OneOf(Y)}]]
    BY <1>5
  <2> QED
    BY <2>1, <2>2 DEF Sums
<1> QED
  BY <1>6

LEMMA SumStep ==
    ASSUME NEW S, IsFiniteSet(S), NEW f
    PROVE  SumFunctionOnSet(f, S) =
             IF S = {} THEN 0 ELSE f[OneOf(S)] + SumFunctionOnSet(f, S \ {OneOf(S)})
BY SumExists, SumStepIf

-----------------------------------------------------------------------------
(* How a sum over a set relates to the sums over smaller sets.               *)

LEMMA SumOfNone == ASSUME NEW f PROVE SumFunctionOnSet(f, {}) = 0
BY SumStep, FS_EmptySet

\* A sum depends on the values it adds only.
LEMMA SumOfSame ==
    ASSUME NEW S, IsFiniteSet(S), NEW f, NEW e, \A x \in S : f[x] = e[x]
    PROVE  SumFunctionOnSet(f, S) = SumFunctionOnSet(e, S)
<1>1. PICK g : Sums(f, S, g)
  BY SumExists
<1>2. PICK h : Sums(e, S, h)
  BY SumExists
<1>3. S \in SUBSET (S \cap S)
  OBVIOUS
<1>4. g[S] = h[S]
  BY <1>1, <1>2, <1>3, SumsAgree
<1> QED
  BY <1>1, <1>2, <1>4, SumIsAny

LEMMA SumIsNat ==
    ASSUME NEW S, IsFiniteSet(S), NEW f, \A x \in S : f[x] \in Nat
    PROVE  SumFunctionOnSet(f, S) \in Nat
<1> DEFINE Bad == {X \in SUBSET S : SumFunctionOnSet(f, X) \notin Nat}
<1>1. SUFFICES ASSUME Bad # {} PROVE FALSE
  OBVIOUS
<1>2. PICK X \in Bad : \A Y \in Bad : Y \subseteq X => Y = X
  <2>1. Bad \in SUBSET SUBSET S
    OBVIOUS
  <2> HIDE DEF Bad
  <2> QED
    BY <1>1, <2>1, Minimal
<1>3. IsFiniteSet(X)
  BY FS_Subset
<1>4. X # {}
  BY SumOfNone
<1>5. OneOf(X) \in X
  BY <1>4, OneOfIn
<1>6. SumFunctionOnSet(f, X \ {OneOf(X)}) \in Nat
  BY <1>2, <1>5
<1>7. SumFunctionOnSet(f, X) = f[OneOf(X)] + SumFunctionOnSet(f, X \ {OneOf(X)})
  BY <1>3, <1>4, SumStep
<1>8. f[OneOf(X)] \in Nat
  BY <1>5
<1> QED
  BY <1>6, <1>7, <1>8

\* The order in which the values are added does not matter.
LEMMA SumWithout ==
    ASSUME NEW S, IsFiniteSet(S), NEW f, \A x \in S : f[x] \in Nat, NEW x \in S
    PROVE  SumFunctionOnSet(f, S) = f[x] + SumFunctionOnSet(f, S \ {x})
<1> DEFINE Splits(X, y) == SumFunctionOnSet(f, X) = f[y] + SumFunctionOnSet(f, X \ {y})
           Bad == {X \in SUBSET S : \E y \in X : ~ Splits(X, y)}
<1>1. SUFFICES ASSUME Bad # {} PROVE FALSE
  OBVIOUS
<1>2. PICK X \in Bad : \A Y \in Bad : Y \subseteq X => Y = X
  <2>1. Bad \in SUBSET SUBSET S
    OBVIOUS
  <2> HIDE DEF Bad
  <2> QED
    BY <1>1, <2>1, Minimal
<1>3. PICK y \in X : ~ Splits(X, y)
  OBVIOUS
<1> DEFINE z == OneOf(X)
<1>4. z \in X /\ IsFiniteSet(X)
  BY OneOfIn, FS_Subset
<1>5. SumFunctionOnSet(f, X) = f[z] + SumFunctionOnSet(f, X \ {z})
  BY <1>4, SumStep
<1>6. y # z
  BY <1>3, <1>5
<1> HIDE DEF z
<1>7. SumFunctionOnSet(f, X \ {z}) = f[y] + SumFunctionOnSet(f, (X \ {z}) \ {y})
  <2>1. X \ {z} \notin Bad /\ y \in X \ {z}
    BY <1>2, <1>4, <1>6
  <2> QED
    BY <2>1
<1>8. SumFunctionOnSet(f, X \ {y}) = f[z] + SumFunctionOnSet(f, (X \ {y}) \ {z})
  <2>1. X \ {y} \notin Bad /\ z \in X \ {y}
    BY <1>2, <1>4, <1>6
  <2> QED
    BY <2>1
<1> DEFINE rest == SumFunctionOnSet(f, (X \ {y}) \ {z})
<1>9. rest \in Nat
  <2>1. IsFiniteSet((X \ {y}) \ {z}) /\ \A w \in (X \ {y}) \ {z} : f[w] \in Nat
    BY <1>4, FS_Subset
  <2> QED
    BY <2>1, SumIsNat
<1>10. (X \ {z}) \ {y} = (X \ {y}) \ {z}
  OBVIOUS
<1>11. f[y] \in Nat /\ f[z] \in Nat
  BY <1>4
<1>12. f[z] + (f[y] + rest) = f[y] + (f[z] + rest)
  BY <1>9, <1>11
<1> QED
  BY <1>3, <1>5, <1>7, <1>8, <1>10, <1>12

LEMMA SumWith ==
    ASSUME NEW S, IsFiniteSet(S), NEW f, NEW x, x \notin S,
           \A y \in S \cup {x} : f[y] \in Nat
    PROVE  SumFunctionOnSet(f, S \cup {x}) = SumFunctionOnSet(f, S) + f[x]
<1>1. IsFiniteSet(S \cup {x}) /\ (S \cup {x}) \ {x} = S
  BY FS_AddElement
<1>2. SumFunctionOnSet(f, S \cup {x}) = f[x] + SumFunctionOnSet(f, (S \cup {x}) \ {x})
  BY <1>1, SumWithout
<1>3. SumFunctionOnSet(f, S) \in Nat /\ f[x] \in Nat
  BY SumIsNat
<1> QED
  BY <1>1, <1>2, <1>3

\* Smaller values over fewer elements sum to no more.
LEMMA SumAtMost ==
    ASSUME NEW T, IsFiniteSet(T), NEW S \in SUBSET T, NEW f, NEW e,
           \A x \in S : f[x] \in Nat /\ f[x] <= e[x], \A x \in T : e[x] \in Nat
    PROVE  SumFunctionOnSet(f, S) <= SumFunctionOnSet(e, T)
<1> DEFINE Fits(X) == SumFunctionOnSet(f, X \cap S) <= SumFunctionOnSet(e, X)
           Bad == {X \in SUBSET T : ~ Fits(X)}
<1>1. T \cap S = S
  OBVIOUS
<1>2. SUFFICES ASSUME Bad # {} PROVE FALSE
  BY <1>1
<1>3. PICK X \in Bad : \A Y \in Bad : Y \subseteq X => Y = X
  <2>1. Bad \in SUBSET SUBSET T
    OBVIOUS
  <2> HIDE DEF Bad
  <2> QED
    BY <1>2, <2>1, Minimal
<1>4. IsFiniteSet(X) /\ IsFiniteSet(X \cap S)
  BY FS_Subset
<1>5. X # {}
  <2>1. {} \cap S = {}
    OBVIOUS
  <2>2. Fits({})
    BY <2>1, SumOfNone
  <2> QED
    BY <1>3, <2>2
<1>6. PICK x \in X : TRUE
  BY <1>5
<1> DEFINE less == SumFunctionOnSet(f, (X \ {x}) \cap S)
           more == SumFunctionOnSet(e, X \ {x})
<1>7. less <= more
  BY <1>3
<1>8. SumFunctionOnSet(e, X) = e[x] + more
  BY <1>4, SumWithout
<1>9. more \in Nat /\ less \in Nat /\ e[x] \in Nat
  <2>1. IsFiniteSet(X \ {x}) /\ IsFiniteSet((X \ {x}) \cap S)
    BY <1>4, FS_Subset
  <2> QED
    BY <2>1, SumIsNat
<1>10. CASE x \in S
  <2>1. (X \cap S) \ {x} = (X \ {x}) \cap S
    OBVIOUS
  <2>2. SumFunctionOnSet(f, X \cap S) = f[x] + less
    BY <1>4, <1>10, <2>1, SumWithout
  <2>3. f[x] \in Nat /\ f[x] <= e[x]
    BY <1>10
  <2> HIDE DEF less, more
  <2>4. f[x] + less <= e[x] + more
    BY <1>7, <1>9, <2>3
  <2> QED
    BY <1>3, <1>8, <2>2, <2>4
<1>11. CASE x \notin S
  <2>1. X \cap S = (X \ {x}) \cap S
    BY <1>11
  <2>2. SumFunctionOnSet(f, X \cap S) = less
    BY <2>1
  <2> HIDE DEF less, more
  <2>3. less <= e[x] + more
    BY <1>7, <1>9
  <2> QED
    BY <1>3, <1>8, <2>2, <2>3
<1> QED
  BY <1>10, <1>11

-----------------------------------------------------------------------------
(* The sum of all values of a function: what the proofs about models cite.   *)

\* A function without arguments sums to zero.
LEMMA TotalOfNone == ASSUME NEW f, DOMAIN f = {} PROVE SumFunction(f) = 0
BY SumOfNone DEF SumFunction

LEMMA TotalIsNat ==
    ASSUME NEW S, IsFiniteSet(S), NEW f \in [S -> Nat]
    PROVE  SumFunction(f) \in Nat
BY SumIsNat DEF SumFunction

\* Fewer and smaller values sum to no more.
LEMMA TotalAtMost ==
    ASSUME NEW T, IsFiniteSet(T), NEW S \in SUBSET T, NEW e \in [T -> Nat],
           NEW f \in [S -> Nat], \A x \in S : f[x] <= e[x]
    PROVE  SumFunction(f) <= SumFunction(e)
<1>1. /\ \A x \in S : f[x] \in Nat /\ f[x] <= e[x]
      /\ \A x \in T : e[x] \in Nat
  OBVIOUS
<1>2. SumFunctionOnSet(f, S) <= SumFunctionOnSet(e, T)
  BY <1>1, SumAtMost
<1> QED
  BY <1>2 DEF SumFunction

\* One more value adds itself.
LEMMA TotalWith ==
    ASSUME NEW S, IsFiniteSet(S), NEW x, x \notin S, NEW e \in [S \cup {x} -> Nat]
    PROVE  SumFunction(e) = SumFunction([y \in S |-> e[y]]) + e[x]
<1> DEFINE f == [y \in S |-> e[y]]
<1>1. SumFunctionOnSet(e, S \cup {x}) = SumFunctionOnSet(e, S) + e[x]
  <2>1. \A y \in S \cup {x} : e[y] \in Nat
    OBVIOUS
  <2> QED
    BY <2>1, SumWith
<1>2. SumFunctionOnSet(e, S) = SumFunctionOnSet(f, S)
  <2>1. \A y \in S : e[y] = f[y]
    OBVIOUS
  <2> HIDE DEF f
  <2> QED
    BY <2>1, SumOfSame
<1> QED
  BY <1>1, <1>2 DEF SumFunction

\* A changed value changes the sum by as much.
LEMMA TotalChanged ==
    ASSUME NEW S, IsFiniteSet(S), NEW f \in [S -> Nat], NEW e \in [S -> Nat],
           NEW x \in S, \A y \in S \ {x} : e[y] = f[y]
    PROVE  SumFunction(e) + f[x] = SumFunction(f) + e[x]
<1> DEFINE rest == SumFunctionOnSet(f, S \ {x})
<1>1. IsFiniteSet(S \ {x})
  BY FS_RemoveElement
<1>2. SumFunctionOnSet(e, S \ {x}) = rest
  BY <1>1, SumOfSame
<1>3. rest \in Nat
  BY <1>1, SumIsNat
<1>4. (\A y \in S : f[y] \in Nat) /\ \A y \in S : e[y] \in Nat
  OBVIOUS
<1>5. SumFunctionOnSet(f, S) = f[x] + rest
  BY <1>4, SumWithout
<1>6. SumFunctionOnSet(e, S) = e[x] + rest
  BY <1>2, <1>4, SumWithout
<1> HIDE DEF rest
<1>7. (e[x] + rest) + f[x] = (f[x] + rest) + e[x]
  BY <1>3, <1>4
<1> QED
  BY <1>5, <1>6, <1>7 DEF SumFunction

-----------------------------------------------------------------------------
(* Types of the helpers. *)

LEMMA ClaimsMarkedType ==
    ASSUME TypeOK, NEW gone, NEW status \in ClaimStatus
    PROVE  ClaimsMarked(gone, status) \in [Claim -> ClaimRow]
<1>1. ASSUME NEW c \in Claim
      PROVE  claims[c] \in ClaimRow /\ Ended(claims[c], status) \in ClaimRow
  <2>1. claims[c] \in ClaimRow
    BY DEF TypeOK
  <2> QED
    BY <2>1 DEF Ended, ClaimRow
<1> QED
  BY <1>1 DEF ClaimsMarked

LEMMA TaskAfterType ==
    ASSUME TypeOK, NEW gone, NEW status \in Status
    PROVE  TaskAfter(gone, status) \in [Task -> Status]
BY DEF TypeOK, TaskAfter

LEMMA VersionAfterType ==
    ASSUME TypeOK, NEW gone, NEW steps \in Nat
    PROVE  VersionAfter(gone, steps) \in [Task -> Nat]
BY DEF TypeOK, VersionAfter

LEMMA LocksWithoutType ==
    ASSUME TypeOK, NEW gone
    PROVE  LocksWithout(gone) \subseteq [key: LockKey, claim: Claim]
BY DEF TypeOK, LocksWithout

LEMMA AcquiredGenerationType ==
    ASSUME TypeOK, NEW i \in Instance
    PROVE  AcquiredGeneration(i) \in Nat
<1>1. leader.generation \in Nat
  BY DEF TypeOK
<1> QED
  BY <1>1 DEF AcquiredGeneration

LEMMA KeysForType ==
    ASSUME NEW t \in Task, NEW slot \in SlotChoice(t)
    PROVE  KeysFor(t, slot) \subseteq LockKey
<1>1. ProjectOf[t] \in Project /\ PoolsOf[t] \subseteq Pool
  BY TopologyAssumption
<1>2. ProjectKey(ProjectOf[t]) \in LockKey
  BY <1>1 DEF ProjectKey, LockKey
<1>3. ASSUME NEW q \in PoolsOf[t]
      PROVE  SlotKey(q, slot[q]) \in LockKey
  <2>1. \A p \in PoolsOf[t] : Limit[p] \in Nat
    BY <1>1, TopologyAssumption
  <2>2. slot[q] \in UNION {0..Limit[p] : p \in PoolsOf[t]}
    BY DEF SlotChoice
  <2>3. slot[q] \in Nat
    BY <2>1, <2>2
  <2> QED
    BY <1>1, <2>3 DEF SlotKey, LockKey
<1> QED
  BY <1>2, <1>3 DEF KeysFor

LEMMA ReleaseRunsType ==
    ASSUME TypeOK, NEW ended, ReleaseRuns(ended)
    PROVE  /\ leases' \in [Run -> LeaseRow]
           /\ locks' \subseteq [key: LockKey, claim: Claim]
<1>1. leases' \in [Run -> LeaseRow]
  BY DEF TypeOK, ReleaseRuns, NoLease, LeaseRow
<1> QED
  BY <1>1, LocksWithoutType DEF ReleaseRuns

LEMMA TransitionType ==
    ASSUME TypeOK, NEW t, NEW from, NEW to \in Status, Transition(t, from, to)
    PROVE  task' \in [Task -> Status] /\ version' \in [Task -> Nat]
<1>1. task \in [Task -> Status] /\ version \in [Task -> Nat]
  BY DEF TypeOK
<1>2. /\ task' = [task EXCEPT ![t] = to]
      /\ version' = [version EXCEPT ![t] = version[t] + 1]
  BY DEF Transition
<1>3. CASE t \in Task
  <2>1. version[t] + 1 \in Nat
    BY <1>1, <1>3
  <2> QED
    BY <1>1, <1>2, <2>1
<1>4. CASE t \notin Task
  BY <1>1, <1>2, <1>4
<1> QED
  BY <1>3, <1>4

LEMMA GoesType ==
    ASSUME TypeOK, NEW c, NEW at, NEW next \in WorkerState, Goes(c, at, next)
    PROVE  worker' \in [Claim -> WorkerState]
BY DEF TypeOK, Goes

-----------------------------------------------------------------------------
(* Type correctness. *)

LEMMA InitTypes == Init => TypeOK
<1> SUFFICES ASSUME Init PROVE TypeOK
  OBVIOUS
<1>1. task \in [Task -> Status] /\ version \in [Task -> Nat]
  BY DEF Init, Status
<1>2. dependsOn \in [Task -> SUBSET Task]
  BY TopologyAssumption DEF Init
<1>3. planned \in [Instance -> Plan] /\ edit \in EditRow
  BY DEF Init, Plan, NoPlan, EditRow, NoEdit, Status
<1>4. claims \in [Claim -> ClaimRow] /\ runs \in [Run -> RunRow] /\ leases \in [Run -> LeaseRow]
  BY DEF Init, ClaimRow, NoClaim, ClaimStatus, RunRow, NoRun, RunStatus, LeaseRow, NoLease
<1>5. /\ verifier \in [Run -> VerifierStatus]
      /\ requested \in [Run -> Request]
      /\ worker \in [Claim -> WorkerState]
      /\ verdict \in [Run -> [Supervisor -> Verdict]]
  BY DEF Init, VerifierStatus, Request, WorkerState, Verdict
<1> QED
  BY <1>1, <1>2, <1>3, <1>4, <1>5 DEF Init, TypeOK

LEMMA TickTypes ==
    ASSUME TypeOK, Tick
    PROVE  TypeOK'
BY DEF TypeOK, Tick, leaderVars, controlVars, graphVars, runVars, workerVars

LEMMA LeadershipTypes ==
    ASSUME TypeOK, NEW i \in Instance, NEW g, NEW now,
           \/ RegisterSchedulerInstance(i)
           \/ now \in Observed /\ AcquireSchedulerLeader(i, now)
           \/ now \in Observed /\ HeartbeatSchedulerLeader(i, g, now)
           \/ now \in Observed /\ StopSchedulerInstance(i, now)
    PROVE  TypeOK'
<1> USE DEF unscheduled, workerVars, graphVars, controlVars, leaderVars
<1>1. now \in Observed => now \in Nat /\ now + LeaderTtl \in Nat
  BY BoundAssumption DEF Observed, TypeOK
<1>2. CASE RegisterSchedulerInstance(i)
  BY <1>2 DEF TypeOK, RegisterSchedulerInstance
<1>3. CASE now \in Observed /\ AcquireSchedulerLeader(i, now)
  <2>1. leader' \in [owner: Instance \cup {None}, generation: Nat, expires: Nat]
    BY <1>1, <1>3, AcquiredGenerationType DEF AcquireSchedulerLeader
  <2> QED
    BY <1>3, <2>1 DEF TypeOK, AcquireSchedulerLeader
<1>4. CASE now \in Observed /\ HeartbeatSchedulerLeader(i, g, now)
  BY <1>1, <1>4 DEF TypeOK, HeartbeatSchedulerLeader
<1>5. CASE now \in Observed /\ StopSchedulerInstance(i, now)
  <2>1. leader' \in [owner: Instance \cup {None}, generation: Nat, expires: Nat]
    BY <1>1, <1>5 DEF TypeOK, StopSchedulerInstance
  <2>2. PICK gone : /\ task' = TaskAfter(gone, "ready")
                    /\ version' = VersionAfter(gone, 2)
                    /\ claims' = ClaimsMarked(gone, "released")
                    /\ locks' = LocksWithout(gone)
    BY <1>5 DEF StopSchedulerInstance
  <2>3. task' \in [Task -> Status]
    BY <2>2, TaskAfterType DEF Status
  <2>4. version' \in [Task -> Nat]
    BY <2>2, VersionAfterType
  <2>5. claims' \in [Claim -> ClaimRow]
    BY <2>2, ClaimsMarkedType DEF ClaimStatus
  <2>6. locks' \subseteq [key: LockKey, claim: Claim]
    BY <2>2, LocksWithoutType
  <2> QED
    BY <1>5, <2>1, <2>3, <2>4, <2>5, <2>6 DEF TypeOK, StopSchedulerInstance
<1> QED
  BY <1>2, <1>3, <1>4, <1>5

\* What recovering or releasing the claims in "gone" leaves behind.
LEMMA HandedBackTypes ==
    ASSUME TypeOK, NEW gone, NEW status \in Status, NEW steps \in Nat,
           NEW end \in ClaimStatus,
           task' = TaskAfter(gone, status),
           version' = VersionAfter(gone, steps),
           claims' = ClaimsMarked(gone, end),
           locks' = LocksWithout(gone)
    PROVE  /\ task' \in [Task -> Status]
           /\ version' \in [Task -> Nat]
           /\ claims' \in [Claim -> ClaimRow]
           /\ locks' \subseteq [key: LockKey, claim: Claim]
BY TaskAfterType, VersionAfterType, ClaimsMarkedType, LocksWithoutType

LEMMA ClaimTaskTypes ==
    ASSUME TypeOK, NEW i \in Instance, NEW g \in 1..MaxGeneration, NEW c \in Claim,
           NEW now \in Observed, ClaimTask(i, g, c, now)
    PROVE  TypeOK'
<1> DEFINE t == planned[i].task
           gone == ExpiredAt(now)
<1>1. now + ClaimTtl \in Nat /\ g \in Nat
  BY BoundAssumption DEF Observed, TypeOK
<1>2. t \in Task
  BY DEF ClaimTask
<1>3. task' \in [Task -> Status]
  <2>1. TaskAfter(gone, "ready") \in [Task -> Status]
    BY TaskAfterType DEF Status
  <2>2. task' = [TaskAfter(gone, "ready") EXCEPT ![t] = "leased"]
    BY DEF ClaimTask
  <2> HIDE DEF gone, t
  <2> QED
    BY <2>1, <2>2 DEF Status
<1>4. version' \in [Task -> Nat]
  <2>1. VersionAfter(gone, 2) \in [Task -> Nat]
    BY VersionAfterType
  <2>2. version' = [VersionAfter(gone, 2) EXCEPT ![t] = @ + 1]
    BY DEF ClaimTask
  <2> HIDE DEF gone, t
  <2> QED
    BY <1>2, <2>1, <2>2
<1>5. claims' \in [Claim -> ClaimRow]
  <2>1. ClaimsMarked(gone, "expired") \in [Claim -> ClaimRow]
    BY ClaimsMarkedType DEF ClaimStatus
  <2>2. claims' = [ClaimsMarked(gone, "expired") EXCEPT ![c] =
                     [status |-> "active", task |-> t, owner |-> i, generation |-> g,
                      expires |-> now + ClaimTtl, run |-> None]]
    BY DEF ClaimTask
  <2> HIDE DEF gone, t
  <2> QED
    BY <1>1, <1>2, <2>1, <2>2 DEF ClaimRow, ClaimStatus
<1>6. locks' \subseteq [key: LockKey, claim: Claim]
  <2>1. PICK slot \in SlotChoice(t) :
            locks' = LocksWithout(gone)
                        \cup {[key |-> k, claim |-> c] : k \in KeysFor(t, slot)}
    BY DEF ClaimTask
  <2>2. KeysFor(t, slot) \subseteq LockKey
    BY <1>2, <2>1, KeysForType
  <2>3. LocksWithout(gone) \subseteq [key: LockKey, claim: Claim]
    BY LocksWithoutType
  <2> QED
    BY <2>1, <2>2, <2>3
<1>7. planned' \in [Instance -> Plan]
  BY DEF TypeOK, ClaimTask, NoPlan, Plan
<1> QED
  BY <1>3, <1>4, <1>5, <1>6, <1>7
  DEF TypeOK, ClaimTask, unscheduled, workerVars, graphVars, leaderVars, controlVars

LEMMA ClaimTypes ==
    ASSUME TypeOK, NEW i, NEW g, NEW t, NEW now,
           \/ t \in Task /\ RouteTask(i, t)
           \/ t \in Task /\ SetTaskRoutePin(t)
           \/ now \in Observed /\ HeartbeatSchedulerClaims(i, g, now)
           \/ RecoverSchedulerClaims(now)
    PROVE  TypeOK'
<1> USE DEF unscheduled, workerVars, graphVars, leaderVars, controlVars
<1>1. CASE t \in Task /\ RouteTask(i, t)
  BY <1>1 DEF TypeOK, RouteTask, Plan
<1>2. CASE t \in Task /\ SetTaskRoutePin(t)
  BY <1>2 DEF TypeOK, SetTaskRoutePin
<1>3. CASE now \in Observed /\ HeartbeatSchedulerClaims(i, g, now)
  <2>1. now + ClaimTtl \in Nat
    BY <1>3, BoundAssumption DEF Observed, TypeOK
  <2>2. claims' \in [Claim -> ClaimRow]
    <3>1. ClaimsMarked(ExpiredAt(now), "expired") \in [Claim -> ClaimRow]
      BY ClaimsMarkedType DEF ClaimStatus
    <3>2. ASSUME NEW c \in Claim
          PROVE  [claims[c] EXCEPT !.expires = now + ClaimTtl] \in ClaimRow
      <4>1. claims[c] \in ClaimRow
        BY DEF TypeOK
      <4> QED
        BY <2>1, <4>1 DEF ClaimRow
    <3> QED
      BY <1>3, <3>1, <3>2 DEF HeartbeatSchedulerClaims
  <2>3. task' \in [Task -> Status] /\ version' \in [Task -> Nat]
    BY <1>3, TaskAfterType, VersionAfterType DEF HeartbeatSchedulerClaims, Status
  <2>4. locks' \subseteq [key: LockKey, claim: Claim]
    BY <1>3, LocksWithoutType DEF HeartbeatSchedulerClaims
  <2> QED
    BY <1>3, <2>2, <2>3, <2>4 DEF TypeOK, HeartbeatSchedulerClaims
<1>4. CASE RecoverSchedulerClaims(now)
  <2>1. "ready" \in Status /\ "expired" \in ClaimStatus
    BY DEF Status, ClaimStatus
  <2>2. /\ task' \in [Task -> Status]
        /\ version' \in [Task -> Nat]
        /\ claims' \in [Claim -> ClaimRow]
        /\ locks' \subseteq [key: LockKey, claim: Claim]
    BY <1>4, <2>1, HandedBackTypes DEF RecoverSchedulerClaims
  <2> QED
    BY <1>4, <2>2 DEF TypeOK, RecoverSchedulerClaims
<1> QED
  BY <1>1, <1>2, <1>3, <1>4

LEMMA ControlTypes ==
    ASSUME TypeOK, NEW paused,
           \/ paused \in BOOLEAN /\ SetPauseNewWork(paused)
           \/ ResumeOperations
           \/ EmergencyStop
    PROVE  TypeOK'
<1> USE DEF unscheduled, workerVars, graphVars, leaderVars, controlVars
<1>1. CASE paused \in BOOLEAN /\ SetPauseNewWork(paused)
  BY <1>1 DEF TypeOK, SetPauseNewWork
<1>2. CASE ResumeOperations
  BY <1>2 DEF TypeOK, ResumeOperations
<1>3. CASE EmergencyStop
  <2>1. "paused" \in Status /\ "released" \in ClaimStatus
    BY DEF Status, ClaimStatus
  <2>2. /\ task' \in [Task -> Status]
        /\ version' \in [Task -> Nat]
        /\ claims' \in [Claim -> ClaimRow]
        /\ locks' \subseteq [key: LockKey, claim: Claim]
    BY <1>3, <2>1, HandedBackTypes DEF EmergencyStop
  <2>3. requested' \in [Run -> Request]
    BY <1>3 DEF TypeOK, EmergencyStop, Request
  <2> QED
    BY <1>3, <2>2, <2>3 DEF TypeOK, EmergencyStop
<1> QED
  BY <1>1, <1>2, <1>3

LEMMA WorkerTypes ==
    ASSUME TypeOK, NEW c \in Claim, NEW r, NEW now, NEW passed,
           \/ PrepareClaim(c)
           \/ WorktreeFailed(c)
           \/ r \in Run /\ now \in Observed /\ BeginClaimedRun(c, r, now)
           \/ AgentExited(c)
           \/ CreateVerifierRun(c)
           \/ FinishVerifierRun(c, passed)
           \/ CloseVerification(c)
           \/ ApiRunFailed(c)
           \/ FinishRun(c)
           \/ WorkerDies(c)
           \/ RecordProcessOutcome(c)
    PROVE  TypeOK'
<1> USE DEF unexecuted, leaderVars, graphVars, controlVars, runVars
<1>1. {"preparing", "working", "terminating", "exited", "checking", "checked",
       "closing", "done", "dead"} \subseteq WorkerState
  BY DEF WorkerState
<1>2. CASE PrepareClaim(c)
  <2>1. worker' \in [Claim -> WorkerState]
    BY <1>1, <1>2, GoesType DEF PrepareClaim
  <2> QED
    BY <1>2, <2>1 DEF TypeOK, PrepareClaim
<1>3. CASE WorktreeFailed(c)
  <2>1. worker' \in [Claim -> WorkerState]
    BY <1>1, <1>3, GoesType DEF WorktreeFailed
  <2>2. task' \in [Task -> Status] /\ version' \in [Task -> Nat]
    BY <1>3, TransitionType DEF WorktreeFailed, Status
  <2> QED
    BY <1>3, <2>1, <2>2 DEF TypeOK, WorktreeFailed
<1>4. CASE r \in Run /\ now \in Observed /\ BeginClaimedRun(c, r, now)
  <2> DEFINE t == claims[c].task
  <2>1. worker' \in [Claim -> WorkerState]
    BY <1>1, <1>4, GoesType DEF BeginClaimedRun
  <2>2. now + LeaseTtl \in Nat
    BY <1>4, BoundAssumption DEF Observed, TypeOK
  <2>3. t \in Task \cup {None}
    BY DEF TypeOK, ClaimRow
  <2>4. task' \in [Task -> Status]
    <3>1. task' = [task EXCEPT ![t] = "running"] /\ task \in [Task -> Status]
      BY <1>4 DEF BeginClaimedRun, TypeOK
    <3> QED
      BY <3>1 DEF Status
  <2>5. version' \in [Task -> Nat]
    <3>1. version' = [version EXCEPT ![t] = @ + 2] /\ version \in [Task -> Nat]
      BY <1>4 DEF BeginClaimedRun, TypeOK
    <3>2. t \in Task => version[t] + 2 \in Nat
      BY <3>1
    <3> QED
      BY <3>1, <3>2
  <2>6. runs' \in [Run -> RunRow]
    BY <1>4, <2>3 DEF BeginClaimedRun, TypeOK, RunRow, RunStatus
  <2>7. leases' \in [Run -> LeaseRow]
    BY <1>4, <2>2 DEF BeginClaimedRun, TypeOK, LeaseRow
  <2>8. claims' \in [Claim -> ClaimRow]
    <3>1. claims[c] \in ClaimRow
      BY DEF TypeOK
    <3>2. [Ended(claims[c], "consumed") EXCEPT !.run = r] \in ClaimRow
      BY <1>4, <3>1 DEF Ended, ClaimRow, ClaimStatus
    <3> QED
      BY <1>4, <3>2 DEF BeginClaimedRun, TypeOK
  <2> QED
    BY <1>4, <2>1, <2>4, <2>5, <2>6, <2>7, <2>8 DEF TypeOK, BeginClaimedRun
<1>5. CASE AgentExited(c)
  <2>1. worker' \in [Claim -> WorkerState]
    BY <1>1, <1>5, GoesType DEF AgentExited
  <2>2. task' \in [Task -> Status] /\ version' \in [Task -> Nat]
    BY <1>5, TransitionType DEF AgentExited, Status
  <2> QED
    BY <1>5, <2>1, <2>2 DEF TypeOK, AgentExited
<1>6. CASE CreateVerifierRun(c)
  <2>1. worker' \in [Claim -> WorkerState]
    BY <1>1, <1>6, GoesType DEF CreateVerifierRun
  <2>2. verifier' \in [Run -> VerifierStatus]
    BY <1>6 DEF TypeOK, CreateVerifierRun, VerifierStatus
  <2> QED
    BY <1>6, <2>1, <2>2 DEF TypeOK, CreateVerifierRun
<1>7. CASE FinishVerifierRun(c, passed)
  <2>1. worker' \in [Claim -> WorkerState]
    BY <1>1, <1>7, GoesType DEF FinishVerifierRun
  <2>2. verifier' \in [Run -> VerifierStatus]
    BY <1>7 DEF TypeOK, FinishVerifierRun, VerifierStatus
  <2> QED
    BY <1>7, <2>1, <2>2 DEF TypeOK, FinishVerifierRun
<1>8. CASE CloseVerification(c)
  <2>1. worker' \in [Claim -> WorkerState]
    BY <1>1, <1>8, GoesType DEF CloseVerification
  <2>2. VerifiedStatus(claims[c].run) \in Status
    BY DEF VerifiedStatus, Status
  <2>3. task' \in [Task -> Status] /\ version' \in [Task -> Nat]
    BY <1>8, <2>2, TransitionType DEF CloseVerification
  <2> QED
    BY <1>8, <2>1, <2>3 DEF TypeOK, CloseVerification
<1>9. CASE ApiRunFailed(c)
  <2>1. worker' \in [Claim -> WorkerState]
    BY <1>1, <1>9, GoesType DEF ApiRunFailed
  <2>2. task' \in [Task -> Status] /\ version' \in [Task -> Nat]
    BY <1>9, TransitionType DEF ApiRunFailed, Status
  <2> QED
    BY <1>9, <2>1, <2>2 DEF TypeOK, ApiRunFailed
<1>10. CASE FinishRun(c)
  <2>1. worker' \in [Claim -> WorkerState]
    BY <1>1, <1>10, GoesType DEF FinishRun
  <2>2. leases' \in [Run -> LeaseRow] /\ locks' \subseteq [key: LockKey, claim: Claim]
    BY <1>10, ReleaseRunsType DEF FinishRun
  <2>3. runs' \in [Run -> RunRow]
    <3> DEFINE r1 == claims[c].run
    <3>1. /\ runs' = [runs EXCEPT ![r1].status = VerifiedStatus(r1)]
          /\ runs \in [Run -> RunRow]
      BY <1>10 DEF FinishRun, TypeOK
    <3>2. VerifiedStatus(r1) \in RunStatus
      BY DEF VerifiedStatus, RunStatus
    <3> QED
      BY <3>1, <3>2 DEF RunRow
  <2> QED
    BY <1>10, <2>1, <2>2, <2>3 DEF TypeOK, FinishRun
<1>11. CASE WorkerDies(c)
  <2>1. worker' \in [Claim -> WorkerState]
    BY <1>1, <1>11 DEF TypeOK, WorkerDies
  <2>2. verdict' \in [Run -> [Supervisor -> Verdict]]
    BY <1>11 DEF TypeOK, WorkerDies, Verdict
  <2> QED
    BY <1>11, <2>1, <2>2 DEF TypeOK, WorkerDies
<1>12. CASE RecordProcessOutcome(c)
  <2>1. worker' \in [Claim -> WorkerState]
    <3>1. PICK at : Goes(c, at, "done")
      BY <1>12 DEF RecordProcessOutcome
    <3> QED
      BY <3>1, GoesType DEF WorkerState
  <2>2. PICK outcome \in {"paused", "cancelled", "failed"} :
            /\ Transition(runs[claims[c].run].task, "running", outcome)
            /\ runs' = [runs EXCEPT ![claims[c].run].status = outcome]
    BY <1>12 DEF RecordProcessOutcome
  <2>3. task' \in [Task -> Status] /\ version' \in [Task -> Nat]
    BY <2>2, TransitionType DEF Status
  <2>4. runs' \in [Run -> RunRow]
    <3>1. runs \in [Run -> RunRow] /\ outcome \in RunStatus
      BY DEF TypeOK, RunStatus
    <3>2. ASSUME NEW r1 \in Run PROVE [runs[r1] EXCEPT !.status = outcome] \in RunRow
      BY <3>1 DEF RunRow
    <3> QED
      BY <2>2, <3>1, <3>2
  <2>5. requested' \in [Run -> Request]
    BY <1>12 DEF TypeOK, RecordProcessOutcome, Request
  <2>6. leases' \in [Run -> LeaseRow] /\ locks' \subseteq [key: LockKey, claim: Claim]
    BY <1>12, ReleaseRunsType DEF RecordProcessOutcome
  <2> QED
    BY <1>12, <2>1, <2>3, <2>4, <2>5, <2>6 DEF TypeOK, RecordProcessOutcome
<1> QED
  BY <1>2, <1>3, <1>4, <1>5, <1>6, <1>7, <1>8, <1>9, <1>10, <1>11, <1>12

LEMMA SupervisionTypes ==
    ASSUME TypeOK, NEW r, NEW s, NEW now,
           \/ EvaluateCheckpoint(r, s)
           \/ /\ r \in Run /\ s \in Supervisor /\ now \in Observed
              /\ ApplyRunCheckpoint(r, s, now)
           \/ OperatorCheckpointRefused(r)
           \/ RequestRunCancellation(r)
           \/ RecoverExpiredLeases(now)
    PROVE  TypeOK'
<1> USE DEF unexecuted, leaderVars, graphVars, controlVars, runVars, workerVars
<1>1. CASE EvaluateCheckpoint(r, s)
  <2>1. PICK v \in Verdict : verdict' = [verdict EXCEPT ![r][s] = v]
    BY <1>1 DEF EvaluateCheckpoint, Verdict
  <2>2. verdict' \in [Run -> [Supervisor -> Verdict]]
    BY <2>1 DEF TypeOK
  <2> QED
    BY <1>1, <2>2 DEF TypeOK, EvaluateCheckpoint
<1>2. CASE /\ r \in Run /\ s \in Supervisor /\ now \in Observed
           /\ ApplyRunCheckpoint(r, s, now)
  <2>1. now + LeaseTtl \in Nat
    BY <1>2, BoundAssumption DEF Observed, TypeOK
  <2>2. leases' \in [Run -> LeaseRow]
    BY <1>2, <2>1 DEF TypeOK, ApplyRunCheckpoint, LeaseRow
  <2>3. verdict[r][s] \in Verdict
    BY <1>2 DEF TypeOK
  <2>4. requested' \in [Run -> Request]
    BY <1>2, <2>3 DEF TypeOK, ApplyRunCheckpoint, Verdict, Request
  <2>5. verdict' \in [Run -> [Supervisor -> Verdict]]
    BY <1>2 DEF TypeOK, ApplyRunCheckpoint, Verdict
  <2>6. worker' \in [Claim -> WorkerState]
    BY <1>2 DEF TypeOK, ApplyRunCheckpoint, WorkerState
  <2> QED
    BY <1>2, <2>2, <2>4, <2>5, <2>6 DEF TypeOK, ApplyRunCheckpoint
<1>3. CASE OperatorCheckpointRefused(r)
  <2>1. verdict' \in [Run -> [Supervisor -> Verdict]]
    BY <1>3 DEF TypeOK, OperatorCheckpointRefused, Verdict
  <2> QED
    BY <1>3, <2>1 DEF TypeOK, OperatorCheckpointRefused
<1>4. CASE RequestRunCancellation(r)
  <2>1. requested' \in [Run -> Request]
    BY <1>4 DEF TypeOK, RequestRunCancellation, Request
  <2> QED
    BY <1>4, <2>1 DEF TypeOK, RequestRunCancellation
<1>5. CASE RecoverExpiredLeases(now)
  <2>1. task' \in [Task -> Status]
    BY <1>5 DEF TypeOK, RecoverExpiredLeases, Status
  <2>2. version' \in [Task -> Nat]
    <3>1. \A t \in Task : Cardinality(ExpiredLeasesOf(t, now)) \in Nat
      <4>1. \A t \in Task : ExpiredLeasesOf(t, now) \subseteq Run
        BY DEF ExpiredLeasesOf, ExpiredLeases
      <4> QED
        BY <4>1, IdentityAssumption, FS_Subset, FS_CardinalityType
    <3> QED
      BY <1>5, <3>1 DEF TypeOK, RecoverExpiredLeases
  <2>3. runs' \in [Run -> RunRow]
    <3>1. runs' = [r1 \in Run |-> IF r1 \in ExpiredLeases(now)
                                  THEN [runs[r1] EXCEPT !.status = "orphaned"]
                                  ELSE runs[r1]]
      BY <1>5 DEF RecoverExpiredLeases
    <3>2. ASSUME NEW r1 \in Run
          PROVE  [runs[r1] EXCEPT !.status = "orphaned"] \in RunRow
      <4>1. runs[r1] \in RunRow
        BY DEF TypeOK
      <4> QED
        BY <4>1 DEF RunRow, RunStatus
    <3> QED
      BY <3>1, <3>2 DEF TypeOK
  <2>4. verifier' \in [Run -> VerifierStatus]
    BY <1>5 DEF TypeOK, RecoverExpiredLeases, VerifierStatus
  <2>5. leases' \in [Run -> LeaseRow] /\ locks' \subseteq [key: LockKey, claim: Claim]
    BY <1>5, ReleaseRunsType DEF RecoverExpiredLeases
  <2> QED
    BY <1>5, <2>1, <2>2, <2>3, <2>4, <2>5 DEF TypeOK, RecoverExpiredLeases
<1> QED
  BY <1>1, <1>2, <1>3, <1>4, <1>5

LEMMA GraphTypes ==
    ASSUME TypeOK, NEW t, NEW d,
           \/ t \in Task /\ d \in Task /\ ReadTaskToEdit(t, d)
           \/ AddDependency
           \/ AbandonEdit
           \/ CompleteReview(t)
    PROVE  TypeOK'
<1> USE DEF ungraphed, leaderVars, graphVars, controlVars, runVars, workerVars
<1>1. CASE t \in Task /\ d \in Task /\ ReadTaskToEdit(t, d)
  BY <1>1 DEF TypeOK, ReadTaskToEdit, EditRow
<1>2. CASE AddDependency
  <2>1. task' \in [Task -> Status] /\ version' \in [Task -> Nat]
    <3>1. CASE edit.seen = "ready"
      BY <1>2, <3>1, TransitionType DEF AddDependency, Status
    <3>2. CASE edit.seen # "ready"
      BY <1>2, <3>2 DEF AddDependency, TypeOK
    <3> QED
      BY <3>1, <3>2
  <2>2. dependsOn' \in [Task -> SUBSET Task]
    <3>1. dependsOn' = [dependsOn EXCEPT ![edit.task] = @ \cup {edit.on}]
      BY <1>2 DEF AddDependency
    <3>2. edit.task \in Task /\ edit.on \in Task
      BY <1>2 DEF TypeOK, EditRow, AddDependency
    <3> QED
      BY <3>1, <3>2 DEF TypeOK
  <2>3. edit' \in EditRow
    BY <1>2 DEF AddDependency, NoEdit, EditRow, Status
  <2> QED
    BY <1>2, <2>1, <2>2, <2>3 DEF TypeOK, AddDependency
<1>3. CASE AbandonEdit
  BY <1>3 DEF TypeOK, AbandonEdit, NoEdit, EditRow, Status
<1>4. CASE CompleteReview(t)
  BY <1>4 DEF TypeOK, CompleteReview, Status
<1> QED
  BY <1>1, <1>2, <1>3, <1>4

LEMMA SchedulerTypes == TypeOK /\ SchedulerNext => TypeOK'
<1> SUFFICES ASSUME TypeOK, SchedulerNext PROVE TypeOK'
  OBVIOUS
<1>1. CASE \/ \E i \in Instance : RegisterSchedulerInstance(i)
           \/ \E i \in Instance, now \in Observed : AcquireSchedulerLeader(i, now)
           \/ \E i \in Instance, g \in 1..MaxGeneration, now \in Observed :
                    HeartbeatSchedulerLeader(i, g, now)
           \/ \E i \in Instance, now \in Observed : StopSchedulerInstance(i, now)
  BY <1>1, LeadershipTypes
<1>2. CASE \E i \in Instance, g \in 1..MaxGeneration, c \in Claim, now \in Observed :
                ClaimTask(i, g, c, now)
  BY <1>2, ClaimTaskTypes
<1>3. CASE \/ \E i \in Instance, t \in Task : RouteTask(i, t)
           \/ \E t \in Task : SetTaskRoutePin(t)
           \/ \E i \in Instance, g \in 1..MaxGeneration, now \in Observed :
                    HeartbeatSchedulerClaims(i, g, now)
           \/ \E now \in Observed : RecoverSchedulerClaims(now)
  BY <1>3, ClaimTypes
<1>4. CASE \/ \E paused \in BOOLEAN : SetPauseNewWork(paused)
           \/ ResumeOperations
           \/ EmergencyStop
  BY <1>4, ControlTypes
<1> QED
  BY <1>1, <1>2, <1>3, <1>4 DEF SchedulerNext

LEMMA RunTypes == TypeOK /\ RunNext => TypeOK'
<1> SUFFICES ASSUME TypeOK, RunNext PROVE TypeOK'
  OBVIOUS
<1>1. CASE \/ \E c \in Claim : PrepareClaim(c)
           \/ \E c \in Claim : WorktreeFailed(c)
           \/ \E c \in Claim, r \in Run, now \in Observed : BeginClaimedRun(c, r, now)
           \/ \E c \in Claim : AgentExited(c)
           \/ \E c \in Claim : CreateVerifierRun(c)
           \/ \E c \in Claim, passed \in BOOLEAN : FinishVerifierRun(c, passed)
           \/ \E c \in Claim : CloseVerification(c)
           \/ \E c \in Claim : ApiRunFailed(c)
           \/ \E c \in Claim : FinishRun(c)
           \/ \E c \in Claim : WorkerDies(c)
           \/ \E c \in Claim : RecordProcessOutcome(c)
  BY <1>1, WorkerTypes
<1>2. CASE \/ \E r \in Run, s \in Supervisor : EvaluateCheckpoint(r, s)
           \/ \E r \in Run, s \in Supervisor, now \in Observed :
                    ApplyRunCheckpoint(r, s, now)
           \/ \E r \in Run : OperatorCheckpointRefused(r)
           \/ \E r \in Run : RequestRunCancellation(r)
           \/ \E now \in Observed : RecoverExpiredLeases(now)
  BY <1>2, SupervisionTypes
<1> QED
  BY <1>1, <1>2 DEF RunNext

LEMMA NextTypes == TypeOK /\ [Next]_vars => TypeOK'
<1> SUFFICES ASSUME TypeOK, [Next]_vars PROVE TypeOK'
  OBVIOUS
<1>1. CASE Tick
  BY <1>1, TickTypes
<1>2. CASE SchedulerNext
  BY <1>2, SchedulerTypes
<1>3. CASE RunNext
  BY <1>3, RunTypes
<1>4. CASE GraphNext
  BY <1>4, GraphTypes DEF GraphNext
<1>5. CASE UNCHANGED vars
  BY <1>5 DEF TypeOK, vars
<1> QED
  BY <1>1, <1>2, <1>3, <1>4, <1>5 DEF Next

\* The type invariant holds in every reachable state, for every instance of the
\* model: no call of the database writes a status, a row or a lock outside its
\* domain (src/src/db.rs, all transactions of the scheduler and the runs).
THEOREM TypeCorrect == Spec => []TypeOK
<1>1. Init => TypeOK
  BY InitTypes
<1>2. TypeOK /\ [Next]_vars => TypeOK'
  BY NextTypes
<1> QED
  BY <1>1, <1>2, PTL DEF Spec

-----------------------------------------------------------------------------
(* How one step changes the claims, the locks and the leader row.  All that  *)
(* follows rests on these facts instead of on the definitions of the actions.*)

\* Some instance claims a task.
ClaimStep ==
    \E i \in Instance, g \in 1..MaxGeneration, c \in Claim, now \in Observed :
        ClaimTask(i, g, c, now)

\* Some instance takes the leader row or keeps it.
AcquireStep ==
    \E i \in Instance, now \in Observed : AcquireSchedulerLeader(i, now)

\* Claim c keeps what identifies it, and its status unless it was active.
Kept(c, ends) ==
    /\ claims'[c].task = claims[c].task
    /\ claims'[c].owner = claims[c].owner
    /\ claims'[c].generation = claims[c].generation
    /\ \/ claims'[c].status = claims[c].status
       \/ claims[c].status = "active" /\ claims'[c].status \in ends

LEMMA MarkedKeeps ==
    ASSUME TypeOK, NEW gone \in SUBSET Active, NEW end \in {"expired", "released"},
           claims' = ClaimsMarked(gone, end)
    PROVE  \A c \in Claim : Kept(c, {"expired", "released"})
<1> SUFFICES ASSUME NEW c \in Claim PROVE Kept(c, {"expired", "released"})
  OBVIOUS
<1>1. claims[c] \in ClaimRow
  BY DEF TypeOK
<1>2. CASE c \in gone
  <2>1. claims[c].status = "active"
    BY <1>2 DEF Active
  <2>2. claims'[c] = [claims[c] EXCEPT !.status = end, !.expires = 0]
    BY <1>2 DEF ClaimsMarked, Ended
  <2> QED
    BY <1>1, <2>1, <2>2 DEF Kept, ClaimRow
<1>3. CASE c \notin gone
  BY <1>3 DEF ClaimsMarked, Kept
<1> QED
  BY <1>2, <1>3

LEMMA BeginKeeps ==
    ASSUME TypeOK, NEW c \in Claim, NEW r \in Run, NEW now, BeginClaimedRun(c, r, now)
    PROVE  /\ \A d \in Claim : Kept(d, {"consumed"})
           /\ \A d \in Claim \ {c} : claims'[d] = claims[d]
           /\ claims'[c].status = "consumed" /\ claims'[c].run = r
<1>1. claims \in [Claim -> ClaimRow]
  BY DEF TypeOK
<1>2. claims' = [claims EXCEPT ![c] = [Ended(claims[c], "consumed") EXCEPT !.run = r]]
  BY DEF BeginClaimedRun
<1>3. claims[c] \in ClaimRow /\ claims[c].status = "active"
  BY <1>1 DEF BeginClaimedRun, Startable
<1>4. claims'[c] = [claims[c] EXCEPT !.status = "consumed", !.expires = 0, !.run = r]
  BY <1>1, <1>2, <1>3 DEF Ended, ClaimRow
<1>5. \A d \in Claim \ {c} : claims'[d] = claims[d]
  BY <1>1, <1>2
<1>6. claims'[c].status = "consumed" /\ claims'[c].run = r
  BY <1>3, <1>4 DEF ClaimRow
<1>7. Kept(c, {"consumed"})
  BY <1>3, <1>4 DEF ClaimRow, Kept
<1>8. ASSUME NEW d \in Claim \ {c} PROVE Kept(d, {"consumed"})
  BY <1>5 DEF Kept
<1> QED
  BY <1>5, <1>6, <1>7, <1>8

LEMMA ClaimTaskKeeps ==
    ASSUME TypeOK, NEW i \in Instance, NEW g \in 1..MaxGeneration, NEW c \in Claim,
           NEW now, ClaimTask(i, g, c, now)
    PROVE  /\ claims[c].status = "unused"
           /\ claims'[c].status = "active"
           /\ claims'[c].owner = i /\ claims'[c].generation = g
           /\ claims'[c].task = planned[i].task
           /\ \A d \in Claim \ {c} : Kept(d, {"expired", "released"})
<1> DEFINE gone == ExpiredAt(now)
           marked == ClaimsMarked(gone, "expired")
           row == [status |-> "active", task |-> planned[i].task, owner |-> i,
                   generation |-> g, expires |-> now + ClaimTtl, run |-> None]
<1>1. claims' = [marked EXCEPT ![c] = row] /\ claims[c].status = "unused"
  BY DEF ClaimTask
<1>2. marked \in [Claim -> ClaimRow]
  BY ClaimsMarkedType DEF ClaimStatus
<1>3. claims'[c] = row /\ \A d \in Claim \ {c} : claims'[d] = marked[d]
  <2> HIDE DEF marked, row
  <2> QED
    BY <1>1, <1>2
<1>4. ASSUME NEW d \in Claim \ {c} PROVE Kept(d, {"expired", "released"})
  <2>1. claims[d] \in ClaimRow
    BY DEF TypeOK
  <2>2. CASE d \in gone
    <3>1. claims[d].status = "active"
      BY <2>2 DEF ExpiredAt, Active
    <3>2. claims'[d] = [claims[d] EXCEPT !.status = "expired", !.expires = 0]
      BY <1>3, <2>2 DEF ClaimsMarked, Ended
    <3> QED
      BY <2>1, <3>1, <3>2 DEF Kept, ClaimRow
  <2>3. CASE d \notin gone
    BY <1>3, <2>3 DEF ClaimsMarked, Kept
  <2> QED
    BY <2>2, <2>3
<1> QED
  BY <1>1, <1>3, <1>4

LEMMA HeartbeatKeeps ==
    ASSUME TypeOK, NEW i, NEW g, NEW now, HeartbeatSchedulerClaims(i, g, now)
    PROVE  \A c \in Claim : Kept(c, {"expired", "released"})
<1> SUFFICES ASSUME NEW c \in Claim PROVE Kept(c, {"expired", "released"})
  OBVIOUS
<1>1. claims[c] \in ClaimRow
  BY DEF TypeOK
<1>2. \/ claims'[c] = [claims[c] EXCEPT !.expires = now + ClaimTtl]
      \/ claims'[c] = ClaimsMarked(ExpiredAt(now), "expired")[c]
  BY DEF HeartbeatSchedulerClaims
<1>3. CASE claims'[c] = [claims[c] EXCEPT !.expires = now + ClaimTtl]
  BY <1>1, <1>3 DEF Kept, ClaimRow
<1>4. CASE claims'[c] = ClaimsMarked(ExpiredAt(now), "expired")[c]
  <2>1. CASE c \in ExpiredAt(now)
    <3>1. claims[c].status = "active"
      BY <2>1 DEF ExpiredAt, Active
    <3>2. claims'[c] = [claims[c] EXCEPT !.status = "expired", !.expires = 0]
      BY <1>4, <2>1 DEF ClaimsMarked, Ended
    <3> QED
      BY <1>1, <3>1, <3>2 DEF Kept, ClaimRow
  <2>2. CASE c \notin ExpiredAt(now)
    BY <1>4, <2>2 DEF ClaimsMarked, Kept
  <2> QED
    BY <2>1, <2>2
<1> QED
  BY <1>2, <1>3, <1>4

\* Some process starts a run.
BeginStep ==
    \E c \in Claim, r \in Run, now \in Observed : BeginClaimedRun(c, r, now)

\* Besides a claim and a start, every step leaves every claim as it is or ends it.
LEMMA ClaimsKept ==
    ASSUME TypeOK, [Next]_vars, ~ClaimStep, ~BeginStep
    PROVE  \A c \in Claim : Kept(c, {"expired", "released"})
<1>1. CASE UNCHANGED claims
  BY <1>1 DEF Kept
<1>2. CASE \E i \in Instance, now \in Observed : StopSchedulerInstance(i, now)
  <2>1. PICK i \in Instance : claims' = ClaimsMarked({c \in Active : claims[c].owner = i},
                                                     "released")
    BY <1>2 DEF StopSchedulerInstance
  <2> QED
    BY <2>1, MarkedKeeps
<1>3. CASE \E i \in Instance, g \in 1..MaxGeneration, now \in Observed :
                HeartbeatSchedulerClaims(i, g, now)
  BY <1>3, HeartbeatKeeps
<1>4. CASE \E now \in Observed : RecoverSchedulerClaims(now)
  <2>1. PICK now \in Observed : claims' = ClaimsMarked(ExpiredAt(now), "expired")
    BY <1>4 DEF RecoverSchedulerClaims
  <2>2. ExpiredAt(now) \subseteq Active
    BY DEF ExpiredAt
  <2> QED
    BY <2>1, <2>2, MarkedKeeps
<1>5. CASE EmergencyStop
  BY <1>5, MarkedKeeps DEF EmergencyStop
<1>6. \/ UNCHANGED claims
      \/ \E i \in Instance, now \in Observed : StopSchedulerInstance(i, now)
      \/ \E i \in Instance, g \in 1..MaxGeneration, now \in Observed :
                HeartbeatSchedulerClaims(i, g, now)
      \/ \E now \in Observed : RecoverSchedulerClaims(now)
      \/ EmergencyStop
  <2>1. CASE Tick
    BY <2>1 DEF Tick
  <2>2. CASE SchedulerNext
    BY <2>2 DEF SchedulerNext, ClaimStep, RegisterSchedulerInstance,
        AcquireSchedulerLeader, HeartbeatSchedulerLeader, RouteTask, SetTaskRoutePin,
        SetPauseNewWork, ResumeOperations
  <2>3. CASE RunNext
    BY <2>3 DEF RunNext, BeginStep, PrepareClaim, WorktreeFailed, AgentExited,
        CreateVerifierRun, FinishVerifierRun, CloseVerification, ApiRunFailed, FinishRun,
        WorkerDies, EvaluateCheckpoint, ApplyRunCheckpoint, OperatorCheckpointRefused,
        RequestRunCancellation, RecordProcessOutcome, RecoverExpiredLeases
  <2>4. CASE GraphNext
    BY <2>4 DEF GraphNext, ReadTaskToEdit, AddDependency, AbandonEdit, CompleteReview,
        ungraphed
  <2>5. CASE UNCHANGED vars
    BY <2>5 DEF vars
  <2> QED
    BY <2>1, <2>2, <2>3, <2>4, <2>5 DEF Next
<1> QED
  BY <1>1, <1>2, <1>3, <1>4, <1>5, <1>6

\* The emergency flag is written by the operator's commands alone.
LEMMA EmergencyFlag ==
    ASSUME [Next]_vars
    PROVE  EmergencyStop \/ ResumeOperations \/ UNCHANGED emergencyStop
<1>1. CASE Tick
  BY <1>1 DEF Tick, controlVars
<1>2. CASE SchedulerNext
  <2>1. ASSUME NEW i \in Instance, NEW g, NEW now, StopSchedulerInstance(i, now)
        PROVE  UNCHANGED emergencyStop
    BY <2>1 DEF StopSchedulerInstance, controlVars
  <2>2. ASSUME NEW i, NEW g, NEW c, NEW now, ClaimTask(i, g, c, now)
        PROVE  UNCHANGED emergencyStop
    BY <2>2 DEF ClaimTask, controlVars
  <2>3. ASSUME NEW i, NEW g, NEW now, HeartbeatSchedulerClaims(i, g, now)
        PROVE  UNCHANGED emergencyStop
    BY <2>3 DEF HeartbeatSchedulerClaims, controlVars
  <2> QED
    BY <1>2, <2>1, <2>2, <2>3 DEF SchedulerNext, RegisterSchedulerInstance,
        AcquireSchedulerLeader, HeartbeatSchedulerLeader, RouteTask, SetTaskRoutePin,
        RecoverSchedulerClaims, SetPauseNewWork, controlVars
<1>3. CASE RunNext
  BY <1>3 DEF RunNext, PrepareClaim, WorktreeFailed, BeginClaimedRun, AgentExited,
      CreateVerifierRun, FinishVerifierRun, CloseVerification, ApiRunFailed, FinishRun,
      WorkerDies, EvaluateCheckpoint, ApplyRunCheckpoint, OperatorCheckpointRefused,
      RequestRunCancellation, RecordProcessOutcome, RecoverExpiredLeases,
      unexecuted, controlVars
<1>4. CASE GraphNext
  BY <1>4 DEF GraphNext, ReadTaskToEdit, AddDependency, AbandonEdit, CompleteReview,
      ungraphed, controlVars
<1>5. CASE UNCHANGED vars
  BY <1>5 DEF vars
<1> QED
  BY <1>1, <1>2, <1>3, <1>4, <1>5 DEF Next

\* The leader row keeps its owner and its generation unless it is acquired.
LEMMA LeaderKept ==
    ASSUME TypeOK, [Next]_vars
    PROVE  \/ AcquireStep
           \/ leader'.owner = leader.owner /\ leader'.generation = leader.generation
<1> USE DEF leaderVars
<1>1. CASE Tick
  BY <1>1 DEF Tick
<1>2. CASE SchedulerNext
  <2>1. CASE \E i \in Instance, g \in 1..MaxGeneration, now \in Observed :
                HeartbeatSchedulerLeader(i, g, now)
    BY <2>1 DEF HeartbeatSchedulerLeader, TypeOK
  <2>2. CASE \E i \in Instance, now \in Observed : StopSchedulerInstance(i, now)
    BY <2>2 DEF StopSchedulerInstance, TypeOK
  <2> QED
    BY <1>2, <2>1, <2>2 DEF SchedulerNext, AcquireStep, RegisterSchedulerInstance,
        RouteTask, SetTaskRoutePin, ClaimTask, HeartbeatSchedulerClaims,
        RecoverSchedulerClaims, SetPauseNewWork, ResumeOperations, EmergencyStop
<1>3. CASE RunNext
  BY <1>3 DEF RunNext, PrepareClaim, WorktreeFailed, BeginClaimedRun, AgentExited,
      CreateVerifierRun, FinishVerifierRun, CloseVerification, ApiRunFailed, FinishRun,
      WorkerDies, EvaluateCheckpoint, ApplyRunCheckpoint, OperatorCheckpointRefused,
      RequestRunCancellation, RecordProcessOutcome, RecoverExpiredLeases, unexecuted
<1>4. CASE GraphNext
  BY <1>4 DEF GraphNext, ReadTaskToEdit, AddDependency, AbandonEdit, CompleteReview,
      ungraphed
<1>5. CASE UNCHANGED vars
  BY <1>5 DEF vars
<1> QED
  BY <1>1, <1>2, <1>3, <1>4, <1>5 DEF Next

-----------------------------------------------------------------------------
(* The emergency stop. *)

LEMMA StopStep == TypeOK /\ StopMeansNoClaims /\ [Next]_vars => StopMeansNoClaims'
<1> SUFFICES ASSUME TypeOK, StopMeansNoClaims, [Next]_vars, emergencyStop'
             PROVE  Active' = {}
  BY DEF StopMeansNoClaims
<1>1. CASE EmergencyStop
  <2>1. ASSUME NEW c \in Claim PROVE claims'[c].status # "active"
    <3>1. claims[c] \in ClaimRow
      BY DEF TypeOK
    <3>2. claims' = ClaimsMarked(Active, "released")
      BY <1>1 DEF EmergencyStop
    <3>3. CASE c \in Active
      BY <3>1, <3>2, <3>3 DEF ClaimsMarked, Ended, ClaimRow
    <3>4. CASE c \notin Active
      BY <3>2, <3>4 DEF ClaimsMarked, Active
    <3> QED
      BY <3>3, <3>4
  <2> QED
    BY <2>1 DEF Active
<1>2. CASE ~EmergencyStop
  <2>1. emergencyStop
    BY <1>2, EmergencyFlag DEF ResumeOperations
  <2>2. Active = {}
    BY <2>1 DEF StopMeansNoClaims
  <2>3. ~ClaimStep
    BY <2>1 DEF ClaimStep, ClaimTask, NewWorkAllowed
  <2>4. ~BeginStep
    BY <2>2 DEF BeginStep, BeginClaimedRun, Startable, Active
  <2>5. \A c \in Claim : Kept(c, {"expired", "released"})
    BY <2>3, <2>4, ClaimsKept
  <2> QED
    BY <2>2, <2>5 DEF Active, Kept
<1> QED
  BY <1>1, <1>2

\* However an emergency stop interleaves with the claims and the starts of any
\* number of schedulers, no claim that could still start survives it
\* (emergency_stop, claim_task_for_scheduler_inner).
THEOREM StopIsFinal == Spec => []StopMeansNoClaims
<1>1. Init => StopMeansNoClaims
  BY DEF Init, StopMeansNoClaims
<1>2. TypeOK /\ StopMeansNoClaims /\ [Next]_vars => StopMeansNoClaims'
  BY StopStep
<1> QED
  BY <1>1, <1>2, TypeCorrect, PTL DEF Spec

-----------------------------------------------------------------------------
(* The fence.  The generation of the leader row never decreases, and grows   *)
(* whenever another instance takes over, so a claim is either of an older    *)
(* generation or of the leader itself.                                       *)

FenceInv ==
    /\ leader.owner = None => leader.generation = 0
    /\ \A c \in Claim : claims[c].status = "unused" => claims[c].generation = 0
    /\ \A c \in Claim : claims[c].status # "unused" =>
            /\ claims[c].generation \in 1..leader.generation
            /\ claims[c].generation = leader.generation => claims[c].owner = leader.owner
    /\ \A c, d \in Claim :
            /\ claims[c].status # "unused" /\ claims[d].status # "unused"
            /\ claims[c].generation = claims[d].generation
            => claims[c].owner = claims[d].owner

LEMMA FenceInit == Init => FenceInv
BY DEF Init, FenceInv, NoClaim

LEMMA FenceImplies == FenceInv /\ TypeOK => GenerationHasOneOwner
<1> SUFFICES ASSUME FenceInv, TypeOK, NEW c \in Claim, claims[c].status # "unused"
             PROVE  /\ claims[c].generation <= leader.generation
                    /\ claims[c].generation = leader.generation
                            => claims[c].owner = leader.owner
                    /\ \A d \in Claim : claims[d].generation = claims[c].generation
                            => claims[d].owner = claims[c].owner
  BY DEF GenerationHasOneOwner
<1>1. leader.generation \in Nat /\ claims[c].generation \in 1..leader.generation
  BY DEF FenceInv, TypeOK
<1>2. \A d \in Claim : claims[d].status = "unused" => claims[d].generation = 0
  BY DEF FenceInv
<1> QED
  BY <1>1, <1>2 DEF FenceInv

LEMMA FenceStep == TypeOK /\ TypeOK' /\ FenceInv /\ [Next]_vars => FenceInv'
<1> SUFFICES ASSUME TypeOK, TypeOK', FenceInv, [Next]_vars PROVE FenceInv'
  OBVIOUS
<1>1. leader.generation \in Nat /\ leader'.generation \in Nat
  BY DEF TypeOK
<1>2. CASE ClaimStep
  <2>1. PICK i \in Instance, g \in 1..MaxGeneration, c \in Claim, now \in Observed :
            ClaimTask(i, g, c, now)
    BY <1>2 DEF ClaimStep
  <2>2. leader' = leader /\ leader.owner = i /\ leader.generation = g
    BY <2>1 DEF ClaimTask, LeaderIs, leaderVars
  <2>3. /\ claims'[c].status = "active"
        /\ claims'[c].owner = i /\ claims'[c].generation = g
        /\ \A d \in Claim \ {c} : Kept(d, {"expired", "released"})
    BY <2>1, ClaimTaskKeeps
  <2>4. \A d \in Claim \ {c} :
            /\ claims'[d].owner = claims[d].owner
            /\ claims'[d].generation = claims[d].generation
            /\ claims'[d].status = "unused" <=> claims[d].status = "unused"
    BY <2>3 DEF Kept
  <2>5. g \in 1..leader.generation
    BY <2>2
  <2> QED
    BY <2>2, <2>3, <2>4, <2>5 DEF FenceInv
<1>3. CASE ~ClaimStep
  <2>1. \A d \in Claim :
            /\ claims'[d].owner = claims[d].owner
            /\ claims'[d].generation = claims[d].generation
            /\ claims'[d].status = "unused" <=> claims[d].status = "unused"
    <3>1. CASE BeginStep
      BY <3>1, BeginKeeps DEF BeginStep, Kept
    <3>2. CASE ~BeginStep
      BY <1>3, <3>2, ClaimsKept DEF Kept
    <3> QED
      BY <3>1, <3>2
  <2>2. CASE leader'.owner = leader.owner /\ leader'.generation = leader.generation
    BY <2>1, <2>2 DEF FenceInv
  <2>3. CASE AcquireStep
    <3>1. PICK i \in Instance : /\ leader'.owner = i
                                /\ leader'.generation = AcquiredGeneration(i)
      BY <2>3 DEF AcquireStep, AcquireSchedulerLeader
    <3>2. i # None
      BY IdentityAssumption
    <3>3. CASE leader.owner = None
      <4>1. \A c \in Claim : claims[c].status = "unused"
        BY <1>1, <3>3 DEF FenceInv
      <4> QED
        BY <2>1, <3>1, <3>2, <4>1 DEF FenceInv
    <3>4. CASE leader.owner = i
      BY <2>1, <3>1, <3>2, <3>4 DEF FenceInv, AcquiredGeneration
    <3>5. CASE leader.owner \notin {None, i}
      <4>1. leader'.generation = leader.generation + 1
        BY <3>1, <3>5 DEF AcquiredGeneration
      <4>2. \A c \in Claim : claims[c].status # "unused" =>
                /\ claims[c].generation \in 1..leader'.generation
                /\ claims[c].generation # leader'.generation
        BY <1>1, <4>1 DEF FenceInv
      <4> QED
        BY <2>1, <3>1, <3>2, <4>2 DEF FenceInv
    <3> QED
      BY <3>3, <3>4, <3>5
  <2> QED
    BY <2>2, <2>3, LeaderKept
<1> QED
  BY <1>2, <1>3

\* A generation of the scheduler leadership belongs to one instance for ever,
\* whatever instances take over, stop, register again or die
\* (acquire_scheduler_leader, assert_scheduler_leader_tx).
THEOREM GenerationsAreFenced == Spec => []GenerationHasOneOwner
<1>1. Init => FenceInv
  BY FenceInit
<1>2. TypeOK /\ TypeOK' /\ FenceInv /\ [Next]_vars => FenceInv'
  BY FenceStep
<1>3. FenceInv /\ TypeOK => GenerationHasOneOwner
  BY FenceImplies
<1> QED
  BY <1>1, <1>2, <1>3, TypeCorrect, PTL DEF Spec

-----------------------------------------------------------------------------
(* Exclusion. *)

\* Besides a claim, every step gives locks up and takes none.
LEMMA LocksKept ==
    ASSUME [Next]_vars, ~ClaimStep
    PROVE  locks' \subseteq locks
<1>1. \A gone : LocksWithout(gone) \subseteq locks
  BY DEF LocksWithout
<1>2. CASE Tick
  BY <1>2 DEF Tick
<1>3. CASE SchedulerNext
  BY <1>1, <1>3 DEF SchedulerNext, ClaimStep, RegisterSchedulerInstance,
      AcquireSchedulerLeader, HeartbeatSchedulerLeader, StopSchedulerInstance, RouteTask,
      SetTaskRoutePin, HeartbeatSchedulerClaims, RecoverSchedulerClaims,
      SetPauseNewWork, ResumeOperations, EmergencyStop
<1>4. CASE RunNext
  <2>1. \A ended : ReleaseRuns(ended) => locks' \subseteq locks
    BY <1>1 DEF ReleaseRuns
  <2>2. \A c \in Claim : FinishRun(c) => locks' \subseteq locks
    BY <2>1 DEF FinishRun
  <2>3. \A c \in Claim : RecordProcessOutcome(c) => locks' \subseteq locks
    BY <2>1 DEF RecordProcessOutcome
  <2>4. \A now \in Observed : RecoverExpiredLeases(now) => locks' \subseteq locks
    BY <2>1 DEF RecoverExpiredLeases
  <2> QED
    BY <1>4, <2>2, <2>3, <2>4 DEF RunNext, PrepareClaim, WorktreeFailed,
        BeginClaimedRun, AgentExited, CreateVerifierRun, FinishVerifierRun,
        CloseVerification, ApiRunFailed, WorkerDies, EvaluateCheckpoint,
        ApplyRunCheckpoint, OperatorCheckpointRefused, RequestRunCancellation, runVars
<1>5. CASE GraphNext
  BY <1>5 DEF GraphNext, ReadTaskToEdit, AddDependency, AbandonEdit, CompleteReview,
      ungraphed
<1>6. CASE UNCHANGED vars
  BY <1>6 DEF vars
<1> QED
  BY <1>2, <1>3, <1>4, <1>5, <1>6 DEF Next

LEMMA ExclusionStep == LocksExclusive /\ [Next]_vars => LocksExclusive'
<1> SUFFICES ASSUME LocksExclusive, [Next]_vars PROVE LocksExclusive'
  OBVIOUS
<1>1. CASE ClaimStep
  <2>1. PICK i \in Instance, g \in 1..MaxGeneration, c \in Claim, now \in Observed :
            ClaimTask(i, g, c, now)
    BY <1>1 DEF ClaimStep
  <2> DEFINE t == planned[i].task
             held == LocksWithout(ExpiredAt(now))
  <2>2. PICK slot \in SlotChoice(t) :
            /\ Unlocked(t, slot, held)
            /\ locks' = held \cup {[key |-> k, claim |-> c] : k \in KeysFor(t, slot)}
    BY <2>1 DEF ClaimTask
  <2>3. held \subseteq locks
    BY DEF LocksWithout
  <2>4. \A l \in held : l.key \notin KeysFor(t, slot)
    BY <2>2 DEF Unlocked
  <2>5. \A l \in locks' : \/ l \in held
                          \/ l.key \in KeysFor(t, slot) /\ l.claim = c
    BY <2>2
  <2> QED
    BY <2>3, <2>4, <2>5 DEF LocksExclusive
<1>2. CASE ~ClaimStep
  BY <1>2, LocksKept DEF LocksExclusive
<1> QED
  BY <1>1, <1>2

\* No two claims ever hold the same project or the same slot of a pool, for
\* every topology of pools and every interleaving of claims, expiries and
\* releases (claim_task_for_scheduler_inner, idx_resource_lock_active).
THEOREM LocksAreExclusive == Spec => []LocksExclusive
<1>1. Init => LocksExclusive
  BY DEF Init, LocksExclusive
<1>2. LocksExclusive /\ [Next]_vars => LocksExclusive'
  BY ExclusionStep
<1> QED
  BY <1>1, <1>2, PTL DEF Spec

-----------------------------------------------------------------------------
(* Starts. *)

LEMMA StartStep ==
    ASSUME TypeOK, StopMeansNoClaims, FenceInv, [Next]_vars,
           NEW c \in Claim, Started(c)
    PROVE  /\ ~emergencyStop
           /\ \A d \in Claim : claims[d].generation <= claims[c].generation
           /\ claims[c].expires + MaxLag > clock
<1>1. BeginStep
  <2>1. ~Kept(c, {"expired", "released"})
    BY DEF Started, Kept
  <2>2. ~ClaimStep
    <3>1. SUFFICES ASSUME NEW i \in Instance, NEW g \in 1..MaxGeneration,
                          NEW d \in Claim, NEW now \in Observed, ClaimTask(i, g, d, now)
                   PROVE  FALSE
      BY DEF ClaimStep
    <3>2. claims[d].status = "unused" /\ \A e \in Claim \ {d} : Kept(e, {"expired", "released"})
      BY <3>1, ClaimTaskKeeps
    <3> QED
      BY <2>1, <3>2 DEF Started
  <2> QED
    BY <2>1, <2>2, ClaimsKept
<1>2. PICK r \in Run, now \in Observed : BeginClaimedRun(c, r, now)
  <2>1. PICK d \in Claim, r \in Run, now \in Observed : BeginClaimedRun(d, r, now)
    BY <1>1 DEF BeginStep
  <2>2. d = c
    BY <2>1, BeginKeeps DEF Started
  <2> QED
    BY <2>1, <2>2
<1>3. Startable(c, now)
  BY <1>2 DEF BeginClaimedRun
<1>4. ~emergencyStop
  BY <1>3 DEF StopMeansNoClaims, Startable, Active
<1>5. \A d \in Claim : claims[d].generation <= claims[c].generation
  <2>1. claims[c].generation = leader.generation /\ leader.generation \in Nat
    BY <1>3 DEF Startable, LeaderIs, TypeOK
  <2>2. ASSUME NEW d \in Claim PROVE claims[d].generation <= leader.generation
    BY <2>1 DEF FenceInv
  <2> QED
    BY <2>1, <2>2
<1>6. claims[c].expires + MaxLag > clock
  <2>1. claims[c].expires \in Nat /\ clock \in Nat /\ MaxLag \in Nat
    BY BoundAssumption DEF TypeOK, ClaimRow
  <2>2. now \in Nat /\ clock <= now + MaxLag
    BY <2>1 DEF Observed
  <2>3. claims[c].expires > now
    BY <1>3 DEF Startable
  <2> QED
    BY <2>1, <2>2, <2>3
<1> QED
  BY <1>4, <1>5, <1>6

\* Work is started only by the newest generation, before its claim expired as
\* its caller saw the time, and never during an emergency stop, whatever other
\* instances do meanwhile (begin_claimed_run).
THEOREM StartsAreFenced == Spec => StaleLeaderNeverStarts
<1>1. TypeOK /\ StopMeansNoClaims /\ FenceInv /\ [Next]_vars =>
        [\A c \in Claim : Started(c) =>
            /\ ~emergencyStop
            /\ \A d \in Claim : claims[d].generation <= claims[c].generation
            /\ claims[c].expires + MaxLag > clock]_vars
  BY StartStep
<1>2. Spec => []FenceInv
  <2>1. TypeOK /\ TypeOK' /\ FenceInv /\ [Next]_vars => FenceInv'
    BY FenceStep
  <2> QED
    BY <2>1, FenceInit, TypeCorrect, PTL DEF Spec
<1> QED
  BY <1>1, <1>2, TypeCorrect, StopIsFinal, PTL DEF Spec, StaleLeaderNeverStarts

-----------------------------------------------------------------------------
(* The order of dependencies. *)

\* The members of a finite set without a cycle can be ranked one after another:
\* remove one that depends on no other, rank the rest, and put it below them.
LEMMA Ranked ==
    ASSUME NEW deps, Acyclic(deps)
    PROVE  \E rank \in [Task -> 1..Cardinality(Task)] :
              \A t \in Task : \A d \in deps[t] \cap Task : rank[d] < rank[t]
<1> DEFINE Ranks(X) == \E rank \in [X -> 1..Cardinality(X)] :
                          \A t \in X : \A d \in deps[t] \cap X : rank[d] < rank[t]
           Bad == {X \in SUBSET Task : ~ Ranks(X)}
<1>1. SUFFICES ASSUME Bad # {} PROVE FALSE
  OBVIOUS
<1>2. PICK X \in Bad : \A Y \in Bad : Y \subseteq X => Y = X
  <2>1. Bad \in SUBSET SUBSET Task
    OBVIOUS
  <2> HIDE DEF Bad
  <2> QED
    BY <1>1, <2>1, Minimal, IdentityAssumption
<1>3. X # {}
  <2>1. [x \in {} |-> 1] \in [{} -> 1..Cardinality({})]
    OBVIOUS
  <2> QED
    BY <2>1
<1>4. PICK t \in X : deps[t] \cap X = {}
  BY <1>3 DEF Acyclic
<1> DEFINE Y == X \ {t}
           n == Cardinality(Y)
<1>5. n \in Nat /\ Cardinality(X) = n + 1
  <2>1. IsFiniteSet(X)
    BY IdentityAssumption, FS_Subset
  <2>2. IsFiniteSet(Y) /\ Cardinality(Y) = Cardinality(X) - 1
    BY <2>1, FS_RemoveElement
  <2>3. Cardinality(X) \in Nat /\ Cardinality(Y) \in Nat
    BY <2>1, <2>2, FS_CardinalityType
  <2> QED
    BY <2>2, <2>3
<1>6. PICK rank \in [Y -> 1..n] : \A u \in Y : \A d \in deps[u] \cap Y : rank[d] < rank[u]
  BY <1>2
<1> DEFINE above == [u \in X |-> IF u = t THEN 1 ELSE rank[u] + 1]
<1> HIDE DEF n
<1>7. above \in [X -> 1..Cardinality(X)]
  BY <1>5, <1>6
<1>8. ASSUME NEW u \in X, NEW d \in deps[u] \cap X PROVE above[d] < above[u]
  <2>1. u # t /\ rank[u] \in 1..n
    BY <1>4, <1>6
  <2>2. CASE d = t
    BY <1>5, <2>1, <2>2
  <2>3. CASE d # t
    <3>1. rank[d] < rank[u] /\ rank[d] \in 1..n
      BY <1>6, <2>1, <2>3
    <3> QED
      BY <1>5, <2>1, <2>3, <3>1
  <2> QED
    BY <2>2, <2>3
<1> HIDE DEF above
<1> QED
  BY <1>2, <1>7, <1>8

LEMMA GraphKept ==
    ASSUME [Next]_vars, ~AddDependency
    PROVE  dependsOn' = dependsOn /\ (Edit = {} => edit' \in {edit, NoEdit})
<1> USE DEF graphVars, ungraphed, unscheduled
<1>1. CASE Tick
  BY <1>1 DEF Tick
<1>2. CASE SchedulerNext
  <2>1. \A i, g, c, now : ClaimTask(i, g, c, now) => UNCHANGED <<dependsOn, edit>>
    BY DEF ClaimTask
  <2> QED
    BY <1>2, <2>1 DEF SchedulerNext, RegisterSchedulerInstance, AcquireSchedulerLeader,
        HeartbeatSchedulerLeader, StopSchedulerInstance, RouteTask, SetTaskRoutePin,
        HeartbeatSchedulerClaims, RecoverSchedulerClaims, SetPauseNewWork,
        ResumeOperations, EmergencyStop
<1>3. CASE RunNext
  BY <1>3 DEF RunNext, PrepareClaim, WorktreeFailed, BeginClaimedRun, AgentExited,
      CreateVerifierRun, FinishVerifierRun, CloseVerification, ApiRunFailed, FinishRun,
      WorkerDies, RecordProcessOutcome, EvaluateCheckpoint, ApplyRunCheckpoint,
      OperatorCheckpointRefused, RequestRunCancellation, RecoverExpiredLeases
<1>4. CASE GraphNext
  BY <1>4 DEF GraphNext, ReadTaskToEdit, AddDependency, AbandonEdit, CompleteReview
<1>5. CASE UNCHANGED vars
  BY <1>5 DEF vars
<1> QED
  BY <1>1, <1>2, <1>3, <1>4, <1>5 DEF Next

\* The tasks can be completed in some order, however the edits of dependencies
\* race with each other and with the scheduler: no set of tasks ever waits for
\* itself (add_dependency, ensure_acyclic_tx, add_task).
THEOREM TasksCanBeOrdered == Spec => []DependenciesOrdered
<1>1. Init => Acyclic(dependsOn)
  BY RegistrationAssumption DEF Init
<1>2. Acyclic(dependsOn) /\ [Next]_vars => Acyclic(dependsOn)'
  <2>1. AddDependency => Acyclic(dependsOn)'
    BY DEF AddDependency, Acyclic
  <2>2. Acyclic(dependsOn) /\ dependsOn' = dependsOn => Acyclic(dependsOn)'
    BY DEF Acyclic
  <2> QED
    BY <2>1, <2>2, GraphKept
<1>3. TypeOK /\ Acyclic(dependsOn) => DependenciesOrdered
  <2>1. SUFFICES ASSUME TypeOK, Acyclic(dependsOn) PROVE DependenciesOrdered
    OBVIOUS
  <2>2. \A t \in Task : dependsOn[t] \cap Task = dependsOn[t]
    BY <2>1 DEF TypeOK
  <2> QED
    BY <2>1, <2>2, Ranked DEF DependenciesOrdered
<1> QED
  BY <1>1, <1>2, <1>3, TypeCorrect, PTL DEF Spec

-----------------------------------------------------------------------------
(* The invariant.  Locks are tied to a claim and, once it is consumed, to    *)
(* the lease of the run that consumed it, so it must be known that a         *)
(* consumed claim has a run of its own, that no other claim has one, and     *)
(* that only processes of consumed claims get as far as ending a run.        *)

\* Control points before the start of a run, and the end of a process that
\* may never have started one.
Unstarted == {"idle", "preparing", "dead"}

ClaimsLinked ==
    /\ \A c \in Claim : claims[c].status # "unused" => claims[c].task \in Task
    /\ \A c \in Claim : claims[c].status # "consumed" => claims[c].run = None
    /\ \A c \in Claim : claims[c].status = "consumed" =>
            /\ claims[c].run \in Run
            /\ runs[claims[c].run].status # "unused"
    /\ \A c, d \in Claim :
            /\ claims[c].status = "consumed" /\ claims[d].status = "consumed"
            /\ claims[c].run = claims[d].run
            => c = d

WorkersLinked ==
    \A c \in Claim : worker[c] \notin Unstarted => claims[c].status = "consumed"

LeasesLinked ==
    \A r \in Run : runs[r].status = "unused" => ~leases[r].held

LockInv == ClaimsLinked /\ WorkersLinked /\ LeasesLinked /\ LocksMatchHolders

-----------------------------------------------------------------------------
(* What a step may do to claims and locks, in five forms. *)

\* What ties c to its run stays.
SameLink(c) == claims'[c].task = claims[c].task /\ claims'[c].run = claims[c].run

\* Active claims end, give their locks up and hand their tasks back.
EndStep(gone) ==
    /\ gone \subseteq Active
    /\ \A c \in Claim : SameLink(c)
    /\ \A c \in Claim \ gone : claims'[c].status = claims[c].status
    /\ \A c \in gone : claims'[c].status \in {"expired", "released"}
    /\ \E to \in {"ready", "paused"} : task' = TaskAfter(gone, to)
    /\ locks' = LocksWithout(gone)
    /\ UNCHANGED <<runs, leases, worker>>

\* Runs end, and the claims that they consumed give their locks up.
ReleaseStep(ended) ==
    /\ ended \subseteq Run
    /\ ReleaseRuns(ended)
    /\ \A r \in Run : runs'[r].status = "unused" <=> runs[r].status = "unused"
    /\ UNCHANGED claims

\* Nothing that concerns the locks.
IdleStep ==
    /\ UNCHANGED <<claims, locks, runs>>
    /\ \A r \in Run : leases'[r].held = leases[r].held

LEMMA WorkersKept ==
    ASSUME TypeOK, [Next]_vars, ~BeginStep
    PROVE  \A c \in Claim : worker'[c] \notin Unstarted => worker[c] \notin Unstarted
<1>1. worker \in [Claim -> WorkerState]
  BY DEF TypeOK
<1>2. CASE UNCHANGED worker
  BY <1>2
<1>3. ASSUME NEW c, NEW at, NEW next, Goes(c, at, next),
             at \in Unstarted => next \in Unstarted
      PROVE  \A d \in Claim : worker'[d] \notin Unstarted => worker[d] \notin Unstarted
  BY <1>1, <1>3 DEF Goes
<1>4. CASE RunNext
  <2>1. CASE \E c \in Claim : PrepareClaim(c) \/ WorktreeFailed(c)
    BY <1>3, <2>1 DEF PrepareClaim, WorktreeFailed, Unstarted
  <2>2. CASE \E c \in Claim : AgentExited(c) \/ CreateVerifierRun(c) \/ CloseVerification(c)
    BY <1>3, <2>2 DEF AgentExited, CreateVerifierRun, CloseVerification, Unstarted
  <2>3. CASE \E c \in Claim, passed \in BOOLEAN : FinishVerifierRun(c, passed)
    BY <1>3, <2>3 DEF FinishVerifierRun, Unstarted
  <2>4. CASE \E c \in Claim : ApiRunFailed(c) \/ FinishRun(c)
    BY <1>3, <2>4 DEF ApiRunFailed, FinishRun, Unstarted
  <2>5. CASE \E c \in Claim : WorkerDies(c)
    BY <1>1, <2>5 DEF WorkerDies, Unstarted
  <2>6. CASE \E r \in Run, s \in Supervisor, now \in Observed : ApplyRunCheckpoint(r, s, now)
    BY <1>1, <2>6 DEF ApplyRunCheckpoint, Unstarted
  <2>7. CASE \E c \in Claim : RecordProcessOutcome(c)
    <3>1. PICK c \in Claim, at \in {"working", "terminating"} : Goes(c, at, "done")
      BY <2>7 DEF RecordProcessOutcome
    <3> QED
      BY <1>3, <3>1 DEF Unstarted
  <2>8. CASE \/ \E r \in Run, s \in Supervisor : EvaluateCheckpoint(r, s)
             \/ \E r \in Run : OperatorCheckpointRefused(r)
             \/ \E r \in Run : RequestRunCancellation(r)
             \/ \E now \in Observed : RecoverExpiredLeases(now)
    BY <2>8 DEF EvaluateCheckpoint, OperatorCheckpointRefused, RequestRunCancellation,
        RecoverExpiredLeases, workerVars
  <2> QED
    BY <1>4, <2>1, <2>2, <2>3, <2>4, <2>5, <2>6, <2>7, <2>8 DEF RunNext, BeginStep
<1>5. CASE Tick \/ GraphNext \/ UNCHANGED vars
  BY <1>5 DEF Tick, GraphNext, ReadTaskToEdit, AddDependency, AbandonEdit, CompleteReview,
      ungraphed, workerVars, vars
<1>6. CASE SchedulerNext
  <2>1. ASSUME NEW i, NEW g, NEW c, NEW now,
               \/ StopSchedulerInstance(i, now)
               \/ ClaimTask(i, g, c, now)
               \/ HeartbeatSchedulerClaims(i, g, now)
               \/ RecoverSchedulerClaims(now)
               \/ EmergencyStop
        PROVE  UNCHANGED worker
    <3> USE DEF unscheduled, workerVars
    <3>1. CASE StopSchedulerInstance(i, now)
      BY <3>1 DEF StopSchedulerInstance
    <3>2. CASE ClaimTask(i, g, c, now)
      BY <3>2 DEF ClaimTask
    <3>3. CASE HeartbeatSchedulerClaims(i, g, now)
      BY <3>3 DEF HeartbeatSchedulerClaims
    <3>4. CASE RecoverSchedulerClaims(now) \/ EmergencyStop
      BY <3>4 DEF RecoverSchedulerClaims, EmergencyStop
    <3> QED
      BY <2>1, <3>1, <3>2, <3>3, <3>4
  <2>2. UNCHANGED worker
    BY <1>6, <2>1 DEF SchedulerNext, RegisterSchedulerInstance, AcquireSchedulerLeader,
        HeartbeatSchedulerLeader, RouteTask, SetTaskRoutePin, SetPauseNewWork,
        ResumeOperations, unscheduled, workerVars
  <2> QED
    BY <2>2
<1> QED
  BY <1>4, <1>5, <1>6 DEF Next

LEMMA MarkedEnds ==
    ASSUME TypeOK, NEW gone \in SUBSET Active, NEW end \in {"expired", "released"}
    PROVE  LET marked == ClaimsMarked(gone, end) IN
           \A c \in Claim :
                /\ marked[c].task = claims[c].task
                /\ marked[c].run = claims[c].run
                /\ c \in gone => marked[c].status = end
                /\ c \notin gone => marked[c] = claims[c]
<1> SUFFICES ASSUME NEW c \in Claim
             PROVE  /\ ClaimsMarked(gone, end)[c].task = claims[c].task
                    /\ ClaimsMarked(gone, end)[c].run = claims[c].run
                    /\ c \in gone => ClaimsMarked(gone, end)[c].status = end
                    /\ c \notin gone => ClaimsMarked(gone, end)[c] = claims[c]
  OBVIOUS
<1>1. claims[c] \in ClaimRow
  BY DEF TypeOK
<1>2. Ended(claims[c], end) = [claims[c] EXCEPT !.status = end, !.expires = 0]
  BY DEF Ended
<1> QED
  BY <1>1, <1>2 DEF ClaimsMarked, ClaimRow

LEMMA EndSteps ==
    ASSUME TypeOK,
           \/ \E i \in Instance, now \in Observed : StopSchedulerInstance(i, now)
           \/ \E i \in Instance, g \in 1..MaxGeneration, now \in Observed :
                    HeartbeatSchedulerClaims(i, g, now)
           \/ \E now \in Observed : RecoverSchedulerClaims(now)
           \/ EmergencyStop
    PROVE  \E gone : EndStep(gone)
<1>1. ASSUME NEW gone \in SUBSET Active, NEW end \in {"expired", "released"},
             NEW to \in {"ready", "paused"}, task' = TaskAfter(gone, to),
             claims' = ClaimsMarked(gone, end), locks' = LocksWithout(gone),
             UNCHANGED <<runs, leases, worker>>
      PROVE  EndStep(gone)
  <2>1. ASSUME NEW c \in Claim
        PROVE  /\ SameLink(c)
               /\ c \in gone => claims'[c].status = end
               /\ c \notin gone => claims'[c].status = claims[c].status
    BY <1>1, MarkedEnds DEF SameLink
  <2>2. gone \subseteq Claim
    BY DEF Active
  <2> QED
    BY <1>1, <2>1, <2>2 DEF EndStep
<1>2. CASE \E i \in Instance, now \in Observed : StopSchedulerInstance(i, now)
  <2>1. PICK i \in Instance, now \in Observed : StopSchedulerInstance(i, now)
    BY <1>2
  <2> QED
    BY <1>1, <2>1 DEF StopSchedulerInstance, unscheduled, workerVars
<1>3. CASE \E now \in Observed : RecoverSchedulerClaims(now)
  <2>1. PICK now \in Observed : RecoverSchedulerClaims(now)
    BY <1>3
  <2>2. ExpiredAt(now) \subseteq Active
    BY DEF ExpiredAt
  <2> QED
    BY <1>1, <2>1, <2>2 DEF RecoverSchedulerClaims, unscheduled, workerVars
<1>4. CASE EmergencyStop
  BY <1>1, <1>4 DEF EmergencyStop, unscheduled, workerVars
<1>5. CASE \E i \in Instance, g \in 1..MaxGeneration, now \in Observed :
                HeartbeatSchedulerClaims(i, g, now)
  <2>1. PICK i \in Instance, g \in 1..MaxGeneration, now \in Observed :
            HeartbeatSchedulerClaims(i, g, now)
    BY <1>5
  <2> DEFINE gone == ExpiredAt(now)
             marked == ClaimsMarked(gone, "expired")
  <2>2. gone \subseteq Active
    BY DEF ExpiredAt
  <2>3. ASSUME NEW c \in Claim
        PROVE  /\ SameLink(c)
               /\ c \in gone => claims'[c].status = "expired"
               /\ c \notin gone => claims'[c].status = claims[c].status
    <3>1. \/ /\ c \notin gone
             /\ claims'[c] = [claims[c] EXCEPT !.expires = now + ClaimTtl]
          \/ claims'[c] = marked[c]
      BY <2>1 DEF HeartbeatSchedulerClaims
    <3>2. claims[c] \in ClaimRow
      BY DEF TypeOK
    <3>3. CASE c \notin gone /\ claims'[c] = [claims[c] EXCEPT !.expires = now + ClaimTtl]
      BY <3>2, <3>3 DEF SameLink, ClaimRow
    <3>4. CASE claims'[c] = marked[c]
      BY <2>2, <3>4, MarkedEnds DEF SameLink
    <3> QED
      BY <3>1, <3>3, <3>4
  <2>4. /\ task' = TaskAfter(gone, "ready") /\ locks' = LocksWithout(gone)
        /\ UNCHANGED <<runs, leases, worker>>
    BY <2>1 DEF HeartbeatSchedulerClaims, unscheduled, workerVars
  <2>5. gone \subseteq Claim
    BY <2>2 DEF Active
  <2> HIDE DEF gone, marked
  <2> QED
    BY <2>2, <2>3, <2>4, <2>5 DEF EndStep
<1> QED
  BY <1>2, <1>3, <1>4, <1>5

LEMMA ReleaseSteps ==
    ASSUME TypeOK, ClaimsLinked, WorkersLinked, LeasesLinked,
           \/ \E c \in Claim : FinishRun(c)
           \/ \E c \in Claim : RecordProcessOutcome(c)
           \/ \E now \in Observed : RecoverExpiredLeases(now)
    PROVE  \E ended : ReleaseStep(ended)
<1>1. runs \in [Run -> RunRow]
  BY DEF TypeOK
<1>2. ASSUME NEW c \in Claim, worker[c] \notin Unstarted
      PROVE  claims[c].run \in Run /\ runs[claims[c].run].status # "unused"
  BY <1>2 DEF ClaimsLinked, WorkersLinked
<1>3. ASSUME NEW r \in Run, NEW status, status # "unused", runs[r].status # "unused",
             runs' = [runs EXCEPT ![r].status = status]
      PROVE  \A q \in Run : runs'[q].status = "unused" <=> runs[q].status = "unused"
  BY <1>1, <1>3 DEF RunRow
<1>4. CASE \E c \in Claim : FinishRun(c)
  <2>1. PICK c \in Claim : FinishRun(c)
    BY <1>4
  <2>2. worker[c] \notin Unstarted
    BY <2>1 DEF FinishRun, Goes, Unstarted
  <2>3. VerifiedStatus(claims[c].run) # "unused"
    BY DEF VerifiedStatus
  <2> QED
    BY <1>2, <1>3, <2>1, <2>2, <2>3 DEF FinishRun, ReleaseStep
<1>5. CASE \E c \in Claim : RecordProcessOutcome(c)
  <2>1. PICK c \in Claim : RecordProcessOutcome(c)
    BY <1>5
  <2>2. worker[c] \notin Unstarted
    BY <2>1 DEF RecordProcessOutcome, Goes, Unstarted
  <2>3. PICK outcome \in {"paused", "cancelled", "failed"} :
            runs' = [runs EXCEPT ![claims[c].run].status = outcome]
    BY <2>1 DEF RecordProcessOutcome
  <2> QED
    BY <1>2, <1>3, <2>1, <2>2, <2>3 DEF RecordProcessOutcome, ReleaseStep
<1>6. CASE \E now \in Observed : RecoverExpiredLeases(now)
  <2>1. PICK now \in Observed : RecoverExpiredLeases(now)
    BY <1>6
  <2> DEFINE lost == ExpiredLeases(now)
  <2>2. lost \subseteq Run
    BY DEF ExpiredLeases
  <2>3. runs' = [r \in Run |-> IF r \in lost THEN [runs[r] EXCEPT !.status = "orphaned"]
                                             ELSE runs[r]]
    BY <2>1 DEF RecoverExpiredLeases
  <2>4. ASSUME NEW r \in Run
        PROVE  runs'[r].status = "unused" <=> runs[r].status = "unused"
    <3>1. r \in lost => runs[r].status # "unused"
      BY DEF ExpiredLeases, LeasesLinked
    <3>2. runs[r] \in RunRow
      BY <1>1
    <3> QED
      BY <2>3, <3>1, <3>2 DEF RunRow
  <2>5. ReleaseRuns(lost) /\ UNCHANGED claims
    BY <2>1 DEF RecoverExpiredLeases
  <2> QED
    BY <2>2, <2>4, <2>5 DEF ReleaseStep
<1> QED
  BY <1>4, <1>5, <1>6

LEMMA IdleSteps ==
    ASSUME TypeOK, [Next]_vars, ~ClaimStep, ~BeginStep,
           ~\E i \in Instance, now \in Observed : StopSchedulerInstance(i, now),
           ~\E i \in Instance, g \in 1..MaxGeneration, now \in Observed :
                HeartbeatSchedulerClaims(i, g, now),
           ~\E now \in Observed : RecoverSchedulerClaims(now),
           ~EmergencyStop,
           ~\E c \in Claim : FinishRun(c),
           ~\E c \in Claim : RecordProcessOutcome(c),
           ~\E now \in Observed : RecoverExpiredLeases(now)
    PROVE  IdleStep
<1>1. leases \in [Run -> LeaseRow]
  BY DEF TypeOK
<1>2. CASE UNCHANGED <<claims, locks, runs, leases>>
  BY <1>2 DEF IdleStep
<1>3. CASE \E r \in Run, s \in Supervisor, now \in Observed : ApplyRunCheckpoint(r, s, now)
  <2>1. PICK r \in Run, s \in Supervisor, now \in Observed : ApplyRunCheckpoint(r, s, now)
    BY <1>3
  <2>2. leases' = [leases EXCEPT ![r].expires = now + LeaseTtl]
    BY <2>1 DEF ApplyRunCheckpoint
  <2>3. ASSUME NEW q \in Run PROVE leases'[q].held = leases[q].held
    <3>1. leases[q] \in LeaseRow
      BY <1>1
    <3> QED
      BY <1>1, <2>2, <3>1 DEF LeaseRow
  <2> QED
    BY <2>1, <2>3 DEF ApplyRunCheckpoint, IdleStep
<1>4. \/ UNCHANGED <<claims, locks, runs, leases>>
      \/ \E r \in Run, s \in Supervisor, now \in Observed : ApplyRunCheckpoint(r, s, now)
  <2>1. CASE Tick \/ GraphNext \/ UNCHANGED vars
    BY <2>1 DEF Tick, GraphNext, ReadTaskToEdit, AddDependency, AbandonEdit,
        CompleteReview, ungraphed, runVars, vars
  <2>2. CASE SchedulerNext
    BY <2>2 DEF SchedulerNext, ClaimStep, RegisterSchedulerInstance,
        AcquireSchedulerLeader, HeartbeatSchedulerLeader, RouteTask, SetTaskRoutePin,
        SetPauseNewWork, ResumeOperations, unscheduled
  <2>3. CASE RunNext
    BY <2>3 DEF RunNext, BeginStep, PrepareClaim, WorktreeFailed, AgentExited,
        CreateVerifierRun, FinishVerifierRun, CloseVerification, ApiRunFailed,
        WorkerDies, EvaluateCheckpoint, OperatorCheckpointRefused,
        RequestRunCancellation, runVars
  <2> QED
    BY <2>1, <2>2, <2>3 DEF Next
<1> QED
  BY <1>2, <1>3, <1>4

LEMMA StepForms ==
    ASSUME TypeOK, LockInv, [Next]_vars
    PROVE  \/ ClaimStep
           \/ BeginStep
           \/ \E gone : EndStep(gone)
           \/ \E ended : ReleaseStep(ended)
           \/ IdleStep
BY EndSteps, ReleaseSteps, IdleSteps DEF LockInv

-----------------------------------------------------------------------------
(* What the steps do to the holders and to their keys. *)

\* The claims in "leaving" stop holding and lose their keys; the others keep
\* what they have.
Loses(leaving) ==
    /\ leaving \subseteq {c \in Claim : Holding(c)}
    /\ \A c \in Claim : Holding(c)' <=> Holding(c) /\ c \notin leaving
    /\ \A c \in Claim : KeysOf(c)' = IF c \in leaving THEN {} ELSE KeysOf(c)
    /\ \A c \in Claim : claims'[c].task = claims[c].task
    /\ \A c \in Claim : claims'[c].status = "unused" <=> claims[c].status = "unused"

\* Claim c, made in the step that ends those in "leaving", takes its keys.
Gains(leaving, c, t, slot) ==
    /\ leaving \subseteq {d \in Claim : Holding(d)}
    /\ claims[c].status = "unused"
    /\ Holding(c)'
    /\ claims'[c].task = t
    /\ claims'[c].status # "unused"
    /\ \A q \in PoolsOf[t] : slot[q] < Limit[q]
    /\ KeysOf(c)' = KeysFor(t, slot)
    /\ \A d \in Claim \ {c} :
            /\ Holding(d)' <=> Holding(d) /\ d \notin leaving
            /\ KeysOf(d)' = IF d \in leaving THEN {} ELSE KeysOf(d)
            /\ claims'[d].task = claims[d].task
            /\ claims'[d].status = "unused" <=> claims[d].status = "unused"
            /\ KeysFor(t, slot) \cap KeysOf(d)' = {}

LEMMA WithoutKeys ==
    ASSUME NEW gone, locks' = LocksWithout(gone)
    PROVE  \A c \in Claim : KeysOf(c)' = IF c \in gone THEN {} ELSE KeysOf(c)
<1>1. ASSUME NEW c \in Claim, c \in gone PROVE KeysOf(c)' = {}
  BY <1>1 DEF KeysOf, LocksWithout
<1>2. ASSUME NEW c \in Claim, c \notin gone PROVE KeysOf(c)' = KeysOf(c)
  <2>1. {m \in locks' : m.claim = c} = {m \in locks : m.claim = c}
    BY <1>2 DEF LocksWithout
  <2> QED
    BY <2>1 DEF KeysOf
<1> QED
  BY <1>1, <1>2

LEMMA EndLoses ==
    ASSUME NEW gone, EndStep(gone)
    PROVE  Loses(gone)
<1>1. ASSUME NEW c \in Claim
      PROVE  /\ Holding(c)' <=> Holding(c) /\ c \notin gone
             /\ claims'[c].status = "unused" <=> claims[c].status = "unused"
  <2>1. CASE c \in gone
    BY <2>1 DEF EndStep, Holding, Active
  <2>2. CASE c \notin gone
    BY <2>2 DEF EndStep, SameLink, Holding
  <2> QED
    BY <2>1, <2>2
<1>2. \A c \in Claim : KeysOf(c)' = IF c \in gone THEN {} ELSE KeysOf(c)
  BY WithoutKeys DEF EndStep
<1>3. gone \subseteq {c \in Claim : Holding(c)}
  BY DEF EndStep, Active, Holding
<1> QED
  BY <1>1, <1>2, <1>3 DEF Loses, EndStep, SameLink

LEMMA ReleaseLoses ==
    ASSUME TypeOK, LockInv, NEW ended, ReleaseStep(ended)
    PROVE  \E leaving : Loses(leaving)
<1> DEFINE leaving == {c \in Claim : Holding(c) /\ claims[c].run \in ended}
<1>1. UNCHANGED claims /\ ended \subseteq Run
  BY DEF ReleaseStep
<1>2. ASSUME NEW c \in Claim
      PROVE  Holding(c)' <=> Holding(c) /\ c \notin leaving
  <2>1. CASE claims[c].status = "consumed"
    <3>1. claims[c].run \in Run
      BY <2>1 DEF LockInv, ClaimsLinked
    <3>2. leases'[claims[c].run] = IF claims[c].run \in ended THEN NoLease
                                                              ELSE leases[claims[c].run]
      BY <3>1 DEF ReleaseStep, ReleaseRuns
    <3> QED
      BY <1>1, <2>1, <3>2 DEF Holding, NoLease
  <2>2. CASE claims[c].status # "consumed"
    <3>1. claims[c].run = None /\ None \notin Run
      BY <2>2, IdentityAssumption DEF LockInv, ClaimsLinked
    <3> QED
      BY <1>1, <2>2, <3>1 DEF Holding
  <2> QED
    BY <2>1, <2>2
<1>3. ASSUME NEW c \in Claim
      PROVE  KeysOf(c)' = IF c \in leaving THEN {} ELSE KeysOf(c)
  <2>1. KeysOf(c)' = IF claims[c].run \in ended THEN {} ELSE KeysOf(c)
    BY WithoutKeys DEF ReleaseStep, ReleaseRuns
  <2>2. ~Holding(c) => KeysOf(c) = {}
    BY DEF LockInv, LocksMatchHolders
  <2> QED
    BY <2>1, <2>2
<1>4. Loses(leaving)
  BY <1>1, <1>2, <1>3 DEF Loses
<1> QED
  BY <1>4

LEMMA IdleLoses ==
    ASSUME LockInv, IdleStep
    PROVE  Loses({})
<1>1. ASSUME NEW c \in Claim PROVE Holding(c)' <=> Holding(c)
  <2>1. claims[c].status = "consumed" => claims[c].run \in Run
    BY DEF LockInv, ClaimsLinked
  <2> QED
    BY <2>1 DEF IdleStep, Holding
<1>2. \A c \in Claim : KeysOf(c)' = KeysOf(c)
  BY DEF IdleStep, KeysOf
<1> QED
  BY <1>1, <1>2 DEF IdleStep, Loses

LEMMA BeginFacts ==
    ASSUME TypeOK, LockInv, NEW c \in Claim, NEW r \in Run, NEW now,
           BeginClaimedRun(c, r, now)
    PROVE  /\ claims[c].status = "active"
           /\ runs[r].status = "unused"
           /\ claims'[c].status = "consumed" /\ claims'[c].run = r
           /\ claims'[c].task = claims[c].task
           /\ \A d \in Claim \ {c} : claims'[d] = claims[d]
           /\ \A d \in Claim \ {c} : claims[d].status = "consumed" => claims[d].run # r
           /\ leases'[r].held /\ runs'[r].status # "unused"
           /\ \A q \in Run \ {r} : leases'[q] = leases[q] /\ runs'[q] = runs[q]
           /\ locks' = locks
           /\ worker' = [worker EXCEPT ![c] = "working"]
<1>1. claims[c].status = "active" /\ runs[r].status = "unused" /\ locks' = locks
  BY DEF BeginClaimedRun, Startable
<1>2. /\ claims'[c].status = "consumed" /\ claims'[c].run = r
      /\ claims'[c].task = claims[c].task
      /\ \A d \in Claim \ {c} : claims'[d] = claims[d]
  BY BeginKeeps DEF Kept
<1>3. \A d \in Claim : claims[d].status = "consumed" => claims[d].run # r
  BY <1>1 DEF LockInv, ClaimsLinked
<1>4. /\ runs \in [Run -> RunRow] /\ leases \in [Run -> LeaseRow]
      /\ runs' = [runs EXCEPT ![r] = [status |-> "running", task |-> claims[c].task]]
      /\ leases' = [leases EXCEPT ![r] = [held |-> TRUE, expires |-> now + LeaseTtl]]
  BY DEF BeginClaimedRun, TypeOK
<1>5. leases'[r].held /\ runs'[r].status # "unused"
  BY <1>4
<1>6. \A q \in Run \ {r} : leases'[q] = leases[q] /\ runs'[q] = runs[q]
  BY <1>4
<1>7. worker' = [worker EXCEPT ![c] = "working"]
  BY DEF BeginClaimedRun, Goes
<1> QED
  BY <1>1, <1>2, <1>3, <1>5, <1>6, <1>7

LEMMA BeginLoses ==
    ASSUME TypeOK, LockInv, BeginStep
    PROVE  Loses({})
<1>1. PICK c \in Claim, r \in Run, now \in Observed : BeginClaimedRun(c, r, now)
  BY DEF BeginStep
<1>2. ASSUME NEW d \in Claim
      PROVE  /\ Holding(d)' <=> Holding(d)
             /\ claims'[d].task = claims[d].task
             /\ claims'[d].status = "unused" <=> claims[d].status = "unused"
  <2>1. CASE d = c
    BY <1>1, <2>1, BeginFacts DEF Holding
  <2>2. CASE d # c
    <3>1. claims'[d] = claims[d]
      BY <1>1, <2>2, BeginFacts
    <3>2. claims[d].status = "consumed" => claims[d].run \in Run \ {r}
      BY <1>1, <2>2, BeginFacts DEF LockInv, ClaimsLinked
    <3>3. claims[d].status = "consumed" => leases'[claims[d].run] = leases[claims[d].run]
      BY <1>1, <3>2, BeginFacts
    <3> QED
      BY <3>1, <3>3 DEF Holding
  <2> QED
    BY <2>1, <2>2
<1>3. locks' = locks
  BY <1>1, BeginFacts
<1>4. \A d \in Claim : KeysOf(d)' = KeysOf(d)
  BY <1>3 DEF KeysOf
<1> QED
  BY <1>2, <1>4 DEF Loses

LEMMA ClaimFacts ==
    ASSUME TypeOK, NEW i \in Instance, NEW g \in 1..MaxGeneration, NEW c \in Claim,
           NEW now, ClaimTask(i, g, c, now)
    PROVE  /\ claims[c].status = "unused"
           /\ planned[i].task \in Task
           /\ claims'[c].status = "active"
           /\ claims'[c].task = planned[i].task /\ claims'[c].run = None
           /\ \A d \in Claim \ {c} :
                /\ SameLink(d)
                /\ d \in ExpiredAt(now) => claims'[d].status = "expired"
                /\ d \notin ExpiredAt(now) => claims'[d] = claims[d]
           /\ UNCHANGED <<runs, leases, worker>>
<1> DEFINE gone == ExpiredAt(now)
           marked == ClaimsMarked(gone, "expired")
           row == [status |-> "active", task |-> planned[i].task, owner |-> i,
                   generation |-> g, expires |-> now + ClaimTtl, run |-> None]
<1>1. /\ claims' = [marked EXCEPT ![c] = row] /\ claims[c].status = "unused"
      /\ planned[i].task \in Task
  BY DEF ClaimTask
<1>2. marked \in [Claim -> ClaimRow]
  BY ClaimsMarkedType DEF ClaimStatus
<1>3. claims'[c] = row /\ \A d \in Claim \ {c} : claims'[d] = marked[d]
  <2> HIDE DEF marked, row
  <2> QED
    BY <1>1, <1>2
<1>4. gone \subseteq Active
  BY DEF ExpiredAt
<1>5. ASSUME NEW d \in Claim \ {c}
      PROVE  /\ SameLink(d)
             /\ d \in ExpiredAt(now) => claims'[d].status = "expired"
             /\ d \notin ExpiredAt(now) => claims'[d] = claims[d]
  BY <1>3, <1>4, MarkedEnds DEF SameLink
<1>6. UNCHANGED <<runs, leases, worker>>
  BY DEF ClaimTask, unscheduled, workerVars
<1> QED
  BY <1>1, <1>3, <1>5, <1>6

LEMMA ClaimGains ==
    ASSUME TypeOK, LockInv, NEW i \in Instance, NEW g \in 1..MaxGeneration,
           NEW c \in Claim, NEW now, ClaimTask(i, g, c, now)
    PROVE  \E slot \in SlotChoice(planned[i].task) : \E leaving :
                Gains(leaving, c, planned[i].task, slot)
<1> DEFINE t == planned[i].task
           gone == ExpiredAt(now)
           held == LocksWithout(gone)
<1>1. PICK slot \in SlotChoice(t) :
            /\ \A q \in PoolsOf[t] : LowestFree(q, slot[q], held)
            /\ Unlocked(t, slot, held)
            /\ locks' = held \cup {[key |-> k, claim |-> c] : k \in KeysFor(t, slot)}
  BY DEF ClaimTask
<1>2. \A q \in PoolsOf[t] : slot[q] < Limit[q]
  <2>1. SUFFICES ASSUME NEW q \in PoolsOf[t] PROVE slot[q] < Limit[q]
    OBVIOUS
  <2>2. slot[q] \in FreeSlots(q, held)
    BY <1>1 DEF LowestFree
  <2>3. slot[q] \in 0..(Limit[q] - 1)
    BY <2>2 DEF FreeSlots
  <2>4. Limit[q] \in Nat
    BY ClaimFacts, TopologyAssumption
  <2> QED
    BY <2>3, <2>4
<1>3. gone \subseteq {d \in Claim : Holding(d)}
  BY DEF ExpiredAt, Active, Holding
<1>4. KeysOf(c)' = KeysFor(t, slot)
  <2>1. ~Holding(c)
    BY ClaimFacts DEF Holding
  <2>2. KeysOf(c) = {}
    BY <2>1 DEF LockInv, LocksMatchHolders
  <2>3. \A l \in held : l.claim # c
    BY <2>2 DEF KeysOf, LocksWithout
  <2>4. {m \in locks' : m.claim = c} = {[key |-> k, claim |-> c] : k \in KeysFor(t, slot)}
    BY <1>1, <2>3
  <2>5. ASSUME NEW keys
        PROVE  {l.key : l \in {[key |-> k, claim |-> c] : k \in keys}} = keys
    <3>1. \A k \in keys : [key |-> k, claim |-> c].key = k
      OBVIOUS
    <3>2. \A l \in {[key |-> k, claim |-> c] : k \in keys} : l.key \in keys
      OBVIOUS
    <3> QED
      BY <3>1, <3>2
  <2> QED
    BY <2>4, <2>5 DEF KeysOf
<1>5. ASSUME NEW d \in Claim \ {c}
      PROVE  KeysOf(d)' = IF d \in gone THEN {} ELSE KeysOf(d)
  <2>1. {m \in locks' : m.claim = d} = {m \in held : m.claim = d}
    BY <1>1
  <2>2. {m \in held : m.claim = d} = IF d \in gone THEN {} ELSE {m \in locks : m.claim = d}
    BY DEF LocksWithout
  <2> QED
    BY <2>1, <2>2 DEF KeysOf
<1>6. ASSUME NEW d \in Claim \ {c}
      PROVE  KeysFor(t, slot) \cap KeysOf(d)' = {}
  <2>1. \A l \in held : l.key \notin KeysFor(t, slot)
    BY <1>1 DEF Unlocked
  <2>2. \A m \in locks' : m.claim = d => m \in held
    BY <1>1
  <2> QED
    BY <2>1, <2>2 DEF KeysOf
<1>7. ASSUME NEW d \in Claim \ {c}
      PROVE  /\ Holding(d)' <=> Holding(d) /\ d \notin gone
             /\ claims'[d].task = claims[d].task
             /\ claims'[d].status = "unused" <=> claims[d].status = "unused"
  <2>1. CASE d \in gone
    BY <2>1, ClaimFacts DEF Holding, SameLink, ExpiredAt, Active
  <2>2. CASE d \notin gone
    BY <2>2, ClaimFacts DEF Holding
  <2> QED
    BY <2>1, <2>2
<1>8. Holding(c)'
  BY ClaimFacts DEF Holding
<1>9. Gains(gone, c, t, slot)
  BY <1>2, <1>3, <1>4, <1>5, <1>6, <1>7, <1>8, ClaimFacts DEF Gains
<1> HIDE DEF gone, held
<1> QED
  BY <1>9

LEMMA LosesMatches ==
    ASSUME LocksMatchHolders, NEW leaving, Loses(leaving)
    PROVE  LocksMatchHolders'
<1> SUFFICES ASSUME NEW c \in Claim
             PROVE  (IF Holding(c)
                     THEN \E slot \in SlotChoice(claims[c].task) :
                            /\ \A q \in PoolsOf[claims[c].task] : slot[q] < Limit[q]
                            /\ KeysOf(c) = KeysFor(claims[c].task, slot)
                     ELSE KeysOf(c) = {})'
  BY DEF LocksMatchHolders
<1>1. /\ Holding(c)' <=> Holding(c) /\ c \notin leaving
      /\ KeysOf(c)' = IF c \in leaving THEN {} ELSE KeysOf(c)
      /\ claims'[c].task = claims[c].task
  BY DEF Loses
<1>2. CASE Holding(c) /\ c \notin leaving
  BY <1>1, <1>2 DEF LocksMatchHolders
<1>3. CASE ~(Holding(c) /\ c \notin leaving)
  BY <1>1, <1>3 DEF LocksMatchHolders
<1> QED
  BY <1>2, <1>3

LEMMA GainsMatches ==
    ASSUME LocksMatchHolders, NEW leaving, NEW c \in Claim, NEW t,
           NEW slot \in SlotChoice(t), Gains(leaving, c, t, slot)
    PROVE  LocksMatchHolders'
<1> SUFFICES ASSUME NEW d \in Claim
             PROVE  (IF Holding(d)
                     THEN \E choice \in SlotChoice(claims[d].task) :
                            /\ \A q \in PoolsOf[claims[d].task] : choice[q] < Limit[q]
                            /\ KeysOf(d) = KeysFor(claims[d].task, choice)
                     ELSE KeysOf(d) = {})'
  BY DEF LocksMatchHolders
<1>1. CASE d = c
  BY <1>1 DEF Gains
<1>2. CASE d # c
  <2>1. /\ Holding(d)' <=> Holding(d) /\ d \notin leaving
        /\ KeysOf(d)' = IF d \in leaving THEN {} ELSE KeysOf(d)
        /\ claims'[d].task = claims[d].task
    BY <1>2 DEF Gains
  <2>2. CASE Holding(d) /\ d \notin leaving
    BY <2>1, <2>2 DEF LocksMatchHolders
  <2>3. CASE ~(Holding(d) /\ d \notin leaving)
    BY <2>1, <2>3 DEF LocksMatchHolders
  <2> QED
    BY <2>2, <2>3
<1> QED
  BY <1>1, <1>2

\* Every step either takes keys from some claims or gives one claim its keys.
LEMMA KeysChange ==
    ASSUME TypeOK, LockInv, [Next]_vars
    PROVE  \/ \E leaving : Loses(leaving)
           \/ \E c \in Claim, t \in Task : \E slot \in SlotChoice(t) : \E leaving :
                    Gains(leaving, c, t, slot)
<1>1. CASE ClaimStep
  <2>1. PICK i \in Instance, g \in 1..MaxGeneration, c \in Claim, now \in Observed :
            ClaimTask(i, g, c, now)
    BY <1>1 DEF ClaimStep
  <2>2. planned[i].task \in Task
    BY <2>1, ClaimFacts
  <2> QED
    BY <2>1, <2>2, ClaimGains
<1> QED
  BY <1>1, StepForms, EndLoses, ReleaseLoses, IdleLoses, BeginLoses

LEMMA MatchStep ==
    ASSUME TypeOK, LockInv, [Next]_vars
    PROVE  LocksMatchHolders'
BY KeysChange, LosesMatches, GainsMatches DEF LockInv

LEMMA LinksKept ==
    ASSUME TypeOK, LockInv, [Next]_vars, ~BeginStep
    PROVE  ClaimsLinked' /\ LeasesLinked' /\ WorkersLinked'
<1>1. ASSUME \A c \in Claim : /\ claims'[c].run = claims[c].run
                              /\ claims'[c].status # "unused" => claims'[c].task \in Task
                              /\ claims'[c].status = "consumed"
                                    <=> claims[c].status = "consumed",
             \A r \in Run : runs'[r].status = "unused" <=> runs[r].status = "unused"
      PROVE  ClaimsLinked'
  BY <1>1 DEF LockInv, ClaimsLinked
<1>2. ASSUME \A c \in Claim : claims'[c].status = "consumed"
                                    <=> claims[c].status = "consumed"
      PROVE  WorkersLinked'
  BY <1>2, WorkersKept DEF LockInv, WorkersLinked
<1>3. ASSUME \A r \in Run : /\ runs'[r].status = "unused" <=> runs[r].status = "unused"
                            /\ leases'[r].held => leases[r].held
      PROVE  LeasesLinked'
  BY <1>3 DEF LockInv, LeasesLinked
<1>4. CASE ClaimStep
  <2>1. PICK i \in Instance, g \in 1..MaxGeneration, c \in Claim, now \in Observed :
            ClaimTask(i, g, c, now)
    BY <1>4 DEF ClaimStep
  <2>2. ASSUME NEW d \in Claim
        PROVE  /\ claims'[d].run = claims[d].run
               /\ claims'[d].status # "unused" => claims'[d].task \in Task
               /\ claims'[d].status = "consumed" <=> claims[d].status = "consumed"
    <3>1. CASE d = c
      BY <2>1, <3>1, ClaimFacts DEF LockInv, ClaimsLinked
    <3>2. CASE d # c
      BY <2>1, <3>2, ClaimFacts DEF SameLink, ExpiredAt, Active, LockInv, ClaimsLinked
    <3> QED
      BY <3>1, <3>2
  <2>3. UNCHANGED <<runs, leases>>
    BY <2>1, ClaimFacts
  <2> QED
    BY <1>1, <1>2, <1>3, <2>2, <2>3
<1>5. CASE \E gone : EndStep(gone)
  <2>1. PICK gone : EndStep(gone)
    BY <1>5
  <2>2. ASSUME NEW c \in Claim
        PROVE  /\ claims'[c].run = claims[c].run
               /\ claims'[c].status # "unused" => claims'[c].task \in Task
               /\ claims'[c].status = "consumed" <=> claims[c].status = "consumed"
    BY <2>1 DEF EndStep, SameLink, Active, LockInv, ClaimsLinked
  <2> QED
    BY <1>1, <1>2, <1>3, <2>1, <2>2 DEF EndStep
<1>6. CASE \E ended : ReleaseStep(ended)
  <2>1. PICK ended : ReleaseStep(ended)
    BY <1>6
  <2>2. \A r \in Run : leases'[r].held => leases[r].held
    BY <2>1 DEF ReleaseStep, ReleaseRuns, NoLease
  <2> QED
    BY <1>1, <1>2, <1>3, <2>1, <2>2 DEF ReleaseStep, LockInv, ClaimsLinked
<1>7. CASE IdleStep
  BY <1>1, <1>2, <1>3, <1>7 DEF IdleStep, LockInv, ClaimsLinked
<1> QED
  BY <1>4, <1>5, <1>6, <1>7, StepForms

LEMMA LinksBegun ==
    ASSUME TypeOK, LockInv, BeginStep
    PROVE  ClaimsLinked' /\ LeasesLinked' /\ WorkersLinked'
<1>1. PICK c \in Claim, r \in Run, now \in Observed : BeginClaimedRun(c, r, now)
  BY DEF BeginStep
<1>2. ClaimsLinked'
  <2>1. ASSUME NEW d \in Claim
        PROVE  /\ claims'[d].status # "unused" => claims'[d].task \in Task
               /\ claims'[d].status # "consumed" => claims'[d].run = None
               /\ claims'[d].status = "consumed" =>
                        claims'[d].run \in Run /\ runs'[claims'[d].run].status # "unused"
    BY <1>1, BeginFacts DEF LockInv, ClaimsLinked
  <2>2. ASSUME NEW d \in Claim, NEW e \in Claim,
               claims'[d].status = "consumed", claims'[e].status = "consumed",
               claims'[d].run = claims'[e].run
        PROVE  d = e
    BY <1>1, <2>2, BeginFacts DEF LockInv, ClaimsLinked
  <2> QED
    BY <2>1, <2>2 DEF ClaimsLinked
<1>3. LeasesLinked'
  BY <1>1, BeginFacts DEF LockInv, LeasesLinked
<1>4. WorkersLinked'
  <2>1. worker \in [Claim -> WorkerState]
    BY DEF TypeOK
  <2> QED
    BY <1>1, <2>1, BeginFacts DEF LockInv, WorkersLinked
<1> QED
  BY <1>2, <1>3, <1>4

LEMMA LockInit == Init => LockInv
<1> SUFFICES ASSUME Init PROVE LockInv
  OBVIOUS
<1>1. ClaimsLinked /\ WorkersLinked /\ LeasesLinked
  BY DEF Init, NoClaim, NoRun, NoLease, ClaimsLinked, WorkersLinked, LeasesLinked, Unstarted
<1>2. LocksMatchHolders
  BY DEF Init, NoClaim, LocksMatchHolders, Holding, KeysOf
<1> QED
  BY <1>1, <1>2 DEF LockInv

LEMMA LockStep == TypeOK /\ LockInv /\ [Next]_vars => LockInv'
BY MatchStep, LinksKept, LinksBegun DEF LockInv

LEMMA LockInvariant == Spec => []LockInv
BY LockInit, LockStep, TypeCorrect, PTL DEF Spec

\* Locks follow their claim through its whole life: from the claim to the end
\* of its run it holds its project and one numbered slot of each pool, and
\* from the step that ends either it holds nothing, whoever ends it
\* (claim_task_for_scheduler_inner, expire_scheduler_claims_tx, finish_run,
\* record_process_outcome, recover_expired_leases).
THEOREM LocksFollowClaims == Spec => []LocksMatchHolders
<1>1. LockInv => LocksMatchHolders
  BY DEF LockInv
<1> QED
  BY <1>1, LockInvariant, PTL

-----------------------------------------------------------------------------
(* Capacity.  Holders of a pool hold distinct slots below its limit, and     *)
(* holders of a project hold the same key.                                   *)

LEMMA HolderOfSlot ==
    ASSUME TypeOK, LockInv, NEW q \in Pool, NEW c \in Claim, Holding(c),
           q \in PoolsOf[claims[c].task]
    PROVE  \E k \in 0..(Limit[q] - 1) : SlotKey(q, k) \in KeysOf(c)
<1> DEFINE t == claims[c].task
<1>1. t \in Task
  BY DEF LockInv, ClaimsLinked, Holding
<1>2. PICK slot \in SlotChoice(t) : /\ \A p \in PoolsOf[t] : slot[p] < Limit[p]
                                    /\ KeysOf(c) = KeysFor(t, slot)
  BY DEF LockInv, LocksMatchHolders
<1>3. \A p \in PoolsOf[t] : Limit[p] \in Nat
  BY <1>1, TopologyAssumption
<1>4. slot[q] \in Nat
  <2>1. slot[q] \in UNION {0..Limit[p] : p \in PoolsOf[t]}
    BY DEF SlotChoice
  <2> QED
    BY <1>3, <2>1
<1>5. slot[q] \in 0..(Limit[q] - 1)
  BY <1>2, <1>3, <1>4
<1>6. SlotKey(q, slot[q]) \in KeysOf(c)
  BY <1>2 DEF KeysFor
<1> QED
  BY <1>5, <1>6

LEMMA KeyOfOne ==
    ASSUME LocksExclusive, NEW key, NEW c \in Claim, NEW d \in Claim,
           key \in KeysOf(c), key \in KeysOf(d)
    PROVE  c = d
BY DEF LocksExclusive, KeysOf

LEMMA SlotsBoundHolders ==
    ASSUME TypeOK, LockInv, LocksExclusive, NEW q \in Pool
    PROVE  Cardinality({c \in Claim : Holding(c) /\ q \in PoolsOf[claims[c].task]})
                <= Limit[q]
<1> DEFINE holders == {c \in Claim : Holding(c) /\ q \in PoolsOf[claims[c].task]}
           slots == 0..(Limit[q] - 1)
           f == [c \in holders |-> CHOOSE k \in slots : SlotKey(q, k) \in KeysOf(c)]
<1>1. Limit[q] \in Nat \ {0}
  BY TopologyAssumption
<1>2. ASSUME NEW c \in holders
      PROVE  f[c] \in slots /\ SlotKey(q, f[c]) \in KeysOf(c)
  <2>1. \E k \in slots : SlotKey(q, k) \in KeysOf(c)
    BY HolderOfSlot
  <2>2. f[c] = CHOOSE k \in slots : SlotKey(q, k) \in KeysOf(c)
    OBVIOUS
  <2> QED
    BY <2>1, <2>2
<1>3. ASSUME NEW c \in holders, NEW d \in holders, f[c] = f[d]
      PROVE  c = d
  BY <1>2, <1>3, KeyOfOne
<1>4. f \in Injection(holders, slots)
  <2>1. f \in [holders -> slots]
    BY <1>2
  <2>2. DOMAIN f = holders
    OBVIOUS
  <2> HIDE DEF f, holders, slots
  <2> QED
    BY <1>3, <2>1, <2>2 DEF Injection, IsInjective
<1>5. IsFiniteSet(slots) /\ Cardinality(slots) = Limit[q]
  <2> DEFINE last == Limit[q] - 1
  <2>1. last \in Int /\ last >= 0
    BY <1>1
  <2>2. /\ IsFiniteSet(0..last)
        /\ Cardinality(0..last) = IF 0 > last THEN 0 ELSE last - 0 + 1
    <3> HIDE DEF last
    <3> QED
      BY <2>1, FS_Interval
  <2> QED
    BY <1>1, <2>1, <2>2
<1>6. Cardinality(holders) <= Cardinality(slots)
  <2> HIDE DEF f, holders, slots
  <2> QED
    BY <1>4, <1>5, FS_Injection
<1> QED
  BY <1>5, <1>6

LEMMA ProjectHoldsOne ==
    ASSUME TypeOK, LockInv, LocksExclusive, NEW p \in Project
    PROVE  Cardinality({c \in Claim : Holding(c) /\ ProjectOf[claims[c].task] = p}) <= 1
<1> DEFINE holders == {c \in Claim : Holding(c) /\ ProjectOf[claims[c].task] = p}
<1>1. ASSUME NEW c \in holders PROVE ProjectKey(p) \in KeysOf(c)
  <2>1. PICK slot : KeysOf(c) = KeysFor(claims[c].task, slot)
    BY DEF LockInv, LocksMatchHolders
  <2> QED
    BY <2>1 DEF KeysFor
<1>2. \A c, d \in holders : c = d
  BY <1>1, KeyOfOne
<1>3. CASE holders = {}
  BY <1>3, FS_EmptySet
<1>4. CASE holders # {}
  <2>1. PICK c \in holders : TRUE
    BY <1>4
  <2>2. holders = {c}
    BY <1>2, <2>1
  <2>3. Cardinality({c}) = 1
    BY FS_Singleton
  <2> QED
    BY <2>2, <2>3
<1> QED
  BY <1>3, <1>4

\* No pool ever has more holders than slots and no project more than one,
\* counting claims and leased runs, for any limits, any topology and any
\* number of claims (acquire_capacity_slot_tx, claim_task_for_scheduler_inner).
THEOREM CapacityIsRespected == Spec => []CapacityRespected
<1>1. TypeOK /\ LockInv /\ LocksExclusive => CapacityRespected
  BY SlotsBoundHolders, ProjectHoldsOne DEF CapacityRespected
<1> QED
  BY <1>1, TypeCorrect, LockInvariant, LocksAreExclusive, PTL

-----------------------------------------------------------------------------
(* The abstract lock service. *)

LEMMA HoldersHaveKeys ==
    ASSUME LockInv, NEW c \in Claim, Holding(c)
    PROVE  Keys[c] # {}
<1>1. PICK slot : KeysOf(c) = KeysFor(claims[c].task, slot)
  BY DEF LockInv, LocksMatchHolders
<1> QED
  BY <1>1 DEF Keys, KeysFor

LEMMA LosesReleases ==
    ASSUME LockInv, NEW leaving, Loses(leaving)
    PROVE  Service!Next
<1>1. leaving \in SUBSET {c \in Claim : Keys[c] # {}}
  BY HoldersHaveKeys DEF Loses
<1>2. Keys' = Service!After(leaving)
  <2>1. \A c \in Claim : KeysOf(c)' = IF c \in leaving THEN {} ELSE Keys[c]
    BY DEF Loses, Keys
  <2> QED
    BY <2>1 DEF Keys, Service!After
<1>3. Spent' = Spent \cup leaving
  <2>1. ASSUME NEW c \in Claim
        PROVE  c \in Spent' <=> c \in Spent \cup leaving
    BY DEF Loses, Spent, Holding
  <2>2. Spent' \subseteq Claim /\ Spent \cup leaving \subseteq Claim
    BY DEF Loses, Spent
  <2> QED
    BY <2>1, <2>2
<1>4. Service!Release(leaving)
  BY <1>2, <1>3 DEF Service!Release
<1> QED
  BY <1>1, <1>4 DEF Service!Next

LEMMA GainsAcquires ==
    ASSUME LockInv, NEW leaving, NEW c \in Claim, NEW t \in Task,
           NEW slot \in SlotChoice(t), Gains(leaving, c, t, slot)
    PROVE  Service!Next
<1>1. leaving \in SUBSET {d \in Claim : Keys[d] # {}}
  BY HoldersHaveKeys DEF Gains
<1>2. claims[c].status = "unused" /\ ~Holding(c)
  BY DEF Gains, Holding
<1>3. c \notin Spent \cup leaving
  BY <1>2 DEF Spent, Gains
<1>4. Keys[c] = {}
  BY <1>2 DEF Keys, LockInv, LocksMatchHolders
<1>5. Keys'[c] = KeysFor(t, slot)
  BY DEF Gains, Keys
<1>6. Keys'[c] # {} /\ Keys'[c] \subseteq LockKey
  BY <1>5, KeysForType DEF KeysFor
<1>7. ASSUME NEW d \in Claim \ {c}
      PROVE  Keys'[d] = Service!After(leaving)[d]
  <2>1. KeysOf(d)' = IF d \in leaving THEN {} ELSE KeysOf(d)
    BY DEF Gains
  <2> QED
    BY <2>1 DEF Keys, Service!After
<1>8. ASSUME NEW d \in Claim
      PROVE  Keys'[c] \cap Service!After(leaving)[d] = {}
  <2>1. CASE d = c
    BY <1>3, <1>4, <2>1 DEF Service!After
  <2>2. CASE d # c
    <3>1. KeysFor(t, slot) \cap KeysOf(d)' = {}
      BY <2>2 DEF Gains
    <3>2. Keys'[d] = KeysOf(d)'
      BY DEF Keys
    <3> QED
      BY <1>5, <1>7, <2>2, <3>1, <3>2
  <2> QED
    BY <2>1, <2>2
<1>9. Keys' = [Service!After(leaving) EXCEPT ![c] = Keys'[c]]
  <2>1. DOMAIN Keys' = Claim /\ DOMAIN Service!After(leaving) = Claim
    BY DEF Keys, Service!After
  <2>2. Keys' = [d \in Claim |-> Keys'[d]]
    BY DEF Keys
  <2> QED
    BY <1>7, <2>1, <2>2 DEF Service!After
<1>10. Spent' = Spent \cup leaving
  <2>1. ASSUME NEW d \in Claim
        PROVE  d \in Spent' <=> d \in Spent \cup leaving
    <3>1. CASE d = c
      BY <1>3, <3>1 DEF Gains, Spent
    <3>2. CASE d # c
      BY <3>2 DEF Gains, Spent, Holding
    <3> QED
      BY <3>1, <3>2
  <2>2. Spent' \subseteq Claim /\ Spent \cup leaving \subseteq Claim
    BY DEF Gains, Spent
  <2> QED
    BY <2>1, <2>2
<1>11. Service!Acquire(leaving, c)
  BY <1>3, <1>4, <1>6, <1>8, <1>9, <1>10 DEF Service!Acquire
<1> QED
  BY <1>1, <1>11 DEF Service!Next

LEMMA ServiceInit == Init => Service!Init
<1> SUFFICES ASSUME Init PROVE Service!Init
  OBVIOUS
<1>1. Keys = [c \in Claim |-> {}]
  BY DEF Init, Keys, KeysOf
<1>2. Spent = {}
  BY DEF Init, Spent, NoClaim
<1> QED
  BY <1>1, <1>2 DEF Service!Init

LEMMA ServiceStep ==
    TypeOK /\ LockInv /\ [Next]_vars => Service!Next
BY KeysChange, LosesReleases, GainsAcquires

\* The database, whatever its callers do and wherever they die, implements the
\* lock service: a claim takes all its free keys in one step, once in its life,
\* and gives them all up in one step (claim_task_for_scheduler_inner,
\* expire_scheduler_claims_tx, finish_run, recover_expired_leases).
THEOREM LocksRefineService == Spec => ImplementsLockService
<1>1. Init => Service!Init
  BY ServiceInit
<1>2. TypeOK /\ LockInv /\ [Next]_vars => [Service!Next]_<<Keys, Spent>>
  BY ServiceStep
<1> QED
  BY <1>1, <1>2, TypeCorrect, LockInvariant, PTL DEF Spec, ImplementsLockService, Service!Spec

-----------------------------------------------------------------------------
(* Who goes on holding, call by call, for what is promised to holders beside *)
(* their locks: reservations.                                                *)

\* The holders outside "gone" go on holding, for the task they held for.
HoldsOn(gone) ==
    \A c \in Claim : (Holding(c) /\ c \notin gone) =>
                        Holding(c)' /\ claims'[c].task = claims[c].task

\* The claims that a marking spares.
LEMMA SparedHold ==
    ASSUME TypeOK, NEW gone \in SUBSET Active, NEW end \in {"expired", "released"},
           claims' = ClaimsMarked(gone, end), UNCHANGED leases
    PROVE  HoldsOn(gone)
BY MarkedEnds DEF Holding, HoldsOn

LEMMA ClaimHolds ==
    ASSUME TypeOK, NEW i \in Instance, NEW g, NEW c \in Claim, NEW now, ClaimTask(i, g, c, now)
    PROVE  /\ HoldsOn(ExpiredAt(now))
           /\ planned[i].task \in Task
           /\ Holding(c)' /\ claims'[c].task = planned[i].task
<1> DEFINE gone == ExpiredAt(now)
<1>1. gone \in SUBSET Active
  BY DEF ExpiredAt
<1>2. /\ planned[i].task \in Task
      /\ \A d \in Claim \ {c} : claims'[d] = ClaimsMarked(gone, "expired")[d]
      /\ claims[c].status = "unused"
      /\ claims'[c].status = "active" /\ claims'[c].task = planned[i].task
      /\ UNCHANGED leases
  BY DEF ClaimTask, unscheduled, ClaimsMarked
<1>3. ASSUME NEW d \in Claim, Holding(d), d \notin gone
      PROVE  Holding(d)' /\ claims'[d].task = claims[d].task
  <2>1. d # c
    BY <1>2, <1>3 DEF Holding
  <2> QED
    BY <1>1, <1>2, <1>3, <2>1, MarkedEnds DEF Holding
<1> QED
  BY <1>2, <1>3 DEF HoldsOn, Holding

LEMMA HeartbeatHolds ==
    ASSUME TypeOK, NEW i, NEW g, NEW now, HeartbeatSchedulerClaims(i, g, now)
    PROVE  HoldsOn(ExpiredAt(now))
<1> DEFINE gone == ExpiredAt(now)
<1>1. gone \in SUBSET Active
  BY DEF ExpiredAt
<1>2. ASSUME NEW c \in Claim, Holding(c), c \notin gone
      PROVE  Holding(c)' /\ claims'[c].task = claims[c].task
  <2>1. UNCHANGED leases /\ claims[c] \in ClaimRow
    BY DEF HeartbeatSchedulerClaims, unscheduled, TypeOK
  <2>2. \/ claims'[c] = [claims[c] EXCEPT !.expires = now + ClaimTtl]
        \/ claims'[c] = ClaimsMarked(gone, "expired")[c]
    BY DEF HeartbeatSchedulerClaims
  <2>3. /\ claims'[c].status = claims[c].status
        /\ claims'[c].run = claims[c].run
        /\ claims'[c].task = claims[c].task
    BY <1>1, <1>2, <2>1, <2>2, MarkedEnds DEF ClaimRow
  <2> QED
    BY <1>2, <2>1, <2>3 DEF Holding
<1> QED
  BY <1>2 DEF HoldsOn

LEMMA BeginHolds ==
    ASSUME TypeOK, LockInv, NEW c \in Claim, NEW r \in Run, NEW now, BeginClaimedRun(c, r, now)
    PROVE  HoldsOn({}) /\ Holding(c)'
<1>1. /\ claims' = [claims EXCEPT ![c] = [Ended(claims[c], "consumed") EXCEPT !.run = r]]
      /\ leases' = [leases EXCEPT ![r] = [held |-> TRUE, expires |-> now + LeaseTtl]]
  BY DEF BeginClaimedRun
<1>2. claims \in [Claim -> ClaimRow] /\ leases \in [Run -> LeaseRow]
  BY DEF TypeOK
<1>3. Holding(c)' /\ claims'[c].task = claims[c].task
  <2>1. /\ claims'[c].status = "consumed" /\ claims'[c].run = r
        /\ claims'[c].task = claims[c].task
    BY <1>1, <1>2 DEF Ended, ClaimRow
  <2>2. leases'[r].held
    BY <1>1, <1>2
  <2> QED
    BY <2>1, <2>2 DEF Holding
<1>4. ASSUME NEW d \in Claim \ {c}, Holding(d)
      PROVE  Holding(d)' /\ claims'[d].task = claims[d].task
  <2>1. claims'[d] = claims[d]
    BY <1>1, <1>2
  <2>2. CASE claims[d].status = "active"
    BY <2>1, <2>2 DEF Holding
  <2>3. CASE claims[d].status # "active"
    <3>1. claims[d].status = "consumed" /\ leases[claims[d].run].held
      BY <1>4, <2>3 DEF Holding
    <3>2. claims[d].run \in Run
      BY <3>1 DEF LockInv, ClaimsLinked
    <3>3. leases'[claims[d].run].held
      BY <1>1, <1>2, <3>1, <3>2
    <3> QED
      BY <2>1, <3>1, <3>3 DEF Holding
  <2> QED
    BY <2>2, <2>3
<1> QED
  BY <1>3, <1>4 DEF HoldsOn

LEMMA CheckpointHolds ==
    ASSUME TypeOK, LockInv, NEW r, NEW v, NEW now, ApplyRunCheckpoint(r, v, now)
    PROVE  HoldsOn({})
<1>1. /\ UNCHANGED claims
      /\ leases' = [leases EXCEPT ![r].expires = now + LeaseTtl]
  BY DEF ApplyRunCheckpoint
<1>2. ASSUME NEW c \in Claim, Holding(c)
      PROVE  Holding(c)'
  <2>1. CASE claims[c].status = "active"
    BY <1>1, <2>1 DEF Holding
  <2>2. CASE claims[c].status # "active"
    <3>1. claims[c].status = "consumed" /\ leases[claims[c].run].held
      BY <1>2, <2>2 DEF Holding
    <3>2. claims[c].run \in Run
      BY <3>1 DEF LockInv, ClaimsLinked
    <3>3. leases[claims[c].run] \in LeaseRow /\ leases \in [Run -> LeaseRow]
      BY <3>2 DEF TypeOK
    <3>4. leases'[claims[c].run].held
      BY <1>1, <3>1, <3>2, <3>3 DEF LeaseRow
    <3> QED
      BY <1>1, <3>1, <3>4 DEF Holding
  <2> QED
    BY <2>1, <2>2
<1> QED
  BY <1>1, <1>2 DEF HoldsOn

\* Runs end: the claims of other runs go on.
LEMMA ReleasedHold ==
    ASSUME TypeOK, LockInv, NEW ended \in SUBSET Run, ReleaseRuns(ended), UNCHANGED claims
    PROVE  HoldsOn({c \in Claim : claims[c].run \in ended})
<1>1. ASSUME NEW c \in Claim, Holding(c), claims[c].run \notin ended
      PROVE  Holding(c)'
  <2>1. CASE claims[c].status = "active"
    BY <2>1 DEF Holding
  <2>2. CASE claims[c].status # "active"
    <3>1. claims[c].status = "consumed" /\ claims[c].run \in Run
      BY <1>1, <2>2 DEF Holding, LockInv, ClaimsLinked
    <3>2. leases'[claims[c].run] = leases[claims[c].run]
      BY <1>1, <3>1 DEF ReleaseRuns
    <3> QED
      BY <1>1, <3>1, <3>2 DEF Holding
  <2> QED
    BY <2>1, <2>2
<1> QED
  BY <1>1 DEF HoldsOn

LEMMA FinishHolds ==
    ASSUME TypeOK, LockInv, NEW c \in Claim, FinishRun(c)
    PROVE  HoldsOn(ClaimsOf(claims[c].run))
<1>1. claims[c].run \in Run
  BY DEF FinishRun, Goes, Unstarted, LockInv, ClaimsLinked, WorkersLinked
<1> QED
  BY <1>1, ReleasedHold DEF FinishRun, ClaimsOf

\* A process ends a run that only its claim consumed.
LEMMA OutcomeHolds ==
    ASSUME TypeOK, LockInv, NEW c \in Claim, RecordProcessOutcome(c)
    PROVE  HoldsOn({c})
<1>1. claims[c].status = "consumed" /\ claims[c].run \in Run
  BY DEF RecordProcessOutcome, Goes, Unstarted, LockInv, ClaimsLinked, WorkersLinked
<1>2. ReleaseRuns({claims[c].run}) /\ UNCHANGED claims
  BY DEF RecordProcessOutcome
<1>3. ASSUME NEW d \in Claim, d # c PROVE claims[d].run # claims[c].run
  <2>1. CASE claims[d].status = "consumed"
    BY <1>1, <1>3, <2>1 DEF LockInv, ClaimsLinked
  <2>2. CASE claims[d].status # "consumed"
    BY <1>1, <2>2, IdentityAssumption DEF LockInv, ClaimsLinked
  <2> QED
    BY <2>1, <2>2
<1> QED
  BY <1>1, <1>2, <1>3, ReleasedHold DEF HoldsOn

LEMMA RecoveryHolds ==
    ASSUME TypeOK, LockInv, NEW now, RecoverExpiredLeases(now)
    PROVE  HoldsOn(UNION {ClaimsOf(r) : r \in ExpiredLeases(now)})
<1>1. ExpiredLeases(now) \in SUBSET Run
  BY DEF ExpiredLeases
<1>2. HoldsOn({c \in Claim : claims[c].run \in ExpiredLeases(now)})
  BY <1>1, ReleasedHold DEF RecoverExpiredLeases
<1> QED
  BY <1>2 DEF HoldsOn, ClaimsOf

LEMMA IdleHolds == ASSUME UNCHANGED <<claims, leases>> PROVE HoldsOn({})
BY DEF HoldsOn, Holding

-----------------------------------------------------------------------------
(* Work in flight: a task that was promised has its claim, one that runs has *)
(* one lease under which recovery finds it, one that waits holds nothing,    *)
(* and a lease is given up by its process or by its expiry only.             *)

-----------------------------------------------------------------------------
(* The invariant.  The three properties need each other: a run may start     *)
(* because its task is leased and so holds nothing; recovery may pause a     *)
(* task because its lease is the only one; a process that closes its run     *)
(* after its task left the flight ends no lease that the task still needs.   *)

InFlight == {"running", "verifying"}
Waiting == {"draft", "ready", "leased", "paused", "cancelled"}

\* The statuses that no call takes a task out of, once it was verified.
Settled == {"review", "failed", "completed"}

RunsLinked == \A r \in Run : runs[r].status # "unused" => runs[r].task \in Task

RunningIsLeased == \A r \in Run : runs[r].status = "running" => leases[r].held

OneLease ==
    \A r \in Run, s \in Run :
        leases[r].held /\ leases[s].held /\ runs[r].task = runs[s].task => r = s

UnderLease ==
    \A t \in Task : task[t] \in InFlight =>
        \E r \in Run : leases[r].held /\ runs[r].status = "running" /\ runs[r].task = t

ClosingIsSettled ==
    \A c \in Claim : worker[c] = "closing" => task[runs[claims[c].run].task] \in Settled

FlightInv ==
    /\ RunsLinked
    /\ RunningIsLeased
    /\ OneLease
    /\ UnderLease
    /\ ClosingIsSettled
    /\ WaitingHoldsNothing
    /\ LeasedMeansClaimed

\* What the conjuncts say of one task.
LEMMA NoLeaseWaits ==
    ASSUME WaitingHoldsNothing, NEW r \in Run, runs[r].task \in Task,
           task[runs[r].task] \in Waiting
    PROVE  ~leases[r].held
BY DEF WaitingHoldsNothing, LeasedRunsOf, Waiting

LEMMA ClosingRun ==
    ASSUME LockInv, RunsLinked, NEW c \in Claim, worker[c] \notin Unstarted
    PROVE  /\ claims[c].status = "consumed"
           /\ claims[c].run \in Run
           /\ runs[claims[c].run].task \in Task
BY DEF LockInv, ClaimsLinked, WorkersLinked, RunsLinked

LEMMA FlightInit == Init => FlightInv
<1> SUFFICES ASSUME Init PROVE FlightInv
  OBVIOUS
<1>1. /\ \A r \in Run : runs[r].status = "unused" /\ ~leases[r].held
      /\ \A t \in Task : task[t] \in {"ready", "draft"}
      /\ \A c \in Claim : worker[c] = "idle" /\ claims[c].status = "unused"
  BY DEF Init, NoRun, NoLease, NoClaim
<1>2. RunsLinked /\ RunningIsLeased /\ OneLease /\ ClosingIsSettled
  BY <1>1 DEF RunsLinked, RunningIsLeased, OneLease, ClosingIsSettled
<1>3. UnderLease
  BY <1>1 DEF UnderLease, InFlight
<1>4. WaitingHoldsNothing
  BY <1>1 DEF WaitingHoldsNothing, LeasedRunsOf
<1>5. LeasedMeansClaimed
  BY <1>1 DEF LeasedMeansClaimed, Active
<1> QED
  BY <1>2, <1>3, <1>4, <1>5 DEF FlightInv

-----------------------------------------------------------------------------
(* Steps that move tasks and leave claims and leases alone.                  *)

\* How such a step may move a task.
Follows(t) ==
    /\ task'[t] \in InFlight => task[t] \in InFlight
    /\ task'[t] \in Waiting => task[t] \in Waiting
    /\ task[t] \in Settled => task'[t] \in Settled
    /\ task'[t] = "leased" => task[t] = "leased"
    /\ task[t] \in {"leased", "failed"} => task'[t] \in {"leased", "failed"}
    /\ task[t] = "completed" => task'[t] = "completed"
    /\ task[t] = "draft" => task'[t] \in {"draft", "ready"}
    /\ task'[t] = "draft" => task[t] = "draft"
    /\ (task'[t] = "ready" /\ task[t] # "ready") =>
            ~DependenciesComplete(t) /\ \A d \in dependsOn[t] : task'[d] = "completed"

MoveStep ==
    /\ IdleStep
    /\ \A t \in Task : Follows(t)
    /\ \A c \in Claim : worker'[c] = "closing" =>
            \/ worker[c] = "closing"
            \/ worker[c] \notin Unstarted /\ task'[runs[claims[c].run].task] \in Settled

LEMMA MoveKeepsRuns ==
    ASSUME LockInv, FlightInv, MoveStep
    PROVE  RunsLinked' /\ RunningIsLeased' /\ OneLease' /\ UnderLease'
<1>1. /\ runs' = runs
      /\ \A r \in Run : leases'[r].held = leases[r].held
      /\ \A t \in Task : task'[t] \in InFlight => task[t] \in InFlight
  BY DEF MoveStep, IdleStep, Follows
<1>2. RunsLinked'
  BY <1>1 DEF FlightInv, RunsLinked
<1>3. RunningIsLeased'
  BY <1>1 DEF FlightInv, RunningIsLeased
<1>4. OneLease'
  BY <1>1 DEF FlightInv, OneLease
<1>5. UnderLease'
  BY <1>1 DEF FlightInv, UnderLease
<1> QED
  BY <1>2, <1>3, <1>4, <1>5

LEMMA MoveKeepsTasks ==
    ASSUME LockInv, FlightInv, MoveStep
    PROVE  ClosingIsSettled' /\ WaitingHoldsNothing' /\ LeasedMeansClaimed'
<1>1. /\ runs' = runs /\ claims' = claims
      /\ \A r \in Run : leases'[r].held = leases[r].held
  BY DEF MoveStep, IdleStep
<1>2. ClosingIsSettled'
  <2>1. SUFFICES ASSUME NEW c \in Claim, worker'[c] = "closing"
                 PROVE  task'[runs[claims[c].run].task] \in Settled
    BY <1>1 DEF ClosingIsSettled
  <2>2. CASE worker[c] = "closing"
    <3>1. task[runs[claims[c].run].task] \in Settled
      BY <2>2 DEF FlightInv, ClosingIsSettled
    <3>2. runs[claims[c].run].task \in Task
      BY <2>2, ClosingRun DEF FlightInv, Unstarted
    <3> QED
      BY <3>1, <3>2 DEF MoveStep, Follows
  <2> QED
    BY <2>1, <2>2 DEF MoveStep
<1>3. WaitingHoldsNothing'
  <2>1. \A t \in Task : LeasedRunsOf(t)' = LeasedRunsOf(t)
    BY <1>1 DEF LeasedRunsOf
  <2>2. \A t \in Task : task'[t] \in Waiting => task[t] \in Waiting
    BY DEF MoveStep, Follows
  <2> QED
    BY <2>1, <2>2 DEF FlightInv, WaitingHoldsNothing, Waiting
<1>4. LeasedMeansClaimed'
  <2>1. Active' = Active
    BY <1>1 DEF Active
  <2>2. ASSUME NEW t \in Task, task'[t] = "leased"
        PROVE  \E c \in Active : claims[c].task = t
    BY <2>2 DEF MoveStep, Follows, FlightInv, LeasedMeansClaimed
  <2>3. ASSUME NEW c \in Active
        PROVE  /\ task'[claims[c].task] \in {"leased", "failed"}
               /\ \A d \in Active \ {c} : claims[d].task # claims[c].task
    <3>1. claims[c].task \in Task
      BY DEF Active, LockInv, ClaimsLinked
    <3>2. /\ task[claims[c].task] \in {"leased", "failed"}
          /\ \A d \in Active \ {c} : claims[d].task # claims[c].task
      BY DEF FlightInv, LeasedMeansClaimed
    <3> QED
      BY <3>1, <3>2 DEF MoveStep, Follows
  <2> QED
    BY <1>1, <2>1, <2>2, <2>3 DEF LeasedMeansClaimed
<1> QED
  BY <1>2, <1>3, <1>4

LEMMA MoveKeeps ==
    ASSUME LockInv, FlightInv, MoveStep
    PROVE  FlightInv'
BY MoveKeepsRuns, MoveKeepsTasks DEF FlightInv

-----------------------------------------------------------------------------
(* Which calls those are.                                                    *)

\* The moves that the calls of such steps make.
LEMMA TransitionFollows ==
    ASSUME TypeOK, NEW u, NEW from, NEW to, Transition(u, from, to),
           <<from, to>> \in {<<"leased", "failed">>, <<"running", "verifying">>,
                            <<"verifying", "review">>, <<"verifying", "failed">>,
                            <<"running", "failed">>, <<"ready", "paused">>}
    PROVE  /\ \A t \in Task : Follows(t)
           /\ u \in Task => task'[u] = to
<1>1. /\ task[u] = from
      /\ u \in Task => task'[u] = to
      /\ \A t \in Task \ {u} : task'[t] = task[t]
  BY DEF Transition, TypeOK
<1>2. u \in Task => Follows(u)
  BY <1>1 DEF Follows, InFlight, Waiting, Settled
<1>3. ASSUME NEW t \in Task \ {u} PROVE Follows(t)
  BY <1>1, <1>3 DEF Follows
<1> QED
  BY <1>1, <1>2, <1>3

\* A process that moves a task says so at one of its control points.
LEMMA WorkerMoves ==
    ASSUME TypeOK, LockInv, RunsLinked,
           \/ \E c \in Claim : WorktreeFailed(c)
           \/ \E c \in Claim : AgentExited(c)
           \/ \E c \in Claim : CloseVerification(c)
           \/ \E c \in Claim : ApiRunFailed(c)
    PROVE  /\ \A t \in Task : Follows(t)
           /\ \A c \in Claim : worker'[c] = "closing" =>
                \/ worker[c] = "closing"
                \/ worker[c] \notin Unstarted /\ task'[runs[claims[c].run].task] \in Settled
<1>1. worker \in [Claim -> WorkerState]
  BY DEF TypeOK
<1>2. ASSUME NEW c \in Claim, NEW at, NEW next, Goes(c, at, next)
      PROVE  /\ worker[c] = at
             /\ \A d \in Claim : worker'[d] = "closing" =>
                    worker[d] = "closing" \/ (d = c /\ next = "closing")
  BY <1>1, <1>2 DEF Goes
<1>3. ASSUME NEW c \in Claim, WorktreeFailed(c)
      PROVE  /\ \A t \in Task : Follows(t)
             /\ \A d \in Claim : worker'[d] = "closing" => worker[d] = "closing"
  <2>1. Goes(c, "preparing", "dead") /\ Transition(claims[c].task, "leased", "failed")
    BY <1>3 DEF WorktreeFailed
  <2> QED
    BY <1>2, <2>1, TransitionFollows
<1>4. ASSUME NEW c \in Claim, AgentExited(c)
      PROVE  /\ \A t \in Task : Follows(t)
             /\ \A d \in Claim : worker'[d] = "closing" => worker[d] = "closing"
  <2>1. /\ Goes(c, "working", "exited")
        /\ Transition(runs[claims[c].run].task, "running", "verifying")
    BY <1>4 DEF AgentExited
  <2>2. runs[claims[c].run].task \in Task
    BY <1>2, <2>1, ClosingRun DEF Unstarted
  <2> QED
    BY <1>2, <2>1, <2>2, TransitionFollows
<1>5. ASSUME NEW c \in Claim, CloseVerification(c) \/ ApiRunFailed(c)
      PROVE  /\ \A t \in Task : Follows(t)
             /\ \A d \in Claim : worker'[d] = "closing" =>
                    \/ worker[d] = "closing"
                    \/ worker[d] \notin Unstarted /\ task'[runs[claims[d].run].task] \in Settled
  <2>1. \E at \in {"checked", "working"}, from \in {"verifying", "running"},
             to \in {"review", "failed"} :
            /\ Goes(c, at, "closing")
            /\ from = "running" => to = "failed"
            /\ Transition(runs[claims[c].run].task, from, to)
    <3>1. CASE CloseVerification(c)
      <4>1. VerifiedStatus(claims[c].run) \in {"review", "failed"}
        BY DEF VerifiedStatus
      <4> QED
        BY <3>1, <4>1 DEF CloseVerification
    <3>2. CASE ApiRunFailed(c)
      BY <3>2 DEF ApiRunFailed
    <3> QED
      BY <1>5, <3>1, <3>2
  <2>2. PICK at \in {"checked", "working"}, from \in {"verifying", "running"},
             to \in {"review", "failed"} :
            /\ Goes(c, at, "closing")
            /\ from = "running" => to = "failed"
            /\ Transition(runs[claims[c].run].task, from, to)
    BY <2>1
  <2>3. worker[c] \notin Unstarted
    BY <1>2, <2>2 DEF Unstarted
  <2>4. runs[claims[c].run].task \in Task
    BY <2>3, ClosingRun
  <2>5. /\ \A t \in Task : Follows(t)
        /\ task'[runs[claims[c].run].task] \in Settled
    BY <2>2, <2>4, TransitionFollows DEF Settled
  <2> QED
    BY <1>2, <2>2, <2>3, <2>5
<1> QED
  BY <1>3, <1>4, <1>5

LEMMA GraphMoves ==
    ASSUME TypeOK, GraphNext
    PROVE  (\A t \in Task : Follows(t)) /\ UNCHANGED worker
<1>1. CASE \/ \E t \in Task, d \in Task : ReadTaskToEdit(t, d)
           \/ AbandonEdit
  BY <1>1 DEF ReadTaskToEdit, AbandonEdit, ungraphed, workerVars, Follows
<1>2. CASE AddDependency
  <2>1. UNCHANGED worker
    BY <1>2 DEF AddDependency, ungraphed, workerVars
  <2>2. Transition(edit.task, "ready", "paused") \/ task' = task
    BY <1>2 DEF AddDependency
  <2> QED
    BY <2>1, <2>2, TransitionFollows DEF Follows
<1>3. CASE \E t \in Task : CompleteReview(t)
  <2>1. PICK t \in Task : CompleteReview(t)
    BY <1>3
  <2>2. UNCHANGED worker
    BY <2>1 DEF CompleteReview, ungraphed, workerVars
  <2>3. ASSUME NEW u \in Task PROVE Follows(u)
    <3>1. \/ u = t /\ task[u] = "review" /\ task'[u] = "completed"
          \/ u \in Promoted(t) /\ task'[u] = "ready"
          \/ task'[u] = task[u]
      BY <2>1 DEF CompleteReview
    <3>2. u \in Promoted(t) =>
            /\ task[u] \in {"draft", "paused"}
            /\ t \in dependsOn[u]
            /\ \A d \in dependsOn[u] \ {t} : task[d] = "completed"
      BY DEF Promoted
    <3>3. /\ task[t] = "review" /\ task'[t] = "completed"
          /\ \A d \in Task : task[d] = "completed" => task'[d] = "completed"
      BY <2>1 DEF CompleteReview, Promoted
    <3>4. u \in Promoted(t) => \A d \in dependsOn[u] : task'[d] = "completed"
      BY <3>2, <3>3 DEF TypeOK
    <3>5. u \in Promoted(t) => ~DependenciesComplete(u)
      BY <3>2, <3>3 DEF DependenciesComplete
    <3> QED
      BY <3>1, <3>2, <3>4, <3>5 DEF Follows, InFlight, Waiting, Settled
  <2> QED
    BY <2>2, <2>3
<1> QED
  BY <1>1, <1>2, <1>3 DEF GraphNext

\* The calls that end, start or hand back something.
LEMMA MoveSteps ==
    ASSUME TypeOK, LockInv, RunsLinked, [Next]_vars, ~ClaimStep, ~BeginStep,
           ~\E gone : EndStep(gone),
           ~\E c \in Claim : FinishRun(c),
           ~\E c \in Claim : RecordProcessOutcome(c),
           ~\E now \in Observed : RecoverExpiredLeases(now)
    PROVE  MoveStep
<1>1. IdleStep
  BY EndSteps, IdleSteps
<1>2. ASSUME UNCHANGED task,
             \A c \in Claim : worker'[c] = "closing" => worker[c] = "closing"
      PROVE  MoveStep
  BY <1>1, <1>2 DEF MoveStep, Follows
<1>3. CASE Tick \/ UNCHANGED vars
  BY <1>2, <1>3 DEF Tick, workerVars, vars
<1>4. CASE GraphNext
  BY <1>1, <1>4, GraphMoves DEF MoveStep
<1>5. CASE SchedulerNext
  <2>1. UNCHANGED <<task, worker>>
    BY <1>5, EndSteps DEF SchedulerNext, ClaimStep, RegisterSchedulerInstance,
        AcquireSchedulerLeader, HeartbeatSchedulerLeader, RouteTask, SetTaskRoutePin,
        SetPauseNewWork, ResumeOperations, unscheduled, workerVars
  <2> QED
    BY <1>2, <2>1
<1>6. CASE RunNext
  <2>1. CASE \/ \E c \in Claim : WorktreeFailed(c) \/ AgentExited(c)
             \/ \E c \in Claim : CloseVerification(c) \/ ApiRunFailed(c)
    BY <1>1, <2>1, WorkerMoves DEF MoveStep
  <2>2. worker \in [Claim -> WorkerState]
    BY DEF TypeOK
  <2>3. CASE \/ \E c \in Claim : PrepareClaim(c) \/ CreateVerifierRun(c)
             \/ \E c \in Claim, passed \in BOOLEAN : FinishVerifierRun(c, passed)
    BY <1>2, <2>2, <2>3 DEF PrepareClaim, CreateVerifierRun, FinishVerifierRun, Goes
  <2>4. CASE \E c \in Claim : WorkerDies(c)
    BY <1>2, <2>2, <2>4 DEF WorkerDies
  <2>5. CASE \E r \in Run, s \in Supervisor, now \in Observed : ApplyRunCheckpoint(r, s, now)
    BY <1>2, <2>5 DEF ApplyRunCheckpoint
  <2>6. CASE \/ \E r \in Run, s \in Supervisor : EvaluateCheckpoint(r, s)
             \/ \E r \in Run : OperatorCheckpointRefused(r) \/ RequestRunCancellation(r)
    BY <1>2, <2>6 DEF EvaluateCheckpoint, OperatorCheckpointRefused,
        RequestRunCancellation, workerVars
  <2> QED
    BY <1>6, <2>1, <2>3, <2>4, <2>5, <2>6 DEF RunNext, BeginStep
<1> QED
  BY <1>3, <1>4, <1>5, <1>6 DEF Next

-----------------------------------------------------------------------------
(* Claims that end hand their tasks back.                                    *)

LEMMA EndKeeps ==
    ASSUME TypeOK, LockInv, FlightInv, NEW gone, EndStep(gone)
    PROVE  FlightInv'
<1>1. PICK to \in {"ready", "paused"} : task' = TaskAfter(gone, to)
  BY DEF EndStep
<1>2. /\ gone \subseteq Active /\ Active \subseteq Claim
      /\ UNCHANGED <<runs, leases, worker>>
      /\ \A c \in Claim : claims'[c].task = claims[c].task /\ claims'[c].run = claims[c].run
      /\ \A c \in Claim \ gone : claims'[c].status = claims[c].status
      /\ \A c \in gone : claims'[c].status # "active"
  BY DEF EndStep, SameLink, Active
<1>3. Active' = Active \ gone
  BY <1>2 DEF Active
<1>4. ASSUME NEW t \in Task
      PROVE  \/ t \in Returned(gone) /\ task[t] = "leased" /\ task'[t] = to
             \/ t \notin Returned(gone) /\ task'[t] = task[t]
  BY <1>1 DEF TaskAfter, Returned
<1>5. RunsLinked' /\ RunningIsLeased' /\ OneLease'
  BY <1>2 DEF FlightInv, RunsLinked, RunningIsLeased, OneLease
<1>6. UnderLease'
  BY <1>2, <1>4 DEF FlightInv, UnderLease, InFlight
<1>7. ClosingIsSettled'
  <2>1. SUFFICES ASSUME NEW c \in Claim, worker[c] = "closing"
                 PROVE  task'[runs[claims[c].run].task] \in Settled
    BY <1>2 DEF ClosingIsSettled
  <2>2. task[runs[claims[c].run].task] \in Settled
    BY <2>1 DEF FlightInv, ClosingIsSettled
  <2>3. runs[claims[c].run].task \in Task
    BY <2>1, ClosingRun DEF FlightInv, Unstarted
  <2> QED
    BY <1>4, <2>2, <2>3 DEF Settled
<1>8. WaitingHoldsNothing'
  <2>1. \A t \in Task : LeasedRunsOf(t)' = LeasedRunsOf(t)
    BY <1>2 DEF LeasedRunsOf
  <2> QED
    BY <1>4, <2>1 DEF FlightInv, WaitingHoldsNothing
<1>9. LeasedMeansClaimed'
  <2>1. ASSUME NEW t \in Task, task'[t] = "leased"
        PROVE  \E c \in Active' : claims'[c].task = t
    <3>1. t \notin Returned(gone) /\ task[t] = "leased"
      BY <1>4, <2>1
    <3>2. PICK c \in Active : claims[c].task = t
      BY <3>1 DEF FlightInv, LeasedMeansClaimed
    <3>3. c \notin gone
      BY <3>1, <3>2 DEF Returned
    <3> QED
      BY <1>2, <1>3, <3>2, <3>3
  <2>2. ASSUME NEW c \in Active'
        PROVE  /\ task'[claims'[c].task] \in {"leased", "failed"}
               /\ \A d \in Active' \ {c} : claims'[d].task # claims'[c].task
    <3>1. c \in Active /\ c \notin gone
      BY <1>3, <2>2
    <3>2. /\ task[claims[c].task] \in {"leased", "failed"}
          /\ \A d \in Active \ {c} : claims[d].task # claims[c].task
      BY <3>1 DEF FlightInv, LeasedMeansClaimed
    <3>3. claims[c].task \in Task
      BY <3>1 DEF Active, LockInv, ClaimsLinked
    <3>4. claims[c].task \notin Returned(gone)
      BY <1>2, <3>1, <3>2 DEF Returned
    <3>5. task'[claims[c].task] = task[claims[c].task]
      BY <1>4, <3>3, <3>4
    <3> QED
      BY <1>2, <1>3, <3>1, <3>2, <3>5
  <2> QED
    BY <2>1, <2>2 DEF LeasedMeansClaimed
<1> QED
  BY <1>5, <1>6, <1>7, <1>8, <1>9 DEF FlightInv

-----------------------------------------------------------------------------
(* A claim is made, and those that were due expire with it.                  *)

LEMMA ClaimedTasks ==
    ASSUME TypeOK, NEW i \in Instance, NEW g, NEW c, NEW now, ClaimTask(i, g, c, now)
    PROVE  LET t == planned[i].task
               gone == ExpiredAt(now) IN
           /\ task[t] = "ready" \/ t \in Returned(gone)
           /\ task'[t] = "leased"
           /\ \A d \in Active \ gone : claims[d].task # t
           /\ \A u \in Task \ {t} :
                \/ u \in Returned(gone) /\ task[u] = "leased" /\ task'[u] = "ready"
                \/ u \notin Returned(gone) /\ task'[u] = task[u]
<1> DEFINE t == planned[i].task
           gone == ExpiredAt(now)
           after == TaskAfter(gone, "ready")
<1>1. /\ t \in Task /\ after[t] = "ready"
      /\ task' = [after EXCEPT ![t] = "leased"]
      /\ \A d \in Active \ gone : claims[d].task # t
  BY DEF ClaimTask
<1>2. ASSUME NEW u \in Task
      PROVE  after[u] = IF u \in Returned(gone) THEN "ready" ELSE task[u]
  BY DEF TaskAfter
<1>3. after = [u \in Task |-> after[u]]
  BY DEF TaskAfter
<1>4. task'[t] = "leased" /\ \A u \in Task \ {t} : task'[u] = after[u]
  <2> HIDE DEF after, t
  <2> QED
    BY <1>1, <1>3
<1>5. \A u \in Returned(gone) : task[u] = "leased"
  BY DEF Returned
<1> QED
  BY <1>1, <1>2, <1>4, <1>5

LEMMA ClaimKeepsRuns ==
    ASSUME TypeOK, LockInv, FlightInv, NEW i \in Instance, NEW g \in 1..MaxGeneration,
           NEW c \in Claim, NEW now, ClaimTask(i, g, c, now)
    PROVE  /\ RunsLinked' /\ RunningIsLeased' /\ OneLease' /\ UnderLease'
           /\ ClosingIsSettled' /\ WaitingHoldsNothing'
<1> DEFINE t == planned[i].task
           gone == ExpiredAt(now)
<1>1. /\ UNCHANGED <<runs, leases, worker>>
      /\ claims[c].status = "unused"
      /\ \A d \in Claim \ {c} : claims'[d].run = claims[d].run
  BY ClaimFacts DEF SameLink
<1>2. /\ t \in Task /\ task'[t] = "leased"
      /\ task[t] \in {"ready", "leased"}
  BY ClaimFacts, ClaimedTasks DEF Returned
<1>3. ASSUME NEW u \in Task \ {t}
      PROVE  \/ task[u] = "leased" /\ task'[u] = "ready"
             \/ task'[u] = task[u]
  BY ClaimedTasks
<1> HIDE DEF t, gone
<1>4. RunsLinked' /\ RunningIsLeased' /\ OneLease'
  BY <1>1 DEF FlightInv, RunsLinked, RunningIsLeased, OneLease
<1>5. UnderLease'
  BY <1>1, <1>2, <1>3 DEF FlightInv, UnderLease, InFlight
<1>6. ClosingIsSettled'
  <2>1. SUFFICES ASSUME NEW d \in Claim, worker[d] = "closing"
                 PROVE  task'[runs[claims'[d].run].task] \in Settled
    BY <1>1 DEF ClosingIsSettled
  <2>2. /\ claims[d].status = "consumed"
        /\ runs[claims[d].run].task \in Task
    BY <2>1, ClosingRun DEF FlightInv, Unstarted
  <2>3. claims'[d].run = claims[d].run
    BY <1>1, <2>2
  <2>4. task[runs[claims[d].run].task] \in Settled
    BY <2>1 DEF FlightInv, ClosingIsSettled
  <2> QED
    BY <1>2, <1>3, <2>2, <2>3, <2>4 DEF Settled
<1>7. WaitingHoldsNothing'
  <2>1. \A u \in Task : LeasedRunsOf(u)' = LeasedRunsOf(u)
    BY <1>1 DEF LeasedRunsOf
  <2> QED
    BY <1>2, <1>3, <2>1 DEF FlightInv, WaitingHoldsNothing
<1> QED
  BY <1>4, <1>5, <1>6, <1>7

LEMMA ClaimKeepsClaims ==
    ASSUME TypeOK, LockInv, FlightInv, NEW i \in Instance, NEW g \in 1..MaxGeneration,
           NEW c \in Claim, NEW now, ClaimTask(i, g, c, now)
    PROVE  LeasedMeansClaimed'
<1> DEFINE t == planned[i].task
           gone == ExpiredAt(now)
<1>1. /\ t \in Task /\ task'[t] = "leased"
      /\ claims[c].status = "unused"
      /\ claims'[c].status = "active" /\ claims'[c].task = t
      /\ \A d \in Active \ gone : claims[d].task # t
  BY ClaimFacts, ClaimedTasks
<1>2. ASSUME NEW u \in Task \ {t}
      PROVE  \/ u \in Returned(gone) /\ task'[u] = "ready"
             \/ u \notin Returned(gone) /\ task'[u] = task[u]
  BY ClaimedTasks
<1>3. \A d \in Claim \ {c} : /\ claims'[d].task = claims[d].task
                             /\ d \in gone => claims'[d].status # "active"
                             /\ d \notin gone => claims'[d].status = claims[d].status
  BY ClaimFacts DEF SameLink
<1>4. gone \subseteq Active /\ Active \subseteq Claim \ {c}
  BY <1>1 DEF ExpiredAt, Active
<1> HIDE DEF t, gone
<1>5. Active' = (Active \ gone) \cup {c}
  BY <1>1, <1>3, <1>4 DEF Active
<1>6. ASSUME NEW u \in Task, task'[u] = "leased"
      PROVE  \E d \in Active' : claims'[d].task = u
  <2>1. CASE u = t
    BY <1>1, <1>5, <2>1
  <2>2. CASE u # t
    <3>1. u \notin Returned(gone) /\ task[u] = "leased"
      BY <1>2, <1>6, <2>2
    <3>2. PICK d \in Active : claims[d].task = u
      BY <3>1 DEF FlightInv, LeasedMeansClaimed
    <3>3. d \notin gone
      BY <3>1, <3>2 DEF Returned
    <3> QED
      BY <1>3, <1>4, <1>5, <3>2, <3>3
  <2> QED
    BY <2>1, <2>2
<1>7. ASSUME NEW d \in Active \ gone
      PROVE  /\ task'[claims'[d].task] \in {"leased", "failed"}
             /\ \A e \in Active' \ {d} : claims'[e].task # claims'[d].task
  <2>1. /\ task[claims[d].task] \in {"leased", "failed"}
        /\ \A e \in Active \ {d} : claims[e].task # claims[d].task
    BY <1>7 DEF FlightInv, LeasedMeansClaimed
  <2>2. claims[d].task \in Task \ {t}
    BY <1>1, <1>7 DEF Active, LockInv, ClaimsLinked
  <2>3. claims[d].task \notin Returned(gone)
    BY <1>4, <1>7, <2>1 DEF Returned
  <2>4. task'[claims[d].task] = task[claims[d].task]
    BY <1>2, <2>2, <2>3
  <2>5. claims'[d].task = claims[d].task
    BY <1>3, <1>4
  <2> QED
    BY <1>1, <1>3, <1>4, <1>5, <2>1, <2>2, <2>4, <2>5
<1>8. \A e \in Active' \ {c} : claims'[e].task # t
  BY <1>1, <1>3, <1>4, <1>5
<1> QED
  BY <1>1, <1>5, <1>6, <1>7, <1>8 DEF LeasedMeansClaimed

-----------------------------------------------------------------------------
(* A claim is consumed and its run starts.                                   *)

LEMMA BegunRun ==
    ASSUME TypeOK, LockInv, NEW c \in Claim, NEW r \in Run, NEW now,
           BeginClaimedRun(c, r, now)
    PROVE  LET t == claims[c].task IN
           /\ t \in Task /\ task[t] = "leased" /\ task'[t] = "running"
           /\ \A u \in Task \ {t} : task'[u] = task[u]
           /\ runs'[r].status = "running" /\ runs'[r].task = t
           /\ ~leases[r].held
<1> DEFINE t == claims[c].task
<1>1. /\ claims[c].status = "active" /\ runs[r].status = "unused"
      /\ task[t] = "leased"
      /\ task' = [task EXCEPT ![t] = "running"]
      /\ runs' = [runs EXCEPT ![r] = [status |-> "running", task |-> t]]
  BY DEF BeginClaimedRun, Startable
<1>2. t \in Task
  BY <1>1 DEF LockInv, ClaimsLinked
<1>3. ~leases[r].held
  BY <1>1 DEF LockInv, LeasesLinked
<1>4. task \in [Task -> Status] /\ runs \in [Run -> RunRow]
  BY DEF TypeOK
<1> HIDE DEF t
<1>5. /\ task'[t] = "running" /\ \A u \in Task \ {t} : task'[u] = task[u]
      /\ runs'[r].status = "running" /\ runs'[r].task = t
  BY <1>1, <1>2, <1>4
<1> QED
  BY <1>1, <1>2, <1>3, <1>5 DEF t

LEMMA BeginKeepsRuns ==
    ASSUME TypeOK, LockInv, FlightInv, NEW c \in Claim, NEW r \in Run, NEW now,
           BeginClaimedRun(c, r, now)
    PROVE  RunsLinked' /\ RunningIsLeased' /\ OneLease' /\ UnderLease' /\ WaitingHoldsNothing'
<1> DEFINE t == claims[c].task
<1>1. /\ t \in Task /\ task[t] = "leased" /\ task'[t] = "running"
      /\ \A u \in Task \ {t} : task'[u] = task[u]
      /\ runs'[r].status = "running" /\ runs'[r].task = t
      /\ ~leases[r].held /\ leases'[r].held
      /\ \A q \in Run \ {r} : leases'[q] = leases[q] /\ runs'[q] = runs[q]
  BY BegunRun, BeginFacts
<1> HIDE DEF t
<1>2. \A q \in Run : leases[q].held => runs[q].task # t
  BY <1>1 DEF FlightInv, WaitingHoldsNothing, LeasedRunsOf
<1>3. RunsLinked'
  BY <1>1 DEF FlightInv, RunsLinked
<1>4. RunningIsLeased'
  BY <1>1 DEF FlightInv, RunningIsLeased
<1>5. OneLease'
  BY <1>1, <1>2 DEF FlightInv, OneLease
<1>6. UnderLease'
  <2>1. ASSUME NEW u \in Task, task'[u] \in InFlight
        PROVE  \E q \in Run : /\ leases'[q].held /\ runs'[q].status = "running"
                              /\ runs'[q].task = u
    <3>1. CASE u = t
      BY <1>1, <3>1
    <3>2. CASE u # t
      <4>1. PICK q \in Run : leases[q].held /\ runs[q].status = "running" /\ runs[q].task = u
        BY <1>1, <2>1, <3>2 DEF FlightInv, UnderLease
      <4>2. q # r
        BY <1>1, <4>1
      <4> QED
        BY <1>1, <4>1, <4>2
    <3> QED
      BY <3>1, <3>2
  <2> QED
    BY <2>1 DEF UnderLease
<1>7. WaitingHoldsNothing'
  <2>1. ASSUME NEW u \in Task, task'[u] \in Waiting
        PROVE  LeasedRunsOf(u)' = {}
    <3>1. u # t /\ task[u] \in Waiting
      BY <1>1, <2>1 DEF Waiting
    <3>2. LeasedRunsOf(u) = {}
      BY <3>1 DEF FlightInv, WaitingHoldsNothing, Waiting
    <3>3. \A q \in Run : leases'[q].held /\ runs'[q].task = u => leases[q].held /\ runs[q].task = u
      BY <1>1, <3>1
    <3> QED
      BY <3>2, <3>3 DEF LeasedRunsOf
  <2> QED
    BY <2>1 DEF WaitingHoldsNothing, Waiting
<1> QED
  BY <1>3, <1>4, <1>5, <1>6, <1>7

LEMMA BeginKeepsClaims ==
    ASSUME TypeOK, LockInv, FlightInv, NEW c \in Claim, NEW r \in Run, NEW now,
           BeginClaimedRun(c, r, now)
    PROVE  ClosingIsSettled' /\ LeasedMeansClaimed'
<1> DEFINE t == claims[c].task
<1>1. /\ t \in Task /\ task[t] = "leased" /\ task'[t] = "running"
      /\ \A u \in Task \ {t} : task'[u] = task[u]
      /\ \A q \in Run \ {r} : runs'[q] = runs[q]
      /\ claims[c].status = "active" /\ claims'[c].status = "consumed"
      /\ \A d \in Claim \ {c} : claims'[d] = claims[d]
      /\ \A d \in Claim \ {c} : claims[d].status = "consumed" => claims[d].run # r
      /\ worker' = [worker EXCEPT ![c] = "working"]
  BY BegunRun, BeginFacts
<1>2. worker \in [Claim -> WorkerState]
  BY DEF TypeOK
<1>3. c \in Active /\ Active' = Active \ {c}
  BY <1>1 DEF Active
<1>4. \A d \in Active \ {c} : claims[d].task # t
  BY <1>3 DEF FlightInv, LeasedMeansClaimed
<1>5. \A d \in Claim : claims[d].status # "unused" => claims[d].task \in Task
  BY DEF LockInv, ClaimsLinked
<1>6. ClosingIsSettled'
  <2>1. SUFFICES ASSUME NEW d \in Claim, worker'[d] = "closing"
                 PROVE  task'[runs'[claims'[d].run].task] \in Settled
    BY DEF ClosingIsSettled
  <2>2. d # c /\ worker[d] = "closing"
    BY <1>1, <1>2, <2>1
  <2>3. /\ claims[d].status = "consumed"
        /\ claims[d].run \in Run
        /\ runs[claims[d].run].task \in Task
    BY <2>2, ClosingRun DEF FlightInv, Unstarted
  <2>4. claims'[d] = claims[d] /\ runs'[claims[d].run] = runs[claims[d].run]
    BY <1>1, <2>2, <2>3
  <2>5. task[runs[claims[d].run].task] \in Settled
    BY <2>2 DEF FlightInv, ClosingIsSettled
  <2> QED
    BY <1>1, <2>3, <2>4, <2>5 DEF Settled
<1>7. ASSUME NEW u \in Task, task'[u] = "leased"
      PROVE  \E d \in Active' : claims'[d].task = u
  <2>1. u # t /\ task[u] = "leased"
    BY <1>1, <1>7
  <2>2. PICK d \in Active : claims[d].task = u
    BY <2>1 DEF FlightInv, LeasedMeansClaimed
  <2>3. d # c
    BY <2>1, <2>2
  <2> QED
    BY <1>1, <1>3, <2>2, <2>3 DEF Active
<1>8. ASSUME NEW d \in Active \ {c}
      PROVE  /\ task'[claims'[d].task] \in {"leased", "failed"}
             /\ \A e \in Active' \ {d} : claims'[e].task # claims'[d].task
  <2>1. /\ task[claims[d].task] \in {"leased", "failed"}
        /\ \A e \in Active \ {d} : claims[e].task # claims[d].task
    BY <1>8 DEF FlightInv, LeasedMeansClaimed
  <2>2. claims[d].task \in Task \ {t} /\ claims'[d] = claims[d]
    BY <1>1, <1>4, <1>5, <1>8 DEF Active
  <2>3. \A e \in Active \ {c} : claims'[e] = claims[e]
    BY <1>1 DEF Active
  <2> QED
    BY <1>1, <1>3, <2>1, <2>2, <2>3
<1> HIDE DEF t
<1>9. LeasedMeansClaimed'
  BY <1>3, <1>7, <1>8 DEF LeasedMeansClaimed
<1> QED
  BY <1>6, <1>9

-----------------------------------------------------------------------------
(* Runs that end.                                                            *)

\* The runs in "ended" end as "status" says, and the tasks in "left" leave the
\* flight for "to", each with the only lease it had.
LEMMA ReleaseKeeps ==
    ASSUME TypeOK, LockInv, FlightInv, NEW ended \in SUBSET Run, NEW left \in SUBSET Task,
           ReleaseRuns(ended), UNCHANGED claims,
           \A r \in Run : /\ runs'[r].task = runs[r].task
                          /\ r \in ended => runs'[r].status \notin {"unused", "running"}
                          /\ r \notin ended => runs'[r] = runs[r],
           \A t \in Task \ left : task'[t] = task[t],
           \A t \in left :
                /\ task[t] \notin {"leased", "failed"} \cup Settled
                /\ task'[t] \notin InFlight \cup {"leased"}
                /\ \E r \in ended : leases[r].held /\ runs[r].task = t,
           \A r \in ended : /\ runs[r].status # "unused"
                            /\ runs[r].task \in left \/ task[runs[r].task] \notin InFlight,
           \A c \in Claim : worker'[c] = "closing" => worker[c] = "closing"
    PROVE  FlightInv'
<1>1. \A r \in Run : leases'[r].held => leases[r].held /\ r \notin ended
  BY DEF ReleaseRuns, NoLease
<1>2. \A r \in Run \ ended : leases'[r] = leases[r]
  BY DEF ReleaseRuns
<1>3. RunsLinked'
  <2>1. ASSUME NEW r \in Run, runs'[r].status # "unused" PROVE runs'[r].task \in Task
    <3>1. runs[r].status # "unused" /\ runs'[r].task = runs[r].task
      BY <2>1
    <3> QED
      BY <3>1 DEF FlightInv, RunsLinked
  <2> QED
    BY <2>1 DEF RunsLinked
<1>4. RunningIsLeased'
  <2>1. ASSUME NEW r \in Run, runs'[r].status = "running" PROVE leases'[r].held
    <3>1. r \in Run \ ended /\ runs'[r] = runs[r]
      BY <2>1
    <3>2. leases'[r] = leases[r]
      BY <1>2, <3>1
    <3> QED
      BY <2>1, <3>1, <3>2 DEF FlightInv, RunningIsLeased
  <2> QED
    BY <2>1 DEF RunningIsLeased
<1>5. OneLease'
  <2>1. ASSUME NEW r \in Run, NEW s \in Run, leases'[r].held, leases'[s].held,
               runs'[r].task = runs'[s].task
        PROVE  r = s
    <3>1. /\ leases[r].held /\ leases[s].held
          /\ runs[r].task = runs[s].task
      BY <1>1, <2>1
    <3> QED
      BY <3>1 DEF FlightInv, OneLease
  <2> QED
    BY <2>1 DEF OneLease
<1>6. UnderLease'
  <2>1. SUFFICES ASSUME NEW t \in Task, task'[t] \in InFlight
                 PROVE  \E r \in Run : /\ leases'[r].held /\ runs'[r].status = "running"
                                       /\ runs'[r].task = t
    BY DEF UnderLease
  <2>2. t \notin left /\ task[t] \in InFlight
    BY <2>1
  <2>3. PICK r \in Run : leases[r].held /\ runs[r].status = "running" /\ runs[r].task = t
    BY <2>2 DEF FlightInv, UnderLease
  <2>4. r \notin ended
    BY <2>2, <2>3
  <2>5. leases'[r] = leases[r] /\ runs'[r] = runs[r]
    BY <1>2, <2>4
  <2> QED
    BY <2>3, <2>5
<1>7. ClosingIsSettled'
  <2>1. SUFFICES ASSUME NEW c \in Claim, worker[c] = "closing"
                 PROVE  task'[runs'[claims[c].run].task] \in Settled
    BY DEF ClosingIsSettled, Settled
  <2>2. claims[c].run \in Run /\ runs[claims[c].run].task \in Task
    BY <2>1, ClosingRun DEF FlightInv, Unstarted
  <2>3. task[runs[claims[c].run].task] \in Settled
    BY <2>1 DEF FlightInv, ClosingIsSettled
  <2>4. runs[claims[c].run].task \notin left
    BY <2>3
  <2>5. /\ runs'[claims[c].run].task = runs[claims[c].run].task
        /\ task'[runs[claims[c].run].task] = task[runs[claims[c].run].task]
    BY <2>2, <2>4
  <2> QED
    BY <2>3, <2>5
<1>8. WaitingHoldsNothing'
  <2>1. SUFFICES ASSUME NEW t \in Task, task'[t] \in Waiting,
                        NEW q \in Run, leases'[q].held, runs'[q].task = t
                 PROVE  FALSE
    BY DEF WaitingHoldsNothing, LeasedRunsOf, Waiting
  <2>2. leases[q].held /\ runs[q].task = t /\ q \notin ended
    BY <1>1, <2>1
  <2>3. CASE t \in left
    <3>1. PICK r \in ended : leases[r].held /\ runs[r].task = t
      BY <2>3
    <3>2. q = r
      BY <2>2, <3>1 DEF FlightInv, OneLease
    <3> QED
      BY <2>2, <3>1, <3>2
  <2>4. CASE t \notin left
    <3>1. task[t] \in Waiting
      BY <2>1, <2>4
    <3> QED
      BY <2>2, <3>1 DEF FlightInv, WaitingHoldsNothing, LeasedRunsOf, Waiting
  <2> QED
    BY <2>3, <2>4
<1>9. LeasedMeansClaimed'
  <2>1. Active' = Active /\ Active \subseteq Claim
    BY DEF Active
  <2>2. \A t \in Task : task'[t] = "leased" => task[t] = "leased"
    OBVIOUS
  <2>3. ASSUME NEW c \in Active
        PROVE  /\ task'[claims[c].task] \in {"leased", "failed"}
               /\ \A d \in Active \ {c} : claims[d].task # claims[c].task
    <3>1. /\ task[claims[c].task] \in {"leased", "failed"}
          /\ \A d \in Active \ {c} : claims[d].task # claims[c].task
      BY DEF FlightInv, LeasedMeansClaimed
    <3>2. claims[c].task \in Task
      BY DEF Active, LockInv, ClaimsLinked
    <3>3. claims[c].task \notin left
      BY <3>1
    <3> QED
      BY <3>1, <3>2, <3>3
  <2> QED
    BY <2>1, <2>2, <2>3 DEF FlightInv, LeasedMeansClaimed
<1> QED
  BY <1>3, <1>4, <1>5, <1>6, <1>7, <1>8, <1>9 DEF FlightInv

LEMMA FinishKeeps ==
    ASSUME TypeOK, LockInv, FlightInv, NEW c \in Claim, FinishRun(c)
    PROVE  FlightInv'
<1> DEFINE r == claims[c].run
<1>1. /\ worker[c] = "closing"
      /\ worker' = [worker EXCEPT ![c] = "done"]
      /\ runs' = [runs EXCEPT ![r].status = VerifiedStatus(r)]
      /\ ReleaseRuns({r})
      /\ UNCHANGED <<task, claims>>
  BY DEF FinishRun, Goes
<1>2. /\ r \in Run /\ runs[r].task \in Task
      /\ runs[r].status # "unused"
      /\ task[runs[r].task] \in Settled
  BY <1>1, ClosingRun DEF FlightInv, ClosingIsSettled, Unstarted, LockInv, ClaimsLinked,
      WorkersLinked
<1>3. VerifiedStatus(r) \in {"review", "failed"}
  BY DEF VerifiedStatus
<1> HIDE DEF r
<1>4. \A q \in Run : /\ runs'[q].task = runs[q].task
                     /\ q \in {r} => runs'[q].status \notin {"unused", "running"}
                     /\ q \notin {r} => runs'[q] = runs[q]
  <2>1. \A q \in Run : runs[q] \in RunRow
    BY DEF TypeOK
  <2>2. runs \in [Run -> RunRow]
    BY DEF TypeOK
  <2> QED
    BY <1>1, <1>3, <2>1, <2>2 DEF RunRow
<1>5. \A d \in Claim : worker'[d] = "closing" => worker[d] = "closing"
  BY <1>1 DEF TypeOK
<1>6. task[runs[r].task] \notin InFlight
  BY <1>2 DEF Settled, InFlight
<1> DEFINE left == {}
<1>7. {r} \in SUBSET Run /\ left \in SUBSET Task
  BY <1>2
<1>8. /\ \A t \in Task \ left : task'[t] = task[t]
      /\ \A t \in left : /\ task[t] \notin {"leased", "failed"} \cup Settled
                         /\ task'[t] \notin InFlight \cup {"leased"}
                         /\ \E q \in {r} : leases[q].held /\ runs[q].task = t
      /\ \A q \in {r} : /\ runs[q].status # "unused"
                        /\ runs[q].task \in left \/ task[runs[q].task] \notin InFlight
  BY <1>1, <1>2, <1>6
<1> HIDE DEF left
<1> QED
  BY <1>1, <1>4, <1>5, <1>7, <1>8, ReleaseKeeps

LEMMA OutcomeKeeps ==
    ASSUME TypeOK, LockInv, FlightInv, NEW c \in Claim, RecordProcessOutcome(c)
    PROVE  FlightInv'
<1> DEFINE r == claims[c].run
           t == runs[r].task
<1>1. PICK outcome \in {"paused", "cancelled", "failed"} :
            /\ Transition(t, "running", outcome)
            /\ runs' = [runs EXCEPT ![r].status = outcome]
  BY DEF RecordProcessOutcome
<1>2. /\ \E at \in {"working", "terminating"} : Goes(c, at, "done")
      /\ runs[r].status = "running"
      /\ ReleaseRuns({r})
      /\ UNCHANGED claims
  BY DEF RecordProcessOutcome
<1>3. worker[c] \notin Unstarted /\ \A d \in Claim : worker'[d] = "closing" => worker[d] = "closing"
  BY <1>2 DEF Goes, Unstarted, TypeOK
<1>4. r \in Run /\ t \in Task
  BY <1>3, ClosingRun DEF FlightInv
<1>5. leases[r].held
  BY <1>2, <1>4 DEF FlightInv, RunningIsLeased
<1>6. \A q \in Run : runs[q] \in RunRow
  BY DEF TypeOK
<1>7. runs \in [Run -> RunRow] /\ task \in [Task -> Status]
  BY DEF TypeOK
<1>8. /\ task[t] = "running" /\ task'[t] = outcome
      /\ \A u \in Task \ {t} : task'[u] = task[u]
  <2> HIDE DEF t
  <2> QED
    BY <1>1, <1>4, <1>7 DEF Transition
<1>9. \A q \in Run : /\ runs'[q].task = runs[q].task
                     /\ q \in {r} => runs'[q].status \notin {"unused", "running"}
                     /\ q \notin {r} => runs'[q] = runs[q]
  <2> HIDE DEF r
  <2> QED
    BY <1>1, <1>6, <1>7 DEF RunRow
<1> DEFINE left == {t}
<1>10. \A u \in left :
            /\ task[u] \notin {"leased", "failed"} \cup Settled
            /\ task'[u] \notin InFlight \cup {"leased"}
            /\ \E q \in {r} : leases[q].held /\ runs[q].task = u
  BY <1>5, <1>8 DEF Settled, InFlight
<1>11. left \in SUBSET Task /\ \A u \in Task \ left : task'[u] = task[u]
  BY <1>4, <1>8
<1>12. \A q \in {r} : /\ runs[q].status # "unused"
                      /\ runs[q].task \in left \/ task[runs[q].task] \notin InFlight
  BY <1>2
<1> HIDE DEF r, left
<1>13. {r} \in SUBSET Run
  BY <1>4
<1> QED
  BY <1>2, <1>3, <1>9, <1>10, <1>11, <1>12, <1>13, ReleaseKeeps

LEMMA RecoveryKeeps ==
    ASSUME TypeOK, LockInv, FlightInv, NEW now, RecoverExpiredLeases(now)
    PROVE  FlightInv'
<1> DEFINE lost == ExpiredLeases(now)
           left == {t \in Task : ExpiredLeasesOf(t, now) # {}}
<1>1. /\ task' = [t \in Task |-> IF ExpiredLeasesOf(t, now) # {} THEN "paused" ELSE task[t]]
      /\ runs' = [r \in Run |-> IF r \in lost THEN [runs[r] EXCEPT !.status = "orphaned"]
                                              ELSE runs[r]]
      /\ ReleaseRuns(lost)
      /\ UNCHANGED <<claims, worker>>
  BY DEF RecoverExpiredLeases, workerVars
<1>2. ASSUME NEW r \in lost
      PROVE  /\ r \in Run /\ leases[r].held
             /\ runs[r].status # "unused" /\ runs[r].task \in Task
             /\ task[runs[r].task] \in Recoverable
             /\ runs[r].task \in left
  <2>1. r \in Run /\ leases[r].held /\ task[runs[r].task] \in Recoverable
    BY DEF ExpiredLeases
  <2>2. runs[r].status # "unused" /\ runs[r].task \in Task
    BY <2>1 DEF LockInv, LeasesLinked, FlightInv, RunsLinked
  <2>3. r \in ExpiredLeasesOf(runs[r].task, now)
    BY DEF ExpiredLeasesOf
  <2> QED
    BY <2>1, <2>2, <2>3
<1>3. ASSUME NEW t \in left
      PROVE  /\ task[t] \notin {"leased", "failed"} \cup Settled
             /\ task'[t] \notin InFlight \cup {"leased"}
             /\ \E r \in lost : leases[r].held /\ runs[r].task = t
  <2>1. PICK r \in ExpiredLeasesOf(t, now) : TRUE
    OBVIOUS
  <2>2. r \in lost /\ runs[r].task = t
    BY DEF ExpiredLeasesOf
  <2>3. task[t] \in Recoverable /\ leases[r].held /\ r \in Run
    BY <1>2, <2>2
  <2>4. task[t] # "leased"
    BY <2>2, <2>3 DEF FlightInv, WaitingHoldsNothing, LeasedRunsOf
  <2>5. task'[t] = "paused"
    BY <1>1
  <2> QED
    BY <2>2, <2>3, <2>4, <2>5 DEF Recoverable, Settled, InFlight
<1>4. \A t \in Task \ left : task'[t] = task[t]
  BY <1>1
<1>5. \A r \in Run : /\ runs'[r].task = runs[r].task
                     /\ r \in lost => runs'[r].status \notin {"unused", "running"}
                     /\ r \notin lost => runs'[r] = runs[r]
  <2>1. \A r \in Run : runs[r] \in RunRow
    BY DEF TypeOK
  <2> QED
    BY <1>1, <2>1 DEF RunRow
<1>6. lost \in SUBSET Run /\ left \in SUBSET Task
  BY DEF ExpiredLeases
<1>7. \A r \in lost : /\ runs[r].status # "unused"
                      /\ runs[r].task \in left \/ task[runs[r].task] \notin InFlight
  BY <1>2
<1> HIDE DEF lost, left
<1> QED
  BY <1>1, <1>3, <1>4, <1>5, <1>6, <1>7, ReleaseKeeps

-----------------------------------------------------------------------------
(* The theorems.                                                             *)

LEMMA FlightStep == TypeOK /\ LockInv /\ FlightInv /\ [Next]_vars => FlightInv'
<1> SUFFICES ASSUME TypeOK, LockInv, FlightInv, [Next]_vars PROVE FlightInv'
  OBVIOUS
<1>1. CASE ClaimStep
  BY <1>1, ClaimKeepsRuns, ClaimKeepsClaims DEF ClaimStep, FlightInv
<1>2. CASE BeginStep
  BY <1>2, BeginKeepsRuns, BeginKeepsClaims DEF BeginStep, FlightInv
<1>3. CASE \E gone : EndStep(gone)
  BY <1>3, EndKeeps
<1>4. CASE \/ \E c \in Claim : FinishRun(c)
           \/ \E c \in Claim : RecordProcessOutcome(c)
           \/ \E now \in Observed : RecoverExpiredLeases(now)
  BY <1>4, FinishKeeps, OutcomeKeeps, RecoveryKeeps
<1> QED
  BY <1>1, <1>2, <1>3, <1>4, MoveSteps, MoveKeeps DEF FlightInv

LEMMA FlightInvariant == Spec => []FlightInv
BY FlightInit, FlightStep, TypeCorrect, LockInvariant, PTL DEF Spec

\* No task is lost between a claim that ended and the queue, and none is
\* promised twice: a leased task has one active claim, and an active claim's
\* task is leased, or failed under it (claim_task, recover_scheduler_claims,
\* stop_scheduler_instance, emergency_stop).
THEOREM LeasedTasksAreClaimed == Spec => []LeasedMeansClaimed
<1>1. FlightInv => LeasedMeansClaimed
  BY DEF FlightInv
<1> QED
  BY <1>1, FlightInvariant, PTL

\* Work in flight is under exactly one unreleased lease of a running run, so
\* recover_expired_leases finds it when its process is gone.
THEOREM FlightIsRecoverable == Spec => []InFlightIsRecoverable
<1>1. FlightInv => InFlightIsRecoverable
  <2>1. SUFFICES ASSUME FlightInv, NEW t \in Task, task[t] \in {"running", "verifying"}
                 PROVE  \E r \in Run : LeasedRunsOf(t) = {r} /\ runs[r].status = "running"
    BY DEF InFlightIsRecoverable
  <2>2. PICK r \in Run : leases[r].held /\ runs[r].status = "running" /\ runs[r].task = t
    BY <2>1 DEF FlightInv, UnderLease, InFlight
  <2>3. \A q \in Run : leases[q].held /\ runs[q].task = t => q = r
    BY <2>1, <2>2 DEF FlightInv, OneLease
  <2>4. LeasedRunsOf(t) = {r}
    BY <2>2, <2>3 DEF LeasedRunsOf
  <2> QED
    BY <2>2, <2>4
<1> QED
  BY <1>1, FlightInvariant, PTL

\* A task that waits in the queue, is paused or cancelled holds no lease: what
\* it used before was given back by whoever took it out of the flight.
THEOREM WaitingTasksHoldNothing == Spec => []WaitingHoldsNothing
<1>1. FlightInv => WaitingHoldsNothing
  BY DEF FlightInv
<1> QED
  BY <1>1, FlightInvariant, PTL

LEMMA LeaseStep ==
    ASSUME TypeOK, LockInv, FlightInv, [Next]_vars, NEW r \in Run,
           leases[r].held, ~leases'[r].held
    PROVE  \/ leases[r].expires < clock
           \/ \E c \in Claim : /\ claims[c].run = r
                               /\ worker[c] # "done" /\ worker'[c] = "done"
<1>1. worker \in [Claim -> WorkerState]
  BY DEF TypeOK
<1>2. ASSUME NEW ended, ReleaseRuns(ended) PROVE r \in ended
  BY <1>2 DEF ReleaseRuns
<1>3. CASE \E c \in Claim : FinishRun(c) \/ RecordProcessOutcome(c)
  <2>1. PICK c \in Claim : FinishRun(c) \/ RecordProcessOutcome(c)
    BY <1>3
  <2>2. ReleaseRuns({claims[c].run})
    BY <2>1 DEF FinishRun, RecordProcessOutcome
  <2>3. worker[c] # "done" /\ worker'[c] = "done"
    BY <1>1, <2>1 DEF FinishRun, RecordProcessOutcome, Goes
  <2> QED
    BY <1>2, <2>2, <2>3
<1>4. CASE \E now \in Observed : RecoverExpiredLeases(now)
  <2>1. PICK now \in Observed : RecoverExpiredLeases(now)
    BY <1>4
  <2>2. r \in ExpiredLeases(now)
    BY <1>2, <2>1 DEF RecoverExpiredLeases
  <2>3. leases[r].expires \in Nat /\ clock \in Nat
    BY DEF TypeOK, LeaseRow
  <2> QED
    BY <2>2, <2>3 DEF ExpiredLeases, Observed
<1>5. CASE ClaimStep
  <2>1. UNCHANGED leases
    BY <1>5, ClaimFacts DEF ClaimStep
  <2> QED
    BY <2>1
<1>6. CASE BeginStep
  <2>1. PICK c \in Claim, q \in Run, now \in Observed : BeginClaimedRun(c, q, now)
    BY <1>6 DEF BeginStep
  <2>2. leases'[q].held /\ \A p \in Run \ {q} : leases'[p] = leases[p]
    BY <2>1, BeginFacts
  <2> QED
    BY <2>2
<1>7. CASE \E gone : EndStep(gone)
  BY <1>7 DEF EndStep
<1>8. CASE MoveStep
  BY <1>8 DEF MoveStep, IdleStep
<1> QED
  BY <1>3, <1>4, <1>5, <1>6, <1>7, <1>8, MoveSteps DEF FlightInv

\* A lease is given up by the process of its run or by recovery after its
\* expiry: no scheduler, operator or stale process takes it from a run
\* (finish_run, record_process_outcome, recover_expired_leases).
THEOREM LeasesEndInTurn == Spec => LeaseEndsByOwnerOrExpiry
<1>1. TypeOK /\ LockInv /\ FlightInv /\ [Next]_vars =>
        [\A r \in Run : leases[r].held /\ ~leases'[r].held =>
            \/ leases[r].expires < clock
            \/ \E c \in Claim : /\ claims[c].run = r
                                /\ worker[c] # "done" /\ worker'[c] = "done"]_vars
  BY LeaseStep
<1> QED
  BY <1>1, TypeCorrect, LockInvariant, FlightInvariant, PTL DEF Spec, LeaseEndsByOwnerOrExpiry

=============================================================================
