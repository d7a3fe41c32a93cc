------------------------------ MODULE Recursion ------------------------------
(***************************************************************************)
(* Induction on the natural numbers, and the recursive functions that it   *)
(* defines, stated for sets and functions: no theorem here has an operator *)
(* as a parameter, so that each can be cited for any definition.           *)
(***************************************************************************)
EXTENDS FiniteSetTheorems, TLAPS

\* A set of natural numbers that has 0, and with each number the next, has all.
\* Otherwise take the least interval 0..n that ends in a number outside the set:
\* the one that ends in n - 1 is smaller, and n - 1 is outside too.
LEMMA SetInduction ==
  ASSUME NEW S \in SUBSET Nat, 0 \in S, \A n \in S : n + 1 \in S
  PROVE  S = Nat
<1> DEFINE Less == StrictSubsetOrdering(Nat)
           Missing == {0..n : n \in Nat \ S}
<1>1. IsWellFoundedOn(Less, FiniteSubsetsOf(Nat))
  BY FS_StrictSubsetOrderingWellFounded
<1>2. \A n \in Nat : IsFiniteSet(0..n)
  BY FS_Interval
<1>3. Missing \subseteq FiniteSubsetsOf(Nat)
  BY <1>2 DEF FiniteSubsetsOf
<1>4. ASSUME S # Nat PROVE FALSE
  <2>1. Missing # {}
    BY <1>4
  <2>2. \E x \in Missing : \A y \in Missing : <<y, x>> \notin Less
    <3> HIDE DEF Less, Missing
    <3> QED
      BY <1>1, <1>3, <2>1, WFMin
  <2>3. PICK n \in Nat \ S : \A m \in Nat \ S : <<0..m, 0..n>> \notin Less
    BY <2>2
  <2>4. n - 1 \in Nat \ S
    BY SMT
  <2>5. 0..(n - 1) \subseteq 0..n /\ n \in 0..n /\ n \notin 0..(n - 1)
    BY SMT
  <2>6. <<0..(n - 1), 0..n>> \in Less
    BY <2>5 DEF StrictSubsetOrdering
  <2> QED
    BY <2>3, <2>4, <2>6
<1> QED
  BY <1>4

\* The same, up to a bound.
LEMMA BoundedInduction ==
  ASSUME NEW n \in Nat, NEW S, 0 \in S, \A i \in 0..(n - 1) : i \in S => i + 1 \in S
  PROVE  0..n \subseteq S
<1> DEFINE T == {i \in Nat : i \in S \/ i > n}
<1>1. 0 \in T
  OBVIOUS
<1>2. ASSUME NEW i \in T PROVE i + 1 \in T
  OBVIOUS
<1>3. T = Nat
  <2> HIDE DEF T
  <2>1. T \subseteq Nat
    BY DEF T
  <2> QED
    BY <1>1, <1>2, <2>1, SetInduction
<1> QED
  BY <1>3

\* A value and a step for every index define a function.
LEMMA RecursiveFunction ==
  ASSUME NEW X, NEW x0 \in X, NEW n \in Nat, NEW step \in [1..n -> [X -> X]]
  PROVE  \E f \in [0..n -> X] : f[0] = x0 /\ \A i \in 1..n : f[i] = step[i][f[i - 1]]
<1> DEFINE S == {m \in 0..n : \E f \in [0..m -> X] :
                   f[0] = x0 /\ \A i \in 1..m : f[i] = step[i][f[i - 1]]}
<1>1. 0 \in S
  <2> DEFINE g == [i \in 0..0 |-> x0]
  <2>1. g \in [0..0 -> X] /\ g[0] = x0 /\ \A i \in 1..0 : g[i] = step[i][g[i - 1]]
    OBVIOUS
  <2> HIDE DEF g
  <2> QED
    BY <2>1
<1>2. ASSUME NEW m \in 0..(n - 1), m \in S PROVE m + 1 \in S
  <2>1. PICK f \in [0..m -> X] : f[0] = x0 /\ \A i \in 1..m : f[i] = step[i][f[i - 1]]
    BY <1>2
  <2> DEFINE g == [i \in 0..(m + 1) |-> IF i <= m THEN f[i] ELSE step[m + 1][f[m]]]
  <2>2. f[m] \in X /\ step[m + 1] \in [X -> X]
    BY <1>2
  <2>3. g \in [0..(m + 1) -> X]
    BY <2>2
  <2>4. g[0] = x0
    BY <2>1
  <2>5. ASSUME NEW i \in 1..(m + 1) PROVE g[i] = step[i][g[i - 1]]
    BY <2>1
  <2> HIDE DEF g
  <2> QED
    BY <2>3, <2>4, <2>5
<1> HIDE DEF S
<1>3. 0..n \subseteq S
  BY <1>1, <1>2, BoundedInduction
<1> QED
  BY <1>3 DEF S

\* The sums of the first members of a sequence of numbers.  The prover does not
\* find that Nat is an instance of the set X above.
LEMMA PrefixSums ==
  ASSUME NEW n \in Nat, NEW w, \A i \in 1..n : w[i] \in Nat
  PROVE  \E f : f = [i \in 0..n |-> IF i = 0 THEN 0 ELSE f[i - 1] + w[i]]
<1> DEFINE Sums(m) == {f \in [0..m -> Nat] : f[0] = 0 /\ \A i \in 1..m : f[i] = f[i - 1] + w[i]}
           S == {m \in 0..n : Sums(m) # {}}
<1>1. 0 \in S
  <2>1. [i \in 0..0 |-> 0] \in Sums(0)
    OBVIOUS
  <2> QED
    BY <2>1
<1>2. ASSUME NEW m \in 0..(n - 1), m \in S PROVE m + 1 \in S
  <2>1. PICK f : f \in Sums(m)
    BY <1>2
  <2> DEFINE g == [i \in 0..(m + 1) |-> IF i <= m THEN f[i] ELSE f[m] + w[m + 1]]
  <2>2. f \in [0..m -> Nat] /\ f[m] \in Nat /\ w[m + 1] \in Nat
    BY <2>1
  <2>3. g \in [0..(m + 1) -> Nat] /\ g[0] = 0
    BY <2>1, <2>2
  <2>4. ASSUME NEW i \in 1..(m + 1) PROVE g[i] = g[i - 1] + w[i]
    BY <2>1
  <2>5. g \in Sums(m + 1)
    <3> HIDE DEF g
    <3> QED
      BY <2>3, <2>4
  <2>6. Sums(m + 1) # {}
    <3> HIDE DEF g, Sums
    <3> QED
      BY <2>5
  <2> QED
    BY <2>6
<1>3. n \in S
  <2> HIDE DEF S
  <2>1. 0..n \subseteq S
    BY <1>1, <1>2, BoundedInduction
  <2> QED
    BY <2>1
<1>4. PICK f : f \in Sums(n)
  BY <1>3
<1>5. f = [i \in 0..n |-> f[i]]
  BY <1>4
<1>6. \A i \in 0..n : f[i] = IF i = 0 THEN 0 ELSE f[i - 1] + w[i]
  BY <1>4
<1>7. f = [i \in 0..n |-> IF i = 0 THEN 0 ELSE f[i - 1] + w[i]]
  BY <1>5, <1>6
<1> QED
  BY <1>7
=============================================================================
