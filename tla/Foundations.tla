---------------------------- MODULE Foundations ----------------------------
(***************************************************************************)
(* Lemmas about data that the proofs share: sorting by rank, loops written *)
(* as recursive functions, sums over finite sets, largest elements and     *)
(* lists without a repetition.                                             *)
(*                                                                         *)
(* Induction is by the smallest counterexample: the theorems about         *)
(* well-founded relations give it for a set, and a loop or a sum that      *)
(* were wrong at it would be wrong at a smaller one.                       *)
(***************************************************************************)
EXTENDS Integers, Sequences, FiniteSets, FiniteSetsExt, Functions,
        FiniteSetTheorems, FunctionTheorems, SequenceTheorems,
        WellFoundedInduction, TLAPS

(* A function on 1..n is a sequence of length n.                           *)
LEMMA FunctionIsSeq ==
  ASSUME NEW S, NEW n \in Nat, NEW f \in [1..n -> S]
  PROVE  f \in Seq(S) /\ Len(f) = n
OBVIOUS

(* A set of numbers has a smallest one.                                    *)
LEMMA Smallest ==
  ASSUME NEW T \in SUBSET Nat, T # {}
  PROVE  \E n \in T : \A m \in T : n <= m
<1>1. PICK n \in T : \A m \in T : <<m, n>> \notin OpToRel(<, Nat)
  BY NatLessThanWellFounded, WFMin
<1>2. \A m \in T : ~(m < n)
  BY <1>1 DEF OpToRel
<1> QED
  BY <1>2

-----------------------------------------------------------------------------
(* Loops.  F is the body, E the set of states in which the loop ends, and  *)
(* R the recursive function that runs it.                                  *)

IsLoop(R, S, F, E) == R = [s \in S |-> IF s \in E THEN s ELSE R[F[s]]]

(* Where it does not end, the body keeps I and makes <<a, b, c>> smaller,  *)
(* lexicographically.                                                      *)
Descends(I, F, E, a, b, c) ==
  \A s \in I \ E :
    /\ F[s] \in I
    /\ \/ a[F[s]] < a[s]
       \/ a[F[s]] = a[s] /\ b[F[s]] < b[s]
       \/ a[F[s]] = a[s] /\ b[F[s]] = b[s] /\ c[F[s]] < c[s]

(* t is a run of n steps from s.                                           *)
IsRun(S, F, E, s, n, t) ==
  /\ t \in [0..n -> S] /\ t[0] = s /\ t[n] \in E
  /\ \A i \in 0..(n - 1) : t[i] \notin E /\ t[i + 1] = F[t[i]]

Results(S, F, E, s) == {r \in E : \E n \in Nat : \E t : IsRun(S, F, E, s, n, t) /\ t[n] = r}

(* A state that does not end the loop and its successor have the same      *)
(* results.                                                                *)
LEMMA SameResults ==
  ASSUME NEW S, NEW F \in [S -> S], NEW E \in SUBSET S, NEW s \in S \ E
  PROVE  Results(S, F, E, s) = Results(S, F, E, F[s])
<1>1. ASSUME NEW r \in Results(S, F, E, s) PROVE r \in Results(S, F, E, F[s])
  <2>0. PICK n \in Nat : \E t : IsRun(S, F, E, s, n, t) /\ t[n] = r
    BY DEF Results
  <2>1. PICK t : IsRun(S, F, E, s, n, t) /\ t[n] = r
    BY <2>0
  <2>2. n # 0
    BY <2>1 DEF IsRun
  <2> DEFINE m == n - 1
             u == [i \in 0..m |-> t[i + 1]]
  <2>3. m \in Nat /\ n = m + 1 /\ \A i \in 0..m : i + 1 \in 0..n
    BY <2>2
  <2>4. u \in [0..m -> S] /\ u[m] = r /\ u[0] = F[s]
    BY <2>1, <2>3 DEF IsRun
  <2>5. ASSUME NEW i \in 0..(m - 1) PROVE u[i] \notin E /\ u[i + 1] = F[u[i]]
    <3>1. i \in 0..m /\ i + 1 \in 0..m /\ i + 1 \in 0..(n - 1)
      BY <2>3
    <3> QED
      BY <2>1, <3>1 DEF IsRun
  <2> HIDE DEF u, m
  <2>6. IsRun(S, F, E, F[s], m, u)
    BY <2>1, <2>4, <2>5 DEF IsRun
  <2> QED
    BY <2>1, <2>3, <2>4, <2>6 DEF Results
<1>2. ASSUME NEW r \in Results(S, F, E, F[s]) PROVE r \in Results(S, F, E, s)
  <2>0. PICK m \in Nat : \E u : IsRun(S, F, E, F[s], m, u) /\ u[m] = r
    BY DEF Results
  <2>1. PICK u : IsRun(S, F, E, F[s], m, u) /\ u[m] = r
    BY <2>0
  <2> DEFINE n == m + 1
             t == [i \in 0..n |-> IF i = 0 THEN s ELSE u[i - 1]]
  <2>2. n \in Nat /\ \A i \in 1..n : i - 1 \in 0..m
    OBVIOUS
  <2>3. t \in [0..n -> S] /\ t[n] = r /\ t[0] = s
    <3>1. u \in [0..m -> S] /\ n \in 1..n /\ n - 1 = m
      BY <2>1, <2>2 DEF IsRun
    <3>2. \A i \in 0..n : t[i] \in S
      BY <2>2, <3>1
    <3> QED
      BY <2>1, <2>2, <3>1, <3>2
  <2>4. ASSUME NEW i \in 0..(n - 1) PROVE t[i] \notin E /\ t[i + 1] = F[t[i]]
    <3>1. CASE i = 0
      <4>1. t[0] = s /\ t[1] = u[0]
        BY <2>2
      <4> QED
        BY <2>1, <3>1, <4>1 DEF IsRun
    <3>2. CASE i # 0
      <4>1. i - 1 \in 0..(m - 1) /\ (i - 1) + 1 = i /\ i \in 1..n /\ i + 1 \in 1..n
        BY <3>2
      <4>2. t[i] = u[i - 1] /\ t[i + 1] = u[i]
        BY <4>1
      <4> QED
        BY <2>1, <4>1, <4>2 DEF IsRun
    <3> QED
      BY <3>1, <3>2
  <2> HIDE DEF t, n
  <2>5. IsRun(S, F, E, s, n, t)
    BY <2>1, <2>3, <2>4 DEF IsRun
  <2> QED
    BY <2>1, <2>2, <2>3, <2>5 DEF Results
<1> QED
  BY <1>1, <1>2

(* The equation that defines a loop has a solution.                        *)
LEMMA LoopExists ==
  ASSUME NEW S, NEW F \in [S -> S], NEW E \in SUBSET S
  PROVE  \E R : IsLoop(R, S, F, E)
<1> DEFINE R == [s \in S |-> CHOOSE r : r \in Results(S, F, E, s)]
<1>1. ASSUME NEW s \in E PROVE R[s] = s
  <2>1. s \in Results(S, F, E, s)
    <3> DEFINE t == [i \in 0..0 |-> s]
    <3>1. IsRun(S, F, E, s, 0, t) /\ t[0] = s /\ t \in [0..0 -> S]
      BY DEF IsRun
    <3> QED
      BY <3>1 DEF Results
  <2>2. ASSUME NEW r \in Results(S, F, E, s) PROVE r = s
    <3>0. PICK n \in Nat : \E t : IsRun(S, F, E, s, n, t) /\ t[n] = r
      BY DEF Results
    <3>1. PICK t : IsRun(S, F, E, s, n, t) /\ t[n] = r
      BY <3>0
    <3>2. n = 0
      <4>1. n # 0 => 0 \in 0..(n - 1)
        OBVIOUS
      <4> QED
        BY <3>1, <4>1 DEF IsRun
    <3> QED
      BY <3>1, <3>2 DEF IsRun
  <2> QED
    BY <2>1, <2>2
<1>2. ASSUME NEW s \in S \ E PROVE R[s] = R[F[s]]
  <2>1. F[s] \in S /\ Results(S, F, E, s) = Results(S, F, E, F[s])
    BY SameResults
  <2> QED
    BY <2>1
<1>3. R = [s \in S |-> IF s \in E THEN s ELSE R[F[s]]]
  <2>1. R = [s \in S |-> R[s]]
    OBVIOUS
  <2> HIDE DEF R
  <2> QED
    BY <1>1, <1>2, <2>1
<1> QED
  BY <1>3 DEF IsLoop

(* A loop that descends ends, in I.                                        *)
LEMMA LoopEnds ==
  ASSUME NEW S, NEW F \in [S -> S], NEW E,
         NEW R, IsLoop(R, S, F, E),
         NEW I \in SUBSET S, NEW a \in [I -> Nat], NEW b \in [I -> Nat], NEW c \in [I -> Nat],
         Descends(I, F, E, a, b, c),
         NEW start \in I
  PROVE  R[start] \in I /\ R[start] \in E
<1> DEFINE Bad == {s \in I : ~(R[s] \in I /\ R[s] \in E)}
<1>1. \A s \in S : s \in E => R[s] = s
  BY DEF IsLoop
<1>2. \A s \in S : s \notin E => R[s] = R[F[s]]
  BY DEF IsLoop
<1> SUFFICES ASSUME Bad # {} PROVE FALSE
  OBVIOUS
<1>3. \A s \in Bad : s \in I \ E /\ F[s] \in Bad
  BY <1>1, <1>2 DEF Descends
<1> HIDE DEF Bad
<1>4. Bad \subseteq I
  BY DEF Bad
<1> DEFINE A == {a[s] : s \in Bad}
<1>5. PICK x \in A : \A y \in A : x <= y
  <2>1. A \in SUBSET Nat /\ A # {}
    BY <1>4
  <2> QED
    BY <2>1, Smallest
<1> DEFINE B == {b[s] : s \in {s \in Bad : a[s] = x}}
<1>6. PICK y \in B : \A z \in B : y <= z
  <2>1. B \in SUBSET Nat /\ B # {}
    BY <1>4
  <2> QED
    BY <2>1, Smallest
<1> DEFINE C == {c[s] : s \in {s \in Bad : a[s] = x /\ b[s] = y}}
<1>7. PICK z \in C : \A w \in C : z <= w
  <2>1. C \in SUBSET Nat /\ C # {}
    BY <1>4
  <2> QED
    BY <2>1, Smallest
<1>8. PICK s \in Bad : a[s] = x /\ b[s] = y /\ c[s] = z
  OBVIOUS
<1>9. F[s] \in Bad /\ a[F[s]] \in Nat /\ b[F[s]] \in Nat /\ c[F[s]] \in Nat
      /\ a[s] \in Nat /\ b[s] \in Nat /\ c[s] \in Nat
  BY <1>3, <1>4
<1>10. x <= a[F[s]]
  BY <1>5, <1>9
<1>11. a[F[s]] = x => y <= b[F[s]]
  BY <1>6, <1>9
<1>12. a[F[s]] = x /\ b[F[s]] = y => z <= c[F[s]]
  BY <1>7, <1>9
<1>13. \/ a[F[s]] < a[s]
       \/ a[F[s]] = a[s] /\ b[F[s]] < b[s]
       \/ a[F[s]] = a[s] /\ b[F[s]] = b[s] /\ c[F[s]] < c[s]
  BY <1>3 DEF Descends
<1> HIDE DEF A, B, C
<1> QED
  BY <1>8, <1>9, <1>10, <1>11, <1>12, <1>13
-----------------------------------------------------------------------------
(* Finite sets.                                                            *)

(* A non-empty set of subsets of a finite set has a member that is not in  *)
(* it any more without one of its elements, whichever.                     *)
LEMMA SmallestSet ==
  ASSUME NEW D, IsFiniteSet(D), NEW T \in SUBSET (SUBSET D), T # {}
  PROVE  \E s \in T : \A x \in s : s \ {x} \notin T
<1>1. T \subseteq FiniteSubsetsOf(D)
  BY FS_Subset DEF FiniteSubsetsOf
<1>2. PICK s \in T : \A t \in T : <<t, s>> \notin StrictSubsetOrdering(D)
  BY <1>1, FS_StrictSubsetOrderingWellFounded, WFMin
<1>3. ASSUME NEW x \in s, s \ {x} \in T PROVE FALSE
  <2>1. <<s \ {x}, s>> \in StrictSubsetOrdering(D)
    BY <1>3 DEF StrictSubsetOrdering
  <2> QED
    BY <1>2, <1>3, <2>1
<1> QED
  BY <1>3

(* A non-empty finite set of integers has a largest element.               *)
LEMMA MaxOK ==
  ASSUME NEW D \in SUBSET Int, IsFiniteSet(D), D # {}
  PROVE  Max(D) \in D /\ \A y \in D : y <= Max(D)
<1> DEFINE HasMax(s) == \E x \in s : \A y \in s : x >= y
           T == {s \in SUBSET D : s # {} /\ ~HasMax(s)}
<1>1. T = {}
  <2> SUFFICES ASSUME T # {} PROVE FALSE
    OBVIOUS
  <2>1. T \in SUBSET (SUBSET D)
    OBVIOUS
  <2>2. PICK s \in T : \A x \in s : s \ {x} \notin T
    <3> HIDE DEF T
    <3> QED
      BY <2>1, SmallestSet
  <2>3. PICK x \in s : TRUE
    OBVIOUS
  <2>4. s \ {x} # {}
    <3> SUFFICES ASSUME s \ {x} = {} PROVE FALSE
      OBVIOUS
    <3>1. \A y \in s : x >= y
      OBVIOUS
    <3> QED
      BY <3>1
  <2>5. HasMax(s \ {x})
    BY <2>2, <2>4
  <2>6. PICK m \in s \ {x} : \A y \in s \ {x} : m >= y
    BY <2>5
  <2>7. x \in Int /\ m \in Int /\ \A y \in s : y \in Int
    OBVIOUS
  <2>8. CASE m >= x
    <3>1. \A y \in s : m >= y
      BY <2>6, <2>8
    <3> QED
      BY <3>1
  <2>9. CASE x >= m
    <3>1. \A y \in s : x >= y
      BY <2>6, <2>7, <2>9
    <3> QED
      BY <3>1
  <2> QED
    BY <2>7, <2>8, <2>9
<1>2. HasMax(D)
  BY <1>1
<1>3. Max(D) \in D /\ \A y \in D : Max(D) >= y
  BY <1>2 DEF Max
<1> QED
  BY <1>3

(* The values of a function on a finite set are finitely many.             *)
LEMMA ImageFinite ==
  ASSUME NEW D, IsFiniteSet(D), NEW f
  PROVE  IsFiniteSet({f[x] : x \in D})
<1> DEFINE T == {f[x] : x \in D}
           g == [x \in D |-> f[x]]
<1>1. g \in Surjection(D, T)
  BY DEF Surjection
<1> QED
  BY <1>1, FS_Surjection

(* A list without a repetition is as long as the set of its elements.      *)
LEMMA ListSize ==
  ASSUME NEW S, NEW s \in Seq(S), \A i, j \in 1..Len(s) : s[i] = s[j] => i = j
  PROVE  /\ Range(s) = {s[i] : i \in 1..Len(s)} /\ Range(s) \subseteq S
         /\ IsFiniteSet(Range(s)) /\ Cardinality(Range(s)) = Len(s)
<1> DEFINE n == Len(s)
           T == {s[i] : i \in 1..n}
<1>1. n \in Nat /\ s \in [1..n -> S] /\ DOMAIN s = 1..n
  OBVIOUS
<1>2. Range(s) = T
  BY <1>1 DEF Range
<1>3. s \in Bijection(1..n, T)
  BY <1>1 DEF Bijection, Injection, Surjection, IsInjective
<1>4. IsFiniteSet(1..n) /\ Cardinality(1..n) = n
  <2>1. 1 \in Int /\ n \in Int
    BY <1>1
  <2>2. IsFiniteSet(1..n) /\ Cardinality(1..n) = IF 1 > n THEN 0 ELSE n - 1 + 1
    BY <2>1, FS_Interval
  <2> QED
    BY <1>1, <2>2
<1>5. ExistsBijection(1..n, T)
  BY <1>3 DEF ExistsBijection
<1>6. T \subseteq S
  BY <1>1
<1> HIDE DEF T
<1>7. IsFiniteSet(T) /\ Cardinality(T) = n
  BY <1>4, <1>5, FS_Bijection
<1> QED
  BY <1>2, <1>6, <1>7 DEF T

-----------------------------------------------------------------------------
(* Sorting.                                                                *)

(* Ranking by the number of elements before it numbers the elements of a   *)
(* finite set, ordered strictly and totally by B.                          *)
LEMMA Ranks ==
  ASSUME NEW S, IsFiniteSet(S), NEW B \in [S -> SUBSET S],
         \A x \in S : x \notin B[x],
         \A x, y \in S : x \in B[y] => B[x] \subseteq B[y],
         \A x, y \in S : x # y => x \in B[y] \/ y \in B[x]
  PROVE  /\ \A x, y \in S : x \in B[y] => Cardinality(B[x]) < Cardinality(B[y])
         /\ \A x, y \in S : Cardinality(B[x]) = Cardinality(B[y]) => x = y
         /\ \A i \in 1..Cardinality(S) : \E x \in S : Cardinality(B[x]) = i - 1
<1> DEFINE n == Cardinality(S)
           r == [x \in S |-> Cardinality(B[x])]
<1>1. n \in Nat
  BY FS_CardinalityType
<1>2. \A x \in S : IsFiniteSet(B[x]) /\ Cardinality(B[x]) \in Nat
  BY FS_Subset, FS_CardinalityType
<1>3. ASSUME NEW x \in S PROVE Cardinality(B[x]) \in 0..(n - 1)
  <2>1. B[x] \in SUBSET S /\ B[x] # S
    OBVIOUS
  <2>2. Cardinality(B[x]) <= n /\ (n = Cardinality(B[x]) => S = B[x])
    BY <2>1, FS_Subset
  <2> QED
    BY <1>1, <1>2, <2>1, <2>2
<1>4. ASSUME NEW x \in S, NEW y \in S, x \in B[y]
      PROVE  Cardinality(B[x]) < Cardinality(B[y])
  <2>1. B[x] \in SUBSET B[y] /\ B[x] # B[y]
    BY <1>4
  <2>2. /\ Cardinality(B[x]) <= Cardinality(B[y])
        /\ Cardinality(B[y]) = Cardinality(B[x]) => B[y] = B[x]
    BY <1>2, <2>1, FS_Subset
  <2> QED
    BY <1>2, <2>1, <2>2
<1>5. ASSUME NEW x \in S, NEW y \in S, Cardinality(B[x]) = Cardinality(B[y])
      PROVE  x = y
  BY <1>2, <1>4, <1>5
<1>6. IsFiniteSet(0..(n - 1)) /\ Cardinality(0..(n - 1)) = n
  <2>1. 0 \in Int /\ n - 1 \in Int
    BY <1>1
  <2>2. /\ IsFiniteSet(0..(n - 1))
        /\ Cardinality(0..(n - 1)) = IF 0 > n - 1 THEN 0 ELSE (n - 1) - 0 + 1
    BY <2>1, FS_Interval
  <2> QED
    BY <1>1, <2>2
<1>7. r \in Injection(S, 0..(n - 1))
  BY <1>3, <1>5 DEF Injection, IsInjective
<1>8. r \in Surjection(S, 0..(n - 1))
  BY <1>6, <1>7, FS_Injection
<1>9. ASSUME NEW i \in 1..n PROVE \E x \in S : Cardinality(B[x]) = i - 1
  <2>1. i - 1 \in 0..(n - 1)
    BY <1>1
  <2> QED
    BY <1>8, <2>1 DEF Surjection
<1> QED
  BY <1>4, <1>5, <1>9

(* A list of the elements by rank is complete and in order.                *)
LEMMA RankedList ==
  ASSUME NEW S, IsFiniteSet(S), NEW B \in [S -> SUBSET S],
         \A x \in S : x \notin B[x],
         \A x, y \in S : x \in B[y] => B[x] \subseteq B[y],
         \A x, y \in S : x # y => x \in B[y] \/ y \in B[x],
         NEW s, \A i \in 1..Cardinality(S) : s[i] \in S /\ Cardinality(B[s[i]]) = i - 1
  PROVE  /\ \A x \in S : \E i \in 1..Cardinality(S) : s[i] = x
         /\ \A i, j \in 1..Cardinality(S) : i < j <=> s[i] \in B[s[j]]
<1> DEFINE n == Cardinality(S)
<1>1. n \in Nat
  BY FS_CardinalityType
<1>2. /\ \A x, y \in S : x \in B[y] => Cardinality(B[x]) < Cardinality(B[y])
      /\ \A x, y \in S : Cardinality(B[x]) = Cardinality(B[y]) => x = y
  BY Ranks
<1>3. ASSUME NEW x \in S PROVE \E i \in 1..n : s[i] = x
  <2>1. Cardinality(B[x]) \in Nat /\ Cardinality(B[x]) < n
    <3>1. B[x] \in SUBSET S /\ B[x] # S
      OBVIOUS
    <3>2. IsFiniteSet(B[x]) /\ Cardinality(B[x]) <= n /\ (n = Cardinality(B[x]) => S = B[x])
      BY <3>1, FS_Subset
    <3> QED
      BY <1>1, <3>1, <3>2, FS_CardinalityType
  <2>2. Cardinality(B[x]) + 1 \in 1..n /\ (Cardinality(B[x]) + 1) - 1 = Cardinality(B[x])
    BY <1>1, <2>1
  <2> QED
    BY <1>2, <2>2
<1>4. ASSUME NEW i \in 1..n, NEW j \in 1..n
      PROVE  i < j <=> s[i] \in B[s[j]]
  <2>1. s[i] \in S /\ s[j] \in S /\ Cardinality(B[s[i]]) = i - 1 /\ Cardinality(B[s[j]]) = j - 1
    OBVIOUS
  <2>2. s[i] \in B[s[j]] => i < j
    BY <1>1, <1>2, <2>1
  <2>3. s[j] \in B[s[i]] => j < i
    BY <1>1, <1>2, <2>1
  <2>4. i < j => s[i] # s[j]
    BY <1>1, <2>1
  <2>5. i < j => s[i] \in B[s[j]]
    BY <1>1, <2>1, <2>3, <2>4
  <2> QED
    BY <2>2, <2>5
<1> QED
  BY <1>3, <1>4

-----------------------------------------------------------------------------
(* Sums of the values of a function, as the size of the area below it.     *)

Column(f, x) == {x} \X (1..f[x])
Area(f, s) == {p \in s \X Nat : p[2] \in 1..f[p[1]]}

LEMMA ColumnSize ==
  ASSUME NEW f, NEW x, f[x] \in Nat
  PROVE  IsFiniteSet(Column(f, x)) /\ Cardinality(Column(f, x)) = f[x]
<1>1. IsFiniteSet({x}) /\ Cardinality({x}) = 1
  BY FS_Singleton
<1>2. IsFiniteSet(1..f[x]) /\ Cardinality(1..f[x]) = f[x]
  <2>1. 1 \in Int /\ f[x] \in Int
    OBVIOUS
  <2>2. IsFiniteSet(1..f[x]) /\ Cardinality(1..f[x]) = IF 1 > f[x] THEN 0 ELSE f[x] - 1 + 1
    BY <2>1, FS_Interval
  <2> QED
    BY <2>2
<1>3. IsFiniteSet(Column(f, x)) /\ Cardinality(Column(f, x)) = 1 * f[x]
  <2>1. /\ IsFiniteSet({x} \X (1..f[x]))
        /\ Cardinality({x} \X (1..f[x])) = Cardinality({x}) * Cardinality(1..f[x])
    BY <1>1, <1>2, FS_Product, ZenonT(40)
  <2> QED
    BY <1>1, <1>2, <2>1 DEF Column
<1> QED
  BY <1>3

(* The area over one more element.                                         *)
LEMMA AreaStep ==
  ASSUME NEW s, NEW f, \A y \in s : f[y] \in Nat, NEW x \in s,
         IsFiniteSet(Area(f, s \ {x}))
  PROVE  /\ IsFiniteSet(Area(f, s))
         /\ Cardinality(Area(f, s)) = f[x] + Cardinality(Area(f, s \ {x}))
<1> DEFINE A == Area(f, s \ {x})
           C == Column(f, x)
<1>1. Area(f, s) = A \cup C
  <2>1. ASSUME NEW p \in Area(f, s) PROVE p \in A \cup C
    BY DEF Area, Column
  <2>2. A \subseteq Area(f, s)
    BY DEF Area
  <2>3. C \subseteq Area(f, s)
    BY DEF Area, Column
  <2> QED
    BY <2>1, <2>2, <2>3
<1>2. A \cap C = {}
  BY DEF Area, Column
<1>3. IsFiniteSet(C) /\ Cardinality(C) = f[x]
  BY ColumnSize
<1> HIDE DEF A, C
<1>4. IsFiniteSet(A) /\ Cardinality(A) \in Nat
  BY FS_CardinalityType DEF A
<1>5. /\ IsFiniteSet(A \cup C)
      /\ Cardinality(A \cup C) = Cardinality(A) + Cardinality(C) - Cardinality(A \cap C)
  BY <1>3, <1>4, FS_Union
<1>6. Cardinality(A \cap C) = 0
  BY <1>2, FS_EmptySet
<1> QED
  BY <1>1, <1>3, <1>4, <1>5, <1>6 DEF A

LEMMA AreaFinite ==
  ASSUME NEW D, IsFiniteSet(D), NEW f, \A y \in D : f[y] \in Nat
  PROVE  \A s \in SUBSET D : IsFiniteSet(Area(f, s)) /\ Cardinality(Area(f, s)) \in Nat
<1> DEFINE T == {s \in SUBSET D : ~IsFiniteSet(Area(f, s))}
<1>1. T = {}
  <2> SUFFICES ASSUME T # {} PROVE FALSE
    OBVIOUS
  <2>1. T \in SUBSET (SUBSET D)
    OBVIOUS
  <2>2. PICK s \in T : \A x \in s : s \ {x} \notin T
    <3> HIDE DEF T
    <3> QED
      BY <2>1, SmallestSet
  <2>3. s # {}
    <3>1. Area(f, {}) = {}
      BY DEF Area
    <3> QED
      BY <3>1, FS_EmptySet
  <2>4. PICK x \in s : TRUE
    BY <2>3
  <2>5. IsFiniteSet(Area(f, s \ {x}))
    BY <2>2
  <2>6. IsFiniteSet(Area(f, s))
    BY <2>5, AreaStep
  <2> QED
    BY <2>6
<1> QED
  BY <1>1, FS_CardinalityType

(* Whichever element is picked at each step, adding up one at a time       *)
(* arrives at the area.                                                    *)
LEMMA SumIsArea ==
  ASSUME NEW D, IsFiniteSet(D), NEW f \in [D -> Nat]
  PROVE  SumFunction(f) = Cardinality(Area(f, D)) /\ SumFunction(f) \in Nat
<1> DEFINE Pick(s) == CHOOSE x \in s : TRUE
           Eqn(g) == g = [s \in SUBSET D |->
                            IF s = {} THEN 0
                            ELSE f[CHOOSE x \in s : TRUE] + g[s \ {CHOOSE x \in s : TRUE}]]
           iter == CHOOSE g : Eqn(g)
           area == [s \in SUBSET D |-> Cardinality(Area(f, s))]
<1>1. SumFunction(f) = iter[D]
  BY DEF SumFunction, SumFunctionOnSet, FoldFunctionOnSet, MapThenFoldSet
<1>2. \A s \in SUBSET D : IsFiniteSet(Area(f, s)) /\ Cardinality(Area(f, s)) \in Nat
  BY AreaFinite
<1>3. area[{}] = 0
  <2>1. Area(f, {}) = {}
    BY DEF Area
  <2> QED
    BY <2>1, FS_EmptySet
<1>4. ASSUME NEW s \in SUBSET D, NEW x \in s PROVE area[s] = f[x] + area[s \ {x}]
  <2>1. IsFiniteSet(Area(f, s \ {x})) /\ \A y \in s : f[y] \in Nat
    BY <1>2
  <2>2. Cardinality(Area(f, s)) = f[x] + Cardinality(Area(f, s \ {x}))
    BY <2>1, AreaStep
  <2> QED
    BY <2>2
<1>5. area = [s \in SUBSET D |-> area[s]]
  OBVIOUS
<1> HIDE DEF area
<1>6. Eqn(area)
  <2>1. ASSUME NEW s \in SUBSET D
        PROVE  area[s] = IF s = {} THEN 0
                         ELSE f[CHOOSE x \in s : TRUE] + area[s \ {CHOOSE x \in s : TRUE}]
    <3>1. s # {} => (CHOOSE x \in s : TRUE) \in s
      OBVIOUS
    <3> QED
      BY <1>3, <1>4, <3>1
  <2> QED
    BY <1>5, <2>1
<1>7. Eqn(iter)
  BY <1>6
<1> HIDE DEF iter
<1>8. ASSUME NEW s \in SUBSET D, s # {}
      PROVE  iter[s] = f[CHOOSE x \in s : TRUE] + iter[s \ {CHOOSE x \in s : TRUE}]
  BY <1>7, <1>8
<1>9. iter[{}] = 0
  BY <1>7
<1> HIDE DEF Eqn
<1> DEFINE T == {s \in SUBSET D : iter[s] # area[s]}
<1>10. T = {}
  <2> SUFFICES ASSUME T # {} PROVE FALSE
    OBVIOUS
  <2>1. T \in SUBSET (SUBSET D)
    OBVIOUS
  <2>2. PICK s \in T : \A x \in s : s \ {x} \notin T
    <3> HIDE DEF T
    <3> QED
      BY <2>1, SmallestSet
  <2>3. s \in SUBSET D /\ iter[s] # area[s] /\ s # {}
    BY <1>3, <1>9
  <2> DEFINE x == CHOOSE y \in s : TRUE
  <2>4. x \in s
    BY <2>3
  <2>5. iter[s] = f[x] + iter[s \ {x}]
    BY <1>8, <2>3
  <2> HIDE DEF x
  <2>6. iter[s \ {x}] = area[s \ {x}]
    BY <2>2, <2>3, <2>4
  <2> QED
    BY <1>4, <2>3, <2>4, <2>5, <2>6
<1>11. iter[D] = area[D] /\ area[D] = Cardinality(Area(f, D))
  BY <1>10 DEF area
<1> QED
  BY <1>1, <1>2, <1>11

(* The sum over a part of the domain is not larger.                        *)
LEMMA SumOfPart ==
  ASSUME NEW D, IsFiniteSet(D), NEW f \in [D -> Nat],
         NEW E \in SUBSET D, NEW g \in [E -> Nat], \A x \in E : g[x] = f[x]
  PROVE  SumFunction(g) <= SumFunction(f)
<1>1. IsFiniteSet(E)
  BY FS_Subset
<1>2. Area(g, E) \in SUBSET Area(f, D)
  BY DEF Area
<1>3. IsFiniteSet(Area(f, D))
  BY AreaFinite
<1>4. Cardinality(Area(g, E)) <= Cardinality(Area(f, D))
  BY <1>2, <1>3, FS_Subset
<1> QED
  BY <1>1, <1>4, SumIsArea

(* The sets P[x], of f[x] elements each, are disjoint, and all is what is  *)
(* in them.                                                                *)
Divides(P, D, f, all) ==
  /\ IsFiniteSet(D) /\ f \in [D -> Nat] /\ P \in [D -> SUBSET all]
  /\ \A x \in D : IsFiniteSet(P[x]) /\ Cardinality(P[x]) = f[x]
  /\ \A x, y \in D : x # y => P[x] \cap P[y] = {}
  /\ \A u \in all : \E x \in D : u \in P[x]

(* The sizes of disjoint sets add up to the size of their union.           *)
LEMMA SumOfSizes ==
  ASSUME NEW P, NEW D, NEW f, NEW all, Divides(P, D, f, all)
  PROVE  IsFiniteSet(all) /\ SumFunction(f) = Cardinality(all)
<1> USE DEF Divides
<1> DEFINE A(s) == {u \in all : \E x \in s : u \in P[x]}
           T == {s \in SUBSET D : ~(/\ IsFiniteSet(A(s))
                                     /\ Cardinality(Area(f, s)) = Cardinality(A(s)))}
<1>1. T = {}
  <2> SUFFICES ASSUME T # {} PROVE FALSE
    OBVIOUS
  <2>1. T \in SUBSET (SUBSET D)
    OBVIOUS
  <2>2. PICK s \in T : \A x \in s : s \ {x} \notin T
    <3> HIDE DEF T
    <3> QED
      BY <2>1, SmallestSet
  <2>3. s # {}
    <3>1. Area(f, {}) = {} /\ A({}) = {}
      BY DEF Area
    <3> QED
      BY <3>1, FS_EmptySet
  <2>4. PICK x \in s : TRUE
    BY <2>3
  <2> DEFINE r == s \ {x}
  <2>5. IsFiniteSet(A(r)) /\ Cardinality(Area(f, r)) = Cardinality(A(r))
    BY <2>2
  <2>6. s \in SUBSET D /\ x \in D /\ r \in SUBSET D
    OBVIOUS
  <2>7. A(s) = A(r) \cup P[x]
    BY <2>6
  <2>8. A(r) \cap P[x] = {}
    BY <2>6
  <2> HIDE DEF A
  <2>9. IsFiniteSet(P[x]) /\ Cardinality(P[x]) = f[x]
    BY <2>6
  <2>10. /\ IsFiniteSet(A(r) \cup P[x])
         /\ Cardinality(A(r) \cup P[x])
              = Cardinality(A(r)) + Cardinality(P[x]) - Cardinality(A(r) \cap P[x])
    BY <2>5, <2>9, FS_Union
  <2>11. Cardinality(A(r) \cap P[x]) = 0
    BY <2>8, FS_EmptySet
  <2>12. IsFiniteSet(Area(f, r)) /\ \A y \in s : f[y] \in Nat
    BY <2>6, AreaFinite
  <2>13. Cardinality(Area(f, s)) = f[x] + Cardinality(Area(f, r))
    BY <2>12, AreaStep
  <2>14. Cardinality(A(r)) \in Nat /\ f[x] \in Nat
    BY <2>5, <2>6, FS_CardinalityType
  <2>15. IsFiniteSet(A(s)) /\ Cardinality(Area(f, s)) = Cardinality(A(s))
    BY <2>5, <2>7, <2>9, <2>10, <2>11, <2>13, <2>14
  <2> QED
    BY <2>15
<1>2. IsFiniteSet(A(D)) /\ Cardinality(Area(f, D)) = Cardinality(A(D)) /\ A(D) = all
  BY <1>1
<1> HIDE DEF T, A
<1>3. SumFunction(f) = Cardinality(A(D))
  BY <1>2, SumIsArea
<1> QED
  BY <1>2, <1>3
=============================================================================
