------------------------------- MODULE Minima -------------------------------
(***************************************************************************)
(* Least counterexamples.  The theorems of the library that state an       *)
(* induction have the statement to be proved as an operator parameter.     *)
(* Where a proof needs an induction, it supposes the set of counterexamples *)
(* nonempty and takes a least one: the lemmas here say that there is one,  *)
(* among finite sets by inclusion and among numbers, and, as consequences, *)
(* that a step can be iterated, that what is defined by recursion exists,  *)
(* and that the folds of the community modules are such definitions.       *)
(***************************************************************************)
EXTENDS Integers, FiniteSetTheorems, TLAPS

\* A nonempty family of finite sets has a member no other member is part of.
LEMMA SmallestSet ==
    ASSUME NEW F, F # {}, \A T \in F : IsFiniteSet(T)
    PROVE  \E T \in F : \A U \in F : U \subseteq T => U = T
<1> DEFINE S == UNION F
<1>1. F \subseteq FiniteSubsetsOf(S)
  BY DEF FiniteSubsetsOf
<1>2. PICK T \in F : \A U \in F : ~(<<U, T>> \in StrictSubsetOrdering(S))
  BY <1>1, FS_StrictSubsetOrderingWellFounded, WFMin
<1>3. QED BY <1>2 DEF StrictSubsetOrdering

\* A nonempty set of natural numbers has a least element.
LEMMA LeastNumber ==
    ASSUME NEW T \in SUBSET Nat, T # {}
    PROVE  \E n \in T : \A m \in T : n <= m
<1> DEFINE F == {0 .. n : n \in T}
<1>1. F # {}
  OBVIOUS
<1>2. ASSUME NEW U \in F PROVE IsFiniteSet(U)
  <2>1. PICK n \in T : U = 0 .. n
    OBVIOUS
  <2>2. n \in Int /\ 0 \in Int
    OBVIOUS
  <2>3. IsFiniteSet(0 .. n)
    BY <2>2, FS_Interval
  <2>4. QED BY <2>1, <2>3
<1>3. \E U \in F : \A V \in F : V \subseteq U => V = U
  <2> HIDE DEF F
  <2>1. \A U \in F : IsFiniteSet(U)
    BY <1>2
  <2>2. QED BY <1>1, <2>1, SmallestSet
<1>4. PICK n \in T : \A m \in T : 0 .. m \subseteq 0 .. n => 0 .. m = 0 .. n
  <2>1. PICK U \in F : \A V \in F : V \subseteq U => V = U
    BY <1>3
  <2>2. PICK n \in T : U = 0 .. n
    BY <2>1
  <2>3. \A m \in T : 0 .. m \in F
    OBVIOUS
  <2>4. \A m \in T : 0 .. m \subseteq 0 .. n => 0 .. m = 0 .. n
    BY <2>1, <2>2, <2>3
  <2>5. QED BY <2>4
<1>5. ASSUME NEW m \in T, m < n PROVE FALSE
  <2>1. 0 .. m \subseteq 0 .. n /\ n \notin 0 .. m /\ n \in 0 .. n
    BY <1>5
  <2>2. QED BY <2>1, <1>4
<1>6. QED BY <1>5

\* A set of natural numbers in which there is a smaller one for each is empty:
\* a proof by induction shows this of its counterexamples.
LEMMA Descent ==
    ASSUME NEW T \in SUBSET Nat, \A n \in T : \E m \in T : m < n
    PROVE  T = {}
<1> SUFFICES ASSUME T # {} PROVE FALSE
  OBVIOUS
<1>1. PICK n \in T : \A m \in T : n <= m
  BY LeastNumber
<1>2. PICK m \in T : m < n
  BY <1>1
<1> QED BY <1>1, <1>2

\* A nonempty finite set of natural numbers has a greatest element.
LEMMA GreatestNumber ==
    ASSUME NEW T \in SUBSET Nat, T # {}, IsFiniteSet(T)
    PROVE  \E n \in T : \A m \in T : m <= n
<1> DEFINE Above(n) == {m \in T : n < m}
           F == {Above(n) : n \in T}
<1>1. F # {}
  OBVIOUS
<1>2. ASSUME NEW U \in F PROVE IsFiniteSet(U)
  <2>1. U \in SUBSET T
    OBVIOUS
  <2> QED BY <2>1, FS_Subset
<1>3. PICK n \in T : \A m \in T : Above(m) \subseteq Above(n) => Above(m) = Above(n)
  <2>1. PICK U \in F : \A V \in F : V \subseteq U => V = U
    <3> HIDE DEF F
    <3>1. \A U \in F : IsFiniteSet(U)
      BY <1>2
    <3> QED BY <1>1, <3>1, SmallestSet
  <2>2. PICK n \in T : U = Above(n)
    BY <2>1
  <2>3. \A m \in T : Above(m) \in F
    OBVIOUS
  <2> HIDE DEF F, Above
  <2> QED BY <2>1, <2>2, <2>3
<1>4. ASSUME NEW m \in T, n < m PROVE FALSE
  <2>1. \A k \in T : m < k => n < k
    BY <1>4
  <2>2. ~(m < m)
    OBVIOUS
  <2> HIDE DEF F
  <2>3. Above(m) \subseteq Above(n)
    BY <2>1
  <2>4. m \in Above(n) /\ m \notin Above(m)
    BY <1>4, <2>2
  <2> HIDE DEF Above
  <2> QED BY <1>3, <2>3, <2>4
<1> QED BY <1>4

\* f[n] is what n applications of Step make of Start.
Iterates(f, D, Start, Step, N) ==
    /\ f \in [0 .. N -> D]
    /\ f[0] = Start
    /\ \A n \in 1 .. N : f[n] = Step[f[n - 1]]

\* A step can be applied any number of times, one after the other: what makes a
\* recursive definition over 0 .. N meaningful.
LEMMA Iteration ==
    ASSUME NEW D, NEW Start \in D, NEW Step \in [D -> D], NEW N \in Nat
    PROVE  \E f : Iterates(f, D, Start, Step, N)
<1> DEFINE Without == {k \in Nat : ~\E f : Iterates(f, D, Start, Step, k)}
<1>1. SUFFICES ASSUME Without # {} PROVE FALSE
  OBVIOUS
<1>2. PICK k \in Without : \A m \in Without : k <= m
  <2> HIDE DEF Without
  <2>1. Without \in SUBSET Nat
    BY DEF Without
  <2> QED BY <1>1, <2>1, LeastNumber
<1>3. k # 0
  <2> DEFINE c == [i \in 0 .. 0 |-> Start]
  <2>1. c \in [0 .. 0 -> D] /\ c[0] = Start /\ 1 .. 0 = {}
    OBVIOUS
  <2>2. Iterates(c, D, Start, Step, 0)
    BY <2>1 DEF Iterates
  <2>3. 0 \notin Without
    BY <2>2
  <2> HIDE DEF Without
  <2> QED BY <2>3
<1>4. k \in Nat /\ k - 1 \in Nat /\ k - 1 \notin Without
  <2>1. k \in Nat
    OBVIOUS
  <2> HIDE DEF Without
  <2> QED BY <1>2, <1>3, <2>1
<1>5. PICK f : Iterates(f, D, Start, Step, k - 1)
  BY <1>4
<1> DEFINE g == [i \in 0 .. k |-> IF i = k THEN Step[f[k - 1]] ELSE f[i]]
<1>6. g \in [0 .. k -> D]
  <2>1. \A i \in 0 .. k : i # k => i \in 0 .. k - 1
    BY <1>4
  <2>2. k - 1 \in 0 .. k - 1
    BY <1>4
  <2> QED BY <1>5, <2>1, <2>2 DEF Iterates
<1>7. g[0] = Start
  BY <1>3, <1>4, <1>5 DEF Iterates
<1>8. ASSUME NEW n \in 1 .. k PROVE g[n] = Step[g[n - 1]]
  <2>1. n - 1 \in 0 .. k /\ n - 1 # k /\ n \in 0 .. k
    BY <1>4
  <2>2. CASE n = k
    BY <2>1, <2>2
  <2>3. CASE n # k
    <3>1. n \in 1 .. k - 1
      BY <1>4, <2>3
    <3> QED BY <1>5, <2>1, <2>3, <3>1 DEF Iterates
  <2> QED BY <2>2, <2>3
<1>9. Iterates(g, D, Start, Step, k)
  BY <1>6, <1>7, <1>8 DEF Iterates
<1> QED BY <1>9

-----------------------------------------------------------------------------
(* The folds of the community modules take an arbitrary element of the set,  *)
(* then one of the rest, and so on.                                          *)

AnyOf(T) == CHOOSE x \in T : TRUE

\* f[T] is what the fold makes of the part T of S.
IsFold(f, S, base, Step) ==
    f = [T \in SUBSET S |-> IF T = {} THEN base ELSE Step[<<AnyOf(T), f[T \ {AnyOf(T)}]>>]]

\* The recursive function by which a fold over a finite set is defined exists.
LEMMA FoldExists ==
    ASSUME NEW S, IsFiniteSet(S), NEW D, NEW base \in D, NEW Step \in [S \X D -> D]
    PROVE  \E f \in [SUBSET S -> D] : IsFold(f, S, base, Step)
<1> DEFINE F == [SUBSET S -> D]
           Once(f) == [T \in SUBSET S |-> IF T = {} THEN base ELSE Step[<<AnyOf(T), f[T \ {AnyOf(T)}]>>]]
           N == Cardinality(S)
           Start == [T \in SUBSET S |-> base]
           More == [f \in F |-> Once(f)]
<1>1. \A T \in SUBSET S : /\ T # {} => AnyOf(T) \in T /\ T \ {AnyOf(T)} \in SUBSET S
                          /\ IsFiniteSet(T) /\ Cardinality(T) \in 0 .. N
  <2>1. ASSUME NEW T \in SUBSET S PROVE IsFiniteSet(T) /\ Cardinality(T) \in 0 .. N
    <3>1. IsFiniteSet(T) /\ Cardinality(T) <= N
      BY FS_Subset
    <3>2. Cardinality(T) \in Nat /\ N \in Nat
      BY <3>1, FS_CardinalityType
    <3>3. QED BY <3>1, <3>2
  <2>2. QED BY <2>1 DEF AnyOf
<1>2. N \in Nat
  BY FS_CardinalityType
<1>3. ASSUME NEW f \in F PROVE Once(f) \in F
  <2>1. ASSUME NEW T \in SUBSET S, T # {} PROVE Step[<<AnyOf(T), f[T \ {AnyOf(T)}]>>] \in D
    BY <1>1, <2>1
  <2>2. QED BY <2>1
<1>4. More \in [F -> F] /\ Start \in F
  <2> HIDE DEF F, Once
  <2>1. More \in [F -> F]
    BY <1>3
  <2>2. Start \in F
    BY DEF F
  <2>3. QED BY <2>1, <2>2
<1>5. PICK h : Iterates(h, F, Start, More, N + 1)
  <2> HIDE DEF F, Once, N, More, Start
  <2>1. N + 1 \in Nat
    BY <1>2
  <2>2. QED BY <1>4, <2>1, Iteration
<1>6. /\ \A n \in 0 .. N + 1 : h[n] \in F
      /\ \A n \in 1 .. N + 1 : h[n] = Once(h[n - 1])
  <2> HIDE DEF F, Once, N, Start
  <2>1. \A n \in 1 .. N + 1 : n - 1 \in 0 .. N + 1
    BY <1>2
  <2>2. /\ \A n \in 0 .. N + 1 : h[n] \in F
        /\ \A n \in 1 .. N + 1 : h[n] = More[h[n - 1]]
    BY <1>5 DEF Iterates
  <2>3. QED BY <2>1, <2>2
<1> DEFINE Wrong == {n \in 0 .. N : \E T \in SUBSET S : Cardinality(T) <= n /\ h[n + 1][T] # h[n][T]}
<1> HIDE DEF N
<1>7. ASSUME NEW n \in Wrong PROVE \E m \in Wrong : m < n
  <2>1. PICK T \in SUBSET S : Cardinality(T) <= n /\ h[n + 1][T] # h[n][T]
    BY <1>7
  <2>2. n \in 0 .. N /\ n + 1 \in 1 .. N + 1 /\ (n + 1) - 1 = n
    BY <1>2, <1>7
  <2>3. h[n + 1] = Once(h[n])
    <3> HIDE DEF Once
    <3>1. h[n + 1] = Once(h[(n + 1) - 1])
      BY <1>6, <2>2
    <3>2. QED BY <2>2, <3>1
  <2>4. n # 0
    <3> SUFFICES ASSUME n = 0 PROVE FALSE
      OBVIOUS
    <3>1. T = {}
      BY <1>1, <2>1, FS_EmptySet
    <3>2. h[0] = Start /\ Start[{}] = base
      BY <1>5 DEF Iterates
    <3>3. Once(h[n])[T] = base
      BY <3>1
    <3>4. QED BY <2>1, <2>3, <3>1, <3>2, <3>3
  <2>5. n \in 1 .. N + 1 /\ n - 1 \in 0 .. N /\ n - 1 < n /\ (n - 1) + 1 = n
    BY <1>2, <2>2, <2>4
  <2>6. h[n] = Once(h[n - 1])
    <3> HIDE DEF Once
    <3> QED BY <1>6, <2>5
  <2>7. T # {}
    <3> SUFFICES ASSUME T = {} PROVE FALSE
      OBVIOUS
    <3>1. Once(h[n])[T] = base /\ Once(h[n - 1])[T] = base
      OBVIOUS
    <3>2. QED BY <2>1, <2>3, <2>6, <3>1
  <2>8. PICK U : U = T \ {AnyOf(T)}
    OBVIOUS
  <2>9. U \in SUBSET S /\ Cardinality(U) <= n - 1
    <3>1. Cardinality(U) = Cardinality(T) - 1 /\ Cardinality(T) \in Nat
      BY <1>1, <2>7, <2>8, FS_RemoveElement
    <3>2. U \in SUBSET S
      BY <2>8
    <3>3. QED BY <2>1, <2>5, <3>1, <3>2
  <2>10. h[n][U] # h[n - 1][U]
    <3> SUFFICES ASSUME h[n][U] = h[n - 1][U] PROVE FALSE
      OBVIOUS
    <3>1. /\ Once(h[n])[T] = Step[<<AnyOf(T), h[n][U]>>]
          /\ Once(h[n - 1])[T] = Step[<<AnyOf(T), h[n - 1][U]>>]
      BY <2>7, <2>8
    <3>2. QED BY <2>1, <2>3, <2>6, <3>1
  <2>11. n - 1 \in Wrong
    <3> HIDE DEF Once, More
    <3> QED BY <2>5, <2>9, <2>10
  <2> HIDE DEF Wrong
  <2>12. QED BY <2>5, <2>11
<1>8. Wrong \in SUBSET Nat
  BY <1>2
<1>9. Wrong = {}
  <2> HIDE DEF Wrong
  <2> QED BY <1>7, <1>8, Descent
<1>10. N \in 0 .. N /\ N + 1 \in 1 .. N + 1 /\ (N + 1) - 1 = N /\ N \in 0 .. N + 1 /\ N + 1 \in 0 .. N + 1
  BY <1>2
<1>11. \A T \in SUBSET S : h[N + 1][T] = h[N][T]
  <2> HIDE DEF F, Once, More, Start
  <2>1. \A T \in SUBSET S : Cardinality(T) <= N
    BY <1>1, <1>2
  <2>2. QED BY <1>9, <1>10, <2>1
<1>12. h[N + 1] = Once(h[N])
  <2> HIDE DEF F, Once, More, Start, Wrong
  <2>1. h[N + 1] = Once(h[(N + 1) - 1])
    BY <1>6, <1>10
  <2>2. QED BY <1>10, <2>1
<1>13. h[N] \in F /\ h[N + 1] \in F
  <2> HIDE DEF F, Once, More, Start, Wrong
  <2> QED BY <1>6, <1>10
<1>14. h[N] = h[N + 1]
  BY <1>11, <1>13
<1>15. QED BY <1>12, <1>13, <1>14 DEF IsFold

-----------------------------------------------------------------------------
(* Recursive definitions over anything that has a depth.                     *)

Endless(f, D, Start, Step) ==
    /\ f \in [Nat -> D]
    /\ f[0] = Start
    /\ \A n \in Nat : f[n + 1] = Step[f[n]]

\* A step can be applied again and again.
LEMMA EndlessIteration ==
    ASSUME NEW D, NEW Start \in D, NEW Step \in [D -> D]
    PROVE  \E f : Endless(f, D, Start, Step)
<1> DEFINE Upto(n) == CHOOSE f : Iterates(f, D, Start, Step, n)
           g == [n \in Nat |-> Upto(n)[n]]
<1>1. ASSUME NEW n \in Nat PROVE Iterates(Upto(n), D, Start, Step, n)
  BY Iteration
<1> HIDE DEF Upto
<1>2. g \in [Nat -> D]
  BY <1>1 DEF Iterates
<1>3. g[0] = Start
  BY <1>1 DEF Iterates
<1>4. ASSUME NEW n \in Nat PROVE g[n + 1] = Step[g[n]]
  <2> DEFINE Differ == {k \in 0 .. n : Upto(n)[k] # Upto(n + 1)[k]}
  <2>1. ASSUME NEW k \in Differ PROVE \E m \in Differ : m < k
    <3>1. Upto(n)[0] = Start /\ Upto(n + 1)[0] = Start /\ k \in 0 .. n
      BY <1>1 DEF Iterates
    <3>2. k # 0
      BY <3>1
    <3>3. k \in 1 .. n /\ k \in 1 .. n + 1 /\ k - 1 \in 0 .. n /\ k - 1 < k
      BY <3>1, <3>2
    <3>4. Upto(n)[k] = Step[Upto(n)[k - 1]] /\ Upto(n + 1)[k] = Step[Upto(n + 1)[k - 1]]
      BY <1>1, <3>3 DEF Iterates
    <3>5. k - 1 \in Differ
      BY <3>3, <3>4
    <3>6. QED BY <3>3, <3>5
  <2>2. Differ \in SUBSET Nat
    OBVIOUS
  <2>3. Differ = {}
    <3> HIDE DEF Differ
    <3> QED BY <2>1, <2>2, Descent
  <2>4. Upto(n + 1)[n + 1] = Step[Upto(n + 1)[(n + 1) - 1]]
    BY <1>1 DEF Iterates
  <2>5. (n + 1) - 1 = n /\ n \in 0 .. n /\ n + 1 \in Nat
    OBVIOUS
  <2>6. Upto(n)[n] = Upto(n + 1)[n]
    BY <2>3, <2>5
  <2>7. QED BY <2>4, <2>5, <2>6
<1> HIDE DEF g
<1>5. Endless(g, D, Start, Step)
  BY <1>2, <1>3, <1>4 DEF Endless
<1>6. QED BY <1>5

\* The functions on S whose value at x is one of those E allows there.
Typed(S, D, E) == {f \in [S -> D] : \A x \in S : f[x] \in E[x]}

\* Step makes of a function one whose value at x depends on the values at less depth.
Deepens(Step, S, F, depth) ==
    /\ Step \in [F -> F] /\ depth \in [S -> Nat]
    /\ \A f, g \in F : \A x \in S :
          (\A y \in S : depth[y] < depth[x] => f[y] = g[y]) => Step[f][x] = Step[g][x]

\* A function that is defined at x by its values at less depth exists.
LEMMA RecursionExists ==
    ASSUME NEW S, NEW D, NEW E \in [S -> SUBSET D], \A x \in S : E[x] # {},
           NEW Step, NEW depth, Deepens(Step, S, Typed(S, D, E), depth)
    PROVE  \E f \in Typed(S, D, E) : f = Step[f]
<1> DEFINE F == Typed(S, D, E)
           Start == [x \in S |-> CHOOSE v : v \in E[x]]
<1>1. Step \in [F -> F] /\ depth \in [S -> Nat]
  BY DEF Deepens
<1>2. ASSUME NEW f \in F, NEW g \in F, NEW x \in S, \A y \in S : depth[y] < depth[x] => f[y] = g[y]
      PROVE  Step[f][x] = Step[g][x]
  BY <1>2 DEF Deepens
<1>3. Start \in F
  <2>1. \A x \in S : (CHOOSE v : v \in E[x]) \in E[x]
    OBVIOUS
  <2>2. QED BY <2>1 DEF Typed
<1> HIDE DEF Start
<1>4. PICK h : Endless(h, F, Start, Step)
  <2> HIDE DEF F
  <2>1. Step \in [F -> F] /\ Start \in F
    BY <1>1, <1>3
  <2>2. QED BY ONLY <2>1, EndlessIteration
<1> DEFINE Wrong == {n \in Nat : \E x \in S, i, j \in Nat : depth[x] = n /\ n <= i /\ n <= j
                                                           /\ h[i + 1][x] # h[j + 1][x]}
<1>5. ASSUME NEW n \in Wrong PROVE \E m \in Wrong : m < n
  <2>1. PICK x \in S, i \in Nat, j \in Nat : depth[x] = n /\ n <= i /\ n <= j
                                             /\ h[i + 1][x] # h[j + 1][x]
    BY <1>5
  <2>2. h[i] \in F /\ h[j] \in F /\ h[i + 1] = Step[h[i]] /\ h[j + 1] = Step[h[j]]
    <3> HIDE DEF F
    <3> QED BY <1>4 DEF Endless
  <2>3. PICK y \in S : depth[y] < depth[x] /\ h[i][y] # h[j][y]
    <3> HIDE DEF F
    <3> QED BY <1>2, <2>1, <2>2
  <2>4. depth[y] \in Nat /\ depth[y] < n /\ i - 1 \in Nat /\ j - 1 \in Nat
    BY <1>1, <2>1, <2>3
  <2>5. depth[y] <= i - 1 /\ depth[y] <= j - 1 /\ (i - 1) + 1 = i /\ (j - 1) + 1 = j
    BY <2>1, <2>4
  <2>6. depth[y] \in Wrong
    BY <2>3, <2>4, <2>5
  <2> HIDE DEF Wrong
  <2>7. QED BY <2>4, <2>6
<1>6. Wrong = {}
  <2>1. Wrong \in SUBSET Nat
    OBVIOUS
  <2> HIDE DEF Wrong
  <2>2. QED BY <1>5, <2>1, Descent
<1>7. ASSUME NEW x \in S, NEW i \in Nat, NEW j \in Nat, depth[x] <= i, depth[x] <= j
      PROVE  h[i + 1][x] = h[j + 1][x]
  BY <1>1, <1>6, <1>7
<1> HIDE DEF Wrong
<1> DEFINE f == [x \in S |-> h[depth[x] + 1][x]]
<1>8. f \in F
  <2>1. \A x \in S : h[depth[x] + 1] \in F
    <3> HIDE DEF F
    <3> QED BY <1>1, <1>4 DEF Endless
  <2>2. \A x \in S : h[depth[x] + 1][x] \in D /\ h[depth[x] + 1][x] \in E[x]
    BY <2>1 DEF Typed
  <2>3. QED BY <2>2 DEF Typed
<1>9. ASSUME NEW x \in S PROVE f[x] = Step[f][x]
  <2>1. depth[x] \in Nat /\ h[depth[x]] \in F /\ f[x] = Step[h[depth[x]]][x]
    <3> HIDE DEF F
    <3> QED BY <1>1, <1>4 DEF Endless
  <2>2. ASSUME NEW y \in S, depth[y] < depth[x] PROVE h[depth[x]][y] = f[y]
    <3>1. depth[y] \in Nat /\ depth[x] - 1 \in Nat /\ depth[y] <= depth[x] - 1 /\ depth[y] <= depth[y]
          /\ (depth[x] - 1) + 1 = depth[x]
      BY <1>1, <2>1, <2>2
    <3>2. h[depth[x] - 1 + 1][y] = h[depth[y] + 1][y]
      BY <1>7, <3>1
    <3>3. QED BY <3>1, <3>2
  <2> HIDE DEF F, f
  <2>3. QED BY <1>2, <1>8, <2>1, <2>2
<1>10. f = Step[f]
  <2>1. Step[f] \in F
    <3> HIDE DEF F, f
    <3> QED BY <1>1, <1>8
  <2>2. Step[f] = [x \in S |-> Step[f][x]]
    <3> HIDE DEF f
    <3> QED BY <2>1 DEF Typed
  <2>3. f = [x \in S |-> f[x]]
    BY <1>8 DEF Typed
  <2> HIDE DEF F, f
  <2>4. QED BY <1>9, <2>2, <2>3
<1>11. QED BY <1>8, <1>10

-----------------------------------------------------------------------------
(* The folds over sequences take the last element of the sequence, then the  *)
(* one before it, and so on.                                                 *)

Greatest(T) == CHOOSE x \in T : \A y \in T : x >= y

\* f[T] is what a fold from the left makes of the elements at the positions T.
IsLeftFold(f, n, base, Step) ==
    f = [T \in SUBSET (1 .. n) |-> IF T = {} THEN base
                                   ELSE Step[<<f[T \ {Greatest(T)}], Greatest(T)>>]]

\* The greatest of some positions is one of them, and no other is greater.
LEMMA GreatestFacts ==
    ASSUME NEW n \in Nat, NEW T \in SUBSET (1 .. n), T # {}
    PROVE  /\ Greatest(T) \in T /\ \A y \in T : y <= Greatest(T)
           /\ T \ {Greatest(T)} \in SUBSET (1 .. n)
<1>1. T \in SUBSET Nat /\ IsFiniteSet(T)
  <2>1. IsFiniteSet(1 .. n)
    <3>1. 1 \in Int /\ n \in Int
      OBVIOUS
    <3>2. QED BY <3>1, FS_Interval
  <2>2. IsFiniteSet(T)
    BY <2>1, FS_Subset
  <2>3. T \in SUBSET Nat
    OBVIOUS
  <2>4. QED BY <2>2, <2>3
<1>2. PICK x \in T : \A y \in T : y <= x
  BY <1>1, GreatestNumber
<1>3. \A y \in T : x >= y
  BY <1>1, <1>2
<1>4. Greatest(T) \in T /\ \A y \in T : Greatest(T) >= y
  BY <1>3 DEF Greatest
<1>5. QED BY <1>1, <1>4

\* The recursive function by which a fold from the left is defined exists.
LEMMA LeftFoldExists ==
    ASSUME NEW n \in Nat, NEW D, NEW base \in D, NEW Step \in [D \X (1 .. n) -> D]
    PROVE  \E f \in [SUBSET (1 .. n) -> D] : IsLeftFold(f, n, base, Step)
<1> DEFINE S == SUBSET (1 .. n)
           E == [T \in S |-> D]
           F == Typed(S, D, E)
           Once(f) == [T \in S |-> IF T = {} THEN base ELSE Step[<<f[T \ {Greatest(T)}], Greatest(T)>>]]
           More == [f \in F |-> Once(f)]
           depth == [T \in S |-> IF T = {} THEN 0 ELSE Greatest(T)]
<1>1. F = [S -> D]
  BY DEF Typed
<1>2. \A T \in S : T # {} => Greatest(T) \in T /\ T \ {Greatest(T)} \in S /\ Greatest(T) \in 1 .. n
                             /\ \A y \in T : y <= Greatest(T)
  BY GreatestFacts
<1>3. depth \in [S -> Nat]
  BY <1>2
<1>4. ASSUME NEW f \in F PROVE Once(f) \in F
  <2>1. ASSUME NEW T \in S, T # {} PROVE Step[<<f[T \ {Greatest(T)}], Greatest(T)>>] \in D
    BY <1>1, <1>2, <2>1
  <2> HIDE DEF F, S
  <2>2. QED BY <1>1, <2>1
<1>5. More \in [F -> F]
  <2> HIDE DEF F, Once
  <2> QED BY <1>4
<1>6. ASSUME NEW T \in S, T # {} PROVE depth[T \ {Greatest(T)}] < depth[T]
  <2>1. PICK g, U : g = Greatest(T) /\ U = T \ {g}
    OBVIOUS
  <2>2. g \in T /\ U \in S /\ g \in 1 .. n /\ g \notin U /\ \A y \in T : y <= g
    BY <1>2, <1>6, <2>1
  <2>3. depth[T] = g /\ depth[U] = IF U = {} THEN 0 ELSE Greatest(U)
    BY <1>6, <2>1, <2>2
  <2>4. U # {} => Greatest(U) \in U /\ Greatest(U) \in 1 .. n
    BY <1>2, <2>2
  <2> HIDE DEF depth, S, E, F, Once, More
  <2>5. U # {} => Greatest(U) < g
    BY <2>1, <2>2, <2>4
  <2>6. depth[U] < depth[T]
    BY <2>2, <2>3, <2>5
  <2>7. QED BY <2>1, <2>6
<1>7. ASSUME NEW f \in F, NEW g \in F, NEW T \in S, \A U \in S : depth[U] < depth[T] => f[U] = g[U]
      PROVE  More[f][T] = More[g][T]
  <2>1. More[f] = Once(f) /\ More[g] = Once(g)
    <3> HIDE DEF F, Once
    <3> QED OBVIOUS
  <2>2. T # {} => f[T \ {Greatest(T)}] = g[T \ {Greatest(T)}]
    <3> HIDE DEF F, Once, More, depth, S
    <3> QED BY <1>2, <1>6, <1>7
  <2> HIDE DEF F, More, depth
  <2>3. Once(f)[T] = Once(g)[T]
    BY <2>2
  <2>4. QED BY <2>1, <2>3
<1>8. Deepens(More, S, F, depth)
  <2> HIDE DEF F, S, More, depth
  <2> QED BY <1>3, <1>5, <1>7 DEF Deepens
<1>9. PICK f \in F : f = More[f]
  <2>1. E \in [S -> SUBSET D] /\ \A T \in S : E[T] # {}
    OBVIOUS
  <2> HIDE DEF S, E, More, depth
  <2>2. Deepens(More, S, Typed(S, D, E), depth)
    BY <1>8
  <2>3. \E f \in Typed(S, D, E) : f = More[f]
    BY ONLY <2>1, <2>2, RecursionExists
  <2>4. QED BY <2>3
<1>10. f = Once(f)
  <2> HIDE DEF F, Once
  <2> QED BY <1>9
<1>11. QED BY <1>1, <1>9, <1>10 DEF IsLeftFold

\* The first k positions are the first k - 1 and the greatest.
LEMMA FirstPositions ==
    ASSUME NEW n \in Nat, NEW k \in 1 .. n
    PROVE  /\ 1 .. k \in SUBSET (1 .. n) /\ 1 .. k # {} /\ Greatest(1 .. k) = k
           /\ (1 .. k) \ {Greatest(1 .. k)} = 1 .. k - 1
<1>1. 1 .. k \in SUBSET (1 .. n) /\ 1 .. k # {} /\ k \in 1 .. k
  OBVIOUS
<1>2. Greatest(1 .. k) \in 1 .. k /\ \A y \in 1 .. k : y <= Greatest(1 .. k)
  BY <1>1, GreatestFacts
<1>3. Greatest(1 .. k) = k
  BY <1>1, <1>2
<1>4. QED BY <1>1, <1>3
=============================================================================
