------------------------- MODULE TransformerProofs -------------------------
(***************************************************************************)
(* Every path the transformer ever holds is a chain of registered          *)
(* transformations from the source to the destination, for any number of   *)
(* types and any set of transformations: joining two chains at their        *)
(* common type gives a chain, and registering more transformations keeps   *)
(* every chain.  Each pass of the search settles the pairs whose shortest  *)
(* chain is as long as the pass; so a pair that is worked on is unsettled, *)
(* paths only shrink, and when the search ends all of them are shortest.   *)
(***************************************************************************)
EXTENDS Transformer, Minima, TLAPS

USE NumTypesAssumption

\* What the items of work may rely on: the types, and that a pair's path is
\* nonempty whenever it is there.
IInv == TypeOK /\ PathsAreWalks

\* What the loop chooses is a type at which the pair's path can be joined.
LEMMA ChosenIsIntermediate ==
    ASSUME NEW p \in Pairs, NEW i \in Chosen(p)
    PROVE  i \in Intermediates(p)
<1>1. Exact(p) \subseteq Intermediates(p) /\ Shorter(p) \subseteq Intermediates(p)
  BY DEF Exact, Shorter
<1>2. CASE Exact(p) # {} /\ (Found(p) => minLength < Len(paths[p]))
  BY <1>1, <1>2 DEF Chosen
<1>3. CASE Exact(p) = {} /\ ~Found(p)
  BY <1>1, <1>3 DEF Chosen
<1>4. CASE /\ ~(Exact(p) # {} /\ (Found(p) => minLength < Len(paths[p])))
           /\ ~(Exact(p) = {} /\ ~Found(p))
  BY <1>1, <1>4 DEF Chosen
<1>5. QED BY <1>2, <1>3, <1>4

\* The elements of a concatenation.
LEMMA ConcatElements ==
    ASSUME NEW S, NEW a \in Seq(S), NEW b \in Seq(S)
    PROVE  /\ a \o b \in Seq(S)
           /\ Len(a \o b) = Len(a) + Len(b)
           /\ \A k \in 1 .. Len(a) : (a \o b)[k] = a[k]
           /\ \A k \in Len(a) + 1 .. Len(a) + Len(b) : (a \o b)[k] = b[k - Len(a)]
OBVIOUS

\* Two walks that meet make a walk.
LEMMA WalksMeet ==
    ASSUME NEW s \in Types, NEW i \in Types, NEW d \in Types,
           NEW a \in Seq(Types), NEW b \in Seq(Types), a # <<>>, b # <<>>,
           IsWalk(<<s, i>>, a), IsWalk(<<i, d>>, b)
    PROVE  IsWalk(<<s, d>>, a \o b)
<1>1. PICK m, n : m \in Nat \ {0} /\ n \in Nat \ {0} /\ m = Len(a) /\ n = Len(b)
  <2>1. Len(a) \in Nat \ {0} /\ Len(b) \in Nat \ {0}
    OBVIOUS
  <2>2. QED BY <2>1
<1>2. PICK j : j = a \o b
  OBVIOUS
<1>3. /\ Len(j) = m + n
      /\ \A k \in 1 .. m : j[k] = a[k]
      /\ \A k \in m + 1 .. m + n : j[k] = b[k - m]
  BY <1>1, <1>2, ConcatElements
<1>4. a[m] = i /\ b[n] = d
  BY <1>1 DEF IsWalk
<1>5. /\ \A k \in 1 .. m : <<IF k = 1 THEN s ELSE a[k - 1], a[k]>> \in transformations
      /\ \A k \in 1 .. n : <<IF k = 1 THEN i ELSE b[k - 1], b[k]>> \in transformations
  BY <1>1 DEF IsWalk
<1>6. j[Len(j)] = d
  <2>1. m + n \in m + 1 .. m + n /\ (m + n) - m = n
    BY <1>1
  <2>2. QED BY <1>3, <1>4, <2>1
<1>7. ASSUME NEW k \in 1 .. m + n
      PROVE  <<IF k = 1 THEN s ELSE j[k - 1], j[k]>> \in transformations
  <2>1. CASE k <= m
    <3>1. k \in 1 .. m /\ (k # 1 => k - 1 \in 1 .. m)
      BY <1>1, <2>1
    <3>2. j[k] = a[k] /\ (k # 1 => j[k - 1] = a[k - 1])
      BY <1>3, <3>1
    <3>3. QED BY <1>5, <3>1, <3>2
  <2>2. CASE k = m + 1
    <3>1. /\ k # 1 /\ k \in m + 1 .. m + n /\ k - m = 1
          /\ k - 1 = m /\ m \in 1 .. m /\ 1 \in 1 .. n
      BY <1>1, <2>2
    <3>2. j[k - 1] = i /\ j[k] = b[1]
      BY <1>3, <1>4, <3>1
    <3>3. <<i, b[1]>> \in transformations
      BY <1>5, <3>1
    <3>4. QED BY <3>1, <3>2, <3>3
  <2>3. CASE k > m + 1
    <3>1. PICK l : l = k - m
      OBVIOUS
    <3>2. /\ k # 1 /\ k \in m + 1 .. m + n /\ k - 1 \in m + 1 .. m + n
          /\ (k - 1) - m = l - 1 /\ l \in 1 .. n /\ l # 1
      BY <1>1, <2>3, <3>1
    <3>3. j[k - 1] = b[l - 1] /\ j[k] = b[l]
      BY <1>3, <3>1, <3>2
    <3>4. <<b[l - 1], b[l]>> \in transformations
      BY <1>5, <3>2
    <3>5. QED BY <3>2, <3>3, <3>4
  <2>4. QED BY <1>1, <2>1, <2>2, <2>3
<1>8. QED BY <1>2, <1>3, <1>6, <1>7 DEF IsWalk

\* Joining at the type the inner loop chose makes a chain of two.
LEMMA JoinIsWalk ==
    ASSUME TypeOK, PathsAreWalks, NEW p \in Pairs, NEW i \in Intermediates(p)
    PROVE  Join(p, i) \in Seq(Types) /\ IsWalk(p, Join(p, i))
<1>1. /\ p[1] \in Types /\ p[2] \in Types /\ i \in Types
      /\ p = <<p[1], p[2]>> /\ <<p[1], i>> \in Pairs /\ <<i, p[2]>> \in Pairs
  BY DEF Intermediates, Pairs
<1>2. PICK a, b : a = paths[<<p[1], i>>] /\ b = paths[<<i, p[2]>>]
  OBVIOUS
<1>3. a \in Seq(Types) /\ b \in Seq(Types)
  BY <1>1, <1>2 DEF TypeOK
<1>4. a # <<>> /\ b # <<>>
  BY <1>2 DEF Intermediates, Found, NoPath
<1>5. IsWalk(<<p[1], i>>, a) /\ IsWalk(<<i, p[2]>>, b)
  BY <1>1, <1>2, <1>4 DEF PathsAreWalks, Found, NoPath
<1>6. IsWalk(p, a \o b)
  BY <1>1, <1>3, <1>4, <1>5, WalksMeet
<1>7. a \o b \in Seq(Types) /\ Join(p, i) = a \o b
  BY <1>2, <1>3, ConcatElements DEF Join
<1>8. QED BY <1>6, <1>7

\* Nothing is registered at first.
LEMMA InitIInv == Init => IInv
BY DEF Init, IInv, TypeOK, PathsAreWalks, Found, NoPath

\* Every step keeps chains chains and types types.
LEMMA NextIInv == IInv /\ [Next]_vars => IInv'
<1> SUFFICES ASSUME IInv, [Next]_vars PROVE IInv'
  OBVIOUS
<1> USE DEF IInv
<1>1. ASSUME NEW t \in Registrable, AddTransformation(t) PROVE IInv'
  <2>1. TypeOK'
    BY <1>1, RegistrableAssumption DEF AddTransformation, TypeOK
  <2>2. transformations \subseteq transformations' /\ paths' = paths
    BY <1>1 DEF AddTransformation
  <2>3. PathsAreWalks'
    BY <2>2 DEF PathsAreWalks, IsWalk, Found
  <2>4. QED BY <2>1, <2>3
<1>2. ASSUME StartSearch PROVE IInv'
  <2>1. paths' = [p \in Pairs |-> IF p \in transformations THEN <<p[2]>> ELSE NoPath]
    BY <1>2 DEF StartSearch
  <2>2. ASSUME NEW p \in Pairs PROVE <<p[2]>> \in Seq(Types)
    BY DEF Pairs
  <2>3. paths' \in [Pairs -> Seq(Types)]
    BY <2>1, <2>2 DEF NoPath
  <2>4. TypeOK'
    BY <1>2, <2>3 DEF StartSearch, TypeOK
  <2>5. ASSUME NEW p \in Pairs, Found(p)' PROVE IsWalk(p, paths[p])'
    <3>1. p \in transformations /\ paths'[p] = <<p[2]>>
      BY <2>1, <2>5 DEF Found, NoPath
    <3>2. transformations' = transformations /\ p = <<p[1], p[2]>>
      BY <1>2 DEF StartSearch, Pairs
    <3>3. Len(paths'[p]) = 1 /\ paths'[p][1] = p[2]
      BY <3>1
    <3>4. QED BY <3>1, <3>2, <3>3 DEF IsWalk
  <2>6. QED BY <2>4, <2>5 DEF PathsAreWalks
<1>3. ASSUME NEW p \in Pairs, Work(p) PROVE IInv'
  <2>1. transformations' = transformations
    BY <1>3 DEF Work
  <2>2. ASSUME UNCHANGED paths PROVE IInv'
    BY <1>3, <2>2 DEF Work, TypeOK, PathsAreWalks, IsWalk, Found
  <2>3. ASSUME NEW i \in Chosen(p), paths' = [paths EXCEPT ![p] = Join(p, i)] PROVE IInv'
    <3>1. /\ Join(p, i) \in Seq(Types)
          /\ IsWalk(p, Join(p, i))
      BY JoinIsWalk, ChosenIsIntermediate
    <3>2. paths' \in [Pairs -> Seq(Types)]
      BY <2>3, <3>1 DEF TypeOK
    <3>3. TypeOK'
      BY <1>3, <3>2 DEF Work, TypeOK
    <3>4. ASSUME NEW q \in Pairs, Found(q)' PROVE IsWalk(q, paths[q])'
      <4>1. CASE q = p
        BY <2>1, <2>3, <3>1, <4>1 DEF TypeOK, IsWalk
      <4>2. CASE q # p
        BY <2>1, <2>3, <3>4, <4>2 DEF TypeOK, PathsAreWalks, IsWalk, Found
      <4>3. QED BY <4>1, <4>2
    <3>5. QED BY <3>3, <3>4 DEF PathsAreWalks
  <2>4. QED BY <1>3, <2>2, <2>3 DEF Work
<1>4. ASSUME NextPass PROVE IInv'
  BY <1>4 DEF NextPass, TypeOK, PathsAreWalks, IsWalk, Found
<1>5. ASSUME Ready PROVE IInv'
  BY <1>5 DEF Ready, TypeOK, PathsAreWalks, IsWalk, Found
<1>6. ASSUME UNCHANGED vars PROVE IInv'
  BY <1>6 DEF vars, TypeOK, PathsAreWalks, IsWalk, Found
<1>7. QED BY <1>1, <1>2, <1>3, <1>4, <1>5, <1>6 DEF Next, Terminated

\* Paths only ever lead from the pair's source to its destination by registered
\* transformations: transform never fails to select one.
THEOREM Walks == Spec => []PathsAreWalks
<1>1. IInv => PathsAreWalks
  BY DEF IInv
<1>2. QED BY InitIInv, NextIInv, <1>1, PTL DEF Spec

\* The paths, the queues and the pass keep their types.
THEOREM TransformerTypes == Spec => []TypeOK
<1>1. IInv => TypeOK
  BY DEF IInv
<1>2. QED BY InitIInv, NextIInv, <1>1, PTL DEF Spec

-----------------------------------------------------------------------------
(* The work queues                                                          *)

\* A pair that is waiting has no path that is short enough for its pass.
WorkInv ==
    /\ current \cap later = {}
    /\ minLength >= 2
    /\ phase = "register" => current = {} /\ later = {} /\ minLength = 2
    /\ \A p \in current : Found(p) => Len(paths[p]) >= minLength
    /\ \A p \in later : Found(p) => Len(paths[p]) > minLength

\* What a pass has settled: a pair that is in no queue has a path as short as the
\* pass, pairs connected by fewer transformations have a shortest path, and what
\* has been put back is not connected by as many transformations.
SearchInv ==
    /\ phase # "register" =>
          /\ \A p \in Pairs \ (current \cup later) : Found(p) /\ Len(paths[p]) <= minLength
          /\ \A k \in 1 .. NumTypes : k < minLength =>
                \A p \in Within[k] : Found(p) /\ Len(paths[p]) <= k
          /\ minLength <= NumTypes => later \cap Within[minLength] = {}
    /\ phase = "ready" => minLength >= NumTypes

\* A joined path is at least as long as its two parts together, each one step or
\* more.
LEMMA JoinLength ==
    ASSUME TypeOK, NEW p \in Pairs, NEW i \in Intermediates(p)
    PROVE  /\ <<p[1], i>> \in Pairs /\ <<i, p[2]>> \in Pairs
           /\ Len(paths[<<p[1], i>>]) \in Nat \ {0} /\ Len(paths[<<i, p[2]>>]) \in Nat \ {0}
           /\ Len(Join(p, i)) = Len(paths[<<p[1], i>>]) + Len(paths[<<i, p[2]>>])
           /\ Len(Join(p, i)) \in Nat /\ Len(Join(p, i)) >= 2
           /\ Join(p, i) \in Seq(Types) /\ Join(p, i) # NoPath
<1>1. /\ p[1] \in Types /\ p[2] \in Types /\ i \in Types
      /\ <<p[1], i>> \in Pairs /\ <<i, p[2]>> \in Pairs
  BY DEF Intermediates, Pairs
<1>2. PICK a, b : a = paths[<<p[1], i>>] /\ b = paths[<<i, p[2]>>]
  OBVIOUS
<1>3. a \in Seq(Types) /\ b \in Seq(Types)
  BY <1>1, <1>2 DEF TypeOK
<1>4. a # <<>> /\ b # <<>>
  BY <1>2 DEF Intermediates, Found, NoPath
<1>5. Len(a) \in Nat \ {0} /\ Len(b) \in Nat \ {0}
  BY <1>3, <1>4
<1>6. Join(p, i) = a \o b /\ Join(p, i) \in Seq(Types) /\ Len(Join(p, i)) = Len(a) + Len(b)
  BY <1>2, <1>3, ConcatElements DEF Join
<1>7. Join(p, i) # NoPath
  BY <1>5, <1>6 DEF NoPath
<1>8. Len(a) + Len(b) \in Nat /\ Len(a) + Len(b) >= 2
  BY <1>5
<1>9. Len(Join(p, i)) \in Nat /\ Len(Join(p, i)) >= 2
  BY ONLY <1>6, <1>8
<1>10. QED BY ONLY <1>1, <1>2, <1>5, <1>6, <1>7, <1>9

\* What an item of work does to the pair's path: a path that is there is kept or
\* becomes shorter.
LEMMA WorkOnPath ==
    ASSUME TypeOK, NEW p \in Pairs, Work(p)
    PROVE  /\ \A q \in Pairs : q # p => paths'[q] = paths[q]
           /\ \/ Chosen(p) = {} /\ paths'[p] = paths[p]
              \/ \E i \in Chosen(p) : i \in Intermediates(p) /\ paths'[p] = Join(p, i)
<1>1. CASE Chosen(p) = {} /\ UNCHANGED paths
  BY <1>1
<1>2. ASSUME NEW i \in Chosen(p), paths' = [paths EXCEPT ![p] = Join(p, i)]
      PROVE  /\ \A q \in Pairs : q # p => paths'[q] = paths[q]
             /\ i \in Intermediates(p) /\ paths'[p] = Join(p, i)
  BY <1>2, ChosenIsIntermediate DEF TypeOK
<1>3. QED BY <1>1, <1>2 DEF Work

\* A path is only ever replaced by a shorter one.
LEMMA WorkShrinks ==
    ASSUME TypeOK, NEW p \in Pairs, Found(p), NEW i \in Chosen(p), minLength >= 2
    PROVE  Len(Join(p, i)) \in 1 .. Len(paths[p]) - 1
<1>1. i \in Intermediates(p) /\ Len(Join(p, i)) \in Nat /\ Len(Join(p, i)) >= 2
  BY ChosenIsIntermediate, JoinLength
<1>2. Len(paths[p]) \in Nat
  BY DEF TypeOK
<1>3. CASE Exact(p) # {} /\ (Found(p) => minLength < Len(paths[p]))
  <2>1. i \in Exact(p)
    BY <1>3 DEF Chosen
  <2>2. Len(Join(p, i)) = minLength
    BY <2>1 DEF Exact
  <2>3. QED BY <1>1, <1>2, <1>3, <2>2
<1>4. CASE /\ ~(Exact(p) # {} /\ (Found(p) => minLength < Len(paths[p])))
           /\ ~(Exact(p) = {} /\ ~Found(p))
  <2>1. i \in Shorter(p)
    BY <1>4 DEF Chosen
  <2>2. Len(Join(p, i)) < Len(paths[p])
    BY <2>1 DEF Shorter
  <2>3. QED BY <1>1, <1>2, <2>2
<1>5. QED BY <1>3, <1>4

\* No work is queued at first.
LEMMA InitWorkInv == Init => WorkInv
BY DEF Init, WorkInv, Found

\* Every step keeps paths of queued pairs at least as long as the pass.
LEMMA NextWorkInv == IInv /\ WorkInv /\ [Next]_vars => WorkInv'
<1> SUFFICES ASSUME IInv, WorkInv, [Next]_vars PROVE WorkInv'
  OBVIOUS
<1>0. TypeOK /\ minLength \in Nat
  BY DEF IInv, TypeOK
<1>1. ASSUME NEW t \in Registrable, AddTransformation(t) PROVE WorkInv'
  BY <1>1 DEF AddTransformation, WorkInv, Found
<1>2. ASSUME StartSearch PROVE WorkInv'
  <2>1. ASSUME NEW p \in current', Found(p)' PROVE FALSE
    <3>1. p \in Pairs /\ p \notin transformations
      BY <1>2, <2>1 DEF StartSearch
    <3>2. QED BY <1>2, <2>1, <3>1 DEF StartSearch, Found
  <2>2. QED BY <1>2, <2>1 DEF StartSearch, WorkInv
<1>3. ASSUME NEW p \in Pairs, Work(p) PROVE WorkInv'
  <2>1. /\ \A q \in Pairs : q # p => paths'[q] = paths[q]
        /\ p \in current /\ current \subseteq Pairs /\ later \subseteq Pairs
        /\ current' = current \ {p} /\ minLength' = minLength /\ phase' = phase
        /\ phase = "search"
    BY <1>0, <1>3, WorkOnPath DEF Work, Front, TypeOK
  <2>2. later' = IF Unsettled(p, paths'[p]) THEN later \cup {p} ELSE later
    BY <1>3 DEF Work
  <2>3. current' \cap later' = {}
    BY <2>1, <2>2 DEF WorkInv
  <2>4. ASSUME NEW q \in current', Found(q)' PROVE Len(paths'[q]) >= minLength'
    BY <2>1, <2>4 DEF WorkInv, Found
  <2>5. ASSUME NEW q \in later', Found(q)' PROVE Len(paths'[q]) > minLength'
    <3>1. CASE q = p
      <4>1. p \notin later
        BY <2>1 DEF WorkInv
      <4>2. Unsettled(p, paths'[p])
        BY <2>2, <2>5, <3>1, <4>1
      <4>3. QED BY <2>1, <2>5, <3>1, <4>2 DEF Unsettled, Found
    <3>2. CASE q # p
      <4>1. q \in later /\ paths'[q] = paths[q]
        BY <2>1, <2>2, <2>5, <3>2
      <4>2. QED BY <2>1, <2>5, <4>1 DEF WorkInv, Found
    <3>3. QED BY <3>1, <3>2
  <2>6. QED BY <2>1, <2>3, <2>4, <2>5 DEF WorkInv
<1>4. ASSUME NextPass PROVE WorkInv'
  <2>1. current' = later /\ later' = {} /\ minLength' = minLength + 1 /\ paths' = paths
        /\ phase' = "search"
    BY <1>4 DEF NextPass
  <2>2. ASSUME NEW p \in later, Found(p) PROVE Len(paths[p]) >= minLength + 1
    <3>1. Len(paths[p]) > minLength /\ Len(paths[p]) \in Nat
      BY <1>0, <2>2 DEF WorkInv, TypeOK
    <3>2. QED BY <1>0, <3>1
  <2>3. QED BY <1>0, <2>1, <2>2 DEF WorkInv, Found
<1>5. ASSUME Ready PROVE WorkInv'
  BY <1>5 DEF Ready, WorkInv, Found
<1>6. ASSUME UNCHANGED vars PROVE WorkInv'
  BY <1>6 DEF vars, WorkInv, Found
<1>7. QED BY <1>1, <1>2, <1>3, <1>4, <1>5, <1>6 DEF Next, Terminated

\* The assertion at the start of an item of work never fails: no pair waits with
\* a path that the passes before should have settled.
THEOREM WorkIsAlwaysUnsettled == Spec => []WorkIsUnsettled
<1>1. WorkInv => WorkIsUnsettled
  BY DEF WorkInv, WorkIsUnsettled
<1>2. QED BY InitIInv, NextIInv, InitWorkInv, NextWorkInv, <1>1, PTL DEF Spec

\* While the transformer searches, a path is only ever replaced by a shorter one.
THEOREM PathsAlwaysShrink == Spec => PathsOnlyShrink
<1>1. ASSUME IInv, WorkInv, [Next]_vars, NEW p \in Pairs, phase = "search", Found(p)
      PROVE  paths'[p] = paths[p] \/ Len(paths'[p]) \in 1 .. Len(paths[p]) - 1
  <2>1. TypeOK /\ minLength >= 2
    BY <1>1 DEF IInv, WorkInv
  <2>2. ASSUME NEW q \in Pairs, Work(q)
        PROVE  paths'[p] = paths[p] \/ Len(paths'[p]) \in 1 .. Len(paths[p]) - 1
    <3>1. CASE q # p
      BY <2>1, <2>2, <3>1, WorkOnPath
    <3>2. CASE q = p
      <4>1. paths'[p] = paths[p] \/ \E i \in Chosen(p) : paths'[p] = Join(p, i)
        BY <2>1, <2>2, <3>2, WorkOnPath
      <4>2. QED BY <1>1, <2>1, <4>1, WorkShrinks
    <3>3. QED BY <3>1, <3>2
  <2>3. CASE paths' = paths
    BY <2>3
  <2>4. QED BY <1>1, <2>2, <2>3
        DEF Next, AddTransformation, StartSearch, NextPass, Ready, Terminated, vars
<1>2. IInv /\ WorkInv /\ [Next]_vars =>
        [\A p \in Pairs : phase = "search" /\ Found(p) =>
            paths'[p] = paths[p] \/ Len(paths'[p]) \in 1 .. Len(paths[p]) - 1]_vars
  BY <1>1
<1>3. QED BY InitIInv, NextIInv, InitWorkInv, NextWorkInv, <1>2, PTL
      DEF Spec, PathsOnlyShrink

-----------------------------------------------------------------------------
(* The pairs connected by at most k transformations                         *)

\* One more transformation.
Further(c) ==
    c \cup {p \in Pairs : \E i \in Types : <<p[1], i>> \in c /\ <<i, p[2]>> \in transformations}

\* The recursive function that gives the reference distance exists, and is what
\* its equation says.
LEMMA WithinDefined ==
    ASSUME transformations \subseteq Pairs, NumTypes >= 1
    PROVE  /\ Within \in [1 .. NumTypes -> SUBSET Pairs]
           /\ Within[1] = transformations
           /\ \A k \in 2 .. NumTypes : Within[k] = Further(Within[k - 1])
<1> DEFINE D == SUBSET Pairs
           Step == [c \in D |-> Further(c)]
<1>1. Step \in [D -> D] /\ transformations \in D /\ NumTypes - 1 \in Nat
  BY DEF Further
<1>2. PICK f : Iterates(f, D, transformations, Step, NumTypes - 1)
  <2> HIDE DEF D, Step
  <2> QED BY <1>1, Iteration
<1>3. /\ f \in [0 .. NumTypes - 1 -> D] /\ f[0] = transformations
      /\ \A n \in 1 .. NumTypes - 1 : f[n] = Step[f[n - 1]]
  BY <1>2 DEF Iterates
<1> DEFINE g == [k \in 1 .. NumTypes |-> f[k - 1]]
<1>4. ASSUME NEW k \in 1 .. NumTypes
      PROVE  g[k] = IF k = 1 THEN transformations ELSE Further(g[k - 1])
  <2>1. CASE k = 1
    BY <1>3, <2>1
  <2>2. CASE k # 1
    <3>1. k - 1 \in 1 .. NumTypes - 1 /\ k - 1 \in 1 .. NumTypes /\ (k - 1) - 1 \in 0 .. NumTypes - 1
      BY <2>2
    <3>2. g[k] = f[k - 1] /\ g[k - 1] = f[(k - 1) - 1]
      BY <3>1
    <3>3. f[k - 1] = Step[f[(k - 1) - 1]] /\ f[(k - 1) - 1] \in D
      BY <1>3, <3>1
    <3>4. QED BY <2>2, <3>2, <3>3
  <2>3. QED BY <2>1, <2>2
<1>5. g = [k \in 1 .. NumTypes |-> IF k = 1 THEN transformations ELSE Further(g[k - 1])]
  <2>1. g = [k \in 1 .. NumTypes |-> g[k]]
    BY DEF g
  <2> HIDE DEF g
  <2>2. QED BY ONLY <1>4, <2>1
<1> HIDE DEF g, Step
<1>6. Within = CHOOSE h : h = [k \in 1 .. NumTypes |->
                                  IF k = 1 THEN transformations ELSE Further(h[k - 1])]
  BY Zenon DEF Within, Further
<1>7. Within = [k \in 1 .. NumTypes |-> IF k = 1 THEN transformations ELSE Further(Within[k - 1])]
  BY ONLY <1>5, <1>6
<1>8. ASSUME NEW k \in 1 .. NumTypes
      PROVE  Within[k] = IF k = 1 THEN transformations ELSE Further(Within[k - 1])
  BY <1>7
<1>9. ASSUME NEW k \in 1 .. NumTypes PROVE Within[k] \in D
  <2> DEFINE Wrong == {n \in 1 .. NumTypes : Within[n] \notin D}
  <2>1. ASSUME NEW n \in Wrong PROVE \E m \in Wrong : m < n
    <3>1. n \in 1 .. NumTypes /\ Within[n] \notin D
      BY <2>1
    <3>2. n # 1
      BY <1>1, <1>8, <3>1
    <3>3. n - 1 \in 1 .. NumTypes /\ n - 1 < n /\ Within[n] = Further(Within[n - 1])
      BY <1>8, <3>1, <3>2
    <3>4. Within[n - 1] \notin D
      BY <3>1, <3>3 DEF Further
    <3>5. n - 1 \in Wrong
      BY <3>3, <3>4
    <3>6. QED BY <3>3, <3>5
  <2>2. Wrong \in SUBSET Nat
    OBVIOUS
  <2>3. Wrong = {}
    <3> HIDE DEF Wrong
    <3> QED BY <2>1, <2>2, Descent
  <2>4. QED BY <2>3
<1>10. Within = [k \in 1 .. NumTypes |-> Within[k]]
  BY <1>7
<1>11. Within \in [1 .. NumTypes -> D]
  BY ONLY <1>9, <1>10
<1>12. Within[1] = transformations
  BY <1>8
<1>13. ASSUME NEW k \in 2 .. NumTypes PROVE Within[k] = Further(Within[k - 1])
  <2>1. k \in 1 .. NumTypes /\ k # 1
    OBVIOUS
  <2>2. QED BY <1>8, <2>1
<1>14. QED BY <1>11, <1>12, <1>13

\* What can be reached in one step more.
LEMMA WithinMembers ==
    ASSUME transformations \subseteq Pairs, NumTypes >= 1, NEW k \in 2 .. NumTypes
    PROVE  /\ k - 1 \in 1 .. NumTypes
           /\ Within[k] \subseteq Pairs /\ Within[k - 1] \subseteq Within[k]
           /\ \A s, d \in Types :
                <<s, d>> \in Within[k]
                   <=> \/ <<s, d>> \in Within[k - 1]
                       \/ /\ s # d
                          /\ \E i \in Types : <<s, i>> \in Within[k - 1] /\ <<i, d>> \in transformations
<1>1. k - 1 \in 1 .. NumTypes /\ k \in 1 .. NumTypes
  OBVIOUS
<1>2. Within[k] = Further(Within[k - 1]) /\ Within[k] \in SUBSET Pairs
  BY <1>1, WithinDefined
<1>3. QED BY <1>1, <1>2 DEF Further, Pairs

\* Whoever is within fewer transformations is within more.
LEMMA WithinGrows ==
    ASSUME transformations \subseteq Pairs, NumTypes >= 1,
           NEW k \in 1 .. NumTypes, NEW n \in 1 .. NumTypes, k <= n
    PROVE  Within[k] \subseteq Within[n] /\ Within[n] \subseteq Pairs
<1> DEFINE Wrong == {m \in k .. NumTypes : ~(Within[k] \subseteq Within[m])}
<1>1. ASSUME NEW m \in Wrong PROVE \E l \in Wrong : l < m
  <2>1. m \in k .. NumTypes /\ m # k /\ ~(Within[k] \subseteq Within[m])
    BY <1>1
  <2>2. m \in 2 .. NumTypes /\ m - 1 \in k .. NumTypes /\ m - 1 < m
    BY <2>1
  <2>3. Within[m - 1] \subseteq Within[m]
    BY <2>2, WithinMembers
  <2>4. m - 1 \in Wrong
    BY <2>1, <2>2, <2>3
  <2>5. QED BY <2>2, <2>4
<1>2. Wrong \in SUBSET Nat
  OBVIOUS
<1>3. Wrong = {}
  <2> HIDE DEF Wrong
  <2> QED BY <1>1, <1>2, Descent
<1>4. n \in k .. NumTypes
  OBVIOUS
<1>5. Within[k] \subseteq Within[n]
  BY <1>3, <1>4
<1>6. QED BY <1>5, WithinDefined

\* A walk of n transformations connects its ends within n: where it comes back to
\* its source it could have started.
LEMMA WalkWithin ==
    ASSUME transformations \subseteq Pairs, NumTypes >= 1, NEW p \in Pairs,
           NEW path \in Seq(Types), path # <<>>, IsWalk(p, path), Len(path) <= NumTypes
    PROVE  Len(path) \in 1 .. NumTypes /\ p \in Within[Len(path)]
<1>1. PICK s, d \in Types : p = <<s, d>> /\ s # d
  BY DEF Pairs
<1>2. Len(path) \in 1 .. NumTypes
  OBVIOUS
<1>3. /\ \A k \in 1 .. Len(path) : path[k] \in Types
      /\ \A k \in 1 .. Len(path) : <<IF k = 1 THEN s ELSE path[k - 1], path[k]>> \in transformations
      /\ path[Len(path)] = d
  BY <1>1 DEF IsWalk
<1> DEFINE Wrong == {k \in 1 .. Len(path) : path[k] # s /\ <<s, path[k]>> \notin Within[k]}
<1>4. ASSUME NEW k \in Wrong PROVE \E m \in Wrong : m < k
  <2>1. k \in 1 .. Len(path) /\ k \in 1 .. NumTypes /\ path[k] # s /\ <<s, path[k]>> \notin Within[k]
    BY <1>2, <1>4
  <2>2. <<s, path[k]>> \notin transformations
    <3>1. 1 \in 1 .. NumTypes /\ 1 <= k
      BY <2>1
    <3>2. Within[1] \subseteq Within[k]
      BY <2>1, <3>1, WithinGrows
    <3>3. QED BY <2>1, <3>2, WithinDefined
  <2>3. k # 1
    BY <1>3, <2>1, <2>2
  <2>4. k \in 2 .. NumTypes /\ k - 1 \in 1 .. Len(path) /\ k - 1 < k
    BY <1>2, <2>1, <2>3
  <2>5. <<path[k - 1], path[k]>> \in transformations
    <3>1. <<IF k = 1 THEN s ELSE path[k - 1], path[k]>> \in transformations
      BY ONLY <1>3, <2>1
    <3>2. QED BY ONLY <2>3, <3>1
  <2>6. path[k - 1] # s
    BY <2>2, <2>5
  <2>7. <<s, path[k - 1]>> \notin Within[k - 1]
    <3>1. path[k - 1] \in Types /\ path[k] \in Types
      BY <1>3, <2>1, <2>4
    <3>2. \A x, y \in Types :
             x # y /\ (\E i \in Types : <<x, i>> \in Within[k - 1] /\ <<i, y>> \in transformations)
             => <<x, y>> \in Within[k]
      BY <2>4, WithinMembers
    <3>3. QED BY ONLY <1>1, <2>1, <2>5, <3>1, <3>2
  <2>8. k - 1 \in Wrong
    BY <2>4, <2>6, <2>7
  <2>9. QED BY <2>4, <2>8
<1>5. Wrong \in SUBSET Nat
  OBVIOUS
<1>6. Wrong = {}
  <2> HIDE DEF Wrong
  <2> QED BY <1>4, <1>5, Descent
<1>7. Len(path) \in 1 .. Len(path)
  BY <1>2
<1>8. <<s, path[Len(path)]>> \in Within[Len(path)]
  BY <1>1, <1>3, <1>6, <1>7
<1>9. QED BY ONLY <1>1, <1>2, <1>3, <1>8

\* The types that can be had from s within k transformations, s included.
Around(s, k) == {d \in Types : d = s \/ <<s, d>> \in Within[k]}

Closed(S) == \A x \in S, y \in Types : <<x, y>> \in transformations => y \in S

\* There are as many types as their number says.
LEMMA TypesFinite == IsFiniteSet(Types) /\ Cardinality(Types) = NumTypes
<1>1. 0 \in Int /\ NumTypes - 1 \in Int
  OBVIOUS
<1>2. QED BY <1>1, FS_Interval DEF Types

\* As long as one more transformation leads somewhere new, each adds a type.
LEMMA AroundGrows ==
    ASSUME transformations \subseteq Pairs, NumTypes >= 1, NEW s \in Types,
           NEW k \in 1 .. NumTypes
    PROVE  Closed(Around(s, k)) \/ Cardinality(Around(s, k)) >= k + 1
<1> DEFINE Wrong == {n \in 1 .. NumTypes :
                       ~(Closed(Around(s, n)) \/ Cardinality(Around(s, n)) >= n + 1)}
<1>1. \A n : IsFiniteSet(Around(s, n)) /\ Cardinality(Around(s, n)) \in Nat
  <2>1. \A n : Around(s, n) \in SUBSET Types
    BY DEF Around
  <2>2. QED BY <2>1, TypesFinite, FS_Subset, FS_CardinalityType
<1>2. ASSUME NEW n \in Wrong PROVE \E m \in Wrong : m < n
  <2>1. n \in 1 .. NumTypes /\ ~Closed(Around(s, n)) /\ ~(Cardinality(Around(s, n)) >= n + 1)
    BY <1>2
  <2>2. CASE n = 1
    <3>1. Within[1] = transformations
      BY WithinDefined
    <3>2. PICK x \in Around(s, 1), y \in Types : <<x, y>> \in transformations /\ y \notin Around(s, 1)
      BY <2>1, <2>2 DEF Closed
    <3>3. x # s
      BY <3>1, <3>2 DEF Around
    <3>4. x \in Around(s, 1) /\ s \in Around(s, 1)
      BY DEF Around
    <3>5. Cardinality(Around(s, 1)) # 0
      BY <1>1, <3>4, FS_EmptySet
    <3>6. Cardinality(Around(s, 1)) # 1
      BY <1>1, <3>3, <3>4, FS_Singleton
    <3>7. QED BY <1>1, <2>1, <2>2, <3>5, <3>6
  <2>3. CASE n # 1
    <3>1. n \in 2 .. NumTypes /\ n - 1 \in 1 .. NumTypes /\ n - 1 < n
      BY <2>1, <2>3
    <3>2. Around(s, n - 1) \subseteq Around(s, n)
      BY <3>1, WithinMembers DEF Around
    <3>3. ASSUME NEW x \in Around(s, n - 1), NEW y \in Types, <<x, y>> \in transformations
          PROVE  y \in Around(s, n)
      <4>1. CASE y = s
        BY <4>1 DEF Around
      <4>2. CASE y # s /\ x = s
        <5>1. Within[1] \subseteq Within[n] /\ Within[1] = transformations
          BY <2>1, WithinGrows, WithinDefined
        <5>2. QED BY <3>3, <4>2, <5>1 DEF Around
      <4>3. CASE y # s /\ x # s
        <5>1. x \in Types /\ <<s, x>> \in Within[n - 1]
          BY <4>3 DEF Around
        <5>2. <<s, y>> \in Within[n]
          BY <3>1, <3>3, <4>3, <5>1, WithinMembers
        <5>3. QED BY <5>2 DEF Around
      <4>4. QED BY <4>1, <4>2, <4>3
    <3>4. ASSUME Closed(Around(s, n - 1)) PROVE Around(s, n) \subseteq Around(s, n - 1)
      <4> SUFFICES ASSUME NEW d \in Types, <<s, d>> \in Within[n], d # s PROVE d \in Around(s, n - 1)
        BY DEF Around
      <4>1. CASE <<s, d>> \in Within[n - 1]
        BY <4>1 DEF Around
      <4>2. ASSUME NEW i \in Types, <<s, i>> \in Within[n - 1], <<i, d>> \in transformations
            PROVE  d \in Around(s, n - 1)
        <5>1. i \in Around(s, n - 1)
          BY <4>2 DEF Around
        <5>2. QED BY <3>4, <4>2, <5>1 DEF Closed
      <4>3. QED BY <3>1, <4>1, <4>2, WithinMembers
    <3>5. ~Closed(Around(s, n - 1))
      <4> SUFFICES ASSUME Closed(Around(s, n - 1)) PROVE FALSE
        OBVIOUS
      <4>1. Around(s, n) = Around(s, n - 1)
        BY <3>2, <3>4
      <4>2. QED BY <2>1, <4>1
    <3>6. ~(Cardinality(Around(s, n - 1)) >= (n - 1) + 1)
      <4> SUFFICES ASSUME Cardinality(Around(s, n - 1)) >= (n - 1) + 1 PROVE FALSE
        OBVIOUS
      <4>1. /\ Cardinality(Around(s, n - 1)) <= Cardinality(Around(s, n))
            /\ Cardinality(Around(s, n)) = Cardinality(Around(s, n - 1))
                 => Around(s, n) = Around(s, n - 1)
        BY <1>1, <3>2, FS_Subset
      <4>2. Around(s, n) # Around(s, n - 1)
        BY <3>3, <3>5 DEF Closed
      <4>3. Cardinality(Around(s, n)) \in Nat /\ Cardinality(Around(s, n - 1)) \in Nat
        BY <1>1
      <4>4. QED BY <2>1, <4>1, <4>2, <4>3
    <3>7. n - 1 \in Wrong
      BY <3>1, <3>5, <3>6
    <3>8. QED BY <3>1, <3>7
  <2>4. QED BY <2>2, <2>3
<1>3. Wrong \in SUBSET Nat
  OBVIOUS
<1>4. Wrong = {}
  <2> HIDE DEF Wrong
  <2> QED BY <1>2, <1>3, Descent
<1>5. QED BY <1>4

\* NumTypes - 1 transformations lead to a set that no transformation leads out of.
LEMMA AllAround ==
    ASSUME transformations \subseteq Pairs, NumTypes >= 2, NEW s \in Types
    PROVE  Closed(Around(s, NumTypes - 1))
<1> DEFINE S == Around(s, NumTypes - 1)
<1>1. NumTypes - 1 \in 1 .. NumTypes /\ NumTypes >= 1
  OBVIOUS
<1>2. Closed(S) \/ Cardinality(S) >= NumTypes
  BY <1>1, AroundGrows
<1>3. ASSUME Cardinality(S) >= NumTypes PROVE S = Types
  <2>1. S \in SUBSET Types
    BY DEF Around
  <2>2. /\ IsFiniteSet(S) /\ Cardinality(S) <= Cardinality(Types)
        /\ Cardinality(Types) = Cardinality(S) => Types = S
    BY <2>1, TypesFinite, FS_Subset
  <2>3. Cardinality(S) \in Nat /\ Cardinality(Types) = NumTypes
    BY <2>2, TypesFinite, FS_CardinalityType
  <2> HIDE DEF S
  <2>4. QED BY <1>3, <2>2, <2>3
<1>4. QED BY <1>2, <1>3 DEF Closed

\* NumTypes - 1 transformations lead everywhere that any number of them leads.
LEMMA WalkReaches ==
    ASSUME transformations \subseteq Pairs, NumTypes >= 2, NEW p \in Pairs,
           NEW path \in Seq(Types), path # <<>>, IsWalk(p, path)
    PROVE  p \in Within[NumTypes - 1]
<1>1. PICK s, d \in Types : p = <<s, d>> /\ s # d
  BY DEF Pairs
<1> DEFINE S == Around(s, NumTypes - 1)
<1>2. Closed(S)
  BY NumTypes >= 2, AllAround
<1>3. s \in S
  BY DEF Around
<1>4. /\ Len(path) \in Nat \ {0}
      /\ \A k \in 1 .. Len(path) : path[k] \in Types
      /\ \A k \in 1 .. Len(path) : <<IF k = 1 THEN s ELSE path[k - 1], path[k]>> \in transformations
      /\ path[Len(path)] = d
  BY <1>1 DEF IsWalk
<1> DEFINE Wrong == {k \in 1 .. Len(path) : path[k] \notin S}
<1>5. ASSUME NEW k \in Wrong PROVE \E m \in Wrong : m < k
  <2>1. k \in 1 .. Len(path) /\ path[k] \notin S
    BY <1>5
  <2>2. k # 1
    <3> HIDE DEF S
    <3> QED BY <1>2, <1>3, <1>4, <2>1 DEF Closed
  <2>3. k - 1 \in 1 .. Len(path) /\ k - 1 < k
    BY <1>4, <2>1, <2>2
  <2>4. path[k - 1] \notin S
    <3> HIDE DEF S
    <3> QED BY <1>2, <1>4, <2>1, <2>2, <2>3 DEF Closed
  <2>5. QED BY <2>3, <2>4
<1>6. Wrong \in SUBSET Nat
  OBVIOUS
<1>7. Wrong = {}
  <2> HIDE DEF Wrong
  <2> QED BY <1>5, <1>6, Descent
<1>8. d \in S
  <2>1. Len(path) \in 1 .. Len(path)
    BY <1>4
  <2>2. QED BY <1>4, <1>7, <2>1
<1>9. QED BY <1>1, <1>8 DEF Around

-----------------------------------------------------------------------------
(* What a pass settles                                                      *)

\* A pair that waits is connected by no fewer transformations than the pass.
LEMMA WaitingIsFar ==
    ASSUME TypeOK, WorkInv, SearchInv, phase # "register", NEW p \in current,
           NEW k \in 1 .. NumTypes, k < minLength
    PROVE  p \notin Within[k]
<1>1. p \in Pairs /\ minLength \in Nat
  BY DEF TypeOK
<1>2. SUFFICES ASSUME Found(p), Len(paths[p]) <= k PROVE FALSE
  BY DEF SearchInv
<1>3. Len(paths[p]) >= minLength /\ Len(paths[p]) \in Nat
  BY <1>1, <1>2 DEF WorkInv, TypeOK
<1>4. QED BY ONLY <1>1, <1>2, <1>3, k < minLength, k \in 1 .. NumTypes, NumTypesAssumption

\* A pair connected by as many transformations as the pass gets a path of that
\* length: its first part was settled by the pass before, whatever has been
\* replaced since.
LEMMA WorkSettles ==
    ASSUME IInv, WorkInv, SearchInv, NEW p \in Pairs, Work(p), p \in Within[minLength]
    PROVE  Found(p)' /\ Len(paths'[p]) <= minLength
<1>1. /\ TypeOK /\ PathsAreWalks /\ transformations \subseteq Pairs
      /\ p \in current /\ phase = "search" /\ minLength < NumTypes
      /\ minLength \in 2 .. NumTypes /\ NumTypes >= 1 /\ minLength \in Nat
      /\ minLength - 1 \in 1 .. NumTypes /\ minLength - 1 < minLength
      /\ 1 \in 1 .. NumTypes /\ 1 < minLength
  BY DEF IInv, TypeOK, WorkInv, Work, Front
<1>2. PICK s, d \in Types : p = <<s, d>> /\ s # d
  BY DEF Pairs
<1>3. p[1] = s /\ p[2] = d
  BY <1>2
<1>4. ASSUME NEW i \in Intermediates(p) PROVE Len(Join(p, i)) >= minLength
  <2>1. /\ Join(p, i) \in Seq(Types) /\ IsWalk(p, Join(p, i)) /\ Join(p, i) # <<>>
        /\ Len(Join(p, i)) \in Nat
    BY <1>1, <1>4, JoinIsWalk, JoinLength DEF NoPath
  <2>2. ASSUME Len(Join(p, i)) < minLength PROVE FALSE
    <3>1. Len(Join(p, i)) <= NumTypes
      BY ONLY <1>1, <2>1, <2>2, NumTypesAssumption
    <3>2. Len(Join(p, i)) \in 1 .. NumTypes /\ p \in Within[Len(Join(p, i))]
      BY <1>1, <2>1, <3>1, WalkWithin
    <3>3. QED BY <1>1, <2>2, <3>2, WaitingIsFar
  <2>3. QED BY ONLY <1>1, <2>1, <2>2
<1>5. PICK i \in Types : <<s, i>> \in Within[minLength - 1] /\ <<i, d>> \in transformations
  <2>1. p \notin Within[minLength - 1]
    BY <1>1, WaitingIsFar
  <2>2. QED BY <1>1, <1>2, <2>1, WithinMembers
<1>6. /\ <<s, i>> \in Pairs /\ <<i, d>> \in Pairs
      /\ Found(<<s, i>>) /\ Len(paths[<<s, i>>]) <= minLength - 1
      /\ Found(<<i, d>>) /\ Len(paths[<<i, d>>]) <= 1
  <2>1. <<s, i>> \in Pairs /\ <<i, d>> \in Pairs /\ <<i, d>> \in Within[1]
    BY <1>1, <1>5, WithinMembers, WithinDefined
  <2>2. /\ Found(<<s, i>>) /\ Len(paths[<<s, i>>]) <= minLength - 1
        /\ Found(<<i, d>>) /\ Len(paths[<<i, d>>]) <= 1
    BY <1>1, <1>5, <2>1 DEF SearchInv
  <2>3. QED BY <2>1, <2>2
<1>7. i \in Intermediates(p)
  BY <1>3, <1>6 DEF Intermediates, Pairs
<1>8. i \in Exact(p)
  <2>1. /\ Len(Join(p, i)) = Len(paths[<<s, i>>]) + Len(paths[<<i, d>>])
        /\ Len(paths[<<s, i>>]) \in Nat /\ Len(paths[<<i, d>>]) \in Nat
    BY <1>1, <1>3, <1>7, JoinLength
  <2>2. Len(Join(p, i)) >= minLength
    BY <1>4, <1>7
  <2>3. Len(Join(p, i)) = minLength
    <3>1. PICK a, b, j : /\ a = Len(paths[<<s, i>>]) /\ b = Len(paths[<<i, d>>])
                         /\ j = Len(Join(p, i))
      OBVIOUS
    <3>2. a \in Nat /\ b \in Nat /\ j = a + b /\ j >= minLength
      BY ONLY <2>1, <2>2, <3>1
    <3>3. a <= minLength - 1 /\ b <= 1
      BY ONLY <1>6, <3>1
    <3>4. j = minLength
      BY ONLY <1>1, <3>2, <3>3
    <3>5. QED BY ONLY <3>1, <3>4
  <2>4. QED BY <1>7, <2>3 DEF Exact
<1>9. CASE Found(p) => minLength < Len(paths[p])
  <2>1. Chosen(p) = {e \in Exact(p) : \A f \in Exact(p) : e <= f}
    BY <1>8, <1>9 DEF Chosen
  <2>2. PICK e \in Exact(p) : \A f \in Exact(p) : e <= f
    <3>1. Exact(p) \in SUBSET Nat
      BY DEF Exact, Intermediates, Types
    <3>2. QED BY <1>8, <3>1, LeastNumber
  <2>3. PICK c \in Chosen(p) : c \in Intermediates(p) /\ paths'[p] = Join(p, c)
    BY <1>1, <2>1, <2>2, WorkOnPath
  <2>4. Len(Join(p, c)) = minLength
    BY <2>1, <2>3 DEF Exact
  <2>5. Join(p, c) # NoPath
    BY <1>1, <2>3, JoinLength
  <2>6. QED BY <1>1, <2>3, <2>4, <2>5 DEF Found
<1>10. CASE Found(p) /\ ~(minLength < Len(paths[p]))
  <2>1. Len(paths[p]) \in Nat /\ Len(paths[p]) <= minLength
    BY <1>1, <1>10 DEF TypeOK
  <2>2. CASE paths'[p] = paths[p]
    BY <1>10, <2>1, <2>2 DEF Found
  <2>3. ASSUME NEW c \in Chosen(p), c \in Intermediates(p), paths'[p] = Join(p, c)
        PROVE  Found(p)' /\ Len(paths'[p]) <= minLength
    <3>1. Len(Join(p, c)) \in 1 .. Len(paths[p]) - 1 /\ Join(p, c) # NoPath
      <4>1. TypeOK /\ Found(p) /\ minLength >= 2
        BY <1>1, <1>10
      <4>2. Len(Join(p, c)) \in 1 .. Len(paths[p]) - 1
        BY <2>3, <4>1, WorkShrinks
      <4>3. Join(p, c) # NoPath
        BY <2>3, <4>1, JoinLength
      <4>4. QED BY <4>2, <4>3
    <3>2. Len(Join(p, c)) <= minLength
      BY ONLY <1>1, <2>1, <3>1
    <3>3. QED BY <2>3, <3>1, <3>2 DEF Found
  <2>4. QED BY <1>1, <2>2, <2>3, WorkOnPath
<1>11. QED BY <1>9, <1>10

\* The same transformations connect the same pairs.
LEMMA WithinKept ==
    ASSUME transformations' = transformations
    PROVE  Within' = Within
BY DEF Within

\* Every step keeps what the search knows about the pairs settled so far.
LEMMA NextSearchInv == IInv /\ WorkInv /\ SearchInv /\ [Next]_vars => SearchInv'
<1> SUFFICES ASSUME IInv, WorkInv, SearchInv, [Next]_vars PROVE SearchInv'
  OBVIOUS
<1>0. TypeOK /\ minLength \in Nat /\ transformations \subseteq Pairs
  BY DEF IInv, TypeOK
<1>1. ASSUME NEW t \in Registrable, AddTransformation(t) PROVE SearchInv'
  BY <1>1 DEF AddTransformation, SearchInv
<1>2. ASSUME StartSearch PROVE SearchInv'
  <2>1. /\ minLength' = 2 /\ later' = {} /\ phase' = "search" /\ transformations' = transformations
        /\ current' = Pairs \ transformations
        /\ paths' = [p \in Pairs |-> IF p \in transformations THEN <<p[2]>> ELSE NoPath]
    BY <1>2 DEF StartSearch, WorkInv
  <2>2. ASSUME NEW p \in transformations PROVE Found(p)' /\ Len(paths'[p]) = 1
    <3>1. p \in Pairs /\ paths'[p] = <<p[2]>>
      BY <1>0, <2>1
    <3>2. QED BY <3>1 DEF Found, NoPath
  <2>3. ASSUME NEW k \in 1 .. NumTypes, k < 2, NEW p, p \in Within'[k]
        PROVE  Found(p)' /\ Len(paths'[p]) <= k
    <3>1. k = 1 /\ NumTypes >= 1
      BY <2>3
    <3>2. Within'[k] = transformations
      BY <1>0, <2>1, <3>1, WithinKept, WithinDefined
    <3>3. p \in transformations
      BY <2>3, <3>2
    <3>4. Found(p)' /\ Len(paths'[p]) = 1
      BY <2>2, <3>3
    <3>5. QED BY <3>1, <3>4
  <2>4. ASSUME NEW p \in Pairs \ (current' \cup later') PROVE Found(p)' /\ Len(paths'[p]) <= minLength'
    <3>1. p \in transformations
      BY ONLY <2>1, <2>4
    <3>2. QED BY <2>1, <2>2, <3>1
  <2>5. phase' # "ready" /\ later' \cap Within'[minLength'] = {}
    BY ONLY <2>1
  <2>6. \A k \in 1 .. NumTypes : k < minLength' => \A p \in Within'[k] : Found(p)' /\ Len(paths'[p]) <= k
    BY <2>1, <2>3
  <2>7. QED BY ONLY <2>4, <2>5, <2>6 DEF SearchInv
<1>3. ASSUME NEW p \in Pairs, Work(p) PROVE SearchInv'
  <2>1. /\ \A q \in Pairs : q # p => paths'[q] = paths[q]
        /\ p \in current /\ current \subseteq Pairs /\ later \subseteq Pairs
        /\ current' = current \ {p} /\ minLength' = minLength
        /\ phase' = phase /\ phase = "search"
        /\ transformations' = transformations /\ Within' = Within
        /\ minLength \in 1 .. NumTypes
    BY <1>0, <1>3, WorkOnPath, WithinKept DEF Work, Front, TypeOK, WorkInv
  <2>2. later' = IF Unsettled(p, paths'[p]) THEN later \cup {p} ELSE later
    BY <1>3 DEF Work
  <2>3. ASSUME NEW q \in Pairs \ (current' \cup later')
        PROVE  Found(q)' /\ Len(paths'[q]) <= minLength
    <3>1. CASE q = p
      <4>1. ~Unsettled(p, paths'[p])
        BY <2>2, <2>3, <3>1
      <4>2. paths'[p] \in Seq(Types)
        BY NextIInv, <1>3 DEF IInv, TypeOK
      <4>3. QED BY <1>0, <3>1, <4>1, <4>2 DEF Unsettled, Found
    <3>2. CASE q # p
      <4>1. q \notin current \cup later /\ paths'[q] = paths[q]
        BY <2>1, <2>2, <2>3, <3>2
      <4>2. QED BY <2>1, <4>1 DEF SearchInv, Found
    <3>3. QED BY <3>1, <3>2
  <2>4. ASSUME NEW k \in 1 .. NumTypes, k < minLength, NEW q \in Within[k]
        PROVE  Found(q)' /\ Len(paths'[q]) <= k
    <3>1. q # p
      BY <1>0, <2>1, <2>4, WaitingIsFar
    <3>2. q \in Pairs
      BY <1>0, <2>4, WithinDefined
    <3>3. Found(q) /\ Len(paths[q]) <= k /\ paths'[q] = paths[q]
      BY <2>1, <2>4, <3>1, <3>2 DEF SearchInv
    <3>4. QED BY <3>3 DEF Found
  <2>5. ASSUME NEW q \in later', q \in Within[minLength] PROVE FALSE
    <3>1. CASE q = p
      <4>1. Found(p)' /\ Len(paths'[p]) <= minLength
        BY <1>3, <2>5, <3>1, WorkSettles
      <4>2. p \notin later
        BY <2>1 DEF WorkInv
      <4>3. Unsettled(p, paths'[p])
        BY <2>2, <2>5, <3>1, <4>2
      <4>4. paths'[p] \in Seq(Types)
        BY NextIInv, <1>3 DEF IInv, TypeOK
      <4>5. QED BY <1>0, <4>1, <4>3, <4>4 DEF Unsettled, Found
    <3>2. CASE q # p
      <4>1. q \in later
        BY <2>2, <2>5, <3>2
      <4>2. QED BY <2>1, <2>5, <4>1 DEF SearchInv
    <3>3. QED BY <3>1, <3>2
  <2>6. QED BY <2>1, <2>3, <2>4, <2>5 DEF SearchInv
<1>4. ASSUME NextPass PROVE SearchInv'
  <2>1. /\ current = {} /\ current' = later /\ later' = {} /\ minLength' = minLength + 1
        /\ paths' = paths /\ phase = "search" /\ phase' = "search" /\ Within' = Within
        /\ minLength \in 1 .. NumTypes /\ minLength <= NumTypes
    BY <1>0, <1>4, WithinKept DEF NextPass, WorkInv
  <2>2. ASSUME NEW p \in Pairs \ later PROVE Found(p) /\ Len(paths[p]) <= minLength
    BY <2>1, <2>2 DEF SearchInv
  <2>3. ASSUME NEW k \in 1 .. NumTypes, k < minLength + 1, NEW p \in Within[k]
        PROVE  Found(p) /\ Len(paths[p]) <= k
    <3>1. CASE k < minLength
      BY <2>1, <2>3, <3>1 DEF SearchInv
    <3>2. CASE k = minLength
      <4>1. p \in Pairs
        BY <1>0, <2>3, WithinDefined
      <4>2. p \notin later
        BY <2>1, <2>3, <3>2 DEF SearchInv
      <4>3. QED BY <2>2, <3>2, <4>1, <4>2
    <3>3. QED BY <1>0, <2>3, <3>1, <3>2
  <2>4. ASSUME NEW p \in Pairs \ later PROVE Found(p) /\ Len(paths[p]) <= minLength + 1
    <3>1. Len(paths[p]) \in Nat
      BY <1>0, <2>4 DEF TypeOK
    <3>2. QED BY <1>0, <2>2, <2>4, <3>1
  <2>5. QED BY <2>1, <2>3, <2>4 DEF SearchInv, Found
<1>5. ASSUME Ready PROVE SearchInv'
  <2>1. Within' = Within
    BY <1>5, WithinKept DEF Ready
  <2>2. QED BY <1>5, <2>1 DEF Ready, SearchInv, Found
<1>6. ASSUME UNCHANGED vars PROVE SearchInv'
  <2>1. Within' = Within
    BY <1>6, WithinKept DEF vars
  <2>2. QED BY <1>6, <2>1 DEF vars, SearchInv, Found
<1>7. QED BY <1>1, <1>2, <1>3, <1>4, <1>5, <1>6 DEF Next, Terminated

-----------------------------------------------------------------------------
(* The answers                                                              *)

\* When the transformer is ready, the length of the pair's path is the least
\* number of transformations that connect it.
LEMMA ReadyPaths ==
    ASSUME IInv, WorkInv, SearchInv, phase = "ready", NEW p \in Pairs
    PROVE  /\ NumTypes >= 2
           /\ Found(p) => Len(paths[p]) \in 1 .. NumTypes - 1
           /\ \A k \in 1 .. NumTypes : p \in Within[k] <=> Found(p) /\ Len(paths[p]) <= k
<1>1. PICK s, d \in Types : p = <<s, d>> /\ s # d
  BY DEF Pairs
<1>2. /\ TypeOK /\ PathsAreWalks /\ transformations \subseteq Pairs /\ minLength \in Nat
      /\ minLength >= NumTypes
  BY DEF IInv, TypeOK, SearchInv
<1>3. NumTypes >= 2
  BY <1>1 DEF Types
<1>4. ASSUME NEW k \in 1 .. NumTypes, k < NumTypes, p \in Within[k]
      PROVE  Found(p) /\ Len(paths[p]) <= k
  <2>1. k < minLength
    BY <1>2, <1>4
  <2>2. QED BY <1>4, <2>1 DEF SearchInv
<1>5. NumTypes - 1 \in 1 .. NumTypes /\ NumTypes - 1 < NumTypes /\ NumTypes \in 2 .. NumTypes
      /\ NumTypes >= 1
  BY <1>3
<1>6. ASSUME p \in Within[NumTypes] PROVE p \in Within[NumTypes - 1]
  <2> SUFFICES ASSUME NEW i \in Types, <<s, i>> \in Within[NumTypes - 1],
                      <<i, d>> \in transformations
               PROVE  p \in Within[NumTypes - 1]
    BY <1>1, <1>2, <1>5, <1>6, WithinMembers
  <2>1. i \in Around(s, NumTypes - 1)
    BY DEF Around
  <2>2. d \in Around(s, NumTypes - 1)
    BY <1>2, <1>3, <2>1, AllAround DEF Closed
  <2>3. QED BY <1>1, <2>2 DEF Around
<1>7. ASSUME Found(p)
      PROVE  /\ paths[p] \in Seq(Types) /\ paths[p] # <<>> /\ IsWalk(p, paths[p])
             /\ Len(paths[p]) \in 1 .. NumTypes - 1
  <2>1. paths[p] \in Seq(Types) /\ paths[p] # <<>> /\ IsWalk(p, paths[p])
    BY <1>2, <1>7 DEF TypeOK, PathsAreWalks, Found, NoPath
  <2>2. p \in Within[NumTypes - 1]
    BY <1>2, <1>3, <2>1, WalkReaches
  <2>3. Len(paths[p]) <= NumTypes - 1
    BY <1>4, <1>5, <2>2
  <2>4. QED BY <2>1, <2>3
<1>8. ASSUME NEW k \in 1 .. NumTypes, p \in Within[k]
      PROVE  Found(p) /\ Len(paths[p]) <= k
  <2>1. CASE k < NumTypes
    BY <1>4, <1>8, <2>1
  <2>2. CASE k = NumTypes
    <3>1. Found(p)
      BY <1>4, <1>5, <1>6, <1>8, <2>2
    <3>2. Len(paths[p]) \in 1 .. NumTypes - 1
      BY <1>7, <3>1
    <3>3. QED BY <2>2, <3>1, <3>2
  <2>3. QED BY <2>1, <2>2
<1>9. ASSUME NEW k \in 1 .. NumTypes, Found(p), Len(paths[p]) <= k
      PROVE  p \in Within[k]
  <2>1. Len(paths[p]) \in 1 .. NumTypes
    BY <1>7, <1>9
  <2>2. p \in Within[Len(paths[p])]
    BY <1>2, <1>5, <1>7, <1>9, <2>1, WalkWithin
  <2>3. Within[Len(paths[p])] \subseteq Within[k]
    BY <1>2, <1>5, <1>9, <2>1, WithinGrows
  <2>4. QED BY <2>2, <2>3
<1>10. QED BY <1>3, <1>7, <1>8, <1>9

\* Of a nonempty set of sources with a path one is the answer.
LEMMA FirstOfShortest ==
    ASSUME NEW S \in SUBSET Nat, S # {}, NEW size \in [S -> Nat]
    PROVE  \E x \in S : \A y \in S : size[x] < size[y] \/ (size[x] = size[y] /\ x <= y)
<1>1. PICK m \in {size[x] : x \in S} : \A n \in {size[x] : x \in S} : m <= n
  <2>1. {size[x] : x \in S} \in SUBSET Nat /\ {size[x] : x \in S} # {}
    OBVIOUS
  <2>2. QED BY ONLY <2>1, LeastNumber
<1>2. PICK x \in {y \in S : size[y] = m} : \A y \in {z \in S : size[z] = m} : x <= y
  <2>1. {y \in S : size[y] = m} \in SUBSET Nat /\ {y \in S : size[y] = m} # {}
    OBVIOUS
  <2>2. QED BY ONLY <2>1, LeastNumber
<1>3. ASSUME NEW y \in S PROVE size[x] < size[y] \/ (size[x] = size[y] /\ x <= y)
  <2>1. size[x] = m /\ m <= size[y] /\ size[y] \in Nat /\ m \in Nat
    BY <1>1, <1>2
  <2>2. size[y] = m => x <= y
    BY <1>2
  <2>3. QED BY ONLY <2>1, <2>2
<1>4. QED BY <1>2, <1>3

\* Whatever representations exist, the ready transformer finds the first of the
\* shortest paths to the destination, and finds none only where there is none.
THEOREM AnswersAreAlwaysShortest == Spec => []AnswersAreShortest
<1>1. ASSUME IInv, WorkInv, SearchInv PROVE AnswersAreShortest
  <2> SUFFICES ASSUME phase = "ready", NEW dst \in Types, NEW existing \in SUBSET (Types \ {dst})
               PROVE  LET answer == GetTransformationPath(dst, existing)
                          reaching(k) == \E s \in existing : <<s, dst>> \in [n \in 1 .. NumTypes |-> Within[n]][k]
                      IN  /\ answer # {} <=> reaching(NumTypes)
                          /\ \A p \in answer :
                                \A k \in 1 .. NumTypes : reaching(k) <=> Len(paths[p]) <= k
    BY DEF AnswersAreShortest
  <2> DEFINE sources == {s \in existing \ {dst} : Found(<<s, dst>>)}
             size == [s \in sources |-> Len(paths[<<s, dst>>])]
             answer == GetTransformationPath(dst, existing)
             Reaching(k) == \E s \in existing : <<s, dst>> \in [n \in 1 .. NumTypes |-> Within[n]][k]
  <2>1. ASSUME NEW s \in existing PROVE <<s, dst>> \in Pairs /\ s \in Types /\ s # dst /\ s \in Nat
    BY DEF Pairs, Types
  <2>2. ASSUME NEW s \in sources
        PROVE  s \in existing /\ size[s] = Len(paths[<<s, dst>>]) /\ size[s] \in 1 .. NumTypes - 1
    BY <1>1, <2>1, ReadyPaths
  <2>3. ASSUME NEW k \in 1 .. NumTypes
        PROVE  Reaching(k) <=> \E s \in sources : size[s] <= k
    <3>1. [n \in 1 .. NumTypes |-> Within[n]][k] = Within[k]
      OBVIOUS
    <3>2. ASSUME NEW s \in existing
          PROVE  <<s, dst>> \in Within[k] <=> Found(<<s, dst>>) /\ Len(paths[<<s, dst>>]) <= k
      BY <1>1, <2>1, ReadyPaths
    <3>3. QED BY <2>1, <2>2, <3>1, <3>2
  <2>4. answer = {<<s, dst>> : s \in {x \in sources : \A y \in sources :
                     size[x] < size[y] \/ (size[x] = size[y] /\ x <= y)}}
    BY DEF GetTransformationPath
  <2>5. sources \in SUBSET Nat /\ size \in [sources -> Nat]
    BY <2>1, <2>2
  <2>6. answer # {} <=> sources # {}
    <3> HIDE DEF answer, sources, size
    <3>1. ASSUME sources # {} PROVE answer # {}
      BY <2>4, <2>5, <3>1, FirstOfShortest
    <3>2. QED BY <2>4, <3>1
  <2>7. answer # {} <=> Reaching(NumTypes)
    <3>1. ASSUME NEW s \in sources PROVE NumTypes \in 1 .. NumTypes /\ size[s] <= NumTypes
      <4>1. size[s] \in 1 .. NumTypes - 1
        <5> HIDE DEF sources, size
        <5> QED BY <2>2, <3>1
      <4> HIDE DEF sources, size
      <4>2. PICK z : z = size[s]
        OBVIOUS
      <4>3. z \in 1 .. NumTypes - 1 => NumTypes \in 1 .. NumTypes /\ z <= NumTypes
        OBVIOUS
      <4> QED BY ONLY <4>1, <4>2, <4>3
    <3>2. ASSUME NEW s \in existing PROVE NumTypes \in 1 .. NumTypes
      BY <2>1 DEF Types
    <3> HIDE DEF answer, sources, size
    <3>3. sources # {} => Reaching(NumTypes)
      <4> HIDE DEF Reaching
      <4> QED BY <2>3, <3>1
    <3>4. Reaching(NumTypes) => sources # {}
      <4>1. Reaching(NumTypes) => NumTypes \in 1 .. NumTypes
        BY <3>2
      <4> HIDE DEF Reaching
      <4> QED BY <2>3, <4>1
    <3> HIDE DEF Reaching
    <3>5. QED BY <2>6, <3>3, <3>4
  <2>8. ASSUME NEW p \in answer, NEW k \in 1 .. NumTypes
        PROVE  Reaching(k) <=> Len(paths[p]) <= k
    <3> HIDE DEF answer, sources, size, Reaching
    <3>1. PICK x \in sources : /\ p = <<x, dst>>
                               /\ \A y \in sources : size[x] < size[y] \/ (size[x] = size[y] /\ x <= y)
      BY <2>4, <2>8
    <3>2. Len(paths[p]) = size[x] /\ size[x] \in Nat
      BY <2>2, <2>5, <3>1
    <3>3. ASSUME NEW y \in sources, size[y] <= k PROVE size[x] <= k
      <4>1. size[y] \in Nat /\ (size[x] < size[y] \/ size[x] = size[y])
        BY <2>5, <3>1
      <4>2. QED BY <3>2, <3>3, <4>1
    <3>4. QED BY <2>3, <3>2, <3>3
  <2>9. /\ answer # {} <=> Reaching(NumTypes)
        /\ \A p \in answer : \A k \in 1 .. NumTypes : Reaching(k) <=> Len(paths[p]) <= k
    <3> HIDE DEF answer, Reaching
    <3> QED BY <2>7, <2>8
  <2>10. QED BY ONLY <2>9
<1>2. Init => SearchInv
  BY DEF Init, SearchInv
<1>3. QED BY InitIInv, NextIInv, InitWorkInv, NextWorkInv, NextSearchInv, <1>1, <1>2, PTL DEF Spec
=============================================================================
