--------------------------- MODULE NetlistProofs ---------------------------
(***************************************************************************)
(* What the netlist's constructor keeps, for netlists of any size.         *)
(***************************************************************************)
EXTENDS Netlist, Minima, TLAPS

USE GivenAssumption

-----------------------------------------------------------------------------
(* Counting inverters                                                       *)

\* iter[T] is the sum over the part T of S.
IsSum(iter, S, f) ==
    iter = [T \in SUBSET S |-> IF T = {} THEN 0 ELSE f[AnyOf(T)] + iter[T \ {AnyOf(T)}]]

\* The value of a sum over a set: every summand is part of it, and it is 0 only if
\* they all are.
LEMMA SumFacts ==
    ASSUME NEW S, IsFiniteSet(S), NEW f \in [S -> Nat], NEW iter, IsSum(iter, S, f)
    PROVE  /\ iter[S] \in Nat
           /\ iter[S] > 0 => \E x \in S : f[x] > 0
           /\ \A x \in S : f[x] <= iter[S]
           /\ \A x, y \in S : x # y => f[x] + f[y] <= iter[S]
<1> DEFINE Good(T) == /\ iter[T] \in Nat
                      /\ iter[T] > 0 => \E x \in T : f[x] > 0
                      /\ \A x \in T : f[x] <= iter[T]
                      /\ \A x, y \in T : x # y => f[x] + f[y] <= iter[T]
           Wrong == {n \in 0 .. Cardinality(S) : \E T \in SUBSET S : Cardinality(T) = n /\ ~Good(T)}
<1>1. ASSUME NEW T \in SUBSET S
      PROVE  iter[T] = IF T = {} THEN 0 ELSE f[AnyOf(T)] + iter[T \ {AnyOf(T)}]
  BY DEF IsSum
<1>2. ASSUME NEW T \in SUBSET S
      PROVE  IsFiniteSet(T) /\ Cardinality(T) \in 0 .. Cardinality(S)
  <2>1. IsFiniteSet(T) /\ Cardinality(T) <= Cardinality(S)
    BY FS_Subset
  <2>2. Cardinality(T) \in Nat /\ Cardinality(S) \in Nat
    BY <2>1, FS_CardinalityType
  <2>3. QED BY <2>1, <2>2
<1>3. ASSUME NEW n \in Wrong PROVE \E m \in Wrong : m < n
  <2>1. PICK T \in SUBSET S : Cardinality(T) = n /\ ~Good(T)
    BY <1>3
  <2>2. T # {}
    <3> SUFFICES ASSUME T = {} PROVE FALSE
      OBVIOUS
    <3>1. iter[T] = 0
      BY <1>1
    <3>2. QED BY <2>1, <3>1
  <2>3. PICK a, U : a = AnyOf(T) /\ U = T \ {a}
    OBVIOUS
  <2>4. a \in T /\ U \in SUBSET S /\ T = U \cup {a} /\ a \notin U /\ f[a] \in Nat
    BY <2>2, <2>3 DEF AnyOf
  <2>5. iter[T] = f[a] + iter[U]
    BY <1>1, <2>2, <2>3
  <2>6. Cardinality(U) = n - 1 /\ Cardinality(U) \in 0 .. Cardinality(S) /\ n \in Nat
    <3>1. Cardinality(U) = Cardinality(T) - 1 /\ Cardinality(T) \in Nat
      <4>1. IsFiniteSet(T) /\ Cardinality(T) \in Nat
        BY <1>2
      <4>2. a \in T
        BY ONLY <2>4
      <4>3. Cardinality(T \ {a}) = IF a \in T THEN Cardinality(T) - 1 ELSE Cardinality(T)
        BY ONLY <4>1, FS_RemoveElement
      <4>4. QED BY ONLY <2>3, <4>1, <4>2, <4>3
    <3>2. Cardinality(T) = n /\ Cardinality(U) \in 0 .. Cardinality(S)
      BY ONLY <1>2, <2>1, <2>4
    <3>3. QED BY ONLY <3>1, <3>2
  <2>7. ~Good(U)
    <3> SUFFICES ASSUME Good(U) PROVE FALSE
      OBVIOUS
    <3>1. iter[U] \in Nat /\ iter[T] \in Nat
      BY <2>4, <2>5
    <3>2. iter[T] > 0 => \E x \in T : f[x] > 0
      BY <2>4, <2>5, <3>1
    <3>3. ASSUME NEW x \in T PROVE f[x] <= iter[T]
      <4>1. f[x] \in Nat /\ (x = a \/ f[x] <= iter[U])
        BY <2>4
      <4>2. QED BY <2>4, <2>5, <3>1, <4>1
    <3>4. ASSUME NEW x \in T, NEW y \in T, x # y PROVE f[x] + f[y] <= iter[T]
      <4>1. f[x] \in Nat /\ f[y] \in Nat
        OBVIOUS
      <4>0. \A i, j, k \in Nat : j <= k => i + j <= i + k /\ j + i <= i + k
        OBVIOUS
      <4>2. CASE x = a
        <5>1. f[y] <= iter[U]
          BY <2>4, <3>4, <4>2
        <5>2. QED BY ONLY <2>4, <2>5, <3>1, <4>0, <4>1, <4>2, <5>1
      <4>3. CASE y = a
        <5>1. f[x] <= iter[U]
          BY <2>4, <3>4, <4>3
        <5>2. QED BY ONLY <2>4, <2>5, <3>1, <4>0, <4>1, <4>3, <5>1
      <4>4. CASE x # a /\ y # a
        <5>1. f[x] + f[y] <= iter[U]
          BY <2>4, <3>4, <4>4
        <5>2. QED BY <2>4, <2>5, <3>1, <4>1, <5>1
      <4>5. QED BY <4>2, <4>3, <4>4
    <3>5. Good(T)
      BY <3>1, <3>2, <3>3, <3>4
    <3>6. QED BY <2>1, <3>5
  <2>8. n - 1 \in Wrong
    <3> HIDE DEF Good
    <3> QED BY <2>4, <2>6, <2>7
  <2> HIDE DEF Wrong
  <2>9. QED BY <2>6, <2>8
<1>4. Wrong \in SUBSET Nat
  BY FS_CardinalityType
<1>5. Wrong = {}
  <2> HIDE DEF Wrong
  <2> QED BY <1>3, <1>4, Descent
<1>6. Good(S)
  <2>1. S \in SUBSET S /\ Cardinality(S) \in 0 .. Cardinality(S)
    BY <1>2
  <2> HIDE DEF Good
  <2>2. QED BY <1>5, <2>1
<1>7. QED BY <1>6

\* The sum over a list of cells is the last of its partial sums.
LEMMA SumIterates ==
    ASSUME NEW S, IsFiniteSet(S), NEW f \in [S -> Nat]
    PROVE  \E iter : IsSum(iter, S, f)
<1> DEFINE Step == [x \in S \X Nat |-> f[x[1]] + x[2]]
<1>1. Step \in [S \X Nat -> Nat]
  OBVIOUS
<1>2. PICK iter \in [SUBSET S -> Nat] : IsFold(iter, S, 0, Step)
  <2> HIDE DEF Step
  <2> QED BY <1>1, FoldExists
<1>3. ASSUME NEW T \in SUBSET S
      PROVE  iter[T] = IF T = {} THEN 0 ELSE f[AnyOf(T)] + iter[T \ {AnyOf(T)}]
  <2>1. iter[T] = IF T = {} THEN 0 ELSE Step[<<AnyOf(T), iter[T \ {AnyOf(T)}]>>]
    <3> HIDE DEF Step
    <3> QED BY <1>2 DEF IsFold
  <2>2. ASSUME T # {} PROVE <<AnyOf(T), iter[T \ {AnyOf(T)}]>> \in S \X Nat
    <3>1. AnyOf(T) \in S /\ T \ {AnyOf(T)} \in SUBSET S
      BY <2>2 DEF AnyOf
    <3>2. QED BY <3>1
  <2>3. QED BY <2>1, <2>2
<1>4. iter = [T \in SUBSET S |-> iter[T]]
  OBVIOUS
<1>5. iter = [T \in SUBSET S |-> IF T = {} THEN 0 ELSE f[AnyOf(T)] + iter[T \ {AnyOf(T)}]]
  BY ONLY <1>3, <1>4
<1>6. IsSum(iter, S, f)
  BY <1>5 DEF IsSum
<1>7. QED BY <1>6

\* Inverters that leave a vertex.
LEMMA OutFacts ==
    ASSUME NEW g \in Graphs, IsFiniteSet(g.vertices), NEW v \in VertexRefs
    PROVE  /\ CountOut(g, v) \in Nat
           /\ CountOut(g, v) > 0 => \E w \in g.vertices : g.edges[<<v, w>>] > 0
           /\ \A w \in g.vertices : g.edges[<<v, w>>] <= CountOut(g, v)
           /\ \A x, y \in g.vertices : x # y =>
                 g.edges[<<v, x>>] + g.edges[<<v, y>>] <= CountOut(g, v)
<1> DEFINE S == g.vertices
           f == [w \in S |-> g.edges[<<v, w>>]]
<1>1. /\ S \subseteq VertexRefs /\ f \in [S -> Nat]
      /\ \A w \in S : f[w] = g.edges[<<v, w>>]
  BY DEF Graphs
<1>2. PICK it : IsSum(it, S, f)
  <2> HIDE DEF f, S
  <2>0. IsFiniteSet(S)
    BY DEF S
  <2>1. \E it : IsSum(it, S, f)
    BY ONLY <1>1, <2>0, SumIterates
  <2>2. QED BY <2>1
<1>3. PICK iter : CountOut(g, v) = iter[S] /\ IsSum(iter, S, f)
  <2> DEFINE Code(i) == [T \in SUBSET S |-> IF T = {} THEN 0
                           ELSE g.edges[<<v, CHOOSE x \in T : TRUE>>] + i[T \ {CHOOSE x \in T : TRUE}]]
  <2>1. CountOut(g, v) = (CHOOSE i : i = Code(i))[S]
    BY DEF CountOut, MapThenSumSet, MapThenFoldSet
  <2>2. ASSUME NEW i PROVE i = Code(i) <=> IsSum(i, S, f)
    <3>1. ASSUME NEW T \in SUBSET S, T # {}
          PROVE  f[AnyOf(T)] = g.edges[<<v, CHOOSE x \in T : TRUE>>]
      BY <3>1 DEF AnyOf
    <3> HIDE DEF f
    <3>2. Code(i) = [T \in SUBSET S |-> IF T = {} THEN 0 ELSE f[AnyOf(T)] + i[T \ {AnyOf(T)}]]
      BY <3>1 DEF AnyOf
    <3> HIDE DEF Code
    <3>3. QED BY <3>2 DEF IsSum
  <2> HIDE DEF Code
  <2>3. Code(it) = it
    BY <1>2, <2>2
  <2>4. PICK i : i = (CHOOSE j : j = Code(j)) /\ i = Code(i)
    BY <2>3
  <2>5. QED BY <2>1, <2>2, <2>4
<1>4. /\ iter[S] \in Nat
      /\ iter[S] > 0 => \E x \in S : f[x] > 0
      /\ \A x \in S : f[x] <= iter[S]
      /\ \A x, y \in S : x # y => f[x] + f[y] <= iter[S]
  <2> HIDE DEF f
  <2> QED BY <1>1, <1>3, SumFacts
<1> HIDE DEF f
<1>5. QED BY ONLY <1>1, <1>3, <1>4

\* Inverters that lead to a vertex.
LEMMA InFacts ==
    ASSUME NEW g \in Graphs, IsFiniteSet(g.vertices), NEW v \in VertexRefs
    PROVE  /\ CountIn(g, v) \in Nat
           /\ CountIn(g, v) > 0 => \E w \in g.vertices : g.edges[<<w, v>>] > 0
           /\ \A w \in g.vertices : g.edges[<<w, v>>] <= CountIn(g, v)
           /\ \A x, y \in g.vertices : x # y =>
                 g.edges[<<x, v>>] + g.edges[<<y, v>>] <= CountIn(g, v)
<1> DEFINE S == g.vertices
           f == [w \in S |-> g.edges[<<w, v>>]]
<1>1. /\ S \subseteq VertexRefs /\ f \in [S -> Nat]
      /\ \A w \in S : f[w] = g.edges[<<w, v>>]
  BY DEF Graphs
<1>2. PICK it : IsSum(it, S, f)
  <2> HIDE DEF f, S
  <2>0. IsFiniteSet(S)
    BY DEF S
  <2>1. \E it : IsSum(it, S, f)
    BY ONLY <1>1, <2>0, SumIterates
  <2>2. QED BY <2>1
<1>3. PICK iter : CountIn(g, v) = iter[S] /\ IsSum(iter, S, f)
  <2> DEFINE Code(i) == [T \in SUBSET S |-> IF T = {} THEN 0
                           ELSE g.edges[<<CHOOSE x \in T : TRUE, v>>] + i[T \ {CHOOSE x \in T : TRUE}]]
  <2>1. CountIn(g, v) = (CHOOSE i : i = Code(i))[S]
    BY DEF CountIn, MapThenSumSet, MapThenFoldSet
  <2>2. ASSUME NEW i PROVE i = Code(i) <=> IsSum(i, S, f)
    <3>1. ASSUME NEW T \in SUBSET S, T # {}
          PROVE  f[AnyOf(T)] = g.edges[<<CHOOSE x \in T : TRUE, v>>]
      BY <3>1 DEF AnyOf
    <3> HIDE DEF f
    <3>2. Code(i) = [T \in SUBSET S |-> IF T = {} THEN 0 ELSE f[AnyOf(T)] + i[T \ {AnyOf(T)}]]
      BY <3>1 DEF AnyOf
    <3> HIDE DEF Code
    <3>3. QED BY <3>2 DEF IsSum
  <2> HIDE DEF Code
  <2>3. Code(it) = it
    BY <1>2, <2>2
  <2>4. PICK i : i = (CHOOSE j : j = Code(j)) /\ i = Code(i)
    BY <2>3
  <2>5. QED BY <2>1, <2>2, <2>4
<1>4. /\ iter[S] \in Nat
      /\ iter[S] > 0 => \E x \in S : f[x] > 0
      /\ \A x \in S : f[x] <= iter[S]
      /\ \A x, y \in S : x # y => f[x] + f[y] <= iter[S]
  <2> HIDE DEF f
  <2> QED BY <1>1, <1>3, SumFacts
<1> HIDE DEF f
<1>5. QED BY ONLY <1>1, <1>3, <1>4

-----------------------------------------------------------------------------
(* Graphs                                                                   *)

\* A graph with its interfaces and its inverters at vertices it has.
GraphOK(g) ==
    /\ g \in Graphs
    /\ \A i \in Ifaces : g.ifaceMap[i] \in g.vertices
    /\ \A e \in VertexRefs \X VertexRefs : g.edges[e] > 0 => e \in g.vertices \X g.vertices

\* There are finitely many numbers a vertex may have.
LEMMA RefsFinite ==
    /\ GivenVertices = 1 .. Cardinality(GivenVertices) /\ Cardinality(GivenVertices) \in Nat
    /\ IsFiniteSet(VertexRefs) /\ VertexRefs \subseteq Nat /\ GivenVertices \subseteq VertexRefs
<1>1. PICK n \in GivenVertices : GivenVertices = 1 .. n /\ n \in Nat
  BY GivenAssumption
<1>2. IsFiniteSet(GivenVertices) /\ Cardinality(GivenVertices) = n
  <2>1. IsFiniteSet(1 .. n) /\ Cardinality(1 .. n) = IF 1 > n THEN 0 ELSE n - 1 + 1
    BY <1>1, FS_Interval
  <2>2. n >= 1
    BY <1>1
  <2>3. QED BY <1>1, <2>1, <2>2
<1>3. Added \in Nat /\ VertexRefs = 1 .. n + Added
  BY <1>2 DEF VertexRefs
<1>4. IsFiniteSet(1 .. n + Added)
  <2>1. 1 \in Int /\ n + Added \in Int
    BY <1>1, <1>3
  <2>2. QED BY <2>1, FS_Interval
<1>5. QED BY <1>1, <1>2, <1>3, <1>4

\* So a graph has finitely many vertices.
LEMMA VerticesFinite ==
    ASSUME NEW g \in Graphs
    PROVE  /\ IsFiniteSet(g.vertices) /\ g.vertices \subseteq VertexRefs
           /\ g.edges \in [VertexRefs \X VertexRefs -> Nat] /\ g.ifaceMap \in [Ifaces -> VertexRefs]
<1>1. /\ g.vertices \subseteq VertexRefs
      /\ g.edges \in [VertexRefs \X VertexRefs -> Nat] /\ g.ifaceMap \in [Ifaces -> VertexRefs]
  BY DEF Graphs
<1>2. IsFiniteSet(g.vertices)
  BY <1>1, RefsFinite, FS_Subset
<1>3. QED BY <1>1, <1>2

\* The interfaces at a vertex are finitely many.
LEMMA IfacesCounted ==
    ASSUME NEW g, NEW v, NEW ifaces, IsFiniteSet(ifaces)
    PROVE  /\ Cardinality(IfacesAt(g, v, ifaces)) \in Nat
           /\ Cardinality(IfacesAt(g, v, ifaces)) = 0 <=> IfacesAt(g, v, ifaces) = {}
<1>1. IfacesAt(g, v, ifaces) \in SUBSET ifaces
  BY DEF IfacesAt
<1>2. IsFiniteSet(IfacesAt(g, v, ifaces))
  BY <1>1, FS_Subset
<1>3. QED BY <1>2, FS_CardinalityType, FS_EmptySet

\* A net with one input has one source.
LEMMA OnlySource ==
    ASSUME NEW g, GraphOK(g), NEW v \in g.vertices, NEW u \in Sources(g, v), ICountIn(g, v) <= 1
    PROVE  Sources(g, v) = {u} /\ IfacesAt(g, v, InIfaces) = {}
<1>1. g \in Graphs /\ v \in VertexRefs /\ IsFiniteSet(g.vertices) /\ g.vertices \subseteq VertexRefs
      /\ g.edges \in [VertexRefs \X VertexRefs -> Nat]
  BY VerticesFinite DEF GraphOK
<1>2. u \in g.vertices /\ g.edges[<<u, v>>] >= 1
  BY <1>1 DEF Sources
<1>3. PICK c, i : c = CountIn(g, v) /\ i = Cardinality(IfacesAt(g, v, InIfaces))
  OBVIOUS
<1>4. /\ c \in Nat /\ i \in Nat /\ c + i <= 1 /\ (i = 0 => IfacesAt(g, v, InIfaces) = {})
      /\ \A x \in g.vertices : g.edges[<<x, v>>] <= c
      /\ \A x, y \in g.vertices : x # y => g.edges[<<x, v>>] + g.edges[<<y, v>>] <= c
  BY <1>1, <1>3, InFacts, IfacesCounted, IfacesAssumption DEF ICountIn
<1>5. c = 1 /\ i = 0
  <2>1. g.edges[<<u, v>>] <= c
    BY <1>2, <1>4
  <2>2. g.edges[<<u, v>>] \in Nat
    BY <1>1, <1>2
  <2>3. QED BY ONLY <1>2, <1>4, <2>1, <2>2
<1>6. ASSUME NEW x \in Sources(g, v), x # u PROVE FALSE
  <2>1. x \in g.vertices /\ g.edges[<<x, v>>] >= 1 /\ g.edges[<<x, v>>] \in Nat
        /\ g.edges[<<u, v>>] \in Nat
    BY <1>1, <1>2 DEF Sources
  <2>2. g.edges[<<x, v>>] + g.edges[<<u, v>>] <= c
    BY <1>2, <1>4, <1>6, <2>1
  <2>3. QED BY ONLY <1>2, <1>5, <2>1, <2>2
<1>7. QED BY <1>4, <1>5, <1>6

\* A net that is read once has one target.
LEMMA OnlyTarget ==
    ASSUME NEW g, GraphOK(g), NEW v \in g.vertices, NEW w \in Targets(g, v), ICountOut(g, v) <= 1
    PROVE  Targets(g, v) = {w} /\ IfacesAt(g, v, OutIfaces) = {}
<1>1. g \in Graphs /\ v \in VertexRefs /\ IsFiniteSet(g.vertices) /\ g.vertices \subseteq VertexRefs
      /\ g.edges \in [VertexRefs \X VertexRefs -> Nat]
  BY VerticesFinite DEF GraphOK
<1>2. w \in g.vertices /\ g.edges[<<v, w>>] >= 1
  BY <1>1 DEF Targets
<1>3. PICK c, i : c = CountOut(g, v) /\ i = Cardinality(IfacesAt(g, v, OutIfaces))
  OBVIOUS
<1>4. /\ c \in Nat /\ i \in Nat /\ c + i <= 1 /\ (i = 0 => IfacesAt(g, v, OutIfaces) = {})
      /\ \A x \in g.vertices : g.edges[<<v, x>>] <= c
      /\ \A x, y \in g.vertices : x # y => g.edges[<<v, x>>] + g.edges[<<v, y>>] <= c
  BY <1>1, <1>3, OutFacts, IfacesCounted, IfacesAssumption DEF ICountOut
<1>5. c = 1 /\ i = 0
  <2>1. g.edges[<<v, w>>] <= c
    BY <1>2, <1>4
  <2>2. g.edges[<<v, w>>] \in Nat
    BY <1>1, <1>2
  <2>3. QED BY ONLY <1>2, <1>4, <2>1, <2>2
<1>6. ASSUME NEW x \in Targets(g, v), x # w PROVE FALSE
  <2>1. x \in g.vertices /\ g.edges[<<v, x>>] >= 1 /\ g.edges[<<v, x>>] \in Nat
        /\ g.edges[<<v, w>>] \in Nat
    BY <1>1, <1>2 DEF Targets
  <2>2. g.edges[<<v, x>>] + g.edges[<<v, w>>] <= c
    BY <1>2, <1>4, <1>6, <2>1
  <2>3. QED BY ONLY <1>2, <1>5, <2>1, <2>2
<1>7. QED BY <1>4, <1>5, <1>6

-----------------------------------------------------------------------------
(* Eating                                                                   *)

\* What leads from where to where when eater has eaten x.
LEMMA EatFacts ==
    ASSUME NEW g, GraphOK(g), NEW v1 \in g.vertices, NEW x \in g.vertices, x # v1,
           NEW h, h = Eat(g, v1, x)
    PROVE  /\ GraphOK(h) /\ h.vertices = g.vertices
           /\ \A i \in Ifaces : h.ifaceMap[i] = IF g.ifaceMap[i] = x THEN v1 ELSE g.ifaceMap[i]
           /\ \A u, w \in VertexRefs :
                 h.edges[<<u, w>>] > 0 <=>
                    /\ u # x /\ w # x
                    /\ \/ g.edges[<<u, w>>] > 0
                       \/ u = v1 /\ g.edges[<<x, w>>] > 0
                       \/ w = v1 /\ g.edges[<<u, x>>] > 0
<1>1. /\ g \in Graphs /\ g.vertices \subseteq VertexRefs /\ v1 \in VertexRefs /\ x \in VertexRefs
      /\ g.edges \in [VertexRefs \X VertexRefs -> Nat] /\ g.ifaceMap \in [Ifaces -> VertexRefs]
  BY VerticesFinite DEF GraphOK
<1> DEFINE Moved(u, w) == (IF u = v1 THEN g.edges[<<x, w>>] ELSE 0) +
                          (IF w = v1 THEN g.edges[<<u, x>>] ELSE 0)
           E == [e \in VertexRefs \X VertexRefs |-> IF x \in {e[1], e[2]} THEN 0
                                    ELSE g.edges[e] + Moved(e[1], e[2])]
           M == [i \in Ifaces |-> IF g.ifaceMap[i] = x THEN v1 ELSE g.ifaceMap[i]]
<1>2. DOMAIN g.edges = VertexRefs \X VertexRefs /\ DOMAIN g.ifaceMap = Ifaces
  BY <1>1
<1>3. h = [g EXCEPT !.edges = E, !.ifaceMap = M]
  BY <1>2 DEF Eat
<1>4. h.vertices = g.vertices /\ h.edges = E /\ h.ifaceMap = M
  <2> HIDE DEF E, M
  <2> QED BY <1>1, <1>3 DEF Graphs
<1>5. ASSUME NEW u \in VertexRefs, NEW w \in VertexRefs
      PROVE  /\ E[<<u, w>>] = IF x \in {u, w} THEN 0 ELSE g.edges[<<u, w>>] + Moved(u, w)
             /\ g.edges[<<u, w>>] \in Nat /\ g.edges[<<x, w>>] \in Nat /\ g.edges[<<u, x>>] \in Nat
             /\ E[<<u, w>>] \in Nat
  <2>1. g.edges[<<u, w>>] \in Nat /\ g.edges[<<x, w>>] \in Nat /\ g.edges[<<u, x>>] \in Nat
    BY <1>1
  <2>2. E[<<u, w>>] = IF x \in {u, w} THEN 0 ELSE g.edges[<<u, w>>] + Moved(u, w)
    OBVIOUS
  <2>3. Moved(u, w) \in Nat
    BY <2>1
  <2> HIDE DEF E, Moved
  <2>4. QED BY <2>1, <2>2, <2>3
<1>6. ASSUME NEW u \in VertexRefs, NEW w \in VertexRefs
      PROVE  E[<<u, w>>] > 0 <=> /\ u # x /\ w # x
                                 /\ \/ g.edges[<<u, w>>] > 0
                                    \/ u = v1 /\ g.edges[<<x, w>>] > 0
                                    \/ w = v1 /\ g.edges[<<u, x>>] > 0
  <2>1. PICK a, b, c : /\ a = g.edges[<<u, w>>] /\ b = g.edges[<<x, w>>]
                       /\ c = g.edges[<<u, x>>]
    OBVIOUS
  <2>2. E[<<u, w>>] = IF x \in {u, w} THEN 0
                      ELSE a + ((IF u = v1 THEN b ELSE 0) + (IF w = v1 THEN c ELSE 0))
    <3> HIDE DEF E
    <3> QED BY <1>5, <2>1
  <2>3. a \in Nat /\ b \in Nat /\ c \in Nat
    <3> HIDE DEF E
    <3> QED BY <1>5, <2>1
  <2> HIDE DEF E, Moved
  <2>4. QED BY ONLY <2>1, <2>2, <2>3
<1>7. E \in [VertexRefs \X VertexRefs -> Nat] /\ M \in [Ifaces -> VertexRefs]
  <2>1. ASSUME NEW e \in VertexRefs \X VertexRefs PROVE E[e] \in Nat
    <3>1. e = <<e[1], e[2]>> /\ e[1] \in VertexRefs /\ e[2] \in VertexRefs
      OBVIOUS
    <3> HIDE DEF E
    <3>2. E[<<e[1], e[2]>>] \in Nat
      BY <1>5, <3>1
    <3>3. QED BY ONLY <3>1, <3>2
  <2>2. E = [e \in VertexRefs \X VertexRefs |-> E[e]]
    BY DEF E
  <2>3. E \in [VertexRefs \X VertexRefs -> Nat]
    <3> HIDE DEF E
    <3> QED BY ONLY <2>1, <2>2
  <2>4. M \in [Ifaces -> VertexRefs]
    BY <1>1
  <2>5. QED BY <2>3, <2>4
<1>8. h = [vertices |-> g.vertices, edges |-> E, ifaceMap |-> M]
  <2> HIDE DEF E, M
  <2> QED BY <1>1, <1>3 DEF Graphs
<1>9. h \in Graphs
  <2> HIDE DEF E, M
  <2> QED BY ONLY <1>1, <1>7, <1>8 DEF Graphs
<1>10. \A i \in Ifaces : h.ifaceMap[i] \in g.vertices
  BY <1>4 DEF GraphOK
<1>11. ASSUME NEW u \in VertexRefs, NEW w \in VertexRefs, E[<<u, w>>] > 0
       PROVE  u \in g.vertices /\ w \in g.vertices
  <2>1. \A a, b \in VertexRefs : g.edges[<<a, b>>] > 0 => a \in g.vertices /\ b \in g.vertices
    BY DEF GraphOK
  <2> HIDE DEF E
  <2>2. \/ g.edges[<<u, w>>] > 0
        \/ u = v1 /\ g.edges[<<x, w>>] > 0
        \/ w = v1 /\ g.edges[<<u, x>>] > 0
    BY <1>6, <1>11
  <2>3. QED BY ONLY <1>1, <2>1, <2>2, v1 \in g.vertices, u \in VertexRefs, w \in VertexRefs
<1>12. GraphOK(h)
  <2>1. ASSUME NEW e \in VertexRefs \X VertexRefs, E[e] > 0 PROVE e \in g.vertices \X g.vertices
    <3>1. e = <<e[1], e[2]>> /\ e[1] \in VertexRefs /\ e[2] \in VertexRefs
      OBVIOUS
    <3> HIDE DEF E
    <3>2. E[<<e[1], e[2]>>] > 0
      BY ONLY <2>1, <3>1
    <3>3. e[1] \in g.vertices /\ e[2] \in g.vertices
      BY <1>11, <3>1, <3>2
    <3>4. QED BY ONLY <3>1, <3>3
  <2> HIDE DEF E, M
  <2>2. QED BY <1>4, <1>9, <1>10, <2>1 DEF GraphOK
<1>13. \A u, w \in VertexRefs :
         h.edges[<<u, w>>] > 0 <=> /\ u # x /\ w # x
                                   /\ \/ g.edges[<<u, w>>] > 0
                                      \/ u = v1 /\ g.edges[<<x, w>>] > 0
                                      \/ w = v1 /\ g.edges[<<u, x>>] > 0
  <2> HIDE DEF E
  <2> QED BY <1>4, <1>6
<1>14. \A i \in Ifaces : h.ifaceMap[i] = IF g.ifaceMap[i] = x THEN v1 ELSE g.ifaceMap[i]
  BY <1>4
<1> HIDE DEF E, M, Moved
<1>15. QED BY ONLY <1>4, <1>12, <1>13, <1>14

AllEaten(g, v1, X) == FoldSet(LAMBDA v3, k : Eat(k, v1, v3), g, X)

\* h is the graph g after v1 has eaten X: what leads from where to where then, if
\* there was no inverter among those of X.
EatenInto(g, v1, X, h) ==
    /\ GraphOK(h) /\ h.vertices = g.vertices
    /\ \A i \in Ifaces : h.ifaceMap[i] = IF g.ifaceMap[i] \in X THEN v1 ELSE g.ifaceMap[i]
    /\ (\A x, y \in X : ~(g.edges[<<x, y>>] > 0)) =>
          \A u, w \in VertexRefs :
             h.edges[<<u, w>>] > 0 <=>
                /\ u \notin X /\ w \notin X
                /\ \/ g.edges[<<u, w>>] > 0
                   \/ u = v1 /\ \E x \in X : g.edges[<<x, w>>] > 0
                   \/ w = v1 /\ \E x \in X : g.edges[<<u, x>>] > 0

\* Eating all of X, in any order, comes to that.
LEMMA EatAll ==
    ASSUME NEW g, GraphOK(g), NEW v1 \in g.vertices, NEW X \in SUBSET (g.vertices \ {v1}),
           NEW h, h = AllEaten(g, v1, X)
    PROVE  EatenInto(g, v1, X, h)
<1>1. /\ g \in Graphs /\ IsFiniteSet(g.vertices) /\ g.vertices \subseteq VertexRefs /\ v1 \in VertexRefs
      /\ IsFiniteSet(X) /\ X \subseteq VertexRefs /\ v1 \notin X
  <2>1. g \in Graphs
    BY DEF GraphOK
  <2>2. IsFiniteSet(X)
    BY <2>1, VerticesFinite, FS_Subset
  <2>3. QED BY <2>1, <2>2, VerticesFinite
<1> DEFINE D == {k \in Graphs : GraphOK(k) /\ k.vertices = g.vertices}
           Step == [a \in X \X D |-> Eat(a[2], v1, a[1])]
           Code(i) == [T \in SUBSET X |-> IF T = {} THEN g
                         ELSE Eat(i[T \ {CHOOSE x \in T : TRUE}], v1, CHOOSE x \in T : TRUE)]
<1>2. ASSUME NEW x \in X, NEW k \in D PROVE Eat(k, v1, x) \in D
  <2>1. GraphOK(k) /\ v1 \in k.vertices /\ x \in k.vertices /\ x # v1
    BY <1>1
  <2>2. PICK l : l = Eat(k, v1, x)
    OBVIOUS
  <2>3. GraphOK(l) /\ l.vertices = k.vertices
    BY <2>1, <2>2, EatFacts
  <2>4. QED BY <2>2, <2>3 DEF GraphOK
<1>3. Step \in [X \X D -> D] /\ g \in D
  <2>1. Step \in [X \X D -> D]
    <3> HIDE DEF D
    <3> QED BY <1>2
  <2>2. QED BY <1>1, <2>1
<1>4. PICK it \in [SUBSET X -> D] : IsFold(it, X, g, Step)
  <2> HIDE DEF D, Step
  <2> QED BY <1>1, <1>3, FoldExists
<1>5. ASSUME NEW T \in SUBSET X, T # {} PROVE AnyOf(T) \in T /\ T \ {AnyOf(T)} \in SUBSET X
  BY <1>5 DEF AnyOf
<1>6. it = Code(it)
  <2>1. ASSUME NEW T \in SUBSET X
        PROVE  it[T] = IF T = {} THEN g ELSE Eat(it[T \ {AnyOf(T)}], v1, AnyOf(T))
    <3>1. it[T] = IF T = {} THEN g ELSE Step[<<AnyOf(T), it[T \ {AnyOf(T)}]>>]
      <4> HIDE DEF D, Step
      <4> QED BY <1>4 DEF IsFold
    <3>2. ASSUME T # {} PROVE <<AnyOf(T), it[T \ {AnyOf(T)}]>> \in X \X D
      <4> HIDE DEF D, Step
      <4> QED BY <1>4, <1>5, <3>2
    <3>3. ASSUME T # {} PROVE Step[<<AnyOf(T), it[T \ {AnyOf(T)}]>>] = Eat(it[T \ {AnyOf(T)}], v1, AnyOf(T))
      <4> HIDE DEF D
      <4> QED BY <3>2, <3>3
    <3> HIDE DEF Step, D
    <3>4. QED BY <3>1, <3>3
  <2>2. it = [T \in SUBSET X |-> it[T]]
    <3> HIDE DEF D, Step
    <3> QED BY <1>4
  <2> HIDE DEF D, Step
  <2>3. it = [T \in SUBSET X |-> IF T = {} THEN g ELSE Eat(it[T \ {AnyOf(T)}], v1, AnyOf(T))]
    BY ONLY <2>1, <2>2
  <2>4. QED BY <2>3 DEF AnyOf
<1>7. PICK iter : h = iter[X] /\ iter = Code(iter)
  <2>1. h = (CHOOSE i : i = Code(i))[X]
    BY DEF AllEaten, FoldSet, MapThenFoldSet
  <2> HIDE DEF Code
  <2>2. (CHOOSE i : i = Code(i)) = Code(CHOOSE i : i = Code(i))
    BY <1>6
  <2>3. QED BY <2>1, <2>2
<1>8. ASSUME NEW T \in SUBSET X
      PROVE  iter[T] = IF T = {} THEN g ELSE Eat(iter[T \ {AnyOf(T)}], v1, AnyOf(T))
  BY <1>7 DEF AnyOf
<1> DEFINE Apart == \A x, y \in X : ~(g.edges[<<x, y>>] > 0)
           Good(T, k) ==
             /\ GraphOK(k) /\ k.vertices = g.vertices
             /\ \A i \in Ifaces : k.ifaceMap[i] = IF g.ifaceMap[i] \in T THEN v1 ELSE g.ifaceMap[i]
             /\ Apart => \A u, w \in VertexRefs :
                   k.edges[<<u, w>>] > 0 <=>
                      /\ u \notin T /\ w \notin T
                      /\ \/ g.edges[<<u, w>>] > 0
                         \/ u = v1 /\ \E x \in T : g.edges[<<x, w>>] > 0
                         \/ w = v1 /\ \E x \in T : g.edges[<<u, x>>] > 0
           Wrong == {n \in 0 .. Cardinality(X) : \E T \in SUBSET X : Cardinality(T) = n /\ ~Good(T, iter[T])}
<1> HIDE DEF Code
<1>9. ASSUME NEW n \in Wrong PROVE \E m \in Wrong : m < n
  <2>1. PICK T \in SUBSET X : Cardinality(T) = n /\ ~Good(T, iter[T])
    BY <1>9
  <2>2. T # {}
    <3> SUFFICES ASSUME T = {} PROVE FALSE
      OBVIOUS
    <3>1. iter[T] = g
      BY <1>8
    <3>2. Good(T, g)
      BY <1>1
    <3> HIDE DEF Good
    <3>3. QED BY <2>1, <3>1, <3>2
  <2>3. PICK a, U : a = AnyOf(T) /\ U = T \ {a}
    OBVIOUS
  <2>4. a \in T /\ U \in SUBSET X /\ T = U \cup {a} /\ a \notin U /\ a \in X
    BY <1>5, <2>2, <2>3
  <2>5. iter[T] = Eat(iter[U], v1, a)
    BY <1>8, <2>2, <2>3
  <2>6. Cardinality(U) = n - 1 /\ Cardinality(U) \in 0 .. Cardinality(X) /\ n \in Nat
    <3>1. IsFiniteSet(T) /\ IsFiniteSet(U) /\ Cardinality(U) <= Cardinality(X)
      BY <1>1, <2>4, FS_Subset
    <3>2. Cardinality(T) \in Nat /\ Cardinality(U) \in Nat /\ Cardinality(X) \in Nat
      BY <1>1, <3>1, FS_CardinalityType
    <3>3. Cardinality(T \ {a}) = Cardinality(T) - 1
      <4>1. a \in T /\ IsFiniteSet(T)
        BY <2>4, <3>1
      <4>2. QED BY ONLY <4>1, FS_RemoveElement
    <3> HIDE DEF Good
    <3>4. QED BY ONLY <2>1, <2>3, <3>1, <3>2, <3>3
  <2>7. ~Good(U, iter[U])
    <3> SUFFICES ASSUME Good(U, iter[U]) PROVE FALSE
      OBVIOUS
    <3>1. PICK k, l : k = iter[U] /\ l = iter[T]
      OBVIOUS
    <3>2. GraphOK(k) /\ k.vertices = g.vertices /\ l = Eat(k, v1, a)
      BY <2>5, <3>1
    <3>3. v1 \in k.vertices /\ a \in k.vertices /\ a # v1
      BY <1>1, <2>4, <3>2
    <3>4. /\ GraphOK(l) /\ l.vertices = k.vertices
          /\ \A i \in Ifaces : l.ifaceMap[i] = IF k.ifaceMap[i] = a THEN v1 ELSE k.ifaceMap[i]
          /\ \A u, w \in VertexRefs :
                l.edges[<<u, w>>] > 0 <=>
                   /\ u # a /\ w # a
                   /\ \/ k.edges[<<u, w>>] > 0
                      \/ u = v1 /\ k.edges[<<a, w>>] > 0
                      \/ w = v1 /\ k.edges[<<u, a>>] > 0
      BY <3>2, <3>3, EatFacts
    <3>5. \A i \in Ifaces : k.ifaceMap[i] = IF g.ifaceMap[i] \in U THEN v1 ELSE g.ifaceMap[i]
      BY <3>1
    <3>6. Apart => \A u, w \in VertexRefs :
             k.edges[<<u, w>>] > 0 <=>
                /\ u \notin U /\ w \notin U
                /\ \/ g.edges[<<u, w>>] > 0
                   \/ u = v1 /\ \E x \in U : g.edges[<<x, w>>] > 0
                   \/ w = v1 /\ \E x \in U : g.edges[<<u, x>>] > 0
      BY <3>1
    <3> HIDE DEF Good
    <3>7. \A i \in Ifaces : l.ifaceMap[i] = IF g.ifaceMap[i] \in T THEN v1 ELSE g.ifaceMap[i]
      BY ONLY <1>1, <2>4, <3>3, <3>4, <3>5
    <3>8. ASSUME Apart, NEW u \in VertexRefs, NEW w \in VertexRefs
          PROVE  l.edges[<<u, w>>] > 0 <=>
                    /\ u \notin T /\ w \notin T
                    /\ \/ g.edges[<<u, w>>] > 0
                       \/ u = v1 /\ \E x \in T : g.edges[<<x, w>>] > 0
                       \/ w = v1 /\ \E x \in T : g.edges[<<u, x>>] > 0
      <4>1. a \in VertexRefs /\ a \notin U /\ a # v1 /\ \A x \in U : x \in VertexRefs /\ x # v1
        BY <1>1, <2>4
      <4>2. \A x \in U : ~(g.edges[<<x, a>>] > 0) /\ ~(g.edges[<<a, x>>] > 0)
        BY <2>4, <3>8
      <4> HIDE DEF Apart
      <4>3. k.edges[<<a, w>>] > 0 <=> w \notin U /\ g.edges[<<a, w>>] > 0
        BY ONLY <3>6, <3>8, <4>1, <4>2, w \in VertexRefs
      <4>4. k.edges[<<u, a>>] > 0 <=> u \notin U /\ g.edges[<<u, a>>] > 0
        BY ONLY <3>6, <3>8, <4>1, <4>2, u \in VertexRefs
      <4>5. /\ (\E x \in T : g.edges[<<x, w>>] > 0)
                 <=> g.edges[<<a, w>>] > 0 \/ \E x \in U : g.edges[<<x, w>>] > 0
            /\ (\E x \in T : g.edges[<<u, x>>] > 0)
                 <=> g.edges[<<u, a>>] > 0 \/ \E x \in U : g.edges[<<u, x>>] > 0
            /\ u \notin T <=> u # a /\ u \notin U
            /\ w \notin T <=> w # a /\ w \notin U
        BY ONLY <2>4
      <4>6. l.edges[<<u, w>>] > 0 <=>
              /\ u # a /\ w # a
              /\ \/ k.edges[<<u, w>>] > 0
                 \/ u = v1 /\ k.edges[<<a, w>>] > 0
                 \/ w = v1 /\ k.edges[<<u, a>>] > 0
        BY ONLY <3>4, u \in VertexRefs, w \in VertexRefs
      <4>7. k.edges[<<u, w>>] > 0 <=>
              /\ u \notin U /\ w \notin U
              /\ \/ g.edges[<<u, w>>] > 0
                 \/ u = v1 /\ \E x \in U : g.edges[<<x, w>>] > 0
                 \/ w = v1 /\ \E x \in U : g.edges[<<u, x>>] > 0
        BY ONLY <3>6, <3>8, u \in VertexRefs, w \in VertexRefs
      <4>8. v1 \notin U
        BY ONLY <4>1
      <4>9. QED BY ONLY <4>3, <4>4, <4>5, <4>6, <4>7, <4>8
    <3>9. Good(T, l)
      BY ONLY <3>2, <3>4, <3>7, <3>8 DEF Good
    <3>10. QED BY <2>1, <3>1, <3>9
  <2>8. n - 1 \in Wrong
    <3> HIDE DEF Good
    <3> QED BY <2>4, <2>6, <2>7
  <2> HIDE DEF Wrong
  <2>9. QED BY <2>6, <2>8
<1>10. Wrong \in SUBSET Nat
  <2>1. Cardinality(X) \in Nat
    BY <1>1, FS_CardinalityType
  <2>2. QED BY <2>1
<1>11. Wrong = {}
  <2> HIDE DEF Wrong
  <2> QED BY <1>9, <1>10, Descent
<1>12. Good(X, iter[X])
  <2>1. X \in SUBSET X /\ Cardinality(X) \in 0 .. Cardinality(X)
    BY <1>1, FS_CardinalityType
  <2> HIDE DEF Good
  <2>2. QED BY <1>11, <2>1
<1>13. QED BY <1>7, <1>12 DEF EatenInto

-----------------------------------------------------------------------------
(***************************************************************************)
(* A shortcut, seen in the sources S of each vertex alone: v1 -> m -> t[m]  *)
(* for each m of M; v1 takes the place of every t[m], those of M that are   *)
(* in I are taken away, and S2 are the sources then.                        *)
(***************************************************************************)
Heads(M, t) == {t[m] : m \in M}

Shortcut(V, v1, M, t, I, S, S2) ==
    /\ v1 \in V /\ M \in SUBSET V /\ t \in [M -> V] /\ I \in SUBSET M
    /\ S \in [V -> SUBSET V] /\ S2 \in [V -> SUBSET V]
    /\ v1 \notin M /\ v1 \notin S[v1]
    /\ \A m \in M : S[m] = {v1} /\ m \in S[t[m]] /\ t[m] \notin M /\ t[m] # v1
    /\ \A m \in I : \A w \in V : m \in S[w] => w = t[m]
    /\ \A u, w \in V :
          u \in S2[w] <=>
             /\ w \notin Heads(M, t) /\ w \notin I /\ u \notin Heads(M, t)
             /\ \/ u \in S[w]
                \/ u = v1 /\ \E m \in M : t[m] \in S[w]
                \/ w = v1 /\ u \notin M /\ \E m \in M : u \in S[t[m]]

\* Of several heads each has no other source;
NoOtherSource(M, t, S) == \A m \in M : S[t[m]] = {m}

\* or there is one, and nothing else reads the vertices on the way to it.
NoOtherTarget(V, v1, M, t, I, S) ==
    \E m \in M : /\ M = {m} /\ I = {m} /\ t[m] \notin S[t[m]]
                 /\ \A w \in V : (v1 \in S[w] => w = m) /\ (m \in S[w] => w = t[m])

\* A set of vertices that are on, stable when those of J are driven.
StableIn(V, S, J, on) ==
    on \in SUBSET V /\ \A v \in V : v \in on <=> v \in J \/ S[v] \ on # {}

\* The driven vertices after the shortcut.
Redirected(M, t, v1, J) == {IF j \in Heads(M, t) THEN v1 ELSE j : j \in J}

\* What is read at j is read at v1 then if j is a head.
Reads(M, t, v1, I, on, on2, j) ==
    j \notin I => (j \in on <=> (IF j \in Heads(M, t) THEN v1 ELSE j) \in on2)

\* First kind of shortcut, heads have no other source: every stable state of the
\* graph has one of the shorter graph that reads the same,
LEMMA ShortcutForthA ==
    ASSUME NEW V, NEW v1, NEW M, NEW t, NEW I, NEW S, NEW S2, Shortcut(V, v1, M, t, I, S, S2),
           NoOtherSource(M, t, S), NEW J \in SUBSET V, J \cap M = {}, J \cap Heads(M, t) = {},
           NEW on, StableIn(V, S, J, on)
    PROVE  \E on2 : /\ StableIn(V, S2, Redirected(M, t, v1, J), on2)
                    /\ \A j \in V : Reads(M, t, v1, I, on, on2, j)
<1> DEFINE X == Heads(M, t)
           on2 == on \ (X \cup I)
<1>1. /\ v1 \in V /\ v1 \notin M /\ v1 \notin X /\ X \in SUBSET V /\ I \subseteq M /\ M \subseteq V
      /\ M \cap X = {}
      /\ \A m \in M : t[m] \in X /\ S[m] = {v1} /\ S[t[m]] = {m} /\ t[m] \in V
      /\ \A x \in X : \E m \in M : x = t[m]
  BY DEF Shortcut, NoOtherSource, Heads
<1>2. \A v \in V : v \in on <=> v \in J \/ \E u \in V : u \in S[v] /\ u \notin on
  BY DEF StableIn, Shortcut
<1>3. \A m \in M : m \in on <=> v1 \notin on
  BY <1>1, <1>2
<1>4. \A x \in X : x \in on <=> v1 \in on
  <2>1. ASSUME NEW m \in M PROVE t[m] \in on <=> v1 \in on
    <3>1. t[m] \in V /\ t[m] \notin J /\ S[t[m]] = {m} /\ m \in V
      BY <1>1
    <3>2. QED BY <1>2, <1>3, <3>1
  <2>2. QED BY <1>1, <2>1
<1>5. \A v \in V : v \in Redirected(M, t, v1, J) <=> v \in J
  BY DEF Redirected
<1>6. \A u, w \in V :
         u \in S2[w] <=> /\ w \notin X /\ w \notin I /\ u \notin X
                         /\ u \in S[w] \/ (u = v1 /\ \E m \in M : t[m] \in S[w])
  <2>1. ASSUME NEW u, NEW m \in M, u \in S[t[m]] PROVE u \in M
    BY <1>1, <2>1
  <2>2. QED BY <2>1 DEF Shortcut
<1>7. ASSUME NEW v \in V, v \notin X, v \notin I
      PROVE  (\E u \in V : u \in S[v] /\ u \notin on) <=> (\E u \in V : u \in S2[v] /\ u \notin on2)
  <2>1. ASSUME NEW u \in V, u \in S[v], u \notin on PROVE \E w \in V : w \in S2[v] /\ w \notin on2
    <3>1. CASE u \in X
      <4>1. v1 \in S2[v] /\ v1 \notin on
        BY <1>1, <1>4, <1>6, <1>7, <2>1, <3>1
      <4>2. QED BY <1>1, <4>1
    <3>2. CASE u \notin X
      BY <1>6, <1>7, <2>1, <3>2
    <3>3. QED BY <3>1, <3>2
  <2>2. ASSUME NEW u \in V, u \in S2[v], u \notin on2 PROVE \E w \in V : w \in S[v] /\ w \notin on
    <3>1. u \notin X
      BY <1>6, <2>2
    <3>2. u \notin I
      <4>1. ASSUME u \in I PROVE v \in X
        <5>1. u \in S[v] /\ u \in M
          BY <1>1, <1>6, <2>2, <4>1
        <5>2. v = t[u]
          BY <4>1, <5>1 DEF Shortcut
        <5>3. QED BY <1>1, <5>1, <5>2
      <4>2. QED BY <1>7, <4>1
    <3>3. u \notin on
      BY <2>2, <3>1, <3>2
    <3>4. CASE u \in S[v]
      BY <3>3, <3>4
    <3>5. ASSUME u = v1, NEW m \in M, t[m] \in S[v] PROVE \E w \in V : w \in S[v] /\ w \notin on
      BY <1>1, <1>4, <3>3, <3>5
    <3>6. QED BY <1>6, <2>2, <3>4, <3>5
  <2>3. QED BY <2>1, <2>2
<1>8. ASSUME NEW v \in V
      PROVE  v \in on2 <=> v \in Redirected(M, t, v1, J) \/ \E u \in V : u \in S2[v] /\ u \notin on2
  <2>1. CASE v \in X \cup I
    <3>1. v \notin J /\ v \notin on2
      BY <1>1, <2>1
    <3>2. \A u \in V : u \notin S2[v]
      BY <1>6, <2>1
    <3>3. QED BY <1>5, <3>1, <3>2
  <2>2. CASE v \notin X \cup I
    <3>1. v \in on2 <=> v \in on
      BY <2>2
    <3>2. QED BY <1>2, <1>5, <1>7, <2>2, <3>1
  <2>3. QED BY <2>1, <2>2
<1>9. StableIn(V, S2, Redirected(M, t, v1, J), on2)
  <2>1. on2 \in SUBSET V /\ \A v \in V : S2[v] \in SUBSET V
    BY DEF StableIn, Shortcut
  <2>2. \A v \in V : S2[v] \ on2 # {} <=> \E u \in V : u \in S2[v] /\ u \notin on2
    BY <2>1
  <2> HIDE DEF on2
  <2>3. QED BY <1>8, <2>1, <2>2 DEF StableIn
<1>10. \A j \in V : Reads(M, t, v1, I, on, on2, j)
  BY <1>1, <1>4 DEF Reads
<1>11. QED BY <1>9, <1>10

\* and the other way.
LEMMA ShortcutBackA ==
    ASSUME NEW V, NEW v1, NEW M, NEW t, NEW I, NEW S, NEW S2, Shortcut(V, v1, M, t, I, S, S2),
           NoOtherSource(M, t, S), NEW J \in SUBSET V, J \cap M = {}, J \cap Heads(M, t) = {},
           NEW on2, StableIn(V, S2, Redirected(M, t, v1, J), on2)
    PROVE  \E on : /\ StableIn(V, S, J, on)
                   /\ \A j \in V : Reads(M, t, v1, I, on, on2, j)
<1> DEFINE X == Heads(M, t)
           on == {x \in V : IF x \in X THEN v1 \in on2 ELSE IF x \in M THEN v1 \notin on2 ELSE x \in on2}
<1>1. /\ v1 \in V /\ v1 \notin M /\ v1 \notin X /\ X \in SUBSET V /\ I \subseteq M /\ M \subseteq V
      /\ M \cap X = {}
      /\ \A m \in M : t[m] \in X /\ S[m] = {v1} /\ S[t[m]] = {m} /\ t[m] \in V
      /\ \A x \in X : \E m \in M : x = t[m]
  BY DEF Shortcut, NoOtherSource, Heads
<1>2. \A v \in V : v \in Redirected(M, t, v1, J) <=> v \in J
  BY DEF Redirected
<1>3. \A v \in V : v \in on2 <=> v \in J \/ \E u \in V : u \in S2[v] /\ u \notin on2
  BY <1>2 DEF StableIn, Shortcut
<1>4. \A u, w \in V :
         u \in S2[w] <=> /\ w \notin X /\ w \notin I /\ u \notin X
                         /\ u \in S[w] \/ (u = v1 /\ \E m \in M : t[m] \in S[w])
  <2>1. ASSUME NEW u, NEW m \in M, u \in S[t[m]] PROVE u \in M
    BY <1>1, <2>1
  <2>2. QED BY <2>1 DEF Shortcut
<1>5. \A v \in V : /\ v \in X => (v \in on <=> v1 \in on2)
                   /\ v \in M => (v \in on <=> v1 \notin on2)
                   /\ v \notin X /\ v \notin M => (v \in on <=> v \in on2)
  BY <1>1
<1> HIDE DEF on
<1>6. ASSUME NEW m \in M, m \notin I PROVE m \in on2 <=> v1 \notin on2
  <2>1. \A u \in V : u \in S2[m] <=> u = v1
    <3>1. m \in V /\ m \notin X /\ S[m] = {v1}
      BY <1>1
    <3>2. \A k \in M : t[k] \notin S[m]
      BY <1>1, <3>1
    <3>3. QED BY <1>1, <1>4, <1>6, <3>1, <3>2
  <2>2. m \in V /\ m \notin J
    BY <1>1
  <2>3. QED BY <1>1, <1>3, <2>1, <2>2
<1>7. ASSUME NEW v \in V, v \notin X, v \notin M
      PROVE  (\E u \in V : u \in S[v] /\ u \notin on) <=> (\E u \in V : u \in S2[v] /\ u \notin on2)
  <2>0. \A u \in V : u \in M /\ u \in S[v] => u \notin I
    <3>1. ASSUME NEW u \in V, u \in M, u \in S[v], u \in I PROVE FALSE
      <4>1. v = t[u]
        BY <3>1 DEF Shortcut
      <4>2. QED BY <1>1, <1>7, <3>1, <4>1
    <3>2. QED BY <3>1
  <2>1. ASSUME NEW u \in V, u \in S[v], u \notin on PROVE \E w \in V : w \in S2[v] /\ w \notin on2
    <3>1. CASE u \in X
      <4>1. v1 \in S2[v] /\ v1 \notin on2
        BY <1>1, <1>4, <1>5, <1>7, <2>1, <3>1
      <4>2. QED BY <1>1, <4>1
    <3>2. CASE u \in M
      <4>1. u \notin I /\ u \notin X
        BY <1>1, <2>0, <2>1, <3>2
      <4>2. u \notin on2
        BY <1>5, <1>6, <2>1, <3>2, <4>1
      <4>3. QED BY <1>1, <1>4, <1>7, <2>1, <4>1, <4>2
    <3>3. CASE u \notin X /\ u \notin M
      BY <1>1, <1>4, <1>5, <1>7, <2>1, <3>3
    <3>4. QED BY <3>1, <3>2, <3>3
  <2>2. ASSUME NEW u \in V, u \in S2[v], u \notin on2 PROVE \E w \in V : w \in S[v] /\ w \notin on
    <3>1. u \notin X
      BY <1>4, <2>2
    <3>2. CASE u \in S[v]
      <4>1. u \notin on
        BY <1>5, <1>6, <2>0, <2>2, <3>1, <3>2
      <4>2. QED BY <3>2, <4>1
    <3>3. ASSUME u = v1, NEW m \in M, t[m] \in S[v] PROVE \E w \in V : w \in S[v] /\ w \notin on
      BY <1>1, <1>5, <2>2, <3>3
    <3>4. QED BY <1>4, <2>2, <3>2, <3>3
  <2>3. QED BY <2>1, <2>2
<1>8. v1 \in on <=> v1 \in on2
  BY <1>1, <1>5
<1>9. ASSUME NEW v \in V PROVE v \in on <=> v \in J \/ \E u \in V : u \in S[v] /\ u \notin on
  <2>1. CASE v \in M
    <3>1. S[v] = {v1} /\ v \notin J
      BY <1>1, <2>1
    <3>2. QED BY <1>1, <1>5, <1>8, <2>1, <3>1
  <2>2. CASE v \in X
    <3>1. PICK m \in M : v = t[m] /\ S[v] = {m} /\ v \notin J /\ m \in V
      BY <1>1, <2>2
    <3>2. QED BY <1>1, <1>5, <2>2, <3>1
  <2>3. CASE v \notin X /\ v \notin M
    <3>1. v \in on <=> v \in on2
      BY <1>5, <2>3
    <3>2. QED BY <1>3, <1>7, <2>3, <3>1
  <2>4. QED BY <2>1, <2>2, <2>3
<1>10. StableIn(V, S, J, on)
  <2>1. on \in SUBSET V /\ \A v \in V : S[v] \in SUBSET V
    BY DEF on, Shortcut
  <2>2. \A v \in V : S[v] \ on # {} <=> \E u \in V : u \in S[v] /\ u \notin on
    BY <2>1
  <2>3. QED BY <1>9, <2>1, <2>2 DEF StableIn
<1>11. \A j \in V : Reads(M, t, v1, I, on, on2, j)
  <2>1. ASSUME NEW j \in V, j \notin I
        PROVE  j \in on <=> (IF j \in X THEN v1 ELSE j) \in on2
    BY <1>1, <1>5, <1>6, <2>1
  <2>2. QED BY <2>1 DEF Reads
<1>12. QED BY <1>10, <1>11

\* What a vertex reads before and after a shortcut v1 -> m -> x, and what is driven.
OneHead(V, v1, m, x, S, S2, J, J2) ==
    /\ x \in V /\ m \in V /\ v1 \in V /\ x # m /\ x # v1 /\ m # v1 /\ m \notin J
    /\ S[m] = {v1} /\ m \in S[x] /\ x \notin S[x] /\ v1 \notin S[v1]
    /\ \A w \in V : (v1 \in S[w] => w = m) /\ (m \in S[w] => w = x)
    /\ \A u \in V : u \notin S2[x] /\ u \notin S2[m]
    /\ \A u \in V : u \in S2[v1] <=> \/ u \in S[v1] /\ u # x
                                     \/ u = v1 /\ x \in S[v1]
                                     \/ u \in S[x] /\ u # m
    /\ \A u, w \in V : w \notin {x, m, v1} =>
          (u \in S2[w] <=> (u \in S[w] /\ u # x) \/ (u = v1 /\ x \in S[w]))
    /\ \A w \in V : /\ w \notin {x, m, v1} => (w \in J2 <=> w \in J)
                    /\ w \in {x, m} => w \notin J2
    /\ v1 \in J2 <=> v1 \in J \/ x \in J

\* What a vertex reads before and after a shortcut with a single head.
LEMMA ShortcutSingle ==
    ASSUME NEW V, NEW v1, NEW M, NEW t, NEW I, NEW S, NEW S2, Shortcut(V, v1, M, t, I, S, S2),
           NoOtherTarget(V, v1, M, t, I, S), NEW J \in SUBSET V, J \cap M = {}
    PROVE  \E m \in M : \E x \in V :
              /\ M = {m} /\ I = {m} /\ Heads(M, t) = {x}
              /\ OneHead(V, v1, m, x, S, S2, J, Redirected(M, t, v1, J))
<1> DEFINE J2 == Redirected(M, t, v1, J)
<1>1. PICK m \in M : /\ M = {m} /\ I = {m} /\ t[m] \notin S[t[m]]
                     /\ \A w \in V : (v1 \in S[w] => w = m) /\ (m \in S[w] => w = t[m])
  BY DEF NoOtherTarget
<1>2. PICK x \in V : x = t[m]
  BY DEF Shortcut
<1>3. Heads(M, t) = {x}
  BY <1>1, <1>2 DEF Heads
<1>4. /\ m \in V /\ x # m /\ x # v1 /\ m # v1 /\ m \notin J /\ v1 \in V
      /\ S[m] = {v1} /\ m \in S[x] /\ x \notin S[x] /\ v1 \notin S[v1]
      /\ \A w \in V : (v1 \in S[w] => w = m) /\ (m \in S[w] => w = x)
  BY <1>1, <1>2 DEF Shortcut
<1>5. \A u, w \in V :
         u \in S2[w] <=> /\ w # x /\ w # m /\ u # x
                         /\ \/ u \in S[w]
                            \/ u = v1 /\ x \in S[w]
                            \/ w = v1 /\ u # m /\ u \in S[x]
  BY <1>1, <1>2, <1>3 DEF Shortcut
<1>6. \A w : w \in J2 <=> \E j \in J : w = IF j = x THEN v1 ELSE j
  BY <1>3 DEF Redirected
<1>7. \A w \in V : /\ w \notin {x, m, v1} => (w \in J2 <=> w \in J)
                   /\ w \in {x, m} => w \notin J2
  BY <1>4, <1>6
<1>8. v1 \in J2 <=> v1 \in J \/ x \in J
  BY <1>4, <1>6
<1>9. \A u \in V : u \in S2[v1] <=> \/ u \in S[v1] /\ u # x
                                    \/ u = v1 /\ x \in S[v1]
                                    \/ u \in S[x] /\ u # m
  BY <1>4, <1>5
<1> HIDE DEF J2
<1>10. OneHead(V, v1, m, x, S, S2, J, J2)
  <2>1. \A u \in V : u \notin S2[x] /\ u \notin S2[m]
    BY <1>4, <1>5
  <2>2. \A u, w \in V : w \notin {x, m, v1} =>
          (u \in S2[w] <=> (u \in S[w] /\ u # x) \/ (u = v1 /\ x \in S[w]))
    <3>1. ASSUME NEW u \in V, NEW w \in V, w \notin {x, m, v1}
          PROVE  u \in S2[w] <=> (u \in S[w] /\ u # x) \/ (u = v1 /\ x \in S[w])
      <4>1. w # x /\ w # m /\ w # v1
        BY <3>1
      <4>2. u \in S2[w] <=> u # x /\ (u \in S[w] \/ (u = v1 /\ x \in S[w]))
        BY ONLY u \in V, w \in V, <1>5, <4>1
      <4>3. QED BY ONLY <1>4, <4>2
    <3>2. QED BY <3>1
  <2>3. QED BY ONLY x \in V, <1>4, <1>7, <1>8, <1>9, <2>1, <2>2 DEF OneHead
<1>11. QED BY <1>1, <1>3, <1>10 DEF J2

\* Second kind, nothing else reads the vertices on the way: from the graph to the
\* shorter one,
LEMMA ShortcutForthB ==
    ASSUME NEW V, NEW v1, NEW M, NEW t, NEW I, NEW S, NEW S2, Shortcut(V, v1, M, t, I, S, S2),
           NoOtherTarget(V, v1, M, t, I, S), NEW J \in SUBSET V, J \cap M = {},
           NEW on, StableIn(V, S, J, on)
    PROVE  \E on2 : /\ StableIn(V, S2, Redirected(M, t, v1, J), on2)
                    /\ \A j \in V \ {v1} : Reads(M, t, v1, I, on, on2, j)
<1> DEFINE J2 == Redirected(M, t, v1, J)
<1>0. PICK m \in M, x \in V :
        M = {m} /\ I = {m} /\ Heads(M, t) = {x} /\ OneHead(V, v1, m, x, S, S2, J, J2)
  BY ONLY Shortcut(V, v1, M, t, I, S, S2), NoOtherTarget(V, v1, M, t, I, S), J \in SUBSET V, J \cap M = {}, ShortcutSingle
<1> HIDE DEF J2
<1>1. /\ x \in V /\ m \in V /\ v1 \in V /\ x # m /\ x # v1 /\ m # v1 /\ m \notin J
      /\ S[m] = {v1} /\ m \in S[x] /\ x \notin S[x] /\ v1 \notin S[v1]
      /\ \A w \in V : (v1 \in S[w] => w = m) /\ (m \in S[w] => w = x)
      /\ \A u \in V : u \notin S2[x] /\ u \notin S2[m]
  BY <1>0 DEF OneHead
<1>12. \A u \in V : u \in S2[v1] <=> \/ u \in S[v1] /\ u # x
                                     \/ u = v1 /\ x \in S[v1]
                                     \/ u \in S[x] /\ u # m
  BY <1>0 DEF OneHead
<1>13. \A u, w \in V : w \notin {x, m, v1} =>
          (u \in S2[w] <=> (u \in S[w] /\ u # x) \/ (u = v1 /\ x \in S[w]))
  BY <1>0 DEF OneHead
<1>14. /\ \A w \in V : /\ w \notin {x, m, v1} => (w \in J2 <=> w \in J)
                       /\ w \in {x, m} => w \notin J2
       /\ v1 \in J2 <=> v1 \in J \/ x \in J
  BY <1>0 DEF OneHead
<1> DEFINE on2 == {w \in V : IF w = v1 THEN x \in on ELSE w # x /\ w # m /\ w \in on}
<1>2. \A v \in V : v \in on <=> v \in J \/ \E u \in V : u \in S[v] /\ u \notin on
  BY DEF StableIn, Shortcut
<1>3. /\ v1 \in on2 <=> x \in on
      /\ x \notin on2 /\ m \notin on2
      /\ \A w \in V : w \notin {x, m, v1} => (w \in on2 <=> w \in on)
  BY <1>1
<1> HIDE DEF on2, J2
<1>4. m \in on <=> v1 \notin on
  BY <1>1, <1>2
<1>5. ASSUME NEW v \in V, v \notin {x, m, v1}
      PROVE  v \in on2 <=> v \in J2 \/ \E u \in V : u \in S2[v] /\ u \notin on2
  <2>1. v \in J2 <=> v \in J
    BY <1>5, <1>14
  <2>2. m \notin S[v] /\ v1 \notin S[v]
    BY <1>1, <1>5
  <2>3. (\E u \in V : u \in S[v] /\ u \notin on) <=> (\E u \in V : u \in S2[v] /\ u \notin on2)
    <3>1. \A u \in V : u \in S2[v] <=> (u \in S[v] /\ u # x) \/ (u = v1 /\ x \in S[v])
      BY <1>13, <1>5
    <3>2. ASSUME NEW u \in V, u \in S[v], u \notin on PROVE \E w \in V : w \in S2[v] /\ w \notin on2
      <4>1. CASE u = x
        BY <1>1, <1>3, <3>1, <3>2, <4>1
      <4>2. CASE u # x
        <5>1. u \notin {x, m, v1}
          BY <2>2, <3>2, <4>2
        <5>2. u \notin on2
          BY <1>3, <3>2, <5>1
        <5>3. u \in S2[v]
          BY ONLY u \in V, <3>1, <3>2, <4>2
        <5>4. QED BY <5>2, <5>3
      <4>3. QED BY <4>1, <4>2
    <3>3. ASSUME NEW u \in V, u \in S2[v], u \notin on2 PROVE \E w \in V : w \in S[v] /\ w \notin on
      BY <1>1, <1>3, <2>2, <3>1, <3>3
    <3>4. QED BY <3>2, <3>3
  <2>4. QED BY <1>2, <1>3, <1>5, <2>1, <2>3
<1>6. v1 \in on2 <=> v1 \in J2 \/ \E u \in V : u \in S2[v1] /\ u \notin on2
  <2>1. /\ x \in on <=> x \in J \/ \E u \in V : u \in S[x] /\ u \notin on
        /\ v1 \in on <=> v1 \in J \/ \E u \in V : u \in S[v1] /\ u \notin on
    BY <1>1, <1>2
  <2>2. (\E u \in V : u \in S[x] /\ u \notin on)
          <=> v1 \in on \/ \E u \in V : u \in S[x] /\ u # m /\ u \notin on
    BY <1>1, <1>4
  <2>3. m \notin S[v1] /\ v1 \notin S[x] /\ x \notin S[x] /\ v1 \notin S[v1]
    BY <1>1
  <2>4. (\E u \in V : u \in S2[v1] /\ u \notin on2)
          <=> \/ \E u \in V : u \in S[v1] /\ u # x /\ u \notin on
              \/ x \in S[v1] /\ x \notin on
              \/ \E u \in V : u \in S[x] /\ u # m /\ u \notin on
    BY <1>1, <1>3, <1>12, <2>3
  <2>5. (\E u \in V : u \in S[v1] /\ u \notin on)
          <=> (\E u \in V : u \in S[v1] /\ u # x /\ u \notin on) \/ (x \in S[v1] /\ x \notin on)
    OBVIOUS
  <2>6. v1 \in J2 <=> v1 \in J \/ x \in J
    BY <1>14
  <2>7. QED BY <1>3, <2>1, <2>2, <2>4, <2>5, <2>6
<1>7. ASSUME NEW v \in V PROVE v \in on2 <=> v \in J2 \/ \E u \in V : u \in S2[v] /\ u \notin on2
  BY <1>1, <1>3, <1>5, <1>6, <1>14
<1>8. StableIn(V, S2, J2, on2)
  <2>1. on2 \in SUBSET V /\ \A v \in V : S2[v] \in SUBSET V
    BY DEF on2, Shortcut
  <2>2. \A v \in V : S2[v] \ on2 # {} <=> \E u \in V : u \in S2[v] /\ u \notin on2
    BY <2>1
  <2>3. QED BY <1>7, <2>1, <2>2 DEF StableIn
<1>9. \A j \in V \ {v1} : Reads(M, t, v1, I, on, on2, j)
  BY <1>0, <1>1, <1>3 DEF Reads
<1>10. QED BY <1>8, <1>9 DEF J2

\* and back.
LEMMA ShortcutBackB ==
    ASSUME NEW V, NEW v1, NEW M, NEW t, NEW I, NEW S, NEW S2, Shortcut(V, v1, M, t, I, S, S2),
           NoOtherTarget(V, v1, M, t, I, S), NEW J \in SUBSET V, J \cap M = {},
           NEW on2, StableIn(V, S2, Redirected(M, t, v1, J), on2)
    PROVE  \E on : /\ StableIn(V, S, J, on)
                   /\ \A j \in V \ {v1} : Reads(M, t, v1, I, on, on2, j)
<1> DEFINE J2 == Redirected(M, t, v1, J)
<1>0. PICK m \in M, x \in V :
        M = {m} /\ I = {m} /\ Heads(M, t) = {x} /\ OneHead(V, v1, m, x, S, S2, J, J2)
  BY ONLY Shortcut(V, v1, M, t, I, S, S2), NoOtherTarget(V, v1, M, t, I, S), J \in SUBSET V, J \cap M = {}, ShortcutSingle
<1> HIDE DEF J2
<1>1. /\ x \in V /\ m \in V /\ v1 \in V /\ x # m /\ x # v1 /\ m # v1 /\ m \notin J
      /\ S[m] = {v1} /\ m \in S[x] /\ x \notin S[x] /\ v1 \notin S[v1]
      /\ \A w \in V : (v1 \in S[w] => w = m) /\ (m \in S[w] => w = x)
      /\ \A u \in V : u \notin S2[x] /\ u \notin S2[m]
  BY <1>0 DEF OneHead
<1>12. \A u \in V : u \in S2[v1] <=> \/ u \in S[v1] /\ u # x
                                     \/ u = v1 /\ x \in S[v1]
                                     \/ u \in S[x] /\ u # m
  BY <1>0 DEF OneHead
<1>13. \A u, w \in V : w \notin {x, m, v1} =>
          (u \in S2[w] <=> (u \in S[w] /\ u # x) \/ (u = v1 /\ x \in S[w]))
  BY <1>0 DEF OneHead
<1>14. /\ \A w \in V : /\ w \notin {x, m, v1} => (w \in J2 <=> w \in J)
                       /\ w \in {x, m} => w \notin J2
       /\ v1 \in J2 <=> v1 \in J \/ x \in J
  BY <1>0 DEF OneHead
<1> DEFINE First == v1 \in J \/ \E u \in V : u \in S[v1] /\ (IF u = x THEN v1 ELSE u) \notin on2
           on == {w \in V : IF w = x THEN v1 \in on2
                            ELSE IF w = v1 THEN First
                            ELSE IF w = m THEN ~First ELSE w \in on2}
<1>2. \A v \in V : v \in on2 <=> v \in J2 \/ \E u \in V : u \in S2[v] /\ u \notin on2
  BY DEF StableIn, Shortcut, J2
<1> HIDE DEF First, J2
<1>3. /\ x \in on <=> v1 \in on2
      /\ v1 \in on <=> First
      /\ m \in on <=> ~First
      /\ \A w \in V : w \notin {x, m, v1} => (w \in on <=> w \in on2)
  BY <1>1
<1> HIDE DEF on
<1>4. m \notin S[v1] /\ v1 \notin S[x] /\ x \notin S[x] /\ v1 \notin S[v1]
  BY <1>1
<1>5. v1 \in on <=> v1 \in J \/ \E u \in V : u \in S[v1] /\ u \notin on
  BY <1>1, <1>3, <1>4 DEF First
<1>6. ASSUME NEW v \in V, v \notin {x, m, v1}
      PROVE  v \in on <=> v \in J \/ \E u \in V : u \in S[v] /\ u \notin on
  <2>1. v \in J2 <=> v \in J
    BY <1>6, <1>14
  <2>2. m \notin S[v] /\ v1 \notin S[v]
    BY <1>1, <1>6
  <2>3. (\E u \in V : u \in S[v] /\ u \notin on) <=> (\E u \in V : u \in S2[v] /\ u \notin on2)
    <3>1. \A u \in V : u \in S2[v] <=> (u \in S[v] /\ u # x) \/ (u = v1 /\ x \in S[v])
      BY <1>13, <1>6
    <3>2. ASSUME NEW u \in V, u \in S[v], u \notin on PROVE \E w \in V : w \in S2[v] /\ w \notin on2
      <4>1. CASE u = x
        BY <1>1, <1>3, <3>1, <3>2, <4>1
      <4>2. CASE u # x
        <5>1. u \notin {x, m, v1}
          BY <2>2, <3>2, <4>2
        <5>2. u \notin on2
          BY <1>3, <3>2, <5>1
        <5>3. u \in S2[v]
          BY ONLY u \in V, <3>1, <3>2, <4>2
        <5>4. QED BY <5>2, <5>3
      <4>3. QED BY <4>1, <4>2
    <3>3. ASSUME NEW u \in V, u \in S2[v], u \notin on2 PROVE \E w \in V : w \in S[v] /\ w \notin on
      BY <1>1, <1>3, <2>2, <3>1, <3>3
    <3>4. QED BY <3>2, <3>3
  <2>4. QED BY <1>2, <1>3, <1>6, <2>1, <2>3
<1>7. x \in on <=> x \in J \/ \E u \in V : u \in S[x] /\ u \notin on
  <2>1. (\E u \in V : u \in S2[v1] /\ u \notin on2)
          <=> \/ \E u \in V : u \in S[v1] /\ (IF u = x THEN v1 ELSE u) \notin on2
              \/ \E u \in V : u \in S[x] /\ u # m /\ u \notin on
    BY <1>1, <1>3, <1>4, <1>12
  <2>2. (\E u \in V : u \in S[x] /\ u \notin on)
          <=> First \/ \E u \in V : u \in S[x] /\ u # m /\ u \notin on
    BY <1>1, <1>3
  <2>3. v1 \in on2 <=> v1 \in J2 \/ \E u \in V : u \in S2[v1] /\ u \notin on2
    BY <1>1, <1>2
  <2>4. v1 \in J2 <=> v1 \in J \/ x \in J
    BY <1>14
  <2>5. QED BY <1>3, <2>1, <2>2, <2>3, <2>4 DEF First
<1>8. m \in on <=> m \in J \/ \E u \in V : u \in S[m] /\ u \notin on
  BY <1>1, <1>3
<1>9. StableIn(V, S, J, on)
  <2>1. on \in SUBSET V /\ \A v \in V : S[v] \in SUBSET V
    BY DEF on, Shortcut
  <2>2. \A v \in V : S[v] \ on # {} <=> \E u \in V : u \in S[v] /\ u \notin on
    BY <2>1
  <2>3. ASSUME NEW v \in V PROVE v \in on <=> v \in J \/ \E u \in V : u \in S[v] /\ u \notin on
    BY <1>5, <1>6, <1>7, <1>8
  <2>4. QED BY <2>1, <2>2, <2>3 DEF StableIn
<1>10. \A j \in V \ {v1} : Reads(M, t, v1, I, on, on2, j)
  BY <1>0, <1>1, <1>3 DEF Reads
<1>11. QED BY <1>9, <1>10

-----------------------------------------------------------------------------
(* What a graph computes, by way of the sources of its vertices             *)

SourcesOf(g) == [v \in g.vertices |-> Sources(g, v)]
Input(g, driven) == {g.ifaceMap[i] : i \in driven}

\* A stable state of the graph is one of its sources.
LEMMA StableMeaning ==
    ASSUME NEW g, NEW driven, NEW on
    PROVE  on \in Stable(g, driven) <=> StableIn(g.vertices, SourcesOf(g), Input(g, driven), on)
BY DEF Stable, StableIn, SourcesOf, Input

\* For each stable state of g there is one of h with the same outputs.
Matched(g, h) ==
    \A driven \in SUBSET InIfaces : \A on \in Stable(g, driven) :
        \E on2 \in Stable(h, driven) :
            \A o \in OutIfaces : g.ifaceMap[o] \in on <=> h.ifaceMap[o] \in on2

\* A graph whose stable states all have matching ones in another does nothing the
\* other does not do.
LEMMA MatchedPart ==
    ASSUME NEW g, NEW h, Matched(g, h)
    PROVE  Behaviour(g) \subseteq Behaviour(h)
<1>1. SUFFICES ASSUME NEW driven \in SUBSET InIfaces, NEW on \in Stable(g, driven)
               PROVE  <<driven, {o \in OutIfaces : g.ifaceMap[o] \in on}>> \in Behaviour(h)
  BY DEF Behaviour
<1>2. PICK on2 \in Stable(h, driven) : \A o \in OutIfaces : g.ifaceMap[o] \in on <=> h.ifaceMap[o] \in on2
  BY DEF Matched
<1>3. {o \in OutIfaces : g.ifaceMap[o] \in on} = {o \in OutIfaces : h.ifaceMap[o] \in on2}
  BY <1>2
<1>4. <<driven, {o \in OutIfaces : h.ifaceMap[o] \in on2}>> \in Behaviour(h)
  BY DEF Behaviour
<1>5. QED BY <1>3, <1>4

\* Graphs whose stable states match each other's compute the same.
LEMMA SameBehaviour ==
    ASSUME NEW g, NEW h, Matched(g, h), Matched(h, g)
    PROVE  Behaviour(g) = Behaviour(h)
<1>1. Behaviour(g) \subseteq Behaviour(h)
  BY MatchedPart
<1>2. Behaviour(h) \subseteq Behaviour(g)
  BY MatchedPart
<1>3. QED BY <1>1, <1>2

\* What an interface has to do with the shortcut: none drives a vertex on the way,
\* and none reads one that is taken away.
IfacesClear(g, v1, M, t, I, h) ==
    /\ \A i \in Ifaces : h.ifaceMap[i] = IF g.ifaceMap[i] \in Heads(M, t) THEN v1 ELSE g.ifaceMap[i]
    /\ \A i \in InIfaces : g.ifaceMap[i] \notin M
    /\ \A o \in OutIfaces : g.ifaceMap[o] \notin I

\* The two ways in which a shortcut is sound.
SoundShortcut(g, v1, M, t, I) ==
    \/ /\ NoOtherSource(M, t, SourcesOf(g))
       /\ \A i \in InIfaces : g.ifaceMap[i] \notin Heads(M, t)
    \/ /\ NoOtherTarget(g.vertices, v1, M, t, I, SourcesOf(g))
       /\ \A o \in OutIfaces : g.ifaceMap[o] # v1

\* A sound shortcut leaves what the graph computes as it was.
LEMMA ShortcutKeepsBehaviour ==
    ASSUME NEW g, GraphOK(g), NEW h, h.vertices = g.vertices,
           NEW v1, NEW M, NEW t, NEW I,
           Shortcut(g.vertices, v1, M, t, I, SourcesOf(g), SourcesOf(h)),
           IfacesClear(g, v1, M, t, I, h), SoundShortcut(g, v1, M, t, I)
    PROVE  Behaviour(h) = Behaviour(g)
<1> DEFINE V == g.vertices
           S == SourcesOf(g)
           S2 == SourcesOf(h)
<1>1. ASSUME NEW driven \in SUBSET InIfaces
      PROVE  /\ Input(g, driven) \in SUBSET V /\ Input(g, driven) \cap M = {}
             /\ Input(h, driven) = Redirected(M, t, v1, Input(g, driven))
             /\ (\A i \in InIfaces : g.ifaceMap[i] \notin Heads(M, t)) => Input(g, driven) \cap Heads(M, t) = {}
  <2>1. \A i \in driven : i \in Ifaces /\ i \in InIfaces
    BY DEF Ifaces
  <2>2. Input(g, driven) \in SUBSET V /\ Input(g, driven) \cap M = {}
    BY <2>1 DEF Input, IfacesClear, GraphOK
  <2>3. Input(h, driven) = {IF g.ifaceMap[i] \in Heads(M, t) THEN v1 ELSE g.ifaceMap[i] : i \in driven}
    BY <2>1 DEF Input, IfacesClear
  <2>4. Input(h, driven) = Redirected(M, t, v1, Input(g, driven))
    BY <2>3 DEF Redirected, Input
  <2>5. QED BY <2>1, <2>2, <2>4 DEF Input
<1>2. ASSUME NEW on, NEW on2, \A j \in V \ {v1} : Reads(M, t, v1, I, on, on2, j),
             \/ \A o \in OutIfaces : g.ifaceMap[o] # v1
             \/ \A j \in V : Reads(M, t, v1, I, on, on2, j)
      PROVE  \A o \in OutIfaces : g.ifaceMap[o] \in on <=> h.ifaceMap[o] \in on2
  <2>1. ASSUME NEW o \in OutIfaces PROVE g.ifaceMap[o] \in on <=> h.ifaceMap[o] \in on2
    <3>1. o \in Ifaces /\ g.ifaceMap[o] \in V /\ g.ifaceMap[o] \notin I
          /\ h.ifaceMap[o] = IF g.ifaceMap[o] \in Heads(M, t) THEN v1 ELSE g.ifaceMap[o]
      BY DEF IfacesClear, Ifaces, GraphOK
    <3>2. Reads(M, t, v1, I, on, on2, g.ifaceMap[o])
      BY <1>2, <3>1
    <3>3. QED BY <3>1, <3>2 DEF Reads
  <2>2. QED BY <2>1
<1>3. Matched(g, h)
  <2>1. ASSUME NEW driven \in SUBSET InIfaces, NEW on \in Stable(g, driven)
        PROVE  \E on2 \in Stable(h, driven) :
                  \A o \in OutIfaces : g.ifaceMap[o] \in on <=> h.ifaceMap[o] \in on2
    <3>1. StableIn(V, S, Input(g, driven), on)
      BY StableMeaning
    <3>2. PICK on2 : /\ StableIn(V, S2, Redirected(M, t, v1, Input(g, driven)), on2)
                     /\ \A o \in OutIfaces : g.ifaceMap[o] \in on <=> h.ifaceMap[o] \in on2
      <4>1. CASE /\ NoOtherSource(M, t, SourcesOf(g))
                 /\ \A i \in InIfaces : g.ifaceMap[i] \notin Heads(M, t)
        <5>1. PICK on2 : /\ StableIn(V, S2, Redirected(M, t, v1, Input(g, driven)), on2)
                         /\ \A j \in V : Reads(M, t, v1, I, on, on2, j)
          BY <1>1, <3>1, <4>1, ShortcutForthA
        <5>2. QED BY <1>2, <5>1
      <4>2. CASE /\ NoOtherTarget(g.vertices, v1, M, t, I, SourcesOf(g))
                 /\ \A o \in OutIfaces : g.ifaceMap[o] # v1
        <5>1. PICK on2 : /\ StableIn(V, S2, Redirected(M, t, v1, Input(g, driven)), on2)
                         /\ \A j \in V \ {v1} : Reads(M, t, v1, I, on, on2, j)
          BY <1>1, <3>1, <4>2, ShortcutForthB
        <5>2. QED BY <1>2, <4>2, <5>1
      <4>3. QED BY <4>1, <4>2 DEF SoundShortcut
    <3>3. on2 \in Stable(h, driven)
      BY <1>1, <3>2, StableMeaning
    <3>4. QED BY <3>2, <3>3
  <2>2. QED BY <2>1 DEF Matched
<1>4. Matched(h, g)
  <2>1. ASSUME NEW driven \in SUBSET InIfaces, NEW on2 \in Stable(h, driven)
        PROVE  \E on \in Stable(g, driven) :
                  \A o \in OutIfaces : h.ifaceMap[o] \in on2 <=> g.ifaceMap[o] \in on
    <3>1. StableIn(V, S2, Redirected(M, t, v1, Input(g, driven)), on2)
      BY <1>1, StableMeaning
    <3>2. PICK on : /\ StableIn(V, S, Input(g, driven), on)
                    /\ \A o \in OutIfaces : g.ifaceMap[o] \in on <=> h.ifaceMap[o] \in on2
      <4>1. CASE /\ NoOtherSource(M, t, SourcesOf(g))
                 /\ \A i \in InIfaces : g.ifaceMap[i] \notin Heads(M, t)
        <5>1. PICK on : /\ StableIn(V, S, Input(g, driven), on)
                        /\ \A j \in V : Reads(M, t, v1, I, on, on2, j)
          BY <1>1, <3>1, <4>1, ShortcutBackA
        <5>2. QED BY <1>2, <5>1
      <4>2. CASE /\ NoOtherTarget(g.vertices, v1, M, t, I, SourcesOf(g))
                 /\ \A o \in OutIfaces : g.ifaceMap[o] # v1
        <5>1. PICK on : /\ StableIn(V, S, Input(g, driven), on)
                        /\ \A j \in V \ {v1} : Reads(M, t, v1, I, on, on2, j)
          BY <1>1, <3>1, <4>2, ShortcutBackB
        <5>2. QED BY <1>2, <4>2, <5>1
      <4>3. QED BY <4>1, <4>2 DEF SoundShortcut
    <3>3. on \in Stable(g, driven)
      BY <3>2, StableMeaning
    <3>4. QED BY <3>2, <3>3
  <2>2. QED BY <2>1 DEF Matched
<1>5. QED BY <1>3, <1>4, SameBehaviour

-----------------------------------------------------------------------------
(* One round of the loop over v1                                            *)

\* What is left when edges are taken out of a graph.
LEMMA WithoutEdgesFacts ==
    ASSUME NEW g, GraphOK(g), NEW removed, NEW h, h = WithoutEdges(g, removed)
    PROVE  /\ GraphOK(h) /\ h.vertices = g.vertices /\ h.ifaceMap = g.ifaceMap
           /\ \A u, w \in VertexRefs :
                 h.edges[<<u, w>>] > 0 <=> g.edges[<<u, w>>] > 0 /\ <<u, w>> \notin removed
<1> DEFINE E == [e \in VertexRefs \X VertexRefs |-> IF e \in removed THEN 0 ELSE g.edges[e]]
<1>1. g \in Graphs /\ g.edges \in [VertexRefs \X VertexRefs -> Nat]
      /\ g.vertices \in SUBSET VertexRefs /\ g.ifaceMap \in [Ifaces -> VertexRefs]
  BY VerticesFinite DEF GraphOK
<1>2. DOMAIN g.edges = VertexRefs \X VertexRefs
  BY <1>1
<1>3. h = [g EXCEPT !.edges = E]
  BY <1>2 DEF WithoutEdges
<1>4. E \in [VertexRefs \X VertexRefs -> Nat]
  BY <1>1
<1>5. h = [vertices |-> g.vertices, edges |-> E, ifaceMap |-> g.ifaceMap]
  <2> HIDE DEF E
  <2> QED BY <1>1, <1>3 DEF Graphs
<1>6. \A e \in VertexRefs \X VertexRefs : E[e] > 0 <=> g.edges[e] > 0 /\ e \notin removed
  OBVIOUS
<1> HIDE DEF E
<1>7. h \in Graphs
  BY ONLY <1>1, <1>4, <1>5 DEF Graphs
<1>8. h.vertices = g.vertices /\ h.ifaceMap = g.ifaceMap /\ h.edges = E
  BY ONLY <1>5
<1>9. GraphOK(h)
  BY <1>6, <1>7, <1>8 DEF GraphOK
<1>10. QED BY <1>6, <1>8, <1>9

\* What the code's counts say of v2, when v1 and v2 are not fed back to.
LEMMA EligibleFacts ==
    ASSUME NEW g, GraphOK(g), NEW v1 \in g.vertices, ~LoopsBack(g, v1), NEW m \in EligibleV2(g, v1)
    PROVE  /\ m \in g.vertices /\ m # v1 /\ Sources(g, m) = {v1} /\ IfacesAt(g, m, InIfaces) = {}
           /\ Targets(g, m) # {} /\ v1 \notin Targets(g, m)
           /\ \A w \in Targets(g, m) : w \notin EligibleV2(g, v1)
<1>1. g \in Graphs /\ IsFiniteSet(g.vertices) /\ g.vertices \subseteq VertexRefs
  BY VerticesFinite DEF GraphOK
<1>2. m \in Targets(g, v1) /\ m \in g.vertices /\ CountOut(g, m) >= 1 /\ ICountIn(g, m) <= 1
  BY DEF EligibleV2, Targets
<1>3. v1 \notin Targets(g, v1) /\ v1 \notin Targets(g, m) /\ m \notin Targets(g, m)
  BY DEF LoopsBack
<1>4. \A n \in g.vertices : n \in Targets(g, v1) /\ ICountIn(g, n) <= 1 =>
         Sources(g, n) = {v1} /\ IfacesAt(g, n, InIfaces) = {}
  <2>1. ASSUME NEW n \in g.vertices, n \in Targets(g, v1), ICountIn(g, n) <= 1
        PROVE  Sources(g, n) = {v1} /\ IfacesAt(g, n, InIfaces) = {}
    <3>1. v1 \in Sources(g, n)
      BY <2>1 DEF Sources, Targets
    <3>2. QED BY <2>1, <3>1, OnlySource
  <2>2. QED BY <2>1
<1>5. Targets(g, m) # {}
  <2>1. CountOut(g, m) \in Nat /\ (CountOut(g, m) > 0 => \E w \in g.vertices : g.edges[<<m, w>>] > 0)
    BY <1>1, <1>2, OutFacts
  <2>2. CountOut(g, m) > 0
    BY <1>2, <2>1
  <2>3. QED BY <2>1, <2>2 DEF Targets
<1>6. ASSUME NEW w \in Targets(g, m), w \in EligibleV2(g, v1) PROVE FALSE
  <2>1. w \in g.vertices /\ w \in Targets(g, v1) /\ ICountIn(g, w) <= 1 /\ m \in Sources(g, w)
    BY <1>2, <1>6 DEF EligibleV2, Targets, Sources
  <2>2. Sources(g, w) = {v1}
    BY <1>4, <2>1
  <2>3. QED BY <1>2, <1>3, <2>1, <2>2
<1>7. QED BY <1>2, <1>3, <1>4, <1>5, <1>6

\* What is chosen to be eaten.
LEMMA ChoiceFacts ==
    ASSUME NEW g, GraphOK(g), NEW v1 \in g.vertices, ~LoopsBack(g, v1), NEW v3s \in ChoicesOfV3(g, v1)
    PROVE  /\ DOMAIN v3s \subseteq EligibleV2(g, v1) /\ v3s \in [DOMAIN v3s -> g.vertices]
           /\ ClearedV2(g, v1) \subseteq DOMAIN v3s
           /\ Range(v3s) = Heads(DOMAIN v3s, v3s) /\ Range(v3s) \in SUBSET (g.vertices \ {v1})
           /\ \A m \in DOMAIN v3s : /\ v3s[m] \in Targets(g, m) /\ v3s[m] # v1
                                    /\ v3s[m] \notin DOMAIN v3s /\ MayEat(g, v1, m, v3s[m])
<1> DEFINE V2s == {v2 \in EligibleV2(g, v1) : EligibleV3(g, v1, v2) # {}}
<1>1. v3s \in [V2s -> g.vertices] /\ \A m \in V2s : v3s[m] \in EligibleV3(g, v1, m)
  BY DEF ChoicesOfV3
<1>2. DOMAIN v3s = V2s
  BY <1>1
<1>3. \A m \in V2s : m \in EligibleV2(g, v1)
  OBVIOUS
<1>4. ASSUME NEW m \in ClearedV2(g, v1) PROVE m \in V2s
  <2>1. m \in EligibleV2(g, v1) /\ Targets(g, m) = EligibleV3(g, v1, m)
    BY DEF ClearedV2
  <2>2. Targets(g, m) # {}
    BY <2>1, EligibleFacts
  <2>3. QED BY <2>1, <2>2
<1> HIDE DEF V2s
<1>5. ASSUME NEW m \in V2s
      PROVE  /\ v3s[m] \in Targets(g, m) /\ v3s[m] # v1
             /\ v3s[m] \notin V2s /\ MayEat(g, v1, m, v3s[m])
  <2>1. v3s[m] \in Targets(g, m) /\ MayEat(g, v1, m, v3s[m])
    BY <1>1 DEF EligibleV3
  <2>2. m \in EligibleV2(g, v1)
    BY <1>3
  <2>3. v1 \notin Targets(g, m) /\ \A w \in Targets(g, m) : w \notin EligibleV2(g, v1)
    BY <2>2, EligibleFacts
  <2>4. QED BY <1>3, <2>1, <2>3
<1>6. Range(v3s) = Heads(V2s, v3s)
  BY <1>2 DEF Range, Heads
<1>7. Heads(V2s, v3s) \in SUBSET (g.vertices \ {v1})
  BY <1>1, <1>5 DEF Heads
<1>8. QED BY <1>1, <1>2, <1>3, <1>4, <1>5, <1>6, <1>7

\* The v2 that are taken away entirely.
Removed(g, v1) == {m \in ClearedV2(g, v1) : IfacesAt(g, m, OutIfaces) = {}}

\* What the code's counts say of v3, when no inverter is lost.
LEMMA KindOf ==
    ASSUME NEW g, GraphOK(g), NEW v1 \in g.vertices, ~LoopsBack(g, v1), NEW v3s \in ChoicesOfV3(g, v1),
           LostEdges(g, v1, v3s) = {}
    PROVE  /\ SoundShortcut(g, v1, DOMAIN v3s, v3s, Removed(g, v1))
           /\ \A x, y \in Range(v3s) : ~(g.edges[<<x, y>>] > 0)
           /\ \A m \in ClearedV2(g, v1) : Targets(g, m) = {v3s[m]}
           /\ \A m \in DOMAIN v3s : \A u \in DOMAIN v3s : u \in Sources(g, v3s[m]) => u = m
<1> DEFINE M == DOMAIN v3s
           X == Range(v3s)
           V == g.vertices
<1>1. /\ M \subseteq EligibleV2(g, v1) /\ v3s \in [M -> g.vertices]
      /\ ClearedV2(g, v1) \subseteq M
      /\ X = Heads(M, v3s) /\ X \in SUBSET (g.vertices \ {v1})
      /\ \A m \in M : /\ v3s[m] \in Targets(g, m) /\ v3s[m] # v1
                      /\ v3s[m] \notin M /\ MayEat(g, v1, m, v3s[m])
  BY ChoiceFacts
<1>2. V \subseteq VertexRefs /\ g.edges \in [VertexRefs \X VertexRefs -> Nat]
  BY VerticesFinite DEF GraphOK
<1>3. /\ \A m \in ClearedV2(g, v1), w \in V : g.edges[<<m, w>>] > 0 => v3s[m] = w
      /\ \A x \in X : ~(g.edges[<<x, x>>] > 0)
  <2>1. ASSUME NEW m \in ClearedV2(g, v1), NEW w \in V, g.edges[<<m, w>>] > 0, v3s[m] # w PROVE FALSE
    <3>1. <<m, w>> \in LostEdges(g, v1, v3s)
      BY <2>1 DEF LostEdges
    <3>2. QED BY <3>1
  <2>2. ASSUME NEW x \in X, g.edges[<<x, x>>] > 0 PROVE FALSE
    <3>1. <<x, x>> \in LostEdges(g, v1, v3s)
      BY <2>2 DEF LostEdges
    <3>2. QED BY <3>1
  <2>3. QED BY <2>1, <2>2
<1>4. \A m \in ClearedV2(g, v1) : Targets(g, m) = {v3s[m]}
  BY <1>1, <1>3 DEF Targets
<1>5. ASSUME NEW m \in M
      PROVE  m \in V /\ m # v1 /\ m \in Sources(g, v3s[m]) /\ v3s[m] \in V /\ Sources(g, m) = {v1}
             /\ m \in Targets(g, v1)
  <2>1. m \in EligibleV2(g, v1)
    BY <1>1
  <2>2. m \in V /\ m # v1 /\ Sources(g, m) = {v1}
    BY <2>1, EligibleFacts
  <2>3. QED BY <1>1, <2>1, <2>2 DEF Sources, Targets, EligibleV2
<1>6. ASSUME NEW m \in M, ICountIn(g, v3s[m]) = 1
      PROVE  Sources(g, v3s[m]) = {m} /\ IfacesAt(g, v3s[m], InIfaces) = {}
  <2>1. ICountIn(g, v3s[m]) <= 1
    BY <1>6
  <2>2. QED BY <1>5, <2>1, OnlySource
<1>7. ASSUME NEW m \in M, ICountOut(g, v1) <= 1 /\ ICountOut(g, m) = 1
      PROVE  /\ M = {m} /\ Targets(g, v1) = {m} /\ Targets(g, m) = {v3s[m]} /\ X = {v3s[m]}
             /\ IfacesAt(g, v1, OutIfaces) = {} /\ Removed(g, v1) = {m}
  <2>1. Targets(g, v1) = {m} /\ IfacesAt(g, v1, OutIfaces) = {}
    BY <1>5, <1>7, OnlyTarget
  <2>2. Targets(g, m) = {v3s[m]} /\ IfacesAt(g, m, OutIfaces) = {}
    <3>1. ICountOut(g, m) <= 1
      BY <1>7
    <3>2. QED BY <1>1, <1>5, <3>1, OnlyTarget
  <2>3. M = {m}
    BY <1>5, <2>1
  <2>4. X = {v3s[m]}
    BY <1>1, <2>3 DEF Heads
  <2>5. m \in ClearedV2(g, v1)
    <3>1. v3s[m] \in EligibleV3(g, v1, m)
      BY <1>1, <1>7 DEF EligibleV3
    <3>2. Targets(g, m) = EligibleV3(g, v1, m)
      BY <2>2, <3>1 DEF EligibleV3
    <3>3. QED BY <1>1, <3>2 DEF ClearedV2
  <2>6. Removed(g, v1) = {m}
    BY <1>1, <2>2, <2>3, <2>5 DEF Removed
  <2>7. QED BY <2>1, <2>2, <2>3, <2>4, <2>6
<1>8. \A m \in M : ICountIn(g, v3s[m]) = 1 \/ (ICountOut(g, v1) <= 1 /\ ICountOut(g, m) = 1)
  BY <1>1 DEF MayEat
<1> HIDE DEF M, X, V
<1>9. ASSUME NEW x \in X, NEW y \in X, g.edges[<<x, y>>] > 0 PROVE FALSE
  <2>1. PICK m \in M, n \in M : y = v3s[m] /\ x = v3s[n] /\ x \in V
    BY <1>1, <1>5 DEF Heads
  <2>2. x \in Sources(g, y) /\ x \notin M /\ x # y
    BY <1>1, <1>3, <1>9, <2>1 DEF Sources, V
  <2>3. QED BY <1>6, <1>7, <1>8, <2>1, <2>2
<1>10. ASSUME NEW m \in M, NEW u \in M, u \in Sources(g, v3s[m]) PROVE u = m
  BY <1>6, <1>7, <1>8, <1>10
<1>11. SoundShortcut(g, v1, M, v3s, Removed(g, v1))
  <2>0. \A v \in V : SourcesOf(g)[v] = Sources(g, v)
    BY DEF SourcesOf, V
  <2>1. CASE \A m \in M : ICountIn(g, v3s[m]) = 1
    <3>1. NoOtherSource(M, v3s, SourcesOf(g))
      BY <1>5, <1>6, <2>0, <2>1 DEF NoOtherSource
    <3>2. \A i \in InIfaces : g.ifaceMap[i] \notin Heads(M, v3s)
      BY <1>6, <2>1 DEF Heads, IfacesAt
    <3>3. QED BY <3>1, <3>2 DEF SoundShortcut
  <2>2. ASSUME NEW m \in M, ICountOut(g, v1) <= 1 /\ ICountOut(g, m) = 1
        PROVE  SoundShortcut(g, v1, M, v3s, Removed(g, v1))
    <3>1. /\ M = {m} /\ Targets(g, v1) = {m} /\ Targets(g, m) = {v3s[m]} /\ X = {v3s[m]}
          /\ IfacesAt(g, v1, OutIfaces) = {} /\ Removed(g, v1) = {m}
      BY <1>7, <2>2
    <3>2. v3s[m] \notin Sources(g, v3s[m])
      BY <1>3, <3>1 DEF Sources
    <3>3. \A w \in V : (v1 \in Sources(g, w) => w = m) /\ (m \in Sources(g, w) => w = v3s[m])
      <4>1. \A w \in V : /\ v1 \in Sources(g, w) => w \in Targets(g, v1)
                         /\ m \in Sources(g, w) => w \in Targets(g, m)
        BY DEF Sources, Targets, V
      <4>2. QED BY <3>1, <4>1
    <3>4. NoOtherTarget(V, v1, M, v3s, Removed(g, v1), SourcesOf(g))
      BY <1>5, <2>0, <3>1, <3>2, <3>3 DEF NoOtherTarget
    <3>5. \A o \in OutIfaces : g.ifaceMap[o] # v1
      BY <3>1 DEF IfacesAt
    <3>6. QED BY <3>4, <3>5 DEF SoundShortcut, V
  <2>3. QED BY <1>8, <2>1, <2>2
<1>12. QED BY <1>4, <1>9, <1>10, <1>11 DEF M, X

\* A round gives a graph again; if no inverter is lost, it is a sound shortcut.
LEMMA VisitFacts ==
    ASSUME NEW g, GraphOK(g), NEW v1 \in g.vertices, ~LoopsBack(g, v1), NEW v3s \in ChoicesOfV3(g, v1),
           NEW h, h = Cleared(Eaten(g, v1, v3s), ClearedV2(g, v1))
    PROVE  /\ GraphOK(h) /\ h.vertices = g.vertices
           /\ LostEdges(g, v1, v3s) = {} =>
                /\ Shortcut(g.vertices, v1, DOMAIN v3s, v3s, Removed(g, v1), SourcesOf(g), SourcesOf(h))
                /\ IfacesClear(g, v1, DOMAIN v3s, v3s, Removed(g, v1), h)
                /\ SoundShortcut(g, v1, DOMAIN v3s, v3s, Removed(g, v1))
<1> DEFINE M == DOMAIN v3s
           X == Range(v3s)
           V == g.vertices
           C == ClearedV2(g, v1)
           I == Removed(g, v1)
           On == {<<v2, v3s[v2]>> : v2 \in M}
<1>1. /\ M \subseteq EligibleV2(g, v1) /\ v3s \in [M -> g.vertices]
      /\ C \subseteq M
      /\ X = Heads(M, v3s) /\ X \in SUBSET (g.vertices \ {v1})
      /\ \A m \in M : /\ v3s[m] \in Targets(g, m) /\ v3s[m] # v1
                      /\ v3s[m] \notin M /\ MayEat(g, v1, m, v3s[m])
  BY ChoiceFacts
<1>2. V \subseteq VertexRefs /\ g.edges \in [VertexRefs \X VertexRefs -> Nat] /\ v1 \in VertexRefs
  BY VerticesFinite DEF GraphOK
<1>3. PICK g1 : g1 = WithoutEdges(g, On)
  OBVIOUS
<1>4. /\ GraphOK(g1) /\ g1.vertices = V /\ g1.ifaceMap = g.ifaceMap
      /\ \A u, w \in VertexRefs : g1.edges[<<u, w>>] > 0 <=> g.edges[<<u, w>>] > 0 /\ <<u, w>> \notin On
  <2> HIDE DEF On
  <2> QED BY <1>3, WithoutEdgesFacts
<1>5. PICK k : k = AllEaten(g1, v1, X)
  OBVIOUS
<1>6. k = Eaten(g, v1, v3s)
  BY <1>3, <1>5 DEF Eaten, AllEaten
<1>7. /\ GraphOK(k) /\ k.vertices = V
      /\ \A i \in Ifaces : k.ifaceMap[i] = IF g.ifaceMap[i] \in X THEN v1 ELSE g.ifaceMap[i]
      /\ (\A x, y \in X : ~(g1.edges[<<x, y>>] > 0)) =>
              \A u, w \in VertexRefs :
                 k.edges[<<u, w>>] > 0 <=>
                    /\ u \notin X /\ w \notin X
                    /\ \/ g1.edges[<<u, w>>] > 0
                       \/ u = v1 /\ \E x \in X : g1.edges[<<x, w>>] > 0
                       \/ w = v1 /\ \E x \in X : g1.edges[<<u, x>>] > 0
  <2>1. v1 \in g1.vertices /\ X \in SUBSET (g1.vertices \ {v1})
    BY <1>1, <1>4
  <2> HIDE DEF X
  <2>2. EatenInto(g1, v1, X, k)
    <3>1. GraphOK(g1)
      BY <1>4
    <3>2. QED BY ONLY <1>5, <2>1, <3>1, GivenAssumption, IfacesAssumption, EatAll
  <2>3. QED BY <1>4, <2>2 DEF EatenInto
<1> DEFINE Unread == {v2 \in C : IfacesAt(k, v2, OutIfaces) = {}}
<1>8. \A m \in M : m \in V /\ m # v1 /\ m \notin X /\ Sources(g, m) = {v1} /\ IfacesAt(g, m, InIfaces) = {}
  <2>1. ASSUME NEW m \in M PROVE m \in V /\ m # v1 /\ Sources(g, m) = {v1} /\ IfacesAt(g, m, InIfaces) = {}
    <3>1. m \in EligibleV2(g, v1)
      BY <1>1
    <3>2. QED BY <3>1, EligibleFacts
  <2>2. \A m \in M : m \notin X
    BY <1>1 DEF Heads
  <2>3. QED BY <2>1, <2>2
<1>9. Unread = I
  <2>1. ASSUME NEW m \in C PROVE IfacesAt(k, m, OutIfaces) = IfacesAt(g, m, OutIfaces)
    <3>1. m # v1 /\ m \notin X
      BY <1>1, <1>8
    <3>2. \A o \in OutIfaces : k.ifaceMap[o] = m <=> g.ifaceMap[o] = m
      BY <1>7, <3>1 DEF Ifaces
    <3>3. QED BY <3>2 DEF IfacesAt
  <2>2. QED BY <2>1 DEF Removed
<1>10. h = WithoutEdges(k, (C \X V) \cup (V \X I))
  BY <1>6, <1>7, <1>9 DEF Cleared
<1>11. /\ GraphOK(h) /\ h.vertices = V /\ h.ifaceMap = k.ifaceMap
       /\ \A u, w \in VertexRefs :
             h.edges[<<u, w>>] > 0 <=> k.edges[<<u, w>>] > 0 /\ <<u, w>> \notin (C \X V) \cup (V \X I)
  <2>1. PICK R : R = (C \X V) \cup (V \X I)
    OBVIOUS
  <2> HIDE DEF C, V, I
  <2>2. h = WithoutEdges(k, R) /\ k.vertices = V
    BY <1>7, <1>10, <2>1
  <2>3. /\ GraphOK(h) /\ h.vertices = k.vertices /\ h.ifaceMap = k.ifaceMap
        /\ \A u, w \in VertexRefs : h.edges[<<u, w>>] > 0 <=> k.edges[<<u, w>>] > 0 /\ <<u, w>> \notin R
    BY <1>7, <2>2, WithoutEdgesFacts
  <2>4. QED BY <2>1, <2>2, <2>3
<1>12. ASSUME LostEdges(g, v1, v3s) = {}
       PROVE  /\ Shortcut(V, v1, M, v3s, I, SourcesOf(g), SourcesOf(h))
              /\ IfacesClear(g, v1, M, v3s, I, h)
              /\ SoundShortcut(g, v1, M, v3s, I)
  <2>1. /\ SoundShortcut(g, v1, M, v3s, I)
        /\ \A x, y \in X : ~(g.edges[<<x, y>>] > 0)
        /\ \A m \in C : Targets(g, m) = {v3s[m]}
        /\ \A m \in M : \A u \in M : u \in Sources(g, v3s[m]) => u = m
    BY <1>12, KindOf
  <2> HIDE DEF M, X, V, C, I
  <2>2. \A u, w \in VertexRefs : <<u, w>> \in On <=> u \in M /\ w = v3s[u]
    OBVIOUS
  <2>3. I \subseteq C /\ \A m \in I : IfacesAt(g, m, OutIfaces) = {}
    BY DEF I, Removed, C
  <2>4. X \subseteq V /\ v1 \notin X /\ v1 \in V /\ v1 \notin M
    BY <1>1, <1>8 DEF V
  <2>5. \A x, y \in X : ~(g1.edges[<<x, y>>] > 0)
    BY <1>2, <1>4, <2>1, <2>4
  <2>6. \A u, w \in V :
          k.edges[<<u, w>>] > 0 <=>
             /\ u \notin X /\ w \notin X
             /\ \/ g1.edges[<<u, w>>] > 0
                \/ u = v1 /\ \E x \in X : g1.edges[<<x, w>>] > 0
                \/ w = v1 /\ \E x \in X : g1.edges[<<u, x>>] > 0
    BY <1>2, <1>7, <2>5
  <2>7. \A u, w \in V : /\ u \in SourcesOf(g)[w] <=> g.edges[<<u, w>>] > 0
                        /\ u \in SourcesOf(h)[w] <=> h.edges[<<u, w>>] > 0
    BY <1>11 DEF SourcesOf, Sources, V
  <2>8. \A u, w \in V : h.edges[<<u, w>>] > 0 <=> k.edges[<<u, w>>] > 0 /\ u \notin C /\ w \notin I
    <3>1. ASSUME NEW u \in V, NEW w \in V
          PROVE  <<u, w>> \in (C \X V) \cup (V \X I) <=> u \in C \/ w \in I
      OBVIOUS
    <3>2. ASSUME NEW u \in V, NEW w \in V
          PROVE  h.edges[<<u, w>>] > 0 <=> k.edges[<<u, w>>] > 0 /\ u \notin C /\ w \notin I
      <4>1. u \in VertexRefs /\ w \in VertexRefs
        BY <1>2 DEF V
      <4>2. h.edges[<<u, w>>] > 0 <=> k.edges[<<u, w>>] > 0 /\ <<u, w>> \notin (C \X V) \cup (V \X I)
        BY ONLY <1>11, <4>1
      <4>3. QED BY <3>1, <4>2
    <3>3. QED BY <3>2
  <2>9. \A u, w \in V : g1.edges[<<u, w>>] > 0 <=> g.edges[<<u, w>>] > 0 /\ ~(u \in M /\ w = v3s[u])
    BY <1>2, <1>4, <2>2
  <2>10. \A m \in M : v3s[m] \in X /\ m \notin X /\ m \in V /\ g.edges[<<m, v3s[m]>>] > 0
    BY <1>1, <1>8 DEF Heads, Targets
  <2>11. \A x \in X : \E m \in M : x = v3s[m]
    BY <1>1 DEF Heads
  <2>12. \A m \in C, w \in V : g.edges[<<m, w>>] > 0 => w = v3s[m]
    BY <2>1 DEF Targets, V
  <2>13. \A m, u \in M : g.edges[<<u, v3s[m]>>] > 0 => u = m
    BY <1>8, <2>1 DEF Sources, V
  <2>14. ASSUME NEW u \in V, NEW w \in V
         PROVE  h.edges[<<u, w>>] > 0 <=>
                    /\ w \notin X /\ w \notin I /\ u \notin X
                    /\ \/ g.edges[<<u, w>>] > 0
                       \/ u = v1 /\ \E m \in M : g.edges[<<v3s[m], w>>] > 0
                       \/ w = v1 /\ u \notin M /\ \E m \in M : g.edges[<<u, v3s[m]>>] > 0
    <3>1. CASE w \in X \/ w \in I \/ u \in X
      BY <2>6, <2>8, <3>1
    <3>2. CASE w \notin X /\ w \notin I /\ u \notin X
      <4>1. \A a \in V : g1.edges[<<a, w>>] > 0 <=> g.edges[<<a, w>>] > 0
        BY <2>9, <2>10, <3>2
      <4>2. (\E x \in X : g1.edges[<<x, w>>] > 0) <=> (\E m \in M : g.edges[<<v3s[m], w>>] > 0)
        BY <2>4, <2>10, <2>11, <4>1
      <4>3. (\E x \in X : g1.edges[<<u, x>>] > 0)
              <=> u \notin M /\ \E m \in M : g.edges[<<u, v3s[m]>>] > 0
        <5>1. ASSUME NEW x \in X, g1.edges[<<u, x>>] > 0
              PROVE  u \notin M /\ \E m \in M : g.edges[<<u, v3s[m]>>] > 0
          <6>1. g.edges[<<u, x>>] > 0 /\ ~(u \in M /\ x = v3s[u])
            BY <2>4, <2>9, <5>1
          <6>2. QED BY <2>11, <2>13, <6>1
        <5>2. ASSUME u \notin M, NEW m \in M, g.edges[<<u, v3s[m]>>] > 0
              PROVE  \E x \in X : g1.edges[<<u, x>>] > 0
          BY <2>4, <2>9, <2>10, <5>2
        <5>3. QED BY <5>1, <5>2
      <4>4. k.edges[<<u, w>>] > 0 <=>
               \/ g.edges[<<u, w>>] > 0
               \/ u = v1 /\ \E m \in M : g.edges[<<v3s[m], w>>] > 0
               \/ w = v1 /\ u \notin M /\ \E m \in M : g.edges[<<u, v3s[m]>>] > 0
        BY <2>6, <3>2, <4>1, <4>2, <4>3
      <4>5. u \in C => ~(k.edges[<<u, w>>] > 0)
        <5>1. ASSUME u \in C, g.edges[<<u, w>>] > 0 PROVE FALSE
          BY <1>1, <2>10, <2>12, <3>2, <5>1
        <5>2. u \in C => u \in M /\ u # v1
          BY <1>1, <2>4
        <5>3. QED BY <4>4, <5>1, <5>2
      <4>6. QED BY <2>8, <3>2, <4>4, <4>5
    <3>3. QED BY <3>1, <3>2
  <2>15. \A u, w \in V :
          u \in SourcesOf(h)[w] <=>
             /\ w \notin Heads(M, v3s) /\ w \notin I /\ u \notin Heads(M, v3s)
             /\ \/ u \in SourcesOf(g)[w]
                \/ u = v1 /\ \E m \in M : v3s[m] \in SourcesOf(g)[w]
                \/ w = v1 /\ u \notin M /\ \E m \in M : u \in SourcesOf(g)[v3s[m]]
    <3>1. ASSUME NEW u \in V, NEW w \in V
          PROVE  u \in SourcesOf(h)[w] <=>
                    /\ w \notin X /\ w \notin I /\ u \notin X
                    /\ \/ u \in SourcesOf(g)[w]
                       \/ u = v1 /\ \E m \in M : v3s[m] \in SourcesOf(g)[w]
                       \/ w = v1 /\ u \notin M /\ \E m \in M : u \in SourcesOf(g)[v3s[m]]
      <4>1. \A m \in M : /\ v3s[m] \in SourcesOf(g)[w] <=> g.edges[<<v3s[m], w>>] > 0
                         /\ u \in SourcesOf(g)[v3s[m]] <=> g.edges[<<u, v3s[m]>>] > 0
        BY <2>4, <2>7, <2>10
      <4>2. /\ u \in SourcesOf(g)[w] <=> g.edges[<<u, w>>] > 0
            /\ u \in SourcesOf(h)[w] <=> h.edges[<<u, w>>] > 0
        BY <2>7
      <4>3. /\ (\E m \in M : v3s[m] \in SourcesOf(g)[w]) <=> (\E m \in M : g.edges[<<v3s[m], w>>] > 0)
            /\ (\E m \in M : u \in SourcesOf(g)[v3s[m]]) <=> (\E m \in M : g.edges[<<u, v3s[m]>>] > 0)
        BY ONLY <4>1
      <4>4. h.edges[<<u, w>>] > 0 <=>
                    /\ w \notin X /\ w \notin I /\ u \notin X
                    /\ \/ g.edges[<<u, w>>] > 0
                       \/ u = v1 /\ \E m \in M : g.edges[<<v3s[m], w>>] > 0
                       \/ w = v1 /\ u \notin M /\ \E m \in M : g.edges[<<u, v3s[m]>>] > 0
        BY <2>14
      <4>5. QED BY ONLY <4>2, <4>3, <4>4
    <3>2. QED BY <1>1, <3>1
  <2>16. /\ v1 \in V /\ M \in SUBSET V /\ v3s \in [M -> V] /\ I \in SUBSET M
         /\ SourcesOf(g) \in [V -> SUBSET V] /\ SourcesOf(h) \in [V -> SUBSET V]
         /\ v1 \notin M /\ v1 \notin SourcesOf(g)[v1]
    <3>1. v1 \notin Targets(g, v1)
      BY DEF LoopsBack
    <3>2. v1 \notin SourcesOf(g)[v1]
      BY <2>4, <2>7, <3>1 DEF Targets, V
    <3>3. SourcesOf(g) \in [V -> SUBSET V] /\ SourcesOf(h) \in [V -> SUBSET V]
      BY <1>11 DEF SourcesOf, Sources, V
    <3>4. M \in SUBSET V /\ I \in SUBSET M /\ v3s \in [M -> V]
      BY <1>1, <1>8, <2>3 DEF V
    <3>5. QED BY <2>4, <3>2, <3>3, <3>4
  <2>17. \A m \in M : /\ SourcesOf(g)[m] = {v1} /\ m \in SourcesOf(g)[v3s[m]]
                      /\ v3s[m] \notin M /\ v3s[m] # v1
    <3>1. \A m \in M : SourcesOf(g)[m] = {v1}
      BY <1>8 DEF SourcesOf, V
    <3>2. QED BY <1>1, <2>4, <2>7, <2>10, <3>1
  <2>18. \A m \in I : \A w \in V : m \in SourcesOf(g)[w] => w = v3s[m]
    BY <1>1, <1>8, <2>3, <2>7, <2>12
  <2>19. Shortcut(V, v1, M, v3s, I, SourcesOf(g), SourcesOf(h))
    BY <2>15, <2>16, <2>17, <2>18 DEF Shortcut
  <2>20. IfacesClear(g, v1, M, v3s, I, h)
    <3>1. \A i \in InIfaces : g.ifaceMap[i] \notin M
      BY <1>8 DEF IfacesAt
    <3>2. \A o \in OutIfaces : g.ifaceMap[o] \notin I
      BY <2>3 DEF IfacesAt
    <3>3. QED BY <1>1, <1>7, <1>11, <3>1, <3>2 DEF IfacesClear
  <2>21. QED BY <2>1, <2>19, <2>20
<1>13. QED BY <1>11, <1>12

-----------------------------------------------------------------------------
(* Cycles                                                                   *)

\* Vertices each of which has a source among them.
Fed(S, C) == \A v \in C : \E u \in C : u \in S[v]

Cyclic(V, S) == \E C \in SUBSET V : C # {} /\ Fed(S, C)

WithSource(g, C) == {v \in C : Sources(g, v) \cap C # {}}

\* r[n] is what is left when vertices nothing leads to are taken away n times.
IsRemaining(g, N, r) ==
    /\ N \in Nat
    /\ HasCycles(g) <=> r[N] # {}
    /\ r[0] = g.vertices
    /\ \A n \in 1 .. N : r[n] = WithSource(g, r[n - 1])

\* The recursive function behind hasCycles exists, and is what its equation says.
LEMMA RemainingDefined ==
    ASSUME NEW g, GraphOK(g), NEW N, N = Cardinality(g.vertices)
    PROVE  \E r : IsRemaining(g, N, r)
<1> DEFINE D == SUBSET g.vertices
           Step == [c \in D |-> WithSource(g, c)]
<1>1. Step \in [D -> D] /\ g.vertices \in D /\ N \in Nat
  <2>1. IsFiniteSet(g.vertices)
    BY VerticesFinite DEF GraphOK
  <2>2. N \in Nat
    BY <2>1, FS_CardinalityType
  <2>3. QED BY <2>2 DEF WithSource
<1>2. PICK f : Iterates(f, D, g.vertices, Step, N)
  <2> HIDE DEF D, Step
  <2> QED BY <1>1, Iteration
<1>3. /\ f \in [0 .. N -> D] /\ f[0] = g.vertices
      /\ \A n \in 1 .. N : f[n] = Step[f[n - 1]]
  BY <1>2 DEF Iterates
<1>4. ASSUME NEW n \in 0 .. N
      PROVE  f[n] = IF n = 0 THEN g.vertices ELSE WithSource(g, f[n - 1])
  <2>1. CASE n = 0
    BY <1>3, <2>1
  <2>2. CASE n # 0
    <3>1. n \in 1 .. N /\ n - 1 \in 0 .. N
      BY <1>1, <2>2
    <3>2. f[n] = Step[f[n - 1]] /\ f[n - 1] \in D
      BY <1>3, <3>1
    <3>3. QED BY <2>2, <3>2
  <2>3. QED BY <2>1, <2>2
<1>5. f = [n \in 0 .. N |-> IF n = 0 THEN g.vertices ELSE WithSource(g, f[n - 1])]
  <2>1. f = [n \in 0 .. N |-> f[n]]
    <3> HIDE DEF D, Step
    <3> QED BY <1>3
  <2>2. QED BY ONLY <1>4, <2>1
<1> DEFINE Code(h) == [n \in 0 .. N |-> IF n = 0 THEN g.vertices ELSE WithSource(g, h[n - 1])]
<1>6. HasCycles(g) <=> (CHOOSE h : h = Code(h))[N] # {}
  BY Zenon DEF HasCycles, WithSource
<1>7. PICK r : r = CHOOSE h : h = Code(h)
  OBVIOUS
<1>8. r = Code(r)
  <2> HIDE DEF Code
  <2>1. f = Code(f)
    BY <1>5 DEF Code
  <2>2. QED BY <1>7, <2>1
<1>9. ASSUME NEW n \in 0 .. N
      PROVE  r[n] = IF n = 0 THEN g.vertices ELSE WithSource(g, r[n - 1])
  BY <1>8
<1>10. \A n \in 1 .. N : n \in 0 .. N /\ n # 0
  BY <1>1
<1>11. 0 \in 0 .. N
  BY <1>1
<1> HIDE DEF Code
<1>12. IsRemaining(g, N, r)
  BY <1>1, <1>6, <1>7, <1>9, <1>10, <1>11 DEF IsRemaining
<1>13. QED BY <1>12

\* There is something left in the end if and only if there is a cycle.
LEMMA CyclesMeaning ==
    ASSUME NEW g, GraphOK(g)
    PROVE  HasCycles(g) <=> Cyclic(g.vertices, SourcesOf(g))
<1> DEFINE V == g.vertices
<1>1. PICK N : N = Cardinality(V)
  OBVIOUS
<1>0. PICK r : IsRemaining(g, N, r)
  BY <1>1, RemainingDefined
<1>2. /\ N \in Nat
      /\ HasCycles(g) <=> r[N] # {}
      /\ r[0] = V
      /\ \A n \in 1 .. N : r[n] = WithSource(g, r[n - 1])
  BY <1>0 DEF IsRemaining
<1>3. IsFiniteSet(V)
  BY VerticesFinite DEF GraphOK
<1>4. \A C, v : v \in WithSource(g, C) <=> v \in C /\ \E u \in C : u \in Sources(g, v)
  BY DEF WithSource
<1>5. \A v \in V : SourcesOf(g)[v] = Sources(g, v)
  BY DEF SourcesOf
<1> HIDE DEF V
<1>6. ASSUME NEW n \in 0 .. N PROVE r[n] \in SUBSET V
  <2> DEFINE Wrong == {k \in 0 .. N : r[k] \notin SUBSET V}
  <2>1. ASSUME NEW k \in Wrong PROVE \E m \in Wrong : m < k
    <3>1. k \in 0 .. N /\ r[k] \notin SUBSET V /\ k # 0
      BY <1>2, <2>1
    <3>2. k \in 1 .. N /\ k - 1 \in 0 .. N /\ k - 1 < k
      BY <1>2, <3>1
    <3>3. r[k] \subseteq r[k - 1]
      BY <1>2, <1>4, <3>2
    <3>4. k - 1 \in Wrong
      BY <3>1, <3>2, <3>3
    <3>5. QED BY <3>2, <3>4
  <2>2. Wrong \in SUBSET Nat
    BY <1>2
  <2>3. Wrong = {}
    <3> HIDE DEF Wrong
    <3> QED BY <2>1, <2>2, Descent
  <2>4. QED BY <2>3
<1>7. ASSUME NEW C \in SUBSET V, Fed(SourcesOf(g), C), NEW n \in 0 .. N PROVE C \subseteq r[n]
  <2> DEFINE Wrong == {k \in 0 .. N : ~(C \subseteq r[k])}
  <2>1. ASSUME NEW k \in Wrong PROVE \E m \in Wrong : m < k
    <3>1. k \in 0 .. N /\ ~(C \subseteq r[k]) /\ k # 0
      BY <1>2, <2>1
    <3>2. k \in 1 .. N /\ k - 1 \in 0 .. N /\ k - 1 < k
      BY <1>2, <3>1
    <3>3. r[k] = WithSource(g, r[k - 1])
      BY <1>2, <3>2
    <3>4. \A v \in C : \E u \in C : u \in Sources(g, v)
      BY <1>5, <1>7 DEF Fed
    <3>5. ASSUME C \subseteq r[k - 1] PROVE C \subseteq r[k]
      BY <1>4, <3>3, <3>4, <3>5
    <3>6. k - 1 \in Wrong
      BY <3>1, <3>2, <3>5
    <3>7. QED BY <3>2, <3>6
  <2>2. Wrong \in SUBSET Nat
    BY <1>2
  <2>3. Wrong = {}
    <3> HIDE DEF Wrong
    <3> QED BY <2>1, <2>2, Descent
  <2>4. QED BY <2>3
<1>8. ASSUME NEW n \in 0 .. N, ~Cyclic(V, SourcesOf(g))
      PROVE  Cardinality(r[n]) <= N - n
  <2> DEFINE Wrong == {k \in 0 .. N : ~(Cardinality(r[k]) <= N - k)}
  <2>1. ASSUME NEW k \in Wrong PROVE \E m \in Wrong : m < k
    <3>1. k \in 0 .. N /\ ~(Cardinality(r[k]) <= N - k) /\ k # 0
      BY <1>1, <1>2, <2>1
    <3>2. k \in 1 .. N /\ k - 1 \in 0 .. N /\ k - 1 < k
      BY <1>2, <3>1
    <3>3. r[k] = WithSource(g, r[k - 1])
      BY <1>2, <3>2
    <3>4. PICK A, B : A = r[k - 1] /\ B = r[k]
      OBVIOUS
    <3>5. A \in SUBSET V /\ B \subseteq A
      BY <1>4, <1>6, <3>2, <3>3, <3>4
    <3>6. IsFiniteSet(A) /\ IsFiniteSet(B) /\ Cardinality(A) \in Nat /\ Cardinality(B) \in Nat
          /\ Cardinality(B) <= Cardinality(A) /\ (Cardinality(A) = Cardinality(B) => A = B)
      <4>1. IsFiniteSet(A)
        BY <1>3, <3>5, FS_Subset
      <4>2. IsFiniteSet(B) /\ Cardinality(B) <= Cardinality(A) /\ (Cardinality(A) = Cardinality(B) => A = B)
        BY <3>5, <4>1, FS_Subset
      <4>3. QED BY <4>1, <4>2, FS_CardinalityType
    <3>7. A = {} \/ A # B
      <4>1. ASSUME A # {}, A = B PROVE FALSE
        <5>1. \A v \in A : \E u \in A : u \in Sources(g, v)
          BY <1>4, <3>3, <3>4, <4>1
        <5>2. Fed(SourcesOf(g), A)
          BY <1>5, <3>5, <5>1 DEF Fed
        <5>3. QED BY <1>8, <3>5, <4>1, <5>2 DEF Cyclic
      <4>2. QED BY <4>1
    <3>8. CASE A = {}
      <4>1. B = {}
        BY <3>5, <3>8
      <4>2. Cardinality(B) = 0
        BY <4>1, FS_EmptySet
      <4>3. QED BY <1>2, <3>1, <3>4, <4>2
    <3>9. CASE A # B
      <4>1. Cardinality(B) < Cardinality(A)
        BY <3>6, <3>9
      <4>2. ~(Cardinality(A) <= N - (k - 1))
        BY <1>2, <3>1, <3>4, <3>6, <4>1
      <4>3. k - 1 \in Wrong
        BY <3>2, <3>4, <4>2
      <4>4. QED BY <3>2, <4>3
    <3>10. QED BY <3>7, <3>8, <3>9
  <2>2. Wrong \in SUBSET Nat
    BY <1>2
  <2>3. Wrong = {}
    <3> HIDE DEF Wrong
    <3> QED BY <2>1, <2>2, Descent
  <2>4. QED BY <2>3
<1>9. ASSUME HasCycles(g) PROVE Cyclic(V, SourcesOf(g))
  <2> SUFFICES ASSUME ~Cyclic(V, SourcesOf(g)) PROVE FALSE
    OBVIOUS
  <2>1. N \in 0 .. N /\ r[N] # {}
    BY <1>2, <1>9
  <2>2. Cardinality(r[N]) <= N - N /\ r[N] \in SUBSET V
    BY <1>6, <1>8, <2>1
  <2>3. IsFiniteSet(r[N]) /\ Cardinality(r[N]) \in Nat
    BY <1>3, <2>2, FS_Subset, FS_CardinalityType
  <2>4. Cardinality(r[N]) = 0
    BY <1>2, <2>2, <2>3
  <2>5. QED BY <2>1, <2>3, <2>4, FS_EmptySet
<1>10. ASSUME Cyclic(V, SourcesOf(g)) PROVE HasCycles(g)
  <2>1. PICK C \in SUBSET V : C # {} /\ Fed(SourcesOf(g), C)
    BY <1>10 DEF Cyclic
  <2>2. N \in 0 .. N
    BY <1>2
  <2>3. C \subseteq r[N]
    BY <1>7, <2>1, <2>2
  <2>4. QED BY <1>2, <2>1, <2>3
<1>11. QED BY <1>9, <1>10 DEF V

\* A shortcut of the first kind neither opens nor closes a cycle.
LEMMA ShortcutCyclesA ==
    ASSUME NEW V, NEW v1, NEW M, NEW t, NEW I, NEW S, NEW S2, Shortcut(V, v1, M, t, I, S, S2),
           NoOtherSource(M, t, S)
    PROVE  Cyclic(V, S2) <=> Cyclic(V, S)
<1> DEFINE X == Heads(M, t)
<1>1. /\ v1 \in V /\ v1 \notin M /\ v1 \notin X /\ X \in SUBSET V /\ I \subseteq M /\ M \subseteq V
      /\ M \cap X = {}
      /\ \A m \in M : t[m] \in X /\ S[m] = {v1} /\ S[t[m]] = {m} /\ t[m] \in V
      /\ \A x \in X : \E m \in M : x = t[m]
  BY DEF Shortcut, NoOtherSource, Heads
<1>2. \A u, w \in V :
         u \in S2[w] <=> /\ w \notin X /\ w \notin I /\ u \notin X
                         /\ u \in S[w] \/ (u = v1 /\ \E m \in M : t[m] \in S[w])
  <2>1. ASSUME NEW u, NEW m \in M, u \in S[t[m]] PROVE u \in M
    BY <1>1, <2>1
  <2>2. QED BY <2>1 DEF Shortcut
<1>3. \A m \in I : \A w \in V : m \in S[w] => w \in X
  BY <1>1 DEF Shortcut
<1> HIDE DEF X
<1>4. ASSUME NEW C \in SUBSET V, C # {}, Fed(S, C) PROVE Cyclic(V, S2)
  <2> DEFINE C2 == C \ (X \cup I)
  <2>1. \A m \in M : m \in C => v1 \in C
    BY <1>1, <1>4 DEF Fed
  <2>2. \A x \in X : x \in C => v1 \in C
    <3> SUFFICES ASSUME NEW x \in X, x \in C PROVE v1 \in C
      OBVIOUS
    <3>1. PICK m \in M : x = t[m]
      BY <1>1
    <3>2. PICK u \in C : u \in S[x]
      BY <1>4 DEF Fed
    <3>3. S[x] = {m}
      BY ONLY <1>1, <3>1
    <3>4. QED BY ONLY <2>1, <3>2, <3>3
  <2>3. v1 \in C => v1 \in C2
    BY <1>1
  <2>4. C2 # {} /\ C2 \in SUBSET V
    BY <1>1, <1>4, <2>1, <2>2, <2>3
  <2>5. ASSUME NEW v \in C2 PROVE \E u \in C2 : u \in S2[v]
    <3>1. PICK u \in C : u \in S[v] /\ u \in V /\ v \in V /\ v \notin X /\ v \notin I
      BY <1>4 DEF Fed
    <3>2. CASE u \in X
      <4>1. v1 \in S2[v]
        BY <1>1, <1>2, <3>1, <3>2
      <4>2. QED BY <2>2, <2>3, <3>1, <3>2, <4>1
    <3>3. CASE u \notin X
      <4>1. u \notin I
        BY <1>3, <3>1
      <4>2. u \in S2[v]
        BY <1>2, <3>1, <3>3
      <4>3. QED BY <3>1, <3>3, <4>1, <4>2
    <3>4. QED BY <3>2, <3>3
  <2> HIDE DEF C2
  <2>6. QED BY <2>4, <2>5 DEF Cyclic, Fed
<1>5. ASSUME NEW C2 \in SUBSET V, C2 # {}, Fed(S2, C2) PROVE Cyclic(V, S)
  <2> DEFINE C == C2 \cup {v \in M \cup X : v1 \in C2}
  <2>1. C \in SUBSET V /\ C # {}
    BY <1>1, <1>5
  <2>2. \A v : v \in C <=> v \in C2 \/ (v \in M \cup X /\ v1 \in C2)
    OBVIOUS
  <2> HIDE DEF C
  <2>3. ASSUME NEW v \in C, v \in C2 PROVE \E u \in C : u \in S[v]
    <3>1. PICK u \in C2 : u \in S2[v] /\ u \in V /\ v \in V
      BY <1>5, <2>3 DEF Fed
    <3>2. CASE u \in S[v]
      BY <2>2, <3>2
    <3>3. ASSUME u = v1, NEW m \in M, t[m] \in S[v] PROVE \E w \in C : w \in S[v]
      <4>1. t[m] \in C
        BY <1>1, <2>2, <3>3
      <4>2. QED BY <3>3, <4>1
    <3>4. QED BY <1>2, <3>1, <3>2, <3>3
  <2>4. ASSUME NEW v \in C, v \in M, v1 \in C2 PROVE \E u \in C : u \in S[v]
    BY <1>1, <2>2, <2>4
  <2>5. ASSUME NEW v \in C, v \in X, v1 \in C2 PROVE \E u \in C : u \in S[v]
    <3>1. PICK m \in M : v = t[m] /\ S[v] = {m}
      BY <1>1, <2>5
    <3>2. m \in C
      BY <2>2, <2>5
    <3>3. QED BY <3>1, <3>2
  <2>6. Fed(S, C)
    BY <2>2, <2>3, <2>4, <2>5 DEF Fed
  <2>7. QED BY <2>1, <2>6 DEF Cyclic
<1>6. QED BY <1>4, <1>5 DEF Cyclic

\* A shortcut of the second kind does not, either.
LEMMA ShortcutCyclesB ==
    ASSUME NEW V, NEW v1, NEW M, NEW t, NEW I, NEW S, NEW S2, Shortcut(V, v1, M, t, I, S, S2),
           NoOtherTarget(V, v1, M, t, I, S)
    PROVE  Cyclic(V, S2) <=> Cyclic(V, S)
<1>0. PICK m \in M, x \in V :
        M = {m} /\ I = {m} /\ Heads(M, t) = {x} /\ OneHead(V, v1, m, x, S, S2, {}, Redirected(M, t, v1, {}))
  <2>1. {} \in SUBSET V /\ {} \cap M = {}
    OBVIOUS
  <2>2. QED BY <2>1, ShortcutSingle
<1>1. /\ x \in V /\ m \in V /\ v1 \in V /\ x # m /\ x # v1 /\ m # v1
      /\ S[m] = {v1} /\ m \in S[x] /\ x \notin S[x] /\ v1 \notin S[v1]
      /\ \A w \in V : (v1 \in S[w] => w = m) /\ (m \in S[w] => w = x)
      /\ \A u \in V : u \notin S2[x] /\ u \notin S2[m]
  BY <1>0 DEF OneHead
<1>12. \A u \in V : u \in S2[v1] <=> \/ u \in S[v1] /\ u # x
                                     \/ u = v1 /\ x \in S[v1]
                                     \/ u \in S[x] /\ u # m
  BY <1>0 DEF OneHead
<1>13. \A u, w \in V : w \notin {x, m, v1} =>
          (u \in S2[w] <=> (u \in S[w] /\ u # x) \/ (u = v1 /\ x \in S[w]))
  BY <1>0 DEF OneHead
<1>2. m \notin S[v1] /\ v1 \notin S[x]
  BY <1>1
<1>4. ASSUME NEW C \in SUBSET V, C # {}, Fed(S, C) PROVE Cyclic(V, S2)
  <2> DEFINE C2 == {w \in V : w \notin {x, m} /\ (w \in C \/ (w = v1 /\ x \in C))}
  <2>1. \A w : w \in C2 <=> w \in V /\ w \notin {x, m} /\ (w \in C \/ (w = v1 /\ x \in C))
    OBVIOUS
  <2> HIDE DEF C2
  <2>2. m \in C => v1 \in C
    BY <1>1, <1>4 DEF Fed
  <2>3. C2 # {} /\ C2 \in SUBSET V
    <3>1. PICK c \in C : TRUE
      BY <1>4
    <3>2. c \in {x, m} => v1 \in C2
      BY <1>1, <2>1, <2>2, <3>1
    <3>3. c \notin {x, m} => c \in C2
      BY <2>1, <3>1
    <3>4. QED BY <2>1, <3>2, <3>3
  <2>4. ASSUME NEW v \in C2, v # v1 PROVE \E u \in C2 : u \in S2[v]
    <3>1. v \in C /\ v \in V /\ v \notin {x, m, v1}
      BY <2>1, <2>4
    <3>2. PICK u \in C : u \in S[v] /\ u \in V
      BY <1>4, <3>1 DEF Fed
    <3>3. u # m /\ u # v1
      BY <1>1, <3>1, <3>2
    <3>4. CASE u = x
      <4>1. v1 \in C2 /\ v1 \in S2[v]
        BY <1>1, <1>13, <2>1, <3>1, <3>2, <3>4
      <4>2. QED BY <4>1
    <3>5. CASE u # x
      <4>1. u \in C2
        BY <2>1, <3>2, <3>3, <3>5
      <4>2. u \in S2[v]
        BY <1>13, <3>1, <3>2, <3>5
      <4>3. QED BY <4>1, <4>2
    <3>6. QED BY <3>4, <3>5
  <2>5. ASSUME v1 \in C2, v1 \in C PROVE \E u \in C2 : u \in S2[v1]
    <3>1. PICK u \in C : u \in S[v1] /\ u \in V
      BY <1>4, <2>5 DEF Fed
    <3>2. u # m /\ u # v1
      BY <1>1, <1>2, <3>1
    <3>3. CASE u = x
      <4>1. v1 \in S2[v1]
        BY <1>1, <1>12, <3>1, <3>3
      <4>2. QED BY <2>5, <4>1
    <3>4. CASE u # x
      <4>1. u \in C2
        BY <2>1, <3>1, <3>2, <3>4
      <4>2. u \in S2[v1]
        BY <1>12, <3>1, <3>4
      <4>3. QED BY <4>1, <4>2
    <3>5. QED BY <3>3, <3>4
  <2>6. ASSUME v1 \in C2, v1 \notin C, x \in C PROVE \E u \in C2 : u \in S2[v1]
    <3>1. PICK u \in C : u \in S[x] /\ u \in V
      BY <1>4, <2>6 DEF Fed
    <3>2. u # m /\ u # x
      BY <1>1, <2>2, <2>6, <3>1
    <3>3. u \in C2
      BY <2>1, <3>1, <3>2
    <3>4. u \in S2[v1]
      BY <1>12, <3>1, <3>2
    <3>5. QED BY <3>3, <3>4
  <2>7. Fed(S2, C2)
    BY <2>1, <2>4, <2>5, <2>6 DEF Fed
  <2>8. QED BY <2>3, <2>7 DEF Cyclic
<1>5. ASSUME NEW C2 \in SUBSET V, C2 # {}, Fed(S2, C2) PROVE Cyclic(V, S)
  <2>1. x \notin C2 /\ m \notin C2
    BY <1>1, <1>5 DEF Fed
  <2>2. ASSUME NEW v \in C2, v # v1
        PROVE  \E u \in C2 : /\ u \in S2[v] /\ u \in V
                             /\ (u \in S[v] /\ u # x /\ u # v1) \/ (u = v1 /\ x \in S[v])
    <3>1. PICK u \in C2 : u \in S2[v] /\ u \in V /\ v \in V /\ v \notin {x, m, v1}
      BY <1>5, <2>1, <2>2 DEF Fed
    <3>2. (u \in S[v] /\ u # x) \/ (u = v1 /\ x \in S[v])
      BY <1>13, <3>1
    <3>3. v1 \notin S[v]
      BY <1>1, <3>1
    <3>4. QED BY <3>1, <3>2, <3>3
  <2>3. CASE v1 \notin C2
    <3>1. Fed(S, C2)
      BY <2>2, <2>3 DEF Fed
    <3>2. QED BY <1>5, <3>1 DEF Cyclic
  <2>4. ASSUME v1 \in C2, NEW u \in C2, u \in S2[v1], (u \in S[v1] /\ u # x) \/ (u = v1 /\ x \in S[v1])
        PROVE  Cyclic(V, S)
    <3> DEFINE C == C2 \cup {m, x}
    <3>1. C \in SUBSET V /\ C # {}
      BY <1>1
    <3>2. ASSUME NEW v \in C2, v # v1 PROVE \E w \in C : w \in S[v]
      BY <2>2, <3>2
    <3>3. \E w \in C : w \in S[v1]
      BY <2>4
    <3>4. (\E w \in C : w \in S[m]) /\ (\E w \in C : w \in S[x])
      BY <1>1, <2>4
    <3>5. Fed(S, C)
      BY <3>2, <3>3, <3>4 DEF Fed
    <3> HIDE DEF C
    <3>6. QED BY <3>1, <3>5 DEF Cyclic
  <2>5. ASSUME v1 \in C2, NEW u \in C2, u \in S[x], u # m PROVE Cyclic(V, S)
    <3> DEFINE C == (C2 \ {v1}) \cup {x}
    <3>1. C \in SUBSET V /\ C # {}
      BY <1>1
    <3>2. ASSUME NEW v \in C2, v # v1 PROVE \E w \in C : w \in S[v]
      BY <2>2, <3>2
    <3>3. \E w \in C : w \in S[x]
      BY <1>2, <2>5
    <3>4. Fed(S, C)
      BY <3>2, <3>3 DEF Fed
    <3> HIDE DEF C
    <3>5. QED BY <3>1, <3>4 DEF Cyclic
  <2>6. CASE v1 \in C2
    <3>1. PICK u \in C2 : u \in S2[v1] /\ u \in V
      BY <1>5, <2>6 DEF Fed
    <3>2. QED BY <1>12, <2>4, <2>5, <2>6, <3>1
  <2>7. QED BY <2>3, <2>6
<1>6. QED BY <1>4, <1>5 DEF Cyclic

\* A sound shortcut leaves the cycles as they were.
LEMMA ShortcutKeepsCycles ==
    ASSUME NEW g, GraphOK(g), NEW h, GraphOK(h), h.vertices = g.vertices,
           NEW v1, NEW M, NEW t, NEW I,
           Shortcut(g.vertices, v1, M, t, I, SourcesOf(g), SourcesOf(h)), SoundShortcut(g, v1, M, t, I)
    PROVE  HasCycles(h) <=> HasCycles(g)
<1>1. Cyclic(g.vertices, SourcesOf(h)) <=> Cyclic(g.vertices, SourcesOf(g))
  BY ShortcutCyclesA, ShortcutCyclesB DEF SoundShortcut
<1>2. HasCycles(g) <=> Cyclic(g.vertices, SourcesOf(g))
  BY CyclesMeaning
<1>3. HasCycles(h) <=> Cyclic(g.vertices, SourcesOf(h))
  BY CyclesMeaning
<1>4. QED BY <1>1, <1>2, <1>3

-----------------------------------------------------------------------------
(* Removing disconnected vertices                                           *)

\* What removing the vertices nothing is connected to leaves of a graph.
LEMMA RemovedFacts ==
    ASSUME NEW g, GraphOK(g), NEW h, h = RemoveDisconnectedVertices(g)
    PROVE  /\ GraphOK(h) /\ h.vertices = Connected(g) /\ Connected(h) = h.vertices
           /\ h.vertices \subseteq g.vertices /\ h.ifaceMap = g.ifaceMap
           /\ \A v \in h.vertices : Sources(h, v) = Sources(g, v)
           /\ \A v \in g.vertices : \A u \in Sources(g, v) : u \in h.vertices /\ v \in h.vertices
           /\ \A i \in Ifaces : g.ifaceMap[i] \in h.vertices
<1>1. g \in Graphs /\ g.vertices \subseteq VertexRefs
  BY VerticesFinite DEF GraphOK
<1>2. h.vertices = Connected(g) /\ h.edges = g.edges /\ h.ifaceMap = g.ifaceMap
  BY <1>1 DEF RemoveDisconnectedVertices, Graphs
<1>3. h \in Graphs
  <2>1. h = [vertices |-> Connected(g), edges |-> g.edges, ifaceMap |-> g.ifaceMap]
    BY <1>1 DEF RemoveDisconnectedVertices, Graphs
  <2>2. Connected(g) \in SUBSET VertexRefs
    BY <1>1 DEF Connected
  <2>3. QED BY <1>1, <2>1, <2>2 DEF Graphs
<1>4. \A i \in Ifaces : g.ifaceMap[i] \in h.vertices
  BY <1>2 DEF GraphOK, Connected, IfacesAt
<1>5. \A u, v \in g.vertices : g.edges[<<u, v>>] > 0 => u \in h.vertices /\ v \in h.vertices
  BY <1>2 DEF Connected, Sources, Targets
<1>6. h.vertices \subseteq g.vertices
  BY <1>2 DEF Connected
<1>7. GraphOK(h)
  <2>1. ASSUME NEW e \in VertexRefs \X VertexRefs, h.edges[e] > 0 PROVE e \in h.vertices \X h.vertices
    <3>1. PICK u \in VertexRefs, v \in VertexRefs : e = <<u, v>>
      OBVIOUS
    <3>2. e \in g.vertices \X g.vertices
      BY <1>2, <2>1 DEF GraphOK
    <3>3. u \in g.vertices /\ v \in g.vertices
      BY <3>1, <3>2
    <3>4. QED BY <1>2, <1>5, <2>1, <3>1, <3>3
  <2>2. QED BY <1>2, <1>3, <1>4, <2>1 DEF GraphOK
<1>8. \A v \in h.vertices : Sources(h, v) = Sources(g, v) /\ Targets(h, v) = Targets(g, v)
  BY <1>2, <1>5, <1>6 DEF Sources, Targets
<1>9. Connected(h) = h.vertices
  <2>1. ASSUME NEW v \in h.vertices PROVE v \in Connected(h)
    <3>1. Targets(g, v) # {} \/ Sources(g, v) # {} \/ IfacesAt(g, v, Ifaces) # {}
      BY <1>2 DEF Connected
    <3>2. IfacesAt(h, v, Ifaces) = IfacesAt(g, v, Ifaces)
      BY <1>2 DEF IfacesAt
    <3>3. QED BY <1>8, <3>1, <3>2 DEF Connected
  <2>2. QED BY <2>1 DEF Connected
<1>10. \A v \in g.vertices : \A u \in Sources(g, v) : u \in h.vertices /\ v \in h.vertices
  BY <1>5 DEF Sources
<1>11. QED BY <1>2, <1>4, <1>6, <1>7, <1>8, <1>9, <1>10

\* Vertices nothing leads to or from matter to no output and to no cycle.
LEMMA RemovedKeeps ==
    ASSUME NEW g, GraphOK(g), NEW h, h = RemoveDisconnectedVertices(g)
    PROVE  Behaviour(h) = Behaviour(g) /\ (HasCycles(h) <=> HasCycles(g))
<1> DEFINE V == g.vertices
           W == h.vertices
<1>1. /\ GraphOK(h) /\ W \subseteq V /\ h.ifaceMap = g.ifaceMap
      /\ \A v \in W : Sources(h, v) = Sources(g, v)
      /\ \A v \in V : \A u \in Sources(g, v) : u \in W /\ v \in W
      /\ \A i \in Ifaces : g.ifaceMap[i] \in W
  BY RemovedFacts
<1>2. /\ \A v \in V : SourcesOf(g)[v] = Sources(g, v)
      /\ \A v \in W : SourcesOf(h)[v] = Sources(g, v)
  BY <1>1 DEF SourcesOf
<1>3. ASSUME NEW driven \in SUBSET InIfaces
      PROVE  Input(h, driven) = Input(g, driven) /\ Input(g, driven) \subseteq W
  BY <1>1 DEF Input, Ifaces
<1>4. \A o \in OutIfaces : g.ifaceMap[o] \in W /\ h.ifaceMap[o] = g.ifaceMap[o]
  BY <1>1 DEF Ifaces
<1> HIDE DEF V, W
<1>5. Matched(g, h)
  <2>1. ASSUME NEW driven \in SUBSET InIfaces, NEW on \in Stable(g, driven)
        PROVE  \E on2 \in Stable(h, driven) :
                  \A o \in OutIfaces : g.ifaceMap[o] \in on <=> h.ifaceMap[o] \in on2
    <3>1. StableIn(V, SourcesOf(g), Input(g, driven), on)
      BY StableMeaning DEF V
    <3>2. \A v \in W : v \in on <=> v \in Input(g, driven) \/ Sources(g, v) \ on # {}
      BY <1>1, <1>2, <3>1 DEF StableIn
    <3>3. \A v \in W : Sources(g, v) \ on = Sources(g, v) \ (on \cap W)
      BY <1>1
    <3>4. StableIn(W, SourcesOf(h), Input(h, driven), on \cap W)
      BY <1>2, <1>3, <3>2, <3>3 DEF StableIn
    <3>5. on \cap W \in Stable(h, driven)
      BY <3>4, StableMeaning DEF W
    <3>6. QED BY <1>4, <3>5
  <2>2. QED BY <2>1 DEF Matched
<1>6. Matched(h, g)
  <2>1. ASSUME NEW driven \in SUBSET InIfaces, NEW on \in Stable(h, driven)
        PROVE  \E on2 \in Stable(g, driven) :
                  \A o \in OutIfaces : h.ifaceMap[o] \in on <=> g.ifaceMap[o] \in on2
    <3>1. StableIn(W, SourcesOf(h), Input(h, driven), on)
      BY StableMeaning DEF W
    <3>2. \A v \in W : v \in on <=> v \in Input(g, driven) \/ Sources(g, v) \ on # {}
      BY <1>2, <1>3, <3>1 DEF StableIn
    <3>3. ASSUME NEW v \in V, v \notin W
          PROVE  v \notin on /\ v \notin Input(g, driven) /\ Sources(g, v) = {}
      BY <1>1, <1>3, <3>1, <3>3 DEF StableIn
    <3>4. StableIn(V, SourcesOf(g), Input(g, driven), on)
      <4>1. on \in SUBSET V
        BY <1>1, <3>1 DEF StableIn
      <4>2. \A v \in V : v \in on <=> v \in Input(g, driven) \/ SourcesOf(g)[v] \ on # {}
        BY <1>2, <3>2, <3>3
      <4>3. QED BY <4>1, <4>2 DEF StableIn
    <3>5. on \in Stable(g, driven)
      BY <3>4, StableMeaning DEF V
    <3>6. QED BY <1>4, <3>5
  <2>2. QED BY <2>1 DEF Matched
<1>7. Cyclic(V, SourcesOf(g)) <=> Cyclic(W, SourcesOf(h))
  <2>1. ASSUME NEW C \in SUBSET V, C # {}, Fed(SourcesOf(g), C) PROVE Cyclic(W, SourcesOf(h))
    <3>1. \A v \in C : v \in W /\ \E u \in C : u \in Sources(g, v)
      BY <1>1, <1>2, <2>1 DEF Fed
    <3>2. C \in SUBSET W /\ Fed(SourcesOf(h), C)
      BY <1>2, <3>1 DEF Fed
    <3>3. QED BY <2>1, <3>2 DEF Cyclic
  <2>2. ASSUME NEW C \in SUBSET W, C # {}, Fed(SourcesOf(h), C) PROVE Cyclic(V, SourcesOf(g))
    <3>1. C \in SUBSET V /\ Fed(SourcesOf(g), C)
      BY <1>1, <1>2, <2>2 DEF Fed
    <3>2. QED BY <2>2, <3>1 DEF Cyclic
  <2>3. QED BY <2>1, <2>2 DEF Cyclic
<1>8. Behaviour(h) = Behaviour(g)
  BY <1>5, <1>6, SameBehaviour
<1>9. HasCycles(h) <=> HasCycles(g)
  BY <1>1, <1>7, CyclesMeaning DEF V, W
<1>10. QED BY <1>8, <1>9

-----------------------------------------------------------------------------
(* Splitting a vertex                                                       *)

\* out, read where v was read, is fed by middle, and middle by v.
IsSplit(g, v, middle, out, h) ==
    /\ h.vertices = g.vertices \cup {middle, out}
    /\ \A i \in Ifaces : h.ifaceMap[i] = IF i \in OutIfaces /\ g.ifaceMap[i] = v THEN out ELSE g.ifaceMap[i]
    /\ \A u \in h.vertices : u \in Sources(h, middle) <=> u = v
    /\ \A u \in h.vertices : u \in Sources(h, out) <=> u = middle
    /\ \A u \in h.vertices : \A w \in g.vertices :
          u \in Sources(h, w) <=> \/ u = out /\ v \in Sources(g, w)
                                  \/ u # v /\ u \in Sources(g, w)

\* What the splitting constructor makes of a graph.
LEMMA SplitFacts ==
    ASSUME NEW g, GraphOK(g), NEW v \in g.vertices,
           NEW middle \in VertexRefs, middle \notin g.vertices,
           NEW out \in VertexRefs, out \notin g.vertices, middle # out,
           NEW h, h = VerticalSplitVertex(g, v, middle, out)
    PROVE  GraphOK(h) /\ IsSplit(g, v, middle, out, h)
<1> DEFINE Pairs == VertexRefs \X VertexRefs
           E == [e \in Pairs |->
                   IF e \in {<<v, middle>>, <<middle, out>>} THEN 1
                   ELSE IF e[1] = v THEN 0
                   ELSE g.edges[IF e[1] = out THEN <<v, e[2]>> ELSE e]]
           F == [i \in Ifaces |-> IF i \in IfacesAt(g, v, OutIfaces) THEN out ELSE g.ifaceMap[i]]
<1>1. /\ g \in Graphs /\ g.vertices \subseteq VertexRefs /\ v \in VertexRefs
      /\ g.edges \in [Pairs -> Nat] /\ g.ifaceMap \in [Ifaces -> VertexRefs]
      /\ DOMAIN g.edges = Pairs
  BY VerticesFinite DEF GraphOK
<1>2. h = [vertices |-> g.vertices \cup {middle, out}, edges |-> E, ifaceMap |-> F]
  BY <1>1 DEF VerticalSplitVertex
<1>3. ASSUME NEW u \in VertexRefs, NEW w \in VertexRefs
      PROVE  E[<<u, w>>] = IF (u = v /\ w = middle) \/ (u = middle /\ w = out) THEN 1
                           ELSE IF u = v THEN 0
                           ELSE IF u = out THEN g.edges[<<v, w>>] ELSE g.edges[<<u, w>>]
  OBVIOUS
<1>4. \A u, w \in VertexRefs : g.edges[<<u, w>>] \in Nat /\
        (g.edges[<<u, w>>] > 0 => u \in g.vertices /\ w \in g.vertices)
  BY <1>1 DEF GraphOK
<1>5. E \in [Pairs -> Nat]
  BY <1>1
<1>6. F \in [Ifaces -> VertexRefs] /\ \A i \in Ifaces :
        F[i] = IF i \in OutIfaces /\ g.ifaceMap[i] = v THEN out ELSE g.ifaceMap[i]
  BY <1>1 DEF IfacesAt
<1> HIDE DEF E, F
<1>7. h \in Graphs /\ h.vertices = g.vertices \cup {middle, out} /\ h.edges = E /\ h.ifaceMap = F
  BY <1>1, <1>2, <1>5, <1>6 DEF Graphs
<1>8. v # middle /\ v # out
  OBVIOUS
<1>9. ASSUME NEW u \in VertexRefs, NEW w \in VertexRefs
      PROVE  E[<<u, w>>] > 0 <=> \/ u = v /\ w = middle
                                 \/ u = middle /\ w = out
                                 \/ u = out /\ g.edges[<<v, w>>] > 0
                                 \/ u # v /\ g.edges[<<u, w>>] > 0
  <2>1. CASE u = v
    <3>1. E[<<u, w>>] = IF w = middle THEN 1 ELSE 0
      BY <1>3, <1>8, <2>1
    <3>2. QED BY <1>8, <2>1, <3>1
  <2>2. CASE u = middle
    <3>1. ~(g.edges[<<u, w>>] > 0)
      BY <1>4, <2>2
    <3>2. E[<<u, w>>] = IF w = out THEN 1 ELSE g.edges[<<u, w>>]
      BY <1>3, <1>8, <2>2
    <3>3. QED BY <1>8, <2>2, <3>1, <3>2
  <2>3. CASE u = out
    <3>1. ~(g.edges[<<u, w>>] > 0)
      BY <1>4, <2>3
    <3>2. E[<<u, w>>] = g.edges[<<v, w>>]
      BY <1>3, <1>8, <2>3
    <3>3. QED BY <1>8, <2>3, <3>1, <3>2
  <2>4. CASE u # v /\ u # middle /\ u # out
    <3>1. E[<<u, w>>] = g.edges[<<u, w>>]
      BY <1>3, <2>4
    <3>2. QED BY <2>4, <3>1
  <2>5. QED BY <2>1, <2>2, <2>3, <2>4
<1>10. \A i \in Ifaces : F[i] \in h.vertices
  BY <1>6, <1>7 DEF GraphOK
<1>11. ASSUME NEW e \in Pairs, E[e] > 0 PROVE e \in h.vertices \X h.vertices
  <2>1. PICK u \in VertexRefs, w \in VertexRefs : e = <<u, w>>
    OBVIOUS
  <2>2. u \in h.vertices /\ w \in h.vertices
    <3>1. E[<<u, w>>] > 0
      BY <1>11, <2>1
    <3>2. \/ u = v /\ w = middle
          \/ u = middle /\ w = out
          \/ u = out /\ g.edges[<<v, w>>] > 0
          \/ u # v /\ g.edges[<<u, w>>] > 0
      BY <1>9, <3>1
    <3>3. /\ g.edges[<<v, w>>] > 0 => w \in g.vertices
          /\ g.edges[<<u, w>>] > 0 => u \in g.vertices /\ w \in g.vertices
      BY <1>1, <1>4
    <3>4. QED BY <1>7, <3>2, <3>3
  <2>3. QED BY <2>1, <2>2
<1>12. GraphOK(h)
  BY <1>7, <1>10, <1>11 DEF GraphOK
<1>13. ASSUME NEW u \in h.vertices, NEW w \in h.vertices
       PROVE  u \in Sources(h, w) <=> \/ u = v /\ w = middle
                                      \/ u = middle /\ w = out
                                      \/ u = out /\ g.edges[<<v, w>>] > 0
                                      \/ u # v /\ g.edges[<<u, w>>] > 0
  <2>1. u \in VertexRefs /\ w \in VertexRefs
    BY <1>1, <1>7
  <2>2. u \in Sources(h, w) <=> E[<<u, w>>] > 0
    BY <1>7 DEF Sources
  <2>3. QED BY <1>9, <2>1, <2>2
<1>14. \A u \in VertexRefs : /\ ~(g.edges[<<u, middle>>] > 0) /\ ~(g.edges[<<u, out>>] > 0)
                             /\ ~(g.edges[<<middle, u>>] > 0) /\ ~(g.edges[<<out, u>>] > 0)
  BY <1>4
<1>15. middle \in h.vertices /\ out \in h.vertices /\ \A u \in h.vertices : u \in VertexRefs
  BY <1>1, <1>7
<1>16. \A u \in h.vertices : u \in Sources(h, middle) <=> u = v
  BY <1>1, <1>8, <1>13, <1>14, <1>15
<1>17. \A u \in h.vertices : u \in Sources(h, out) <=> u = middle
  BY <1>1, <1>8, <1>13, <1>14, <1>15
<1>18. ASSUME NEW u \in h.vertices, NEW w \in g.vertices
       PROVE  u \in Sources(h, w) <=> \/ u = out /\ v \in Sources(g, w)
                                      \/ u # v /\ u \in Sources(g, w)
  <2>1. w \in h.vertices /\ w # middle /\ w # out /\ w \in VertexRefs
    BY <1>1, <1>7
  <2>2. u \in Sources(h, w) <=> \/ u = out /\ g.edges[<<v, w>>] > 0
                                \/ u # v /\ g.edges[<<u, w>>] > 0
    BY <1>13, <2>1
  <2>3. v \in Sources(g, w) <=> g.edges[<<v, w>>] > 0
    BY DEF Sources
  <2>4. u \in Sources(g, w) <=> g.edges[<<u, w>>] > 0
    BY <1>4, <1>15, <2>1 DEF Sources
  <2>5. QED BY <2>2, <2>3, <2>4
<1>19. IsSplit(g, v, middle, out, h)
  BY <1>6, <1>7, <1>16, <1>17, <1>18 DEF IsSplit
<1>20. QED BY <1>12, <1>19

\* Two inverters behind a vertex matter to no output and to no cycle.
LEMMA SplitKeeps ==
    ASSUME NEW g, GraphOK(g), NEW h, GraphOK(h), NEW v \in g.vertices,
           NEW middle, middle \notin g.vertices, NEW out, out \notin g.vertices, middle # out,
           IsSplit(g, v, middle, out, h)
    PROVE  Behaviour(h) = Behaviour(g) /\ (HasCycles(h) <=> HasCycles(g))
<1> DEFINE V == g.vertices
           W == h.vertices
<1>1. /\ W = V \cup {middle, out}
      /\ v \in V /\ middle \notin V /\ out \notin V /\ middle # out
      /\ \A u \in W : u \in Sources(h, middle) <=> u = v
      /\ \A u \in W : u \in Sources(h, out) <=> u = middle
  BY DEF IsSplit
<1>2. \A u \in W : \A w \in V :
          u \in Sources(h, w) <=> \/ u = out /\ v \in Sources(g, w)
                                  \/ u # v /\ u \in Sources(g, w)
  BY DEF IsSplit
<1>3. /\ \A w \in V : SourcesOf(g)[w] = Sources(g, w)
      /\ \A w \in W : SourcesOf(h)[w] = Sources(h, w)
      /\ \A w : Sources(g, w) \subseteq V /\ Sources(h, w) \subseteq W
  BY DEF SourcesOf, Sources
<1>4. ASSUME NEW driven \in SUBSET InIfaces
      PROVE  Input(h, driven) = Input(g, driven) /\ Input(g, driven) \subseteq V
  <2>1. \A i \in driven : i \in Ifaces /\ i \notin OutIfaces
    BY IfacesAssumption DEF Ifaces
  <2>2. QED BY <2>1 DEF Input, IsSplit, GraphOK
<1>5. \A o \in OutIfaces : g.ifaceMap[o] \in V /\ h.ifaceMap[o] = IF g.ifaceMap[o] = v THEN out ELSE g.ifaceMap[o]
  BY DEF Ifaces, IsSplit, GraphOK
<1> HIDE DEF V, W
<1>6. Matched(g, h)
  <2>1. ASSUME NEW driven \in SUBSET InIfaces, NEW on \in Stable(g, driven)
        PROVE  \E on2 \in Stable(h, driven) :
                  \A o \in OutIfaces : g.ifaceMap[o] \in on <=> h.ifaceMap[o] \in on2
    <3>1. StableIn(V, SourcesOf(g), Input(g, driven), on)
      BY StableMeaning DEF V
    <3>2. on \in SUBSET V /\ \A w \in V : w \in on <=> w \in Input(g, driven) \/ \E u \in Sources(g, w) : u \notin on
      BY <1>3, <3>1 DEF StableIn
    <3> DEFINE on2 == {w \in W : IF w = middle THEN v \notin on ELSE IF w = out THEN v \in on ELSE w \in on}
    <3>3. /\ middle \in on2 <=> v \notin on
          /\ out \in on2 <=> v \in on
          /\ \A w \in V : w \in on2 <=> w \in on
          /\ on2 \in SUBSET W
      BY <1>1
    <3> HIDE DEF on2
    <3>4. ASSUME NEW w \in V
          PROVE  (\E u \in Sources(g, w) : u \notin on) <=> (\E u \in Sources(h, w) : u \notin on2)
      <4>1. ASSUME NEW u \in Sources(g, w), u \notin on PROVE \E x \in Sources(h, w) : x \notin on2
        <5>1. u \in V /\ u \in W /\ out \in W
          BY <1>1, <1>3
        <5>2. CASE u = v
          <6>1. out \in Sources(h, w) /\ out \notin on2
            BY <1>2, <3>3, <4>1, <5>1, <5>2
          <6>2. QED BY <6>1
        <5>3. CASE u # v
          <6>1. u \in Sources(h, w) /\ u \notin on2
            BY <1>2, <3>3, <4>1, <5>1, <5>3
          <6>2. QED BY <6>1
        <5>4. QED BY <5>2, <5>3
      <4>2. ASSUME NEW u \in Sources(h, w), u \notin on2 PROVE \E x \in Sources(g, w) : x \notin on
        <5>1. u \in W
          BY <1>3
        <5>2. CASE u = out /\ v \in Sources(g, w)
          BY <3>3, <4>2, <5>2
        <5>3. CASE u # v /\ u \in Sources(g, w)
          BY <1>3, <3>3, <4>2, <5>3
        <5>4. QED BY <1>2, <5>1, <5>2, <5>3
      <4>3. QED BY <4>1, <4>2
    <3>5. ASSUME NEW w \in W
          PROVE  w \in on2 <=> w \in Input(h, driven) \/ \E u \in Sources(h, w) : u \notin on2
      <4>1. CASE w \in V
        BY <1>4, <3>2, <3>3, <3>4, <4>1
      <4>2. CASE w = middle
        <5>1. middle \notin Input(h, driven) /\ v \in W
          BY <1>1, <1>4
        <5>2. (\E u \in Sources(h, middle) : u \notin on2) <=> v \notin on2
          BY <1>1, <1>3, <5>1
        <5>3. QED BY <1>1, <3>3, <4>2, <5>1, <5>2
      <4>3. CASE w = out
        <5>1. out \notin Input(h, driven) /\ middle \in W
          BY <1>1, <1>4
        <5>2. (\E u \in Sources(h, out) : u \notin on2) <=> middle \notin on2
          BY <1>1, <1>3, <5>1
        <5>3. QED BY <1>1, <3>3, <4>3, <5>1, <5>2
      <4>4. QED BY <1>1, <4>1, <4>2, <4>3
    <3>6. StableIn(W, SourcesOf(h), Input(h, driven), on2)
      BY <1>3, <3>3, <3>5 DEF StableIn
    <3>7. on2 \in Stable(h, driven)
      BY <3>6, StableMeaning DEF W
    <3>8. \A o \in OutIfaces : g.ifaceMap[o] \in on <=> h.ifaceMap[o] \in on2
      BY <1>5, <3>3
    <3>9. QED BY <3>7, <3>8
  <2>2. QED BY <2>1 DEF Matched
<1>7. Matched(h, g)
  <2>1. ASSUME NEW driven \in SUBSET InIfaces, NEW on2 \in Stable(h, driven)
        PROVE  \E on \in Stable(g, driven) :
                  \A o \in OutIfaces : h.ifaceMap[o] \in on2 <=> g.ifaceMap[o] \in on
    <3>1. StableIn(W, SourcesOf(h), Input(h, driven), on2)
      BY StableMeaning DEF W
    <3>2. on2 \in SUBSET W /\ \A w \in W : w \in on2 <=> w \in Input(g, driven) \/ \E u \in Sources(h, w) : u \notin on2
      BY <1>3, <1>4, <3>1 DEF StableIn
    <3> DEFINE on == on2 \cap V
    <3>3. \A w \in V : w \in on2 <=> w \in on
      OBVIOUS
    <3>4. middle \in on2 <=> v \notin on2
      <4>1. middle \notin Input(g, driven) /\ v \in W /\ middle \in W
        BY <1>1, <1>4
      <4>2. (\E u \in Sources(h, middle) : u \notin on2) <=> v \notin on2
        BY <1>1, <1>3, <4>1
      <4>3. QED BY <3>2, <4>1, <4>2
    <3>5. out \in on2 <=> v \in on2
      <4>1. out \notin Input(g, driven) /\ middle \in W /\ out \in W
        BY <1>1, <1>4
      <4>2. (\E u \in Sources(h, out) : u \notin on2) <=> middle \notin on2
        BY <1>1, <1>3, <4>1
      <4>3. QED BY <3>2, <3>4, <4>1, <4>2
    <3> HIDE DEF on
    <3>6. ASSUME NEW w \in V
          PROVE  (\E u \in Sources(g, w) : u \notin on) <=> (\E u \in Sources(h, w) : u \notin on2)
      <4>1. ASSUME NEW u \in Sources(g, w), u \notin on PROVE \E x \in Sources(h, w) : x \notin on2
        <5>1. u \in V /\ u \in W /\ out \in W
          BY <1>1, <1>3
        <5>2. CASE u = v
          <6>1. out \in Sources(h, w) /\ out \notin on2
            BY <1>1, <1>2, <3>3, <3>5, <4>1, <5>1, <5>2
          <6>2. QED BY <6>1
        <5>3. CASE u # v
          <6>1. u \in Sources(h, w) /\ u \notin on2
            BY <1>2, <3>3, <4>1, <5>1, <5>3
          <6>2. QED BY <6>1
        <5>4. QED BY <5>2, <5>3
      <4>2. ASSUME NEW u \in Sources(h, w), u \notin on2 PROVE \E x \in Sources(g, w) : x \notin on
        <5>1. u \in W
          BY <1>3
        <5>2. CASE u = out /\ v \in Sources(g, w)
          BY <1>1, <3>3, <3>5, <4>2, <5>2
        <5>3. CASE u # v /\ u \in Sources(g, w)
          BY <1>3, <3>3, <4>2, <5>3
        <5>4. QED BY <1>2, <5>1, <5>2, <5>3
      <4>3. QED BY <4>1, <4>2
    <3>7. StableIn(V, SourcesOf(g), Input(g, driven), on)
      <4>1. on \in SUBSET V
        BY DEF on
      <4>2. \A w \in V : w \in on <=> w \in Input(g, driven) \/ \E u \in Sources(g, w) : u \notin on
        BY <1>1, <3>2, <3>3, <3>6
      <4>3. QED BY <1>3, <4>1, <4>2 DEF StableIn
    <3>8. on \in Stable(g, driven)
      BY <3>7, StableMeaning DEF V
    <3>9. \A o \in OutIfaces : h.ifaceMap[o] \in on2 <=> g.ifaceMap[o] \in on
      BY <1>1, <1>5, <3>3, <3>5
    <3>10. QED BY <3>8, <3>9
  <2>2. QED BY <2>1 DEF Matched
<1>8. ASSUME NEW C \in SUBSET V, C # {}, Fed(SourcesOf(g), C) PROVE Cyclic(W, SourcesOf(h))
  <2> DEFINE C2 == C \cup {w \in {middle, out} : v \in C}
  <2>1. C2 \in SUBSET W /\ C2 # {} /\ \A w : w \in C2 <=> w \in C \/ (w \in {middle, out} /\ v \in C)
    BY <1>1, <1>8
  <2> HIDE DEF C2
  <2>2. ASSUME NEW w \in C PROVE \E u \in C2 : u \in Sources(h, w)
    <3>1. PICK u \in C : u \in Sources(g, w) /\ u \in V /\ w \in V /\ u \in W /\ out \in W
      BY <1>1, <1>3, <1>8 DEF Fed
    <3>2. CASE u = v
      BY <1>2, <2>1, <3>1, <3>2
    <3>3. CASE u # v
      BY <1>2, <2>1, <3>1, <3>3
    <3>4. QED BY <3>2, <3>3
  <2>3. ASSUME v \in C
        PROVE  (\E u \in C2 : u \in Sources(h, middle)) /\ (\E u \in C2 : u \in Sources(h, out))
    BY <1>1, <2>1, <2>3
  <2>4. \A w \in C2 : \E u \in C2 : u \in Sources(h, w)
    BY <2>1, <2>2, <2>3
  <2>5. Fed(SourcesOf(h), C2)
    BY <1>3, <2>1, <2>4 DEF Fed
  <2>6. QED BY <2>1, <2>5 DEF Cyclic
<1>9. ASSUME NEW C2 \in SUBSET W, C2 # {}, Fed(SourcesOf(h), C2) PROVE Cyclic(V, SourcesOf(g))
  <2>1. \A w \in C2 : \E u \in C2 : u \in Sources(h, w)
    BY <1>3, <1>9 DEF Fed
  <2>2. middle \in C2 => v \in C2
    BY <1>1, <2>1
  <2>3. out \in C2 => v \in C2
    BY <1>1, <2>1, <2>2
  <2> DEFINE C == C2 \cap V
  <2>4. C \in SUBSET V /\ C # {} /\ \A w : w \in C <=> w \in C2 /\ w \in V
    BY <1>1, <1>9, <2>2, <2>3
  <2> HIDE DEF C
  <2>5. ASSUME NEW w \in C PROVE \E u \in C : u \in Sources(g, w)
    <3>1. PICK u \in C2 : u \in Sources(h, w) /\ w \in V /\ u \in W
      BY <2>1, <2>4
    <3>2. CASE u = out /\ v \in Sources(g, w)
      BY <1>1, <2>3, <2>4, <3>2
    <3>3. CASE u # v /\ u \in Sources(g, w)
      BY <1>3, <2>4, <3>3
    <3>4. QED BY <1>2, <3>1, <3>2, <3>3
  <2>6. Fed(SourcesOf(g), C)
    BY <1>3, <2>4, <2>5 DEF Fed
  <2>7. QED BY <2>4, <2>6 DEF Cyclic
<1>10. Behaviour(h) = Behaviour(g)
  BY <1>6, <1>7, SameBehaviour
<1>11. HasCycles(h) <=> HasCycles(g)
  <2>1. Cyclic(V, SourcesOf(g)) <=> Cyclic(W, SourcesOf(h))
    BY <1>8, <1>9 DEF Cyclic
  <2>2. QED BY <2>1, CyclesMeaning DEF V, W
<1>12. QED BY <1>10, <1>11

-----------------------------------------------------------------------------
(***************************************************************************)
(* The inductive invariant.  Beyond the properties it says that the loop   *)
(* over v1 sees all vertices it was given, and that those split off are    *)
(* taken in order, so that the next two are free.                          *)
(***************************************************************************)
VerticesKnown ==
    /\ ~built => graph.vertices = GivenVertices
    /\ built => unvisited = {} /\ Connected(graph) = graph.vertices

TakenInOrder ==
    \A v \in graph.vertices \cap Unused : \A w \in Unused : w < v => w \in graph.vertices

NetlistInv ==
    /\ GraphOK(source) /\ GraphOK(graph)
    /\ unvisited \subseteq GivenVertices /\ built \in BOOLEAN
    /\ lost \subseteq VertexRefs \X VertexRefs
    /\ VerticesKnown /\ TakenInOrder
    /\ BehaviourKept /\ CyclesKept

\* What the invariant says holds of the graphs the constructor is given.
LEMMA InitNetlist ==
    ASSUME Init
    PROVE  NetlistInv
<1>1. source \in GivenGraphs /\ graph = source /\ unvisited = GivenVertices /\ built = FALSE /\ lost = {}
  BY DEF Init
<1>2. PICK E \in EdgeSets, f \in [Ifaces -> GivenVertices] :
         source = [vertices |-> GivenVertices,
                   edges |-> [e \in VertexRefs \X VertexRefs |-> IF e \in E THEN 1 ELSE 0],
                   ifaceMap |-> f]
  <2> DEFINE G(E, f) == [vertices |-> GivenVertices,
                         edges |-> [e \in VertexRefs \X VertexRefs |-> IF e \in E THEN 1 ELSE 0],
                         ifaceMap |-> f]
  <2>1. GivenGraphs = {g \in {G(E, f) : E \in EdgeSets, f \in [Ifaces -> GivenVertices]} :
                          Connected(g) = GivenVertices}
    BY DEF GivenGraphs
  <2> HIDE DEF G
  <2>2. \E E \in EdgeSets, f \in [Ifaces -> GivenVertices] : source = G(E, f)
    BY <1>1, <2>1
  <2>3. QED BY <2>2 DEF G
<1>3. E \in SUBSET (GivenVertices \X GivenVertices)
  BY DEF EdgeSets
<1>4. GivenVertices \subseteq VertexRefs
  BY RefsFinite
<1> DEFINE D == [e \in VertexRefs \X VertexRefs |-> IF e \in E THEN 1 ELSE 0]
<1>5. D \in [VertexRefs \X VertexRefs -> Nat] /\ \A e \in VertexRefs \X VertexRefs : D[e] > 0 => e \in E
  OBVIOUS
<1> HIDE DEF D
<1>6. source = [vertices |-> GivenVertices, edges |-> D, ifaceMap |-> f] /\ f \in [Ifaces -> VertexRefs]
  BY <1>2, <1>4 DEF D
<1>7. source \in Graphs /\ source.vertices = GivenVertices /\ source.edges = D /\ source.ifaceMap = f
  BY <1>4, <1>5, <1>6 DEF Graphs
<1>8. GraphOK(source)
  BY <1>3, <1>5, <1>7 DEF GraphOK
<1>9. TakenInOrder
  BY <1>1, <1>7 DEF TakenInOrder, Unused
<1>10. VerticesKnown
  BY <1>1, <1>7 DEF VerticesKnown
<1>11. BehaviourKept /\ CyclesKept
  BY <1>1 DEF BehaviourKept, CyclesKept
<1>12. QED BY <1>1, <1>8, <1>9, <1>10, <1>11 DEF NetlistInv

\* The vertex the loop is at.
LEMMA MinMember ==
    ASSUME NEW T \in SUBSET Nat, T # {}
    PROVE  Min(T) \in T /\ \A x \in T : Min(T) <= x
<1>1. \E x \in T : \A y \in T : x <= y
  BY LeastNumber
<1>2. QED BY <1>1 DEF Min

\* A round of the loop keeps the invariant.
LEMMA VisitKeeps ==
    ASSUME NetlistInv, NEW v1 \in VertexRefs, Visit(v1)
    PROVE  NetlistInv'
<1> USE DEF NetlistInv
<1>1. /\ unvisited # {} /\ v1 = Min(unvisited) /\ unvisited' = unvisited \ {v1}
      /\ source' = source /\ built' = built
  BY DEF Visit
<1>2. built = FALSE /\ graph.vertices = GivenVertices
  BY <1>1 DEF VerticesKnown
<1>3. v1 \in graph.vertices
  <2>1. GivenVertices \subseteq Nat
    BY GivenAssumption
  <2>2. unvisited \in SUBSET Nat
    BY <2>1
  <2>3. QED BY <1>1, <1>2, <2>2, MinMember
<1>4. CASE LoopsBack(graph, v1)
  <2>1. graph' = graph /\ lost' = lost
    BY <1>4 DEF Visit
  <2>2. BehaviourKept' /\ CyclesKept'
    BY <1>1, <2>1 DEF BehaviourKept, CyclesKept
  <2>3. VerticesKnown' /\ TakenInOrder'
    BY <1>1, <1>2, <2>1 DEF VerticesKnown, TakenInOrder
  <2>4. QED BY <1>1, <1>2, <2>1, <2>2, <2>3
<1>5. CASE ~LoopsBack(graph, v1)
  <2>1. PICK v3s \in ChoicesOfV3(graph, v1) :
               /\ graph' = Cleared(Eaten(graph, v1, v3s), ClearedV2(graph, v1))
               /\ lost' = lost \cup LostEdges(graph, v1, v3s)
    BY <1>5 DEF Visit
  <2>2. PICK g, h : g = graph /\ h = graph' /\ GraphOK(g)
    OBVIOUS
  <2>3. PICK M, t, I :
           /\ GraphOK(h) /\ h.vertices = g.vertices
           /\ LostEdges(g, v1, v3s) = {} =>
                /\ Shortcut(g.vertices, v1, M, t, I, SourcesOf(g), SourcesOf(h))
                /\ IfacesClear(g, v1, M, t, I, h)
                /\ SoundShortcut(g, v1, M, t, I)
    <3>1. h = Cleared(Eaten(g, v1, v3s), ClearedV2(g, v1)) /\ v1 \in g.vertices /\ ~LoopsBack(g, v1)
      BY <1>3, <1>5, <2>1, <2>2
    <3>2. v3s \in ChoicesOfV3(g, v1)
      BY <2>2
    <3>3. QED BY <2>2, <3>1, <3>2, VisitFacts
  <2>4. LostEdges(g, v1, v3s) \subseteq VertexRefs \X VertexRefs
    <3>1. g.vertices \subseteq VertexRefs
      BY <2>2, VerticesFinite DEF GraphOK
    <3>2. ClearedV2(g, v1) \subseteq g.vertices
      BY DEF ClearedV2, EligibleV2, Targets
    <3>3. Range(v3s) \subseteq g.vertices
      BY <1>3, <1>5, <2>2, ChoiceFacts
    <3>4. \A c \in ClearedV2(g, v1), w \in g.vertices : <<c, w>> \in VertexRefs \X VertexRefs
      BY <3>1, <3>2
    <3>5. \A c \in Range(v3s) : <<c, c>> \in VertexRefs \X VertexRefs
      BY <3>1, <3>3
    <3>6. QED BY <3>4, <3>5 DEF LostEdges
  <2>5. ASSUME LostEdges(g, v1, v3s) = {}
        PROVE  Behaviour(h) = Behaviour(g) /\ (HasCycles(h) <=> HasCycles(g))
    BY <2>2, <2>3, <2>5, ShortcutKeepsBehaviour, ShortcutKeepsCycles
  <2>6. BehaviourKept' /\ CyclesKept'
    <3>1. lost' = {} => lost = {} /\ LostEdges(g, v1, v3s) = {}
      BY <2>1, <2>2
    <3>2. /\ BehaviourKept' <=> (lost' = {} => Behaviour(h) = Behaviour(source))
          /\ CyclesKept' <=> (lost' = {} => (HasCycles(h) <=> HasCycles(source)))
      BY <1>1, <2>2 DEF BehaviourKept, CyclesKept
    <3>3. QED BY <2>2, <2>5, <3>1, <3>2 DEF BehaviourKept, CyclesKept
  <2>7. VerticesKnown' /\ TakenInOrder'
    BY <1>1, <1>2, <2>2, <2>3 DEF VerticesKnown, TakenInOrder
  <2>8. QED BY <1>1, <1>2, <2>1, <2>2, <2>3, <2>4, <2>6, <2>7
<1>6. QED BY <1>4, <1>5

\* The end of the constructor keeps the invariant.
LEMMA FinishKeeps ==
    ASSUME NetlistInv, FinishConstruction
    PROVE  NetlistInv'
<1> USE DEF NetlistInv
<1>1. /\ built = FALSE /\ unvisited = {} /\ built' = TRUE
      /\ graph' = RemoveDisconnectedVertices(graph)
      /\ source' = source /\ unvisited' = unvisited /\ lost' = lost
  BY DEF FinishConstruction
<1>2. graph.vertices = GivenVertices
  BY <1>1 DEF VerticesKnown
<1>3. PICK g, h : g = graph /\ h = graph' /\ GraphOK(g) /\ h = RemoveDisconnectedVertices(g)
  BY <1>1
<1>4. GraphOK(h) /\ Connected(h) = h.vertices /\ h.vertices \subseteq g.vertices
  BY <1>3, RemovedFacts
<1>5. Behaviour(h) = Behaviour(g) /\ (HasCycles(h) <=> HasCycles(g))
  BY <1>3, RemovedKeeps
<1>6. BehaviourKept' /\ CyclesKept'
  BY <1>1, <1>3, <1>5 DEF BehaviourKept, CyclesKept
<1>7. VerticesKnown'
  BY <1>1, <1>3, <1>4 DEF VerticesKnown
<1>8. TakenInOrder'
  BY <1>2, <1>3, <1>4 DEF TakenInOrder, Unused
<1>9. QED BY <1>1, <1>3, <1>4, <1>6, <1>7, <1>8

\* The two free vertices a split takes.
LEMMA TwoFree ==
    ASSUME NetlistInv, NEW Fresh, Fresh = {v \in Unused : v \notin graph.vertices},
           Cardinality(Fresh) >= 2
    PROVE  /\ Min(Fresh) \in Fresh /\ Min(Fresh) + 1 \in Fresh
           /\ \A w \in Fresh : w < Min(Fresh) + 1 => w = Min(Fresh)
<1>1. VertexRefs \in SUBSET Nat /\ IsFiniteSet(VertexRefs) /\ GivenVertices = 1 .. Cardinality(GivenVertices)
      /\ Cardinality(GivenVertices) \in Nat /\ Added \in Nat
  BY RefsFinite, GivenAssumption
<1>2. PICK n, a : n = Cardinality(GivenVertices) /\ a = Added /\ n \in Nat /\ a \in Nat
                  /\ VertexRefs = 1 .. n + a /\ GivenVertices = 1 .. n
  BY <1>1 DEF VertexRefs
<1>3. Fresh \in SUBSET VertexRefs /\ Fresh \in SUBSET Nat /\ IsFiniteSet(Fresh)
  <2>1. Fresh \in SUBSET VertexRefs
    BY DEF Unused
  <2>2. QED BY <1>1, <2>1, FS_Subset
<1>4. Fresh # {}
  <2>1. Fresh = {} => Cardinality(Fresh) = 0
    BY <1>3, FS_EmptySet
  <2>2. QED BY <2>1
<1>5. PICK f : f = Min(Fresh) /\ f \in Fresh /\ \A x \in Fresh : f <= x
  BY <1>3, <1>4, MinMember
<1>6. PICK x \in Fresh : x # f
  <2>1. ASSUME Fresh = {f} PROVE FALSE
    <3>1. Cardinality({f}) = 1
      BY FS_Singleton
    <3>2. Cardinality(Fresh) = 1
      BY <2>1, <3>1
    <3>3. QED BY <3>2
  <2>2. QED BY <1>5, <2>1
<1>7. f \in Nat /\ x \in Nat /\ f + 1 <= x /\ x \in 1 .. n + a /\ f \in Unused /\ f \notin 1 .. n
  <2>1. f \in Nat /\ x \in Nat /\ f <= x /\ x \in 1 .. n + a
    BY <1>2, <1>3, <1>5
  <2>2. f \in Unused /\ f \notin 1 .. n
    BY <1>2, <1>5 DEF Unused
  <2>3. QED BY <1>6, <2>1, <2>2
<1>8. f >= 1
  <2>1. f \in 1 .. n + a
    BY <1>2, <1>3, <1>5
  <2>2. QED BY <2>1
<1>9. f + 1 \in Unused
  <2>1. f + 1 \in 1 .. n + a /\ f + 1 \notin 1 .. n
    BY <1>2, <1>7, <1>8
  <2>2. QED BY <1>2, <2>1 DEF Unused
<1>10. f + 1 \notin graph.vertices
  <2> SUFFICES ASSUME f + 1 \in graph.vertices PROVE FALSE
    OBVIOUS
  <2>1. f < f + 1
    BY <1>7
  <2>2. f \in graph.vertices
    BY <1>7, <1>9, <2>1 DEF NetlistInv, TakenInOrder
  <2>3. QED BY <1>5, <2>2
<1>11. f + 1 \in Fresh
  BY <1>9, <1>10
<1>12. \A w \in Fresh : w < f + 1 => w = f
  BY <1>3, <1>5, <1>7
<1>13. QED BY <1>5, <1>11, <1>12

\* A split keeps the invariant.
LEMMA SplitKeepsInv ==
    ASSUME NetlistInv, NEW vertex \in VertexRefs, Split(vertex)
    PROVE  NetlistInv'
<1> USE DEF NetlistInv
<1>1. PICK Fresh : Fresh = {v \in Unused : v \notin graph.vertices}
  OBVIOUS
<1>2. /\ built /\ vertex \in graph.vertices
      /\ Cardinality(Fresh) >= 2
      /\ source' = graph
      /\ graph' = VerticalSplitVertex(graph, vertex, Min(Fresh), Min(Fresh) + 1)
      /\ lost' = {} /\ unvisited' = unvisited /\ built' = built
  BY <1>1 DEF Split
<1>3. PICK f, o : f = Min(Fresh) /\ o = Min(Fresh) + 1 /\ f \in Fresh /\ o \in Fresh
                  /\ \A w \in Fresh : w < o => w = f
  <2> HIDE DEF NetlistInv
  <2>1. /\ Min(Fresh) \in Fresh /\ Min(Fresh) + 1 \in Fresh
        /\ \A w \in Fresh : w < Min(Fresh) + 1 => w = Min(Fresh)
    BY <1>1, <1>2, TwoFree
  <2>2. QED BY <2>1
<1>4. /\ f \in VertexRefs /\ o \in VertexRefs /\ f \in Unused /\ o \in Unused
      /\ f \notin graph.vertices /\ o \notin graph.vertices /\ f # o /\ f \in Nat /\ o = f + 1
  <2>1. VertexRefs \subseteq Nat
    BY RefsFinite
  <2>2. f \in VertexRefs /\ o \in VertexRefs /\ f \in Unused /\ o \in Unused
        /\ f \notin graph.vertices /\ o \notin graph.vertices
    BY <1>1, <1>3 DEF Unused
  <2>3. f \in Nat /\ o = f + 1
    BY <1>3, <2>1, <2>2
  <2>4. QED BY <2>2, <2>3
<1>5. PICK g, h : g = graph /\ h = graph' /\ GraphOK(g)
  OBVIOUS
<1>6. GraphOK(h) /\ IsSplit(g, vertex, f, o, h)
  BY <1>2, <1>3, <1>4, <1>5, SplitFacts
<1>7. Behaviour(h) = Behaviour(g) /\ (HasCycles(h) <=> HasCycles(g))
  BY <1>2, <1>4, <1>5, <1>6, SplitKeeps
<1>8. BehaviourKept' /\ CyclesKept'
  BY <1>2, <1>5, <1>7 DEF BehaviourKept, CyclesKept
<1>9. h.vertices = g.vertices \cup {f, o}
  BY <1>6 DEF IsSplit
<1>10. TakenInOrder'
  <2>1. ASSUME NEW v \in h.vertices, v \in Unused, NEW w \in Unused, w < v PROVE w \in h.vertices
    <3>1. CASE v \in g.vertices
      BY <1>5, <1>9, <2>1, <3>1 DEF TakenInOrder
    <3>2. ASSUME v \notin g.vertices, w \notin g.vertices PROVE w \in h.vertices
      <4>1. v = f \/ v = o
        BY <1>9, <3>2
      <4>2. w \in Fresh /\ w \in Nat
        BY <1>1, <1>5, <3>2, RefsFinite DEF Unused
      <4>3. w < o
        BY <1>4, <2>1, <4>1, <4>2
      <4>4. QED BY <1>3, <1>9, <4>2, <4>3
    <3>3. QED BY <1>9, <3>1, <3>2
  <2>2. QED BY <1>5, <2>1 DEF TakenInOrder, Unused
<1>11. Connected(h) = h.vertices
  <2>0. /\ \A u \in h.vertices : u \in Sources(h, f) <=> u = vertex
        /\ \A u \in h.vertices : u \in Sources(h, o) <=> u = f
        /\ \A u \in h.vertices : \A w \in g.vertices :
              u \in Sources(h, w) <=> \/ u = o /\ vertex \in Sources(g, w)
                                      \/ u # vertex /\ u \in Sources(g, w)
        /\ \A i \in Ifaces : h.ifaceMap[i] = IF i \in OutIfaces /\ g.ifaceMap[i] = vertex THEN o ELSE g.ifaceMap[i]
    BY <1>6 DEF IsSplit
  <2>1. \A u, w \in h.vertices : u \in Sources(h, w) => Sources(h, w) # {} /\ Targets(h, u) # {}
    BY DEF Sources, Targets
  <2>2. vertex \in h.vertices /\ f \in h.vertices /\ o \in h.vertices
    BY <1>2, <1>5, <1>9
  <2>3. \A w \in {vertex, f, o} : w \in Connected(h)
    BY <2>0, <2>1, <2>2 DEF Connected
  <2>4. ASSUME NEW w \in g.vertices, w # vertex PROVE w \in Connected(h)
    <3>1. w \in Connected(g) /\ w \in h.vertices
      BY <1>2, <1>5, <1>9 DEF VerticesKnown
    <3>2. CASE IfacesAt(g, w, Ifaces) # {}
      <4>1. IfacesAt(h, w, Ifaces) # {}
        BY <2>0, <2>4, <3>2 DEF IfacesAt
      <4>2. QED BY <3>1, <4>1 DEF Connected
    <3>3. CASE Sources(g, w) # {}
      <4>1. PICK u \in g.vertices : u \in Sources(g, w)
        BY <3>3 DEF Sources
      <4>2. u \in h.vertices
        BY <1>9
      <4>3. u \in Sources(h, w) \/ o \in Sources(h, w)
        BY <2>0, <2>2, <4>1, <4>2
      <4>4. QED BY <2>1, <2>2, <3>1, <4>2, <4>3 DEF Connected
    <3>4. CASE Targets(g, w) # {}
      <4>1. PICK x \in g.vertices : w \in Sources(g, x)
        BY <3>4 DEF Targets, Sources
      <4>2. x \in h.vertices /\ w \in Sources(h, x)
        BY <1>9, <2>0, <2>4, <3>1, <4>1
      <4>3. QED BY <2>1, <3>1, <4>2 DEF Connected
    <3>5. QED BY <3>1, <3>2, <3>3, <3>4 DEF Connected
  <2>5. \A w \in h.vertices : w \in Connected(h)
    BY <1>9, <2>3, <2>4
  <2>6. QED BY <2>5 DEF Connected
<1>12. VerticesKnown'
  BY <1>2, <1>5, <1>11 DEF VerticesKnown
<1>13. lost' \subseteq VertexRefs \X VertexRefs
  BY <1>2
<1>14. QED BY <1>2, <1>5, <1>6, <1>8, <1>10, <1>12, <1>13

-----------------------------------------------------------------------------
(* The theorems                                                             *)

\* The invariant holds in every state.
THEOREM NetlistInvariance == Spec => []NetlistInv
<1>1. Init => NetlistInv
  BY InitNetlist
<1>2. NetlistInv /\ [Next]_vars => NetlistInv'
  <2> SUFFICES ASSUME NetlistInv, [Next]_vars PROVE NetlistInv'
    OBVIOUS
  <2>1. ASSUME NEW v \in VertexRefs, Visit(v) PROVE NetlistInv'
    BY <2>1, VisitKeeps
  <2>2. ASSUME NEW v \in VertexRefs, Split(v) PROVE NetlistInv'
    BY <2>2, SplitKeepsInv
  <2>3. CASE FinishConstruction
    BY <2>3, FinishKeeps
  <2>4. CASE UNCHANGED vars
    BY <2>4 DEF vars, NetlistInv, VerticesKnown, TakenInOrder, BehaviourKept, CyclesKept
  <2>5. QED BY <2>1, <2>2, <2>3, <2>4 DEF Next
<1>3. QED BY <1>1, <1>2, PTL DEF Spec

\* Every state of the constructor and of splitting is a graph whose interfaces and
\* inverters are at vertices it has (Netlist's ifaceMap_ and graph_), and a finished
\* netlist has no disconnected vertex.
THEOREM NetlistsAreGraphs == Spec => []TypeOK
<1>1. NetlistInv => TypeOK
  <2>1. ASSUME NEW g, GraphOK(g)
        PROVE  /\ g \in Graphs
               /\ \A i \in Ifaces : g.ifaceMap[i] \in g.vertices
               /\ \A e \in DOMAIN g.edges : g.edges[e] > 0 => e \in g.vertices \X g.vertices
    <3>1. DOMAIN g.edges = VertexRefs \X VertexRefs
      BY <2>1, VerticesFinite DEF GraphOK
    <3>2. QED BY <2>1, <3>1 DEF GraphOK
  <2>2. QED BY <2>1 DEF NetlistInv, TypeOK, VerticesKnown
<1>2. QED BY <1>1, NetlistInvariance, PTL

\* Whatever pairs of inverters removeUnnecessaryOneways takes out before and whatever
\* vertices are split, the netlist computes what it did while no inverter was lost.
THEOREM BehaviourIsAlwaysKept == Spec => []BehaviourKept
<1>1. NetlistInv => BehaviourKept
  BY DEF NetlistInv
<1>2. QED BY <1>1, NetlistInvariance, PTL

\* And it has feedback then if and only if it had.
THEOREM CyclesAreAlwaysKept == Spec => []CyclesKept
<1>1. NetlistInv => CyclesKept
  BY DEF NetlistInv
<1>2. QED BY <1>1, NetlistInvariance, PTL
=============================================================================
