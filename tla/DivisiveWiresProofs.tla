------------------------ MODULE DivisiveWiresProofs ------------------------
(***************************************************************************)
(* Proofs about the channel router for any number of wires, crossers and   *)
(* columns.  The inductive invariant joins the properties whose proofs     *)
(* need each other: a crossing keeps less_ a strict partial order because  *)
(* mayBeCrossed consulted it, and every column stays ordered because no    *)
(* side has two crossers in one column.                                    *)
(***************************************************************************)
EXTENDS DivisiveWires, Minima, SequenceTheorems

IInv == TypeOK /\ ColumnsExclusive /\ StrictPartialOrder /\ ColumnsOrdered

-----------------------------------------------------------------------------
(* makeLess                                                                 *)

\* Which pairs the two loops of makeLess put into the matrix, provided it was a
\* transitively closed relation between wires.
LEMMA ClosureMembers ==
    ASSUME NEW rel \in SUBSET (Wires \X Wires), NEW le \in Wires, NEW gr \in Wires,
           le # gr, <<gr, le>> \notin rel,
           \A w \in Wires : <<w, w>> \notin rel,
           NEW x \in Wires, NEW y \in Wires
    PROVE  <<x, y>> \in ExtendClosure(rel, le, gr)
              <=> \/ <<x, y>> \in rel
                  \/ (x = le \/ <<x, le>> \in rel) /\ (y = gr \/ <<gr, y>> \in rel)
  <1>1. <<x, y>> \in Borders(rel, le, gr)
           <=> \/ <<x, y>> \in rel
               \/ x = le /\ y = gr
               \/ y = gr /\ <<x, le>> \in rel
               \/ x = le /\ <<gr, y>> \in rel
    BY DEF Borders
  <1>2. <<x, le>> \in Borders(rel, le, gr) <=> <<x, le>> \in rel
    BY DEF Borders
  <1>3. <<gr, y>> \in Borders(rel, le, gr) <=> <<gr, y>> \in rel
    BY DEF Borders
  <1> QED
    BY <1>1, <1>2, <1>3 DEF ExtendClosure

\* makeLess keeps the matrix inside the wires' indices.
LEMMA ClosureType ==
    ASSUME NEW rel \in SUBSET (Wires \X Wires), NEW le \in Wires, NEW gr \in Wires
    PROVE  /\ ExtendClosure(rel, le, gr) \in SUBSET (Wires \X Wires)
           /\ rel \subseteq ExtendClosure(rel, le, gr)
           /\ <<le, gr>> \in ExtendClosure(rel, le, gr)
  <1> DEFINE direct == rel \cup {<<le, gr>>}
  <1>1. Borders(rel, le, gr) \subseteq Wires \X Wires
    <2>1. direct \subseteq Wires \X Wires
      OBVIOUS
    <2>2. ASSUME NEW e \in Borders(rel, le, gr) PROVE e \in Wires \X Wires
      <3>1. \/ e \in direct
            \/ \E i \in Wires : e = <<i, gr>> \/ e = <<le, i>>
        BY DEF Borders
      <3> QED
        BY <2>1, <3>1
    <2> QED
      BY <2>2
  <1>2. rel \subseteq Borders(rel, le, gr) /\ <<le, gr>> \in Borders(rel, le, gr)
    BY DEF Borders
  <1> QED
    BY <1>1, <1>2 DEF ExtendClosure

\* makeLess turns a strict partial order into a strict partial order, unless
\* the opposite pair was already ordered.
LEMMA ClosureKeepsOrder ==
    ASSUME NEW rel \in SUBSET (Wires \X Wires), NEW le \in Wires, NEW gr \in Wires,
           le # gr, <<gr, le>> \notin rel,
           \A w \in Wires : <<w, w>> \notin rel,
           \A u, v, w \in Wires : <<u, v>> \in rel /\ <<v, w>> \in rel => <<u, w>> \in rel
    PROVE  LET new == ExtendClosure(rel, le, gr)
           IN  /\ \A w \in Wires : <<w, w>> \notin new
               /\ \A u, v, w \in Wires : <<u, v>> \in new /\ <<v, w>> \in new => <<u, w>> \in new
  <1> DEFINE Down(x) == x = le \/ <<x, le>> \in rel
             Up(y)   == y = gr \/ <<gr, y>> \in rel
  <1>1. ASSUME NEW x \in Wires, NEW y \in Wires
        PROVE  <<x, y>> \in ExtendClosure(rel, le, gr) <=> <<x, y>> \in rel \/ (Down(x) /\ Up(y))
    BY ClosureMembers, SMTT(60)
  <1>2. \A w \in Wires : ~(Down(w) /\ Up(w))
    OBVIOUS
  <1>3. \A u, v \in Wires : <<u, v>> \in rel /\ Down(v) => Down(u)
    OBVIOUS
  <1>4. \A v, w \in Wires : Up(v) /\ <<v, w>> \in rel => Up(w)
    OBVIOUS
  <1> HIDE DEF Down, Up
  <1>5. \A w \in Wires : <<w, w>> \notin ExtendClosure(rel, le, gr)
    BY <1>1, <1>2
  <1>6. ASSUME NEW u \in Wires, NEW v \in Wires, NEW w \in Wires,
               <<u, v>> \in ExtendClosure(rel, le, gr),
               <<v, w>> \in ExtendClosure(rel, le, gr)
        PROVE  <<u, w>> \in ExtendClosure(rel, le, gr)
    BY <1>1, <1>2, <1>3, <1>4, <1>6
  <1> QED
    BY <1>5, <1>6

-----------------------------------------------------------------------------
(* Placing a crosser                                                        *)

\* A wire connected at a column is the liaison of a crosser that is there.
LEMMA ConnectedWires ==
    ASSUME TypeOK, NEW c \in Crossers, NEW col \in Columns,
           NEW w \in Connected(OppositeSide(c), col)
    PROVE  w \in Wires /\ \E d \in OppositeSide(c) : pos[d] = col /\ Liaison[d] = w
  BY CrossersAssumption DEF Connected, CrosserAt, OppositeSide, FromAbove

\* What tryInsertCrosser does to less_: nothing, or one makeLess whose operands
\* are the wires of the two crossers that meet, the lower one first, and whose
\* opposite was not in the relation.
LEMMA InsertRelation ==
    ASSUME TypeOK, NEW c \in Crossers, NEW col \in Columns, TryInsertCrosser(c, col)
    PROVE  \/ /\ Connected(OppositeSide(c), col) \subseteq {Liaison[c]}
              /\ less' = less
              /\ predecessors' = predecessors
              /\ numSuccessors' = numSuccessors
           \/ \E d \in OppositeSide(c) :
                /\ pos[d] = col
                /\ Liaison[d] # Liaison[c]
                /\ LET le == IF c \in FromBelow THEN Liaison[c] ELSE Liaison[d]
                       gr == IF c \in FromBelow THEN Liaison[d] ELSE Liaison[c]
                   IN  <<gr, le>> \notin less /\ MakeLess(le, gr, col)
  <1> DEFINE others == Connected(OppositeSide(c), col) \ {Liaison[c]}
  <1>1. CASE others = {}
    <2>1. ~\E counterpart \in others :
              IF c \in FromBelow THEN MakeLess(Liaison[c], counterpart, col)
                                 ELSE MakeLess(counterpart, Liaison[c], col)
      BY <1>1
    <2> QED
      BY <1>1, <2>1 DEF TryInsertCrosser, ExtendRelation
  <1>2. CASE others # {}
    <2>1. PICK w \in others :
              IF c \in FromBelow THEN MakeLess(Liaison[c], w, col)
                                 ELSE MakeLess(w, Liaison[c], col)
      BY <1>2 DEF TryInsertCrosser, ExtendRelation
    <2>2. PICK d \in OppositeSide(c) : pos[d] = col /\ Liaison[d] = w
      BY ConnectedWires
    <2>3. ~Contradicts(c, w)
      BY DEF TryInsertCrosser, MayBeCrossed
    <2> QED
      BY <2>1, <2>2, <2>3 DEF Contradicts
  <1> QED
    BY <1>1, <1>2

\* The crossers of one side keep their columns to themselves.
LEMMA InsertExclusive ==
    ASSUME TypeOK, ColumnsExclusive, NEW c \in Crossers, NEW col \in Columns,
           TryInsertCrosser(c, col)
    PROVE  ColumnsExclusive'
  <1>1. \A d \in Crossers : SameSide(c, d) => pos[d] # col
    BY DEF TryInsertCrosser, MayBeCrossed, CrosserAt, OwnSide, SameSide, FromAbove
  <1>2. \A d \in Crossers : pos'[d] = IF d = c THEN col ELSE pos[d]
    BY DEF TryInsertCrosser, TypeOK
  <1> QED
    BY <1>1, <1>2 DEF ColumnsExclusive, SameSide

\* The relation stays a strict partial order of wires.
LEMMA InsertOrder ==
    ASSUME IInv, NEW c \in Crossers, NEW col \in Columns, TryInsertCrosser(c, col)
    PROVE  /\ less' \subseteq Wires \X Wires
           /\ less \subseteq less'
           /\ StrictPartialOrder'
  <1>1. CASE less' = less
    BY <1>1 DEF IInv, TypeOK, StrictPartialOrder
  <1>2. ASSUME NEW d \in OppositeSide(c), Liaison[d] # Liaison[c],
               NEW le \in Wires, NEW gr \in Wires, le # gr,
               <<gr, le>> \notin less, MakeLess(le, gr, col)
        PROVE  /\ less' \subseteq Wires \X Wires
               /\ less \subseteq less'
               /\ StrictPartialOrder'
    <2>1. less' = ExtendClosure(less, le, gr)
      BY <1>2 DEF MakeLess
    <2> QED
      BY <1>2, <2>1, ClosureType, ClosureKeepsOrder DEF IInv, TypeOK, StrictPartialOrder
  <1>3. \A d \in OppositeSide(c) : Liaison[d] \in Wires
    BY CrossersAssumption DEF OppositeSide, FromAbove
  <1> QED
    BY <1>1, <1>2, <1>3, InsertRelation, CrossersAssumption DEF IInv

\* Every column in which two wires meet stays ordered.  The crosser that comes
\* second meets only one other, since the opposite side is exclusive.
LEMMA InsertColumns ==
    ASSUME IInv, NEW c \in Crossers, NEW col \in Columns, TryInsertCrosser(c, col)
    PROVE  ColumnsOrdered'
  <1> SUFFICES ASSUME NEW b \in FromBelow, NEW a \in FromAbove,
                      pos'[b] # NoColumn, pos'[b] = pos'[a], Liaison[b] # Liaison[a]
               PROVE  <<Liaison[b], Liaison[a]>> \in less'
    BY DEF ColumnsOrdered, ColumnPairs
  <1>1. b \in Crossers /\ a \in Crossers /\ b # a
    BY CrossersAssumption DEF FromAbove
  <1>2. \A d \in Crossers : pos'[d] = IF d = c THEN col ELSE pos[d]
    BY DEF TryInsertCrosser, IInv, TypeOK
  <1>3. Liaison[b] \in Wires /\ Liaison[a] \in Wires /\ Liaison[c] \in Wires
    BY <1>1, CrossersAssumption
  <1>4. less \subseteq less'
    BY InsertOrder
  <1>5. CASE b # c /\ a # c
    BY <1>1, <1>2, <1>3, <1>4, <1>5 DEF IInv, ColumnsOrdered, ColumnPairs
  <1>6. ASSUME NEW d \in Crossers, (c = b /\ d = a) \/ (c = a /\ d = b)
        PROVE  <<Liaison[b], Liaison[a]>> \in less'
    <2>1. d \in OppositeSide(c) /\ pos[d] = col /\ d # c
      BY <1>1, <1>2, <1>6 DEF OppositeSide, FromAbove
    <2>2. Liaison[d] \in Connected(OppositeSide(c), col) /\ Liaison[d] # Liaison[c]
      BY <1>6, <2>1 DEF Connected, CrosserAt
    <2>3. PICK e \in OppositeSide(c) :
             /\ pos[e] = col
             /\ LET le == IF c \in FromBelow THEN Liaison[c] ELSE Liaison[e]
                    gr == IF c \in FromBelow THEN Liaison[e] ELSE Liaison[c]
                IN  MakeLess(le, gr, col)
      BY <2>2, InsertRelation DEF IInv
    <2>4. e = d
      <3>1. e \in Crossers /\ SameSide(e, d)
        BY <2>1, CrossersAssumption DEF OppositeSide, FromAbove, SameSide
      <3> QED
        BY <2>1, <2>3, <3>1, ColumnsAssumption DEF IInv, ColumnsExclusive
    <2>5. MakeLess(Liaison[b], Liaison[a], col)
      BY <1>1, <1>6, <2>3, <2>4 DEF FromAbove
    <2> QED
      BY <1>3, <2>5, ClosureType DEF MakeLess, IInv, TypeOK
  <1>7. CASE b = c
    <2>1. (c = b /\ a = a) \/ (c = a /\ a = b)
      BY <1>7
    <2> QED
      BY <1>1, <1>6, <2>1, Zenon
  <1>8. CASE a = c
    <2>1. (c = b /\ b = a) \/ (c = a /\ b = b)
      BY <1>8
    <2> QED
      BY <1>1, <1>6, <2>1, Zenon
  <1> QED
    BY <1>5, <1>7, <1>8

-----------------------------------------------------------------------------
(* The invariant                                                            *)

\* An empty channel satisfies the invariant.
LEMMA InitIInv == Init => IInv
  BY CrossersAssumption, ColumnsAssumption, NumWiresAssumption
  DEF Init, IInv, TypeOK, ColumnsExclusive, StrictPartialOrder, ColumnsOrdered, ColumnPairs, Wires

\* A predecessor list is finite, so that releasing it yields numbers.
LEMMA ReleaseType ==
    ASSUME TypeOK, NEW w \in Wires
    PROVE  ReleasePredecessors(w) \in [Wires -> Int]
  <1>1. ASSUME NEW p \in Wires
        PROVE  Cardinality({e \in predecessors[w] : e[1] = p}) \in Nat
    <2>1. IsFiniteSet(Wires)
      BY NumWiresAssumption, FS_Interval DEF Wires
    <2>2. IsFiniteSet(Wires \X Columns)
      BY <2>1, ColumnsAssumption, FS_Product
    <2>3. {e \in predecessors[w] : e[1] = p} \in SUBSET (Wires \X Columns)
      BY DEF TypeOK
    <2> QED
      BY <2>2, <2>3, FS_Subset, FS_CardinalityType
  <1>2. ASSUME NEW p \in Wires, NEW n \in Nat PROVE remainingSucc[p] - n \in Int
    BY DEF TypeOK
  <1>3. \A p \in Wires :
           remainingSucc[p] - Cardinality({e \in predecessors[w] : e[1] = p}) \in Int
    BY <1>1, <1>2
  <1> QED
    BY <1>3 DEF ReleasePredecessors

\* tryInsertCrosser keeps the types of everything it changes.
LEMMA InsertType ==
    ASSUME IInv, NEW c \in Crossers, NEW col \in Columns, TryInsertCrosser(c, col)
    PROVE  TypeOK'
  <1> USE DEF IInv, TypeOK
  <1>1. pos' \in [Crossers -> Columns \cup {NoColumn}]
    BY DEF TryInsertCrosser
  <1>2. less' \subseteq Wires \X Wires
    BY InsertOrder
  <1>3. /\ predecessors' \in [Wires -> SUBSET (Wires \X Columns)]
        /\ numSuccessors' \in [Wires -> Nat]
    <2>1. ASSUME NEW le \in Wires, NEW gr \in Wires, MakeLess(le, gr, col)
          PROVE  /\ predecessors' \in [Wires -> SUBSET (Wires \X Columns)]
                 /\ numSuccessors' \in [Wires -> Nat]
      BY <2>1 DEF MakeLess
    <2>2. CASE predecessors' = predecessors /\ numSuccessors' = numSuccessors
      BY <2>2
    <2>3. ASSUME NEW d \in OppositeSide(c), NEW le, NEW gr, MakeLess(le, gr, col),
                 le = (IF c \in FromBelow THEN Liaison[c] ELSE Liaison[d]),
                 gr = (IF c \in FromBelow THEN Liaison[d] ELSE Liaison[c])
          PROVE  /\ predecessors' \in [Wires -> SUBSET (Wires \X Columns)]
                 /\ numSuccessors' \in [Wires -> Nat]
      <3>1. le \in Wires /\ gr \in Wires
        BY <2>3, CrossersAssumption DEF OppositeSide, FromAbove
      <3> QED
        BY <2>1, <2>3, <3>1
    <2>4. \/ predecessors' = predecessors /\ numSuccessors' = numSuccessors
          \/ \E d \in OppositeSide(c) :
                MakeLess(IF c \in FromBelow THEN Liaison[c] ELSE Liaison[d],
                         IF c \in FromBelow THEN Liaison[d] ELSE Liaison[c], col)
      BY InsertRelation
    <2> QED
      BY <2>2, <2>3, <2>4
  <1> QED
    BY <1>1, <1>2, <1>3 DEF TryInsertCrosser

\* The rows that computePositions assigns are numbers.
LEMMA RowsType == ASSUME TypeOK PROVE RowsInOrder \in [Wires -> Nat]
  <1>1. ASSUME NEW w \in Wires, w \in Ordered
        PROVE  2 * ((CHOOSE i \in 1 .. Len(order) : order[i] = w) - 1) \in Nat
    <2>1. \E i \in 1 .. Len(order) : order[i] = w
      BY <1>1 DEF Ordered
    <2>2. PICK k : k = CHOOSE i \in 1 .. Len(order) : order[i] = w
      OBVIOUS
    <2>3. k \in 1 .. Len(order)
      BY <2>1, <2>2
    <2>4. 2 * (k - 1) \in Nat
      BY ONLY <2>3
    <2> QED
      BY ONLY <2>2, <2>4
  <1> QED
    BY <1>1 DEF RowsInOrder, TypeOK

\* computePositions leaves the relation and the columns alone.
LEMMA StepUnplaced ==
    ASSUME IInv, UNCHANGED placed
    PROVE  ColumnsExclusive' /\ StrictPartialOrder' /\ ColumnsOrdered'
  BY DEF IInv, placed, ColumnsExclusive, StrictPartialOrder, ColumnsOrdered, ColumnPairs

\* Every step of the router keeps the invariant.
LEMMA NextIInv == IInv /\ [Next]_vars => IInv'
  <1> SUFFICES ASSUME IInv, [Next]_vars PROVE IInv'
    OBVIOUS
  <1>1. ASSUME NEW c \in Crossers, NEW col \in Columns, TryInsertCrosser(c, col)
        PROVE  IInv'
    BY <1>1, InsertType, InsertExclusive, InsertOrder, InsertColumns DEF IInv
  <1>2. CASE ComputePositions
    <2>1. TypeOK'
      BY <1>2 DEF ComputePositions, IInv, TypeOK, placed
    <2> QED
      BY <1>2, <2>1, StepUnplaced DEF ComputePositions, IInv
  <1>3. ASSUME NEW w \in Wires, TakeGreatest(w) PROVE IInv'
    <2>1. order' \in Seq(Wires)
      BY <1>3 DEF TakeGreatest, IInv, TypeOK
    <2>2. remainingSucc' \in [Wires -> Int]
      BY <1>3, ReleaseType DEF TakeGreatest, IInv
    <2>3. TypeOK'
      BY <1>3, <2>1, <2>2 DEF TakeGreatest, IInv, TypeOK, placed
    <2> QED
      BY <1>3, <2>3, StepUnplaced DEF TakeGreatest, IInv
  <1>4. CASE AssignRows
    <2>1. TypeOK'
      BY <1>4, RowsType DEF AssignRows, IInv, TypeOK, placed
    <2> QED
      BY <1>4, <2>1, StepUnplaced DEF AssignRows, IInv
  <1>5. CASE DropNext
    <2>1. ASSUME NEW w \in Wires, NEW row \in LandingRow(w) PROVE row \in Nat
      BY DEF LandingRow, EvenRows, IInv, TypeOK
    <2>2. order[next] \in Wires
      BY <1>5 DEF DropNext, IInv, TypeOK
    <2>3. PICK row \in LandingRow(order[next]) :
             relpos' = [relpos EXCEPT ![order[next]] = row]
      BY <1>5 DEF DropNext
    <2>4. row \in Nat
      BY <2>1, <2>2
    <2>5. relpos' \in [Wires -> Nat]
      BY <2>3, <2>4 DEF IInv, TypeOK
    <2>6. next' \in Nat \ {0}
      BY <1>5 DEF DropNext, IInv, TypeOK
    <2>7. TypeOK'
      BY <1>5, <2>5, <2>6 DEF DropNext, IInv, TypeOK, placed
    <2> QED
      BY <1>5, <2>7, StepUnplaced DEF DropNext, IInv
  <1>6. CASE Finish
    <2>1. TypeOK'
      BY <1>6 DEF Finish, IInv, TypeOK, placed
    <2> QED
      BY <1>6, <2>1, StepUnplaced DEF Finish, IInv
  <1>7. CASE UNCHANGED vars
    <2>1. TypeOK'
      BY <1>7 DEF IInv, TypeOK, vars
    <2> QED
      BY <1>7, <2>1, StepUnplaced DEF vars, placed, IInv
  <1> QED
    BY <1>1, <1>2, <1>3, <1>4, <1>5, <1>6, <1>7 DEF Next, Terminated

\* IInv is an invariant of the router, for any channel.
THEOREM Invariance == Spec => []IInv
  BY InitIInv, NextIInv, PTL DEF Spec

\* The router's variables keep their types: every index in the matrix and in the
\* predecessor lists is a wire's, every row a number.
THEOREM TypeCorrect == Spec => []TypeOK
  BY Invariance, PTL DEF IInv

\* Whatever crossers arrive in whatever columns and order, less_ is a strict
\* partial order: checkStrictPartialOrdering never fails, and a topological
\* order of the wires exists.
THEOREM OrderIsStrict == Spec => []StrictPartialOrder
  BY Invariance, PTL DEF IInv

\* In every column with two crossers of different nets the lower one's wire is
\* ordered below the upper one's.
THEOREM ColumnsAreOrdered == Spec => []ColumnsOrdered
  BY Invariance, PTL DEF IInv

-----------------------------------------------------------------------------
(***************************************************************************)
(* ascendingOrder, the topological sort.  It counts: a wire is taken when  *)
(* the number of its successors that have not been taken is zero, and      *)
(* taking a wire decrements the count of each entry of its predecessor     *)
(* list.  The invariant says what the counts are worth, namely the number  *)
(* of entries that still stand in the lists of wires not taken, and ties   *)
(* less_, which these lists generate, to the places in the order.          *)
(***************************************************************************)

\* The entries for wire p in the predecessor lists of the wires in S.
Entries(p, S) == {e \in S \X Columns : <<p, e[2]>> \in predecessors[e[1]]}

\* Who is listed as somebody's predecessor.
Listed(p, w) == \E col \in Columns : <<p, col>> \in predecessors[w]

Transitive(R) ==
    \A u, v, w \in Wires : <<u, v>> \in R /\ <<v, w>> \in R => <<u, w>> \in R

\* An entry of a predecessor list stands for two crossers that meet there.
EntriesMeet ==
    \A w \in Wires : \A e \in predecessors[w] :
        \E b \in FromBelow, a \in FromAbove :
            /\ pos[b] = e[2]
            /\ pos[a] = e[2]
            /\ Liaison[b] = e[1]
            /\ Liaison[a] = w
            /\ Liaison[b] # Liaison[a]

\* less_ is the smallest transitive relation that holds the listed pairs.
LessIsGenerated ==
    \A R \in SUBSET (Wires \X Wires) :
        Transitive(R) /\ (\A p, w \in Wires : Listed(p, w) => <<p, w>> \in R)
        => less \subseteq R

\* numSuccessors_ counts the entries of a wire in all lists.
SuccessorsCounted ==
    \A p \in Wires : numSuccessors[p] = Cardinality(Entries(p, Wires))

\* The counts of ascendingOrder: the entries in the lists of wires not taken.
RemainingCounted ==
    phase # "place" =>
        \A p \in Wires : remainingSucc[p] = Cardinality(Entries(p, Wires \ Ordered))

TakenOnce == \A i, j \in 1 .. Len(order) : order[i] = order[j] => i = j

\* The greater wires of a wire in the order stand behind it.
GreaterBehind ==
    \A i \in 1 .. Len(order), v \in Wires :
        <<order[i], v>> \in less => \E j \in i + 1 .. Len(order) : order[j] = v

PhasesFollow ==
    /\ phase = "place" => order = <<>> /\ next = 1
    /\ phase # "place" => \A c \in Crossers : pos[c] # NoColumn
    /\ phase \in {"drop", "done"} => Ordered = Wires

OInv ==
    /\ EntriesMeet
    /\ LessIsGenerated
    /\ SuccessorsCounted
    /\ RemainingCounted
    /\ TakenOnce
    /\ GreaterBehind
    /\ PhasesFollow

-----------------------------------------------------------------------------
(* Entries                                                                  *)

\* There are as many wires as their number says.
LEMMA WiresFinite == IsFiniteSet(Wires) /\ Cardinality(Wires) = NumWires
  <1>1. 0 \in Int /\ NumWires - 1 \in Int /\ NumWires \in Nat
    BY NumWiresAssumption
  <1> QED
    BY <1>1, FS_Interval DEF Wires

\* Finitely many entries of a predecessor list belong to a set of wires.
LEMMA EntriesFinite ==
    ASSUME NEW p, NEW S \in SUBSET Wires
    PROVE  IsFiniteSet(Entries(p, S)) /\ Cardinality(Entries(p, S)) \in Nat
  <1>1. IsFiniteSet(S \X Columns)
    BY WiresFinite, ColumnsAssumption, FS_Subset, FS_Product
  <1>2. Entries(p, S) \in SUBSET (S \X Columns)
    BY DEF Entries
  <1> QED
    BY <1>1, <1>2, FS_Subset, FS_CardinalityType

\* Taking wire w out of S removes as many of p's entries as stand in w's list.
LEMMA EntriesWithout ==
    ASSUME TypeOK, NEW p \in Wires, NEW S \in SUBSET Wires, NEW w \in S
    PROVE  Cardinality(Entries(p, S \ {w}))
              = Cardinality(Entries(p, S)) - Cardinality({e \in predecessors[w] : e[1] = p})
  <1> DEFINE List == {e \in predecessors[w] : e[1] = p}
             f == [e \in List |-> <<w, e[2]>>]
  <1>1. w \in Wires /\ S \ {w} \in SUBSET Wires
    OBVIOUS
  <1>2. \A e \in List : e = <<p, e[2]>> /\ e[2] \in Columns
    BY <1>1 DEF TypeOK
  <1>3. f \in Bijection(List, Entries(p, {w}))
    <2>1. f \in [List -> Entries(p, {w})]
      <3>1. ASSUME NEW e \in List PROVE <<w, e[2]>> \in Entries(p, {w})
        BY <1>2 DEF Entries
      <3> QED
        BY <3>1
    <2>2. \A d, e \in List : f[d] = f[e] => d = e
      BY <1>2
    <2>3. ASSUME NEW x \in Entries(p, {w}) PROVE \E e \in List : f[e] = x
      <3>1. x = <<w, x[2]>> /\ <<p, x[2]>> \in List
        BY DEF Entries
      <3> QED
        BY <3>1
    <2> QED
      BY <2>1, <2>2, <2>3 DEF Bijection, Injection, Surjection, IsInjective
  <1>4. IsFiniteSet(Entries(p, {w})) /\ IsFiniteSet(Entries(p, S \ {w}))
    BY <1>1, EntriesFinite
  <1>5. Cardinality(List) = Cardinality(Entries(p, {w})) /\ Cardinality(List) \in Nat
    <2>1. IsFiniteSet(List)
      <3>1. IsFiniteSet(Wires \X Columns)
        BY WiresFinite, ColumnsAssumption, FS_Product
      <3>2. List \in SUBSET (Wires \X Columns)
        BY <1>1 DEF TypeOK
      <3> QED
        BY <3>1, <3>2, FS_Subset
    <2>2. ExistsBijection(List, Entries(p, {w}))
      BY <1>3 DEF ExistsBijection
    <2> QED
      BY <2>1, <2>2, FS_Bijection, FS_CardinalityType
  <1>6. Entries(p, S) = Entries(p, S \ {w}) \cup Entries(p, {w})
    BY DEF Entries
  <1>7. Entries(p, S \ {w}) \cap Entries(p, {w}) = {}
    BY DEF Entries
  <1>8. Cardinality(Entries(p, S)) =
           Cardinality(Entries(p, S \ {w})) + Cardinality(Entries(p, {w})) - 0
    <2>1. Cardinality(Entries(p, S \ {w}) \cup Entries(p, {w}))
             = Cardinality(Entries(p, S \ {w})) + Cardinality(Entries(p, {w}))
                 - Cardinality(Entries(p, S \ {w}) \cap Entries(p, {w}))
      BY ONLY <1>4, FS_Union
    <2> QED
      BY ONLY <2>1, <1>6, <1>7, FS_EmptySet
  <1>9. Cardinality(Entries(p, S \ {w})) \in Nat
    BY <1>1, EntriesFinite
  <1> QED
    BY <1>5, <1>8, <1>9

\* An entry is a pair of less_.
LEMMA ListedLess ==
    ASSUME TypeOK, ColumnsOrdered, EntriesMeet,
           NEW p \in Wires, NEW w \in Wires, Listed(p, w)
    PROVE  <<p, w>> \in less
  <1>1. PICK col \in Columns : <<p, col>> \in predecessors[w]
    BY DEF Listed
  <1>2. PICK b \in FromBelow, a \in FromAbove :
           pos[b] = col /\ pos[a] = col /\ Liaison[b] = p /\ Liaison[a] = w /\ p # w
    BY <1>1 DEF EntriesMeet
  <1> QED
    BY <1>2, ColumnsAssumption DEF ColumnsOrdered, ColumnPairs

-----------------------------------------------------------------------------
(* The initial state, and the steps that place                              *)

\* Nothing is ordered and nothing counted in an empty channel.
LEMMA InitOInv == Init => OInv
  <1> SUFFICES ASSUME Init PROVE OInv
    OBVIOUS
  <1>1. EntriesMeet /\ LessIsGenerated /\ RemainingCounted
    BY DEF Init, EntriesMeet, LessIsGenerated, RemainingCounted
  <1>2. TakenOnce /\ GreaterBehind /\ PhasesFollow
    BY DEF Init, TakenOnce, GreaterBehind, PhasesFollow
  <1>3. SuccessorsCounted
    <2>1. \A p \in Wires : Entries(p, Wires) = {}
      BY DEF Init, Entries
    <2> QED
      BY <2>1, FS_EmptySet DEF Init, SuccessorsCounted
  <1> QED
    BY <1>1, <1>2, <1>3 DEF OInv

\* The second crosser of two that meet calls makeLess with the lower one's wire
\* and the upper one's; c is one of the two.
LEMMA InsertMeets ==
    ASSUME TypeOK, NEW c \in Crossers, NEW col \in Columns, TryInsertCrosser(c, col)
    PROVE  \/ less' = less /\ predecessors' = predecessors /\ numSuccessors' = numSuccessors
           \/ \E b \in FromBelow, a \in FromAbove :
                /\ c = b \/ c = a
                /\ pos'[b] = col /\ pos'[a] = col
                /\ Liaison[b] # Liaison[a]
                /\ MakeLess(Liaison[b], Liaison[a], col)
  <1>1. CASE less' = less /\ predecessors' = predecessors /\ numSuccessors' = numSuccessors
    BY <1>1
  <1>2. ASSUME NEW d \in OppositeSide(c), pos[d] = col, Liaison[d] # Liaison[c],
               MakeLess(IF c \in FromBelow THEN Liaison[c] ELSE Liaison[d],
                        IF c \in FromBelow THEN Liaison[d] ELSE Liaison[c], col)
        PROVE  \E b \in FromBelow, a \in FromAbove :
                /\ c = b \/ c = a
                /\ pos'[b] = col /\ pos'[a] = col
                /\ Liaison[b] # Liaison[a]
                /\ MakeLess(Liaison[b], Liaison[a], col)
    <2>1. pos'[c] = col /\ pos'[d] = col
      BY <1>2, CrossersAssumption DEF TryInsertCrosser, TypeOK, OppositeSide, FromAbove
    <2>2. CASE c \in FromBelow
      <3>1. d \in FromAbove
        BY <2>2 DEF OppositeSide
      <3>2. MakeLess(Liaison[c], Liaison[d], col)
        BY <2>2, <1>2
      <3> QED
        BY <2>1, <2>2, <1>2, <3>1, <3>2
    <2>3. CASE c \notin FromBelow
      <3>1. d \in FromBelow /\ c \in FromAbove
        BY <2>3 DEF OppositeSide, FromAbove
      <3>2. MakeLess(Liaison[d], Liaison[c], col)
        BY <2>3, <1>2
      <3> QED
        BY <2>1, <2>3, <1>2, <3>1, <3>2
    <2> QED
      BY <2>2, <2>3
  <1> QED
    BY <1>1, <1>2, InsertRelation

\* The column of a crosser that is placed has not been used on its side, and
\* crossers already placed stay.
LEMMA InsertFree ==
    ASSUME TypeOK, NEW c \in Crossers, NEW col \in Columns, TryInsertCrosser(c, col)
    PROVE  /\ \A d \in Crossers : SameSide(c, d) => pos[d] # col
           /\ \A d \in Crossers : pos[d] # NoColumn => pos'[d] = pos[d]
  BY DEF TryInsertCrosser, MayBeCrossed, CrosserAt, OwnSide, SameSide, FromAbove, TypeOK

\* A crossing keeps what the predecessor lists stand for.
LEMMA InsertEntries ==
    ASSUME IInv, EntriesMeet, NEW c \in Crossers, NEW col \in Columns, TryInsertCrosser(c, col)
    PROVE  EntriesMeet'
  <1> SUFFICES ASSUME NEW w \in Wires, NEW e \in predecessors'[w]
               PROVE  \E b \in FromBelow, a \in FromAbove :
                         /\ pos'[b] = e[2] /\ pos'[a] = e[2]
                         /\ Liaison[b] = e[1] /\ Liaison[a] = w
                         /\ Liaison[b] # Liaison[a]
    BY DEF EntriesMeet
  <1>1. ASSUME e \in predecessors[w]
        PROVE  \E b \in FromBelow, a \in FromAbove :
                         /\ pos'[b] = e[2] /\ pos'[a] = e[2]
                         /\ Liaison[b] = e[1] /\ Liaison[a] = w
                         /\ Liaison[b] # Liaison[a]
    <2>1. PICK b \in FromBelow, a \in FromAbove :
                         /\ pos[b] = e[2] /\ pos[a] = e[2]
                         /\ Liaison[b] = e[1] /\ Liaison[a] = w
                         /\ Liaison[b] # Liaison[a]
      BY <1>1 DEF EntriesMeet
    <2>2. e[2] # NoColumn
      BY <1>1, ColumnsAssumption DEF IInv, TypeOK
    <2>3. pos'[b] = pos[b] /\ pos'[a] = pos[a]
      BY <2>1, <2>2, InsertFree, CrossersAssumption DEF IInv, FromAbove
    <2> QED
      BY <2>1, <2>3
  <1>2. ASSUME NEW b \in FromBelow, NEW a \in FromAbove,
               pos'[b] = col, pos'[a] = col, Liaison[b] # Liaison[a],
               MakeLess(Liaison[b], Liaison[a], col), e \notin predecessors[w]
        PROVE  /\ pos'[b] = e[2] /\ pos'[a] = e[2]
               /\ Liaison[b] = e[1] /\ Liaison[a] = w
    <2>1. Liaison[a] = w /\ e = <<Liaison[b], col>>
      BY <1>2 DEF MakeLess, IInv, TypeOK
    <2> QED
      BY <1>2, <2>1
  <1> QED
    BY <1>1, <1>2, InsertMeets DEF IInv

\* The loops of makeLess add no pair that transitivity does not demand.
LEMMA InsertGenerated ==
    ASSUME IInv, LessIsGenerated, NEW c \in Crossers, NEW col \in Columns,
           TryInsertCrosser(c, col)
    PROVE  LessIsGenerated'
  <1>1. CASE less' = less /\ predecessors' = predecessors
    BY <1>1 DEF LessIsGenerated, Listed
  <1>2. ASSUME NEW le \in Wires, NEW gr \in Wires, MakeLess(le, gr, col)
        PROVE  LessIsGenerated'
    <2> SUFFICES ASSUME NEW R \in SUBSET (Wires \X Wires), Transitive(R),
                        \A p, w \in Wires : Listed(p, w)' => <<p, w>> \in R
                 PROVE  less' \subseteq R
      BY DEF LessIsGenerated, Transitive
    <2>1. ASSUME NEW p \in Wires, NEW w \in Wires, Listed(p, w) PROVE Listed(p, w)'
      <3>1. predecessors[w] \subseteq predecessors'[w]
        BY <1>2 DEF MakeLess, IInv, TypeOK
      <3> QED
        BY <2>1, <3>1 DEF Listed
    <2>2. less \subseteq R
      BY <2>1 DEF LessIsGenerated
    <2>3. <<le, gr>> \in R
      <3>1. <<le, col>> \in predecessors'[gr]
        BY <1>2 DEF MakeLess, IInv, TypeOK
      <3> QED
        BY <3>1 DEF Listed
    <2>4. Borders(less, le, gr) \subseteq R
      <3> SUFFICES ASSUME NEW e \in Borders(less, le, gr) PROVE e \in R
        OBVIOUS
      <3> DEFINE direct == less \cup {<<le, gr>>}
      <3>1. \/ e \in direct
            \/ \E i \in Wires : e = <<i, gr>> /\ <<i, le>> \in direct
            \/ \E i \in Wires : e = <<le, i>> /\ <<gr, i>> \in direct
        BY DEF Borders
      <3>2. direct \subseteq R
        BY <2>2, <2>3
      <3> HIDE DEF direct
      <3> QED
        BY <2>3, <3>1, <3>2 DEF Transitive
    <2>5. ASSUME NEW x \in Wires, NEW y \in Wires, <<x, le>> \in R, <<gr, y>> \in R
          PROVE  <<x, y>> \in R
      BY <2>3, <2>5 DEF Transitive
    <2>6. less' = ExtendClosure(less, le, gr)
      BY <1>2 DEF MakeLess
    <2>7. ASSUME NEW e \in Wires \X Wires,
                 <<e[1], le>> \in Borders(less, le, gr), <<gr, e[2]>> \in Borders(less, le, gr)
          PROVE  e \in R
      <3>1. e = <<e[1], e[2]>> /\ e[1] \in Wires /\ e[2] \in Wires
        OBVIOUS
      <3> QED
        BY <2>4, <2>5, <2>7, <3>1
    <2> QED
      BY <2>4, <2>6, <2>7 DEF ExtendClosure
  <1>3. \A d \in Crossers : Liaison[d] \in Wires
    BY CrossersAssumption
  <1> QED
    BY <1>1, <1>2, <1>3, InsertMeets, CrossersAssumption DEF IInv, FromAbove

\* makeLess adds an entry that was in no list, for the column was free on the
\* side of the crosser that comes second.
LEMMA InsertCounted ==
    ASSUME IInv, EntriesMeet, SuccessorsCounted, NEW c \in Crossers, NEW col \in Columns,
           TryInsertCrosser(c, col)
    PROVE  SuccessorsCounted'
  <1>1. CASE predecessors' = predecessors /\ numSuccessors' = numSuccessors
    BY <1>1 DEF SuccessorsCounted, Entries
  <1>2. ASSUME NEW b \in FromBelow, NEW a \in FromAbove, c = b \/ c = a,
               Liaison[b] # Liaison[a], MakeLess(Liaison[b], Liaison[a], col)
        PROVE  SuccessorsCounted'
    <2> DEFINE le == Liaison[b]
               gr == Liaison[a]
    <2>1. le \in Wires /\ gr \in Wires /\ b \in Crossers /\ a \in Crossers
      BY CrossersAssumption DEF FromAbove
    <2>2. predecessors' = [predecessors EXCEPT ![gr] = @ \cup {<<le, col>>}]
      BY <1>2 DEF MakeLess
    <2>3. numSuccessors' = [numSuccessors EXCEPT ![le] = @ + 1]
      BY <1>2 DEF MakeLess
    <2>4. <<le, col>> \notin predecessors[gr]
      <3> SUFFICES ASSUME <<le, col>> \in predecessors[gr] PROVE FALSE
        OBVIOUS
      <3>1. PICK d \in FromBelow, u \in FromAbove : pos[d] = col /\ pos[u] = col
        BY <2>1 DEF EntriesMeet
      <3>2. SameSide(c, d) \/ SameSide(c, u)
        BY <1>2 DEF SameSide, FromAbove
      <3> QED
        BY <3>1, <3>2, InsertFree, CrossersAssumption DEF IInv, FromAbove
    <2> HIDE DEF le, gr
    <2>5. ASSUME NEW p \in Wires, p # le PROVE Entries(p, Wires)' = Entries(p, Wires)
      <3>1. \A w \in Wires, k \in Columns :
               <<p, k>> \in predecessors'[w] <=> <<p, k>> \in predecessors[w]
        BY <2>1, <2>2, <2>5 DEF IInv, TypeOK
      <3> QED
        BY <3>1 DEF Entries
    <2>6. Entries(le, Wires)' = Entries(le, Wires) \cup {<<gr, col>>}
      <3>1. \A w \in Wires, k \in Columns :
               <<le, k>> \in predecessors'[w]
                  <=> <<le, k>> \in predecessors[w] \/ (w = gr /\ k = col)
        BY <2>1, <2>2 DEF IInv, TypeOK
      <3> QED
        BY <2>1, <3>1 DEF Entries
    <2>7. <<gr, col>> \notin Entries(le, Wires)
      BY <2>4 DEF Entries
    <2>8. Cardinality(Entries(le, Wires)') = Cardinality(Entries(le, Wires)) + 1
      BY <2>6, <2>7, EntriesFinite, FS_AddElement
    <2>9. ASSUME NEW p \in Wires
          PROVE  numSuccessors'[p] = Cardinality(Entries(p, Wires)')
      <3>1. CASE p = le
        BY <2>1, <2>3, <2>8, <3>1 DEF SuccessorsCounted, IInv, TypeOK
      <3>2. CASE p # le
        BY <2>1, <2>3, <2>5, <3>2 DEF SuccessorsCounted, IInv, TypeOK
      <3> QED
        BY <3>1, <3>2
    <2> QED
      BY <2>9 DEF SuccessorsCounted
  <1> QED
    BY <1>1, <1>2, InsertMeets DEF IInv

\* Crossing keeps the counters in step with the predecessor lists, duplicates
\* included.
LEMMA InsertOInv ==
    ASSUME IInv, OInv, NEW c \in Crossers, NEW col \in Columns, TryInsertCrosser(c, col)
    PROVE  OInv'
  <1>1. phase = "place" /\ phase' = "place" /\ order' = order /\ order = <<>>
    BY DEF TryInsertCrosser, OInv, PhasesFollow
  <1>2. TakenOnce' /\ GreaterBehind' /\ RemainingCounted'
    BY <1>1 DEF TakenOnce, GreaterBehind, RemainingCounted
  <1>3. PhasesFollow'
    BY <1>1 DEF TryInsertCrosser, OInv, PhasesFollow
  <1> QED
    BY <1>2, <1>3, InsertEntries, InsertGenerated, InsertCounted DEF OInv

-----------------------------------------------------------------------------
(* The loop of ascendingOrder                                               *)

\* computePositions changes neither the lists nor less_.
LEMMA PlacedOInv ==
    ASSUME OInv, UNCHANGED placed
    PROVE  EntriesMeet' /\ LessIsGenerated' /\ SuccessorsCounted'
  <1>1. pos' = pos /\ less' = less /\ predecessors' = predecessors /\ numSuccessors' = numSuccessors
    BY DEF placed
  <1>2. EntriesMeet'
    BY <1>1 DEF OInv, EntriesMeet
  <1>3. LessIsGenerated'
    BY <1>1 DEF OInv, LessIsGenerated, Listed
  <1>4. SuccessorsCounted'
    BY <1>1 DEF OInv, SuccessorsCounted, Entries
  <1> QED
    BY <1>2, <1>3, <1>4

\* ascendingOrder starts with the counts of all entries.
LEMMA StartOInv ==
    ASSUME IInv, OInv, ComputePositions
    PROVE  OInv'
  <1>1. order = <<>> /\ order' = <<>>
    BY DEF ComputePositions, OInv, PhasesFollow
  <1>2. Ordered' = {}
    BY <1>1 DEF Ordered
  <1>3. RemainingCounted'
    <2>1. predecessors' = predecessors /\ remainingSucc' = numSuccessors
      BY DEF ComputePositions, placed
    <2>2. \A p \in Wires : Entries(p, Wires \ Ordered)' = Entries(p, Wires)
      BY <1>2, <2>1 DEF Entries
    <2> QED
      BY <2>1, <2>2 DEF OInv, SuccessorsCounted, RemainingCounted
  <1>4. TakenOnce' /\ GreaterBehind'
    BY <1>1 DEF TakenOnce, GreaterBehind
  <1>5. PhasesFollow'
    BY DEF ComputePositions, placed, PhasesFollow
  <1>6. EntriesMeet' /\ LessIsGenerated' /\ SuccessorsCounted'
    BY PlacedOInv DEF ComputePositions
  <1> QED
    BY <1>3, <1>4, <1>5, <1>6 DEF OInv

\* The list with the wire taken in front.
LEMMA TakeOrder ==
    ASSUME TypeOK, NEW w \in Wires, TakeGreatest(w)
    PROVE  /\ Len(order') = Len(order) + 1
           /\ order'[1] = w
           /\ \A i \in 1 .. Len(order) : order'[i + 1] = order[i]
           /\ Ordered' = Ordered \cup {w}
           /\ Ordered \subseteq Wires
  <1>1. order' = <<w>> \o order /\ order \in Seq(Wires)
    BY DEF TakeGreatest, TypeOK
  <1>2. Len(order') = Len(order) + 1 /\ Len(order) \in Nat
    BY <1>1
  <1>3. order'[1] = w
    BY <1>1
  <1>4. \A i \in 1 .. Len(order) : order'[i + 1] = order[i]
    BY <1>1, <1>2
  <1>5. ASSUME NEW v \in Ordered' PROVE v \in Ordered \cup {w}
    <2>1. PICK i \in 1 .. Len(order') : v = order'[i]
      BY <1>5 DEF Ordered
    <2>2. i = 1 \/ (i - 1 \in 1 .. Len(order) /\ (i - 1) + 1 = i)
      BY <1>2
    <2> QED
      BY <1>3, <1>4, <2>1, <2>2 DEF Ordered
  <1>6. Ordered \subseteq Ordered'
    <2> SUFFICES ASSUME NEW i \in 1 .. Len(order) PROVE order[i] \in Ordered'
      BY DEF Ordered
    <2>1. i + 1 \in 1 .. Len(order')
      BY <1>2
    <2> QED
      BY <1>4, <2>1 DEF Ordered
  <1>7. w \in Ordered'
    <2>1. 1 \in 1 .. Len(order')
      BY <1>2
    <2> QED
      BY <1>3, <2>1 DEF Ordered
  <1>8. Ordered \subseteq Wires
    BY <1>1 DEF Ordered
  <1> QED
    BY <1>2, <1>3, <1>4, <1>5, <1>6, <1>7, <1>8

\* A wire whose count is zero is listed only by wires already taken, and then
\* all wires greater than it have been taken: less_ is generated by the lists.
LEMMA TakenAbove ==
    ASSUME IInv, OInv, NEW w \in Wires, TakeGreatest(w),
           NEW v \in Wires, <<w, v>> \in less
    PROVE  v \in Ordered
  <1> DEFINE Taken == Ordered \cup {w}
             R == {e \in Wires \X Wires : e \in less /\ (e[1] \in Taken => e[2] \in Ordered)}
  <1>1. ASSUME NEW x \in Wires, Listed(w, x) PROVE x \in Ordered
    <2>1. remainingSucc[w] = 0 /\ phase # "place"
      BY DEF TakeGreatest, PrimaryEquals
    <2>2. Cardinality(Entries(w, Wires \ Ordered)) = 0
      BY <2>1 DEF OInv, RemainingCounted
    <2>3. Entries(w, Wires \ Ordered) = {}
      BY <2>2, EntriesFinite, FS_EmptySet
    <2>4. PICK col \in Columns : <<w, col>> \in predecessors[x]
      BY <1>1 DEF Listed
    <2>5. x \in Wires \ Ordered => <<x, col>> \in Entries(w, Wires \ Ordered)
      BY <2>4 DEF Entries
    <2> QED
      BY <2>3, <2>5
  <1>2. ASSUME NEW x \in Ordered, NEW y \in Wires, <<x, y>> \in less PROVE y \in Ordered
    <2>1. PICK i \in 1 .. Len(order) : x = order[i]
      BY DEF Ordered
    <2>2. PICK j \in i + 1 .. Len(order) : order[j] = y
      BY <1>2, <2>1 DEF OInv, GreaterBehind
    <2>3. j \in 1 .. Len(order)
      BY <2>2
    <2> QED
      BY <2>2, <2>3 DEF Ordered
  <1>3. \A x, y \in Wires : <<x, y>> \in R <=> <<x, y>> \in less /\ (x \in Taken => y \in Ordered)
    OBVIOUS
  <1>4. R \in SUBSET (Wires \X Wires)
    OBVIOUS
  <1>5. Ordered \subseteq Taken
    OBVIOUS
  <1> HIDE DEF R
  <1>6. Transitive(R)
    BY <1>3, <1>5 DEF Transitive, IInv, StrictPartialOrder
  <1>7. ASSUME NEW x \in Wires, NEW y \in Wires, Listed(x, y) PROVE <<x, y>> \in R
    <2>1. <<x, y>> \in less
      BY <1>7, ListedLess DEF IInv, OInv
    <2> QED
      BY <1>1, <1>2, <1>3, <1>7, <2>1
  <1>8. less \subseteq R
    BY <1>4, <1>6, <1>7 DEF OInv, LessIsGenerated
  <1> QED
    BY <1>3, <1>8

\* Taking a wire releases its predecessors and keeps the order.
LEMMA TakeOInv ==
    ASSUME IInv, OInv, NEW w \in Wires, TakeGreatest(w)
    PROVE  OInv'
  <1>1. /\ Len(order') = Len(order) + 1
        /\ order'[1] = w
        /\ \A i \in 1 .. Len(order) : order'[i + 1] = order[i]
        /\ Ordered' = Ordered \cup {w}
        /\ Ordered \subseteq Wires
    BY TakeOrder DEF IInv
  <1>2. UNCHANGED placed /\ phase' = "order" /\ phase = "order" /\ w \notin Ordered
    BY DEF TakeGreatest, PrimaryEquals
  <1>3. Len(order) \in Nat
    BY DEF IInv, TypeOK
  <1>4. \A i \in 1 .. Len(order') :
           i = 1 \/ (i - 1 \in 1 .. Len(order) /\ order'[i] = order[i - 1])
    <2> SUFFICES ASSUME NEW i \in 1 .. Len(order'), i # 1
                 PROVE  i - 1 \in 1 .. Len(order) /\ order'[i] = order[i - 1]
      OBVIOUS
    <2>1. i - 1 \in 1 .. Len(order) /\ (i - 1) + 1 = i
      BY <1>1, <1>3
    <2> QED
      BY <1>1, <2>1
  <1>5. RemainingCounted'
    <2> SUFFICES ASSUME NEW p \in Wires
                 PROVE  remainingSucc'[p] = Cardinality(Entries(p, Wires \ Ordered)')
      BY DEF RemainingCounted
    <2>1. Entries(p, Wires \ Ordered)' = Entries(p, (Wires \ Ordered) \ {w})
      BY <1>1, <1>2 DEF Entries, placed
    <2>2. remainingSucc'[p] = remainingSucc[p] - Cardinality({e \in predecessors[w] : e[1] = p})
      BY DEF TakeGreatest, ReleasePredecessors
    <2>3. remainingSucc[p] = Cardinality(Entries(p, Wires \ Ordered))
      BY <1>2 DEF OInv, RemainingCounted
    <2>4. w \in Wires \ Ordered /\ Wires \ Ordered \in SUBSET Wires
      BY <1>2
    <2> QED
      BY <2>1, <2>2, <2>3, <2>4, EntriesWithout DEF IInv
  <1>6. TakenOnce'
    <2> SUFFICES ASSUME NEW i \in 1 .. Len(order'), NEW j \in 1 .. Len(order'),
                        order'[i] = order'[j], i # j
                 PROVE  FALSE
      BY DEF TakenOnce
    <2>1. CASE i = 1 \/ j = 1
      <3>1. \A k \in 1 .. Len(order) : order[k] # w
        BY <1>2 DEF Ordered
      <3> QED
        BY <1>1, <1>4, <2>1, <3>1
    <2>2. CASE i # 1 /\ j # 1
      <3>1. i - 1 = j - 1
        BY <1>4, <2>2 DEF OInv, TakenOnce
      <3> QED
        BY <3>1
    <2> QED
      BY <2>1, <2>2
  <1>7. GreaterBehind'
    <2> SUFFICES ASSUME NEW i \in 1 .. Len(order'), NEW v \in Wires,
                        <<order'[i], v>> \in less
                 PROVE  \E j \in i + 1 .. Len(order') : order'[j] = v
      BY <1>2 DEF GreaterBehind, placed
    <2>1. CASE i = 1
      <3>1. v \in Ordered
        BY <1>1, <2>1, TakenAbove
      <3>2. PICK k \in 1 .. Len(order) : order[k] = v
        BY <3>1 DEF Ordered
      <3>3. k + 1 \in i + 1 .. Len(order') /\ order'[k + 1] = v
        BY <1>1, <1>3, <2>1, <3>2
      <3> QED
        BY <3>3
    <2>2. CASE i # 1
      <3>1. i - 1 \in 1 .. Len(order) /\ <<order[i - 1], v>> \in less
        BY <1>4, <2>2
      <3>2. PICK k \in (i - 1) + 1 .. Len(order) : order[k] = v
        BY <3>1 DEF OInv, GreaterBehind
      <3>3. k \in 1 .. Len(order) /\ k + 1 \in i + 1 .. Len(order')
        BY <1>1, <1>3, <3>2
      <3> QED
        BY <1>1, <3>2, <3>3
    <2> QED
      BY <2>1, <2>2
  <1>8. PhasesFollow'
    BY <1>2 DEF OInv, PhasesFollow, placed
  <1>9. EntriesMeet' /\ LessIsGenerated' /\ SuccessorsCounted'
    BY <1>2, PlacedOInv
  <1> QED
    BY <1>5, <1>6, <1>7, <1>8, <1>9 DEF OInv

\* When no wire is ready, all have been taken: of wires left over, one has the
\* fewest greater wires among them, namely none, and then its count is zero.
LEMMA NoneLeft ==
    ASSUME IInv, OInv, phase = "order", PrimaryEquals = {}
    PROVE  Ordered = Wires
  <1> DEFINE Left  == Wires \ Ordered
             Up(w) == {v \in Left : <<w, v>> \in less}
             Ups   == {Up(w) : w \in Left}
  <1>1. Ordered \subseteq Wires
    BY DEF Ordered, IInv, TypeOK
  <1> SUFFICES ASSUME Left # {} PROVE FALSE
    BY <1>1
  <1>2. Ups # {}
    <2>1. PICK w : w \in Left
      OBVIOUS
    <2>2. Up(w) \in Ups
      BY <2>1
    <2> QED
      BY <2>2
  <1>3. \A T \in Ups : IsFiniteSet(T)
    <2> SUFFICES ASSUME NEW w \in Left PROVE IsFiniteSet(Up(w))
      OBVIOUS
    <2>1. Up(w) \in SUBSET Wires
      OBVIOUS
    <2> QED
      BY <2>1, WiresFinite, FS_Subset
  <1>4. PICK w \in Left : \A v \in Left : Up(v) \subseteq Up(w) => Up(v) = Up(w)
    <2> HIDE DEF Ups
    <2>1. PICK T \in Ups : \A U \in Ups : U \subseteq T => U = T
      BY <1>2, <1>3, SmallestSet
    <2> USE DEF Ups
    <2>2. PICK w \in Left : T = Up(w)
      BY <2>1
    <2>3. \A v \in Left : Up(v) \in Ups
      OBVIOUS
    <2> HIDE DEF Ups, Up
    <2> QED
      BY <2>1, <2>2, <2>3
  <1>5. \A v \in Left : <<w, v>> \notin less
    <2> SUFFICES ASSUME NEW v \in Left, <<w, v>> \in less PROVE FALSE
      OBVIOUS
    <2>1. Up(v) \subseteq Up(w)
      BY DEF IInv, StrictPartialOrder
    <2>2. v \in Up(w) /\ v \notin Up(v)
      BY DEF IInv, StrictPartialOrder
    <2> QED
      BY <1>4, <2>1, <2>2
  <1>6. Entries(w, Left) = {}
    <2>1. \A v \in Left : ~Listed(w, v)
      BY <1>5, ListedLess DEF IInv, OInv
    <2> QED
      BY <2>1 DEF Entries, Listed
  <1>7. remainingSucc[w] = 0
    BY <1>6, FS_EmptySet DEF OInv, RemainingCounted
  <1> QED
    BY <1>7 DEF PrimaryEquals

\* The rest of the algorithm leaves the order alone.
LEMMA LaterOInv ==
    ASSUME IInv, OInv, UNCHANGED placed, UNCHANGED <<order, remainingSucc>>,
           phase # "place" \/ (phase' = "place" /\ next' = next),
           phase' = phase \/ (phase # "place" /\ phase' # "place" /\ Ordered = Wires)
    PROVE  OInv'
  <1>1. Ordered' = Ordered
    BY DEF Ordered
  <1>2. EntriesMeet' /\ LessIsGenerated' /\ SuccessorsCounted'
    BY PlacedOInv
  <1>3. TakenOnce' /\ GreaterBehind'
    BY DEF placed, OInv, TakenOnce, GreaterBehind
  <1>4. RemainingCounted'
    BY <1>1 DEF placed, OInv, RemainingCounted, Entries
  <1>5. PhasesFollow'
    BY <1>1 DEF placed, OInv, PhasesFollow
  <1> QED
    BY <1>2, <1>3, <1>4, <1>5 DEF OInv

\* Every step keeps the counters, the order taken so far and what remains.
LEMMA NextOInv == IInv /\ OInv /\ [Next]_vars => OInv'
  <1> SUFFICES ASSUME IInv, OInv, [Next]_vars PROVE OInv'
    OBVIOUS
  <1>1. CASE \E c \in Crossers, col \in Columns : TryInsertCrosser(c, col)
    BY <1>1, InsertOInv
  <1>2. CASE ComputePositions
    BY <1>2, StartOInv
  <1>3. CASE \E w \in Wires : TakeGreatest(w)
    BY <1>3, TakeOInv
  <1>4. CASE AssignRows
    BY <1>4, NoneLeft, LaterOInv DEF AssignRows
  <1>5. CASE DropNext
    BY <1>5, LaterOInv DEF DropNext
  <1>6. CASE Finish
    BY <1>6, LaterOInv DEF Finish, OInv, PhasesFollow
  <1>7. CASE UNCHANGED vars
    BY <1>7, LaterOInv DEF vars, placed
  <1> QED
    BY <1>1, <1>2, <1>3, <1>4, <1>5, <1>6, <1>7 DEF Next, Terminated

\* Before, while and after ascendingOrder runs, its counters tell how many
\* entries of the predecessor lists belong to wires not taken yet.
THEOREM OrderInvariance == Spec => [](IInv /\ OInv)
  <1>1. Init => IInv /\ OInv
    BY InitIInv, InitOInv
  <1>2. IInv /\ OInv /\ [Next]_vars => (IInv /\ OInv)'
    BY NextIInv, NextOInv
  <1> QED
    BY <1>1, <1>2, PTL DEF Spec

-----------------------------------------------------------------------------
(* What it implies                                                          *)

\* Once rows are assigned every wire was taken, and every counter is zero.
LEMMA OrderIsComplete == IInv /\ OInv => OrderComplete
  <1> SUFFICES ASSUME IInv, OInv, phase \in {"drop", "done"}
               PROVE  /\ Ordered = Wires
                      /\ Len(order) = NumWires
                      /\ \A w \in Wires : remainingSucc[w] = 0
    BY DEF OrderComplete
  <1>1. Ordered = Wires
    BY DEF OInv, PhasesFollow
  <1>2. Len(order) = NumWires
    <2>1. Len(order) \in Nat /\ order \in [1 .. Len(order) -> Wires]
      BY LenProperties DEF IInv, TypeOK
    <2>2. order \in Bijection(1 .. Len(order), Wires)
      <3>1. \A w \in Wires : \E i \in 1 .. Len(order) : order[i] = w
        BY <1>1 DEF Ordered
      <3> QED
        BY <2>1, <3>1 DEF OInv, TakenOnce, Bijection, Injection, Surjection, IsInjective
    <2>3. ExistsBijection(1 .. Len(order), Wires)
      BY <2>2 DEF ExistsBijection
    <2> QED
      BY <2>1, <2>3, FS_CountingElements, WiresFinite
  <1>3. ASSUME NEW w \in Wires PROVE remainingSucc[w] = 0
    <2>1. Entries(w, Wires \ Ordered) = {}
      BY <1>1 DEF Entries
    <2> QED
      BY <2>1, FS_EmptySet DEF OInv, RemainingCounted
  <1> QED
    BY <1>1, <1>2, <1>3

\* ascendingOrder takes every wire exactly once and its counts end at zero,
\* whatever crossings were made: no wire is lost to a miscounted successor.
THEOREM OrderIsAlwaysComplete == Spec => []OrderComplete
  BY OrderInvariance, OrderIsComplete, PTL

-----------------------------------------------------------------------------
(* less_ is the transitive closure of the columns                           *)

\* The chains of LessIsColumnClosure.
Longer(c) == c \cup {<<x[1][1], x[2][2]>> : x \in {y \in c \X c : y[1][2] = y[2][1]}}

Chains[n \in 0 .. NumWires] == IF n = 0 THEN ColumnPairs ELSE Longer(Chains[n - 1])

\* The wires that stand between two wires in the order.
Between(u, v) == {x \in Wires : <<u, x>> \in less /\ <<x, v>> \in less}

\* What one more round of the reference closure adds.
LEMMA LongerMembers ==
    ASSUME NEW c \in SUBSET (Wires \X Wires)
    PROVE  /\ Longer(c) \in SUBSET (Wires \X Wires)
           /\ \A u, v \in Wires :
                <<u, v>> \in Longer(c)
                   <=> <<u, v>> \in c \/ \E x \in Wires : <<u, x>> \in c /\ <<x, v>> \in c
  <1> DEFINE joints == {y \in c \X c : y[1][2] = y[2][1]}
  <1>1. ASSUME NEW y \in joints
        PROVE  \E u, x, v \in Wires : y = <<<<u, x>>, <<x, v>>>>
    OBVIOUS
  <1>2. Longer(c) \in SUBSET (Wires \X Wires)
    <2> SUFFICES ASSUME NEW e \in Longer(c), e \notin c PROVE e \in Wires \X Wires
      OBVIOUS
    <2>1. PICK y \in joints : e = <<y[1][1], y[2][2]>>
      BY DEF Longer
    <2> QED
      BY <1>1, <2>1
  <1>3. ASSUME NEW u \in Wires, NEW v \in Wires, <<u, v>> \in Longer(c), <<u, v>> \notin c
        PROVE  \E x \in Wires : <<u, x>> \in c /\ <<x, v>> \in c
    <2>1. PICK y \in joints : <<u, v>> = <<y[1][1], y[2][2]>>
      BY <1>3 DEF Longer
    <2>2. PICK t, x, w \in Wires : y = <<<<t, x>>, <<x, w>>>>
      BY <1>1
    <2>3. y[1] \in c /\ y[2] \in c /\ t = u /\ w = v
      BY <2>1, <2>2
    <2> QED
      BY <2>2, <2>3
  <1>4. ASSUME NEW u \in Wires, NEW v \in Wires, NEW x \in Wires, <<u, x>> \in c, <<x, v>> \in c
        PROVE  <<u, v>> \in Longer(c)
    <2> DEFINE y == <<<<u, x>>, <<x, v>>>>
    <2>1. y \in joints /\ <<u, v>> = <<y[1][1], y[2][2]>>
      BY <1>4
    <2> HIDE DEF y
    <2> QED
      BY <2>1 DEF Longer
  <1>5. c \subseteq Longer(c)
    BY DEF Longer
  <1> QED
    BY <1>2, <1>3, <1>4, <1>5

\* The recursive function behind the reference closure exists, and is what its
\* equation says.
LEMMA ChainsDefined ==
    /\ Chains \in [0 .. NumWires -> SUBSET (Wires \X Wires)]
    /\ Chains[0] = ColumnPairs
    /\ \A n \in 1 .. NumWires : Chains[n] = Longer(Chains[n - 1])
  <1> DEFINE D == SUBSET (Wires \X Wires)
             Step == [c \in D |-> Longer(c)]
  <1>1. Step \in [D -> D] /\ ColumnPairs \in D
    BY LongerMembers DEF ColumnPairs
  <1>2. PICK f \in [0 .. NumWires -> D] :
           f[0] = ColumnPairs /\ \A n \in 1 .. NumWires : f[n] = Step[f[n - 1]]
    <2> HIDE DEF D, Step
    <2>1. NumWires \in Nat
      BY NumWiresAssumption
    <2>2. PICK f : Iterates(f, D, ColumnPairs, Step, NumWires)
      BY <1>1, <2>1, Iteration
    <2> QED
      BY <2>2 DEF Iterates
  <1>3. ASSUME NEW n \in 1 .. NumWires PROVE f[n] = Longer(f[n - 1])
    <2>1. n - 1 \in 0 .. NumWires
      BY NumWiresAssumption
    <2>2. f[n - 1] \in D
      BY <2>1
    <2> QED
      BY <1>2, <2>2
  <1>4. f = [n \in 0 .. NumWires |-> IF n = 0 THEN ColumnPairs ELSE Longer(f[n - 1])]
    <2>1. \A n \in 0 .. NumWires : f[n] = IF n = 0 THEN ColumnPairs ELSE Longer(f[n - 1])
      BY <1>2, <1>3, NumWiresAssumption
    <2> QED
      BY <2>1
  <1>5. Chains = CHOOSE g : g = [n \in 0 .. NumWires |-> IF n = 0 THEN ColumnPairs ELSE Longer(g[n - 1])]
    BY DEF Chains
  <1>6. Chains = [n \in 0 .. NumWires |-> IF n = 0 THEN ColumnPairs ELSE Longer(Chains[n - 1])]
    BY <1>4, <1>5
  <1>7. ASSUME NEW n \in 0 .. NumWires
        PROVE  Chains[n] = IF n = 0 THEN ColumnPairs ELSE Longer(Chains[n - 1])
    BY <1>6
  <1> DEFINE Wrong == {n \in 0 .. NumWires : Chains[n] \notin D}
  <1>8. Wrong = {}
    <2> SUFFICES ASSUME Wrong # {} PROVE FALSE
      OBVIOUS
    <2>1. PICK n \in Wrong : \A m \in Wrong : n <= m
      <3>1. Wrong \in SUBSET Nat
        OBVIOUS
      <3> HIDE DEF Wrong
      <3> QED
        BY <3>1, LeastNumber
    <2>2. n \in 0 .. NumWires /\ n # 0
      BY <1>1, <1>7
    <2>3. n - 1 \in 0 .. NumWires /\ n - 1 < n
      BY <2>2, NumWiresAssumption
    <2>4. Chains[n - 1] \in D
      <3>1. n - 1 \notin Wrong
        <4> HIDE DEF Wrong
        <4> QED
          BY <2>1, <2>2, <2>3
      <3> QED
        BY <2>3, <3>1
    <2>5. Chains[n] \in D
      BY <1>7, <2>2, <2>4, LongerMembers
    <2> QED
      BY <2>5
  <1>9. Chains \in [0 .. NumWires -> D]
    BY <1>6, <1>8
  <1> QED
    BY <1>7, <1>9, NumWiresAssumption

\* A pair of less_ is a column's, or another wire stands between its two.
LEMMA PairOrBetween ==
    ASSUME IInv, EntriesMeet, LessIsGenerated,
           NEW u \in Wires, NEW v \in Wires, <<u, v>> \in less
    PROVE  <<u, v>> \in ColumnPairs \/ Between(u, v) # {}
  <1> DEFINE R == {e \in Wires \X Wires : /\ e \in less
                                          /\ e \in ColumnPairs \/ Between(e[1], e[2]) # {}}
  <1>1. \A x, y \in Wires :
           <<x, y>> \in R <=> <<x, y>> \in less /\ (<<x, y>> \in ColumnPairs \/ Between(x, y) # {})
    OBVIOUS
  <1>2. R \in SUBSET (Wires \X Wires)
    OBVIOUS
  <1> HIDE DEF R
  <1>3. Transitive(R)
    <2> SUFFICES ASSUME NEW x \in Wires, NEW y \in Wires, NEW z \in Wires,
                        <<x, y>> \in R, <<y, z>> \in R
                 PROVE  <<x, z>> \in R
      BY DEF Transitive
    <2>1. y \in Between(x, z)
      BY <1>1 DEF Between
    <2> QED
      BY <1>1, <2>1 DEF IInv, StrictPartialOrder
  <1>4. ASSUME NEW p \in Wires, NEW w \in Wires, Listed(p, w) PROVE <<p, w>> \in R
    <2>1. PICK col \in Columns : <<p, col>> \in predecessors[w]
      BY <1>4 DEF Listed
    <2>2. PICK b \in FromBelow, a \in FromAbove :
             pos[b] = col /\ pos[a] = col /\ Liaison[b] = p /\ Liaison[a] = w /\ p # w
      BY <2>1 DEF EntriesMeet
    <2>3. <<p, w>> \in ColumnPairs
      BY <2>2, ColumnsAssumption DEF ColumnPairs
    <2> QED
      BY <1>1, <2>3 DEF IInv, ColumnsOrdered
  <1>5. less \subseteq R
    BY <1>2, <1>3, <1>4 DEF LessIsGenerated
  <1> QED
    BY <1>1, <1>5

\* n rounds of the reference definition find every pair with at most n wires
\* between.
LEMMA ChainsReach ==
    ASSUME IInv, EntriesMeet, LessIsGenerated, NEW n \in 0 .. NumWires
    PROVE  /\ ColumnPairs \subseteq Chains[n]
           /\ Chains[n] \subseteq less
           /\ \A u, v \in Wires :
                <<u, v>> \in less /\ Cardinality(Between(u, v)) <= n => <<u, v>> \in Chains[n]
  <1> DEFINE Good(k) == /\ ColumnPairs \subseteq Chains[k]
                        /\ Chains[k] \subseteq less
                        /\ \A u, v \in Wires :
                              <<u, v>> \in less /\ Cardinality(Between(u, v)) <= k
                              => <<u, v>> \in Chains[k]
             Wrong == {k \in 0 .. NumWires : ~Good(k)}
  <1> SUFFICES ASSUME Wrong # {} PROVE FALSE
    OBVIOUS
  <1>1. \A u, v \in Wires : IsFiniteSet(Between(u, v)) /\ Cardinality(Between(u, v)) \in Nat
    <2> SUFFICES ASSUME NEW u \in Wires, NEW v \in Wires
                 PROVE  IsFiniteSet(Between(u, v)) /\ Cardinality(Between(u, v)) \in Nat
      OBVIOUS
    <2>1. Between(u, v) \in SUBSET Wires
      BY DEF Between
    <2> QED
      BY <2>1, WiresFinite, FS_Subset, FS_CardinalityType
  <1>2. PICK k \in Wrong : \A m \in Wrong : k <= m
    <2>1. Wrong \in SUBSET Nat
      OBVIOUS
    <2> HIDE DEF Wrong
    <2> QED
      BY <2>1, LeastNumber
  <1>3. k \in 0 .. NumWires /\ ~Good(k)
    OBVIOUS
  <1>4. \A m \in 0 .. NumWires : m < k => Good(m)
    <2> SUFFICES ASSUME NEW m \in 0 .. NumWires, m < k, ~Good(m) PROVE FALSE
      OBVIOUS
    <2>1. m \in Wrong
      OBVIOUS
    <2> HIDE DEF Wrong, Good
    <2> QED
      BY <1>2, <1>3, <2>1
  <1>5. CASE k = 0
    <2>1. ASSUME NEW u \in Wires, NEW v \in Wires, <<u, v>> \in less, Cardinality(Between(u, v)) <= 0
          PROVE  <<u, v>> \in ColumnPairs
      <3>1. Between(u, v) = {}
        BY <1>1, <2>1, FS_EmptySet
      <3> QED
        BY <2>1, <3>1, PairOrBetween
    <2> QED
      BY <1>3, <1>5, <2>1, ChainsDefined DEF IInv, ColumnsOrdered
  <1>6. CASE k # 0
    <2>1. k \in 1 .. NumWires /\ k - 1 \in 0 .. NumWires /\ k - 1 < k /\ k \in Nat
      BY <1>3, <1>6, NumWiresAssumption
    <2>2. Good(k - 1)
      BY <1>4, <2>1
    <2>3. Chains[k] = Longer(Chains[k - 1]) /\ Chains[k - 1] \in SUBSET (Wires \X Wires)
      BY <2>1, ChainsDefined
    <2>4. \A u, v \in Wires :
             <<u, v>> \in Chains[k]
                <=> \/ <<u, v>> \in Chains[k - 1]
                    \/ \E x \in Wires : <<u, x>> \in Chains[k - 1] /\ <<x, v>> \in Chains[k - 1]
      <3>1. \A u, v \in Wires :
             <<u, v>> \in Longer(Chains[k - 1])
                <=> \/ <<u, v>> \in Chains[k - 1]
                    \/ \E x \in Wires : <<u, x>> \in Chains[k - 1] /\ <<x, v>> \in Chains[k - 1]
        BY ONLY <2>3, LongerMembers
      <3> QED
        BY ONLY <2>3, <3>1
    <2>5. Chains[k] \in SUBSET (Wires \X Wires)
      BY <2>3, LongerMembers
    <2>6. ColumnPairs \subseteq Chains[k]
      BY <2>2, <2>3, <2>4, <2>5 DEF ColumnPairs
    <2>7. Chains[k] \subseteq less
      <3> SUFFICES ASSUME NEW u \in Wires, NEW v \in Wires, <<u, v>> \in Chains[k]
                   PROVE  <<u, v>> \in less
        BY <2>5
      <3>1. Chains[k - 1] \subseteq less
        BY <2>2
      <3>2. \A x \in Wires : <<u, x>> \in less /\ <<x, v>> \in less => <<u, v>> \in less
        BY DEF IInv, StrictPartialOrder
      <3>3. \/ <<u, v>> \in Chains[k - 1]
            \/ \E x \in Wires : <<u, x>> \in Chains[k - 1] /\ <<x, v>> \in Chains[k - 1]
        BY <2>4
      <3> QED
        BY ONLY <3>1, <3>2, <3>3
    <2>8. ASSUME NEW u \in Wires, NEW v \in Wires, <<u, v>> \in less, Cardinality(Between(u, v)) <= k
          PROVE  <<u, v>> \in Chains[k]
      <3>1. CASE <<u, v>> \in ColumnPairs
        BY <2>6, <3>1
      <3>2. CASE Between(u, v) # {}
        <4>1. PICK x \in Between(u, v) : TRUE
          BY <3>2
        <4>2. x \in Wires /\ <<u, x>> \in less /\ <<x, v>> \in less
          BY DEF Between
        <4>3. ASSUME NEW T \in SUBSET Between(u, v), x \notin T PROVE Cardinality(T) <= k - 1
          <5>1. IsFiniteSet(Between(u, v)) /\ Cardinality(Between(u, v)) \in Nat
            BY <1>1
          <5>2. IsFiniteSet(Between(u, v) \ {x})
                /\ Cardinality(Between(u, v) \ {x}) = Cardinality(Between(u, v)) - 1
            BY <5>1, FS_RemoveElement
          <5>3. T \in SUBSET (Between(u, v) \ {x})
            BY <4>3
          <5>4. Cardinality(T) <= Cardinality(Between(u, v) \ {x}) /\ Cardinality(T) \in Nat
            BY <5>2, <5>3, FS_Subset, FS_CardinalityType
          <5> QED
            BY <2>1, <2>8, <5>1, <5>2, <5>4
        <4>4. Cardinality(Between(u, x)) <= k - 1 /\ Cardinality(Between(x, v)) <= k - 1
          <5>1. Between(u, x) \in SUBSET Between(u, v) /\ x \notin Between(u, x)
            BY <4>2 DEF Between, IInv, StrictPartialOrder
          <5>2. Between(x, v) \in SUBSET Between(u, v) /\ x \notin Between(x, v)
            BY <4>2 DEF Between, IInv, StrictPartialOrder
          <5> QED
            BY <4>3, <5>1, <5>2
        <4>5. <<u, x>> \in Chains[k - 1] /\ <<x, v>> \in Chains[k - 1]
          BY <2>2, <4>2, <4>4
        <4> QED
          BY <2>4, <4>2, <4>5
      <3> QED
        BY <2>8, <3>1, <3>2, PairOrBetween
    <2> QED
      BY <1>3, <2>6, <2>7, <2>8
  <1> QED
    BY <1>5, <1>6

\* less_ has exactly the pairs a chain of meetings in columns asks for.
LEMMA ClosureExact == IInv /\ OInv => LessIsColumnClosure
  <1> SUFFICES ASSUME IInv, OInv PROVE LessIsColumnClosure
    OBVIOUS
  <1>1. EntriesMeet /\ LessIsGenerated /\ NumWires \in 0 .. NumWires /\ NumWires \in Nat
    BY NumWiresAssumption DEF OInv
  <1>2. ASSUME NEW u \in Wires, NEW v \in Wires, <<u, v>> \in less
        PROVE  <<u, v>> \in Chains[NumWires]
    <2>1. Between(u, v) \in SUBSET Wires
      BY DEF Between
    <2>2. Cardinality(Between(u, v)) <= NumWires
      BY <2>1, WiresFinite, FS_Subset
    <2> QED
      BY <1>1, <1>2, <2>2, ChainsReach
  <1>3. Chains[NumWires] \subseteq less
    BY <1>1, ChainsReach
  <1>4. less \subseteq Wires \X Wires
    BY DEF IInv, TypeOK
  <1>5. less = Chains[NumWires]
    BY ONLY <1>2, <1>3, <1>4
  <1> QED
    BY <1>5 DEF LessIsColumnClosure, Chains, Longer

\* The two loops of makeLess compute exactly the transitive closure of what the
\* columns require, for any number of wires and any sequence of crossings.
THEOREM LessIsAlwaysClosure == Spec => []LessIsColumnClosure
  BY OrderInvariance, ClosureExact, PTL

-----------------------------------------------------------------------------
(* The rows of the wires, and the abstract channel.  computePositions gives
   the wires of the order rows 0, 2, 4, ... and then drops one after the
   other; RInv says how far it has come: the wires from next on are still in
   the row of their place in the order, those before it are no higher than
   theirs and can drop no further, whatever is dropped after them. *)


RowsBounded == \A w \in Wires : relpos[w] \in EvenRows(2 * NumWires)

\* The wires not dropped yet are in the row of their place in the order, the
\* others no higher than that.
DroppedInOrder ==
    phase \in {"drop", "done"} =>
        \A i \in 1 .. Len(order) :
            /\ relpos[order[i]] <= 2 * (i - 1)
            /\ next <= i => relpos[order[i]] = 2 * (i - 1)

\* Each row below a wire that has been dropped is blocked.
DroppedTight ==
    phase \in {"drop", "done"} =>
        \A i \in 1 .. Len(order), w \in Wires :
            w = order[i] /\ i < next /\ ~Anchor(w) =>
                \A row \in EvenRows(relpos[w]) : row = relpos[w] \/ Blocked(w, row)

DropNotBegun == phase \in {"place", "order"} => next = 1

AllDropped == phase = "done" => next > Len(order)

RInv ==
    /\ RowsBounded
    /\ DroppedInOrder
    /\ DroppedTight
    /\ DropNotBegun
    /\ AllDropped
    /\ RowsRespectOrder
    /\ RowsSeparated

-----------------------------------------------------------------------------
(* Extents                                                                  *)

\* Start and End enclose the columns of a wire that is not an anchor.
LEMMA Extents ==
    ASSUME TypeOK, NEW w \in Wires, ~Anchor(w)
    PROVE  /\ Start(w) \in Nat /\ End(w) \in Nat
           /\ \A x \in ColumnsOf(w) : x \in Nat /\ Start(w) <= x /\ x + 1 <= End(w)
  <1>1. ColumnsOf(w) \in SUBSET Columns
    BY DEF ColumnsOf, TypeOK
  <1>2. IsFiniteSet(ColumnsOf(w)) /\ ColumnsOf(w) \in SUBSET Nat
    BY <1>1, ColumnsAssumption, FS_Subset
  <1>3. ColumnsOf(w) # {}
    BY FS_EmptySet DEF Anchor
  <1>4. /\ Start(w) \in ColumnsOf(w)
        /\ \A x \in ColumnsOf(w) : Start(w) <= x
    <2>1. \E s \in ColumnsOf(w) : \A t \in ColumnsOf(w) : s <= t
      BY <1>2, <1>3, LeastNumber
    <2> QED
      BY <2>1 DEF Start
  <1>5. \E s \in ColumnsOf(w) : End(w) = 1 + s /\ \A x \in ColumnsOf(w) : x <= s
    <2>1. \E s \in ColumnsOf(w) : \A t \in ColumnsOf(w) : t <= s
      BY <1>2, <1>3, GreatestNumber
    <2> QED
      BY <2>1 DEF End
  <1> QED
    BY <1>2, <1>4, <1>5

\* Whether two extents are disjoint does not depend on the order they are named in.
LEMMA DisjointSymmetric ==
    ASSUME TypeOK, NEW v \in Wires, NEW w \in Wires, ~Anchor(v), ~Anchor(w),
           DisjointExtents(v, w)
    PROVE  DisjointExtents(w, v)
  <1>1. Start(v) \in Nat /\ End(v) \in Nat /\ Start(w) \in Nat /\ End(w) \in Nat
    BY Extents
  <1> QED
    BY <1>1 DEF DisjointExtents

\* The extents are those of the positions.
LEMMA ExtentsKept ==
    ASSUME pos' = pos
    PROVE  /\ \A w \in Wires : Anchor(w)' = Anchor(w)
           /\ \A v, w \in Wires : DisjointExtents(v, w)' = DisjointExtents(v, w)
  <1>1. \A w \in Wires : ColumnsOf(w)' = ColumnsOf(w)
    BY DEF ColumnsOf
  <1>2. \A w \in Wires : Anchor(w)' = Anchor(w)
    BY <1>1 DEF Anchor
  <1>3. \A w \in Wires : Start(w)' = Start(w) /\ End(w)' = End(w)
    BY <1>1 DEF Start, End
  <1> QED
    BY <1>2, <1>3 DEF DisjointExtents

-----------------------------------------------------------------------------
(* Assigning rows                                                           *)

\* Of two ordered wires the greater one stands behind.
LEMMA BehindInOrder ==
    ASSUME IInv, OInv, NEW i \in 1 .. Len(order), NEW j \in 1 .. Len(order),
           <<order[i], order[j]>> \in less
    PROVE  i < j
  <1>1. Len(order) \in Nat /\ order[j] \in Wires
    BY DEF IInv, TypeOK
  <1>2. PICK k \in i + 1 .. Len(order) : order[k] = order[j]
    BY <1>1 DEF OInv, GreaterBehind
  <1>3. k \in 1 .. Len(order)
    BY <1>1, <1>2
  <1>4. k = j
    BY <1>2, <1>3 DEF OInv, TakenOnce
  <1> QED
    BY <1>1, <1>2, <1>4

\* The wire that was taken k-th gets row 2(k - 1).
LEMMA AssignedRows ==
    ASSUME IInv, OInv, AssignRows, NEW i \in 1 .. Len(order)
    PROVE  relpos'[order[i]] = 2 * (i - 1)
  <1>1. order[i] \in Wires /\ order[i] \in Ordered
    BY DEF IInv, TypeOK, Ordered
  <1>2. (CHOOSE k \in 1 .. Len(order) : order[k] = order[i]) = i
    <2>1. \A k \in 1 .. Len(order) : order[k] = order[i] => k = i
      BY DEF OInv, TakenOnce
    <2> QED
      BY <2>1
  <1> QED
    BY <1>1, <1>2 DEF AssignRows, RowsInOrder

\* Assigning rows by rank in the order separates all nets and respects less_.
LEMMA AssignRInv ==
    ASSUME IInv, OInv, RInv, AssignRows
    PROVE  RInv'
  <1>1. Ordered = Wires /\ Len(order) = NumWires /\ Len(order) \in Nat
    <2>1. Ordered = Wires
      BY NoneLeft DEF AssignRows
    <2>2. Len(order) \in Nat /\ order \in [1 .. Len(order) -> Wires]
      BY LenProperties DEF IInv, TypeOK
    <2>3. order \in Bijection(1 .. Len(order), Wires)
      <3>1. \A w \in Wires : \E i \in 1 .. Len(order) : order[i] = w
        BY <2>1 DEF Ordered
      <3> QED
        BY <2>2, <3>1 DEF OInv, TakenOnce, Bijection, Injection, Surjection, IsInjective
    <2>4. Len(order) = NumWires
      BY <2>2, <2>3, FS_CountingElements, WiresFinite DEF ExistsBijection
    <2> QED
      BY <2>1, <2>2, <2>4
  <1>2. UNCHANGED placed /\ order' = order /\ next' = next /\ phase' = "drop" /\ phase = "order"
    BY DEF AssignRows
  <1>3. \A w \in Wires : \E i \in 1 .. Len(order) : order[i] = w /\ relpos'[w] = 2 * (i - 1)
    BY <1>1, AssignedRows DEF Ordered
  <1>4. RowsBounded'
    <2> SUFFICES ASSUME NEW w \in Wires PROVE relpos'[w] \in EvenRows(2 * NumWires)
      BY DEF RowsBounded
    <2>1. PICK i \in 1 .. Len(order) : relpos'[w] = 2 * (i - 1)
      BY <1>3
    <2>2. i - 1 \in 0 .. NumWires /\ NumWires \in Nat
      BY <1>1, <2>1
    <2>3. 2 * (i - 1) \in 0 .. 2 * NumWires /\ (2 * (i - 1)) % 2 = 0
      BY <2>2
    <2> QED
      BY <2>1, <2>3 DEF EvenRows
  <1>5. DroppedInOrder'
    <2> SUFFICES ASSUME NEW i \in 1 .. Len(order)
                 PROVE  /\ relpos'[order[i]] <= 2 * (i - 1)
                        /\ next <= i => relpos'[order[i]] = 2 * (i - 1)
      BY <1>2 DEF DroppedInOrder
    <2>1. relpos'[order[i]] = 2 * (i - 1) /\ 2 * (i - 1) \in Int
      BY AssignedRows
    <2> QED
      BY <2>1
  <1>6. DroppedTight' /\ DropNotBegun' /\ AllDropped'
    <2>1. next = 1
      BY <1>2 DEF RInv, DropNotBegun
    <2> QED
      BY <1>1, <1>2, <2>1 DEF DroppedTight, DropNotBegun, AllDropped
  <1>7. RowsRespectOrder'
    <2> SUFFICES ASSUME NEW v \in Wires, NEW w \in Wires, <<v, w>> \in less
                 PROVE  relpos'[v] < relpos'[w]
      BY <1>2 DEF RowsRespectOrder, placed
    <2>1. PICK i \in 1 .. Len(order) : order[i] = v /\ relpos'[v] = 2 * (i - 1)
      BY <1>3
    <2>2. PICK j \in 1 .. Len(order) : order[j] = w /\ relpos'[w] = 2 * (j - 1)
      BY <1>3
    <2>3. i < j
      BY <2>1, <2>2, BehindInOrder
    <2> QED
      BY <2>1, <2>2, <2>3
  <1>8. RowsSeparated'
    <2> SUFFICES ASSUME NEW v \in Wires, NEW w \in Wires, relpos'[v] = relpos'[w] PROVE v = w
      BY DEF RowsSeparated
    <2>1. PICK i \in 1 .. Len(order) : order[i] = v /\ relpos'[v] = 2 * (i - 1)
      BY <1>3
    <2>2. PICK j \in 1 .. Len(order) : order[j] = w /\ relpos'[w] = 2 * (j - 1)
      BY <1>3
    <2>3. 2 * (i - 1) = 2 * (j - 1)
      BY <2>1, <2>2, Zenon
    <2>4. i \in Int /\ j \in Int
      OBVIOUS
    <2>5. i = j
      BY ONLY <2>3, <2>4
    <2> QED
      BY <2>1, <2>2, <2>5
  <1> QED
    BY <1>4, <1>5, <1>6, <1>7, <1>8 DEF RInv

-----------------------------------------------------------------------------
(* Dropping a wire                                                          *)

\* Where dropHorizontalCollected puts a wire.
LEMMA Landing ==
    ASSUME TypeOK, NEW w \in Wires, NEW row \in LandingRow(w)
    PROVE  /\ row \in EvenRows(relpos[w])
           /\ row \in Nat /\ row <= relpos[w]
           /\ ~Anchor(w) => /\ row = relpos[w] \/ ~Blocked(w, row)
                            /\ \A lower \in EvenRows(row) : lower = row \/ Blocked(w, lower)
  <1>1. relpos[w] \in Nat
    BY DEF TypeOK
  <1>2. row \in EvenRows(relpos[w])
    <2>1. CASE Anchor(w)
      <3>1. row = 0 /\ 0 \in 0 .. relpos[w] /\ 0 % 2 = 0
        BY <1>1, <2>1 DEF LandingRow
      <3> QED
        BY <3>1 DEF EvenRows
    <2>2. CASE ~Anchor(w)
      BY <2>2 DEF LandingRow
    <2> QED
      BY <2>1, <2>2
  <1>3. row \in Nat /\ row <= relpos[w]
    BY <1>1, <1>2 DEF EvenRows
  <1> QED
    BY <1>2, <1>3 DEF LandingRow

\* The even rows up to a lower bound are among those up to a higher one.
LEMMA EvenRowsMembers ==
    ASSUME NEW bound \in Nat
    PROVE  /\ \A row \in EvenRows(bound) : row \in Nat /\ row <= bound
           /\ \A higher \in Nat : bound <= higher => EvenRows(bound) \subseteq EvenRows(higher)
  BY DEF EvenRows

\* What the drop of a wire w into a row is: w is the next wire of the order, and
\* the other wires stay.
LEMMA DropStep ==
    ASSUME IInv, DropNext
    PROVE  \E w \in Wires, row \in LandingRow(order[next]) :
              /\ next \in 1 .. Len(order) /\ w = order[next]
              /\ relpos'[w] = row
              /\ \A v \in Wires : v # w => relpos'[v] = relpos[v]
              /\ next' = next + 1 /\ phase = "drop" /\ phase' = "drop"
              /\ order' = order /\ pos' = pos /\ less' = less
  <1>1. next \in 1 .. Len(order) /\ order[next] \in Wires
    BY DEF DropNext, IInv, TypeOK
  <1>2. PICK row \in LandingRow(order[next]) : relpos' = [relpos EXCEPT ![order[next]] = row]
    BY DEF DropNext
  <1>3. /\ relpos'[order[next]] = row
        /\ \A v \in Wires : v # order[next] => relpos'[v] = relpos[v]
    BY <1>1, <1>2 DEF IInv, TypeOK
  <1> QED
    BY <1>1, <1>3 DEF DropNext, placed

\* A wire that drops stays above the wires less than it and apart from those in
\* the row where it lands.
LEMMA DropKeepsRows ==
    ASSUME IInv, RInv, DropNext
    PROVE  RowsRespectOrder' /\ RowsSeparated'
  <1>1. PICK w \in Wires, row \in LandingRow(order[next]) :
              /\ next \in 1 .. Len(order) /\ w = order[next]
              /\ relpos'[w] = row
              /\ \A v \in Wires : v # w => relpos'[v] = relpos[v]
              /\ next' = next + 1 /\ phase = "drop" /\ phase' = "drop"
              /\ order' = order /\ pos' = pos /\ less' = less
    BY DropStep
  <1>2. /\ row \in Nat /\ row <= relpos[w]
        /\ ~Anchor(w) => row = relpos[w] \/ ~Blocked(w, row)
    BY <1>1, Landing DEF IInv
  <1>3. \A v \in Wires : relpos[v] \in Nat
    BY DEF IInv, TypeOK
  <1>4. /\ \A v \in Wires : Anchor(v)' = Anchor(v)
        /\ \A u, v \in Wires : DisjointExtents(u, v)' = DisjointExtents(u, v)
    BY <1>1, ExtentsKept
  <1>5. ASSUME NEW u \in Wires, NEW v \in Wires, <<u, v>> \in less, ~Anchor(u), ~Anchor(v)
        PROVE  relpos'[u] < relpos'[v]
    <2>1. u # v /\ relpos[u] < relpos[v]
      BY <1>1, <1>5 DEF RInv, RowsRespectOrder, IInv, StrictPartialOrder
    <2>2. CASE v = w
      <3>1. relpos'[u] = relpos[u]
        BY <1>1, <2>1, <2>2
      <3>2. CASE row = relpos[w]
        BY <1>1, <2>1, <2>2, <3>1, <3>2
      <3>3. CASE ~Blocked(w, row)
        <4>1. ~(row <= relpos[u])
          BY <1>5, <2>2, <3>3 DEF Blocked, DropCollision
        <4> QED
          BY <1>1, <1>2, <1>3, <2>2, <3>1, <4>1
      <3> QED
        BY <1>2, <1>5, <2>2, <3>2, <3>3
    <2>3. CASE u = w
      BY <1>1, <1>2, <1>3, <2>1, <2>3
    <2>4. CASE u # w /\ v # w
      BY <1>1, <2>1, <2>4
    <2> QED
      BY <2>2, <2>3, <2>4
  <1>6. ASSUME NEW u \in Wires, NEW v \in Wires, u # v, ~Anchor(u), ~Anchor(v),
               relpos'[u] = relpos'[v]
        PROVE  DisjointExtents(u, v)
    <2>1. ASSUME NEW other \in Wires, other # w, ~Anchor(other), ~Anchor(w),
                 relpos[other] = row
          PROVE  DisjointExtents(w, other)
      <3>1. CASE row = relpos[w]
        BY <1>1, <2>1, <3>1 DEF RInv, RowsSeparated
      <3>2. CASE ~Blocked(w, row)
        BY <2>1, <3>2 DEF Blocked, DropCollision
      <3> QED
        BY <1>2, <2>1, <3>1, <3>2
    <2>2. CASE u = w
      BY <1>1, <1>6, <2>1, <2>2
    <2>3. CASE v = w
      <3>1. DisjointExtents(w, u)
        BY <1>1, <1>6, <2>1, <2>3
      <3> QED
        BY <1>6, <2>3, <3>1, DisjointSymmetric DEF IInv
    <2>4. CASE u # w /\ v # w
      BY <1>1, <1>6, <2>4 DEF RInv, RowsSeparated
    <2> QED
      BY <2>2, <2>3, <2>4
  <1>7. RowsRespectOrder'
    BY <1>1, <1>4, <1>5 DEF RowsRespectOrder
  <1>8. RowsSeparated'
    BY <1>4, <1>6 DEF RowsSeparated
  <1> QED
    BY <1>7, <1>8

\* A wire dropped earlier can still not drop further: what blocks it is less than
\* it, and then was dropped before it, or stands lower than any row from which a
\* later wire leaves.
LEMMA DropKeepsTight ==
    ASSUME IInv, OInv, RInv, DropNext
    PROVE  DroppedTight'
  <1>1. PICK w \in Wires, row \in LandingRow(order[next]) :
              /\ next \in 1 .. Len(order) /\ w = order[next]
              /\ relpos'[w] = row
              /\ \A v \in Wires : v # w => relpos'[v] = relpos[v]
              /\ next' = next + 1 /\ phase = "drop" /\ phase' = "drop"
              /\ order' = order /\ pos' = pos /\ less' = less
    BY DropStep
  <1>2. /\ row \in EvenRows(relpos[w]) /\ row \in Nat /\ row <= relpos[w]
        /\ ~Anchor(w) => \A lower \in EvenRows(row) : lower = row \/ Blocked(w, lower)
    BY <1>1, Landing DEF IInv
  <1>3. \A v \in Wires : relpos[v] \in Nat
    BY DEF IInv, TypeOK
  <1>4. /\ \A v \in Wires : Anchor(v)' = Anchor(v)
        /\ \A u, v \in Wires : DisjointExtents(u, v)' = DisjointExtents(u, v)
    BY <1>1, ExtentsKept
  <1>5. relpos[w] = 2 * (next - 1) /\ next \in Nat
    BY <1>1 DEF RInv, DroppedInOrder
  <1>6. ASSUME NEW v \in Wires, NEW low \in Nat, Blocked(v, low),
               \A other \in Wires : DropCollision(v, low, other) => other # w
        PROVE  Blocked(v, low)'
    <2>1. PICK other \in Wires : ~Anchor(other) /\ DropCollision(v, low, other)
      BY <1>6 DEF Blocked
    <2>2. relpos'[other] = relpos[other]
      BY <1>1, <1>6, <2>1
    <2>3. DropCollision(v, low, other)'
      BY <1>1, <1>4, <2>1, <2>2 DEF DropCollision
    <2> QED
      BY <1>4, <2>1, <2>3 DEF Blocked
  <1>7. ASSUME NEW i \in 1 .. Len(order), NEW v \in Wires, v = order[i], i < next + 1, ~Anchor(v),
               NEW low \in EvenRows(relpos'[v]), low # relpos'[v]
        PROVE  Blocked(v, low)'
    <2>1. i \in Nat
      BY DEF IInv, TypeOK
    <2>2. CASE i = next
      <3>1. v = w /\ low \in EvenRows(row) /\ low # row
        BY <1>1, <1>7, <2>2
      <3>2. low \in Nat /\ low < row
        <4>1. low \in Nat /\ low <= row
          BY <1>2, <3>1, EvenRowsMembers
        <4> QED
          BY <1>2, <3>1, <4>1
      <3>3. Blocked(v, low)
        BY <1>2, <1>7, <3>1
      <3>4. \A other \in Wires : DropCollision(v, low, other) => other # w
        <4>1. <<w, w>> \notin less /\ relpos[w] # low
          BY <1>2, <1>3, <3>2 DEF IInv, StrictPartialOrder
        <4> QED
          BY <3>1, <4>1 DEF DropCollision
      <3> QED
        BY <1>6, <3>2, <3>3, <3>4
    <2>3. CASE i < next
      <3>1. v # w
        BY <1>1, <1>7, <2>3 DEF OInv, TakenOnce
      <3>2. relpos'[v] = relpos[v]
        BY <1>1, <3>1
      <3>3. Blocked(v, low)
        BY <1>1, <1>7, <2>3, <3>2 DEF RInv, DroppedTight
      <3>4. low \in Nat /\ low < relpos[v]
        BY <1>3, <1>7, <3>2, EvenRowsMembers
      <3>5. relpos[v] <= 2 * (i - 1)
        BY <1>1, <1>7 DEF RInv, DroppedInOrder
      <3>6. <<w, v>> \notin less
        BY <1>1, <1>5, <1>7, <2>1, <2>3, BehindInOrder
      <3>7. relpos[w] # low
        BY <1>3, <1>5, <2>1, <2>3, <3>4, <3>5
      <3>8. \A other \in Wires : DropCollision(v, low, other) => other # w
        BY <3>6, <3>7 DEF DropCollision
      <3> QED
        BY <1>6, <3>3, <3>4, <3>8
    <2> QED
      BY <1>5, <1>7, <2>1, <2>2, <2>3
  <1> SUFFICES ASSUME NEW i \in 1 .. Len(order'), NEW v \in Wires,
                      v = order'[i], i < next', ~Anchor(v)',
                      NEW low \in EvenRows(relpos'[v]), low # relpos'[v]
               PROVE  Blocked(v, low)'
    BY DEF DroppedTight
  <1>8. i \in 1 .. Len(order) /\ i < next + 1 /\ v = order[i] /\ ~Anchor(v)
    BY <1>1, <1>4
  <1> QED
    BY <1>7, <1>8

\* A wire that drops to the lowest row without a collision keeps all rows right.
LEMMA DropRInv ==
    ASSUME IInv, OInv, RInv, DropNext
    PROVE  RInv'
  <1>1. PICK w \in Wires, row \in LandingRow(order[next]) :
              /\ next \in 1 .. Len(order) /\ w = order[next]
              /\ relpos'[w] = row
              /\ \A v \in Wires : v # w => relpos'[v] = relpos[v]
              /\ next' = next + 1 /\ phase = "drop" /\ phase' = "drop"
              /\ order' = order /\ pos' = pos /\ less' = less
    BY DropStep
  <1>2. row \in EvenRows(relpos[w]) /\ row \in Nat /\ row <= relpos[w]
    BY <1>1, Landing DEF IInv
  <1>3. \A v \in Wires : relpos[v] \in Nat
    BY DEF IInv, TypeOK
  <1>4. RowsBounded'
    <2>1. row \in EvenRows(2 * NumWires)
      <3>1. relpos[w] \in EvenRows(2 * NumWires) /\ 2 * NumWires \in Nat
        BY NumWiresAssumption DEF RInv, RowsBounded
      <3>2. EvenRows(relpos[w]) \subseteq EvenRows(2 * NumWires)
        BY <1>3, <3>1, EvenRowsMembers
      <3> QED
        BY <1>2, <3>2
    <2> QED
      BY <1>1, <2>1 DEF RInv, RowsBounded
  <1>5. DroppedInOrder'
    <2> SUFFICES ASSUME NEW i \in 1 .. Len(order)
                 PROVE  /\ relpos'[order[i]] <= 2 * (i - 1)
                        /\ next' <= i => relpos'[order[i]] = 2 * (i - 1)
      BY <1>1 DEF DroppedInOrder
    <2>1. /\ relpos[order[i]] <= 2 * (i - 1)
          /\ next <= i => relpos[order[i]] = 2 * (i - 1)
      BY <1>1 DEF RInv, DroppedInOrder
    <2>2. order[i] \in Wires /\ i \in Int /\ next \in Int
      BY <1>1 DEF IInv, TypeOK
    <2>3. CASE order[i] = w
      <3>1. i = next
        BY <1>1, <2>3 DEF OInv, TakenOnce
      <3> QED
        BY <1>1, <1>2, <1>3, <2>1, <2>2, <2>3, <3>1
    <2>4. CASE order[i] # w
      BY <1>1, <2>1, <2>2, <2>4
    <2> QED
      BY <2>3, <2>4
  <1>6. DropNotBegun' /\ AllDropped'
    BY <1>1 DEF DropNotBegun, AllDropped
  <1> QED
    BY <1>4, <1>5, <1>6, DropKeepsRows, DropKeepsTight DEF RInv

-----------------------------------------------------------------------------
(* The invariant                                                            *)

\* Before the order is computed nothing is said of rows.
LEMMA InitRInv == Init => RInv
  <1> SUFFICES ASSUME Init PROVE RInv
    OBVIOUS
  <1>1. RowsBounded
    <2> SUFFICES ASSUME NEW w \in Wires PROVE 2 * w \in EvenRows(2 * NumWires)
      BY DEF Init, RowsBounded
    <2>1. w \in Nat /\ w <= NumWires - 1 /\ NumWires \in Nat
      BY NumWiresAssumption DEF Wires
    <2>2. 2 * w \in 0 .. 2 * NumWires /\ (2 * w) % 2 = 0
      BY <2>1
    <2> QED
      BY <2>2 DEF EvenRows
  <1> QED
    BY <1>1 DEF Init, RInv, DroppedInOrder, DroppedTight, DropNotBegun, AllDropped,
                RowsRespectOrder, RowsSeparated

\* Before the rows are assigned, and after the last drop.
LEMMA OtherRInv ==
    ASSUME IInv, RInv, UNCHANGED <<relpos, next>>,
           \/ phase' \in {"place", "order"} /\ phase \in {"place", "order"}
           \/ Finish
           \/ UNCHANGED vars
    PROVE  RInv'
  <1>1. RowsBounded'
    BY DEF RInv, RowsBounded
  <1>2. CASE phase' \in {"place", "order"} /\ phase \in {"place", "order"}
    BY <1>1, <1>2 DEF RInv, DroppedInOrder, DroppedTight, DropNotBegun, AllDropped,
                      RowsRespectOrder, RowsSeparated
  <1>3. ASSUME UNCHANGED <<pos, less, order>>,
               phase' = phase \/ (phase = "drop" /\ phase' = "done" /\ next > Len(order))
        PROVE  RInv'
    <2>1. /\ \A w \in Wires : Anchor(w)' = Anchor(w)
          /\ \A v, w \in Wires : DisjointExtents(v, w)' = DisjointExtents(v, w)
      BY <1>3, ExtentsKept
    <2>2. RowsRespectOrder' /\ RowsSeparated'
      BY <1>3, <2>1 DEF RInv, RowsRespectOrder, RowsSeparated
    <2>3. DroppedInOrder' /\ DropNotBegun' /\ AllDropped'
      BY <1>3 DEF RInv, DroppedInOrder, DropNotBegun, AllDropped
    <2>4. DroppedTight'
      <3>1. \A w \in Wires, row \in Nat : Blocked(w, row)' = Blocked(w, row)
        BY <1>3, <2>1 DEF Blocked, DropCollision
      <3>2. \A w \in Wires : relpos[w] \in Nat
        BY DEF IInv, TypeOK
      <3> QED
        BY <1>3, <2>1, <3>1, <3>2, EvenRowsMembers DEF RInv, DroppedTight
    <2> QED
      BY <1>1, <2>2, <2>3, <2>4 DEF RInv
  <1>4. CASE Finish
    BY <1>3, <1>4 DEF Finish, placed
  <1>5. CASE UNCHANGED vars
    BY <1>3, <1>5 DEF vars
  <1> QED
    BY <1>2, <1>4, <1>5

\* Every step of the router keeps the rows right.
LEMMA NextRInv == IInv /\ OInv /\ RInv /\ [Next]_vars => RInv'
  <1> SUFFICES ASSUME IInv, OInv, RInv, [Next]_vars PROVE RInv'
    OBVIOUS
  <1>1. CASE \E c \in Crossers, col \in Columns : TryInsertCrosser(c, col)
    BY <1>1, OtherRInv DEF TryInsertCrosser
  <1>2. CASE ComputePositions
    BY <1>2, OtherRInv DEF ComputePositions
  <1>3. CASE \E w \in Wires : TakeGreatest(w)
    BY <1>3, OtherRInv DEF TakeGreatest
  <1>4. CASE AssignRows
    BY <1>4, AssignRInv
  <1>5. CASE DropNext
    BY <1>5, DropRInv
  <1>6. CASE Finish
    BY <1>6, OtherRInv DEF Finish
  <1>7. CASE UNCHANGED vars
    BY <1>7, OtherRInv DEF vars
  <1> QED
    BY <1>1, <1>2, <1>3, <1>4, <1>5, <1>6, <1>7 DEF Next, Terminated

\* In every state of computePositions the rows respect the order, are apart where
\* extents meet, and those of the wires dropped so far are as low as they may be.
THEOREM RowsInvariance == Spec => [](IInv /\ OInv /\ RInv)
  <1>1. Init => IInv /\ OInv /\ RInv
    BY InitIInv, InitOInv, InitRInv
  <1>2. IInv /\ OInv /\ RInv /\ [Next]_vars => (IInv /\ OInv /\ RInv)'
    BY NextIInv, NextOInv, NextRInv
  <1> QED
    BY <1>1, <1>2, PTL DEF Spec

\* In the assigned rows, and at every moment while wires drop, a wire that must
\* be below another is below it: dropCollision's assertion never fails.
THEOREM RowsAlwaysRespectOrder == Spec => []RowsRespectOrder
  BY RowsInvariance, PTL DEF RInv

\* No two horizontal wires ever touch: those in one row leave a block free
\* between their extents.
THEOREM RowsAlwaysSeparated == Spec => []RowsSeparated
  BY RowsInvariance, PTL DEF RInv

\* One pass in ascending order is enough: in the routed channel no wire could be
\* dropped any further.
THEOREM RowsAreTight == Spec => []RowsTight
  <1>1. IInv /\ OInv /\ RInv => RowsTight
    <2> SUFFICES ASSUME IInv, OInv, RInv, phase = "done", NEW w \in Wires, ~Anchor(w)
                 PROVE  \A row \in EvenRows(relpos[w]) : row = relpos[w] \/ Blocked(w, row)
      BY DEF RowsTight
    <2>1. Ordered = Wires
      BY DEF OInv, PhasesFollow
    <2>2. PICK i \in 1 .. Len(order) : order[i] = w
      BY <2>1 DEF Ordered
    <2>3. i < next
      BY <2>2 DEF RInv, AllDropped, IInv, TypeOK
    <2> QED
      BY <2>2, <2>3 DEF RInv, DroppedTight
  <1> QED
    BY <1>1, RowsInvariance, PTL

-----------------------------------------------------------------------------
(* The abstract channel                                                     *)

\* The instance counts like the router.
LEMMA SameCardinality == Channel!Cardinality(Wires) = Cardinality(Wires)
  BY DEF Cardinality, Channel!Cardinality

\* Two nets that meet in a column are ordered.
LEMMA MeetOrdered ==
    ASSUME IInv, NEW below \in Wires, NEW above \in Wires, below # above,
           Channel!Meet(pos, below, above)
    PROVE  <<below, above>> \in less
  <1>1. PICK b \in FromBelow, a \in FromAbove :
           pos[b] = pos[a] /\ pos[b] # NoColumn /\ Liaison[b] = below /\ Liaison[a] = above
    BY DEF Channel!Meet, FromAbove
  <1> QED
    BY <1>1 DEF IInv, ColumnsOrdered, ColumnPairs

\* A strict partial order of the wires gives heights that respect the columns:
\* one more than the number of lesser wires.
LEMMA OrderRoutable == IInv => Channel!Routable(pos)
  <1> SUFFICES ASSUME IInv PROVE Channel!Routable(pos)
    OBVIOUS
  <1> DEFINE Below(w) == {v \in Wires : <<v, w>> \in less}
             height == [w \in Wires |-> Cardinality(Below(w)) + 1]
  <1>1. ASSUME NEW w \in Wires
        PROVE  /\ IsFiniteSet(Below(w)) /\ Cardinality(Below(w)) \in Nat
               /\ Cardinality(Below(w)) < Cardinality(Wires)
    <2>1. Below(w) \in SUBSET Wires /\ w \notin Below(w)
      BY DEF IInv, StrictPartialOrder
    <2>2. /\ IsFiniteSet(Below(w)) /\ Cardinality(Below(w)) <= Cardinality(Wires)
          /\ Cardinality(Wires) = Cardinality(Below(w)) => Wires = Below(w)
      BY <2>1, WiresFinite, FS_Subset
    <2>3. Cardinality(Below(w)) \in Nat /\ Cardinality(Wires) \in Nat
      BY <2>2, WiresFinite, FS_CardinalityType
    <2> HIDE DEF Below
    <2> QED
      BY <2>1, <2>2, <2>3
  <1>2. Cardinality(Wires) \in Nat
    BY WiresFinite, FS_CardinalityType
  <1>3. height \in [Wires -> 1 .. Cardinality(Wires)]
    <2>1. ASSUME NEW w \in Wires
          PROVE  Cardinality(Below(w)) + 1 \in 1 .. Cardinality(Wires)
      <3>1. Cardinality(Below(w)) \in Nat /\ Cardinality(Below(w)) < Cardinality(Wires)
        BY <1>1
      <3> HIDE DEF Below
      <3> QED
        BY <1>2, <3>1
    <2> QED
      BY <2>1
  <1>4. ASSUME NEW below \in Wires, NEW above \in Wires, <<below, above>> \in less
        PROVE  height[below] < height[above]
    <2>1. Below(below) \in SUBSET Below(above)
      BY <1>4 DEF IInv, StrictPartialOrder
    <2>2. below \in Below(above) /\ below \notin Below(below)
      BY <1>4 DEF IInv, StrictPartialOrder
    <2>3. /\ Cardinality(Below(below)) <= Cardinality(Below(above))
          /\ Cardinality(Below(above)) = Cardinality(Below(below)) => Below(above) = Below(below)
      BY <1>1, <2>1, FS_Subset
    <2>4. Cardinality(Below(below)) \in Nat /\ Cardinality(Below(above)) \in Nat
      BY <1>1
    <2>5. Cardinality(Below(below)) < Cardinality(Below(above))
      <3> HIDE DEF Below
      <3> QED
        BY <2>2, <2>3, <2>4
    <2>6. height[below] = Cardinality(Below(below)) + 1
          /\ height[above] = Cardinality(Below(above)) + 1
      OBVIOUS
    <2> QED
      BY ONLY <2>4, <2>5, <2>6
  <1> HIDE DEF height
  <1>5. \A below, above \in Wires :
           below # above /\ Channel!Meet(pos, below, above) => height[below] < height[above]
    BY <1>4, MeetOrdered
  <1> QED
    BY <1>3, <1>5, SameCardinality DEF Channel!Routable

\* tryInsertCrosser takes a free column and leaves the channel routable.
LEMMA InsertPlaces ==
    ASSUME IInv, IInv', NEW c \in Crossers, NEW col \in Columns, TryInsertCrosser(c, col),
           Channel!Routable(pos')
    PROVE  Channel!Place(c, col)
  <1>1. phase = "place" /\ phase' = "place" /\ pos[c] = NoColumn /\ pos' = [pos EXCEPT ![c] = col]
    BY DEF TryInsertCrosser
  <1>2. Channel!ColumnFree(c, col)
    BY InsertFree DEF IInv, Channel!ColumnFree, SameSide
  <1> QED
    BY <1>1, <1>2 DEF Channel!Place

\* A net with a horizontal wire is not an anchor.
LEMMA HorizontalWires ==
    ASSUME IInv, \A c \in Crossers : pos[c] # NoColumn, NEW w \in Channel!Horizontal
    PROVE  w \in Wires /\ ~Anchor(w)
  <1>1. w \in Wires /\ Channel!Touched(w) = ColumnsOf(w)
    BY DEF Channel!Horizontal, Channel!Touched, ColumnsOf
  <1>2. PICK x, y \in ColumnsOf(w) : x # y
    BY <1>1 DEF Channel!Horizontal
  <1>3. IsFiniteSet(ColumnsOf(w))
    <2>1. ColumnsOf(w) \in SUBSET Columns
      BY DEF ColumnsOf, IInv, TypeOK
    <2> QED
      BY <2>1, ColumnsAssumption, FS_Subset
  <1>4. Cardinality(ColumnsOf(w)) \in Nat /\ Cardinality(ColumnsOf(w)) # 0
        /\ Cardinality(ColumnsOf(w)) # 1
    BY <1>2, <1>3, FS_CardinalityType, FS_EmptySet, FS_Singleton
  <1> QED
    BY <1>1, <1>4 DEF Anchor

\* The rows of the routed channel connect no two nets.
LEMMA DoneNoContact ==
    ASSUME IInv, OInv, RInv, phase = "drop"
    PROVE  Channel!NoContact(relpos)
  <1>1. \A c \in Crossers : pos[c] # NoColumn
    BY DEF OInv, PhasesFollow
  <1>2. \A w \in Channel!Horizontal : w \in Wires /\ ~Anchor(w)
    BY <1>1, HorizontalWires
  <1>3. ASSUME NEW below \in Channel!Horizontal, NEW above \in Channel!Horizontal,
               below # above, Channel!Meet(pos, below, above)
        PROVE  relpos[below] < relpos[above]
    BY <1>2, <1>3, MeetOrdered DEF RInv, RowsRespectOrder
  <1>4. ASSUME NEW m \in Channel!Horizontal, NEW n \in Channel!Horizontal,
               m # n, relpos[m] = relpos[n]
        PROVE  Channel!Apart(m, n)
    <2>1. DisjointExtents(m, n)
      BY <1>2, <1>4 DEF RInv, RowsSeparated
    <2>2. Channel!Touched(m) = ColumnsOf(m) /\ Channel!Touched(n) = ColumnsOf(n)
      BY <1>1 DEF Channel!Touched, ColumnsOf
    <2>3. /\ Start(m) \in Nat /\ End(m) \in Nat
          /\ \A x \in ColumnsOf(m) : x \in Nat /\ Start(m) <= x /\ x + 1 <= End(m)
      BY <1>2, Extents DEF IInv
    <2>4. /\ Start(n) \in Nat /\ End(n) \in Nat
          /\ \A x \in ColumnsOf(n) : x \in Nat /\ Start(n) <= x /\ x + 1 <= End(n)
      BY <1>2, Extents DEF IInv
    <2>5. CASE End(n) < Start(m)
      BY <2>2, <2>3, <2>4, <2>5 DEF Channel!Apart
    <2>6. CASE Start(n) > End(m)
      BY <2>2, <2>3, <2>4, <2>6 DEF Channel!Apart
    <2> QED
      BY <2>1, <2>5, <2>6 DEF DisjointExtents
  <1> QED
    BY <1>3, <1>4 DEF Channel!NoContact

\* computePositions' end routes the abstract channel.
LEMMA FinishRoutes ==
    ASSUME IInv, OInv, RInv, Finish
    PROVE  Channel!Route
  <1>1. phase = "drop" /\ phase' = "done" /\ pos' = pos /\ relpos' = relpos
    BY DEF Finish, placed
  <1>2. \A c \in Crossers : pos[c] # NoColumn
    BY <1>1 DEF OInv, PhasesFollow
  <1>3. relpos \in [Wires -> EvenRows(2 * NumWires)]
    BY DEF IInv, TypeOK, RInv, RowsBounded
  <1> QED
    BY <1>1, <1>2, <1>3, DoneNoContact DEF Channel!Route

\* A step of the router is one of the abstract channel or leaves it as it is.
LEMMA StepImplements ==
    IInv /\ OInv /\ RInv /\ (IInv /\ Channel!Routable(pos))' /\ [Next]_vars
        => [Channel!Next]_(Channel!channel)
  <1> SUFFICES ASSUME IInv, OInv, RInv, IInv', Channel!Routable(pos)', [Next]_vars
               PROVE  [Channel!Next]_(Channel!channel)
    OBVIOUS
  <1>1. ASSUME NEW c \in Crossers, NEW col \in Columns, TryInsertCrosser(c, col)
        PROVE  Channel!Next
    <2>1. Channel!Routable(pos')
      BY DEF Channel!Routable, Channel!Meet
    <2> QED
      BY <1>1, <2>1, InsertPlaces DEF Channel!Next
  <1>2. CASE pos' = pos /\ phase # "done" /\ phase' # "done"
    BY <1>2 DEF Channel!channel
  <1>3. CASE Finish
    BY <1>3, FinishRoutes DEF Channel!Next
  <1>4. CASE UNCHANGED vars
    BY <1>4 DEF vars, Channel!channel
  <1>5. ComputePositions \/ (\E w \in Wires : TakeGreatest(w)) \/ AssignRows \/ DropNext
           => pos' = pos /\ phase # "done" /\ phase' # "done"
    BY DEF ComputePositions, TakeGreatest, AssignRows, DropNext, placed
  <1> QED
    BY <1>1, <1>2, <1>3, <1>4, <1>5 DEF Next, Terminated

\* The router implements the abstract channel, whatever crossers there are: no
\* sequence of accepted columns makes the channel unroutable, and the rows it
\* ends with respect every column and connect no two nets.
THEOREM RouterImplementsChannel == Spec => ImplementsChannel
  <1>1. Init => Channel!Init
    BY DEF Init, Channel!Init
  <1>2. Spec => [](IInv /\ Channel!Routable(pos))
    BY RowsInvariance, OrderRoutable, PTL
  <1> QED
    BY <1>1, <1>2, RowsInvariance, StepImplements, PTL
    DEF Spec, ImplementsChannel, Channel!Spec

-----------------------------------------------------------------------------
(* What mayBeCrossed refuses                                                *)

\* Heights that respect the columns respect all of less_, which the columns
\* generate.
LEMMA HeightsRespect ==
    ASSUME IInv, OInv, NEW p,
           \A c \in Crossers : pos[c] # NoColumn => p[c] = pos[c],
           NEW height \in [Wires -> 1 .. Cardinality(Wires)],
           \A below, above \in Wires :
              below # above /\ Channel!Meet(p, below, above) => height[below] < height[above],
           NEW u \in Wires, NEW v \in Wires, <<u, v>> \in less
    PROVE  height[u] < height[v]
  <1> DEFINE R == {e \in Wires \X Wires : height[e[1]] < height[e[2]]}
  <1>1. \A x, y \in Wires : <<x, y>> \in R <=> height[x] < height[y]
    OBVIOUS
  <1>2. R \in SUBSET (Wires \X Wires)
    OBVIOUS
  <1>3. \A x \in Wires : height[x] \in Int
    OBVIOUS
  <1> HIDE DEF R
  <1>4. Transitive(R)
    BY <1>1, <1>3 DEF Transitive
  <1>5. ASSUME NEW x \in Wires, NEW w \in Wires, Listed(x, w) PROVE <<x, w>> \in R
    <2>1. PICK col \in Columns : <<x, col>> \in predecessors[w]
      BY <1>5 DEF Listed
    <2>2. PICK b \in FromBelow, a \in FromAbove :
             pos[b] = col /\ pos[a] = col /\ Liaison[b] = x /\ Liaison[a] = w /\ x # w
      BY <2>1 DEF OInv, EntriesMeet
    <2>3. p[b] = col /\ p[a] = col /\ col # NoColumn
      BY <2>2, ColumnsAssumption, CrossersAssumption DEF FromAbove
    <2>4. Channel!Meet(p, x, w)
      BY <2>2, <2>3 DEF Channel!Meet, FromAbove
    <2> QED
      BY <1>1, <2>2, <2>4
  <1>6. less \subseteq R
    BY <1>2, <1>4, <1>5 DEF OInv, LessIsGenerated
  <1> QED
    BY <1>1, <1>6

\* mayBeCrossed refuses a free column only if no rows could respect the columns
\* with the crosser there: it costs the placement no solution.
THEOREM RefusalsJustified == Spec => []RefusesOnlyUnroutable
  <1>1. IInv /\ OInv => RefusesOnlyUnroutable
    <2> SUFFICES ASSUME IInv, OInv, NEW c \in Crossers, NEW col \in Columns,
                        pos[c] = NoColumn, ~MayBeCrossed(c, col), Channel!ColumnFree(c, col),
                        Channel!Routable([pos EXCEPT ![c] = col])
                 PROVE  FALSE
      BY DEF RefusesOnlyUnroutable
    <2> DEFINE p == [pos EXCEPT ![c] = col]
    <2>1. PICK height \in [Wires -> 1 .. Cardinality(Wires)] :
             \A below, above \in Wires :
                below # above /\ Channel!Meet(p, below, above) => height[below] < height[above]
      BY SameCardinality DEF Channel!Routable
    <2>2. CrosserAt(OwnSide(c), col) = {}
      BY CrossersAssumption DEF Channel!ColumnFree, CrosserAt, OwnSide, FromAbove
    <2>3. PICK counterpart \in Connected(OppositeSide(c), col) :
             counterpart # Liaison[c] /\ Contradicts(c, counterpart)
      BY <2>2 DEF MayBeCrossed
    <2>4. PICK d \in OppositeSide(c) : pos[d] = col /\ Liaison[d] = counterpart
      BY ConnectedWires DEF IInv
    <2>5. d \in Crossers /\ d # c /\ Liaison[c] \in Wires /\ Liaison[d] \in Wires
      BY CrossersAssumption DEF OppositeSide, FromAbove
    <2>6. p[c] = col /\ p[d] = col /\ col # NoColumn
      BY <2>4, <2>5, ColumnsAssumption DEF IInv, TypeOK
    <2>7. \A x \in Crossers : pos[x] # NoColumn => p[x] = pos[x]
      BY DEF IInv, TypeOK
    <2>8. \A x \in Wires : height[x] \in Int
      OBVIOUS
    <2> HIDE DEF p
    <2>9. \A u, v \in Wires : <<u, v>> \in less => height[u] < height[v]
      BY <2>1, <2>7, HeightsRespect
    <2>10. CASE c \in FromBelow
      <3>1. d \in Crossers \ FromBelow /\ <<Liaison[d], Liaison[c]>> \in less
        BY <2>3, <2>4, <2>10 DEF OppositeSide, FromAbove, Contradicts
      <3>2. Channel!Meet(p, Liaison[c], Liaison[d])
        BY <2>6, <2>10, <3>1 DEF Channel!Meet
      <3>3. height[Liaison[c]] < height[Liaison[d]]
        BY <2>1, <2>3, <2>4, <2>5, <3>2
      <3> QED
        BY <2>5, <2>8, <2>9, <3>1, <3>3
    <2>11. CASE c \notin FromBelow
      <3>1. d \in FromBelow /\ <<Liaison[c], Liaison[d]>> \in less
        BY <2>3, <2>4, <2>11 DEF OppositeSide, FromAbove, Contradicts
      <3>2. Channel!Meet(p, Liaison[d], Liaison[c])
        BY <2>6, <2>11, <3>1 DEF Channel!Meet
      <3>3. height[Liaison[d]] < height[Liaison[c]]
        BY <2>1, <2>3, <2>4, <2>5, <3>2
      <3> QED
        BY <2>5, <2>8, <2>9, <3>1, <3>3
    <2> QED
      BY <2>10, <2>11
  <1> QED
    BY <1>1, OrderInvariance, PTL
=============================================================================
