---------------------------- MODULE Transformer ----------------------------
(***************************************************************************)
(* The transformer knows which sequence of transformations leads from one  *)
(* type of representation to another.  Transformations are registered by   *)
(* their type, a pair <<source, destination>>; calculateTransformationPaths *)
(* then completes the map of paths in passes over a work queue: pass       *)
(* minLength looks for paths of that length, joined from two paths found   *)
(* before, and puts every pair back that has no path yet or a path that    *)
(* may still become shorter.  Paths found early in a pass are used later   *)
(* in the same pass, so a pass can find paths longer than minLength.       *)
(*                                                                         *)
(* What a transformation does to a representation is the business of the   *)
(* entity (EntityRepresentations) and of the modules of the algorithms.    *)
(***************************************************************************)
EXTENDS Integers, Sequences

CONSTANTS
    NumTypes,     \* the number of representation types, validTypeIDs.size()
    Registrable   \* the types of transformation that may be registered

Types == 0 .. NumTypes - 1
Pairs == {p \in Types \X Types : p[1] # p[2]}

ASSUME NumTypesAssumption == NumTypes \in Nat
ASSUME RegistrableAssumption == Registrable \subseteq Pairs

VARIABLES
    transformations,  \* the keys of transformations_: the types registered
    paths,            \* transformationPaths_, NoPath for a pair without an entry
    phase,            \* "register", then "search" until "ready"
    current,          \* currentWorkQueue, whose pairs are in type order
    later,            \* nextWorkQueue, filled in the same order
    minLength         \* the pass

vars == <<transformations, paths, phase, current, later, minLength>>

NoPath == <<>>
Found(p) == paths[p] # NoPath

-----------------------------------------------------------------------------
Init ==
    /\ transformations = {}
    /\ paths = [p \in Pairs |-> NoPath]
    /\ phase = "register"
    /\ current = {}
    /\ later = {}
    /\ minLength = 2

\* registerTransformations adds the transformations of a list.  A second one of
\* a type already there replaces the first in select and changes nothing here.
AddTransformation(t) ==
    /\ phase = "register"
    /\ t \notin transformations
    /\ transformations' = transformations \cup {t}
    /\ UNCHANGED <<paths, phase, current, later, minLength>>

\* Mutant of StartSearch: a pair of equal types is not skipped.
StartSearchWithLoops ==
    /\ phase = "register"
    /\ phase' = "search"
    /\ paths' = [p \in Pairs |-> IF p \in transformations THEN <<p[2]>> ELSE NoPath]
    /\ current' = (Types \X Types) \ transformations
    /\ UNCHANGED <<transformations, later, minLength>>

\* The first loop: a transformation is a path of its own, the other pairs are
\* work.
StartSearch ==
    /\ phase = "register"
    /\ phase' = "search"
    /\ paths' = [p \in Pairs |-> IF p \in transformations THEN <<p[2]>> ELSE NoPath]
    /\ current' = Pairs \ transformations
    /\ UNCHANGED <<transformations, later, minLength>>

-----------------------------------------------------------------------------
(* One item of work                                                         *)

\* The types a path of the pair can be joined at, and the joined path.
Intermediates(p) ==
    {i \in Types \ {p[1], p[2]} : Found(<<p[1], i>>) /\ Found(<<i, p[2]>>)}

\* Mutant of Join: the parts in the wrong order.
JoinReversed(p, i) == paths[<<i, p[2]>>] \o paths[<<p[1], i>>]

Join(p, i) == paths[<<p[1], i>>] \o paths[<<i, p[2]>>]

\* The loop stops at the first join of length minLength.
Exact(p) == {i \in Intermediates(p) : Len(Join(p, i)) = minLength}

\* Until then a pair that had a path keeps the first of the shortest joins, if
\* shorter than its path.
Shorter(p) == {i \in Intermediates(p) : Len(Join(p, i)) < Len(paths[p])}

\* Mutant of Chosen: every join of the loop replaces the path.
ChosenLast(p) ==
    {i \in Intermediates(p) : \A j \in Intermediates(p) : j <= i}

\* A pair that had no path when the item was taken takes every join there is,
\* and keeps the last: icurrentPath was looked up before the loop.
Chosen(p) ==
    CASE Exact(p) # {} /\ (Found(p) => minLength < Len(paths[p])) ->
            {i \in Exact(p) : \A j \in Exact(p) : i <= j}
      [] Exact(p) = {} /\ ~Found(p) ->
            {i \in Intermediates(p) : \A j \in Intermediates(p) : j <= i}
      [] OTHER ->
            {i \in Shorter(p) : \A j \in Shorter(p) :
                \/ Len(Join(p, i)) < Len(Join(p, j))
                \/ Len(Join(p, i)) = Len(Join(p, j)) /\ i <= j}

\* Mutants of Unsettled: no second look at a path, and a look at every path.
UnsettledIfMissing(p, path) == path = NoPath
UnsettledIfExact(p, path)   == path = NoPath \/ Len(path) >= minLength

\* A pair is put back without a path, or with one that may become shorter.
Unsettled(p, path) == path = NoPath \/ Len(path) > minLength

\* The queue holds the pairs in the order of the two nested loops over the
\* types, and what is put back keeps it.
Before(p, q) == p[1] < q[1] \/ (p[1] = q[1] /\ p[2] < q[2])

Front(p) == p \in current /\ \A q \in current \ {p} : Before(p, q)

Work(p) ==
    /\ phase = "search"
    /\ minLength < NumTypes
    /\ Front(p)
    /\ \/ Chosen(p) = {} /\ UNCHANGED paths
       \/ \E i \in Chosen(p) : paths' = [paths EXCEPT ![p] = Join(p, i)]
    /\ current' = current \ {p}
    /\ later' = IF Unsettled(p, paths'[p]) THEN later \cup {p} ELSE later
    /\ UNCHANGED <<transformations, phase, minLength>>

NextPass ==
    /\ phase = "search"
    /\ minLength < NumTypes
    /\ current = {}
    /\ current' = later
    /\ later' = {}
    /\ minLength' = minLength + 1
    /\ UNCHANGED <<transformations, paths, phase>>

Ready ==
    /\ phase = "search"
    /\ minLength >= NumTypes
    /\ phase' = "ready"
    /\ UNCHANGED <<transformations, paths, current, later, minLength>>

Terminated == phase = "ready" /\ UNCHANGED vars

Next ==
    \/ \E t \in Registrable : AddTransformation(t)
    \/ StartSearch
    \/ \E p \in Pairs : Work(p)
    \/ NextPass
    \/ Ready
    \/ Terminated

Spec == Init /\ [][Next]_vars

-----------------------------------------------------------------------------
(* The ready transformer's answers                                          *)

\* getTransformationPath(dst, TypeSet): the first source with a shortest path.
\* The answer is the set of its one entry, empty for nullptr.
GetTransformationPath(dst, existing) ==
    LET sources == {s \in existing \ {dst} : Found(<<s, dst>>)}
        Size(s) == Len(paths[<<s, dst>>])
    IN  {<<s, dst>> : s \in {x \in sources : \A y \in sources :
                               Size(x) < Size(y) \/ (Size(x) = Size(y) /\ x <= y)}}

-----------------------------------------------------------------------------
(* Properties                                                               *)

TypeOK ==
    /\ transformations \subseteq Pairs
    /\ paths \in [Pairs -> Seq(Types)]
    /\ phase \in {"register", "search", "ready"}
    /\ current \subseteq Pairs
    /\ later \subseteq Pairs
    /\ minLength \in Nat

\* A path leads from the pair's source to its destination by transformations
\* that are registered: Entity::generate may call transform for every element,
\* whose select then never fails its assertion.
IsWalk(p, path) ==
    /\ path[Len(path)] = p[2]
    /\ \A k \in 1 .. Len(path) :
          <<IF k = 1 THEN p[1] ELSE path[k - 1], path[k]>> \in transformations

PathsAreWalks == \A p \in Pairs : Found(p) => IsWalk(p, paths[p])

\* The assertion at the start of an item: whatever a pass leaves for the next
\* one has no path that the passes so far should have settled, although paths
\* are joined from paths that are still changing.
WorkIsUnsettled ==
    \A p \in current : Found(p) => Len(paths[p]) >= minLength

\* A path once found is only ever replaced by a shorter one in a later pass.
PathsOnlyShrink ==
    [][\A p \in Pairs :
          phase = "search" /\ Found(p) =>
            paths'[p] = paths[p] \/ Len(paths'[p]) \in 1 .. Len(paths[p]) - 1]_vars

\* The pairs connected by at most k transformations.
Within[k \in 1 .. NumTypes] ==
    IF k = 1 THEN transformations
    ELSE LET shorter == Within[k - 1]
         IN  shorter \cup {p \in Pairs : \E i \in Types :
                              <<p[1], i>> \in shorter /\ <<i, p[2]>> \in transformations}

\* When the transformer is ready, every set of existing representations gets a
\* path exactly if some sequence of transformations leads from one of them to
\* the destination, and no sequence from any of them is shorter.
AnswersAreShortest ==
    phase = "ready" =>
        LET within == [k \in 1 .. NumTypes |-> Within[k]] IN
        \A dst \in Types : \A existing \in SUBSET (Types \ {dst}) :
            LET answer == GetTransformationPath(dst, existing)
                reaching(k) == \E s \in existing : <<s, dst>> \in within[k]
            IN  /\ answer # {} <=> reaching(NumTypes)
                /\ \A p \in answer :
                      \A k \in 1 .. NumTypes : reaching(k) <=> Len(paths[p]) <= k
=============================================================================
