--------------------------- MODULE ConstructionProofs ---------------------------
(***************************************************************************)
(* Theorems about module Construction, for every namespace, every plan and *)
(* every order in which a program selects and connects.  The invariant is  *)
(* that the build is sound: its ports form trees, what is known is in a    *)
(* connection, connections know their relatives, and no builder that       *)
(* counts as stateless has a stateful part.  There is a lemma for each     *)
(* operation on a build.                                                   *)
(*                                                                         *)
(* First come lemmas about modules Ports and StructureBuilder: what a path *)
(* is made of, that the searches for the pair of ports a request means are *)
(* defined, what they find and that it is the only such pair, and which    *)
(* connections are joined then.  The searches are recursive functions:     *)
(* they exist because every call is one level further down the trees of    *)
(* ports, and what they find is shown of a deepest pair of ports for which *)
(* it is not so.                                                           *)
(***************************************************************************)
EXTENDS Construction, Minima, SequenceTheorems

Paths == Seq(Nat)

\* A port, whether the structure has it or not.
Addresses == Nat \X Paths

\* The port this path leads to from p.
Under(p, path) == <<p[1], p[2] \o path>>

\* What extending a path and putting one after another does to it.
LEMMA PathFacts ==
    ASSUME NEW s \in Paths, NEW t \in Paths, NEW i \in Nat
    PROVE  /\ s \o t \in Paths /\ Len(s \o t) = Len(s) + Len(t) /\ Len(s) \in Nat
           /\ Append(s, i) \in Paths /\ Len(Append(s, i)) = Len(s) + 1 /\ Append(s, i) # <<>>
           /\ s \o <<>> = s /\ <<>> \in Paths
           /\ Front(Append(s, i)) = s /\ Last(Append(s, i)) = i
<1>1. /\ s \o t \in Paths /\ Len(s \o t) = Len(s) + Len(t) /\ Len(s) \in Nat
      /\ Append(s, i) \in Paths /\ Len(Append(s, i)) = Len(s) + 1 /\ Append(s, i) # <<>>
      /\ <<>> \in Paths /\ <<i>> \in Paths
  BY AppendProperties, ConcatProperties DEF Paths
<1>2. s \o <<>> = s
  BY ConcatEmptySeq DEF Paths
<1>4. Last(Append(s, i)) = i
  BY AppendProperties DEF Last, Paths
<1>5. Front(Append(s, i)) = s
  <2>1. PICK a : a = Append(s, i) /\ a \in Paths /\ Len(a) - 1 = Len(s) /\ Len(s) \in Nat
                 /\ \A k \in 1 .. Len(s) : a[k] = s[k]
    <3>1. PICK a : a = Append(s, i)
      OBVIOUS
    <3>2. s \in Seq(Nat) /\ a \in Paths /\ Len(a) = Len(s) + 1 /\ Len(s) \in Nat
      BY <1>1, <3>1 DEF Paths
    <3>3. \A k \in 1 .. Len(s) : a[k] = s[k]
      BY ONLY i \in Nat, <3>1, <3>2, AppendProperties
    <3>4. Len(a) - 1 = Len(s)
      BY ONLY <3>2
    <3>5. QED BY ONLY <3>1, <3>2, <3>3, <3>4
  <2>2. Front(a) = SubSeq(a, 1, Len(s))
    BY <2>1 DEF Front
  <2>3. \A k \in 1 .. Len(s) : a[k] \in Nat
    BY <2>1 DEF Paths
  <2>4. /\ SubSeq(a, 1, Len(s)) \in Seq(Nat)
        /\ Len(SubSeq(a, 1, Len(s))) = IF 1 <= Len(s) THEN Len(s) - 1 + 1 ELSE 0
        /\ \A k \in 1 .. Len(s) - 1 + 1 : SubSeq(a, 1, Len(s))[k] = a[1 + k - 1]
    <3>1. 1 \in Int /\ Len(s) \in Int
      BY <2>1
    <3>2. QED BY ONLY <2>3, <3>1, SubSeqProperties
  <2>5. PICK u : u = SubSeq(a, 1, Len(s)) /\ u \in Seq(Nat) /\ Len(u) = Len(s)
                 /\ \A k \in 1 .. Len(s) : u[k] = s[k]
    <3>1. PICK u : u = SubSeq(a, 1, Len(s))
      OBVIOUS
    <3>2. u \in Seq(Nat) /\ (Len(u) = IF 1 <= Len(s) THEN Len(s) - 1 + 1 ELSE 0)
          /\ \A k \in 1 .. Len(s) - 1 + 1 : u[k] = a[1 + k - 1]
      BY ONLY <2>4, <3>1
    <3>3. Len(u) = Len(s) /\ \A k \in 1 .. Len(s) : u[k] = s[k]
      BY ONLY <2>1, <3>2
    <3>4. QED BY ONLY <3>1, <3>2, <3>3
  <2>6. u = s
    BY <2>5, SeqEqual DEF Paths
  <2>7. QED BY <2>1, <2>2, <2>5, <2>6
<1>6. QED BY ONLY <1>1, <1>2, <1>4, <1>5

\* It does not matter whether a path is extended before or after it is put after another.
LEMMA ConcatThenAppend ==
    ASSUME NEW s \in Paths, NEW t \in Paths, NEW i \in Nat
    PROVE  Append(s \o t, i) = s \o Append(t, i)
<1>1. s \o t \in Paths /\ <<i>> \in Paths
  BY PathFacts DEF Paths
<1>2. Append(s \o t, i) = (s \o t) \o <<i>> /\ Append(t, i) = t \o <<i>>
  BY <1>1, AppendIsConcat DEF Paths
<1>3. (s \o t) \o <<i>> = s \o (t \o <<i>>)
  BY <1>1, ConcatAssociative DEF Paths
<1>4. QED BY <1>2, <1>3

\* A path is empty or leads on from another.
LEMMA PathEnds ==
    ASSUME NEW path \in Paths, path # <<>>
    PROVE  /\ \E rest \in Paths, i \in Nat : path = Append(rest, i)
           /\ path = Append(Front(path), Last(path)) /\ Front(path) \in Paths /\ Last(path) \in Nat
<1>1. PICK rest \in Paths, i \in Nat : path = Append(rest, i)
  BY SequenceEmptyOrAppend DEF Paths
<1>2. QED BY <1>1, PathFacts

\* A path tells what it was extended from.
LEMMA SamePath ==
    ASSUME NEW s \in Paths, NEW t \in Paths, NEW i \in Nat, NEW j \in Nat, Append(s, i) = Append(t, j)
    PROVE  s = t /\ i = j
BY AppendInjective DEF Paths

\* Ports below a port are those a path leads to from it, and From finds the path.
LEMMA BelowIsUnder ==
    ASSUME NEW p \in Addresses, NEW q \in Addresses, q[1] = p[1], IsPrefix(p[2], q[2])
    PROVE  /\ From(p, q) \in Paths
           /\ q = Under(p, From(p, q))
<1>1. PICK s, t, n : s = p[2] /\ t = q[2] /\ n = Len(s)
  OBVIOUS
<1>2. s \in Seq(Nat) /\ t \in Seq(Nat) /\ n \in Nat /\ Len(t) \in Nat /\ n <= Len(t)
      /\ SubSeq(s, 1, n) = SubSeq(t, 1, n) /\ From(p, q) = SubSeq(t, n + 1, Len(t))
  BY <1>1 DEF Addresses, Paths, IsPrefix, From
<1>3. SubSeq(s, 1, n) = s /\ SubSeq(t, 1, Len(t)) = t
  BY ONLY <1>1, <1>2, SubSeqFull
<1>4. SubSeq(t, 1, n) \o SubSeq(t, n + 1, Len(t)) = SubSeq(t, 1, Len(t))
  <2>1. 1 \in 1 .. Len(t) + 1 /\ n \in 1 - 1 .. Len(t) /\ Len(t) \in n .. Len(t)
    BY ONLY <1>2
  <2>2. QED BY ONLY <1>2, <2>1, ConcatAdjacentSubSeq
<1>5. SubSeq(t, n + 1, Len(t)) \in Seq(Nat)
  <2>1. \A i \in n + 1 .. Len(t) : t[i] \in Nat
    BY ONLY <1>2
  <2>2. n + 1 \in Int /\ Len(t) \in Int
    BY ONLY <1>2
  <2>3. QED BY ONLY <2>1, <2>2, SubSeqProperties
<1>6. q = <<p[1], t>>
  BY <1>1 DEF Addresses
<1>7. QED BY ONLY <1>1, <1>2, <1>3, <1>4, <1>5, <1>6 DEF Under, Paths

\* A port a path leads to from p is below p, and From finds the path.
LEMMA UnderIsBelow ==
    ASSUME NEW p \in Addresses, NEW path \in Paths
    PROVE  /\ Under(p, path) \in Addresses /\ Under(p, path)[1] = p[1]
           /\ Under(p, path)[2] = p[2] \o path
           /\ IsPrefix(p[2], Under(p, path)[2])
           /\ From(p, Under(p, path)) = path
<1>1. PICK s, t, n : s = p[2] /\ t = s \o path /\ n = Len(s)
  OBVIOUS
<1>2. s \in Seq(Nat) /\ path \in Seq(Nat) /\ t \in Seq(Nat) /\ p[1] \in Nat /\ n \in Nat
      /\ Len(path) \in Nat /\ Len(t) = n + Len(path) /\ s \in Paths
  <2>1. s \in Seq(Nat) /\ path \in Seq(Nat) /\ p[1] \in Nat
    BY <1>1 DEF Addresses, Paths
  <2>2. t \in Seq(Nat) /\ Len(t) = Len(s) + Len(path)
    BY ONLY <1>1, <2>1, ConcatProperties
  <2>3. QED BY <1>1, <2>1, <2>2 DEF Paths
<1>3. Under(p, path) = <<p[1], t>>
  BY <1>1 DEF Under
<1>4. \A i \in 1 .. n : t[i] = s[i] /\ s[i] \in Nat
  <2>1. \A i \in 1 .. Len(s) + Len(path) : t[i] = IF i <= Len(s) THEN s[i] ELSE path[i - Len(s)]
    BY ONLY <1>1, <1>2, ConcatProperties
  <2>2. QED BY ONLY <1>1, <1>2, <2>1
<1>5. \A i \in 1 .. Len(path) : t[n + i] = path[i]
  <2>1. \A i \in 1 .. Len(s) + Len(path) : t[i] = IF i <= Len(s) THEN s[i] ELSE path[i - Len(s)]
    BY ONLY <1>1, <1>2, ConcatProperties
  <2>2. ASSUME NEW i \in 1 .. Len(path) PROVE t[n + i] = path[i]
    <3>1. n + i \in 1 .. Len(s) + Len(path) /\ ~(n + i <= Len(s)) /\ (n + i) - Len(s) = i
      BY ONLY <1>1, <1>2
    <3>2. QED BY ONLY <2>1, <3>1
  <2>3. QED BY <2>2
<1>6. SubSeq(s, 1, n) = SubSeq(t, 1, n)
  <2>1. PICK u : u = SubSeq(t, 1, n)
    OBVIOUS
  <2>2. \A i \in 1 .. n : t[i] \in Nat
    BY <1>4
  <2>3. 1 \in Int /\ n \in Int
    BY <1>2
  <2>4. u \in Seq(Nat) /\ (Len(u) = IF 1 <= n THEN n - 1 + 1 ELSE 0)
        /\ \A i \in 1 .. n - 1 + 1 : u[i] = t[1 + i - 1]
    BY ONLY <2>1, <2>2, <2>3, SubSeqProperties
  <2>5. Len(u) = Len(s) /\ \A i \in 1 .. Len(u) : u[i] = s[i]
    BY ONLY <1>1, <1>2, <1>4, <2>4
  <2>6. u = s
    BY ONLY <1>2, <2>4, <2>5, SeqEqual
  <2>7. SubSeq(s, 1, n) = s
    BY ONLY <1>1, <1>2, SubSeqFull
  <2>8. QED BY <2>1, <2>6, <2>7
<1>7. SubSeq(t, n + 1, Len(t)) = path
  <2>1. PICK u : u = SubSeq(t, n + 1, Len(t))
    OBVIOUS
  <2>2. \A i \in n + 1 .. Len(t) : t[i] \in Nat
    BY <1>2
  <2>3. n + 1 \in Int /\ Len(t) \in Int
    BY <1>2
  <2>4. u \in Seq(Nat) /\ (Len(u) = IF n + 1 <= Len(t) THEN Len(t) - (n + 1) + 1 ELSE 0)
        /\ \A i \in 1 .. Len(t) - (n + 1) + 1 : u[i] = t[n + 1 + i - 1]
    BY ONLY <2>1, <2>2, <2>3, SubSeqProperties
  <2>5. Len(u) = Len(path) /\ \A i \in 1 .. Len(u) : u[i] = path[i]
    <3>1. Len(u) = Len(path)
      BY ONLY <1>2, <2>4
    <3>2. ASSUME NEW i \in 1 .. Len(u) PROVE u[i] = path[i]
      <4>1. i \in 1 .. Len(path) /\ i \in 1 .. Len(t) - (n + 1) + 1 /\ n + 1 + i - 1 = n + i
        BY ONLY <1>2, <3>1
      <4>2. QED BY ONLY <1>5, <2>4, <4>1
    <3>3. QED BY ONLY <3>1, <3>2
  <2>6. u = path
    BY ONLY <1>2, <2>4, <2>5, SeqEqual
  <2>7. QED BY <2>1, <2>6
<1>8. Under(p, path) \in Addresses
  BY <1>2, <1>3 DEF Addresses, Paths
<1>9. IsPrefix(s, t)
  BY <1>1, <1>2, <1>6 DEF IsPrefix
<1>10. From(p, Under(p, path)) = path
  <2>1. Under(p, path)[2] = t
    BY <1>3
  <2>2. QED BY ONLY <1>1, <1>7, <2>1 DEF From
<1>11. QED BY <1>1, <1>3, <1>8, <1>9, <1>10

-----------------------------------------------------------------------------
(* Ports that form trees.                                                    *)

\* All names; the second part is there for the provers, which do not know a string.
PortNames == STRING \cup {"top", AnonymousName}

PortRecords == [name: PortNames, dir: SUBSET {"in", "out"}, subs: Nat, real: BOOLEAN]

\* No path is longer than a certain number.
Bounded(P) == \E n \in Nat : \A p \in DOMAIN P : Len(p[2]) <= n

\* A single port has one direction.
Directed(port) == port.subs = 0 => port.dir \in {{"in"}, {"out"}}

\* A port encloses the ones it counts, and those of the parts are known.
PortsTyped(P) ==
    /\ P \in [DOMAIN P -> PortRecords] /\ DOMAIN P \subseteq Addresses
    /\ Bounded(P)
    /\ \A p \in DOMAIN P : \A i \in 1 .. P[p].subs : Sub(p, i) \in DOMAIN P
    /\ \A p \in DOMAIN P : p[1] # 0 => P[p].real /\ Directed(P[p])

\* A port counts the ports it encloses, and what a known one encloses is known.
PortsTree(P) ==
    \A p \in DOMAIN P :
        ~IsTop(p) => /\ Enclosing(p) \in DOMAIN P
                     /\ Last(p[2]) \in 1 .. P[Enclosing(p)].subs
                     /\ P[Enclosing(p)].real => P[p].real

\* An enclosed port is one step further down, in the same element.
LEMMA SubFacts ==
    ASSUME NEW p \in Addresses, NEW i \in Nat
    PROVE  /\ Sub(p, i) \in Addresses /\ Sub(p, i)[1] = p[1] /\ Sub(p, i)[2] = Append(p[2], i)
           /\ Len(Sub(p, i)[2]) = Len(p[2]) + 1 /\ Len(p[2]) \in Nat
           /\ ~IsTop(Sub(p, i)) /\ Enclosing(Sub(p, i)) = p /\ Last(Sub(p, i)[2]) = i
           /\ Sub(p, i) # p
<1>1. p[1] \in Nat /\ p[2] \in Paths /\ p = <<p[1], p[2]>>
  BY DEF Addresses
<1>2. /\ Append(p[2], i) \in Paths /\ Len(Append(p[2], i)) = Len(p[2]) + 1 /\ Append(p[2], i) # <<>>
      /\ Front(Append(p[2], i)) = p[2] /\ Last(Append(p[2], i)) = i /\ Len(p[2]) \in Nat
  BY <1>1, PathFacts
<1>3. Sub(p, i)[1] = p[1] /\ Sub(p, i)[2] = Append(p[2], i)
  BY DEF Sub
<1>4. Sub(p, i) \in Addresses
  BY <1>1, <1>2 DEF Sub, Addresses
<1>5. ~IsTop(Sub(p, i)) /\ Enclosing(Sub(p, i)) = p
  BY <1>1, <1>2, <1>3 DEF IsTop, Enclosing
<1>6. Sub(p, i) # p
  BY <1>2, <1>3
<1>7. QED BY <1>2, <1>3, <1>4, <1>5, <1>6

\* A port is enclosed in one other, at one position.
LEMMA SubInjective ==
    ASSUME NEW p \in Addresses, NEW q \in Addresses, NEW i \in Nat, NEW j \in Nat,
           Sub(p, i) = Sub(q, j)
    PROVE  p = q /\ i = j
BY SubFacts

\* A port that is not a top port is enclosed by another.
LEMMA TopOrSub ==
    ASSUME NEW p \in Addresses, ~IsTop(p)
    PROVE  Enclosing(p) \in Addresses /\ Last(p[2]) \in Nat /\ p = Sub(Enclosing(p), Last(p[2]))
<1>1. p[1] \in Nat /\ p[2] \in Paths /\ p[2] # <<>> /\ p = <<p[1], p[2]>>
  BY DEF Addresses, IsTop
<1>2. p[2] = Append(Front(p[2]), Last(p[2])) /\ Front(p[2]) \in Paths /\ Last(p[2]) \in Nat
  BY <1>1, PathEnds
<1>3. QED BY <1>1, <1>2 DEF Enclosing, Sub, Addresses

\* What encloses a port that a path leads to.
LEMMA UnderFacts ==
    ASSUME NEW p \in Addresses, NEW path \in Paths, NEW i \in Nat
    PROVE  /\ Under(p, <<>>) = p
           /\ Under(p, Append(path, i)) = Sub(Under(p, path), i)
           /\ Enclosing(Under(p, Append(path, i))) = Under(p, path)
<1>1. p[1] \in Nat /\ p[2] \in Paths /\ p = <<p[1], p[2]>>
  BY DEF Addresses
<1>2. Under(p, <<>>) = p
  BY <1>1, PathFacts DEF Under
<1>3. Under(p, Append(path, i)) = Sub(Under(p, path), i)
  <2>1. Append(p[2] \o path, i) = p[2] \o Append(path, i)
    BY <1>1, ConcatThenAppend
  <2>2. QED BY <2>1 DEF Under, Sub
<1>4. Under(p, path) \in Addresses
  BY UnderIsBelow
<1>5. QED BY <1>2, <1>3, <1>4, SubFacts

\* The empty path leads from a port to itself.
LEMMA UnderNothing ==
    ASSUME NEW p \in Addresses
    PROVE  Under(p, <<>>) = p
<1>1. <<>> \in Paths /\ 0 \in Nat
  BY DEF Paths
<1>2. QED BY <1>1, UnderFacts

\* Different paths lead from a port to different ports.
LEMMA UnderInjective ==
    ASSUME NEW p \in Addresses, NEW s \in Paths, NEW t \in Paths, Under(p, s) = Under(p, t)
    PROVE  s = t
BY UnderIsBelow

\* What the port is like that encloses another.
LEMMA TreeUp ==
    ASSUME NEW P, PortsTyped(P), PortsTree(P), NEW p \in Addresses, NEW i \in Nat,
           Sub(p, i) \in DOMAIN P
    PROVE  /\ p \in DOMAIN P /\ i \in 1 .. P[p].subs
           /\ P[p].real => P[Sub(p, i)].real
<1>1. ~IsTop(Sub(p, i)) /\ Enclosing(Sub(p, i)) = p /\ Last(Sub(p, i)[2]) = i
  BY SubFacts
<1>2. QED BY <1>1 DEF PortsTree

\* What the ports further up are like.
LEMMA TreeFarUp ==
    ASSUME NEW P, PortsTyped(P), PortsTree(P), NEW p \in Addresses, NEW path \in Paths,
           Under(p, path) \in DOMAIN P
    PROVE  /\ p \in DOMAIN P
           /\ P[p].real => P[Under(p, path)].real
           /\ path # <<>> => P[p].subs # 0
<1> DEFINE Good(s) == /\ p \in DOMAIN P
                      /\ P[p].real => P[Under(p, s)].real
                      /\ s # <<>> => P[p].subs # 0
           Wrong == {n \in Nat : \E s \in Paths : Len(s) = n /\ Under(p, s) \in DOMAIN P /\ ~Good(s)}
<1>1. ASSUME NEW n \in Wrong PROVE \E m \in Wrong : m < n
  <2>1. PICK s \in Paths : Len(s) = n /\ Under(p, s) \in DOMAIN P /\ ~Good(s)
    BY <1>1
  <2>2. s # <<>>
    <3> SUFFICES ASSUME s = <<>> PROVE FALSE
      OBVIOUS
    <3>1. Under(p, s) = p
      BY UnderFacts
    <3>2. QED BY <2>1, <3>1
  <2>3. PICK r \in Paths, i \in Nat : s = Append(r, i)
    BY <2>2, PathEnds
  <2>4. Under(p, s) = Sub(Under(p, r), i) /\ Under(p, r) \in Addresses
    BY <2>3, UnderFacts, UnderIsBelow
  <2>5. /\ Under(p, r) \in DOMAIN P /\ i \in 1 .. P[Under(p, r)].subs
        /\ P[Under(p, r)].real => P[Under(p, s)].real
    BY <2>1, <2>4, TreeUp
  <2>6. P[Under(p, r)].subs # 0
    <3>1. P[Under(p, r)].subs \in Nat
      BY <2>5 DEF PortsTyped, PortRecords
    <3>2. QED BY <2>5, <3>1
  <2>7. ~Good(r)
    <3> SUFFICES ASSUME Good(r) PROVE FALSE
      OBVIOUS
    <3>1. r = <<>> => Under(p, r) = p
      BY UnderFacts
    <3>2. Good(s)
      BY <2>5, <2>6, <3>1
    <3>3. QED BY <2>1, <3>2
  <2>8. Len(r) \in Nat /\ Len(r) < n
    BY <2>1, <2>3, PathFacts
  <2>9. Len(r) \in Wrong
    BY <2>5, <2>7, <2>8
  <2> HIDE DEF Wrong
  <2>10. QED BY <2>8, <2>9
<1>2. Wrong = {}
  <2>1. Wrong \in SUBSET Nat
    OBVIOUS
  <2> HIDE DEF Wrong
  <2>2. QED BY <1>1, <2>1, Descent
<1>3. Len(path) \in Nat
  BY PathFacts
<1>4. QED BY <1>2, <1>3

-----------------------------------------------------------------------------
(* What the enclosed ports find together.                                    *)

\* run[k] is what the first k of the outcomes come to.
Runs(run, outcomes, n) ==
    /\ run = [k \in 0 .. n |-> run[k]] /\ run[0] = NotFound
    /\ \A k \in 1 .. n : run[k] = Then(run[k - 1], outcomes[k])

\* Asking the enclosed ports one after the other is what its definition as a fold says.
LEMMA AmongRuns ==
    ASSUME NEW D, NotFound \in D, \A b, a \in D : Then(b, a) \in D, NEW outcomes \in Seq(D)
    PROVE  \E run : Runs(run, outcomes, Len(outcomes)) /\ Among(outcomes) = run[Len(outcomes)]
<1>1. PICK n \in Nat : n = Len(outcomes) /\ DOMAIN outcomes = 1 .. n /\ \A i \in 1 .. n : outcomes[i] \in D
  OBVIOUS
<1> DEFINE Step == [a \in D \X (1 .. n) |-> Then(a[1], outcomes[a[2]])]
           Code(f) == [T \in SUBSET (1 .. n) |-> IF T = {} THEN NotFound
                         ELSE Then(f[T \ {Max(T)}], outcomes[Max(T)])]
<1>2. Step \in [D \X (1 .. n) -> D]
  BY <1>1
<1>3. PICK it \in [SUBSET (1 .. n) -> D] : IsLeftFold(it, n, NotFound, Step)
  <2> HIDE DEF Step
  <2>1. \E f \in [SUBSET (1 .. n) -> D] : IsLeftFold(f, n, NotFound, Step)
    BY <1>2, LeftFoldExists
  <2>2. QED BY <2>1
<1>4. it = Code(it)
  <2>1. ASSUME NEW T \in SUBSET (1 .. n)
        PROVE  it[T] = IF T = {} THEN NotFound ELSE Then(it[T \ {Greatest(T)}], outcomes[Greatest(T)])
    <3>1. it[T] = IF T = {} THEN NotFound ELSE Step[<<it[T \ {Greatest(T)}], Greatest(T)>>]
      <4> HIDE DEF Step
      <4> QED BY <1>3 DEF IsLeftFold
    <3>2. ASSUME T # {}
          PROVE  Step[<<it[T \ {Greatest(T)}], Greatest(T)>>]
                    = Then(it[T \ {Greatest(T)}], outcomes[Greatest(T)])
      <4>1. <<it[T \ {Greatest(T)}], Greatest(T)>> \in D \X (1 .. n)
        <5> HIDE DEF Step
        <5>1. Greatest(T) \in 1 .. n /\ T \ {Greatest(T)} \in SUBSET (1 .. n)
          BY <3>2, GreatestFacts
        <5>2. QED BY <1>3, <5>1
      <4>2. QED BY <4>1
    <3> HIDE DEF Step
    <3>3. QED BY <3>1, <3>2
  <2>2. it = [T \in SUBSET (1 .. n) |-> it[T]]
    <3> HIDE DEF Step
    <3> QED BY <1>3
  <2> HIDE DEF Step
  <2>3. it = [T \in SUBSET (1 .. n) |-> IF T = {} THEN NotFound
                 ELSE Then(it[T \ {Greatest(T)}], outcomes[Greatest(T)])]
    BY ONLY <2>1, <2>2
  <2>4. QED BY ONLY <2>3 DEF Greatest, Max
<1>5. PICK iter : Among(outcomes) = iter[1 .. n] /\ iter = Code(iter)
  <2>1. Among(outcomes) = (CHOOSE f : f = Code(f))[1 .. n]
    BY <1>1 DEF Among, FoldLeft, MapThenFoldSet
  <2> HIDE DEF Code
  <2>2. (CHOOSE f : f = Code(f)) = Code(CHOOSE f : f = Code(f))
    BY <1>4
  <2>3. QED BY <2>1, <2>2
<1>6. ASSUME NEW T \in SUBSET (1 .. n)
      PROVE  iter[T] = IF T = {} THEN NotFound ELSE Then(iter[T \ {Greatest(T)}], outcomes[Greatest(T)])
  BY <1>5 DEF Greatest, Max
<1> HIDE DEF Code, Step
<1>7. ASSUME NEW k \in 1 .. n PROVE iter[1 .. k] = Then(iter[1 .. k - 1], outcomes[k])
  <2>1. 1 .. k \in SUBSET (1 .. n) /\ 1 .. k # {} /\ Greatest(1 .. k) = k
        /\ (1 .. k) \ {Greatest(1 .. k)} = 1 .. k - 1
    BY ONLY <1>1, <1>7, FirstPositions
  <2>2. PICK T, U : T = 1 .. k /\ U = 1 .. k - 1
    OBVIOUS
  <2>3. iter[T] = Then(iter[T \ {Greatest(T)}], outcomes[Greatest(T)])
    BY ONLY <1>6, <2>1, <2>2
  <2>4. QED BY ONLY <2>1, <2>2, <2>3
<1>8. PICK run : run = [k \in 0 .. n |-> iter[1 .. k]]
  OBVIOUS
<1>9. run[0] = NotFound
  <2>1. 1 .. 0 = {} /\ {} \in SUBSET (1 .. n) /\ 0 \in 0 .. n
    BY <1>1
  <2>2. run[0] = iter[{}]
    BY <1>8, <2>1
  <2>3. QED BY <1>6, <2>1, <2>2
<1>10. \A k \in 1 .. n : run[k] = Then(run[k - 1], outcomes[k])
  <2>1. ASSUME NEW k \in 1 .. n PROVE run[k] = Then(run[k - 1], outcomes[k])
    <3>1. k \in 0 .. n /\ k - 1 \in 0 .. n
      BY <1>1
    <3>2. QED BY <1>7, <1>8, <3>1
  <2>2. QED BY <2>1
<1>11. Runs(run, outcomes, n) /\ n \in 0 .. n
  <2>1. run = [k \in 0 .. n |-> run[k]]
    BY ONLY <1>8
  <2>2. Runs(run, outcomes, n)
    BY ONLY <1>9, <1>10, <2>1 DEF Runs
  <2>3. QED BY <1>1, <2>2
<1>12. Among(outcomes) = run[n]
  BY <1>5, <1>8, <1>11
<1>13. QED BY <1>1, <1>11, <1>12

\* Of outcomes of one kind, the outcome is of that kind.
LEMMA AmongKeeps ==
    ASSUME NEW D, NotFound \in D, \A b, a \in D : Then(b, a) \in D, NEW outcomes \in Seq(D)
    PROVE  Among(outcomes) \in D
<1>1. PICK n \in Nat : n = Len(outcomes) /\ \A i \in 1 .. n : outcomes[i] \in D
  OBVIOUS
<1>2. PICK run : Runs(run, outcomes, n) /\ Among(outcomes) = run[n]
  BY <1>1, AmongRuns
<1> DEFINE Wrong == {k \in 0 .. n : run[k] \notin D}
<1>3. ASSUME NEW k \in Wrong PROVE \E m \in Wrong : m < k
  <2>1. k \in 0 .. n /\ run[k] \notin D
    BY <1>3
  <2>2. k \in 1 .. n /\ k - 1 \in 0 .. n /\ k - 1 < k
    BY <1>2, <2>1 DEF Runs
  <2>3. run[k] = Then(run[k - 1], outcomes[k]) /\ outcomes[k] \in D
    BY <1>1, <1>2, <2>2 DEF Runs
  <2>4. k - 1 \in Wrong
    BY <2>1, <2>2, <2>3
  <2>5. QED BY <2>2, <2>4
<1>4. Wrong = {}
  <2>1. Wrong \in SUBSET Nat
    BY <1>1
  <2> HIDE DEF Wrong
  <2>2. QED BY <1>3, <2>1, Descent
<1>5. n \in 0 .. n
  BY <1>1
<1>6. QED BY <1>2, <1>4, <1>5

-----------------------------------------------------------------------------
(* Outcomes of the search for the pair that is meant.                        *)

Unreal(P) == {p \in DOMAIN P : ~P[p].real}

Tags == {"none", "found", "incompatible", "multiple", "exists", "undefined"}

Outcomes(P) ==
    [tag: Tags, pair: {<<>>} \cup (Addresses \X Addresses), made: SUBSET (Unreal(P) \X PortNames)]

\* Nothing is made unless something is found or goes wrong.
OutcomeTyped(P, o) ==
    o \in Outcomes(P) /\ IsFiniteSet(o.made) /\ (o.tag = "none" => o.made = {})

\* A port with a known interface, or that may get any.
CanJoin(P, a) == a \in DOMAIN P /\ (P[a].real \/ P[a].subs = 0)

\* The next port to be enclosed in b.
NextSub(P, b) == Sub(b, P[b].subs + 1)

\* The ports a and c can be connected once what is to be made is made.
CanPair(P, a, c, made) ==
    \/ made = {} /\ CanJoin(P, a) /\ CanJoin(P, c)
    \/ \E b \in Unreal(P), name \in PortNames :
          /\ made = {<<b, name>>}
          /\ \/ a = NextSub(P, b) /\ c \in DOMAIN P /\ P[c].real
             \/ c = NextSub(P, b) /\ a \in DOMAIN P /\ P[a].real

\* A pair that is found belongs to the elements of l and r.
OutcomeOK(P, l, r, o) ==
    /\ OutcomeTyped(P, o)
    /\ o.tag = "found" => \E a, c \in Addresses : /\ o.pair = <<a, c>> /\ a[1] = l[1] /\ c[1] = r[1]
                                                  /\ CanPair(P, a, c, o.made)

\* Nothing found and anything thrown are outcomes, and nothing is made for them.
LEMMA NotFoundFacts ==
    ASSUME NEW P
    PROVE  /\ OutcomeTyped(P, NotFound) /\ NotFound.tag = "none" /\ NotFound.made = {}
           /\ \A error \in Tags : /\ Thrown(error) \in Outcomes(P)
                                    /\ Thrown(error).tag = error /\ Thrown(error).made = {}
<1>1. NotFound = [tag |-> "none", pair |-> <<>>, made |-> {}]
  BY DEF NotFound
<1>2. \A error \in Tags : Thrown(error) = [tag |-> error, pair |-> <<>>, made |-> {}]
  <2>1. ASSUME NEW error \in Tags PROVE Thrown(error) = [tag |-> error, pair |-> <<>>, made |-> {}]
    <3>1. Thrown(error) = [[tag |-> "none", pair |-> <<>>, made |-> {}] EXCEPT !.tag = error]
      BY ONLY <1>1 DEF Thrown
    <3>2. QED BY ONLY <3>1
  <2>2. QED BY <2>1
<1>3. "none" \in Tags /\ {} \in SUBSET (Unreal(P) \X PortNames) /\ IsFiniteSet({})
  <2>1. IsFiniteSet({})
    BY FS_EmptySet
  <2>2. "none" \in Tags /\ {} \in SUBSET (Unreal(P) \X PortNames)
    BY DEF Tags
  <2>3. QED BY <2>1, <2>2
<1>4. NotFound \in Outcomes(P) /\ NotFound.tag = "none" /\ NotFound.made = {}
  BY <1>1, <1>3 DEF Outcomes
<1>5. \A error \in Tags : Thrown(error) \in Outcomes(P) /\ Thrown(error).tag = error
                            /\ Thrown(error).made = {}
  BY <1>2, <1>3 DEF Outcomes
<1>6. QED BY <1>3, <1>4, <1>5 DEF OutcomeTyped

\* Of two outcomes comes one of the two, or that it went wrong.
LEMMA ThenIs ==
    ASSUME NEW P, NEW b, NEW a, OutcomeTyped(P, b), OutcomeTyped(P, a),
           NEW o, o = Then(b, a)
    PROVE  \/ o = b
           \/ o = a
           \/ OutcomeTyped(P, o) /\ o.tag \notin {"none", "found"} /\ o.made = b.made \cup a.made
<1>1. PICK m : m = b.made \cup a.made
  OBVIOUS
<1>2. m \in SUBSET (Unreal(P) \X PortNames) /\ IsFiniteSet(m)
  <2>1. IsFiniteSet(m)
    BY <1>1, FS_Union DEF OutcomeTyped
  <2>2. QED BY <1>1, <2>1 DEF OutcomeTyped, Outcomes
<1>3. b = [tag |-> b.tag, pair |-> b.pair, made |-> b.made] /\ a = [tag |-> a.tag, pair |-> a.pair, made |-> a.made]
  BY DEF OutcomeTyped, Outcomes
<1>4. ASSUME NEW x \in Outcomes(P), x.tag \notin {"none", "found"}, o = [x EXCEPT !.made = m]
      PROVE  OutcomeTyped(P, o) /\ o.tag \notin {"none", "found"} /\ o.made = b.made \cup a.made
  <2>1. o = [tag |-> x.tag, pair |-> x.pair, made |-> m]
    BY <1>4 DEF Outcomes
  <2>2. x.tag \in Tags /\ x.pair \in {<<>>} \cup (Addresses \X Addresses)
    BY DEF Outcomes
  <2>3. o \in Outcomes(P)
    BY ONLY <1>2, <2>1, <2>2 DEF Outcomes
  <2>4. QED BY <1>1, <1>2, <1>4, <2>1, <2>3 DEF OutcomeTyped
<1>5. CASE b.tag \notin {"none", "found"}
  BY <1>5 DEF Then
<1>6. CASE b.tag = "found" /\ a.tag = "found"
  <2>1. "multiple" \in Tags /\ o = [Thrown("multiple") EXCEPT !.made = m]
    <3>1. b.tag \in {"none", "found"}
      BY <1>6
    <3>2. o = [Thrown("multiple") EXCEPT !.made = m]
      BY <1>1, <1>6, <3>1 DEF Then
    <3>3. QED BY <3>2 DEF Tags
  <2>2. PICK x : x = Thrown("multiple")
    OBVIOUS
  <2>3. x \in Outcomes(P) /\ x.tag = "multiple"
    BY <2>1, <2>2, NotFoundFacts
  <2>4. x.tag \notin {"none", "found"}
    BY <2>3
  <2>5. QED BY <1>4, <2>1, <2>2, <2>3, <2>4
<1>7. CASE b.tag \in {"none", "found"} /\ ~(b.tag = "found" /\ a.tag = "found") /\ a.tag = "none"
  <2>1. o = [b EXCEPT !.made = m] /\ m = b.made
    <3>1. o = [b EXCEPT !.made = m]
      BY <1>1, <1>7 DEF Then
    <3>2. m = b.made
      BY <1>1, <1>7 DEF OutcomeTyped
    <3>3. QED BY <3>1, <3>2
  <2>2. o = b
    BY ONLY <1>3, <2>1
  <2>3. QED BY <2>2
<1>8. CASE b.tag \in {"none", "found"} /\ ~(b.tag = "found" /\ a.tag = "found") /\ a.tag # "none"
  <2>1. o = [a EXCEPT !.made = m]
    BY <1>1, <1>8 DEF Then
  <2>2. CASE a.tag = "found"
    <3>1. m = a.made
      BY <1>1, <1>8, <2>2 DEF OutcomeTyped
    <3>2. o = a
      BY ONLY <1>3, <2>1, <3>1
    <3>3. QED BY <3>2
  <2>3. CASE a.tag # "found"
    BY <1>4, <1>8, <2>1, <2>3 DEF OutcomeTyped
  <2>4. QED BY <2>2, <2>3
<1>9. QED BY <1>5, <1>6, <1>7, <1>8

\* Two outcomes of searches between the elements of l and r are one together.
LEMMA ThenOK ==
    ASSUME NEW P, NEW l, NEW r, NEW b, NEW a, OutcomeOK(P, l, r, b), OutcomeOK(P, l, r, a)
    PROVE  OutcomeOK(P, l, r, Then(b, a))
<1>1. PICK o : o = Then(b, a)
  OBVIOUS
<1>2. OutcomeTyped(P, b) /\ OutcomeTyped(P, a)
  BY DEF OutcomeOK
<1>3. \/ o = b
      \/ o = a
      \/ OutcomeTyped(P, o) /\ o.tag \notin {"none", "found"} /\ o.made = b.made \cup a.made
  BY ONLY <1>1, <1>2, ThenIs
<1>4. ASSUME OutcomeTyped(P, o) /\ o.tag \notin {"none", "found"} PROVE OutcomeOK(P, l, r, o)
  BY <1>4 DEF OutcomeOK
<1>5. QED BY <1>1, <1>3, <1>4

\* What may be found when several enclosed ports are asked.
LEMMA AmongOK ==
    ASSUME NEW P, NEW l, NEW r, NEW n \in Nat, NEW outcomes, outcomes = [i \in 1 .. n |-> outcomes[i]],
           \A i \in 1 .. n : OutcomeOK(P, l, r, outcomes[i])
    PROVE  OutcomeOK(P, l, r, Among(outcomes))
<1> DEFINE D == {o \in Outcomes(P) : OutcomeOK(P, l, r, o)}
<1>1. \A o : o \in D <=> OutcomeOK(P, l, r, o)
  BY DEF OutcomeOK, OutcomeTyped
<1>2. NotFound \in D
  <2>1. OutcomeOK(P, l, r, NotFound)
    BY NotFoundFacts DEF OutcomeOK
  <2>2. QED BY <1>1, <2>1
<1> HIDE DEF D
<1>3. \A b, a \in D : Then(b, a) \in D
  BY <1>1, ThenOK
<1>4. outcomes \in Seq(D)
  BY <1>1
<1>5. QED BY <1>1, <1>2, <1>3, <1>4, AmongKeeps

\* An outcome seen from the other side.
LEMMA SwappedOK ==
    ASSUME NEW P, NEW l, NEW r, NEW o, OutcomeOK(P, l, r, o)
    PROVE  OutcomeOK(P, r, l, Swapped(o))
<1>1. CASE o.tag # "found"
  BY <1>1 DEF Swapped, OutcomeOK
<1>2. CASE o.tag = "found"
  <2>1. PICK a \in Addresses, c \in Addresses :
            o.pair = <<a, c>> /\ a[1] = l[1] /\ c[1] = r[1] /\ CanPair(P, a, c, o.made)
    BY <1>2 DEF OutcomeOK
  <2>2. PICK q \in Addresses \X Addresses : q = <<c, a>>
    OBVIOUS
  <2>3. Swapped(o) = [o EXCEPT !.pair = q]
    <3>1. <<o.pair[2], o.pair[1]>> = q
      BY <2>1, <2>2
    <3>2. QED BY <1>2, <3>1 DEF Swapped
  <2>4. Swapped(o) = [tag |-> o.tag, pair |-> q, made |-> o.made]
    BY <2>3 DEF OutcomeOK, OutcomeTyped, Outcomes
  <2>5. OutcomeTyped(P, Swapped(o))
    BY <2>2, <2>4 DEF OutcomeOK, OutcomeTyped, Outcomes
  <2>6. CanPair(P, c, a, o.made)
    BY <2>1 DEF CanPair
  <2>7. QED BY <2>1, <2>2, <2>4, <2>5, <2>6 DEF OutcomeOK
<1>3. QED BY <1>1, <1>2

-----------------------------------------------------------------------------
(* Compatible ports.                                                         *)

\* A port of the new entity that is compatible with a known one encloses nothing.
LEMMA BuilderCompatYes ==
    ASSUME NEW P, PortsTyped(P), NEW p, NEW b0 \in DOMAIN P, NEW r0 \in DOMAIN P,
           ~P[b0].real, BuilderCompat(P, p)[<<b0, r0>>] = "yes"
    PROVE  P[b0].subs = 0
<1> DEFINE S == (DOMAIN P) \X (DOMAIN P)
           D == {"yes", "no", "undefined"}
           E == [x \in S |-> D]
           F == Typed(S, D, E)
           Once(f) ==
             [x \in S |->
                LET b == x[1]
                    r == x[2]
                IN  CASE P[b].real -> IF Fits(P, b, r, p) THEN "yes" ELSE "no"
                      [] ~P[b].real /\ P[b].subs = 0 ->
                            IF (IsTop(b) => IsComposite(P, r)) /\ OpAllows(P[r].dir, p) THEN "yes" ELSE "no"
                      [] OTHER ->
                            IF P[b].subs # P[r].subs THEN "no"
                            ELSE IF \E j \in 1..P[r].subs : f[<<Sub(b, 1), Sub(r, j)>>] # "no"
                            THEN "undefined" ELSE "no"]
           More == [f \in F |-> Once(f)]
<1>1. PICK n \in Nat : \A q \in DOMAIN P : Len(q[2]) <= n
  BY DEF PortsTyped, Bounded
<1> DEFINE depth == [x \in S |-> n - Len(x[1][2])]
<1>2. \A q \in DOMAIN P : /\ q \in Addresses /\ P[q].subs \in Nat /\ P[q].real \in BOOLEAN
                          /\ Len(q[2]) \in Nat
                          /\ \A i \in 1 .. P[q].subs : Sub(q, i) \in DOMAIN P /\ Len(Sub(q, i)[2]) = Len(q[2]) + 1
  <2>1. ASSUME NEW q \in DOMAIN P
        PROVE  q \in Addresses /\ P[q].subs \in Nat /\ P[q].real \in BOOLEAN
    BY DEF PortsTyped, PortRecords
  <2>2. ASSUME NEW q \in DOMAIN P
        PROVE  /\ Len(q[2]) \in Nat
               /\ \A i \in 1 .. P[q].subs : Sub(q, i) \in DOMAIN P /\ Len(Sub(q, i)[2]) = Len(q[2]) + 1
    <3>1. q \in Addresses /\ P[q].subs \in Nat
      BY <2>1
    <3>2. 0 \in Nat /\ Len(q[2]) \in Nat
      BY ONLY <3>1, SubFacts, 0 \in Nat
    <3>3. ASSUME NEW i \in 1 .. P[q].subs PROVE Sub(q, i) \in DOMAIN P /\ Len(Sub(q, i)[2]) = Len(q[2]) + 1
      <4>1. i \in Nat
        BY <3>1
      <4>2. QED BY <3>1, <4>1, SubFacts DEF PortsTyped
    <3>4. QED BY <3>2, <3>3
  <2>3. QED BY <2>1, <2>2
<1>3. depth \in [S -> Nat]
  BY <1>1, <1>2
<1>4. F = [S -> D]
  BY DEF Typed
<1>5. More \in [F -> F]
  <2>1. ASSUME NEW f \in F PROVE Once(f) \in [S -> D]
    OBVIOUS
  <2> HIDE DEF Once
  <2>2. QED BY <1>4, <2>1
<1>6. ASSUME NEW f \in F, NEW g \in F, NEW x \in S, \A y \in S : depth[y] < depth[x] => f[y] = g[y]
      PROVE  More[f][x] = More[g][x]
  <2>1. PICK b \in DOMAIN P, r \in DOMAIN P : x = <<b, r>>
    OBVIOUS
  <2>2. ASSUME P[b].subs # 0, P[b].subs = P[r].subs, NEW j \in 1 .. P[r].subs
        PROVE  f[<<Sub(b, 1), Sub(r, j)>>] = g[<<Sub(b, 1), Sub(r, j)>>]
    <3>1. 1 \in 1 .. P[b].subs
      BY <1>2, <2>2
    <3>2. PICK b1 \in DOMAIN P, r1 \in DOMAIN P : b1 = Sub(b, 1) /\ r1 = Sub(r, j) /\ Len(b1[2]) = Len(b[2]) + 1
      BY <1>2, <2>2, <3>1
    <3>3. <<b1, r1>> \in S /\ depth[<<b1, r1>>] < depth[x]
      <4>1. depth[<<b1, r1>>] = n - Len(b1[2]) /\ depth[x] = n - Len(b[2])
        BY <2>1
      <4>2. Len(b[2]) \in Nat /\ n \in Nat
        BY <1>2
      <4>3. QED BY ONLY <3>2, <4>1, <4>2
    <3>4. QED
      <4> HIDE DEF S, F, depth
      <4> QED BY <1>6, <3>2, <3>3
  <2>3. Once(f)[x] = Once(g)[x]
    BY <1>2, <2>1, <2>2
  <2>4. More[f] = Once(f) /\ More[g] = Once(g)
    <3> HIDE DEF F, Once
    <3> QED OBVIOUS
  <2>5. QED BY ONLY <2>3, <2>4
<1>7. PICK f \in F : f = Once(f)
  <2>1. E \in [S -> SUBSET D] /\ \A x \in S : E[x] # {}
    OBVIOUS
  <2>2. Deepens(More, S, F, depth)
    <3> HIDE DEF F, S, More, depth
    <3> QED BY <1>3, <1>5, <1>6 DEF Deepens
  <2>3. \E f \in F : f = More[f]
    <3> HIDE DEF S, D, E, More, depth
    <3> QED BY ONLY <2>1, <2>2, RecursionExists
  <2>4. \A f \in F : More[f] = Once(f)
    <3> HIDE DEF F, Once
    <3> QED OBVIOUS
  <2> HIDE DEF F, More, Once
  <2>5. QED BY <2>3, <2>4
<1>8. PICK compat : BuilderCompat(P, p) = compat /\ compat = Once(compat)
  <2>1. BuilderCompat(P, p) = CHOOSE h : h = Once(h)
    BY DEF BuilderCompat
  <2> HIDE DEF Once
  <2>2. (CHOOSE h : h = Once(h)) = Once(CHOOSE h : h = Once(h))
    BY <1>7
  <2>3. QED BY <2>1, <2>2
<1>9. compat[<<b0, r0>>] = "yes"
  BY <1>8
<1>10. ASSUME P[b0].subs # 0 PROVE compat[<<b0, r0>>] # "yes"
  <2>1. <<b0, r0>> \in S
    OBVIOUS
  <2>2. compat[<<b0, r0>>] = Once(compat)[<<b0, r0>>]
    BY <1>8
  <2>3. QED BY <1>10, <2>1, <2>2
<1>11. QED BY <1>9, <1>10

\* The fields of a pair that was found.
LEMMA FoundPairIs ==
    ASSUME NEW l, NEW r
    PROVE  FoundPair(l, r) = [tag |-> "found", pair |-> <<l, r>>, made |-> {}]
<1>1. PICK q : q = <<l, r>>
  OBVIOUS
<1>2. FoundPair(l, r) = [[tag |-> "none", pair |-> <<>>, made |-> {}] EXCEPT !.tag = "found", !.pair = q]
  BY ONLY <1>1 DEF FoundPair, NotFound
<1>3. FoundPair(l, r) = [tag |-> "found", pair |-> q, made |-> {}]
  BY ONLY <1>2
<1>4. QED BY ONLY <1>1, <1>3

\* Compatible ports can be connected.
LEMMA CompatJoins ==
    ASSUME NEW P, PortsTyped(P), NEW p, NEW l \in DOMAIN P, NEW r \in DOMAIN P,
           ~(l[1] = 0 /\ r[1] = 0), Compat(P, l, r, p) = "yes"
    PROVE  CanJoin(P, l) /\ CanJoin(P, r)
<1>1. P[l].real \/ P[r].real
  BY DEF PortsTyped
<1>2. CASE P[l].real /\ P[r].real
  BY <1>2 DEF CanJoin
<1>3. CASE P[l].real /\ ~P[r].real
  <2>1. BuilderCompat(P, Reversed(p))[<<r, l>>] = "yes"
    BY <1>3 DEF Compat
  <2>2. P[r].subs = 0
    BY <1>3, <2>1, BuilderCompatYes
  <2>3. QED BY <1>3, <2>2 DEF CanJoin
<1>4. CASE ~P[l].real /\ P[r].real
  <2>1. BuilderCompat(P, p)[<<l, r>>] = "yes"
    BY <1>4 DEF Compat
  <2>2. P[l].subs = 0
    BY <1>4, <2>1, BuilderCompatYes
  <2>3. QED BY <1>4, <2>2 DEF CanJoin
<1>5. QED BY <1>1, <1>2, <1>3, <1>4

\* What may be found when two ports are tried.
LEMMA TriedOK ==
    ASSUME NEW P, PortsTyped(P), NEW p, NEW l \in DOMAIN P, NEW r \in DOMAIN P,
           ~(l[1] = 0 /\ r[1] = 0), NEW l0, NEW r0, l[1] = l0[1], r[1] = r0[1],
           NEW otherwise, OutcomeOK(P, l0, r0, otherwise)
    PROVE  OutcomeOK(P, l0, r0, Tried(P, l, r, p, otherwise))
<1>1. l \in Addresses /\ r \in Addresses
  BY DEF PortsTyped
<1>2. CASE Compat(P, l, r, p) = "yes"
  <2>1. Tried(P, l, r, p, otherwise) = FoundPair(l, r)
    BY <1>2 DEF Tried
  <2>2. FoundPair(l, r) = [tag |-> "found", pair |-> <<l, r>>, made |-> {}]
    BY FoundPairIs
  <2>3. CanPair(P, l, r, {})
    BY <1>2, CompatJoins DEF CanPair
  <2>4. PICK o : o = [tag |-> "found", pair |-> <<l, r>>, made |-> {}]
    OBVIOUS
  <2>5. OutcomeTyped(P, o)
    <3>1. IsFiniteSet({})
      BY FS_EmptySet
    <3>2. "found" \in Tags /\ <<l, r>> \in Addresses \X Addresses
      BY <1>1 DEF Tags
    <3>3. o \in Outcomes(P)
      BY <2>4, <3>2 DEF Outcomes
    <3>4. QED BY <2>4, <3>1, <3>3 DEF OutcomeTyped
  <2>6. OutcomeOK(P, l0, r0, o)
    BY <1>1, <2>3, <2>4, <2>5 DEF OutcomeOK
  <2>7. QED BY <2>1, <2>2, <2>4, <2>6
<1>3. CASE Compat(P, l, r, p) = "undefined"
  <2>1. Tried(P, l, r, p, otherwise) = Thrown("undefined")
    BY <1>3 DEF Tried
  <2>2. "undefined" \in Tags
    BY DEF Tags
  <2>3. PICK o : o = Thrown("undefined")
    OBVIOUS
  <2>4. o \in Outcomes(P) /\ o.tag = "undefined" /\ o.made = {}
    BY <2>2, <2>3, NotFoundFacts
  <2>5. OutcomeOK(P, l0, r0, o)
    BY <2>4, FS_EmptySet DEF OutcomeOK, OutcomeTyped
  <2>6. QED BY <2>1, <2>3, <2>5
<1>4. CASE Compat(P, l, r, p) \notin {"yes", "undefined"}
  BY <1>4 DEF Tried
<1>5. QED BY <1>2, <1>3, <1>4

\* Trying finds the two themselves, nothing, or what is found otherwise.
OneOf(P, l, r, otherwise, o) ==
    /\ OutcomeTyped(P, o)
    /\ \/ o = otherwise
       \/ o.made = {} /\ o.tag # "found"
       \/ o.made = {} /\ o.tag = "found" /\ o.pair = <<l, r>>

\* What trying a pair comes to: the pair, undefined behaviour, or the search below it.
LEMMA TriedIs ==
    ASSUME NEW P, NEW l \in Addresses, NEW r \in Addresses, NEW p, NEW otherwise,
           OutcomeTyped(P, otherwise)
    PROVE  OneOf(P, l, r, otherwise, Tried(P, l, r, p, otherwise))
<1> SUFFICES ASSUME NEW o, o = Tried(P, l, r, p, otherwise) PROVE OneOf(P, l, r, otherwise, o)
  OBVIOUS
<1>1. o = FoundPair(l, r) \/ o = Thrown("undefined") \/ o = otherwise
  BY DEF Tried
<1>2. CASE o = FoundPair(l, r)
  <2>1. PICK q \in Addresses \X Addresses : q = <<l, r>>
    OBVIOUS
  <2>2. o = [tag |-> "found", pair |-> q, made |-> {}]
    BY <1>2, <2>1, FoundPairIs
  <2>3. "found" \in Tags /\ IsFiniteSet({})
    BY FS_EmptySet DEF Tags
  <2>4. o \in Outcomes(P)
    BY <2>1, <2>2, <2>3 DEF Outcomes
  <2>5. QED BY <2>1, <2>2, <2>3, <2>4 DEF OutcomeTyped, OneOf
<1>3. CASE o = Thrown("undefined")
  <2>1. "undefined" \in Tags
    BY DEF Tags
  <2>2. o \in Outcomes(P) /\ o.tag = "undefined" /\ o.made = {}
    BY <1>3, <2>1, NotFoundFacts
  <2>3. QED BY <2>2, FS_EmptySet DEF OutcomeTyped, OneOf
<1>4. CASE o = otherwise
  BY <1>4 DEF OneOf
<1>5. QED BY <1>1, <1>2, <1>3, <1>4

-----------------------------------------------------------------------------
(* PortContainer::findCompatible.                                            *)

\* It makes no port and finds one below c that fits the peer.
BelowOK(P, c, peer, o) ==
    /\ OutcomeTyped(P, o)
    /\ ~(c[1] = 0 /\ peer[1] = 0) => /\ OutcomeOK(P, c, peer, o)
                                     /\ o.made = {}
                                     /\ o.tag = "found" => o.pair[1] \in DOMAIN P /\ o.pair[2] = peer

\* Two outcomes below a composite together are one.
LEMMA BelowThen ==
    ASSUME NEW P, NEW c, NEW peer, NEW b, NEW a, BelowOK(P, c, peer, b), BelowOK(P, c, peer, a)
    PROVE  BelowOK(P, c, peer, Then(b, a))
<1>1. PICK o : o = Then(b, a)
  OBVIOUS
<1>2. OutcomeTyped(P, b) /\ OutcomeTyped(P, a)
  BY DEF BelowOK
<1>3. \/ o = b
      \/ o = a
      \/ OutcomeTyped(P, o) /\ o.tag \notin {"none", "found"} /\ o.made = b.made \cup a.made
  BY ONLY <1>1, <1>2, ThenIs
<1>4. ASSUME OutcomeTyped(P, o), o.tag \notin {"none", "found"}, o.made = b.made \cup a.made
      PROVE  BelowOK(P, c, peer, o)
  BY <1>4 DEF BelowOK, OutcomeOK
<1>5. QED BY <1>1, <1>3, <1>4

\* What trying a port of the composite comes to is an outcome below it.
LEMMA BelowTried ==
    ASSUME NEW P, PortsTyped(P), NEW p, NEW l \in DOMAIN P, NEW peer \in DOMAIN P,
           NEW c, l[1] = c[1], NEW otherwise, BelowOK(P, l, peer, otherwise)
    PROVE  BelowOK(P, c, peer, Tried(P, l, peer, p, otherwise))
<1>1. PICK o : o = Tried(P, l, peer, p, otherwise)
  OBVIOUS
<1>2. l \in Addresses /\ peer \in Addresses /\ OutcomeTyped(P, otherwise)
  BY DEF PortsTyped, BelowOK
<1>3. /\ OutcomeTyped(P, o)
      /\ \/ o = otherwise
         \/ o.made = {} /\ o.tag # "found"
         \/ o.made = {} /\ o.tag = "found" /\ o.pair = <<l, peer>>
  <2>1. OneOf(P, l, peer, otherwise, o)
    BY <1>1, <1>2, TriedIs
  <2>2. QED BY <2>1 DEF OneOf
<1>4. ASSUME ~(c[1] = 0 /\ peer[1] = 0)
      PROVE  /\ OutcomeOK(P, c, peer, o)
             /\ o.made = {}
             /\ o.tag = "found" => o.pair[1] \in DOMAIN P /\ o.pair[2] = peer
  <2>1. OutcomeOK(P, l, peer, otherwise) /\ otherwise.made = {}
        /\ (otherwise.tag = "found" => otherwise.pair[1] \in DOMAIN P /\ otherwise.pair[2] = peer)
    BY <1>4 DEF BelowOK
  <2>2. OutcomeOK(P, l, peer, o)
    BY <1>1, <1>4, <2>1, TriedOK
  <2>3. OutcomeOK(P, c, peer, o)
    BY <2>2 DEF OutcomeOK
  <2>4. QED BY <1>3, <2>1, <2>3
<1>5. QED BY <1>1, <1>3, <1>4 DEF BelowOK

\* What the ports of a composite find together is an outcome below it.
LEMMA BelowAmong ==
    ASSUME NEW P, NEW c, NEW peer, NEW n \in Nat, NEW outcomes, outcomes = [i \in 1 .. n |-> outcomes[i]],
           \A i \in 1 .. n : BelowOK(P, c, peer, outcomes[i])
    PROVE  BelowOK(P, c, peer, Among(outcomes))
<1> DEFINE D == {o \in Outcomes(P) : BelowOK(P, c, peer, o)}
<1>1. \A o : o \in D <=> BelowOK(P, c, peer, o)
  BY DEF BelowOK, OutcomeTyped
<1>2. NotFound \in D
  <2>1. BelowOK(P, c, peer, NotFound)
    BY NotFoundFacts DEF BelowOK, OutcomeOK
  <2>2. QED BY <1>1, <2>1
<1> HIDE DEF D
<1>3. \A b, a \in D : Then(b, a) \in D
  BY <1>1, BelowThen
<1>4. outcomes \in Seq(D)
  BY <1>1
<1>5. QED BY <1>1, <1>2, <1>3, <1>4, AmongKeeps

\* What is found below c, find being what is found below its ports.
FindsBelow(P, find, peer, p, c) ==
    Among([i \in 1..P[c].subs |-> Tried(P, Sub(c, i), peer, p, find[Sub(c, i)])])

\* PortContainer::findCompatible asks the ports of the composite, and finds a port below
\* it for the peer it was given.
LEMMA FoundBelow ==
    ASSUME NEW P, PortsTyped(P), NEW p, NEW peer \in DOMAIN P, NEW c0 \in DOMAIN P
    PROVE  /\ BelowOK(P, c0, peer, FindCompatible(P, peer, p)[c0])
           /\ FindCompatible(P, peer, p)[c0] = FindsBelow(P, FindCompatible(P, peer, p), peer, p, c0)
<1> DEFINE S == DOMAIN P
           D == Outcomes(P)
           E == [c \in S |-> {o \in D : BelowOK(P, c, peer, o)}]
           F == Typed(S, D, E)
           Outs(f, c) == [i \in 1..P[c].subs |-> Tried(P, Sub(c, i), peer, p, f[Sub(c, i)])]
           Once(f) == [c \in S |-> Among(Outs(f, c))]
           More == [f \in F |-> Once(f)]
<1>1. PICK n \in Nat : \A q \in S : Len(q[2]) <= n
  BY DEF PortsTyped, Bounded
<1> DEFINE depth == [c \in S |-> n - Len(c[2])]
<1>2. ASSUME NEW q \in S
      PROVE  /\ P[q].subs \in Nat /\ Len(q[2]) \in Nat
             /\ \A i \in 1 .. P[q].subs : /\ Sub(q, i) \in S /\ Len(Sub(q, i)[2]) = Len(q[2]) + 1
                                          /\ Sub(q, i)[1] = q[1]
  <2>1. q \in Addresses /\ P[q].subs \in Nat
    BY DEF PortsTyped, PortRecords
  <2>2. Len(q[2]) \in Nat
    BY ONLY <2>1, SubFacts, 0 \in Nat
  <2>3. ASSUME NEW i \in 1 .. P[q].subs
        PROVE  Sub(q, i) \in S /\ Len(Sub(q, i)[2]) = Len(q[2]) + 1 /\ Sub(q, i)[1] = q[1]
    <3>1. i \in Nat
      BY <2>1
    <3>2. QED BY <2>1, <3>1, SubFacts DEF PortsTyped
  <2>4. QED BY <2>1, <2>2, <2>3
<1>3. depth \in [S -> Nat]
  BY <1>1, <1>2
<1>4. \A o : BelowOK(P, c0, peer, o) => o \in D
  BY DEF BelowOK, OutcomeTyped
<1>5. ASSUME NEW f, NEW c \in S, \A i \in 1 .. P[c].subs : BelowOK(P, Sub(c, i), peer, f[Sub(c, i)])
      PROVE  BelowOK(P, c, peer, Among(Outs(f, c)))
  <2>1. ASSUME NEW i \in 1 .. P[c].subs
        PROVE  BelowOK(P, c, peer, Tried(P, Sub(c, i), peer, p, f[Sub(c, i)]))
    <3>1. PICK l \in S : l = Sub(c, i) /\ l[1] = c[1]
      BY <1>2
    <3>2. BelowOK(P, l, peer, f[l])
      BY <1>5, <3>1
    <3>3. BelowOK(P, c, peer, Tried(P, l, peer, p, f[l]))
      BY <3>1, <3>2, BelowTried
    <3>4. QED BY <3>1, <3>3
  <2>2. PICK m \in Nat : m = P[c].subs
    BY <1>2
  <2>3. PICK outs : outs = Outs(f, c)
    OBVIOUS
  <2>4. outs = [i \in 1 .. m |-> outs[i]] /\ \A i \in 1 .. m : BelowOK(P, c, peer, outs[i])
    BY <2>1, <2>2, <2>3
  <2> HIDE DEF Outs
  <2>5. BelowOK(P, c, peer, Among(outs))
    BY ONLY <2>4, m \in Nat, BelowAmong
  <2>6. QED BY <2>3, <2>5
<1> HIDE DEF Outs
<1>51. ASSUME NEW f \in F PROVE Once(f) \in F
  <2>1. \A c \in S : BelowOK(P, c, peer, f[c])
    BY DEF Typed
  <2>2. \A c \in S : BelowOK(P, c, peer, Among(Outs(f, c)))
    <3> HIDE DEF F, D, E
    <3> QED BY <1>2, <1>5, <2>1
  <2>3. \A c \in S : Among(Outs(f, c)) \in D
    BY <2>2 DEF BelowOK, OutcomeTyped
  <2> HIDE DEF D
  <2>4. QED BY <2>2, <2>3 DEF Typed
<1>6. More \in [F -> F]
  <2> HIDE DEF F, Once
  <2> QED BY <1>51
<1>7. ASSUME NEW f \in F, NEW g \in F, NEW c \in S, \A y \in S : depth[y] < depth[c] => f[y] = g[y]
      PROVE  More[f][c] = More[g][c]
  <2>1. ASSUME NEW i \in 1 .. P[c].subs PROVE f[Sub(c, i)] = g[Sub(c, i)]
    <3>1. PICK l \in S : l = Sub(c, i) /\ Len(l[2]) = Len(c[2]) + 1
      BY <1>2
    <3>2. depth[l] = n - Len(l[2]) /\ depth[c] = n - Len(c[2]) /\ Len(c[2]) \in Nat
      BY <1>2
    <3> HIDE DEF F, S, depth
    <3>3. depth[l] < depth[c]
      BY ONLY <3>1, <3>2, n \in Nat
    <3>4. QED BY <1>7, <3>1, <3>3
  <2>2. Outs(f, c) = Outs(g, c)
    BY <2>1 DEF Outs
  <2>3. More[f] = Once(f) /\ More[g] = Once(g)
    <3> HIDE DEF F, Once
    <3> QED OBVIOUS
  <2> HIDE DEF F, Outs, More
  <2>4. QED BY <2>2, <2>3
<1>8. PICK f \in F : f = Once(f)
  <2>1. E \in [S -> SUBSET D] /\ \A c \in S : E[c] # {}
    <3>1. ASSUME NEW c \in S PROVE BelowOK(P, c, peer, NotFound) /\ NotFound \in D
      <4>1. BelowOK(P, c, peer, NotFound)
        BY NotFoundFacts DEF BelowOK, OutcomeOK
      <4>2. QED BY <4>1 DEF BelowOK, OutcomeTyped
    <3> HIDE DEF D
    <3>2. QED BY <3>1
  <2>2. Deepens(More, S, F, depth)
    <3> HIDE DEF F, S, More, depth
    <3> QED BY <1>3, <1>6, <1>7 DEF Deepens
  <2>3. \E h \in F : h = More[h]
    <3> HIDE DEF S, D, E, More, depth
    <3> QED BY ONLY <2>1, <2>2, RecursionExists
  <2>4. \A h \in F : More[h] = Once(h)
    <3> HIDE DEF F, Once
    <3> QED OBVIOUS
  <2> HIDE DEF F, More, Once
  <2>5. QED BY <2>3, <2>4
<1>9. PICK find : FindCompatible(P, peer, p) = find /\ find = Once(find)
  <2>1. FindCompatible(P, peer, p) = CHOOSE h : h = Once(h)
    BY DEF FindCompatible, Outs
  <2> HIDE DEF Once
  <2>2. (CHOOSE h : h = Once(h)) = Once(CHOOSE h : h = Once(h))
    BY <1>8
  <2>3. QED BY <2>1, <2>2
<1> HIDE DEF F, E, D, More, depth, Once
<1>10. \A c \in S : find[c] = Among(Outs(find, c))
  BY <1>9 DEF Once
<1> DEFINE Wrong == {k \in Nat : \E c \in S : k = n - Len(c[2]) /\ ~BelowOK(P, c, peer, find[c])}
<1>11. ASSUME NEW k \in Wrong PROVE \E m \in Wrong : m < k
  <2>1. PICK c \in S : k = n - Len(c[2]) /\ ~BelowOK(P, c, peer, find[c])
    BY <1>11
  <2>2. PICK i \in 1 .. P[c].subs : ~BelowOK(P, Sub(c, i), peer, find[Sub(c, i)])
    BY <1>5, <1>10, <2>1
  <2>3. PICK l \in S : l = Sub(c, i) /\ Len(l[2]) = Len(c[2]) + 1
    BY <1>2
  <2>4. Len(c[2]) \in Nat /\ Len(l[2]) \in Nat /\ Len(l[2]) <= n /\ n \in Nat
    BY <1>1, <1>2
  <2>5. n - Len(l[2]) \in Nat /\ n - Len(l[2]) < k
    BY ONLY <2>1, <2>3, <2>4
  <2>6. n - Len(l[2]) \in Wrong
    BY <2>2, <2>3, <2>5
  <2> HIDE DEF Wrong
  <2>7. QED BY <2>5, <2>6
<1>12. Wrong = {}
  <2>1. Wrong \in SUBSET Nat
    OBVIOUS
  <2> HIDE DEF Wrong
  <2>2. QED BY <1>11, <2>1, Descent
<1>13. n - Len(c0[2]) \in Nat
  <2>1. Len(c0[2]) \in Nat /\ Len(c0[2]) <= n
    BY <1>1, <1>2
  <2>2. QED BY <2>1
<1>14. BelowOK(P, c0, peer, find[c0])
  BY <1>12, <1>13
<1>15. find[c0] = FindsBelow(P, find, peer, p, c0)
  BY <1>10 DEF Outs, FindsBelow
<1>16. QED BY <1>9, <1>14, <1>15

-----------------------------------------------------------------------------
(* BuilderPort::findCompatibles.                                             *)

\* What the nameless port found is the peer of a port that is to be made.
LEMMA EnclosedOK ==
    ASSUME NEW P, PortsTyped(P), NEW b \in Unreal(P), NEW r, NEW o, o.tag \in Tags,
           o.tag # "found" => OutcomeOK(P, b, r, o),
           o.tag = "found" => /\ o.pair[2] \in DOMAIN P /\ P[o.pair[2]].real
                              /\ o.pair[2][1] = r[1]
    PROVE  OutcomeOK(P, b, r, Enclosed(P, b, o))
<1>1. \A error \in Tags \ {"none", "found"} : OutcomeOK(P, b, r, Thrown(error))
  <2>1. ASSUME NEW error \in Tags \ {"none", "found"} PROVE OutcomeOK(P, b, r, Thrown(error))
    <3>1. PICK t : t = Thrown(error)
      OBVIOUS
    <3>2. t \in Outcomes(P) /\ t.tag = error /\ t.made = {}
      BY <3>1, NotFoundFacts
    <3>3. QED BY <3>1, <3>2, FS_EmptySet DEF OutcomeOK, OutcomeTyped
  <2>2. QED BY <2>1
<1>2. CASE o.tag # "found"
  <2>1. Enclosed(P, b, o) = o \/ Enclosed(P, b, o) = Thrown("incompatible")
    BY <1>2 DEF Enclosed, Or
  <2>2. "incompatible" \in Tags \ {"none", "found"}
    BY DEF Tags
  <2>3. QED BY <1>1, <1>2, <2>1, <2>2
<1>3. CASE o.tag = "found" /\ Named(P, b, P[o.pair[2]].name) # 0
  <2>1. Enclosed(P, b, o) = Thrown("exists")
    BY <1>3 DEF Enclosed
  <2>2. "exists" \in Tags \ {"none", "found"}
    BY DEF Tags
  <2>3. QED BY <1>1, <2>1, <2>2
<1>4. CASE o.tag = "found" /\ Named(P, b, P[o.pair[2]].name) = 0
  <2>1. PICK peer, new, m : peer = o.pair[2] /\ new = NextSub(P, b) /\ m = {<<b, P[peer].name>>}
    OBVIOUS
  <2>2. Enclosed(P, b, o) = [FoundPair(new, peer) EXCEPT !.made = m]
    BY <1>4, <2>1 DEF Enclosed, NextSub
  <2>3. PICK q : q = <<new, peer>>
    OBVIOUS
  <2>4. Enclosed(P, b, o) = [tag |-> "found", pair |-> q, made |-> m]
    <3>1. FoundPair(new, peer) = [tag |-> "found", pair |-> q, made |-> {}]
      BY <2>3, FoundPairIs
    <3>2. QED BY ONLY <2>2, <3>1
  <2>5. /\ peer \in DOMAIN P /\ P[peer].real /\ peer[1] = r[1] /\ peer \in Addresses
        /\ P[peer].name \in PortNames
    BY <1>4, <2>1 DEF PortsTyped, PortRecords
  <2>6. new \in Addresses /\ new[1] = b[1]
    <3>1. b \in Addresses /\ P[b].subs + 1 \in Nat
      BY DEF Unreal, PortsTyped, PortRecords
    <3>2. QED BY <2>1, <3>1, SubFacts DEF NextSub
  <2>7. m \in SUBSET (Unreal(P) \X PortNames) /\ IsFiniteSet(m)
    <3>1. IsFiniteSet(m)
      BY <2>1, FS_Singleton
    <3>2. QED BY <2>1, <2>5, <3>1
  <2>8. PICK e : e = [tag |-> "found", pair |-> q, made |-> m]
    OBVIOUS
  <2>9. q \in Addresses \X Addresses /\ "found" \in Tags
    BY <2>3, <2>5, <2>6 DEF Tags
  <2>10. OutcomeTyped(P, e)
    <3>1. e \in Outcomes(P)
      BY ONLY <2>7, <2>8, <2>9 DEF Outcomes
    <3>2. QED BY ONLY <2>7, <2>8, <3>1 DEF OutcomeTyped
  <2>11. CanPair(P, new, peer, m)
    BY <2>1, <2>5 DEF CanPair
  <2>12. OutcomeOK(P, b, r, e)
    <3>1. e.pair = <<new, peer>> /\ e.made = m
      BY ONLY <2>3, <2>8
    <3>2. QED BY ONLY <2>5, <2>6, <2>10, <2>11, <3>1 DEF OutcomeOK
  <2>13. QED BY <2>4, <2>8, <2>12
<1>5. QED BY <1>2, <1>3, <1>4

\* The ports with a nameless one on trial.
WithTrial(P, anon) ==
    [q \in DOMAIN P \cup {anon} |-> IF q = anon THEN Port(AnonymousName, {}, 0, FALSE) ELSE P[q]]

\* The nameless port that is enclosed for the search is typed like the others.
LEMMA TrialTyped ==
    ASSUME NEW P, PortsTyped(P), NEW anon \in Addresses, anon[1] = 0, anon \notin DOMAIN P
    PROVE  PortsTyped(WithTrial(P, anon))
<1>1. PICK t, T : t = Port(AnonymousName, {}, 0, FALSE) /\ T = WithTrial(P, anon)
  OBVIOUS
<1>2. t = [name |-> AnonymousName, dir |-> {}, subs |-> 0, real |-> FALSE] /\ t \in PortRecords
  <2>1. t = [name |-> AnonymousName, dir |-> {}, subs |-> 0, real |-> FALSE]
    BY <1>1 DEF Port
  <2>2. AnonymousName \in PortNames /\ {} \in SUBSET {"in", "out"} /\ 0 \in Nat /\ FALSE \in BOOLEAN
    BY DEF PortNames
  <2>3. QED BY <2>1, <2>2 DEF PortRecords
<1>3. T = [q \in DOMAIN P \cup {anon} |-> IF q = anon THEN t ELSE P[q]]
  BY <1>1 DEF WithTrial
<1>4. DOMAIN T = DOMAIN P \cup {anon} /\ T[anon] = t /\ \A q \in DOMAIN P : T[q] = P[q]
  BY <1>3
<1>5. T \in [DOMAIN T -> PortRecords] /\ DOMAIN T \subseteq Addresses
  BY <1>2, <1>3, <1>4 DEF PortsTyped
<1>6. Bounded(T)
  <2>1. PICK n \in Nat : \A p \in DOMAIN P : Len(p[2]) <= n
    BY DEF PortsTyped, Bounded
  <2>2. Len(anon[2]) \in Nat /\ \A p \in DOMAIN P : Len(p[2]) \in Nat
    <3>1. anon[2] \in Seq(Nat) /\ \A p \in DOMAIN P : p[2] \in Seq(Nat)
      BY DEF PortsTyped, Addresses, Paths
    <3>2. QED BY <3>1
  <2>3. n + Len(anon[2]) \in Nat
    BY <2>2
  <2>4. \A p \in DOMAIN T : Len(p[2]) <= n + Len(anon[2])
    BY <1>4, <2>1, <2>2
  <2>5. QED BY <2>3, <2>4 DEF Bounded
<1>7. ASSUME NEW p \in DOMAIN T, NEW i \in 1 .. T[p].subs PROVE Sub(p, i) \in DOMAIN T
  <2>1. CASE p = anon
    <3>1. T[p].subs = 0
      BY <1>2, <1>4, <2>1
    <3>2. QED BY <1>7, <3>1
  <2>2. CASE p \in DOMAIN P
    <3>1. i \in 1 .. P[p].subs
      BY <1>4, <2>2
    <3>2. QED BY <1>4, <2>2, <3>1 DEF PortsTyped
  <2>3. QED BY <1>4, <2>1, <2>2
<1>8. \A p \in DOMAIN T : p[1] # 0 => T[p].real /\ Directed(T[p])
  BY <1>4 DEF PortsTyped
<1>9. QED BY <1>1, <1>5, <1>6, <1>7, <1>8 DEF PortsTyped

\* A port of the new entity makes a port for what it can be connected to.
LEMMA EncloseOK ==
    ASSUME NEW P, PortsTyped(P), PortsTree(P), NEW p, NEW b \in Unreal(P), NEW r \in DOMAIN P,
           ~(b[1] = 0 /\ r[1] = 0)
    PROVE  OutcomeOK(P, b, r, Enclose(P, b, r, p))
<1>1. b \in DOMAIN P /\ b \in Addresses /\ r \in Addresses /\ b[1] = 0 /\ r[1] # 0
  BY DEF Unreal, PortsTyped
<1>2. PICK anon : anon = Sub(b, 0)
  OBVIOUS
<1>3. anon \in Addresses /\ anon[1] = 0 /\ anon \notin DOMAIN P
  <2>1. 0 \in Nat /\ 0 \notin 1 .. P[b].subs
    OBVIOUS
  <2>2. anon \notin DOMAIN P
    BY <1>1, <1>2, <2>1, TreeUp
  <2>3. QED BY <1>1, <1>2, <2>1, <2>2, SubFacts
<1>4. PICK T : T = WithTrial(P, anon)
  OBVIOUS
<1>5. /\ PortsTyped(T) /\ anon \in DOMAIN T /\ r \in DOMAIN T
      /\ \A q \in DOMAIN T : q # anon => q \in DOMAIN P
  BY <1>3, <1>4, TrialTyped DEF WithTrial
<1>6. PICK x, y, o : /\ y = FindCompatible(T, anon, Reversed(p))[r]
                     /\ x = Swapped(y)
                     /\ o = Tried(T, anon, r, p, x)
  OBVIOUS
<1>7. Enclose(P, b, r, p) = Enclosed(P, b, o)
  BY <1>2, <1>4, <1>6 DEF Enclose, WithTrial
<1>8. OutcomeOK(T, r, anon, y) /\ y.made = {}
  <2>1. BelowOK(T, r, anon, y)
    BY <1>5, <1>6, FoundBelow
  <2>2. QED BY <1>1, <2>1 DEF BelowOK
<1>9. OutcomeOK(T, anon, r, x) /\ x.made = {}
  <2>1. OutcomeOK(T, anon, r, x)
    BY <1>6, <1>8, SwappedOK
  <2>2. x.made = y.made
    <3>1. CASE y.tag # "found"
      BY <1>6, <3>1 DEF Swapped
    <3>2. CASE y.tag = "found"
      <4>1. PICK q : q = <<y.pair[2], y.pair[1]>>
        OBVIOUS
      <4>2. x = [y EXCEPT !.pair = q]
        BY <1>6, <3>2, <4>1 DEF Swapped
      <4>3. y = [tag |-> y.tag, pair |-> y.pair, made |-> y.made]
        BY <1>8 DEF OutcomeOK, OutcomeTyped, Outcomes
      <4>4. QED BY ONLY <4>2, <4>3
    <3>3. QED BY <3>1, <3>2
  <2>3. QED BY <1>8, <2>1, <2>2
<1>10. OutcomeOK(T, anon, r, o) /\ o.made = {}
  <2>1. OutcomeOK(T, anon, r, o)
    BY <1>1, <1>3, <1>5, <1>6, <1>9, TriedOK
  <2>2. OneOf(T, anon, r, x, o)
    BY <1>1, <1>3, <1>6, <1>9, TriedIs DEF OutcomeOK
  <2>3. QED BY <1>9, <2>1, <2>2 DEF OneOf
<1>11. o.tag \in Tags
  BY <1>10 DEF OutcomeOK, OutcomeTyped, Outcomes
<1>12. ASSUME o.tag # "found" PROVE OutcomeOK(P, b, r, o)
  <2>1. o \in Outcomes(P)
    BY <1>10 DEF OutcomeOK, OutcomeTyped, Outcomes
  <2>2. QED BY <1>10, <1>12, <2>1 DEF OutcomeOK, OutcomeTyped
<1>13. ASSUME o.tag = "found"
       PROVE  o.pair[2] \in DOMAIN P /\ P[o.pair[2]].real /\ o.pair[2][1] = r[1]
  <2>1. PICK a \in Addresses, c \in Addresses :
            o.pair = <<a, c>> /\ c[1] = r[1] /\ CanPair(T, a, c, {})
    BY <1>10, <1>13 DEF OutcomeOK
  <2>2. c \in DOMAIN T
    BY <2>1 DEF CanPair, CanJoin
  <2>3. c \in DOMAIN P /\ P[c].real
    BY <1>1, <1>3, <1>5, <2>1, <2>2 DEF PortsTyped
  <2>4. QED BY <2>1, <2>3
<1>14. QED BY <1>7, <1>11, <1>12, <1>13, EnclosedOK

-----------------------------------------------------------------------------
(* Port::findCompatibles.                                                    *)

Predicates == [same: BOOLEAN, check: BOOLEAN, first: {"in", "out"}]

\* A predicate seen from the other side and back.
LEMMA ReversedFacts ==
    ASSUME NEW p \in Predicates
    PROVE  Reversed(p) \in Predicates /\ Reversed(Reversed(p)) = p
<1>1. p = [same |-> p.same, check |-> p.check, first |-> p.first] /\ p.same \in BOOLEAN
      /\ p.check \in BOOLEAN /\ p.first \in {"in", "out"}
  BY DEF Predicates
<1>2. CASE p.same
  BY <1>2 DEF Reversed
<1>3. CASE ~p.same
  <2>1. PICK q : q = Reversed(p)
    OBVIOUS
  <2>2. PICK f : f = Opposite(p.first)
    OBVIOUS
  <2>3. f \in {"in", "out"} /\ Opposite(f) = p.first
    BY <1>1, <2>2 DEF Opposite
  <2>4. q = [p EXCEPT !.first = f]
    BY <1>3, <2>1, <2>2 DEF Reversed
  <2>5. q = [same |-> p.same, check |-> p.check, first |-> f]
    BY ONLY <1>1, <2>4
  <2>6. q \in Predicates
    BY ONLY <1>1, <2>3, <2>5 DEF Predicates
  <2>7. Reversed(q) = [q EXCEPT !.first = Opposite(f)]
    BY <1>3, <2>5 DEF Reversed
  <2>8. Reversed(q) = p
    BY ONLY <1>1, <2>3, <2>5, <2>7
  <2>9. QED BY <2>1, <2>6, <2>8
<1>4. QED BY <1>1, <1>2, <1>3

\* The parts of the search, s being what is found for other pairs.
SubsFind(P, s, c, q, pc) ==
    Among([i \in 1..P[c].subs |-> Tried(P, Sub(c, i), q, pc, s[<< <<Sub(c, i), q>>, pc>>])])

FindsWithin(P, s, c, q, pc) ==
    Or(Swapped(FindCompatible(P, c, Reversed(pc))[q]), SubsFind(P, s, c, q, pc))

FindsIn(P, s, c, q, pc) ==
    IF P[c].real THEN FindsWithin(P, s, c, q, pc)
    ELSE OrEnclosed(FindsWithin(P, s, c, q, pc), Enclose(P, c, q, pc))

Finds(P, s, l, r, p) ==
    IF ~P[l].real \/ (IsComposite(P, l) /\ IsSingle(P, r)) THEN FindsIn(P, s, l, r, p)
    ELSE IF IsSingle(P, r) THEN NotFound
    ELSE Swapped(FindsIn(P, s, r, l, Reversed(p)))

\* What one container finds, if its parts find what can be paired.
LEMMA FindsInOK ==
    ASSUME NEW P, PortsTyped(P), PortsTree(P), NEW s, NEW c \in DOMAIN P, NEW q \in DOMAIN P, NEW pc,
           ~(c[1] = 0 /\ q[1] = 0),
           \A i \in 1 .. P[c].subs : OutcomeOK(P, Sub(c, i), q, s[<< <<Sub(c, i), q>>, pc>>])
    PROVE  OutcomeOK(P, c, q, FindsIn(P, s, c, q, pc))
<1>1. OutcomeOK(P, c, q, SubsFind(P, s, c, q, pc))
  <2>1. PICK n \in Nat : n = P[c].subs
    BY DEF PortsTyped, PortRecords
  <2>2. ASSUME NEW i \in 1 .. n
        PROVE  OutcomeOK(P, c, q, Tried(P, Sub(c, i), q, pc, s[<< <<Sub(c, i), q>>, pc>>]))
    <3>1. PICK a, x : a = Sub(c, i) /\ x = s[<< <<Sub(c, i), q>>, pc>>]
      OBVIOUS
    <3>2. a \in DOMAIN P /\ a[1] = c[1]
      BY <2>1, <3>1 DEF PortsTyped, Sub
    <3>3. OutcomeOK(P, a, q, x)
      BY <2>1, <3>1
    <3>4. OutcomeOK(P, c, q, x)
      BY <3>2, <3>3 DEF OutcomeOK
    <3>5. OutcomeOK(P, c, q, Tried(P, a, q, pc, x))
      BY <3>2, <3>4, TriedOK
    <3>6. QED BY <3>1, <3>5
  <2>3. PICK outs : outs = [i \in 1 .. n |-> Tried(P, Sub(c, i), q, pc, s[<< <<Sub(c, i), q>>, pc>>])]
    OBVIOUS
  <2>4. outs = [i \in 1 .. n |-> outs[i]] /\ \A i \in 1 .. n : OutcomeOK(P, c, q, outs[i])
    BY <2>2, <2>3
  <2>5. OutcomeOK(P, c, q, Among(outs))
    BY ONLY <2>4, n \in Nat, AmongOK
  <2>6. QED BY <2>1, <2>3, <2>5 DEF SubsFind
<1>2. OutcomeOK(P, c, q, Swapped(FindCompatible(P, c, Reversed(pc))[q]))
  <2>1. BelowOK(P, q, c, FindCompatible(P, c, Reversed(pc))[q])
    BY FoundBelow
  <2>2. OutcomeOK(P, q, c, FindCompatible(P, c, Reversed(pc))[q])
    BY <2>1 DEF BelowOK
  <2>3. QED BY <2>2, SwappedOK
<1>3. OutcomeOK(P, c, q, FindsWithin(P, s, c, q, pc))
  BY <1>1, <1>2 DEF FindsWithin, Or
<1>4. CASE P[c].real
  BY <1>3, <1>4 DEF FindsIn
<1>5. CASE ~P[c].real
  <2>1. OutcomeOK(P, c, q, Enclose(P, c, q, pc))
    BY <1>5, EncloseOK DEF Unreal
  <2>2. QED BY <1>3, <1>5, <2>1 DEF FindsIn, OrEnclosed
<1>6. QED BY <1>4, <1>5

\* What is found for a pair, if what is found for pairs further down can be paired.
LEMMA FindsOK ==
    ASSUME NEW P, PortsTyped(P), PortsTree(P), NEW s, NEW l \in DOMAIN P, NEW r \in DOMAIN P, NEW p,
           ~(l[1] = 0 /\ r[1] = 0),
           \A i \in 1 .. P[l].subs : OutcomeOK(P, Sub(l, i), r, s[<< <<Sub(l, i), r>>, p>>]),
           \A i \in 1 .. P[r].subs : OutcomeOK(P, Sub(r, i), l, s[<< <<Sub(r, i), l>>, Reversed(p)>>])
    PROVE  OutcomeOK(P, l, r, Finds(P, s, l, r, p))
<1>1. OutcomeOK(P, l, r, FindsIn(P, s, l, r, p))
  BY FindsInOK
<1>2. OutcomeOK(P, l, r, Swapped(FindsIn(P, s, r, l, Reversed(p))))
  <2>1. OutcomeOK(P, r, l, FindsIn(P, s, r, l, Reversed(p)))
    BY FindsInOK
  <2>2. QED BY <2>1, SwappedOK
<1>3. OutcomeOK(P, l, r, NotFound)
  BY NotFoundFacts DEF OutcomeOK
<1>4. QED BY <1>1, <1>2, <1>3 DEF Finds

\* Port::findCompatibles goes down from the pair as it is coded, and finds pairs that can
\* be connected once what it makes is made.
LEMMA FoundPairs ==
    ASSUME NEW P, PortsTyped(P), PortsTree(P), NEW p0 \in Predicates
    PROVE  \E search :
              /\ search = FindCompatibles(P, p0)
              /\ \A l, r \in DOMAIN P, p \in {p0, Reversed(p0)} :
                    ~(l[1] = 0 /\ r[1] = 0) =>
                        /\ OutcomeOK(P, l, r, search[<< <<l, r>>, p>>])
                        /\ search[<< <<l, r>>, p>>] = Finds(P, search, l, r, p)
<1> DEFINE S == Connectable(P) \X {p0, Reversed(p0)}
           D == Outcomes(P)
           E == [x \in S |-> {o \in D : OutcomeOK(P, x[1][1], x[1][2], o)}]
           F == Typed(S, D, E)
           Once(s) == [x \in S |-> Finds(P, s, x[1][1], x[1][2], x[2])]
           More == [s \in F |-> Once(s)]
<1>1. PICK n \in Nat : \A q \in DOMAIN P : Len(q[2]) <= n
  BY DEF PortsTyped, Bounded
<1> DEFINE Depth(l, r) == (n - Len(l[2])) + (n - Len(r[2]))
           depth == [x \in S |-> Depth(x[1][1], x[1][2])]
<1>2. ASSUME NEW q \in DOMAIN P
      PROVE  /\ n - Len(q[2]) \in Nat
             /\ \A i \in 1 .. P[q].subs : /\ Sub(q, i) \in DOMAIN P /\ Sub(q, i)[1] = q[1]
                                          /\ n - Len(Sub(q, i)[2]) < n - Len(q[2])
  <2>1. q \in Addresses /\ P[q].subs \in Nat
    BY DEF PortsTyped, PortRecords
  <2>2. Len(q[2]) \in Nat
    BY ONLY <2>1, SubFacts, 0 \in Nat
  <2>3. ASSUME NEW i \in 1 .. P[q].subs
        PROVE  /\ Sub(q, i) \in DOMAIN P /\ Sub(q, i)[1] = q[1]
               /\ n - Len(Sub(q, i)[2]) < n - Len(q[2])
    <3>1. i \in Nat
      BY <2>1
    <3>2. Sub(q, i) \in DOMAIN P /\ Len(Sub(q, i)[2]) = Len(q[2]) + 1 /\ Sub(q, i)[1] = q[1]
      BY <2>1, <3>1, SubFacts DEF PortsTyped
    <3>3. QED BY <2>2, <3>2
  <2>4. n - Len(q[2]) \in Nat
    BY <1>1, <2>2
  <2>5. QED BY <2>3, <2>4
<1>3. \A l, r, p : << <<l, r>>, p>> \in S <=>
                     /\ l \in DOMAIN P /\ r \in DOMAIN P /\ ~(l[1] = 0 /\ r[1] = 0)
                     /\ p \in {p0, Reversed(p0)}
  BY DEF Connectable
<1>4. \A x \in S : \E l, r \in DOMAIN P, p \in {p0, Reversed(p0)} :
                     /\ x = << <<l, r>>, p>> /\ x[1][1] = l /\ x[1][2] = r /\ x[2] = p
                     /\ ~(l[1] = 0 /\ r[1] = 0)
  BY DEF Connectable
<1>5. \A p \in {p0, Reversed(p0)} : Reversed(p) \in {p0, Reversed(p0)}
  BY ReversedFacts
<1> HIDE DEF S
<1>7. ASSUME NEW l \in DOMAIN P, NEW r \in DOMAIN P, NEW p \in {p0, Reversed(p0)}, ~(l[1] = 0 /\ r[1] = 0)
      PROVE  /\ Depth(l, r) \in Nat
             /\ \A i \in 1 .. P[l].subs : << <<Sub(l, i), r>>, p>> \in S /\ Depth(Sub(l, i), r) < Depth(l, r)
             /\ \A i \in 1 .. P[r].subs : << <<Sub(r, i), l>>, Reversed(p)>> \in S
                                          /\ Depth(Sub(r, i), l) < Depth(l, r)
  <2>1. n - Len(l[2]) \in Nat /\ n - Len(r[2]) \in Nat
    BY <1>2
  <2>2. ASSUME NEW i \in 1 .. P[l].subs
        PROVE  << <<Sub(l, i), r>>, p>> \in S /\ Depth(Sub(l, i), r) < Depth(l, r)
    <3>1. Sub(l, i) \in DOMAIN P /\ Sub(l, i)[1] = l[1] /\ n - Len(Sub(l, i)[2]) < n - Len(l[2])
          /\ n - Len(Sub(l, i)[2]) \in Nat
      BY <1>2
    <3>2. << <<Sub(l, i), r>>, p>> \in S
      BY <1>3, <1>7, <3>1
    <3>3. Depth(Sub(l, i), r) < Depth(l, r)
      <4>1. PICK x, y, z : x = n - Len(l[2]) /\ y = n - Len(r[2]) /\ z = n - Len(Sub(l, i)[2])
        OBVIOUS
      <4>2. Depth(Sub(l, i), r) = z + y /\ Depth(l, r) = x + y
        BY ONLY <4>1 DEF Depth
      <4>3. x \in Nat /\ y \in Nat /\ z \in Nat /\ z < x
        BY ONLY <2>1, <3>1, <4>1
      <4> HIDE DEF Depth
      <4>4. QED BY ONLY <4>2, <4>3
    <3>4. QED BY <3>2, <3>3
  <2>3. ASSUME NEW i \in 1 .. P[r].subs
        PROVE  << <<Sub(r, i), l>>, Reversed(p)>> \in S /\ Depth(Sub(r, i), l) < Depth(l, r)
    <3>1. Sub(r, i) \in DOMAIN P /\ Sub(r, i)[1] = r[1] /\ n - Len(Sub(r, i)[2]) < n - Len(r[2])
          /\ n - Len(Sub(r, i)[2]) \in Nat
      BY <1>2
    <3>2. << <<Sub(r, i), l>>, Reversed(p)>> \in S
      BY <1>3, <1>5, <1>7, <3>1
    <3>3. Depth(Sub(r, i), l) < Depth(l, r)
      <4>1. PICK x, y, z : x = n - Len(l[2]) /\ y = n - Len(r[2]) /\ z = n - Len(Sub(r, i)[2])
        OBVIOUS
      <4>2. Depth(Sub(r, i), l) = z + x /\ Depth(l, r) = x + y
        BY ONLY <4>1 DEF Depth
      <4>3. x \in Nat /\ y \in Nat /\ z \in Nat /\ z < y
        BY ONLY <2>1, <3>1, <4>1
      <4> HIDE DEF Depth
      <4>4. QED BY ONLY <4>2, <4>3
    <3>4. QED BY <3>2, <3>3
  <2>4. Depth(l, r) \in Nat
    <3>1. PICK x, y : x = n - Len(l[2]) /\ y = n - Len(r[2])
      OBVIOUS
    <3>2. Depth(l, r) = x + y
      BY ONLY <3>1 DEF Depth
    <3>3. x \in Nat /\ y \in Nat
      BY ONLY <2>1, <3>1
    <3> HIDE DEF Depth
    <3>4. QED BY ONLY <3>2, <3>3
  <2> HIDE DEF Depth
  <2>5. QED BY <2>2, <2>3, <2>4
<1> HIDE DEF Depth
<1>8. depth \in [S -> Nat]
  <2>1. \A x \in S : Depth(x[1][1], x[1][2]) \in Nat
    BY <1>4, <1>7
  <2>2. QED BY <2>1
<1>9. ASSUME NEW s, NEW l \in DOMAIN P, NEW r \in DOMAIN P, NEW p \in {p0, Reversed(p0)},
             ~(l[1] = 0 /\ r[1] = 0),
             \A i \in 1 .. P[l].subs : OutcomeOK(P, Sub(l, i), r, s[<< <<Sub(l, i), r>>, p>>]),
             \A i \in 1 .. P[r].subs : OutcomeOK(P, Sub(r, i), l, s[<< <<Sub(r, i), l>>, Reversed(p)>>])
      PROVE  OutcomeOK(P, l, r, Finds(P, s, l, r, p))
  BY <1>9, FindsOK
<1>10. ASSUME NEW s \in F PROVE Once(s) \in F
  <2>1. \A x \in S : OutcomeOK(P, x[1][1], x[1][2], s[x])
    BY DEF Typed
  <2> HIDE DEF F, D, E
  <2>2. ASSUME NEW x \in S PROVE OutcomeOK(P, x[1][1], x[1][2], Finds(P, s, x[1][1], x[1][2], x[2]))
    <3>1. PICK l \in DOMAIN P, r \in DOMAIN P, p \in {p0, Reversed(p0)} :
               /\ x = << <<l, r>>, p>> /\ x[1][1] = l /\ x[1][2] = r /\ x[2] = p
               /\ ~(l[1] = 0 /\ r[1] = 0)
      BY <1>4
    <3>2. ASSUME NEW i \in 1 .. P[l].subs PROVE OutcomeOK(P, Sub(l, i), r, s[<< <<Sub(l, i), r>>, p>>])
      <4>1. PICK y \in S : y = << <<Sub(l, i), r>>, p>>
        BY <1>7, <3>1
      <4>2. y[1][1] = Sub(l, i) /\ y[1][2] = r
        BY <4>1
      <4>3. QED BY <2>1, <4>1, <4>2
    <3>3. ASSUME NEW i \in 1 .. P[r].subs PROVE OutcomeOK(P, Sub(r, i), l, s[<< <<Sub(r, i), l>>, Reversed(p)>>])
      <4>1. PICK y \in S : y = << <<Sub(r, i), l>>, Reversed(p)>>
        BY <1>7, <3>1
      <4>2. y[1][1] = Sub(r, i) /\ y[1][2] = l
        BY <4>1
      <4>3. QED BY <2>1, <4>1, <4>2
    <3>4. OutcomeOK(P, l, r, Finds(P, s, l, r, p))
      BY <1>9, <3>1, <3>2, <3>3
    <3>5. QED BY <3>1, <3>4
  <2>3. \A x \in S : Finds(P, s, x[1][1], x[1][2], x[2]) \in D
    BY <2>2 DEF OutcomeOK, OutcomeTyped, D
  <2>4. QED BY <2>2, <2>3 DEF Typed, F, E
<1>11. More \in [F -> F]
  <2> HIDE DEF F, Once
  <2> QED BY <1>10
<1>12. ASSUME NEW f \in F, NEW g \in F, NEW x \in S, \A y \in S : depth[y] < depth[x] => f[y] = g[y]
       PROVE  More[f][x] = More[g][x]
  <2>1. PICK l \in DOMAIN P, r \in DOMAIN P, p \in {p0, Reversed(p0)} :
             /\ x = << <<l, r>>, p>> /\ x[1][1] = l /\ x[1][2] = r /\ x[2] = p
             /\ ~(l[1] = 0 /\ r[1] = 0)
    BY <1>4
  <2>2. depth[x] = Depth(l, r)
    BY <2>1
  <2>3. \A a, c, q : << <<a, c>>, q>> \in S => depth[<< <<a, c>>, q>>] = Depth(a, c)
    OBVIOUS
  <2> HIDE DEF F, depth
  <2>4. ASSUME NEW i \in 1 .. P[l].subs
        PROVE  f[<< <<Sub(l, i), r>>, p>>] = g[<< <<Sub(l, i), r>>, p>>]
    <3>1. << <<Sub(l, i), r>>, p>> \in S /\ Depth(Sub(l, i), r) < Depth(l, r)
      BY <1>7, <2>1
    <3>2. QED BY <1>12, <2>2, <2>3, <3>1
  <2>5. ASSUME NEW i \in 1 .. P[r].subs
        PROVE  f[<< <<Sub(r, i), l>>, Reversed(p)>>] = g[<< <<Sub(r, i), l>>, Reversed(p)>>]
    <3>1. << <<Sub(r, i), l>>, Reversed(p)>> \in S /\ Depth(Sub(r, i), l) < Depth(l, r)
      BY <1>7, <2>1
    <3>2. QED BY <1>12, <2>2, <2>3, <3>1
  <2>6. SubsFind(P, f, l, r, p) = SubsFind(P, g, l, r, p)
    BY <2>4 DEF SubsFind
  <2>7. SubsFind(P, f, r, l, Reversed(p)) = SubsFind(P, g, r, l, Reversed(p))
    BY <2>5 DEF SubsFind
  <2>8. Finds(P, f, l, r, p) = Finds(P, g, l, r, p)
    BY <2>6, <2>7 DEF Finds, FindsIn, FindsWithin
  <2>9. More[f] = Once(f) /\ More[g] = Once(g)
    <3> HIDE DEF Once
    <3> QED OBVIOUS
  <2> HIDE DEF More
  <2>10. QED BY <2>1, <2>8, <2>9
<1>13. PICK s \in F : s = Once(s)
  <2>1. E \in [S -> SUBSET D] /\ \A x \in S : E[x] # {}
    <3>1. ASSUME NEW l, NEW r PROVE OutcomeOK(P, l, r, NotFound) /\ NotFound \in D
      <4>1. OutcomeOK(P, l, r, NotFound)
        BY NotFoundFacts DEF OutcomeOK
      <4>2. QED BY <4>1 DEF OutcomeOK, OutcomeTyped
    <3> HIDE DEF D
    <3>2. QED BY <3>1
  <2>2. Deepens(More, S, F, depth)
    <3> HIDE DEF F, More, depth
    <3> QED BY <1>8, <1>11, <1>12 DEF Deepens
  <2>3. \E h \in F : h = More[h]
    <3> HIDE DEF D, E, More, depth
    <3> QED BY ONLY <2>1, <2>2, RecursionExists
  <2>4. \A h \in F : More[h] = Once(h)
    <3> HIDE DEF F, Once
    <3> QED OBVIOUS
  <2> HIDE DEF F, More, Once
  <2>5. QED BY <2>3, <2>4
<1>14. PICK search : FindCompatibles(P, p0) = search /\ search = Once(search)
  <2>1. FindCompatibles(P, p0) = CHOOSE h : h = Once(h)
    BY DEF FindCompatibles, Finds, FindsIn, FindsWithin, SubsFind, S
  <2> HIDE DEF Once
  <2>2. (CHOOSE h : h = Once(h)) = Once(CHOOSE h : h = Once(h))
    BY <1>13
  <2>3. QED BY <2>1, <2>2
<1> HIDE DEF F, E, D, More, depth
<1>15. \A l, r, p : << <<l, r>>, p>> \in S => search[<< <<l, r>>, p>>] = Finds(P, search, l, r, p)
  <2>1. ASSUME NEW l, NEW r, NEW p, << <<l, r>>, p>> \in S
        PROVE  search[<< <<l, r>>, p>>] = Finds(P, search, l, r, p)
    <3>1. PICK x \in S : x = << <<l, r>>, p>> /\ x[1][1] = l /\ x[1][2] = r /\ x[2] = p
      BY <2>1
    <3>2. search[x] = Once(search)[x]
      <4> HIDE DEF Once
      <4> QED BY <1>14
    <3>3. QED BY <3>1, <3>2
  <2>2. QED BY <2>1
<1> HIDE DEF Once
<1> DEFINE Wrong == {k \in Nat : \E l, r \in DOMAIN P, p \in {p0, Reversed(p0)} :
                        /\ ~(l[1] = 0 /\ r[1] = 0) /\ k = Depth(l, r)
                        /\ ~OutcomeOK(P, l, r, search[<< <<l, r>>, p>>])}
<1>16. ASSUME NEW k \in Wrong PROVE \E m \in Wrong : m < k
  <2>1. PICK l \in DOMAIN P, r \in DOMAIN P, p \in {p0, Reversed(p0)} :
             /\ ~(l[1] = 0 /\ r[1] = 0) /\ k = Depth(l, r)
             /\ ~OutcomeOK(P, l, r, search[<< <<l, r>>, p>>])
    BY <1>16
  <2>2. search[<< <<l, r>>, p>>] = Finds(P, search, l, r, p)
    BY <1>3, <1>15, <2>1
  <2>3. CASE \E i \in 1 .. P[l].subs : ~OutcomeOK(P, Sub(l, i), r, search[<< <<Sub(l, i), r>>, p>>])
    <3>1. PICK i \in 1 .. P[l].subs : ~OutcomeOK(P, Sub(l, i), r, search[<< <<Sub(l, i), r>>, p>>])
      BY <2>3
    <3>2. << <<Sub(l, i), r>>, p>> \in S /\ Depth(Sub(l, i), r) < k
      BY <1>7, <2>1
    <3>3. Sub(l, i) \in DOMAIN P /\ ~(Sub(l, i)[1] = 0 /\ r[1] = 0)
      BY <1>3, <3>2
    <3>4. Depth(Sub(l, i), r) \in Nat
      BY <1>7, <3>3
    <3>5. Depth(Sub(l, i), r) \in Wrong
      BY <3>1, <3>3, <3>4
    <3> HIDE DEF Wrong
    <3>6. QED BY <3>2, <3>5
  <2>4. CASE \E i \in 1 .. P[r].subs : ~OutcomeOK(P, Sub(r, i), l, search[<< <<Sub(r, i), l>>, Reversed(p)>>])
    <3>1. PICK i \in 1 .. P[r].subs : ~OutcomeOK(P, Sub(r, i), l, search[<< <<Sub(r, i), l>>, Reversed(p)>>])
      BY <2>4
    <3>2. << <<Sub(r, i), l>>, Reversed(p)>> \in S /\ Depth(Sub(r, i), l) < k
      BY <1>7, <2>1
    <3>3. Sub(r, i) \in DOMAIN P /\ ~(Sub(r, i)[1] = 0 /\ l[1] = 0) /\ Reversed(p) \in {p0, Reversed(p0)}
      BY <1>3, <3>2
    <3>4. Depth(Sub(r, i), l) \in Nat
      BY <1>7, <3>3
    <3>5. Depth(Sub(r, i), l) \in Wrong
      BY <3>1, <3>3, <3>4
    <3> HIDE DEF Wrong
    <3>6. QED BY <3>2, <3>5
  <2> HIDE DEF Wrong
  <2>5. QED BY <1>9, <2>1, <2>2, <2>3, <2>4
<1>17. Wrong = {}
  <2>1. Wrong \in SUBSET Nat
    OBVIOUS
  <2> HIDE DEF Wrong
  <2>2. QED BY <1>16, <2>1, Descent
<1>18. ASSUME NEW l \in DOMAIN P, NEW r \in DOMAIN P, NEW p \in {p0, Reversed(p0)}, ~(l[1] = 0 /\ r[1] = 0)
       PROVE  /\ OutcomeOK(P, l, r, search[<< <<l, r>>, p>>])
              /\ search[<< <<l, r>>, p>>] = Finds(P, search, l, r, p)
  <2>1. Depth(l, r) \in Nat
    BY <1>7, <1>18
  <2>2. OutcomeOK(P, l, r, search[<< <<l, r>>, p>>])
    BY <1>17, <1>18, <2>1
  <2> HIDE DEF Wrong
  <2>3. QED BY <1>3, <1>15, <1>18, <2>2
<1>19. QED BY <1>14, <1>18

\* What a request is understood to mean.
LEMMA MeantOK ==
    ASSUME NEW P, PortsTyped(P), PortsTree(P), NEW from \in DOMAIN P, NEW to \in DOMAIN P,
           ~(from[1] = 0 /\ to[1] = 0), NEW directional \in BOOLEAN
    PROVE  OutcomeOK(P, from, to, Meant(P, from, to, directional))
<1>1. PICK p : p = Predicate(from, to, directional)
  OBVIOUS
<1>2. p \in Predicates
  <2>1. p = [same |-> 0 \in {from[1], to[1]}, check |-> directional,
             first |-> IF from[1] = 0 THEN "in" ELSE "out"]
    BY <1>1 DEF Predicate
  <2>2. QED BY <2>1 DEF Predicates
<1>3. OutcomeOK(P, from, to, FindCompatibles(P, p)[<< <<from, to>>, p>>])
  BY <1>2, FoundPairs
<1>4. QED BY <1>1, <1>3, TriedOK DEF Meant

-----------------------------------------------------------------------------
(* That what is found is the only pair.                                      *)

\* Where the ports below p are seen from it.
Shape(P, p) == {From(p, q) : q \in Below(P, p)}

\* A path is in the shape of a port if there is a port where it leads to.
LEMMA ShapeFacts ==
    ASSUME NEW P, PortsTyped(P), NEW p \in Addresses
    PROVE  /\ \A path : path \in Shape(P, p) <=> path \in Paths /\ Under(p, path) \in DOMAIN P
           /\ \A q : q \in Below(P, p) <=> \E path \in Paths : q = Under(p, path) /\ q \in DOMAIN P
           /\ p \in DOMAIN P => p \in Below(P, p)
<1>1. DOMAIN P \subseteq Addresses
  BY DEF PortsTyped
<1>2. ASSUME NEW q \in Below(P, p)
      PROVE  q \in DOMAIN P /\ From(p, q) \in Paths /\ q = Under(p, From(p, q))
  BY <1>1, BelowIsUnder DEF Below
<1>3. ASSUME NEW path \in Paths, Under(p, path) \in DOMAIN P
      PROVE  Under(p, path) \in Below(P, p) /\ From(p, Under(p, path)) = path
  BY <1>3, UnderIsBelow DEF Below
<1>4. \A path : path \in Shape(P, p) <=> path \in Paths /\ Under(p, path) \in DOMAIN P
  BY <1>2, <1>3 DEF Shape
<1>5. \A q : q \in Below(P, p) <=> \E path \in Paths : q = Under(p, path) /\ q \in DOMAIN P
  BY <1>2, <1>3
<1>6. p \in DOMAIN P => p \in Below(P, p)
  <2>1. <<>> \in Paths /\ Under(p, <<>>) = p
    BY UnderNothing DEF Paths
  <2>2. QED BY <1>5, <2>1
<1>7. QED BY <1>4, <1>5, <1>6

\* A path that is put after another can be put after it in two steps.
LEMMA PathsInSteps ==
    ASSUME NEW r \in Paths, NEW s \in Paths, NEW t \in Paths
    PROVE  (r \o s) \o t = r \o (s \o t)
BY ConcatAssociative DEF Paths

\* No port below another has its shape.
LEMMA ShapeStrict ==
    ASSUME NEW P, PortsTyped(P), NEW p \in DOMAIN P, NEW q \in Below(P, p), Shape(P, q) = Shape(P, p)
    PROVE  q = p
<1>1. p \in Addresses /\ q \in Addresses /\ q \in DOMAIN P
  BY DEF PortsTyped, Below
<1>2. PICK path \in Paths : q = Under(p, path)
  BY <1>1, ShapeFacts
<1>3. PICK n \in Nat : \A r \in DOMAIN P : Len(r[2]) <= n
  BY DEF PortsTyped, Bounded
<1> DEFINE L == {n - Len(s) : s \in Shape(P, q)}
<1>4. \A s \in Shape(P, q) : s \in Paths /\ Len(s) \in Nat /\ Len(s) <= n /\ Under(q, s) \in DOMAIN P
  <2>1. ASSUME NEW s \in Shape(P, q) PROVE s \in Paths /\ Len(s) \in Nat /\ Len(s) <= n /\ Under(q, s) \in DOMAIN P
    <3>1. s \in Paths /\ Under(q, s) \in DOMAIN P /\ q[2] \in Paths /\ Under(q, s)[2] = q[2] \o s
      BY <1>1, ShapeFacts, UnderIsBelow DEF Addresses
    <3>2. Len(q[2] \o s) = Len(q[2]) + Len(s) /\ Len(q[2]) \in Nat /\ Len(s) \in Nat
      BY <3>1, ConcatProperties DEF Paths
    <3>3. Len(q[2] \o s) <= n
      BY <1>3, <3>1
    <3>4. QED BY <3>1, <3>2, <3>3
  <2>2. QED BY <2>1
<1>5. ASSUME path # <<>>, NEW k \in L PROVE \E m \in L : m < k
  <2>1. PICK s \in Shape(P, q) : k = n - Len(s)
    BY <1>5
  <2>2. s \in Paths /\ Len(s) \in Nat /\ Under(q, s) \in DOMAIN P
    BY <1>4, <2>1
  <2>3. Under(q, s) = Under(p, path \o s) /\ path \o s \in Paths /\ Len(path \o s) = Len(path) + Len(s)
        /\ Len(path) \in Nat /\ Len(path) # 0
    <3>1. p[2] \in Paths /\ path \in Paths /\ s \in Paths
      BY <1>1, <2>2 DEF Addresses
    <3>2. (p[2] \o path) \o s = p[2] \o (path \o s)
      <4>1. PICK a \in Paths : a = p[2]
        BY <3>1
      <4>2. (a \o path) \o s = a \o (path \o s)
        BY <3>1, PathsInSteps
      <4>3. QED BY <4>1, <4>2
    <3>3. Under(q, s) = Under(p, path \o s)
      BY <1>2, <3>2 DEF Under
    <3>4. path \o s \in Paths /\ Len(path \o s) = Len(path) + Len(s) /\ Len(path) \in Nat
      BY <3>1, ConcatProperties DEF Paths
    <3>5. Len(path) # 0
      BY <1>5, <3>1 DEF Paths
    <3>6. QED BY <3>3, <3>4, <3>5
  <2>4. path \o s \in Shape(P, q)
    BY <1>1, <2>2, <2>3, ShapeFacts
  <2>5. n - Len(path \o s) \in L
    BY <2>4
  <2>50. n - Len(path \o s) < k
    BY ONLY n \in Nat, <2>1, <2>2, <2>3
  <2> HIDE DEF L
  <2>6. QED BY <2>5, <2>50
<1>6. L \in SUBSET Nat /\ L # {}
  <2>1. L \in SUBSET Nat
    BY <1>3, <1>4
  <2>2. q \in Below(P, q)
    BY <1>1, ShapeFacts
  <2>3. QED BY <2>1, <2>2 DEF Shape
<1>7. path = <<>>
  <2> SUFFICES ASSUME path # <<>> PROVE FALSE
    OBVIOUS
  <2> HIDE DEF L
  <2>1. L = {}
    BY <1>5, <1>6, Descent
  <2>2. QED BY <1>6, <2>1
<1>8. QED BY <1>1, <1>2, <1>7, UnderNothing

\* Of ports below each other one at most fits a third.
LEMMA FitsOnce ==
    ASSUME NEW P, PortsTyped(P), NEW c \in DOMAIN P, NEW p
    PROVE  /\ \A l \in DOMAIN P : \A q \in Below(P, l) : Fits(P, l, c, p) /\ Fits(P, q, c, p) => q = l
           /\ \A r \in DOMAIN P : \A q \in Below(P, r) : Fits(P, c, r, p) /\ Fits(P, c, q, p) => q = r
<1>1. \A a, b : Fits(P, a, b, p) => Shape(P, a) = Shape(P, b)
  BY DEF Fits, Shape
<1>2. QED BY <1>1, ShapeStrict

\* Which of two ports is the first does not matter.
LEMMA FitsReversed ==
    ASSUME NEW P, PortsTyped(P), NEW p \in Predicates, NEW l \in DOMAIN P, NEW r \in DOMAIN P,
           p.same \/ (l[1] # 0 /\ r[1] # 0), Fits(P, l, r, p)
    PROVE  Fits(P, r, l, Reversed(p))
<1>1. l \in Addresses /\ r \in Addresses /\ Shape(P, l) = Shape(P, r)
  BY DEF PortsTyped, Fits, Shape
<1>2. ASSUME NEW path \in Shape(P, l)
      PROVE  /\ P[Under(r, path)].subs = P[Under(l, path)].subs
             /\ P[Under(r, path)].subs = 0 =>
                   FitsSingle(P[Under(r, path)], P[Under(l, path)], Reversed(p))
  <2>1. PICK a, b : a = P[Under(l, path)] /\ b = P[Under(r, path)]
    OBVIOUS
  <2>2. a.subs = b.subs /\ (a.subs = 0 => FitsSingle(a, b, p))
    BY <2>1 DEF Fits, Shape, Under
  <2>3. Under(l, path) \in DOMAIN P /\ Under(r, path) \in DOMAIN P /\ path \in Paths
        /\ Under(l, path)[1] = l[1] /\ Under(r, path)[1] = r[1]
    BY <1>1, ShapeFacts, UnderIsBelow
  <2>4. ~p.same /\ a.subs = 0 => a.dir \in {{"in"}, {"out"}} /\ b.dir \in {{"in"}, {"out"}}
    BY <2>1, <2>2, <2>3 DEF PortsTyped, Directed
  <2>5. a.subs = 0 => FitsSingle(b, a, Reversed(p))
    <3>1. CASE p.same
      BY <2>2, <3>1 DEF FitsSingle, Reversed
    <3>2. CASE ~p.same /\ a.subs = 0
      <4>1. PICK f, g, e : f = p.first /\ g = Opposite(f) /\ e = Reversed(p)
        OBVIOUS
      <4>2. f \in {"in", "out"} /\ p.same \in BOOLEAN /\ p.check \in BOOLEAN
            /\ p = [same |-> p.same, check |-> p.check, first |-> f]
        BY <4>1 DEF Predicates
      <4>3. g \in {"in", "out"} /\ g # f /\ Opposite(g) = f
        BY <4>1, <4>2 DEF Opposite
      <4>4. e = [p EXCEPT !.first = g]
        BY <3>2, <4>1 DEF Reversed
      <4>5. e = [same |-> p.same, check |-> p.check, first |-> g]
        BY ONLY <4>2, <4>4
      <4>6. a.dir # b.dir /\ (p.check => g \notin a.dir)
        BY <2>2, <3>2, <4>1 DEF FitsSingle, OpAllows
      <4>7. p.check => f \notin b.dir
        BY <2>4, <3>2, <4>2, <4>3, <4>6
      <4>8. QED BY <3>2, <4>1, <4>3, <4>5, <4>6, <4>7 DEF FitsSingle, OpAllows
    <3>3. QED BY <3>1, <3>2
  <2>6. QED BY <2>1, <2>2, <2>5
<1>3. QED BY <1>1, <1>2 DEF Fits, Shape, Under

\* What is found is the only pair of its ports in A and B that fits; nothing is found if
\* no pair does.
Only(P, A, B, p, o) ==
    /\ o.tag = "found" => \E a \in A, b \in B :
                             /\ o.pair = <<a, b>>
                             /\ \A q \in A : Fits(P, q, b, p) <=> q = a
                             /\ \A q \in B : Fits(P, a, q, p) <=> q = b
    /\ o.tag = "none" => \A a \in A, b \in B : ~Fits(P, a, b, p)

\* Only one of two searches has found what both look for together.
LEMMA OnlyThen ==
    ASSUME NEW P, NEW A, NEW C, NEW B, NEW p, NEW b, NEW a, OutcomeTyped(P, b), OutcomeTyped(P, a),
           Only(P, A, B, p, b), Only(P, C, B, p, a)
    PROVE  OutcomeTyped(P, Then(b, a)) /\ Only(P, A \cup C, B, p, Then(b, a))
<1>1. PICK o, m : o = Then(b, a) /\ m = b.made \cup a.made
  OBVIOUS
<1>2. OutcomeTyped(P, o)
  BY <1>1, ThenIs
<1>3. b = [tag |-> b.tag, pair |-> b.pair, made |-> b.made] /\ a = [tag |-> a.tag, pair |-> a.pair, made |-> a.made]
  BY DEF OutcomeTyped, Outcomes
<1>4. CASE b.tag \notin {"none", "found"}
  <2>1. o = b
    BY <1>1, <1>4 DEF Then
  <2>2. QED BY <1>1, <1>2, <1>4, <2>1 DEF Only
<1>5. CASE b.tag = "found" /\ a.tag = "found"
  <2>1. o = [Thrown("multiple") EXCEPT !.made = m]
    <3>1. b.tag \in {"none", "found"}
      BY <1>5
    <3>2. QED BY <1>1, <1>5, <3>1 DEF Then
  <2>2. Thrown("multiple") \in Outcomes(P) /\ Thrown("multiple").tag = "multiple"
    BY NotFoundFacts DEF Tags
  <2>3. o.tag = "multiple"
    BY <2>1, <2>2 DEF Outcomes
  <2>4. QED BY <1>1, <1>2, <2>3 DEF Only
<1>6. CASE b.tag \in {"none", "found"} /\ ~(b.tag = "found" /\ a.tag = "found") /\ a.tag = "none"
  <2>1. o = [b EXCEPT !.made = m]
    BY <1>1, <1>6 DEF Then
  <2>2. o.tag = b.tag /\ o.pair = b.pair
    BY ONLY <1>3, <2>1
  <2>3. QED BY <1>1, <1>2, <1>6, <2>2 DEF Only
<1>7. CASE b.tag \in {"none", "found"} /\ ~(b.tag = "found" /\ a.tag = "found") /\ a.tag # "none"
  <2>1. o = [a EXCEPT !.made = m]
    BY <1>1, <1>7 DEF Then
  <2>2. o.tag = a.tag /\ o.pair = a.pair
    BY ONLY <1>3, <2>1
  <2>3. QED BY <1>1, <1>2, <1>7, <2>2 DEF Only
<1>8. QED BY <1>4, <1>5, <1>6, <1>7

\* Nor have several.
LEMMA OnlyAmong ==
    ASSUME NEW P, NEW n \in Nat, NEW A, NEW U, \A q : q \in U <=> \E i \in 1 .. n : q \in A[i],
           NEW B, NEW p, NEW outcomes,
           outcomes = [i \in 1 .. n |-> outcomes[i]],
           \A i \in 1 .. n : OutcomeTyped(P, outcomes[i]) /\ Only(P, A[i], B, p, outcomes[i])
    PROVE  OutcomeTyped(P, Among(outcomes)) /\ Only(P, U, B, p, Among(outcomes))
<1> DEFINE D == {o \in Outcomes(P) : OutcomeTyped(P, o)}
           First(k) == UNION {A[i] : i \in 1 .. k}
<1>1. \A o : o \in D <=> OutcomeTyped(P, o)
  BY DEF OutcomeTyped
<1>2. NotFound \in D /\ \A b, a \in D : Then(b, a) \in D
  <2>1. OutcomeTyped(P, NotFound)
    BY NotFoundFacts
  <2>2. \A b, a : OutcomeTyped(P, b) /\ OutcomeTyped(P, a) => OutcomeTyped(P, Then(b, a))
    BY ThenIs
  <2> HIDE DEF D
  <2>3. QED BY <1>1, <2>1, <2>2
<1> HIDE DEF D
<1>3. outcomes \in Seq(D) /\ Len(outcomes) = n
  BY <1>1
<1>4. PICK run : Runs(run, outcomes, n) /\ Among(outcomes) = run[n]
  BY <1>2, <1>3, AmongRuns
<1> DEFINE Good(k) == OutcomeTyped(P, run[k]) /\ Only(P, First(k), B, p, run[k])
           Wrong == {k \in 0 .. n : ~Good(k)}
<1>5. Good(0)
  <2>1. run[0] = NotFound /\ First(0) = {}
    BY <1>4 DEF Runs
  <2>2. NotFound.tag = "none" /\ OutcomeTyped(P, NotFound)
    BY NotFoundFacts
  <2> HIDE DEF First
  <2>3. QED BY <2>1, <2>2 DEF Only
<1>6. ASSUME NEW k \in 1 .. n, Good(k - 1) PROVE Good(k)
  <2>1. run[k] = Then(run[k - 1], outcomes[k])
    BY <1>4 DEF Runs
  <2>2. First(k) = First(k - 1) \cup A[k]
    <3>1. 1 .. k = (1 .. k - 1) \cup {k}
      OBVIOUS
    <3>2. QED BY <3>1
  <2> HIDE DEF First
  <2>3. QED BY <1>6, <2>1, <2>2, OnlyThen
<1> HIDE DEF Good
<1>7. ASSUME NEW k \in Wrong PROVE \E m \in Wrong : m < k
  <2>1. k \in 0 .. n /\ ~Good(k)
    BY <1>7
  <2>2. k \in 1 .. n /\ k - 1 \in 0 .. n /\ k - 1 < k
    BY <1>5, <2>1
  <2>3. k - 1 \in Wrong
    BY <1>6, <2>1, <2>2
  <2>4. QED BY <2>2, <2>3
<1>8. Wrong = {}
  <2>1. Wrong \in SUBSET Nat
    OBVIOUS
  <2> HIDE DEF Wrong
  <2>2. QED BY <1>7, <2>1, Descent
<1>9. Good(n)
  BY <1>8
<1>10. First(n) = U
  OBVIOUS
<1> HIDE DEF First
<1>11. QED BY <1>4, <1>9, <1>10 DEF Good

\* What is seen from the other side is the only pair as well.
LEMMA OnlySwapped ==
    ASSUME NEW P, PortsTyped(P), NEW p \in Predicates, NEW A \in SUBSET DOMAIN P, NEW B \in SUBSET DOMAIN P,
           \A a \in A, b \in B : p.same \/ (a[1] # 0 /\ b[1] # 0),
           NEW o, OutcomeTyped(P, o), Only(P, A, B, p, o)
    PROVE  Only(P, B, A, Reversed(p), Swapped(o)) /\ OutcomeTyped(P, Swapped(o))
<1>1. \A a \in A, b \in B : Fits(P, b, a, Reversed(p)) <=> Fits(P, a, b, p)
  <2>1. Reversed(p) \in Predicates /\ Reversed(Reversed(p)) = p
    BY ReversedFacts
  <2>2. p.same => Reversed(p).same
    BY DEF Reversed
  <2>3. ASSUME NEW a \in A, NEW b \in B PROVE Fits(P, b, a, Reversed(p)) <=> Fits(P, a, b, p)
    <3>1. Fits(P, a, b, p) => Fits(P, b, a, Reversed(p))
      BY FitsReversed
    <3>2. Fits(P, b, a, Reversed(p)) => Fits(P, a, b, Reversed(Reversed(p)))
      BY <2>1, <2>2, FitsReversed
    <3>3. QED BY <2>1, <3>1, <3>2
  <2>4. QED BY <2>3
<1>2. CASE o.tag # "found"
  BY <1>1, <1>2 DEF Swapped, Only
<1>3. CASE o.tag = "found"
  <2>1. PICK a \in A, b \in B : /\ o.pair = <<a, b>>
                                /\ \A q \in A : Fits(P, q, b, p) <=> q = a
                                /\ \A q \in B : Fits(P, a, q, p) <=> q = b
    BY <1>3 DEF Only
  <2>2. PICK s \in Addresses \X Addresses : s = <<b, a>>
    BY DEF PortsTyped
  <2>3. Swapped(o) = [o EXCEPT !.pair = s]
    <3>1. <<o.pair[2], o.pair[1]>> = s
      BY <2>1, <2>2
    <3>2. QED BY <1>3, <3>1 DEF Swapped
  <2>4. Swapped(o) = [tag |-> o.tag, pair |-> s, made |-> o.made]
    BY <2>3 DEF OutcomeTyped, Outcomes
  <2>5. OutcomeTyped(P, Swapped(o))
    BY <2>2, <2>4 DEF OutcomeTyped, Outcomes
  <2>6. Swapped(o).tag = "found" /\ Swapped(o).pair = <<b, a>>
    BY <1>3, <2>2, <2>4
  <2>7. QED BY <1>1, <2>1, <2>5, <2>6 DEF Only
<1>4. QED BY <1>2, <1>3

\* Two known ports fit, or what is found otherwise is the only pair.
LEMMA OnlyTried ==
    ASSUME NEW P, PortsTyped(P), NEW p, NEW l \in DOMAIN P, NEW r \in DOMAIN P, P[l].real, P[r].real,
           NEW B, r \in B, B \subseteq Below(P, r), NEW otherwise, OutcomeTyped(P, otherwise),
           ~Fits(P, l, r, p) => Only(P, Below(P, l), B, p, otherwise)
    PROVE  /\ Only(P, Below(P, l), B, p, Tried(P, l, r, p, otherwise))
           /\ OutcomeTyped(P, Tried(P, l, r, p, otherwise))
<1>1. l \in Addresses /\ r \in Addresses
  BY DEF PortsTyped
<1>2. PICK o : o = Tried(P, l, r, p, otherwise)
  OBVIOUS
<1>3. OutcomeTyped(P, o)
  BY <1>1, <1>2, TriedIs DEF OneOf
<1>4. CASE Fits(P, l, r, p)
  <2>1. Compat(P, l, r, p) = "yes"
    BY <1>4 DEF Compat
  <2>2. o = FoundPair(l, r)
    BY <1>2, <2>1 DEF Tried
  <2>3. o.tag = "found" /\ o.pair = <<l, r>>
    BY <2>2, FoundPairIs
  <2>4. l \in Below(P, l)
    BY <1>1, ShapeFacts
  <2>5. QED BY <1>2, <1>3, <1>4, <2>3, <2>4, FitsOnce DEF Only
<1>5. CASE ~Fits(P, l, r, p)
  <2>1. Compat(P, l, r, p) = "no"
    BY <1>5 DEF Compat
  <2>2. o = otherwise
    BY <1>2, <2>1 DEF Tried
  <2>3. QED BY <1>2, <1>3, <1>5, <2>2
<1>6. QED BY <1>4, <1>5

\* The ports below a composite are below its components.
LEMMA BelowParts ==
    ASSUME NEW P, PortsTyped(P), PortsTree(P), NEW c \in DOMAIN P
    PROVE  \A q : q \in Below(P, c) \ {c} <=> \E i \in 1 .. P[c].subs : q \in Below(P, Sub(c, i))
<1>1. c \in Addresses /\ P[c].subs \in Nat
  BY DEF PortsTyped, PortRecords
<1>2. ASSUME NEW i \in 1 .. P[c].subs, NEW q \in Below(P, Sub(c, i)) PROVE q \in Below(P, c) \ {c}
  <2>1. PICK b : b = Sub(c, i) /\ b \in Addresses /\ i \in Nat
    BY <1>1, SubFacts
  <2>2. PICK path \in Paths : q = Under(b, path) /\ q \in DOMAIN P
    BY <2>1, ShapeFacts
  <2>3. c[2] \in Paths /\ <<i>> \in Paths /\ b = <<c[1], c[2] \o <<i>>>>
    <3>1. c[2] \in Paths
      BY <1>1 DEF Addresses
    <3>2. \A s \in Paths : Append(s, i) = s \o <<i>>
      BY <2>1, AppendIsConcat DEF Paths
    <3>3. QED BY <2>1, <3>1, <3>2 DEF Sub, Paths
  <2>4. q = Under(c, <<i>> \o path) /\ <<i>> \o path \in Paths /\ <<i>> \o path # <<>>
    <3>1. PICK a, t : a = c[2] /\ t = <<i>>
      OBVIOUS
    <3>2. (a \o t) \o path = a \o (t \o path)
      BY <2>3, <3>1, PathsInSteps
    <3>3. t \o path \in Paths /\ Len(t \o path) = Len(t) + Len(path) /\ Len(path) \in Nat
      BY <2>1, <2>3, <3>1, PathFacts
    <3>4. Len(t) = 1
      BY <3>1
    <3>5. t \o path # <<>>
      <4>1. Len(<<>>) = 0
        OBVIOUS
      <4>2. QED BY ONLY <3>3, <3>4, <4>1
    <3>6. q = <<c[1], (a \o t) \o path>>
      BY <2>2, <2>3, <3>1 DEF Under
    <3>7. QED BY <3>1, <3>2, <3>3, <3>5, <3>6 DEF Under
  <2>5. q \in Below(P, c)
    BY <1>1, <2>2, <2>4, ShapeFacts
  <2>6. q # c
    <3>1. <<>> \in Paths /\ Under(c, <<>>) = c
      BY <1>1, UnderNothing DEF Paths
    <3>2. QED BY <1>1, <2>4, <3>1, UnderInjective
  <2>7. QED BY <2>5, <2>6
<1>3. ASSUME NEW q \in Below(P, c) \ {c} PROVE \E i \in 1 .. P[c].subs : q \in Below(P, Sub(c, i))
  <2>1. PICK path \in Paths : q = Under(c, path) /\ q \in DOMAIN P
    BY <1>1, ShapeFacts
  <2>2. path # <<>>
    BY <1>1, <2>1, UnderNothing
  <2>3. PICK i, rest : /\ i \in Nat /\ rest \in Paths /\ <<i>> \in Paths /\ path = <<i>> \o rest
    <3>1. PICK i, rest : i = Head(path) /\ rest = Tail(path)
      OBVIOUS
    <3>2. path \in Seq(Nat) /\ path # <<>>
      BY <2>2 DEF Paths
    <3>3. i \in Nat /\ rest \in Seq(Nat)
      BY ONLY <3>1, <3>2, HeadTailProperties
    <3>4. path = <<i>> \o rest
      BY ONLY <3>1, <3>2
    <3>5. <<i>> \in Paths
      BY <3>3 DEF Paths
    <3>6. QED BY <3>3, <3>4, <3>5 DEF Paths
  <2>4. PICK b : b = Sub(c, i) /\ b \in Addresses
    BY <1>1, <2>3, SubFacts
  <2>5. q = Under(b, rest)
    <3>1. PICK a, t : a = c[2] /\ t = <<i>> /\ a \in Paths
      BY <1>1 DEF Addresses
    <3>2. (a \o t) \o rest = a \o (t \o rest) /\ Append(a, i) = a \o t
      <4>1. \A s \in Paths : Append(s, i) = s \o <<i>>
        BY <2>3, AppendIsConcat DEF Paths
      <4>2. QED BY <2>3, <3>1, <4>1, PathsInSteps
    <3>3. b[1] = c[1] /\ b[2] = Append(a, i)
      BY <1>1, <2>3, <2>4, <3>1, SubFacts
    <3>4. QED BY <2>1, <2>3, <3>1, <3>2, <3>3 DEF Under
  <2>6. b \in DOMAIN P
    BY <2>1, <2>3, <2>4, <2>5, TreeFarUp
  <2>7. i \in 1 .. P[c].subs
    BY <1>1, <2>3, <2>4, <2>6, TreeUp
  <2>8. q \in Below(P, b)
    BY <2>1, <2>3, <2>4, <2>5, ShapeFacts
  <2>9. QED BY <2>4, <2>7, <2>8
<1>4. QED BY <1>2, <1>3

\* PortContainer::findCompatible finds the only port below a composite that fits.
LEMMA OnlyBelow ==
    ASSUME NEW P, PortsTyped(P), PortsTree(P), NEW p, NEW peer \in DOMAIN P, P[peer].real,
           NEW c0 \in DOMAIN P, P[c0].real
    PROVE  /\ Only(P, Below(P, c0) \ {c0}, {peer}, p, FindCompatible(P, peer, p)[c0])
           /\ OutcomeTyped(P, FindCompatible(P, peer, p)[c0])
<1>1. PICK n \in Nat : \A q \in DOMAIN P : Len(q[2]) <= n
  BY DEF PortsTyped, Bounded
<1>2. PICK find : find = FindCompatible(P, peer, p)
  OBVIOUS
<1>3. \A c \in DOMAIN P : OutcomeTyped(P, find[c]) /\ find[c] = FindsBelow(P, find, peer, p, c)
  BY <1>2, FoundBelow DEF BelowOK
<1> DEFINE Good(c) == Only(P, Below(P, c) \ {c}, {peer}, p, find[c])
           Wrong == {k \in Nat : \E c \in DOMAIN P : P[c].real /\ k = n - Len(c[2]) /\ ~Good(c)}
<1>4. \A c \in DOMAIN P : n - Len(c[2]) \in Nat
  <2>1. \A c \in DOMAIN P : Len(c[2]) \in Nat
    BY DEF PortsTyped, Addresses, Paths
  <2>2. QED BY <1>1, <2>1
<1>5. ASSUME NEW c \in DOMAIN P, P[c].real, NEW i \in 1 .. P[c].subs
      PROVE  /\ Sub(c, i) \in DOMAIN P /\ P[Sub(c, i)].real
             /\ n - Len(Sub(c, i)[2]) < n - Len(c[2])
  <2>1. c \in Addresses /\ i \in Nat /\ Sub(c, i) \in DOMAIN P
    BY DEF PortsTyped, PortRecords
  <2>2. P[Sub(c, i)].real
    BY <1>5, <2>1, TreeUp
  <2>3. Len(Sub(c, i)[2]) = Len(c[2]) + 1 /\ Len(c[2]) \in Nat
    BY <2>1, SubFacts
  <2>4. QED BY <2>1, <2>2, <2>3
<1>6. ASSUME NEW c \in DOMAIN P, P[c].real, \A i \in 1 .. P[c].subs : Good(Sub(c, i))
      PROVE  Good(c)
  <2>0. PICK m \in Nat : m = P[c].subs
    BY DEF PortsTyped, PortRecords
  <2>1. PICK A, outs :
            /\ m = P[c].subs /\ A = [i \in 1 .. m |-> Below(P, Sub(c, i))]
            /\ outs = [i \in 1 .. m |-> Tried(P, Sub(c, i), peer, p, find[Sub(c, i)])]
    BY <2>0
  <2>2. ASSUME NEW i \in 1 .. m
        PROVE  OutcomeTyped(P, outs[i]) /\ Only(P, A[i], {peer}, p, outs[i])
    <3>1. PICK b \in DOMAIN P : b = Sub(c, i) /\ P[b].real /\ Good(b)
      BY <1>5, <1>6, <2>1
    <3>2. peer \in {peer} /\ {peer} \subseteq Below(P, peer)
      BY ShapeFacts DEF PortsTyped
    <3>3. ~Fits(P, b, peer, p) => Only(P, Below(P, b), {peer}, p, find[b])
      BY <3>1 DEF Only
    <3>4. PICK o : o = Tried(P, b, peer, p, find[b])
      OBVIOUS
    <3>5. OutcomeTyped(P, o) /\ Only(P, Below(P, b), {peer}, p, o)
      BY <1>3, <3>1, <3>2, <3>3, <3>4, OnlyTried
    <3>6. outs[i] = o /\ A[i] = Below(P, b)
      BY <2>1, <3>1, <3>4
    <3>7. QED BY <3>5, <3>6
  <2>3. outs = [i \in 1 .. m |-> outs[i]]
    BY <2>1
  <2>4. \A q : q \in Below(P, c) \ {c} <=> \E i \in 1 .. m : q \in A[i]
    BY <2>1, BelowParts
  <2>5. Only(P, Below(P, c) \ {c}, {peer}, p, Among(outs))
    <3>1. PICK B : B = {peer}
      OBVIOUS
    <3>2. \A i \in 1 .. m : OutcomeTyped(P, outs[i]) /\ Only(P, A[i], B, p, outs[i])
      BY <2>2, <3>1
    <3>3. Only(P, Below(P, c) \ {c}, B, p, Among(outs))
      BY ONLY m \in Nat, <2>3, <2>4, <3>2, OnlyAmong
    <3>4. QED BY <3>1, <3>3
  <2>6. find[c] = Among(outs)
    BY <1>3, <2>1 DEF FindsBelow
  <2>7. QED BY <2>5, <2>6
<1> HIDE DEF Good
<1>7. ASSUME NEW k \in Wrong PROVE \E j \in Wrong : j < k
  <2>1. PICK c \in DOMAIN P : P[c].real /\ k = n - Len(c[2]) /\ ~Good(c)
    BY <1>7
  <2>2. PICK i \in 1 .. P[c].subs : ~Good(Sub(c, i))
    BY <1>6, <2>1
  <2>3. PICK b \in DOMAIN P : b = Sub(c, i) /\ P[b].real /\ n - Len(b[2]) < k
    BY <1>5, <2>1
  <2>4. n - Len(b[2]) \in Wrong
    BY <1>4, <2>2, <2>3
  <2> HIDE DEF Wrong
  <2>5. QED BY <2>3, <2>4
<1>8. Wrong = {}
  <2>1. Wrong \in SUBSET Nat
    OBVIOUS
  <2> HIDE DEF Wrong
  <2>2. QED BY <1>7, <2>1, Descent
<1>9. Good(c0)
  BY <1>4, <1>8
<1>10. QED BY <1>2, <1>3, <1>9 DEF Good

\* What the search between two ports that do not fit is to find.
OnlyPair(P, l, r, p, o) ==
    OutcomeTyped(P, o) /\ (~Fits(P, l, r, p) => Only(P, Below(P, l), Below(P, r), p, o))

\* Two ports whose elements tell what a predicate asks of them.
Comparable(l, r, p) == p.same \/ (l[1] # 0 /\ r[1] # 0)

\* What a container of known ports finds, if its parts find the only pairs.
LEMMA OnlyWithin ==
    ASSUME NEW P, PortsTyped(P), PortsTree(P), NEW s, NEW c \in DOMAIN P, NEW q \in DOMAIN P,
           P[c].real, P[q].real, NEW p \in Predicates, Comparable(c, q, p),
           \A i \in 1 .. P[c].subs : OnlyPair(P, Sub(c, i), q, p, s[<< <<Sub(c, i), q>>, p>>])
    PROVE  OnlyPair(P, c, q, p, FindsWithin(P, s, c, q, p))
<1>1. PICK f, x, y : /\ f = FindCompatible(P, c, Reversed(p))[q] /\ x = Swapped(f)
                     /\ y = SubsFind(P, s, c, q, p)
  OBVIOUS
<1>2. c \in Addresses /\ q \in Addresses /\ c \in Below(P, c) /\ q \in Below(P, q)
      /\ \A a \in Below(P, c) : a \in DOMAIN P /\ a[1] = c[1]
      /\ \A b \in Below(P, q) : b \in DOMAIN P /\ b[1] = q[1]
  BY ShapeFacts DEF PortsTyped, Below
<1>3. Reversed(p) \in Predicates /\ Reversed(Reversed(p)) = p /\ (Reversed(p).same <=> p.same)
  BY ReversedFacts DEF Reversed
<1>4. Only(P, {c}, Below(P, q) \ {q}, p, x) /\ OutcomeTyped(P, x)
  <2>1. PICK A \in SUBSET DOMAIN P, B \in SUBSET DOMAIN P : A = Below(P, q) \ {q} /\ B = {c}
    BY <1>2
  <2>2. Only(P, A, B, Reversed(p), f) /\ OutcomeTyped(P, f)
    BY <1>1, <2>1, OnlyBelow
  <2>3. \A a \in A, b \in B : Reversed(p).same \/ (a[1] # 0 /\ b[1] # 0)
    BY <1>2, <1>3, <2>1 DEF Comparable
  <2>4. Only(P, B, A, Reversed(Reversed(p)), Swapped(f)) /\ OutcomeTyped(P, Swapped(f))
    BY ONLY <1>3, <2>2, <2>3, PortsTyped(P), A \in SUBSET DOMAIN P, B \in SUBSET DOMAIN P, OnlySwapped
  <2>5. QED BY <1>1, <1>3, <2>1, <2>4
<1>5. Only(P, Below(P, c) \ {c}, Below(P, q), p, y) /\ OutcomeTyped(P, y)
  <2>1. PICK m \in Nat : m = P[c].subs
    BY DEF PortsTyped, PortRecords
  <2>2. PICK A, outs :
            /\ A = [i \in 1 .. m |-> Below(P, Sub(c, i))]
            /\ outs = [i \in 1 .. m |-> Tried(P, Sub(c, i), q, p, s[<< <<Sub(c, i), q>>, p>>])]
    OBVIOUS
  <2>3. ASSUME NEW i \in 1 .. m
        PROVE  OutcomeTyped(P, outs[i]) /\ Only(P, A[i], Below(P, q), p, outs[i])
    <3>1. c \in Addresses /\ i \in Nat /\ Sub(c, i) \in DOMAIN P
      BY <1>2, <2>1 DEF PortsTyped
    <3>2. P[Sub(c, i)].real
      BY <3>1, TreeUp
    <3>30. PICK b \in DOMAIN P : b = Sub(c, i)
      BY <3>1
    <3>3. PICK e, o : /\ b = Sub(c, i) /\ e = s[<< <<Sub(c, i), q>>, p>>]
                      /\ o = Tried(P, b, q, p, e)
      BY <3>30
    <3>4. OutcomeTyped(P, e) /\ (~Fits(P, b, q, p) => Only(P, Below(P, b), Below(P, q), p, e))
      BY <2>1, <3>3 DEF OnlyPair
    <3>5. OutcomeTyped(P, o) /\ Only(P, Below(P, b), Below(P, q), p, o)
      BY <1>2, <3>2, <3>3, <3>4, OnlyTried
    <3>6. outs[i] = o /\ A[i] = Below(P, b)
      BY <2>2, <3>3
    <3>7. QED BY <3>5, <3>6
  <2>4. outs = [i \in 1 .. m |-> outs[i]]
    BY <2>2
  <2>5. \A a : a \in Below(P, c) \ {c} <=> \E i \in 1 .. m : a \in A[i]
    BY <2>1, <2>2, BelowParts
  <2>6. \A i \in 1 .. m : OutcomeTyped(P, outs[i]) /\ Only(P, A[i], Below(P, q), p, outs[i])
    BY <2>3
  <2>7. Only(P, Below(P, c) \ {c}, Below(P, q), p, Among(outs)) /\ OutcomeTyped(P, Among(outs))
    BY ONLY m \in Nat, <2>4, <2>5, <2>6, OnlyAmong
  <2>8. QED BY <1>1, <2>1, <2>2, <2>7 DEF SubsFind
<1>6. PICK o : o = FindsWithin(P, s, c, q, p)
  OBVIOUS
<1>7. OutcomeTyped(P, o)
  BY <1>1, <1>4, <1>5, <1>6 DEF FindsWithin, Or
<1>8. ASSUME ~Fits(P, c, q, p) PROVE Only(P, Below(P, c), Below(P, q), p, o)
  <2>1. CASE x.tag # "none"
    <3>1. o = x
      BY <1>1, <1>6, <2>1 DEF FindsWithin, Or
    <3>2. ASSUME x.tag = "found"
          PROVE  \E a \in Below(P, c), b \in Below(P, q) :
                    /\ x.pair = <<a, b>>
                    /\ \A e \in Below(P, c) : Fits(P, e, b, p) <=> e = a
                    /\ \A e \in Below(P, q) : Fits(P, a, e, p) <=> e = b
      <4>1. PICK b \in Below(P, q) \ {q} : /\ x.pair = <<c, b>> /\ Fits(P, c, b, p)
                                           /\ \A e \in Below(P, q) \ {q} : Fits(P, c, e, p) <=> e = b
        BY <1>4, <3>2 DEF Only
      <4>2. \A e \in Below(P, q) : Fits(P, c, e, p) <=> e = b
        BY <1>8, <4>1
      <4>3. \A e \in Below(P, c) : Fits(P, e, b, p) <=> e = c
        BY <1>2, <4>1, FitsOnce
      <4>4. QED BY <1>2, <4>1, <4>2, <4>3
    <3>3. QED BY <2>1, <3>1, <3>2 DEF Only
  <2>2. CASE x.tag = "none"
    <3>1. o = y
      BY <1>1, <1>6, <2>2 DEF FindsWithin, Or
    <3>2. \A b \in Below(P, q) : ~Fits(P, c, b, p)
      BY <1>4, <1>8, <2>2 DEF Only
    <3>3. QED BY <1>5, <3>1, <3>2 DEF Only
  <2>3. QED BY <2>1, <2>2
<1>9. QED BY <1>6, <1>7, <1>8 DEF OnlyPair

\* What is found for a pair, if the only pairs are found further down.
LEMMA OnlyFinds ==
    ASSUME NEW P, PortsTyped(P), PortsTree(P), NEW s, NEW l \in DOMAIN P, NEW r \in DOMAIN P,
           P[l].real, P[r].real, NEW p \in Predicates, Comparable(l, r, p),
           \A i \in 1 .. P[l].subs : OnlyPair(P, Sub(l, i), r, p, s[<< <<Sub(l, i), r>>, p>>]),
           \A i \in 1 .. P[r].subs : OnlyPair(P, Sub(r, i), l, Reversed(p), s[<< <<Sub(r, i), l>>, Reversed(p)>>])
    PROVE  ~Fits(P, l, r, p) => Only(P, Below(P, l), Below(P, r), p, Finds(P, s, l, r, p))
<1>1. l \in Addresses /\ r \in Addresses /\ P[l].subs \in Nat /\ P[r].subs \in Nat
      /\ l \in Below(P, l) /\ r \in Below(P, r)
      /\ \A a \in Below(P, l) : a \in DOMAIN P /\ a[1] = l[1]
      /\ \A b \in Below(P, r) : b \in DOMAIN P /\ b[1] = r[1]
  BY ShapeFacts DEF PortsTyped, PortRecords, Below
<1>2. Reversed(p) \in Predicates /\ Reversed(Reversed(p)) = p /\ (Reversed(p).same <=> p.same)
  BY ReversedFacts DEF Reversed
<1>3. CASE IsComposite(P, l) /\ IsSingle(P, r)
  <2>1. Finds(P, s, l, r, p) = FindsWithin(P, s, l, r, p)
    BY <1>3 DEF Finds, FindsIn
  <2>2. QED BY <2>1, OnlyWithin DEF OnlyPair
<1>4. CASE ~IsComposite(P, l) /\ IsSingle(P, r)
  <2>1. Finds(P, s, l, r, p) = NotFound
    BY <1>4 DEF Finds
  <2>2. P[l].subs = 0 /\ P[r].subs = 0
    BY <1>1, <1>4 DEF IsComposite, IsSingle
  <2>3. Below(P, l) = {l} /\ Below(P, r) = {r}
    <3>1. Below(P, l) \ {l} = {} /\ Below(P, r) \ {r} = {}
      BY <2>2, BelowParts
    <3>2. QED BY <1>1, <3>1
  <2>4. NotFound.tag = "none" /\ OutcomeTyped(P, NotFound)
    BY NotFoundFacts
  <2>5. QED BY <2>1, <2>3, <2>4 DEF Only
<1>5. CASE ~IsSingle(P, r)
  <2>1. PICK o : o = FindsWithin(P, s, r, l, Reversed(p))
    OBVIOUS
  <2>2. Finds(P, s, l, r, p) = Swapped(o)
    BY <1>5, <2>1 DEF Finds, FindsIn
  <2>3. OnlyPair(P, r, l, Reversed(p), o)
    <3>1. Comparable(r, l, Reversed(p))
      BY <1>2 DEF Comparable
    <3>2. QED BY <1>2, <2>1, <3>1, OnlyWithin
  <2>4. PICK A \in SUBSET DOMAIN P, B \in SUBSET DOMAIN P : A = Below(P, r) /\ B = Below(P, l)
    BY <1>1
  <2>5. \A a \in A, b \in B : Reversed(p).same \/ (a[1] # 0 /\ b[1] # 0)
    BY <1>1, <1>2, <2>4 DEF Comparable
  <2>6. ASSUME ~Fits(P, l, r, p) PROVE Only(P, B, A, p, Swapped(o))
    <3>1. ~Fits(P, r, l, Reversed(p))
      <4>1. Fits(P, r, l, Reversed(p)) => Fits(P, l, r, Reversed(Reversed(p)))
        BY <1>2, FitsReversed DEF Comparable
      <4>2. QED BY <1>2, <2>6, <4>1
    <3>2. Only(P, A, B, Reversed(p), o) /\ OutcomeTyped(P, o)
      BY <2>3, <2>4, <3>1 DEF OnlyPair
    <3>3. Only(P, B, A, Reversed(Reversed(p)), Swapped(o))
      BY ONLY <1>2, <2>5, <3>2, PortsTyped(P), A \in SUBSET DOMAIN P, B \in SUBSET DOMAIN P, OnlySwapped
    <3>4. QED BY <1>2, <3>3
  <2>7. QED BY <2>2, <2>4, <2>6
<1>6. QED BY <1>3, <1>4, <1>5

\* A request between two known ports means the only pair of ports that fit, unless it
\* means the two themselves.
LEMMA OnlyMeant ==
    ASSUME NEW P, PortsTyped(P), PortsTree(P), NEW from \in DOMAIN P, NEW to \in DOMAIN P,
           P[from].real, P[to].real, ~(from[1] = 0 /\ to[1] = 0), NEW directional \in BOOLEAN
    PROVE  Only(P, Below(P, from), Below(P, to), Predicate(from, to, directional),
                Meant(P, from, to, directional))
<1>1. PICK p0 : p0 = Predicate(from, to, directional)
  OBVIOUS
<1>2. p0 \in Predicates /\ (p0.same <=> from[1] = 0 \/ to[1] = 0)
  <2>1. p0 = [same |-> 0 \in {from[1], to[1]}, check |-> directional,
              first |-> IF from[1] = 0 THEN "in" ELSE "out"]
    BY <1>1 DEF Predicate
  <2>2. p0.same <=> from[1] = 0 \/ to[1] = 0
    BY <2>1
  <2>3. QED BY <2>1, <2>2 DEF Predicates
<1>3. PICK search :
          /\ search = FindCompatibles(P, p0)
          /\ \A l, r \in DOMAIN P, p \in {p0, Reversed(p0)} :
                ~(l[1] = 0 /\ r[1] = 0) =>
                    /\ OutcomeOK(P, l, r, search[<< <<l, r>>, p>>])
                    /\ search[<< <<l, r>>, p>>] = Finds(P, search, l, r, p)
  BY <1>2, FoundPairs
<1>4. \A p \in {p0, Reversed(p0)} : /\ p \in Predicates /\ Reversed(p) \in {p0, Reversed(p0)}
                                    /\ (p.same <=> p0.same)
  <2>1. Reversed(p0) \in Predicates /\ Reversed(Reversed(p0)) = p0 /\ (Reversed(p0).same <=> p0.same)
    BY <1>2, ReversedFacts DEF Reversed
  <2>2. QED BY <1>2, <2>1
<1>5. PICK n \in Nat : \A q \in DOMAIN P : Len(q[2]) <= n
  BY DEF PortsTyped, Bounded
<1>6. ASSUME NEW q \in DOMAIN P
      PROVE  n - Len(q[2]) \in Nat /\ P[q].subs \in Nat
  <2>1. Len(q[2]) \in Nat /\ P[q].subs \in Nat
    BY DEF PortsTyped, PortRecords, Addresses, Paths
  <2>2. QED BY <1>5, <2>1
<1>7. ASSUME NEW q \in DOMAIN P, P[q].real, NEW i \in 1 .. P[q].subs
      PROVE  /\ Sub(q, i) \in DOMAIN P /\ P[Sub(q, i)].real /\ Sub(q, i)[1] = q[1]
             /\ n - Len(Sub(q, i)[2]) < n - Len(q[2])
  <2>1. q \in Addresses /\ i \in Nat /\ Sub(q, i) \in DOMAIN P
    BY DEF PortsTyped, PortRecords
  <2>2. P[Sub(q, i)].real
    BY <1>7, <2>1, TreeUp
  <2>3. Len(Sub(q, i)[2]) = Len(q[2]) + 1 /\ Len(q[2]) \in Nat /\ Sub(q, i)[1] = q[1]
    BY <2>1, SubFacts
  <2>4. QED BY <2>1, <2>2, <2>3
<1> DEFINE Depth(l, r) == (n - Len(l[2])) + (n - Len(r[2]))
           Asked(l, r, p) == /\ l \in DOMAIN P /\ r \in DOMAIN P /\ P[l].real /\ P[r].real
                             /\ ~(l[1] = 0 /\ r[1] = 0) /\ Comparable(l, r, p)
                             /\ p \in {p0, Reversed(p0)}
           Good(l, r, p) == OnlyPair(P, l, r, p, search[<< <<l, r>>, p>>])
           Wrong == {k \in Nat : \E l, r, p : Asked(l, r, p) /\ k = Depth(l, r) /\ ~Good(l, r, p)}
<1>8. ASSUME NEW l, NEW r, NEW p, Asked(l, r, p)
      PROVE  /\ Depth(l, r) \in Nat
             /\ \A i \in 1 .. P[l].subs : Asked(Sub(l, i), r, p) /\ Depth(Sub(l, i), r) < Depth(l, r)
             /\ \A i \in 1 .. P[r].subs : /\ Asked(Sub(r, i), l, Reversed(p))
                                          /\ Depth(Sub(r, i), l) < Depth(l, r)
  <2>1. PICK x \in Nat, y \in Nat : x = n - Len(l[2]) /\ y = n - Len(r[2])
    BY <1>6, <1>8
  <2>2. Depth(l, r) = x + y
    BY <2>1
  <2>3. ASSUME NEW i \in 1 .. P[l].subs
        PROVE  Asked(Sub(l, i), r, p) /\ Depth(Sub(l, i), r) < Depth(l, r)
    <3>1. PICK b \in DOMAIN P : b = Sub(l, i) /\ P[b].real /\ b[1] = l[1] /\ n - Len(b[2]) < x
      BY <1>7, <1>8, <2>1
    <3>2. PICK z \in Nat : z = n - Len(b[2])
      BY <1>6
    <3>3. Depth(b, r) = z + y
      BY <2>1, <3>2
    <3>4. Asked(b, r, p)
      BY <1>8, <3>1 DEF Comparable
    <3>5. z + y < x + y
      <4>1. z < x
        BY <3>1, <3>2
      <4>2. QED BY ONLY x \in Nat, y \in Nat, z \in Nat, <4>1
    <3> HIDE DEF Depth, Asked
    <3>6. QED BY <2>2, <3>1, <3>3, <3>4, <3>5
  <2>4. ASSUME NEW i \in 1 .. P[r].subs
        PROVE  Asked(Sub(r, i), l, Reversed(p)) /\ Depth(Sub(r, i), l) < Depth(l, r)
    <3>1. PICK b \in DOMAIN P : b = Sub(r, i) /\ P[b].real /\ b[1] = r[1] /\ n - Len(b[2]) < y
      BY <1>7, <1>8, <2>1
    <3>2. PICK z \in Nat : z = n - Len(b[2])
      BY <1>6
    <3>3. Depth(b, l) = z + x
      BY <2>1, <3>2
    <3>4. Asked(b, l, Reversed(p))
      <4>1. Reversed(p) \in {p0, Reversed(p0)} /\ (Reversed(p).same <=> p.same)
        BY <1>4, <1>8
      <4>2. QED BY <1>8, <3>1, <4>1 DEF Comparable
    <3>5. z + x < x + y
      <4>1. z < y
        BY <3>1, <3>2
      <4>2. QED BY ONLY x \in Nat, y \in Nat, z \in Nat, <4>1
    <3> HIDE DEF Depth, Asked
    <3>6. QED BY <2>2, <3>1, <3>3, <3>4, <3>5
  <2> HIDE DEF Asked, Depth
  <2>5. QED BY <2>2, <2>3, <2>4
<1> HIDE DEF Depth
<1>9. ASSUME NEW l, NEW r, NEW p, Asked(l, r, p),
             \A i \in 1 .. P[l].subs : Good(Sub(l, i), r, p),
             \A i \in 1 .. P[r].subs : Good(Sub(r, i), l, Reversed(p))
      PROVE  Good(l, r, p)
  <2>1. l \in DOMAIN P /\ r \in DOMAIN P /\ p \in Predicates
        /\ OutcomeOK(P, l, r, search[<< <<l, r>>, p>>])
        /\ search[<< <<l, r>>, p>>] = Finds(P, search, l, r, p)
    BY <1>3, <1>4, <1>9
  <2>2. ~Fits(P, l, r, p) => Only(P, Below(P, l), Below(P, r), p, Finds(P, search, l, r, p))
    BY <1>9, <2>1, OnlyFinds
  <2>3. QED BY <2>1, <2>2 DEF OnlyPair, OutcomeOK
<1> HIDE DEF Asked, Good
<1>10. ASSUME NEW k \in Wrong PROVE \E j \in Wrong : j < k
  <2>1. PICK l, r, p : Asked(l, r, p) /\ k = Depth(l, r) /\ ~Good(l, r, p)
    BY <1>10
  <2>2. CASE \E i \in 1 .. P[l].subs : ~Good(Sub(l, i), r, p)
    <3>1. PICK i \in 1 .. P[l].subs : ~Good(Sub(l, i), r, p)
      BY <2>2
    <3>2. Asked(Sub(l, i), r, p) /\ Depth(Sub(l, i), r) < k /\ Depth(Sub(l, i), r) \in Nat
      BY <1>8, <2>1
    <3>3. QED BY <3>1, <3>2
  <2>3. CASE \E i \in 1 .. P[r].subs : ~Good(Sub(r, i), l, Reversed(p))
    <3>1. PICK i \in 1 .. P[r].subs : ~Good(Sub(r, i), l, Reversed(p))
      BY <2>3
    <3>2. Asked(Sub(r, i), l, Reversed(p)) /\ Depth(Sub(r, i), l) < k /\ Depth(Sub(r, i), l) \in Nat
      BY <1>8, <2>1
    <3>3. QED BY <3>1, <3>2
  <2> HIDE DEF Wrong
  <2>4. QED BY <1>9, <2>1, <2>2, <2>3
<1>11. Wrong = {}
  <2>1. Wrong \in SUBSET Nat
    OBVIOUS
  <2> HIDE DEF Wrong
  <2>2. QED BY <1>10, <2>1, Descent
<1>12. Good(from, to, p0)
  <2>1. Asked(from, to, p0)
    BY <1>2 DEF Asked, Comparable
  <2>2. QED BY <1>8, <1>11, <2>1
<1>13. PICK other : other = search[<< <<from, to>>, p0>>]
  OBVIOUS
<1>14. OutcomeTyped(P, other) /\ (~Fits(P, from, to, p0) => Only(P, Below(P, from), Below(P, to), p0, other))
  BY <1>12, <1>13 DEF Good, OnlyPair
<1>15. Meant(P, from, to, directional) = Tried(P, from, to, p0, other)
  BY <1>1, <1>3, <1>13 DEF Meant
<1>16. to \in Below(P, to)
  BY ShapeFacts DEF PortsTyped
<1>17. Only(P, Below(P, from), Below(P, to), p0, Tried(P, from, to, p0, other))
  BY <1>14, <1>16, OnlyTried
<1>18. QED BY <1>1, <1>15, <1>17

-----------------------------------------------------------------------------
(* The connections that are joined.                                          *)

\* Sequences put one after the other are a sequence.
LEMMA FlattenTyped ==
    ASSUME NEW T, NEW seqs, seqs \in Seq(Seq(T))
    PROVE  FlattenSeq(seqs) \in Seq(T)
<1> DEFINE n == Len(seqs)
           S == 1 .. n
           D == Seq(T)
           E == [i \in S |-> D]
           F == Typed(S, D, E)
           Once(f) == [i \in S |-> IF i = 1 THEN seqs[i] ELSE f[i - 1] \o seqs[i]]
           More == [f \in F |-> Once(f)]
           depth == [i \in S |-> i]
<1>1. n \in Nat /\ \A i \in S : seqs[i] \in D
  OBVIOUS
<1>2. CASE n = 0
  <2>1. FlattenSeq(seqs) = seqs /\ seqs = <<>>
    BY <1>2 DEF FlattenSeq
  <2>2. QED BY <2>1
<1>3. CASE n # 0
  <2>1. F = [S -> D]
    BY DEF Typed
  <2>2. ASSUME NEW f \in [S -> D] PROVE Once(f) \in [S -> D]
    <3>1. ASSUME NEW i \in S PROVE (IF i = 1 THEN seqs[i] ELSE f[i - 1] \o seqs[i]) \in D
      <4>1. i # 1 => i - 1 \in S
        BY <1>1
      <4>2. \A s, t \in D : s \o t \in D
        OBVIOUS
      <4> HIDE DEF D, S
      <4>3. QED BY <1>1, <4>1, <4>2
    <3> HIDE DEF D
    <3>2. QED BY <3>1
  <2>3. More \in [F -> F]
    <3> HIDE DEF F, Once
    <3> QED BY <2>1, <2>2
  <2>4. ASSUME NEW f \in F, NEW g \in F, NEW i \in S, \A y \in S : depth[y] < depth[i] => f[y] = g[y]
        PROVE  More[f][i] = More[g][i]
    <3>1. i # 1 => i - 1 \in S /\ depth[i - 1] < depth[i]
      BY <1>1
    <3>2. i # 1 => f[i - 1] = g[i - 1]
      <4> HIDE DEF F, S, depth
      <4> QED BY <2>4, <3>1
    <3>3. More[f] = Once(f) /\ More[g] = Once(g)
      <4> HIDE DEF F, Once
      <4> QED OBVIOUS
    <3> HIDE DEF F, More, depth
    <3>4. QED BY <3>2, <3>3
  <2>5. depth \in [S -> Nat]
    BY <1>1
  <2>6. Deepens(More, S, F, depth)
    <3> HIDE DEF F, S, More, depth
    <3> QED BY <2>3, <2>4, <2>5 DEF Deepens
  <2>7. PICK f \in F : f = Once(f)
    <3>1. E \in [S -> SUBSET D] /\ \A i \in S : E[i] # {}
      <4>1. D # {}
        <5>1. <<>> \in D
          OBVIOUS
        <5>2. QED BY <5>1
      <4> HIDE DEF D
      <4> QED BY <4>1
    <3>2. \E h \in F : h = More[h]
      <4>1. Deepens(More, S, Typed(S, D, E), depth)
        BY <2>6
      <4> HIDE DEF n, S, D, E, F, Once, More, depth
      <4>2. \E h \in Typed(S, D, E) : h = More[h]
        BY ONLY <3>1, <4>1, RecursionExists
      <4>3. QED BY <4>2 DEF F
    <3>3. \A h \in F : More[h] = Once(h)
      <4> HIDE DEF F, Once
      <4> QED OBVIOUS
    <3> HIDE DEF F, More, Once
    <3>4. QED BY <3>2, <3>3
  <2>8. PICK flat : FlattenSeq(seqs) = flat[n] /\ flat = Once(flat)
    <3>1. FlattenSeq(seqs) = (CHOOSE h : h = Once(h))[n]
      BY <1>3 DEF FlattenSeq
    <3> HIDE DEF Once, n
    <3>2. (CHOOSE h : h = Once(h)) = Once(CHOOSE h : h = Once(h))
      BY <2>7
    <3>3. QED BY <3>1, <3>2
  <2> DEFINE Wrong == {i \in S : flat[i] \notin D}
  <2>9. ASSUME NEW i \in Wrong PROVE \E m \in Wrong : m < i
    <3>1. i \in S /\ flat[i] \notin D
      BY <2>9
    <3>2. flat[i] = IF i = 1 THEN seqs[i] ELSE flat[i - 1] \o seqs[i]
      BY <2>8, <3>1
    <3>3. i # 1
      <4> HIDE DEF D, Once
      <4> QED BY <1>1, <3>1, <3>2
    <3>4. i - 1 \in S /\ i - 1 < i
      BY <1>1, <3>1, <3>3
    <3>5. flat[i - 1] \notin D
      <4>1. \A s, t \in D : s \o t \in D
        OBVIOUS
      <4> HIDE DEF D, Once, S
      <4> QED BY <1>1, <3>1, <3>2, <3>3, <4>1
    <3>6. i - 1 \in Wrong
      <4> HIDE DEF D, S
      <4> QED BY <3>4, <3>5
    <3> HIDE DEF Wrong
    <3>7. QED BY <3>4, <3>6
  <2>10. Wrong = {}
    <3>1. Wrong \in SUBSET Nat
      OBVIOUS
    <3> HIDE DEF Wrong
    <3>2. QED BY <2>9, <3>1, Descent
  <2>11. n \in S
    BY <1>1, <1>3
  <2> HIDE DEF Once, D, S
  <2>12. flat[n] \in D
    BY <2>10, <2>11
  <2>13. QED BY <2>8, <2>12 DEF D
<1>4. QED BY <1>2, <1>3

Known(P) == {p \in DOMAIN P : P[p].real}

\* The pairs of a set of ports, and what stands for a missing one.
Pairs(A) == (A \X A) \cup {<<>>}

\* What connectCompat joins for a pair, when f says what it joins for the pairs below.
JoinsBy(P, f, x) ==
    LET from == x[1]
        to == x[2]
        Inner(i) ==
            LET j == Named(P, to, P[Sub(from, i)].name)
            IN  IF j = 0 THEN << <<>> >>
                ELSE IF j = i THEN <<>>
                ELSE f[<<Sub(to, i), Sub(to, j)>>]
    IN  <<x>> \o FlattenSeq([i \in 1..P[to].subs |-> Inner(i)])

\* The position of a port found by its name is one the composite has.
LEMMA NamedFacts ==
    ASSUME NEW P, NEW p, NEW name
    PROVE  Named(P, p, name) = 0 \/ Named(P, p, name) \in 1 .. P[p].subs
BY DEF Named

\* The pairs joined for two ports are of the set of ports their components are of.
LEMMA JoinsByTyped ==
    ASSUME NEW P, NEW A, NEW f, NEW x \in A \X A, P[x[2]].subs \in Nat,
           \A i, j \in 1 .. P[x[2]].subs : i # j => f[<<Sub(x[2], i), Sub(x[2], j)>>] \in Seq(Pairs(A))
    PROVE  JoinsBy(P, f, x) \in Seq(Pairs(A))
<1> DEFINE from == x[1]
           to == x[2]
           Inner(i) ==
              LET j == Named(P, to, P[Sub(from, i)].name)
              IN  IF j = 0 THEN << <<>> >>
                  ELSE IF j = i THEN <<>>
                  ELSE f[<<Sub(to, i), Sub(to, j)>>]
           seqs == [i \in 1..P[to].subs |-> Inner(i)]
<1>1. ASSUME NEW i \in 1 .. P[to].subs PROVE Inner(i) \in Seq(Pairs(A))
  <2>1. PICK j : j = Named(P, to, P[Sub(from, i)].name)
    OBVIOUS
  <2>2. j = 0 \/ j \in 1 .. P[to].subs
    BY <2>1, NamedFacts
  <2>3. << <<>> >> \in Seq(Pairs(A)) /\ <<>> \in Seq(Pairs(A))
    <3>1. <<>> \in Pairs(A)
      BY DEF Pairs
    <3>2. QED BY <3>1
  <2>4. j # 0 /\ j # i => f[<<Sub(to, i), Sub(to, j)>>] \in Seq(Pairs(A))
    BY <2>2
  <2>5. Inner(i) = IF j = 0 THEN << <<>> >> ELSE IF j = i THEN <<>> ELSE f[<<Sub(to, i), Sub(to, j)>>]
    BY <2>1
  <2> HIDE DEF Inner
  <2>6. QED BY ONLY <2>3, <2>4, <2>5
<1> HIDE DEF Inner
<1>2. seqs \in Seq(Seq(Pairs(A)))
  BY <1>1
<1>3. FlattenSeq(seqs) \in Seq(Pairs(A))
  <2> HIDE DEF seqs
  <2> QED BY <1>2, FlattenTyped
<1>4. <<x>> \in Seq(Pairs(A))
  BY DEF Pairs
<1>5. JoinsBy(P, f, x) = <<x>> \o FlattenSeq(seqs)
  BY DEF JoinsBy, Inner
<1> HIDE DEF seqs
<1>6. QED BY <1>3, <1>4, <1>5, ConcatProperties

\* connectCompat joins ports of the structure, and known ones when the two are known.
LEMMA JoinsTyped ==
    ASSUME NEW P, PortsTyped(P), PortsTree(P), NEW l0 \in Known(P), NEW r0 \in Known(P)
    PROVE  Joins(P, <<l0, r0>>) \in Seq(Pairs(Known(P)))
<1> DEFINE A == DOMAIN P
           S == A \X A
           D == Seq(Pairs(A))
           E == [x \in S |-> D]
           F == Typed(S, D, E)
           Once(f) == [x \in S |-> JoinsBy(P, f, x)]
           More == [f \in F |-> Once(f)]
<1>1. PICK n \in Nat : \A q \in A : Len(q[2]) <= n
  BY DEF PortsTyped, Bounded
<1> DEFINE depth == [x \in S |-> n - Len(x[2][2])]
<1>2. ASSUME NEW q \in A
      PROVE  /\ P[q].subs \in Nat /\ Len(q[2]) \in Nat
             /\ \A i \in 1 .. P[q].subs : /\ Sub(q, i) \in A /\ Len(Sub(q, i)[2]) = Len(q[2]) + 1
                                          /\ q \in Known(P) => Sub(q, i) \in Known(P)
  <2>1. q \in Addresses /\ P[q].subs \in Nat
    BY DEF PortsTyped, PortRecords
  <2>2. Len(q[2]) \in Nat
    BY ONLY <2>1, SubFacts, 0 \in Nat
  <2>3. ASSUME NEW i \in 1 .. P[q].subs
        PROVE  /\ Sub(q, i) \in A /\ Len(Sub(q, i)[2]) = Len(q[2]) + 1
               /\ q \in Known(P) => Sub(q, i) \in Known(P)
    <3>1. i \in Nat
      BY <2>1
    <3>2. Sub(q, i) \in A
      BY DEF PortsTyped
    <3>3. Len(Sub(q, i)[2]) = Len(q[2]) + 1
      BY <2>1, <3>1, SubFacts
    <3>4. P[q].real => P[Sub(q, i)].real
      BY <2>1, <3>1, <3>2, TreeUp
    <3>5. QED BY <3>2, <3>3, <3>4 DEF Known
  <2>4. QED BY <2>1, <2>2, <2>3
<1>3. depth \in [S -> Nat]
  BY <1>1, <1>2
<1>4. F = [S -> D]
  BY DEF Typed
<1>5. ASSUME NEW f \in F PROVE Once(f) \in F
  <2>1. ASSUME NEW x \in S PROVE JoinsBy(P, f, x) \in D
    <3>1. PICK to \in A : to = x[2]
      OBVIOUS
    <3>2. ASSUME NEW i \in 1 .. P[to].subs, NEW j \in 1 .. P[to].subs
          PROVE  f[<<Sub(to, i), Sub(to, j)>>] \in D
      <4>1. <<Sub(to, i), Sub(to, j)>> \in S
        BY <1>2
      <4> HIDE DEF S, D, F
      <4>2. QED BY <1>4, <4>1
    <3>3. P[to].subs \in Nat
      BY <1>2
    <3>4. QED BY <3>1, <3>2, <3>3, JoinsByTyped
  <2> HIDE DEF D
  <2>2. QED BY <1>4, <2>1
<1>6. More \in [F -> F]
  <2> HIDE DEF F, Once
  <2> QED BY <1>5
<1>7. ASSUME NEW f \in F, NEW g \in F, NEW x \in S, \A y \in S : depth[y] < depth[x] => f[y] = g[y]
      PROVE  More[f][x] = More[g][x]
  <2>1. PICK from \in A, to \in A : x = <<from, to>>
    OBVIOUS
  <2>2. ASSUME NEW i \in 1 .. P[to].subs, NEW j \in 1 .. P[to].subs
        PROVE  f[<<Sub(to, i), Sub(to, j)>>] = g[<<Sub(to, i), Sub(to, j)>>]
    <3>1. PICK a \in A, b \in A : a = Sub(to, i) /\ b = Sub(to, j) /\ Len(b[2]) = Len(to[2]) + 1
      BY <1>2
    <3>2. depth[<<a, b>>] = n - Len(b[2]) /\ depth[x] = n - Len(to[2]) /\ <<a, b>> \in S
          /\ Len(to[2]) \in Nat
      BY <1>2, <2>1
    <3> HIDE DEF F, S, depth
    <3>3. depth[<<a, b>>] < depth[x]
      BY ONLY <3>1, <3>2, n \in Nat
    <3>4. QED BY <1>7, <3>1, <3>2, <3>3
  <2>3. JoinsBy(P, f, x) = JoinsBy(P, g, x)
    <3>1. ASSUME NEW i \in 1 .. P[to].subs, NEW j, j = Named(P, to, P[Sub(from, i)].name), j # 0
          PROVE  f[<<Sub(to, i), Sub(to, j)>>] = g[<<Sub(to, i), Sub(to, j)>>]
      BY <2>2, <3>1, NamedFacts
    <3> HIDE DEF F, S, A, depth, More
    <3>3. x[1] = from /\ x[2] = to
      BY <2>1
    <3>4. QED BY <3>1, <3>3 DEF JoinsBy
  <2>4. More[f] = Once(f) /\ More[g] = Once(g)
    <3> HIDE DEF F, Once
    <3> QED OBVIOUS
  <2> HIDE DEF F, More
  <2>5. QED BY <2>3, <2>4
<1>8. PICK f \in F : f = Once(f)
  <2>1. E \in [S -> SUBSET D] /\ \A x \in S : E[x] # {}
    <3>1. D # {}
      <4>1. <<>> \in D
        OBVIOUS
      <4>2. QED BY <4>1
    <3> HIDE DEF D
    <3>2. QED BY <3>1
  <2>2. Deepens(More, S, Typed(S, D, E), depth)
    <3> HIDE DEF S, More, depth, D, E
    <3> QED BY <1>3, <1>6, <1>7 DEF Deepens
  <2>3. \E h \in F : h = More[h]
    <3> HIDE DEF S, D, E, More, depth
    <3> QED BY ONLY <2>1, <2>2, RecursionExists
  <2>4. \A h \in F : More[h] = Once(h)
    <3> HIDE DEF F, Once
    <3> QED OBVIOUS
  <2> HIDE DEF F, More, Once
  <2>5. QED BY <2>3, <2>4
<1>9. PICK joins : Joins(P, <<l0, r0>>) = joins[<<l0, r0>>] /\ joins = Once(joins)
  <2>1. Joins(P, <<l0, r0>>) = (CHOOSE h : h = Once(h))[<<l0, r0>>]
    BY DEF Joins, JoinsBy
  <2> HIDE DEF Once
  <2>2. (CHOOSE h : h = Once(h)) = Once(CHOOSE h : h = Once(h))
    BY <1>8
  <2>3. QED BY <2>1, <2>2
<1> HIDE DEF F, E, D, More, depth, Once
<1>10. \A x \in S : joins[x] = JoinsBy(P, joins, x)
  BY <1>9 DEF Once
<1> DEFINE K == Known(P)
           Wrong == {k \in Nat : \E l, r \in K : k = n - Len(r[2]) /\ joins[<<l, r>>] \notin Seq(Pairs(K))}
<1>11. K \subseteq A
  BY DEF Known
<1>12. ASSUME NEW k \in Wrong PROVE \E m \in Wrong : m < k
  <2>1. PICK l \in K, r \in K : k = n - Len(r[2]) /\ joins[<<l, r>>] \notin Seq(Pairs(K))
    BY <1>12
  <2>2. joins[<<l, r>>] = JoinsBy(P, joins, <<l, r>>) /\ r \in A
    BY <1>10, <1>11
  <2>3. PICK x \in K \X K : x = <<l, r>> /\ x[2] = r
    <3> HIDE DEF K
    <3>1. <<l, r>> \in K \X K /\ <<l, r>>[2] = r
      OBVIOUS
    <3>2. QED BY <3>1
  <2>4. P[x[2]].subs \in Nat
    BY <1>2, <2>2, <2>3
  <2>5. PICK i \in 1 .. P[r].subs, j \in 1 .. P[r].subs :
            joins[<<Sub(r, i), Sub(r, j)>>] \notin Seq(Pairs(K))
    <3> SUFFICES ASSUME \A i, j \in 1 .. P[r].subs : joins[<<Sub(r, i), Sub(r, j)>>] \in Seq(Pairs(K))
                 PROVE  FALSE
      OBVIOUS
    <3> HIDE DEF K
    <3>1. \A i, j \in 1 .. P[x[2]].subs : i # j => joins[<<Sub(x[2], i), Sub(x[2], j)>>] \in Seq(Pairs(K))
      BY <2>3
    <3>2. JoinsBy(P, joins, x) \in Seq(Pairs(K))
      BY ONLY <2>4, <3>1, x \in K \X K, JoinsByTyped
    <3>3. QED BY <2>1, <2>2, <2>3, <3>2
  <2>6. PICK a \in K, b \in K : a = Sub(r, i) /\ b = Sub(r, j) /\ Len(b[2]) = Len(r[2]) + 1
    BY <1>2, <2>2, <2>5
  <2>7. Len(r[2]) \in Nat /\ Len(b[2]) \in Nat /\ Len(b[2]) <= n /\ n \in Nat
    BY <1>1, <1>2, <1>11
  <2>8. n - Len(b[2]) \in Nat /\ n - Len(b[2]) < k
    BY ONLY <2>1, <2>6, <2>7
  <2>9. n - Len(b[2]) \in Wrong
    <3> HIDE DEF K
    <3> QED BY <2>5, <2>6, <2>8
  <2> HIDE DEF Wrong
  <2>10. QED BY <2>8, <2>9
<1>13. Wrong = {}
  <2>1. Wrong \in SUBSET Nat
    OBVIOUS
  <2> HIDE DEF Wrong
  <2>2. QED BY <1>12, <2>1, Descent
<1>14. n - Len(r0[2]) \in Nat
  <2>1. Len(r0[2]) \in Nat /\ Len(r0[2]) <= n
    BY <1>1, <1>2, <1>11
  <2>2. QED BY <2>1
<1>15. QED
  <2> HIDE DEF K
  <2>1. joins[<<l0, r0>>] \in Seq(Pairs(K))
    BY <1>13, <1>14 DEF K
  <2>2. QED BY <1>9, <2>1 DEF K

-----------------------------------------------------------------------------
(* What becomes of a build.                                                  *)

\* The values of Over.
LEMMA OverFacts ==
    ASSUME NEW f, NEW g
    PROVE  /\ DOMAIN Over(f, g) = (DOMAIN f) \cup (DOMAIN g)
           /\ \A x \in DOMAIN f : Over(f, g)[x] = f[x]
           /\ \A x \in (DOMAIN g) \ (DOMAIN f) : Over(f, g)[x] = g[x]
BY DEF Over

-----------------------------------------------------------------------------
(* Interfaces, and what becomes of the ports when one is put among them.     *)

\* Ports by their paths: they form a tree, and all are known.
PathTree(T) ==
    /\ T \in [DOMAIN T -> PortRecords] /\ DOMAIN T \subseteq Paths /\ <<>> \in DOMAIN T
    /\ \E n \in Nat : \A path \in DOMAIN T : Len(path) <= n
    /\ \A path \in DOMAIN T :
          /\ T[path].real
          /\ \A i \in 1 .. T[path].subs : Append(path, i) \in DOMAIN T
          /\ path # <<>> => Front(path) \in DOMAIN T /\ Last(path) \in 1 .. T[Front(path)].subs

\* An interface of an entity is a tree of known ports.
LEMMA InterfaceTree ==
    ASSUME NEW iface, IsInterface(iface)
    PROVE  PathTree(iface) /\ \A path \in DOMAIN iface : Directed(iface[path])
<1>1. /\ iface \in [DOMAIN iface -> [name: STRING, dir: SUBSET {"in", "out"}, subs: Nat, real: {TRUE}]]
      /\ IsFiniteSet(DOMAIN iface) /\ <<>> \in DOMAIN iface
      /\ \A path \in DOMAIN iface :
            /\ path \in Paths
            /\ \A i \in 1..iface[path].subs : Append(path, i) \in DOMAIN iface
            /\ path # <<>> => /\ Front(path) \in DOMAIN iface
                              /\ Last(path) \in 1..iface[Front(path)].subs
  BY DEF IsInterface, Paths
<1>2. \A path \in DOMAIN iface : iface[path] \in PortRecords /\ iface[path].real
  BY <1>1 DEF PortRecords, PortNames
<1>3. iface \in [DOMAIN iface -> PortRecords]
  BY <1>1, <1>2
<1>4. PICK n \in Nat : \A path \in DOMAIN iface : Len(path) <= n
  <2> DEFINE T == {Len(path) : path \in DOMAIN iface}
  <2>1. T \in SUBSET Nat /\ T # {}
    <3>1. \A path \in Paths : Len(path) \in Nat
      BY DEF Paths
    <3>2. DOMAIN iface \subseteq Paths /\ <<>> \in DOMAIN iface
      BY ONLY <1>1
    <3>3. QED BY ONLY <3>1, <3>2
  <2>2. IsFiniteSet(T)
    <3>1. PICK S : S = DOMAIN iface /\ IsFiniteSet(S)
      BY ONLY <1>1
    <3>2. PICK f : f = [path \in S |-> Len(path)]
      OBVIOUS
    <3>3. f \in Surjection(S, T)
      BY <3>1, <3>2 DEF Surjection
    <3> HIDE DEF T
    <3>4. QED BY ONLY <3>1, <3>3, FS_Surjection
  <2>3. PICK n \in T : \A m \in T : m <= n
    <3> HIDE DEF T
    <3> QED BY <2>1, <2>2, GreatestNumber
  <2>4. QED BY <2>1, <2>3
<1>5. \A path \in DOMAIN iface : Directed(iface[path])
  BY DEF IsInterface, Directed
<1>6. QED BY <1>1, <1>2, <1>3, <1>4, <1>5 DEF PathTree

\* A place where an interface can be put: no port is known there, and none is below.
Free(P, root) ==
    /\ root \in DOMAIN P => ~P[root].real
    /\ \A path \in Paths : path # <<>> => Under(root, path) \notin DOMAIN P
    /\ IsTop(root) \/ root \in DOMAIN P

Copies(root, T) == {Under(root, path) : path \in DOMAIN T}

Grafted(P, root, T) == Over([p \in Copies(root, T) |-> T[From(root, p)]], P)

\* The ports there are once an interface is put below root.
LEMMA GraftIs ==
    ASSUME NEW P, NEW root \in Addresses, NEW T, PathTree(T)
    PROVE  /\ DOMAIN Grafted(P, root, T) = Copies(root, T) \cup DOMAIN P
           /\ Copies(root, T) \subseteq Addresses
           /\ \A path \in DOMAIN T : Grafted(P, root, T)[Under(root, path)] = T[path]
           /\ \A p \in DOMAIN P : p \notin Copies(root, T) => Grafted(P, root, T)[p] = P[p]
<1>1. DOMAIN T \subseteq Paths
  BY DEF PathTree
<1>2. Copies(root, T) \subseteq Addresses
  BY <1>1, UnderIsBelow DEF Copies
<1>3. \A path \in DOMAIN T : Grafted(P, root, T)[Under(root, path)] = T[path]
  <2>1. ASSUME NEW path \in DOMAIN T PROVE Grafted(P, root, T)[Under(root, path)] = T[path]
    <3>1. From(root, Under(root, path)) = path
      BY <1>1, UnderIsBelow
    <3>2. Under(root, path) \in Copies(root, T)
      BY DEF Copies
    <3>3. Grafted(P, root, T)[Under(root, path)] = T[From(root, Under(root, path))]
      BY <3>2 DEF Grafted, Over
    <3>4. QED BY <3>1, <3>3
  <2>2. QED BY <2>1
<1>4. DOMAIN Grafted(P, root, T) = Copies(root, T) \cup DOMAIN P
      /\ \A p \in DOMAIN P : p \notin Copies(root, T) => Grafted(P, root, T)[p] = P[p]
  BY DEF Grafted, Over
<1>5. QED BY <1>2, <1>3, <1>4

\* Ports stay trees when an interface is put in a free place, and its ports are then known.
LEMMA GraftOK ==
    ASSUME NEW P, PortsTyped(P), PortsTree(P), NEW root \in Addresses, NEW T, PathTree(T), Free(P, root),
           root[1] # 0 => \A path \in DOMAIN T : Directed(T[path])
    PROVE  /\ PortsTyped(Grafted(P, root, T)) /\ PortsTree(Grafted(P, root, T))
           /\ Known(Grafted(P, root, T)) = Copies(root, T) \cup Known(P)
           /\ Copies(root, T) \cap Known(P) = {}
<1> DEFINE C == Copies(root, T)
<1>1. PICK G : G = Grafted(P, root, T)
  OBVIOUS
<1>2. /\ DOMAIN G = C \cup DOMAIN P /\ C \subseteq Addresses
      /\ \A path \in DOMAIN T : G[Under(root, path)] = T[path]
      /\ \A p \in DOMAIN P : p \notin C => G[p] = P[p]
  BY <1>1, GraftIs
<1>3. /\ DOMAIN T \subseteq Paths /\ <<>> \in DOMAIN T
      /\ \A path \in DOMAIN T : /\ T[path] \in PortRecords /\ T[path].real
                                /\ \A i \in 1 .. T[path].subs : Append(path, i) \in DOMAIN T
                                /\ path # <<>> => Front(path) \in DOMAIN T /\ Last(path) \in 1 .. T[Front(path)].subs
  BY DEF PathTree
<1>4. \A p \in DOMAIN P : P[p] \in PortRecords /\ p \in Addresses
  BY DEF PortsTyped
<1>5. \A p \in C : p \in DOMAIN P => p = root /\ ~P[p].real
  <2>1. ASSUME NEW path \in DOMAIN T, Under(root, path) \in DOMAIN P
        PROVE  Under(root, path) = root /\ ~P[Under(root, path)].real
    <3>1. path = <<>>
      BY <1>3, <2>1 DEF Free
    <3>2. Under(root, path) = root
      BY <3>1, UnderNothing
    <3>3. QED BY <2>1, <3>2 DEF Free
  <2>2. QED BY <2>1 DEF Copies
<1>6. \A p \in C : G[p] \in PortRecords /\ G[p].real
  BY <1>2, <1>3 DEF Copies
<1>7. \A p \in DOMAIN G : G[p] \in PortRecords /\ p \in Addresses
  BY <1>2, <1>4, <1>6
<1>8. G = [p \in DOMAIN G |-> G[p]]
  BY <1>1 DEF Grafted, Over
<1>9. Bounded(G)
  <2>1. PICK n \in Nat : \A p \in DOMAIN P : Len(p[2]) <= n
    BY DEF PortsTyped, Bounded
  <2>2. PICK m \in Nat : \A path \in DOMAIN T : Len(path) <= m
    BY DEF PathTree
  <2>3. PICK d \in Nat : d = Len(root[2])
    BY DEF Addresses, Paths
  <2>4. PICK e \in Nat : e = n + d + m
    BY <2>1, <2>2, <2>3
  <2>5. ASSUME NEW path \in DOMAIN T PROVE Len(Under(root, path)[2]) <= e
    <3>1. path \in Paths /\ root[2] \in Paths /\ Len(path) <= m /\ 0 \in Nat
      BY <1>3, <2>2 DEF Addresses
    <3>2. Len(root[2] \o path) = d + Len(path) /\ Len(path) \in Nat
      BY <2>3, <3>1, PathFacts
    <3>3. Under(root, path)[2] = root[2] \o path
      BY DEF Under
    <3>4. QED BY <2>4, <3>1, <3>2, <3>3
  <2>6. ASSUME NEW p \in DOMAIN P PROVE Len(p[2]) <= e
    <3>1. Len(p[2]) \in Nat /\ Len(p[2]) <= n
      BY <1>4, <2>1 DEF Addresses, Paths
    <3>2. QED BY <2>4, <3>1
  <2>7. \A p \in DOMAIN G : Len(p[2]) <= e
    BY <1>2, <2>5, <2>6 DEF Copies
  <2>8. QED BY <2>7 DEF Bounded
<1>10. ASSUME NEW p \in DOMAIN G, NEW i \in 1 .. G[p].subs PROVE Sub(p, i) \in DOMAIN G
  <2>1. CASE p \in C
    <3>1. PICK path \in DOMAIN T : p = Under(root, path)
      BY <2>1 DEF Copies
    <3>2. i \in 1 .. T[path].subs /\ i \in Nat
      BY <1>2, <1>3, <3>1 DEF PortRecords
    <3>3. Append(path, i) \in DOMAIN T
      BY <1>3, <3>2
    <3>4. Under(root, Append(path, i)) = Sub(p, i)
      BY <1>3, <3>1, <3>2, UnderFacts
    <3>5. QED BY <1>2, <3>3, <3>4 DEF Copies
  <2>2. CASE p \notin C
    <3>1. p \in DOMAIN P /\ i \in 1 .. P[p].subs
      BY <1>2, <2>2
    <3>2. QED BY <1>2, <3>1 DEF PortsTyped
  <2>3. QED BY <2>1, <2>2
<1>11. PortsTyped(G)
  <2>1. \A p \in DOMAIN G : p[1] # 0 => G[p].real /\ Directed(G[p])
    <3>1. \A p \in C : p[1] = root[1] /\ \E path \in DOMAIN T : G[p] = T[path]
      <4>1. \A path \in DOMAIN T : Under(root, path)[1] = root[1]
        BY DEF Under
      <4>2. QED BY <1>2, <4>1 DEF Copies
    <3>2. QED BY <1>2, <1>6, <3>1 DEF PortsTyped
  <2>2. G \in [DOMAIN G -> PortRecords]
    BY <1>7, <1>8
  <2>3. QED BY <1>7, <1>9, <1>10, <2>1, <2>2 DEF PortsTyped
<1>12. ASSUME NEW p \in DOMAIN G, ~IsTop(p)
       PROVE  /\ Enclosing(p) \in DOMAIN G /\ Last(p[2]) \in 1 .. G[Enclosing(p)].subs
              /\ G[Enclosing(p)].real => G[p].real
  <2>1. CASE p \in C /\ p # root
    <3>1. PICK path \in DOMAIN T : p = Under(root, path)
      BY <2>1 DEF Copies
    <3>2. path # <<>> /\ path \in Paths
      <4>1. Under(root, <<>>) = root
        BY UnderNothing
      <4>2. QED BY <1>3, <2>1, <3>1, <4>1
    <3>3. PICK up, i : up = Front(path) /\ i = Last(path)
      OBVIOUS
    <3>4. path = Append(up, i) /\ up \in Paths /\ i \in Nat /\ up \in DOMAIN T /\ i \in 1 .. T[up].subs
      BY <1>3, <3>2, <3>3, PathEnds
    <3>5. p = Sub(Under(root, up), i) /\ Under(root, up) \in Addresses
      BY <3>1, <3>4, UnderFacts, UnderIsBelow
    <3>6. Enclosing(p) = Under(root, up) /\ Last(p[2]) = i
      BY <3>4, <3>5, SubFacts
    <3>7. Under(root, up) \in DOMAIN G /\ G[Under(root, up)] = T[up]
      BY <1>2, <3>4 DEF Copies
    <3>8. QED BY <1>6, <2>1, <3>4, <3>6, <3>7
  <2>2. CASE p \notin C \/ p = root
    <3>1. p \in DOMAIN P
      BY <1>2, <1>12, <2>2 DEF Free
    <3>2. PICK q : q = Enclosing(p)
      OBVIOUS
    <3>3. q \in DOMAIN P /\ Last(p[2]) \in 1 .. P[q].subs /\ (P[q].real => P[p].real)
      BY <1>12, <3>1, <3>2 DEF PortsTree
    <3>4. p = Sub(q, Last(p[2])) /\ Last(p[2]) \in Nat /\ q \in Addresses
      BY <1>4, <1>12, <3>1, <3>2, TopOrSub
    <3>5. q \notin C
      <4> SUFFICES ASSUME q \in C PROVE FALSE
        OBVIOUS
      <4>1. q = root
        BY <1>5, <3>3
      <4>2. PICK i \in Nat : i = Last(p[2])
        BY <3>4
      <4>3. Under(root, <<>>) = root /\ Under(root, Append(<<>>, i)) = Sub(root, i) /\ <<>> \in Paths
        <5>1. <<>> \in Paths
          BY DEF Paths
        <5>2. Under(root, <<>>) = root
          BY UnderNothing
        <5>3. Under(root, Append(<<>>, i)) = Sub(Under(root, <<>>), i)
          BY <4>2, <5>1, UnderFacts
        <5>4. QED BY <5>1, <5>2, <5>3
      <4>4. Append(<<>>, i) \in Paths /\ Append(<<>>, i) # <<>>
        BY <4>2, <4>3, PathFacts
      <4>5. QED BY <3>1, <3>4, <4>1, <4>2, <4>3, <4>4 DEF Free
    <3>6. q \in DOMAIN G /\ G[q] = P[q]
      BY <1>2, <3>3, <3>5
    <3>7. P[p].real => G[p].real
      BY <1>2, <1>6, <3>1
    <3>8. QED BY <3>2, <3>3, <3>6, <3>7
  <2>3. QED BY <2>1, <2>2
<1>13. PortsTree(G)
  BY <1>12 DEF PortsTree
<1>14. Known(G) = C \cup Known(P) /\ C \cap Known(P) = {}
  BY <1>2, <1>5, <1>6 DEF Known
<1>15. QED BY <1>1, <1>11, <1>13, <1>14

-----------------------------------------------------------------------------
(* A structure under construction and its builders.                          *)

Links == SUBSET (Addresses \X Addresses)

\* Builds from the entities of the namespace.
Builds(entities) ==
    [stateless: BOOLEAN, parts: Seq(DOMAIN entities), builderOf: Seq(Nat), partial: Seq(BOOLEAN),
     ports: UNION {[A -> PortRecords] : A \in SUBSET Addresses},
     net: UNION {[A -> Addresses] : A \in SUBSET Addresses},
     children: Links, parents: Links]

\* Ports form trees and belong to the structure and its parts.
PortsOK(b) ==
    /\ PortsTyped(b.ports) /\ PortsTree(b.ports)
    /\ \A p \in DOMAIN b.ports : p[1] \in 0 .. Len(b.parts)

\* What is known is in a connection, and connections know their relatives.
Related(net, children, parents) ==
    /\ parents = {<<e[2], e[1]>> : e \in children}
    /\ children \subseteq Range(net) \X Range(net)

NetsOK(b) ==
    /\ b.net \in [Known(b.ports) -> Known(b.ports)]
    /\ Related(b.net, b.children, b.parents)

\* The parts are shared out among the builders, and none is stateful where that is
\* excluded.
PartsOK(b, entities) ==
    /\ Len(b.builderOf) = Len(b.parts)
    /\ \A k \in 1 .. Len(b.parts) :
          /\ b.builderOf[k] \in 0 .. Len(b.partial)
          /\ (IF b.builderOf[k] = 0 THEN b.stateless ELSE b.partial[b.builderOf[k]])
                => entities[b.parts[k]].stateless

BuildOK(b, entities) ==
    b \in Builds(entities) /\ PortsOK(b) /\ NetsOK(b) /\ PartsOK(b, entities)

\* The same structure but for its ports and their connections.
SameParts(b, c) ==
    /\ c.stateless = b.stateless /\ c.parts = b.parts
    /\ c.builderOf = b.builderOf /\ c.partial = b.partial

\* The fields of a build.
LEMMA BuildIs ==
    ASSUME NEW entities, NEW b \in Builds(entities)
    PROVE  b = [stateless |-> b.stateless, parts |-> b.parts, builderOf |-> b.builderOf,
                partial |-> b.partial, ports |-> b.ports, net |-> b.net,
                children |-> b.children, parents |-> b.parents]
BY DEF Builds

\* The sharing out of parts depends on the parts and the builders alone.
LEMMA SamePartsOK ==
    ASSUME NEW entities, NEW b, NEW c, PartsOK(b, entities), SameParts(b, c)
    PROVE  PartsOK(c, entities)
BY DEF PartsOK, SameParts

\* The connections of an interface's components and of what encloses them.
Enclosures(root, T) == {<<Enclosing(p), p>> : p \in Copies(root, T) \ {root}}

\* The fields of a build that gets the ports of an interface.
LEMMA WithPortsIs ==
    ASSUME NEW entities, NEW b \in Builds(entities), NEW root, NEW T
    PROVE  WithPorts(b, root, T) =
              [stateless |-> b.stateless, parts |-> b.parts, builderOf |-> b.builderOf,
               partial |-> b.partial,
               ports |-> Grafted(b.ports, root, T),
               net |-> Over([p \in Copies(root, T) |-> p], b.net),
               children |-> b.children \cup Enclosures(root, T),
               parents |-> b.parents \cup {<<e[2], e[1]>> : e \in Enclosures(root, T)}]
<1>1. PICK C, G, N, E, F :
          /\ C = {<<root[1], root[2] \o path>> : path \in DOMAIN T}
          /\ G = Over([p \in C |-> T[From(root, p)]], b.ports) /\ N = Over([p \in C |-> p], b.net)
          /\ E = {<<Enclosing(p), p>> : p \in C \ {root}} /\ F = {<<p, Enclosing(p)>> : p \in C \ {root}}
  OBVIOUS
<1>2. C = Copies(root, T)
  BY <1>1 DEF Copies, Under
<1>3. F = {<<e[2], e[1]>> : e \in E}
  <2>1. ASSUME NEW p \in C \ {root} PROVE <<p, Enclosing(p)>> \in {<<e[2], e[1]>> : e \in E}
    <3>1. PICK e \in E : e = <<Enclosing(p), p>>
      BY <1>1
    <3>2. <<e[2], e[1]>> = <<p, Enclosing(p)>>
      BY <3>1
    <3>3. QED BY <3>2
  <2>2. ASSUME NEW e \in E PROVE <<e[2], e[1]>> \in F
    <3>1. PICK p \in C \ {root} : e = <<Enclosing(p), p>>
      BY <1>1
    <3>2. <<e[2], e[1]>> = <<p, Enclosing(p)>>
      BY <3>1
    <3>3. QED BY <1>1, <3>2
  <2>3. PICK R : R = {<<e[2], e[1]>> : e \in E}
    OBVIOUS
  <2>4. F \subseteq R
    BY <1>1, <2>1, <2>3
  <2>5. R \subseteq F
    BY <2>2, <2>3
  <2>6. QED BY <2>3, <2>4, <2>5
<1>4. WithPorts(b, root, T) = [b EXCEPT !.ports = G, !.net = N, !.children = b.children \cup E,
                                         !.parents = b.parents \cup F]
  BY <1>1 DEF WithPorts
<1>5. WithPorts(b, root, T) =
              [stateless |-> b.stateless, parts |-> b.parts, builderOf |-> b.builderOf,
               partial |-> b.partial, ports |-> G, net |-> N, children |-> b.children \cup E,
               parents |-> b.parents \cup F]
  <2>1. b = [stateless |-> b.stateless, parts |-> b.parts, builderOf |-> b.builderOf,
             partial |-> b.partial, ports |-> b.ports, net |-> b.net,
             children |-> b.children, parents |-> b.parents]
    BY BuildIs
  <2>2. PICK c, d : c = b.children \cup E /\ d = b.parents \cup F
    OBVIOUS
  <2>3. WithPorts(b, root, T) = [b EXCEPT !.ports = G, !.net = N, !.children = c, !.parents = d]
    BY <1>4, <2>2
  <2>4. WithPorts(b, root, T) =
              [stateless |-> b.stateless, parts |-> b.parts, builderOf |-> b.builderOf,
               partial |-> b.partial, ports |-> G, net |-> N, children |-> c, parents |-> d]
    BY ONLY <2>1, <2>3
  <2>5. QED BY <2>2, <2>4
<1>6. QED BY <1>1, <1>2, <1>3, <1>5 DEF Grafted, Enclosures

\* What encloses a copied port, other than the one at the root, is a copied port.
LEMMA EnclosuresInside ==
    ASSUME NEW root \in Addresses, NEW T, PathTree(T), NEW p \in Copies(root, T) \ {root}
    PROVE  Enclosing(p) \in Copies(root, T)
<1>1. PICK path \in DOMAIN T : p = Under(root, path)
  BY DEF Copies
<1>2. path \in Paths
  BY DEF PathTree
<1>3. path # <<>>
  BY <1>1, UnderNothing
<1>4. PICK up, i : up = Front(path) /\ i = Last(path)
  OBVIOUS
<1>5. path = Append(up, i) /\ up \in Paths /\ i \in Nat
  BY <1>2, <1>3, <1>4, PathEnds
<1>6. up \in DOMAIN T
  BY <1>3, <1>4 DEF PathTree
<1>7. Enclosing(p) = Under(root, up)
  BY <1>1, <1>5, UnderFacts
<1>8. QED BY <1>6, <1>7 DEF Copies

\* The connections of what was there before and those of the new ports.
LEMMA NetsGrow ==
    ASSUME NEW K, NEW C, NEW net \in [K -> K], C \cap K = {}, NEW N, N = Over([p \in C |-> p], net)
    PROVE  N \in [C \cup K -> C \cup K] /\ Range(N) = C \cup Range(net)
<1>1. PICK f : f = [p \in C |-> p]
  OBVIOUS
<1>2. N = Over(f, net) /\ DOMAIN f = C /\ \A p \in C : f[p] = p
  BY <1>1
<1>3. /\ DOMAIN N = C \cup K /\ N = [x \in C \cup K |-> N[x]]
      /\ \A x \in C : N[x] = x
      /\ \A x \in K : N[x] = net[x]
  BY <1>2 DEF Over
<1>4. N \in [C \cup K -> C \cup K]
  BY <1>3
<1>5. Range(N) = C \cup Range(net)
  BY <1>3 DEF Range
<1>6. QED BY <1>4, <1>5

\* Connections stay related when more are put below those there are.
LEMMA RelatedGrow ==
    ASSUME NEW net, NEW children, NEW parents, Related(net, children, parents),
           NEW E, NEW N, Range(net) \subseteq Range(N),
           E \subseteq Range(N) \X Range(N)
    PROVE  Related(N, children \cup E, parents \cup {<<e[2], e[1]>> : e \in E})
<1>1. parents = {<<e[2], e[1]>> : e \in children}
  BY DEF Related
<1>2. parents \cup {<<e[2], e[1]>> : e \in E} = {<<e[2], e[1]>> : e \in children \cup E}
  BY <1>1
<1>3. children \cup E \subseteq Range(N) \X Range(N)
  BY DEF Related
<1>4. QED BY <1>2, <1>3 DEF Related

\* A build put together from sound parts.
LEMMA BuildOKIs ==
    ASSUME NEW entities, NEW b, BuildOK(b, entities), NEW c, NEW P, NEW N, NEW E, NEW F,
           c = [stateless |-> b.stateless, parts |-> b.parts, builderOf |-> b.builderOf,
                partial |-> b.partial, ports |-> P, net |-> N, children |-> E, parents |-> F],
           PortsTyped(P), PortsTree(P), \A p \in DOMAIN P : p[1] \in 0 .. Len(b.parts),
           N \in [Known(P) -> Known(P)], Related(N, E, F)
    PROVE  BuildOK(c, entities) /\ SameParts(b, c)
<1>1. SameParts(b, c)
  BY DEF SameParts
<1>2. PartsOK(c, entities)
  BY <1>1, SamePartsOK DEF BuildOK
<1>3. PortsOK(c) /\ NetsOK(c)
  BY DEF PortsOK, NetsOK
<1>4. c \in Builds(entities)
  <2>1. /\ b.stateless \in BOOLEAN /\ b.parts \in Seq(DOMAIN entities) /\ b.builderOf \in Seq(Nat)
        /\ b.partial \in Seq(BOOLEAN)
    BY DEF BuildOK, Builds
  <2>2. P \in UNION {[A -> PortRecords] : A \in SUBSET Addresses}
    BY DEF PortsTyped
  <2>3. Known(P) \in SUBSET Addresses
    BY DEF PortsTyped, Known
  <2>4. N \in UNION {[A -> Addresses] : A \in SUBSET Addresses}
    BY <2>3
  <2>5. Range(N) \subseteq Addresses
    BY <2>3 DEF Range
  <2>6. E \in Links
    BY <2>5 DEF Related, Links
  <2>7. F \in Links
    <3>1. F = {<<e[2], e[1]>> : e \in E}
      BY DEF Related
    <3>2. \A e \in E : <<e[2], e[1]>> \in Addresses \X Addresses
      BY <2>6 DEF Links
    <3>3. QED BY <3>1, <3>2 DEF Links
  <2>8. QED BY <2>1, <2>2, <2>4, <2>6, <2>7 DEF Builds
<1>5. QED BY <1>1, <1>2, <1>3, <1>4 DEF BuildOK

\* An interface is put where there is none.
LEMMA WithPortsOK ==
    ASSUME NEW entities, NEW b, BuildOK(b, entities), NEW root \in Addresses,
           root[1] \in 0 .. Len(b.parts), NEW T, PathTree(T), Free(b.ports, root),
           root[1] # 0 => \A path \in DOMAIN T : Directed(T[path])
    PROVE  /\ BuildOK(WithPorts(b, root, T), entities) /\ SameParts(b, WithPorts(b, root, T))
           /\ WithPorts(b, root, T).ports = Grafted(b.ports, root, T)
<1>1. PICK c, P, N, E, F :
          /\ c = WithPorts(b, root, T) /\ P = Grafted(b.ports, root, T)
          /\ N = Over([p \in Copies(root, T) |-> p], b.net)
          /\ E = Enclosures(root, T) /\ F = {<<e[2], e[1]>> : e \in E}
  OBVIOUS
<1>2. c = [stateless |-> b.stateless, parts |-> b.parts, builderOf |-> b.builderOf,
           partial |-> b.partial, ports |-> P, net |-> N, children |-> b.children \cup E,
           parents |-> b.parents \cup F]
  BY <1>1, WithPortsIs DEF BuildOK
<1>3. PICK C, K : C = Copies(root, T) /\ K = Known(b.ports)
  OBVIOUS
<1>4. PortsTyped(P) /\ PortsTree(P) /\ Known(P) = C \cup K /\ C \cap K = {}
  BY <1>1, <1>3, GraftOK DEF BuildOK, PortsOK
<1>5. \A p \in DOMAIN P : p[1] \in 0 .. Len(b.parts)
  <2>1. DOMAIN P = C \cup DOMAIN b.ports
    BY <1>1, <1>3, GraftIs
  <2>2. \A p \in C : p[1] = root[1]
    BY <1>3 DEF Copies, Under
  <2>3. QED BY <2>1, <2>2 DEF BuildOK, PortsOK
<1>6. N \in [Known(P) -> Known(P)] /\ Range(N) = C \cup Range(b.net)
  <2>1. b.net \in [K -> K]
    BY <1>3 DEF BuildOK, NetsOK
  <2>2. N \in [C \cup K -> C \cup K] /\ Range(N) = C \cup Range(b.net)
    <3>1. PICK net : net = b.net /\ net \in [K -> K]
      BY <2>1
    <3>2. N = Over([p \in C |-> p], net) /\ C \cap K = {}
      BY <1>1, <1>3, <1>4, <3>1
    <3>3. N \in [C \cup K -> C \cup K] /\ Range(N) = C \cup Range(net)
      BY ONLY <3>1, <3>2, NetsGrow
    <3>4. QED BY <3>1, <3>3
  <2>3. QED BY <1>4, <2>2
<1>7. Related(N, b.children \cup E, b.parents \cup F)
  <2>1. E \subseteq C \X C
    BY <1>1, <1>3, EnclosuresInside DEF Enclosures
  <2>2. Range(b.net) \subseteq Range(N) /\ E \subseteq Range(N) \X Range(N)
    BY <1>6, <2>1
  <2>3. Related(b.net, b.children, b.parents)
    BY DEF BuildOK, NetsOK
  <2>4. QED BY <1>1, <2>2, <2>3, RelatedGrow
<1>8. BuildOK(c, entities) /\ SameParts(b, c)
  BY <1>2, <1>4, <1>5, <1>6, <1>7, BuildOKIs
<1>9. QED BY <1>1, <1>2, <1>8

-----------------------------------------------------------------------------
(* Beginning a structure, and its parts.                                     *)

\* Nothing is a sound build.
LEMMA EmptyBuildOK ==
    ASSUME NEW entities, NEW stateless \in BOOLEAN
    PROVE  BuildOK(EmptyBuild(stateless), entities)
<1>1. PICK b : b = EmptyBuild(stateless)
  OBVIOUS
<1>2. b = [stateless |-> stateless, parts |-> <<>>, builderOf |-> <<>>, partial |-> <<>>,
           ports |-> <<>>, net |-> <<>>, children |-> {}, parents |-> {}]
  BY <1>1 DEF EmptyBuild
<1>3. Known(<<>>) = {}
  BY DEF Known
<1>4. PortsOK(b)
  BY <1>2 DEF PortsOK, PortsTyped, PortsTree, Bounded
<1>5. NetsOK(b)
  BY <1>2, <1>3 DEF NetsOK, Related, Range
<1>6. PartsOK(b, entities)
  BY <1>2 DEF PartsOK
<1>7. b \in Builds(entities)
  <2>1. /\ <<>> \in Seq(DOMAIN entities) /\ <<>> \in Seq(Nat) /\ <<>> \in Seq(BOOLEAN)
        /\ {} \in Links
    BY DEF Links
  <2>2. <<>> \in [{} -> PortRecords] /\ <<>> \in [{} -> Addresses] /\ {} \in SUBSET Addresses
    OBVIOUS
  <2>3. QED BY <1>2, <2>1, <2>2 DEF Builds
<1>8. QED BY <1>1, <1>4, <1>5, <1>6, <1>7 DEF BuildOK

\* The address of the top port of an element.
LEMMA TopAddress ==
    ASSUME NEW k \in Nat
    PROVE  /\ <<k, <<>>>> \in Addresses /\ <<k, <<>>>>[1] = k /\ IsTop(<<k, <<>>>>)
           /\ Len(<<k, <<>>>>[2]) = 0
<1>1. PICK s, p : s = <<>> /\ p = <<k, s>>
  OBVIOUS
<1>2. s \in Paths /\ Len(s) = 0
  BY <1>1 DEF Paths
<1>3. p \in Addresses /\ p[1] = k /\ p[2] = s
  BY <1>1, <1>2 DEF Addresses
<1>4. QED BY <1>1, <1>2, <1>3 DEF IsTop

\* A new entity is a sound build.
LEMMA NewEntityOK ==
    ASSUME NEW entities, NEW stateless \in BOOLEAN
    PROVE  BuildOK(NewEntity(stateless), entities)
<1>1. PICK c, b, top, P, r : /\ c = NewEntity(stateless) /\ b = EmptyBuild(stateless)
                             /\ top = <<0, <<>>>> /\ r = Port("top", {}, 0, FALSE)
                             /\ P = [q \in {top} |-> r]
  OBVIOUS
<1>2. b = [stateless |-> stateless, parts |-> <<>>, builderOf |-> <<>>, partial |-> <<>>,
           ports |-> <<>>, net |-> <<>>, children |-> {}, parents |-> {}]
  BY <1>1 DEF EmptyBuild
<1>3. c = [stateless |-> b.stateless, parts |-> b.parts, builderOf |-> b.builderOf,
           partial |-> b.partial, ports |-> P, net |-> b.net, children |-> b.children, parents |-> b.parents]
  <2>1. c = [b EXCEPT !.ports = P]
    BY <1>1 DEF NewEntity
  <2>2. QED BY ONLY <1>2, <2>1
<1>4. top \in Addresses /\ top[1] = 0 /\ IsTop(top) /\ Len(top[2]) = 0
  BY <1>1, TopAddress
<1>5. r \in PortRecords /\ r.subs = 0 /\ ~r.real
  BY <1>1 DEF Port, PortRecords, PortNames
<1>6. DOMAIN P = {top} /\ P[top] = r /\ P \in [DOMAIN P -> PortRecords]
  BY <1>1, <1>5
<1>7. PortsTyped(P)
  BY <1>4, <1>5, <1>6 DEF PortsTyped, Bounded
<1>8. PortsTree(P) /\ Known(P) = {}
  BY <1>4, <1>5, <1>6 DEF PortsTree, Known
<1>9. \A p \in DOMAIN P : p[1] \in 0 .. Len(b.parts)
  BY <1>2, <1>4, <1>6
<1>10. b.net \in [Known(P) -> Known(P)] /\ Related(b.net, b.children, b.parents)
  BY <1>2, <1>8 DEF Related, Range
<1>11. BuildOK(b, entities)
  BY <1>1, EmptyBuildOK
<1>12. BuildOK(c, entities)
  BY ONLY <1>3, <1>7, <1>8, <1>9, <1>10, <1>11, BuildOKIs
<1>13. QED BY <1>1, <1>12

\* Another structure of an entity there is is a sound build.
LEMMA ExistingEntityOK ==
    ASSUME NEW entities, NEW entity, entity.stateless \in BOOLEAN, IsInterface(entity.iface)
    PROVE  BuildOK(ExistingEntity(entity), entities)
<1>1. PICK b, root : b = EmptyBuild(entity.stateless) /\ root = <<0, <<>>>>
  OBVIOUS
<1>2. BuildOK(b, entities)
  BY <1>1, EmptyBuildOK
<1>3. root \in Addresses /\ root[1] = 0 /\ IsTop(root)
  BY <1>1, TopAddress
<1>4. b.parts = <<>> /\ b.ports = <<>>
  BY <1>1 DEF EmptyBuild
<1>5. root[1] \in 0 .. Len(b.parts)
  BY <1>3, <1>4
<1>6. Free(b.ports, root)
  BY <1>3, <1>4 DEF Free
<1>7. PathTree(entity.iface)
  BY InterfaceTree
<1>8. BuildOK(WithPorts(b, root, entity.iface), entities)
  BY <1>2, <1>3, <1>5, <1>6, <1>7, WithPortsOK
<1>9. QED BY <1>1, <1>8 DEF ExistingEntity, Stateless, Interface

\* The builder of an element of the structure.
Owner(b, k) == IF k = 0 THEN 0 ELSE b.builderOf[k]

\* Elements that had one builder still have.
Together(b, c) ==
    /\ Len(b.parts) \in 0 .. Len(c.parts)
    /\ \A j, k \in 0 .. Len(b.parts) : Owner(b, j) = Owner(b, k) => Owner(c, j) = Owner(c, k)

\* Nothing is torn apart when only ports and connections change.
LEMMA SamePartsTogether ==
    ASSUME NEW entities, NEW b, BuildOK(b, entities), NEW c, SameParts(b, c)
    PROVE  Together(b, c)
<1>1. Len(b.parts) \in Nat
  BY DEF BuildOK, Builds
<1>2. QED BY <1>1 DEF SameParts, Together, Owner

\* Another part, of a builder there is.
LEMMA WithPartOK ==
    ASSUME NEW entities, NEW b, BuildOK(b, entities),
           NEW name \in DOMAIN entities, IsInterface(entities[name].iface),
           NEW builder \in 0 .. Len(b.partial),
           (IF builder = 0 THEN b.stateless ELSE b.partial[builder]) => entities[name].stateless
    PROVE  /\ BuildOK(WithPart(b, name, entities[name], builder), entities)
           /\ Together(b, WithPart(b, name, entities[name], builder))
<1>1. PICK T, n, k : T = entities[name].iface /\ n = Len(b.parts) /\ k = n + 1
  OBVIOUS
<1>2. PICK c : c = [b EXCEPT !.parts = Append(@, name), !.builderOf = Append(@, builder)]
  OBVIOUS
<1>3. PICK root : root = <<k, <<>>>>
  OBVIOUS
<1>4. WithPart(b, name, entities[name], builder) = WithPorts(c, root, T)
  BY <1>1, <1>2, <1>3 DEF WithPart, Interface
<1>5. b \in Builds(entities) /\ n \in Nat /\ k \in Nat /\ Len(b.builderOf) = n
      /\ b.parts \in Seq(DOMAIN entities) /\ b.builderOf \in Seq(Nat) /\ Len(b.partial) \in Nat
  <2>1. b \in Builds(entities) /\ Len(b.builderOf) = Len(b.parts)
    BY DEF BuildOK, PartsOK
  <2>2. b.parts \in Seq(DOMAIN entities) /\ b.builderOf \in Seq(Nat) /\ b.partial \in Seq(BOOLEAN)
    BY <2>1 DEF Builds
  <2>3. QED BY <1>1, <2>1, <2>2
<1>6. PICK parts, owners : parts = Append(b.parts, name) /\ owners = Append(b.builderOf, builder)
  OBVIOUS
<1>7. c = [stateless |-> b.stateless, parts |-> parts, builderOf |-> owners,
           partial |-> b.partial, ports |-> b.ports, net |-> b.net,
           children |-> b.children, parents |-> b.parents]
  <2>1. c = [b EXCEPT !.parts = parts, !.builderOf = owners]
    BY <1>2, <1>6
  <2>2. b = [stateless |-> b.stateless, parts |-> b.parts, builderOf |-> b.builderOf,
                partial |-> b.partial, ports |-> b.ports, net |-> b.net,
                children |-> b.children, parents |-> b.parents]
    BY <1>5, BuildIs
  <2>3. QED BY ONLY <2>1, <2>2
<1>8. /\ parts \in Seq(DOMAIN entities) /\ Len(parts) = k /\ parts[k] = name
      /\ \A i \in 1 .. n : parts[i] = b.parts[i]
  BY <1>1, <1>5, <1>6, AppendProperties
<1>9. /\ owners \in Seq(Nat) /\ Len(owners) = k /\ owners[k] = builder
      /\ \A i \in 1 .. n : owners[i] = b.builderOf[i]
  <2>1. builder \in Nat
    BY <1>5
  <2>2. QED BY <1>1, <1>5, <1>6, <2>1, AppendProperties
<1>10. c \in Builds(entities)
  BY <1>5, <1>7, <1>8, <1>9 DEF Builds
<1>11. PartsOK(c, entities)
  <2>1. Len(c.builderOf) = Len(c.parts) /\ Len(c.parts) = k
    BY <1>7, <1>8, <1>9
  <2>2. ASSUME NEW i \in 1 .. k
        PROVE  /\ owners[i] \in 0 .. Len(b.partial)
               /\ (IF owners[i] = 0 THEN b.stateless ELSE b.partial[owners[i]])
                      => entities[parts[i]].stateless
    <3>1. CASE i = k
      BY <1>8, <1>9, <3>1
    <3>2. CASE i # k
      <4>1. i \in 1 .. n
        BY <1>1, <1>5, <3>2
      <4>2. owners[i] = b.builderOf[i] /\ parts[i] = b.parts[i]
        BY <1>8, <1>9, <4>1
      <4>3. QED BY <1>1, <4>1, <4>2 DEF BuildOK, PartsOK
    <3>3. QED BY <3>1, <3>2
  <2>3. QED BY <1>7, <2>1, <2>2 DEF PartsOK
<1>12. PortsOK(c) /\ NetsOK(c)
  <2>1. \A p \in DOMAIN c.ports : p[1] \in 0 .. Len(c.parts)
    <3>1. \A p \in DOMAIN b.ports : p[1] \in 0 .. n
      BY <1>1 DEF BuildOK, PortsOK
    <3>2. \A i \in 0 .. n : i \in 0 .. k
      BY <1>1, <1>5
    <3>3. QED BY <1>7, <1>8, <3>1, <3>2
  <2>2. QED BY <1>7, <2>1 DEF BuildOK, PortsOK, NetsOK
<1>13. BuildOK(c, entities)
  BY <1>10, <1>11, <1>12 DEF BuildOK
<1>14. root \in Addresses /\ root[1] = k /\ IsTop(root)
  BY <1>3, <1>5, TopAddress
<1>15. root[1] \in 0 .. Len(c.parts)
  BY <1>5, <1>7, <1>8, <1>14
<1>16. Free(c.ports, root)
  <2>1. \A p \in DOMAIN b.ports : p[1] # k
    BY <1>1, <1>5 DEF BuildOK, PortsOK
  <2>2. \A path \in Paths : Under(root, path)[1] = k
    BY <1>14 DEF Under
  <2>3. QED BY <1>7, <1>14, <2>1, <2>2 DEF Free
<1>17. PICK d : d = WithPorts(c, root, T)
  OBVIOUS
<1>18. BuildOK(d, entities) /\ SameParts(c, d)
  <2>1. PathTree(T) /\ \A path \in DOMAIN T : Directed(T[path])
    BY <1>1, InterfaceTree
  <2>2. QED BY <1>13, <1>14, <1>15, <1>16, <1>17, <2>1, WithPortsOK
<1>19. Together(b, d)
  <2>1. d.builderOf = owners /\ Len(d.parts) = k
    BY <1>7, <1>8, <1>18 DEF SameParts
  <2>2. \A j \in 0 .. n : Owner(d, j) = Owner(b, j)
    BY <1>9, <2>1 DEF Owner
  <2>3. QED BY <1>1, <1>5, <2>1, <2>2 DEF Together
<1>20. QED BY <1>4, <1>17, <1>18, <1>19

\* rhdl_component leaves a sound build, unless it refuses the component.
LEMMA PartAddedOK ==
    ASSUME NEW entities, NEW b, BuildOK(b, entities),
           NEW name \in DOMAIN entities, IsInterface(entities[name].iface), MayAdd(b, entities[name])
    PROVE  /\ BuildOK(PartAdded(b, name, entities[name]), entities)
           /\ Together(b, PartAdded(b, name, entities[name]))
<1>1. 0 \in 0 .. Len(b.partial)
  BY DEF BuildOK, Builds
<1>2. b.stateless => entities[name].stateless
  BY DEF MayAdd, Stateless
<1>3. QED BY <1>1, <1>2, WithPartOK DEF PartAdded

\* makeComponent leaves a sound build: the part gets a builder that is as stateless as it.
LEMMA MadeAloneOK ==
    ASSUME NEW entities, NEW b, BuildOK(b, entities),
           NEW name \in DOMAIN entities, IsInterface(entities[name].iface),
           entities[name].stateless \in BOOLEAN
    PROVE  /\ BuildOK(MadeAlone(b, name, entities[name]), entities)
           /\ Together(b, MadeAlone(b, name, entities[name]))
<1>1. PICK m, n, partial, c : /\ m = Len(b.partial) /\ n = m + 1
                              /\ partial = Append(b.partial, entities[name].stateless)
                              /\ c = [b EXCEPT !.partial = partial]
  OBVIOUS
<1>2. MadeAlone(b, name, entities[name]) = WithPart(c, name, entities[name], n)
  BY <1>1 DEF MadeAlone, Stateless
<1>3. /\ b \in Builds(entities) /\ b.partial \in Seq(BOOLEAN) /\ m \in Nat /\ n \in Nat
      /\ Len(b.parts) \in Nat
  BY <1>1 DEF BuildOK, Builds
<1>4. /\ partial \in Seq(BOOLEAN) /\ Len(partial) = n /\ partial[n] = entities[name].stateless
      /\ \A i \in 1 .. m : partial[i] = b.partial[i]
  BY <1>1, <1>3, AppendProperties
<1>5. c = [stateless |-> b.stateless, parts |-> b.parts, builderOf |-> b.builderOf,
           partial |-> partial, ports |-> b.ports, net |-> b.net,
           children |-> b.children, parents |-> b.parents]
  <2>1. b = [stateless |-> b.stateless, parts |-> b.parts, builderOf |-> b.builderOf,
                partial |-> b.partial, ports |-> b.ports, net |-> b.net,
                children |-> b.children, parents |-> b.parents]
    BY <1>3, BuildIs
  <2>2. QED BY ONLY <1>1, <2>1
<1>6. BuildOK(c, entities)
  <2>1. c \in Builds(entities)
    BY <1>3, <1>4, <1>5 DEF Builds
  <2>2. PortsOK(c) /\ NetsOK(c)
    BY <1>5 DEF BuildOK, PortsOK, NetsOK
  <2>3. ASSUME NEW k \in 1 .. Len(b.parts)
        PROVE  /\ b.builderOf[k] \in 0 .. n
               /\ (IF b.builderOf[k] = 0 THEN b.stateless ELSE partial[b.builderOf[k]])
                      => entities[b.parts[k]].stateless
    <3>1. /\ b.builderOf[k] \in 0 .. m
          /\ (IF b.builderOf[k] = 0 THEN b.stateless ELSE b.partial[b.builderOf[k]])
                 => entities[b.parts[k]].stateless
      BY <1>1 DEF BuildOK, PartsOK
    <3>2. b.builderOf[k] # 0 => b.builderOf[k] \in 1 .. m
      BY <1>3, <3>1
    <3>3. b.builderOf[k] \in 0 .. n
      BY <1>1, <1>3, <3>1
    <3>4. QED BY <1>4, <3>1, <3>2, <3>3
  <2>4. PartsOK(c, entities)
    <3>1. Len(b.builderOf) = Len(b.parts)
      BY DEF BuildOK, PartsOK
    <3>2. QED BY <1>4, <1>5, <2>3, <3>1 DEF PartsOK
  <2>5. QED BY <2>1, <2>2, <2>4 DEF BuildOK
<1>7. n \in 0 .. Len(c.partial) /\ n # 0 /\ c.partial[n] = entities[name].stateless
  BY <1>1, <1>3, <1>4, <1>5
<1>8. PICK d : d = WithPart(c, name, entities[name], n)
  OBVIOUS
<1>9. BuildOK(d, entities) /\ Together(c, d)
  BY <1>6, <1>7, <1>8, WithPartOK
<1>10. Together(b, d)
  BY <1>5, <1>9 DEF Together, Owner
<1>11. QED BY <1>2, <1>8, <1>9, <1>10

-----------------------------------------------------------------------------
(* Ports that are enclosed below the new entity.                             *)

\* The ports Q are the ports P and a new one, enclosed in p.
Grown(P, p, name, Q) ==
    /\ DOMAIN Q = DOMAIN P \cup {NextSub(P, p)} /\ NextSub(P, p) \notin DOMAIN P
    /\ NextSub(P, p)[1] = 0
    /\ Q[NextSub(P, p)] = Port(name, {}, 0, FALSE)
    /\ \A q \in DOMAIN P : Q[q].real = P[q].real
    /\ \A q \in DOMAIN P : q # p => Q[q] = P[q]

\* A port made below one of the new entity leaves a sound build.
LEMMA EncloseNewOK ==
    ASSUME NEW entities, NEW b, BuildOK(b, entities), NEW p \in Unreal(b.ports), NEW name \in PortNames
    PROVE  /\ BuildOK(EncloseNew(b, p, name), entities) /\ SameParts(b, EncloseNew(b, p, name))
           /\ Grown(b.ports, p, name, EncloseNew(b, p, name).ports)
<1>1. PICK P, n, new, r, Q, R, c :
          /\ P = b.ports /\ n = P[p].subs + 1 /\ new = NextSub(P, p) /\ r = Port(name, {}, 0, FALSE)
          /\ Q = [b.ports EXCEPT ![p].subs = @ + 1] /\ R = Over([q \in {new} |-> r], Q)
          /\ c = EncloseNew(b, p, name)
  OBVIOUS
<1>2. PortsTyped(P) /\ PortsTree(P) /\ b \in Builds(entities)
  BY <1>1 DEF BuildOK, PortsOK
<1>3. p \in DOMAIN P /\ ~P[p].real /\ p \in Addresses /\ P[p].subs \in Nat /\ n \in Nat /\ n = P[p].subs + 1
      /\ p[1] = 0
  BY <1>1, <1>2 DEF Unreal, PortsTyped, PortRecords
<1>4. new = Sub(p, n)
  BY <1>1 DEF NextSub
<1>5. /\ new \in Addresses /\ new[1] = p[1] /\ ~IsTop(new) /\ Enclosing(new) = p /\ Last(new[2]) = n
      /\ new # p /\ Len(new[2]) = Len(p[2]) + 1 /\ Len(p[2]) \in Nat
  BY <1>3, <1>4, SubFacts
<1>6. new \notin DOMAIN P
  <2> SUFFICES ASSUME new \in DOMAIN P PROVE FALSE
    OBVIOUS
  <2>1. n \in 1 .. P[p].subs
    BY <1>2, <1>3, <1>4, TreeUp
  <2>2. QED BY <1>3, <2>1
<1>7. c = [stateless |-> b.stateless, parts |-> b.parts, builderOf |-> b.builderOf,
           partial |-> b.partial, ports |-> R, net |-> b.net, children |-> b.children, parents |-> b.parents]
  <2>1. b = [stateless |-> b.stateless, parts |-> b.parts, builderOf |-> b.builderOf,
                partial |-> b.partial, ports |-> b.ports, net |-> b.net,
                children |-> b.children, parents |-> b.parents]
    BY <1>2, BuildIs
  <2>2. c = [b EXCEPT !.ports = R]
    <3>1. new = Sub(p, b.ports[p].subs + 1)
      BY <1>1 DEF NextSub
    <3>2. c = [b EXCEPT !.ports = Over([q \in {Sub(p, b.ports[p].subs + 1)} |-> Port(name, {}, 0, FALSE)],
                                       [b.ports EXCEPT ![p].subs = @ + 1])]
      BY <1>1 DEF EncloseNew
    <3>3. R = Over([q \in {Sub(p, b.ports[p].subs + 1)} |-> Port(name, {}, 0, FALSE)],
                   [b.ports EXCEPT ![p].subs = @ + 1])
      BY <1>1, <3>1
    <3>4. QED BY ONLY <3>2, <3>3
  <2>3. QED BY ONLY <2>1, <2>2
<1>8. /\ DOMAIN Q = DOMAIN P /\ \A q \in DOMAIN P : q # p => Q[q] = P[q]
      /\ Q[p] = [P[p] EXCEPT !.subs = n]
  <2>1. P = [q \in DOMAIN P |-> P[q]]
    BY <1>2 DEF PortsTyped
  <2>2. QED BY <1>1, <1>3, <2>1
<1>9. /\ Q[p] \in PortRecords /\ Q[p].subs = n /\ ~Q[p].real /\ Q[p].real = P[p].real
  <2>1. P[p] \in PortRecords
    BY <1>2, <1>3 DEF PortsTyped
  <2>2. QED BY <1>3, <1>8, <2>1 DEF PortRecords
<1>10. r \in PortRecords /\ r.subs = 0 /\ ~r.real
  BY <1>1 DEF Port, PortRecords
<1>11. /\ DOMAIN R = DOMAIN P \cup {new} /\ R[new] = r /\ \A q \in DOMAIN P : R[q] = Q[q]
       /\ R = [q \in DOMAIN P \cup {new} |-> R[q]]
  BY <1>1, <1>6, <1>8 DEF Over
<1>12. \A q \in DOMAIN P : R[q].real = P[q].real
  <2>1. ASSUME NEW q \in DOMAIN P PROVE R[q].real = P[q].real
    <3>1. R[q] = Q[q] /\ (q # p => Q[q] = P[q])
      BY <1>8, <1>11
    <3>2. QED BY <1>9, <3>1
  <2>2. QED BY <2>1
<1>13. \A q \in DOMAIN R : R[q] \in PortRecords /\ q \in Addresses
  BY <1>2, <1>5, <1>8, <1>9, <1>10, <1>11 DEF PortsTyped
<1>14. Bounded(R)
  <2>1. PICK m \in Nat : \A q \in DOMAIN P : Len(q[2]) <= m
    BY <1>2 DEF PortsTyped, Bounded
  <2>2. \A q \in DOMAIN P : Len(q[2]) \in Nat
    BY <1>2 DEF PortsTyped, Addresses, Paths
  <2>3. m + 1 \in Nat /\ \A q \in DOMAIN R : Len(q[2]) <= m + 1
    BY <1>3, <1>5, <1>11, <2>1, <2>2
  <2>4. QED BY <2>3 DEF Bounded
<1>15. ASSUME NEW q \in DOMAIN R, NEW i \in 1 .. R[q].subs PROVE Sub(q, i) \in DOMAIN R
  <2>1. CASE q = new
    BY <1>10, <1>11, <1>15, <2>1
  <2>2. CASE q = p
    <3>1. i \in 1 .. P[p].subs \/ i = n
      BY <1>3, <1>9, <1>11, <2>2
    <3>2. i \in 1 .. P[p].subs => Sub(p, i) \in DOMAIN P
      BY <1>2, <1>3 DEF PortsTyped
    <3>3. QED BY <1>4, <1>11, <2>2, <3>1, <3>2
  <2>3. CASE q # new /\ q # p
    <3>1. q \in DOMAIN P /\ R[q] = P[q]
      BY <1>8, <1>11, <2>3
    <3>2. QED BY <1>2, <1>11, <3>1 DEF PortsTyped
  <2>4. QED BY <2>1, <2>2, <2>3
<1>16. PortsTyped(R)
  <2>1. ASSUME NEW q \in DOMAIN R, q[1] # 0 PROVE R[q].real /\ Directed(R[q])
    <3>1. q \in DOMAIN P /\ q # p
      BY <1>3, <1>5, <1>11, <2>1
    <3>2. R[q] = P[q]
      BY <1>8, <1>11, <3>1
    <3>3. QED BY <1>2, <2>1, <3>1, <3>2 DEF PortsTyped
  <2>2. R \in [DOMAIN R -> PortRecords]
    BY <1>11, <1>13
  <2>3. QED BY <1>13, <1>14, <1>15, <2>1, <2>2 DEF PortsTyped
<1>17. PortsTree(R)
  <2>1. ASSUME NEW q \in DOMAIN R, ~IsTop(q)
        PROVE  /\ Enclosing(q) \in DOMAIN R /\ Last(q[2]) \in 1 .. R[Enclosing(q)].subs
               /\ R[Enclosing(q)].real => R[q].real
    <3>1. CASE q = new
      BY <1>3, <1>5, <1>9, <1>11, <3>1
    <3>2. CASE q \in DOMAIN P
      <4>1. PICK e : e = Enclosing(q)
        OBVIOUS
      <4>2. e \in DOMAIN P /\ Last(q[2]) \in 1 .. P[e].subs /\ (P[e].real => P[q].real)
        BY <1>2, <2>1, <3>2, <4>1 DEF PortsTree
      <4>3. R[e].subs = P[e].subs \/ (R[e].subs = n /\ e = p)
        <5>1. R[e] = Q[e] /\ (e # p => Q[e] = P[e])
          BY <1>8, <1>11, <4>2
        <5>2. QED BY <1>9, <5>1
      <4>4. Last(q[2]) \in 1 .. R[e].subs
        BY <1>3, <4>2, <4>3
      <4>5. QED BY <1>11, <1>12, <3>2, <4>1, <4>2, <4>4
    <3>3. QED BY <1>11, <3>1, <3>2
  <2>2. QED BY <2>1 DEF PortsTree
<1>18. Known(R) = Known(P)
  BY <1>10, <1>11, <1>12 DEF Known
<1>19. \A q \in DOMAIN R : q[1] \in 0 .. Len(b.parts)
  BY <1>1, <1>3, <1>5, <1>11 DEF BuildOK, PortsOK
<1>20. b.net \in [Known(R) -> Known(R)] /\ Related(b.net, b.children, b.parents)
  BY <1>1, <1>18 DEF BuildOK, NetsOK
<1>21. BuildOK(c, entities) /\ SameParts(b, c)
  BY <1>7, <1>16, <1>17, <1>19, <1>20, BuildOKIs
<1>22. c.ports = R
  BY <1>7
<1>23. Grown(P, p, name, R)
  BY <1>1, <1>3, <1>5, <1>6, <1>8, <1>11, <1>12 DEF Grown
<1>24. QED BY <1>1, <1>21, <1>22, <1>23

\* What the search enclosed is made one after the other.
LEMMA MadeKeeps ==
    ASSUME NEW D, NEW X, IsFiniteSet(X), NEW b \in D,
           \A e \in X, c \in D : EncloseNew(c, e[1], e[2]) \in D
    PROVE  /\ Made(b, X) \in D
           /\ X = {} => Made(b, X) = b
           /\ \A e : X = {e} => Made(b, X) = EncloseNew(b, e[1], e[2])
<1> DEFINE Step == [a \in X \X D |-> EncloseNew(a[2], a[1][1], a[1][2])]
           Code(i) == [T \in SUBSET X |-> IF T = {} THEN b
                         ELSE EncloseNew(i[T \ {CHOOSE x \in T : TRUE}],
                                         (CHOOSE x \in T : TRUE)[1], (CHOOSE x \in T : TRUE)[2])]
<1>1. Step \in [X \X D -> D]
  OBVIOUS
<1>2. PICK it \in [SUBSET X -> D] : IsFold(it, X, b, Step)
  <2> HIDE DEF Step
  <2> QED BY <1>1, FoldExists
<1>3. ASSUME NEW T \in SUBSET X, T # {} PROVE AnyOf(T) \in T /\ T \ {AnyOf(T)} \in SUBSET X
  BY <1>3 DEF AnyOf
<1>4. it = Code(it)
  <2>1. ASSUME NEW T \in SUBSET X
        PROVE  it[T] = IF T = {} THEN b ELSE EncloseNew(it[T \ {AnyOf(T)}], AnyOf(T)[1], AnyOf(T)[2])
    <3>1. it[T] = IF T = {} THEN b ELSE Step[<<AnyOf(T), it[T \ {AnyOf(T)}]>>]
      <4> HIDE DEF Step
      <4> QED BY <1>2 DEF IsFold
    <3>2. ASSUME T # {} PROVE <<AnyOf(T), it[T \ {AnyOf(T)}]>> \in X \X D
      <4> HIDE DEF Step
      <4> QED BY <1>2, <1>3, <3>2
    <3>3. ASSUME T # {}
          PROVE  Step[<<AnyOf(T), it[T \ {AnyOf(T)}]>>]
                    = EncloseNew(it[T \ {AnyOf(T)}], AnyOf(T)[1], AnyOf(T)[2])
      BY <3>2, <3>3
    <3> HIDE DEF Step
    <3>4. QED BY <3>1, <3>3
  <2>2. it = [T \in SUBSET X |-> it[T]]
    <3> HIDE DEF Step
    <3> QED BY <1>2
  <2> HIDE DEF Step
  <2>3. it = [T \in SUBSET X |-> IF T = {} THEN b
                ELSE EncloseNew(it[T \ {AnyOf(T)}], AnyOf(T)[1], AnyOf(T)[2])]
    BY ONLY <2>1, <2>2
  <2>4. QED BY <2>3 DEF AnyOf
<1>5. PICK iter : Made(b, X) = iter[X] /\ iter = Code(iter)
  <2>1. Made(b, X) = (CHOOSE i : i = Code(i))[X]
    BY DEF Made, FoldSet, MapThenFoldSet
  <2> HIDE DEF Code
  <2>2. (CHOOSE i : i = Code(i)) = Code(CHOOSE i : i = Code(i))
    BY <1>4
  <2>3. QED BY <2>1, <2>2
<1>6. ASSUME NEW T \in SUBSET X
      PROVE  iter[T] = IF T = {} THEN b
                       ELSE EncloseNew(iter[T \ {AnyOf(T)}], AnyOf(T)[1], AnyOf(T)[2])
  BY <1>5 DEF AnyOf
<1> HIDE DEF Code, Step
<1> DEFINE Wrong == {n \in 0 .. Cardinality(X) : \E T \in SUBSET X : Cardinality(T) = n /\ iter[T] \notin D}
<1>7. ASSUME NEW n \in Wrong PROVE \E m \in Wrong : m < n
  <2>1. PICK T \in SUBSET X : Cardinality(T) = n /\ iter[T] \notin D
    BY <1>7
  <2>2. T # {}
    BY <1>6, <2>1
  <2>3. PICK a, U : a = AnyOf(T) /\ U = T \ {a}
    OBVIOUS
  <2>4. a \in T /\ U \in SUBSET X /\ a \in X
    BY <1>3, <2>2, <2>3
  <2>5. iter[T] = EncloseNew(iter[U], a[1], a[2])
    BY <1>6, <2>2, <2>3
  <2>6. Cardinality(U) = n - 1 /\ Cardinality(U) \in 0 .. Cardinality(X) /\ n \in Nat
    <3>1. IsFiniteSet(T) /\ IsFiniteSet(U) /\ Cardinality(U) <= Cardinality(X)
      BY <2>4, FS_Subset
    <3>2. Cardinality(T) \in Nat /\ Cardinality(U) \in Nat /\ Cardinality(X) \in Nat
      BY <3>1, FS_CardinalityType
    <3>3. Cardinality(T \ {a}) = Cardinality(T) - 1
      BY ONLY <2>4, <3>1, FS_RemoveElement
    <3>4. QED BY ONLY <2>1, <2>3, <3>1, <3>2, <3>3
  <2>7. iter[U] \notin D
    BY <2>1, <2>4, <2>5
  <2>8. n - 1 \in Wrong
    BY <2>4, <2>6, <2>7
  <2> HIDE DEF Wrong
  <2>9. n - 1 < n
    BY <2>6
  <2>10. QED BY <2>8, <2>9
<1>8. Cardinality(X) \in Nat
  BY FS_CardinalityType
<1>9. Wrong = {}
  <2>1. Wrong \in SUBSET Nat
    BY <1>8
  <2> HIDE DEF Wrong
  <2>2. QED BY <1>7, <2>1, Descent
<1>10. iter[X] \in D
  BY <1>8, <1>9
<1>11. iter[{}] = b
  BY <1>6
<1>12. ASSUME NEW e, X = {e} PROVE iter[X] = EncloseNew(b, e[1], e[2])
  <2>1. AnyOf(X) = e
    BY <1>3, <1>12
  <2>2. X \ {AnyOf(X)} = {} /\ X # {}
    BY <1>12, <2>1
  <2>3. QED BY <1>6, <1>11, <2>1, <2>2
<1>13. QED BY <1>5, <1>10, <1>11, <1>12

\* The ports made during a search leave a sound build.
LEMMA MadeOK ==
    ASSUME NEW entities, NEW b, BuildOK(b, entities),
           NEW X \in SUBSET (Unreal(b.ports) \X PortNames), IsFiniteSet(X)
    PROVE  /\ BuildOK(Made(b, X), entities) /\ SameParts(b, Made(b, X))
           /\ X = {} => Made(b, X) = b
           /\ \A e : X = {e} => Made(b, X) = EncloseNew(b, e[1], e[2])
<1> DEFINE D == {c \in Builds(entities) : /\ BuildOK(c, entities) /\ SameParts(b, c)
                                          /\ Unreal(b.ports) \subseteq Unreal(c.ports)}
<1>1. b \in D
  BY DEF BuildOK, SameParts
<1>2. ASSUME NEW e \in X, NEW c \in D PROVE EncloseNew(c, e[1], e[2]) \in D
  <2>1. PICK p, name, d : p = e[1] /\ name = e[2] /\ d = EncloseNew(c, p, name)
    OBVIOUS
  <2>2. p \in Unreal(c.ports) /\ name \in PortNames /\ BuildOK(c, entities) /\ SameParts(b, c)
    BY <2>1
  <2>3. /\ BuildOK(d, entities) /\ SameParts(c, d)
        /\ DOMAIN d.ports = DOMAIN c.ports \cup {NextSub(c.ports, p)}
        /\ \A q \in DOMAIN c.ports : d.ports[q].real = c.ports[q].real
    <3>1. BuildOK(c, entities) /\ p \in Unreal(c.ports) /\ name \in PortNames
      BY ONLY <2>2
    <3>2. /\ BuildOK(EncloseNew(c, p, name), entities) /\ SameParts(c, EncloseNew(c, p, name))
          /\ Grown(c.ports, p, name, EncloseNew(c, p, name).ports)
      BY ONLY <3>1, EncloseNewOK
    <3>3. QED BY ONLY <2>1, <3>2 DEF Grown
  <2>4. Unreal(b.ports) \subseteq Unreal(d.ports)
    <3>1. Unreal(b.ports) \subseteq Unreal(c.ports)
      OBVIOUS
    <3>2. Unreal(c.ports) \subseteq Unreal(d.ports)
      BY <2>3 DEF Unreal
    <3>3. QED BY <3>1, <3>2
  <2>5. SameParts(b, d)
    BY <2>2, <2>3 DEF SameParts
  <2>6. QED BY <2>1, <2>3, <2>4, <2>5 DEF BuildOK
<1> HIDE DEF D
<1>3. /\ Made(b, X) \in D
      /\ X = {} => Made(b, X) = b
      /\ \A e : X = {e} => Made(b, X) = EncloseNew(b, e[1], e[2])
  <2>1. \A e \in X, c \in D : EncloseNew(c, e[1], e[2]) \in D
    BY <1>2
  <2>2. b \in D /\ IsFiniteSet(X)
    BY <1>1
  <2>3. QED BY ONLY <2>1, <2>2, MadeKeeps
<1>4. QED BY <1>3 DEF D

-----------------------------------------------------------------------------
(* Builders that are combined.                                               *)

\* combineBuilders leaves a sound build, in which the two elements have one builder.
LEMMA CombinedOK ==
    ASSUME NEW entities, NEW b, BuildOK(b, entities), NEW from, NEW to,
           from[1] \in 0 .. Len(b.parts), to[1] \in 0 .. Len(b.parts), MayCombine(b, from, to)
    PROVE  /\ BuildOK(Combined(b, from, to), entities)
           /\ Combined(b, from, to).ports = b.ports /\ Together(b, Combined(b, from, to))
           /\ Combined(b, from, to).parts = b.parts
           /\ Owner(Combined(b, from, to), from[1]) = Owner(Combined(b, from, to), to[1])
<1>1. PICK b1, b2, survivor, victim, n, m :
          /\ b1 = BuilderOf(b, from) /\ b2 = BuilderOf(b, to)
          /\ survivor = IF b1 = 0 THEN 0 ELSE b2
          /\ victim = IF b1 = 0 THEN b2 ELSE b1
          /\ n = Len(b.parts) /\ m = Len(b.partial)
  OBVIOUS
<1>2. b1 = Owner(b, from[1]) /\ b2 = Owner(b, to[1])
  BY <1>1 DEF BuilderOf, Owner
<1>3. /\ b \in Builds(entities) /\ n \in Nat /\ m \in Nat /\ Len(b.builderOf) = n
      /\ b.builderOf \in Seq(Nat) /\ b.partial \in Seq(BOOLEAN) /\ b.stateless \in BOOLEAN
  BY <1>1 DEF BuildOK, Builds, PartsOK
<1>4. \A k \in 1 .. n : /\ b.builderOf[k] \in 0 .. m
                        /\ (IF b.builderOf[k] = 0 THEN b.stateless ELSE b.partial[b.builderOf[k]])
                              => entities[b.parts[k]].stateless
  BY <1>1 DEF BuildOK, PartsOK
<1>5. \A k \in 0 .. n : Owner(b, k) \in 0 .. m
  BY <1>3, <1>4 DEF Owner
<1>6. b1 \in 0 .. m /\ b2 \in 0 .. m
  BY <1>1, <1>2, <1>5
<1>7. CASE b1 = b2
  <2>1. Combined(b, from, to) = b
    BY <1>1, <1>7 DEF Combined
  <2>2. Together(b, b)
    BY <1>1, <1>3 DEF Together
  <2>3. QED BY <1>2, <1>7, <2>1, <2>2
<1>8. CASE b1 # b2
  <2>1. victim # 0 /\ victim \in 1 .. m /\ survivor \in 0 .. m /\ survivor # victim
        /\ {survivor, victim} = {b1, b2}
    BY <1>1, <1>3, <1>6, <1>8
  <2>2. PICK owners, partial :
            /\ owners = [k \in DOMAIN b.builderOf |-> IF b.builderOf[k] = victim THEN survivor
                                                      ELSE b.builderOf[k]]
            /\ partial = [k \in DOMAIN b.partial |-> b.partial[k] /\ (k = survivor => b.partial[victim])]
    OBVIOUS
  <2>3. PICK c : c = Combined(b, from, to)
    OBVIOUS
  <2>4. c = [stateless |-> b.stateless, parts |-> b.parts, builderOf |-> owners,
             partial |-> partial, ports |-> b.ports, net |-> b.net,
             children |-> b.children, parents |-> b.parents]
    <3>1. b = [stateless |-> b.stateless, parts |-> b.parts, builderOf |-> b.builderOf,
                partial |-> b.partial, ports |-> b.ports, net |-> b.net,
                children |-> b.children, parents |-> b.parents]
      BY <1>3, BuildIs
    <3>2. c = [b EXCEPT !.builderOf = owners, !.partial = partial]
      BY <1>1, <1>8, <2>2, <2>3 DEF Combined
    <3>3. QED BY ONLY <3>1, <3>2
  <2>5. DOMAIN b.builderOf = 1 .. n /\ DOMAIN b.partial = 1 .. m
    BY <1>1, <1>3
  <2>6. /\ \A k \in 1 .. n : owners[k] = IF b.builderOf[k] = victim THEN survivor ELSE b.builderOf[k]
        /\ \A k \in 1 .. n : owners[k] \in 0 .. m
        /\ owners \in Seq(Nat) /\ Len(owners) = n
    <3>1. \A k \in 1 .. n : owners[k] = IF b.builderOf[k] = victim THEN survivor ELSE b.builderOf[k]
      BY <2>2, <2>5
    <3>2. \A k \in 1 .. n : owners[k] \in 0 .. m
      BY <1>4, <2>1, <3>1
    <3>3. owners \in [1 .. n -> Nat]
      BY <1>3, <2>2, <2>5, <3>2
    <3>4. owners \in Seq(Nat) /\ Len(owners) = n
      BY ONLY <1>3, <3>3
    <3>5. QED BY <3>1, <3>2, <3>4
  <2>7. /\ \A k \in 1 .. m : partial[k] <=> b.partial[k] /\ (k = survivor => b.partial[victim])
        /\ partial \in Seq(BOOLEAN) /\ Len(partial) = m
    <3>1. \A k \in 1 .. m : partial[k] = (b.partial[k] /\ (k = survivor => b.partial[victim]))
      BY <2>2, <2>5
    <3>2. partial \in [1 .. m -> BOOLEAN]
      BY <2>2, <2>5
    <3>3. partial \in Seq(BOOLEAN) /\ Len(partial) = m
      BY ONLY <1>3, <3>2
    <3>4. QED BY <3>1, <3>3
  <2>8. b.stateless /\ survivor = 0 => b.partial[victim]
    <3> SUFFICES ASSUME b.stateless, survivor = 0 PROVE b.partial[victim]
      OBVIOUS
    <3>1. 0 \in {b1, b2} /\ victim \in {b1, b2} \ {0}
      BY <2>1
    <3>2. b.stateless /\ 0 \in {b1, b2} => \A k \in {b1, b2} \ {0} : b.partial[k]
      BY <1>1 DEF MayCombine
    <3>3. QED BY <3>1, <3>2
  <2>9. ASSUME NEW k \in 1 .. n, IF owners[k] = 0 THEN b.stateless ELSE partial[owners[k]]
        PROVE  entities[b.parts[k]].stateless
    <3>1. CASE b.builderOf[k] = victim
      <4>1. b.partial[victim]
        <5>1. owners[k] = survivor
          BY <2>6, <3>1
        <5>2. CASE survivor = 0
          BY <2>8, <2>9, <5>1, <5>2
        <5>3. CASE survivor # 0
          <6>1. survivor \in 1 .. m /\ partial[survivor]
            BY <1>3, <2>1, <2>9, <5>1, <5>3
          <6>2. QED BY <2>7, <6>1
        <5>4. QED BY <5>2, <5>3
      <4>2. QED BY <1>4, <2>1, <3>1, <4>1
    <3>2. CASE b.builderOf[k] # victim
      <4>1. owners[k] = b.builderOf[k] /\ b.builderOf[k] \in 0 .. m
        BY <1>4, <2>6, <3>2
      <4>2. b.builderOf[k] # 0 => b.partial[b.builderOf[k]]
        <5> SUFFICES ASSUME b.builderOf[k] # 0 PROVE b.partial[b.builderOf[k]]
          OBVIOUS
        <5>1. b.builderOf[k] \in 1 .. m /\ partial[b.builderOf[k]]
          BY <1>3, <2>9, <4>1
        <5>2. QED BY <2>7, <5>1
      <4>3. QED BY <1>4, <2>9, <4>1, <4>2
    <3>3. QED BY <3>1, <3>2
  <2>10. BuildOK(c, entities)
    <3>1. c \in Builds(entities)
      BY <1>3, <2>4, <2>6, <2>7 DEF Builds
    <3>2. PortsOK(c) /\ NetsOK(c)
      BY <2>4 DEF BuildOK, PortsOK, NetsOK
    <3>3. PartsOK(c, entities)
      BY <1>1, <2>4, <2>6, <2>7, <2>9 DEF PartsOK
    <3>4. QED BY <3>1, <3>2, <3>3 DEF BuildOK
  <2>11. \A k \in 0 .. n : Owner(c, k) = IF Owner(b, k) = victim THEN survivor ELSE Owner(b, k)
    BY <1>3, <2>1, <2>4, <2>6 DEF Owner
  <2>12. Together(b, c)
    BY <1>1, <1>3, <2>4, <2>11 DEF Together
  <2>13. Owner(c, from[1]) = survivor /\ Owner(c, to[1]) = survivor
    BY <1>1, <1>2, <1>8, <2>1, <2>11
  <2>14. QED BY <2>3, <2>4, <2>10, <2>12, <2>13
<1>9. QED BY <1>7, <1>8

-----------------------------------------------------------------------------
(* Ports that get the interface of their peer.                               *)

\* The interface of a port under another name.
CopyOf(P, peer, name) ==
    [path \in {From(peer, q) : q \in Below(P, peer)} |->
        LET original == P[<<peer[1], peer[2] \o path>>]
        IN  IF path = <<>> THEN [original EXCEPT !.name = name] ELSE original]

\* The copy of an interface, under another name, is a tree of known ports.
LEMMA CopyTree ==
    ASSUME NEW P, PortsTyped(P), PortsTree(P), NEW peer \in DOMAIN P, P[peer].real, NEW name \in PortNames
    PROVE  PathTree(CopyOf(P, peer, name))
<1>1. PICK T, D : T = CopyOf(P, peer, name) /\ D = {From(peer, q) : q \in Below(P, peer)}
  OBVIOUS
<1>2. peer \in Addresses /\ \A q \in DOMAIN P : q \in Addresses /\ P[q] \in PortRecords
  BY DEF PortsTyped
<1>3. \A path : path \in D <=> path \in Paths /\ Under(peer, path) \in DOMAIN P
  <2>1. ASSUME NEW q \in Below(P, peer) PROVE From(peer, q) \in Paths /\ Under(peer, From(peer, q)) \in DOMAIN P
    <3>1. q \in DOMAIN P /\ q \in Addresses /\ q[1] = peer[1] /\ IsPrefix(peer[2], q[2])
      BY <1>2 DEF Below
    <3>2. From(peer, q) \in Paths /\ q = Under(peer, From(peer, q))
      BY <1>2, <3>1, BelowIsUnder
    <3>3. QED BY <3>1, <3>2
  <2>2. ASSUME NEW path \in Paths, Under(peer, path) \in DOMAIN P PROVE path \in D
    <3>1. PICK q : q = Under(peer, path)
      OBVIOUS
    <3>2. q \in DOMAIN P /\ q[1] = peer[1] /\ IsPrefix(peer[2], q[2]) /\ From(peer, q) = path
      BY <1>2, <2>2, <3>1, UnderIsBelow
    <3>3. QED BY <1>1, <3>2 DEF Below
  <2>3. QED BY <1>1, <2>1, <2>2
<1>4. /\ DOMAIN T = D /\ T = [path \in D |-> T[path]]
      /\ \A path \in D : T[path] = IF path = <<>> THEN [P[Under(peer, path)] EXCEPT !.name = name]
                                   ELSE P[Under(peer, path)]
  BY <1>1 DEF CopyOf, Under
<1>5. \A path \in D : /\ T[path] \in PortRecords
                      /\ T[path].subs = P[Under(peer, path)].subs
                      /\ T[path].real = P[Under(peer, path)].real
  <2>1. ASSUME NEW path \in D
        PROVE  /\ T[path] \in PortRecords /\ T[path].subs = P[Under(peer, path)].subs
               /\ T[path].real = P[Under(peer, path)].real
    <3>1. PICK r : r = P[Under(peer, path)] /\ r \in PortRecords
      BY <1>2, <1>3
    <3>2. T[path] = [r EXCEPT !.name = name] \/ T[path] = r
      BY <1>4, <3>1
    <3>3. PICK s : s = [r EXCEPT !.name = name]
      OBVIOUS
    <3>4. s \in PortRecords /\ s.subs = r.subs /\ s.real = r.real
      BY ONLY <3>1, <3>3, name \in PortNames DEF PortRecords
    <3>5. QED BY <3>1, <3>2, <3>3, <3>4
  <2>2. QED BY <2>1
<1>6. <<>> \in D
  <2>1. Under(peer, <<>>) = peer /\ <<>> \in Paths
    BY <1>2, UnderNothing DEF Paths
  <2>2. QED BY <1>3, <2>1
<1>7. \A path \in D : T[path].real
  BY <1>2, <1>3, <1>5, TreeFarUp
<1>8. ASSUME NEW path \in D, NEW i \in 1 .. T[path].subs PROVE Append(path, i) \in D
  <2>1. path \in Paths /\ Under(peer, path) \in DOMAIN P /\ i \in 1 .. P[Under(peer, path)].subs
    BY <1>3, <1>5
  <2>2. i \in Nat
    BY <1>2, <2>1 DEF PortRecords
  <2>3. Sub(Under(peer, path), i) \in DOMAIN P
    BY <2>1 DEF PortsTyped
  <2>4. Under(peer, Append(path, i)) = Sub(Under(peer, path), i) /\ Append(path, i) \in Paths
    BY <1>2, <2>1, <2>2, UnderFacts, PathFacts
  <2>5. QED BY <1>3, <2>3, <2>4
<1>9. ASSUME NEW path \in D, path # <<>>
      PROVE  Front(path) \in D /\ Last(path) \in 1 .. T[Front(path)].subs
  <2>1. path \in Paths /\ Under(peer, path) \in DOMAIN P
    BY <1>3
  <2>2. PICK up, i : up = Front(path) /\ i = Last(path)
    OBVIOUS
  <2>3. path = Append(up, i) /\ up \in Paths /\ i \in Nat
    BY <1>9, <2>1, <2>2, PathEnds
  <2>4. Under(peer, path) = Sub(Under(peer, up), i) /\ Under(peer, up) \in Addresses
    BY <1>2, <2>3, UnderFacts, UnderIsBelow
  <2>5. Under(peer, up) \in DOMAIN P /\ i \in 1 .. P[Under(peer, up)].subs
    BY <2>1, <2>3, <2>4, TreeUp
  <2>6. up \in D /\ i \in 1 .. T[up].subs
    BY <1>3, <1>5, <2>3, <2>5
  <2>7. QED BY <2>2, <2>6
<1>10. \E n \in Nat : \A path \in D : Len(path) <= n
  <2>1. PICK n \in Nat : \A q \in DOMAIN P : Len(q[2]) <= n
    BY DEF PortsTyped, Bounded
  <2>2. ASSUME NEW path \in D PROVE Len(path) <= n
    <3>1. path \in Paths /\ Under(peer, path) \in DOMAIN P /\ peer[2] \in Paths
      BY <1>2, <1>3 DEF Addresses
    <3>2. Under(peer, path)[2] = peer[2] \o path
      BY DEF Under
    <3>3. Len(peer[2] \o path) = Len(peer[2]) + Len(path) /\ Len(peer[2]) \in Nat /\ Len(path) \in Nat
      BY <3>1, ConcatProperties DEF Paths
    <3>4. Len(peer[2] \o path) <= n
      BY <2>1, <3>1, <3>2
    <3>5. QED BY <3>3, <3>4
  <2>3. QED BY <2>2
<1>11. T \in [D -> PortRecords]
  BY <1>4, <1>5
<1>12. D \subseteq Paths
  BY <1>3
<1>13. PathTree(T)
  BY <1>4, <1>6, <1>7, <1>8, <1>9, <1>10, <1>11, <1>12 DEF PathTree
<1>14. QED BY <1>1, <1>13

\* Ports that only learn of directions.
LEMMA ToldOK ==
    ASSUME NEW entities, NEW b, BuildOK(b, entities), NEW Q, NEW c, c = [b EXCEPT !.ports = Q],
           Q = [q \in DOMAIN b.ports |-> Q[q]],
           \A q \in DOMAIN b.ports : /\ Q[q] \in PortRecords /\ Q[q].subs = b.ports[q].subs
                                     /\ Q[q].real = b.ports[q].real
                                     /\ q[1] # 0 => Q[q] = b.ports[q]
    PROVE  BuildOK(c, entities) /\ SameParts(b, c) /\ c.ports = Q
<1>1. PICK P : P = b.ports
  OBVIOUS
<1>2. /\ PortsTyped(P) /\ PortsTree(P) /\ DOMAIN Q = DOMAIN P
      /\ \A q \in DOMAIN P : /\ Q[q] \in PortRecords /\ Q[q].subs = P[q].subs /\ Q[q].real = P[q].real
                             /\ q[1] # 0 => Q[q] = P[q]
      /\ Q = [q \in DOMAIN P |-> Q[q]]
  BY <1>1 DEF BuildOK, PortsOK
<1>3. c = [stateless |-> b.stateless, parts |-> b.parts, builderOf |-> b.builderOf,
           partial |-> b.partial, ports |-> Q, net |-> b.net, children |-> b.children, parents |-> b.parents]
  <2>1. b = [stateless |-> b.stateless, parts |-> b.parts, builderOf |-> b.builderOf,
                partial |-> b.partial, ports |-> b.ports, net |-> b.net,
                children |-> b.children, parents |-> b.parents]
    BY BuildIs DEF BuildOK
  <2>2. c = [b EXCEPT !.ports = Q]
    OBVIOUS
  <2>3. QED BY ONLY <2>1, <2>2
<1>4. PortsTyped(Q)
  BY <1>2 DEF PortsTyped, Bounded
<1>5. PortsTree(Q)
  BY <1>2 DEF PortsTree
<1>6. Known(Q) = Known(P)
  BY <1>2 DEF Known
<1>7. \A q \in DOMAIN Q : q[1] \in 0 .. Len(b.parts)
  BY <1>1, <1>2 DEF BuildOK, PortsOK
<1>8. b.net \in [Known(Q) -> Known(Q)] /\ Related(b.net, b.children, b.parents)
  BY <1>1, <1>6 DEF BuildOK, NetsOK
<1>9. QED BY <1>3, <1>4, <1>5, <1>7, <1>8, BuildOKIs

\* A port that is realized is known afterwards, and so is what was known before.
LEMMA RealizedOK ==
    ASSUME NEW entities, NEW b, BuildOK(b, entities), NEW p \in DOMAIN b.ports, NEW peer \in DOMAIN b.ports,
           CanJoin(b.ports, p), b.ports[p].real \/ b.ports[peer].real
    PROVE  /\ BuildOK(Realized(b, p, peer), entities) /\ SameParts(b, Realized(b, p, peer))
           /\ {p} \cup Known(b.ports) \subseteq Known(Realized(b, p, peer).ports)
           /\ b.ports[p].real => Realized(b, p, peer) = b
<1>1. CASE b.ports[p].real
  <2>1. Realized(b, p, peer) = b
    BY <1>1 DEF Realized
  <2>2. QED BY <1>1, <2>1 DEF SameParts, Known
<1>2. CASE ~b.ports[p].real
  <2>1. PICK P, T, dir, c, Q :
            /\ P = b.ports /\ T = CopyOf(b.ports, peer, b.ports[p].name) /\ dir = b.ports[peer].dir
            /\ c = WithPorts(b, p, T)
            /\ Q = [q \in DOMAIN c.ports |-> IF q[1] = 0 /\ q # p /\ IsPrefix(q[2], p[2])
                                             THEN [c.ports[q] EXCEPT !.dir = c.ports[q].dir \cup dir]
                                             ELSE c.ports[q]]
    OBVIOUS
  <2>2. /\ PortsTyped(P) /\ PortsTree(P) /\ p \in Addresses /\ p[1] \in 0 .. Len(b.parts)
        /\ P[p] \in PortRecords /\ P[peer] \in PortRecords /\ P[peer].real /\ P[p].subs = 0
    BY <1>2, <2>1 DEF BuildOK, PortsOK, PortsTyped, CanJoin
  <2>3. PathTree(T)
    BY <2>1, <2>2, CopyTree DEF PortRecords
  <2>20. p[1] = 0
    BY <1>2, <2>1 DEF BuildOK, PortsOK, PortsTyped
  <2>4. Free(P, p)
    <3>1. \A path \in Paths : path # <<>> => Under(p, path) \notin DOMAIN P
      BY <2>2, TreeFarUp
    <3>2. QED BY <1>2, <2>1, <3>1 DEF Free
  <2>5. BuildOK(c, entities) /\ SameParts(b, c) /\ c.ports = Grafted(P, p, T)
    BY <2>1, <2>2, <2>3, <2>4, <2>20, WithPortsOK
  <2>6. Known(c.ports) = Copies(p, T) \cup Known(P)
    BY <2>2, <2>3, <2>4, <2>5, <2>20, GraftOK
  <2>7. p \in Copies(p, T)
    <3>1. <<>> \in DOMAIN T /\ Under(p, <<>>) = p
      BY <2>2, <2>3, UnderNothing DEF PathTree
    <3>2. QED BY <3>1 DEF Copies
  <2>8. PICK d : d = [c EXCEPT !.ports = Q]
    OBVIOUS
  <2>9. \A q \in DOMAIN c.ports : /\ Q[q] \in PortRecords /\ Q[q].subs = c.ports[q].subs
                                  /\ Q[q].real = c.ports[q].real
                                  /\ q[1] # 0 => Q[q] = c.ports[q]
    <3>1. ASSUME NEW q \in DOMAIN c.ports
          PROVE  Q[q] \in PortRecords /\ Q[q].subs = c.ports[q].subs /\ Q[q].real = c.ports[q].real
      <4>1. PICK r, e, s : r = c.ports[q] /\ e = r.dir \cup dir /\ s = [r EXCEPT !.dir = e]
        OBVIOUS
      <4>2. r \in PortRecords /\ dir \subseteq {"in", "out"}
        BY <2>1, <2>2, <2>5, <4>1 DEF BuildOK, PortsOK, PortsTyped, PortRecords
      <4>3. e \in SUBSET {"in", "out"}
        BY <4>1, <4>2 DEF PortRecords
      <4>4. s \in PortRecords /\ s.subs = r.subs /\ s.real = r.real
        BY ONLY <4>1, <4>2, <4>3 DEF PortRecords
      <4>5. Q[q] = s \/ Q[q] = r
        BY <2>1, <4>1
      <4>6. QED BY <4>1, <4>2, <4>4, <4>5
    <3>2. \A q \in DOMAIN c.ports : q[1] # 0 => Q[q] = c.ports[q]
      BY <2>1
    <3>3. QED BY <3>1, <3>2
  <2>10. Q = [q \in DOMAIN c.ports |-> Q[q]]
    BY <2>1
  <2>11. BuildOK(d, entities) /\ SameParts(c, d) /\ d.ports = Q
    BY ONLY <2>5, <2>8, <2>9, <2>10, ToldOK
  <2>12. Known(Q) = Known(c.ports)
    BY <2>9, <2>10 DEF Known
  <2>13. Realized(b, p, peer) = d
    BY <1>2, <2>1, <2>8 DEF Realized, CopyOf
  <2>14. QED BY <1>2, <2>1, <2>5, <2>6, <2>7, <2>11, <2>12, <2>13 DEF SameParts
<1>3. QED BY <1>1, <1>2

-----------------------------------------------------------------------------
(* Connections that are joined.                                              *)

\* The connection that is left of two.
LeftOf(c, survivor, victim) == IF c = victim THEN survivor ELSE c

\* A connection that absorbs another takes its place among its relatives.
LEMMA RelatedJoin ==
    ASSUME NEW net, NEW children, NEW parents, Related(net, children, parents),
           NEW survivor, NEW victim, NEW N, N = [p \in DOMAIN net |-> LeftOf(net[p], survivor, victim)],
           NEW C, \A x : x \in C <=> \E e \in children : x = <<LeftOf(e[1], survivor, victim), LeftOf(e[2], survivor, victim)>>,
           NEW F, \A x : x \in F <=> \E e \in parents : x = <<LeftOf(e[1], survivor, victim), LeftOf(e[2], survivor, victim)>>
    PROVE  Related(N, C, F)
<1> DEFINE Now(c) == LeftOf(c, survivor, victim)
<1>1. /\ C = {<<Now(e[1]), Now(e[2])>> : e \in children}
      /\ F = {<<Now(e[1]), Now(e[2])>> : e \in parents}
  OBVIOUS
<1>2. parents = {<<e[2], e[1]>> : e \in children} /\ children \subseteq Range(net) \X Range(net)
  BY DEF Related
<1>3. \A c \in Range(net) : Now(c) \in Range(N)
  BY DEF Range
<1>4. C \subseteq Range(N) \X Range(N)
  <2>1. ASSUME NEW e \in children PROVE <<Now(e[1]), Now(e[2])>> \in Range(N) \X Range(N)
    <3>1. e[1] \in Range(net) /\ e[2] \in Range(net)
      BY <1>2
    <3>2. QED BY <1>3, <3>1
  <2>2. QED BY <1>1, <2>1
<1>5. F = {<<e[2], e[1]>> : e \in C}
  <2>1. PICK R : R = {<<e[2], e[1]>> : e \in C}
    OBVIOUS
  <2>2. ASSUME NEW x \in F PROVE x \in R
    <3>1. PICK e \in children : x = <<Now(<<e[2], e[1]>>[1]), Now(<<e[2], e[1]>>[2])>>
      BY <1>1, <1>2
    <3>2. x = <<Now(e[2]), Now(e[1])>>
      BY <3>1
    <3>3. PICK y \in C : y = <<Now(e[1]), Now(e[2])>>
      BY <1>1
    <3>4. <<y[2], y[1]>> = x
      BY <3>2, <3>3
    <3>5. QED BY <2>1, <3>4
  <2>3. ASSUME NEW x \in R PROVE x \in F
    <3>1. PICK y \in C : x = <<y[2], y[1]>>
      BY <2>1
    <3>2. PICK e \in children : y = <<Now(e[1]), Now(e[2])>>
      BY <1>1
    <3>3. PICK f \in parents : f = <<e[2], e[1]>>
      BY <1>2
    <3>4. x = <<Now(f[1]), Now(f[2])>>
      BY <3>1, <3>2, <3>3
    <3>5. QED BY <1>1, <3>4
  <2>4. QED BY <2>1, <2>2, <2>3
<1>6. QED BY <1>1, <1>4, <1>5 DEF Related

\* A connection that absorbs another leaves a sound build.
LEMMA JoinedOK ==
    ASSUME NEW entities, NEW b, BuildOK(b, entities), NEW survivor \in Known(b.ports), NEW victim
    PROVE  /\ BuildOK(Joined(b, survivor, victim), entities) /\ SameParts(b, Joined(b, survivor, victim))
           /\ Joined(b, survivor, victim).ports = b.ports
<1> DEFINE Now(c) == LeftOf(c, survivor, victim)
<1>1. PICK c, N, C, F : /\ c = Joined(b, survivor, victim)
                        /\ N = [p \in DOMAIN b.net |-> Now(b.net[p])]
                        /\ C = {<<Now(e[1]), Now(e[2])>> : e \in b.children}
                        /\ F = {<<Now(e[1]), Now(e[2])>> : e \in b.parents}
  OBVIOUS
<1>2. c = [stateless |-> b.stateless, parts |-> b.parts, builderOf |-> b.builderOf,
           partial |-> b.partial, ports |-> b.ports, net |-> N, children |-> C, parents |-> F]
  <2>1. b = [stateless |-> b.stateless, parts |-> b.parts, builderOf |-> b.builderOf,
                partial |-> b.partial, ports |-> b.ports, net |-> b.net,
                children |-> b.children, parents |-> b.parents]
    BY BuildIs DEF BuildOK
  <2>2. c = [b EXCEPT !.net = N, !.children = C, !.parents = F]
    BY <1>1 DEF Joined, LeftOf
  <2>3. QED BY ONLY <2>1, <2>2
<1>3. b.net \in [Known(b.ports) -> Known(b.ports)] /\ Related(b.net, b.children, b.parents)
  BY DEF BuildOK, NetsOK
<1>4. N \in [Known(b.ports) -> Known(b.ports)]
  BY <1>1, <1>3 DEF LeftOf
<1>5. Related(N, C, F)
  <2>1. PICK net, E, G : net = b.net /\ E = b.children /\ G = b.parents
    OBVIOUS
  <2>2. Related(net, E, G)
    BY <1>3, <2>1
  <2>3. N = [p \in DOMAIN net |-> LeftOf(net[p], survivor, victim)]
    BY <1>1, <2>1
  <2>4. /\ \A x : x \in C <=> \E e \in E : x = <<LeftOf(e[1], survivor, victim), LeftOf(e[2], survivor, victim)>>
        /\ \A x : x \in F <=> \E e \in G : x = <<LeftOf(e[1], survivor, victim), LeftOf(e[2], survivor, victim)>>
    BY <1>1, <2>1
  <2>5. QED BY ONLY <2>2, <2>3, <2>4, RelatedJoin
<1>6. PortsTyped(b.ports) /\ PortsTree(b.ports) /\ \A p \in DOMAIN b.ports : p[1] \in 0 .. Len(b.parts)
  BY DEF BuildOK, PortsOK
<1>7. BuildOK(c, entities) /\ SameParts(b, c)
  BY ONLY <1>2, <1>4, <1>5, <1>6, BuildOK(b, entities), BuildOKIs
<1>8. QED BY <1>1, <1>2, <1>7

\* Joining one pair after the other.
LEMMA JoinedAllKeeps ==
    ASSUME NEW D, NEW b \in D, NEW X, \A c \in D, x \in X : Joined(c, c.net[x[2]], c.net[x[1]]) \in D,
           NEW joins, joins \in Seq(X)
    PROVE  JoinedAll(b, joins) \in D
<1>1. PICK n \in Nat : n = Len(joins) /\ DOMAIN joins = 1 .. n /\ \A i \in 1 .. n : joins[i] \in X
  OBVIOUS
<1> DEFINE Then1(c, i) == Joined(c, c.net[joins[i][2]], c.net[joins[i][1]])
           Step == [a \in D \X (1 .. n) |-> Then1(a[1], a[2])]
           Code(f) == [T \in SUBSET (1 .. n) |-> IF T = {} THEN b
                         ELSE Then1(f[T \ {Max(T)}], Max(T))]
<1>2. Step \in [D \X (1 .. n) -> D]
  BY <1>1
<1>3. PICK it \in [SUBSET (1 .. n) -> D] : IsLeftFold(it, n, b, Step)
  <2> HIDE DEF Step
  <2>1. \E f \in [SUBSET (1 .. n) -> D] : IsLeftFold(f, n, b, Step)
    BY ONLY <1>2, n \in Nat, b \in D, LeftFoldExists
  <2>2. QED BY <2>1
<1>4. it = Code(it)
  <2>1. ASSUME NEW T \in SUBSET (1 .. n)
        PROVE  it[T] = IF T = {} THEN b ELSE Then1(it[T \ {Greatest(T)}], Greatest(T))
    <3>1. it[T] = IF T = {} THEN b ELSE Step[<<it[T \ {Greatest(T)}], Greatest(T)>>]
      <4> HIDE DEF Step
      <4> QED BY <1>3 DEF IsLeftFold
    <3>2. ASSUME T # {}
          PROVE  Step[<<it[T \ {Greatest(T)}], Greatest(T)>>] = Then1(it[T \ {Greatest(T)}], Greatest(T))
      <4>1. PICK c \in D, i \in 1 .. n : c = it[T \ {Greatest(T)}] /\ i = Greatest(T)
        <5> HIDE DEF Step
        <5>1. Greatest(T) \in 1 .. n /\ T \ {Greatest(T)} \in SUBSET (1 .. n)
          BY <3>2, GreatestFacts
        <5>2. QED BY <1>3, <5>1
      <4> HIDE DEF Then1
      <4>2. Step[<<c, i>>] = Then1(c, i)
        OBVIOUS
      <4>3. QED BY ONLY <4>1, <4>2
    <3> HIDE DEF Step
    <3>3. QED BY <3>1, <3>2
  <2>2. it = [T \in SUBSET (1 .. n) |-> it[T]]
    <3> HIDE DEF Step
    <3> QED BY <1>3
  <2> HIDE DEF Step
  <2>3. it = [T \in SUBSET (1 .. n) |-> IF T = {} THEN b ELSE Then1(it[T \ {Greatest(T)}], Greatest(T))]
    <3> HIDE DEF Then1
    <3> QED BY ONLY <2>1, <2>2
  <2>4. QED BY ONLY <2>3 DEF Greatest, Max
<1>5. PICK iter : JoinedAll(b, joins) = iter[1 .. n] /\ iter = Code(iter)
  <2>1. JoinedAll(b, joins) = (CHOOSE f : f = Code(f))[1 .. n]
    BY <1>1 DEF JoinedAll, FoldLeft, MapThenFoldSet
  <2> HIDE DEF Code
  <2>2. (CHOOSE f : f = Code(f)) = Code(CHOOSE f : f = Code(f))
    BY <1>4
  <2>3. QED BY <2>1, <2>2
<1>6. ASSUME NEW T \in SUBSET (1 .. n)
      PROVE  iter[T] = IF T = {} THEN b ELSE Then1(iter[T \ {Greatest(T)}], Greatest(T))
  <2> HIDE DEF Then1
  <2> QED BY <1>5 DEF Greatest, Max
<1>7. \A c \in D, i \in 1 .. n : Then1(c, i) \in D
  BY <1>1
<1> HIDE DEF Code, Step, Then1
<1> DEFINE Wrong == {k \in 0 .. n : iter[1 .. k] \notin D}
<1>8. ASSUME NEW k \in Wrong PROVE \E m \in Wrong : m < k
  <2>1. k \in 0 .. n /\ iter[1 .. k] \notin D
    BY <1>8
  <2>2. k # 0
    <3> SUFFICES ASSUME k = 0 PROVE FALSE
      OBVIOUS
    <3>1. 1 .. k = {}
      OBVIOUS
    <3>2. QED BY <1>6, <2>1, <3>1
  <2>3. k \in 1 .. n /\ k - 1 \in 0 .. n /\ k - 1 < k
    BY <2>1, <2>2
  <2>4. iter[1 .. k] = Then1(iter[1 .. k - 1], k)
    <3>1. 1 .. k \in SUBSET (1 .. n) /\ 1 .. k # {} /\ Greatest(1 .. k) = k
          /\ (1 .. k) \ {Greatest(1 .. k)} = 1 .. k - 1
      BY ONLY <1>1, <2>3, FirstPositions
    <3>2. PICK T, U : T = 1 .. k /\ U = 1 .. k - 1
      OBVIOUS
    <3>3. iter[T] = Then1(iter[T \ {Greatest(T)}], Greatest(T))
      BY ONLY <1>6, <3>1, <3>2
    <3>4. QED BY ONLY <3>1, <3>2, <3>3
  <2>5. iter[1 .. k - 1] \notin D
    BY <1>7, <2>1, <2>3, <2>4
  <2>6. k - 1 \in Wrong
    BY <2>3, <2>5
  <2> HIDE DEF Wrong
  <2>7. QED BY <2>3, <2>6
<1>9. Wrong = {}
  <2>1. Wrong \in SUBSET Nat
    BY <1>1
  <2> HIDE DEF Wrong
  <2>2. QED BY <1>8, <2>1, Descent
<1>10. n \in 0 .. n
  BY <1>1
<1>11. QED BY <1>5, <1>9, <1>10

\* Joining the connections of known ports leaves a sound build.
LEMMA JoinedAllOK ==
    ASSUME NEW entities, NEW b, BuildOK(b, entities),
           NEW joins, joins \in Seq(Known(b.ports) \X Known(b.ports))
    PROVE  /\ BuildOK(JoinedAll(b, joins), entities) /\ SameParts(b, JoinedAll(b, joins))
           /\ JoinedAll(b, joins).ports = b.ports
<1> DEFINE D == {c \in Builds(entities) : BuildOK(c, entities) /\ SameParts(b, c) /\ c.ports = b.ports}
           X == Known(b.ports) \X Known(b.ports)
<1>1. b \in D
  BY DEF BuildOK, SameParts
<1>2. ASSUME NEW c \in D, NEW x \in X PROVE Joined(c, c.net[x[2]], c.net[x[1]]) \in D
  <2>1. PICK survivor, victim : survivor \in Known(c.ports) /\ survivor = c.net[x[2]] /\ victim = c.net[x[1]]
    BY DEF BuildOK, NetsOK
  <2>2. PICK d : d = Joined(c, survivor, victim)
    OBVIOUS
  <2>3. BuildOK(d, entities) /\ SameParts(c, d) /\ d.ports = c.ports
    BY <2>1, <2>2, JoinedOK
  <2>4. QED BY <2>1, <2>2, <2>3 DEF BuildOK, SameParts
<1> HIDE DEF D
<1>3. JoinedAll(b, joins) \in D
  BY <1>1, <1>2, JoinedAllKeeps
<1>4. QED BY <1>3 DEF D

-----------------------------------------------------------------------------
(* Connecting.                                                               *)

\* Once the ports are enclosed that the search encloses, the two can be connected.
LEMMA PairMade ==
    ASSUME NEW entities, NEW b, BuildOK(b, entities),
           NEW l \in Addresses, NEW r \in Addresses, ~(l[1] = 0 /\ r[1] = 0),
           NEW made, made \in SUBSET (Unreal(b.ports) \X PortNames), IsFiniteSet(made),
           CanPair(b.ports, l, r, made), NEW m, m = Made(b, made)
    PROVE  /\ BuildOK(m, entities) /\ SameParts(b, m)
           /\ CanJoin(m.ports, l) /\ CanJoin(m.ports, r)
           /\ m.ports[l].real \/ m.ports[r].real
<1>1. BuildOK(m, entities) /\ SameParts(b, m)
  BY MadeOK
<1>2. \A p \in DOMAIN m.ports : p[1] # 0 => m.ports[p].real
  BY <1>1 DEF BuildOK, PortsOK, PortsTyped
<1>3. CASE made = {} /\ CanJoin(b.ports, l) /\ CanJoin(b.ports, r)
  <2>1. m = b
    BY <1>3, MadeOK
  <2>2. QED BY <1>1, <1>2, <1>3, <2>1 DEF CanJoin
<1>4. ASSUME NEW p \in Unreal(b.ports), NEW name \in PortNames, made = {<<p, name>>},
             \/ l = NextSub(b.ports, p) /\ r \in DOMAIN b.ports /\ b.ports[r].real
             \/ r = NextSub(b.ports, p) /\ l \in DOMAIN b.ports /\ b.ports[l].real
      PROVE  CanJoin(m.ports, l) /\ CanJoin(m.ports, r) /\ (m.ports[l].real \/ m.ports[r].real)
  <2>1. PICK e : e = <<p, name>>
    OBVIOUS
  <2>2. m = EncloseNew(b, p, name)
    <3>1. Made(b, made) = EncloseNew(b, e[1], e[2])
      BY <1>4, <2>1, MadeOK
    <3>2. QED BY <2>1, <3>1
  <2>3. PICK P, Q, new : P = b.ports /\ Q = m.ports /\ new = NextSub(P, p)
    OBVIOUS
  <2>4. Grown(P, p, name, Q)
    BY <2>2, <2>3, EncloseNewOK
  <2>5. new \in DOMAIN Q /\ Q[new].subs = 0
    BY <2>3, <2>4 DEF Grown, Port
  <2>6. \A q \in DOMAIN P : q \in DOMAIN Q /\ Q[q].real = P[q].real
    BY <2>4 DEF Grown
  <2>7. QED BY <1>4, <2>3, <2>5, <2>6 DEF CanJoin
<1>5. QED BY <1>1, <1>3, <1>4 DEF CanPair

\* Both ports get the interface of the other unless they have one.
LEMMA BothRealized ==
    ASSUME NEW entities, NEW b, BuildOK(b, entities), NEW l, NEW r,
           CanJoin(b.ports, l), CanJoin(b.ports, r), b.ports[l].real \/ b.ports[r].real,
           NEW c, c = Realized(Realized(b, l, r), r, l)
    PROVE  BuildOK(c, entities) /\ SameParts(b, c) /\ l \in Known(c.ports) /\ r \in Known(c.ports)
<1>1. l \in DOMAIN b.ports /\ r \in DOMAIN b.ports
  BY DEF CanJoin
<1>2. PICK d : d = Realized(b, l, r)
  OBVIOUS
<1>3. /\ BuildOK(d, entities) /\ SameParts(b, d) /\ {l} \cup Known(b.ports) \subseteq Known(d.ports)
      /\ b.ports[l].real => d = b
  BY <1>1, <1>2, RealizedOK
<1>4. l \in DOMAIN d.ports /\ d.ports[l].real
  BY <1>3 DEF Known
<1>5. r \in DOMAIN d.ports /\ CanJoin(d.ports, r)
  <2>1. CASE b.ports[r].real
    BY <1>1, <1>3, <2>1 DEF Known, CanJoin
  <2>2. CASE ~b.ports[r].real
    BY <1>1, <1>3, <2>2
  <2>3. QED BY <2>1, <2>2
<1>6. /\ BuildOK(c, entities) /\ SameParts(d, c) /\ {r} \cup Known(d.ports) \subseteq Known(c.ports)
  BY <1>2, <1>3, <1>4, <1>5, RealizedOK
<1>7. QED BY <1>3, <1>4, <1>6 DEF SameParts, Known

\* What became of a structure when a connection was asked for: what is left is sound,
\* its elements are where they were and kept together; the ports of a connection
\* that was made belong to one builder.
OutcomeSound(b, entities, o) ==
    /\ BuildOK(o.build, entities) /\ Together(b, o.build) /\ o.build.parts = b.parts
    /\ o.result = "ok" => \E l, r \in Addresses :
            /\ o.pair = <<l, r>>
            /\ l[1] \in 0 .. Len(b.parts) /\ r[1] \in 0 .. Len(b.parts)
            /\ Owner(o.build, l[1]) = Owner(o.build, r[1])

\* A connection that is refused changes ports at most.
LEMMA UnchangedSound ==
    ASSUME NEW entities, NEW b, NEW c, BuildOK(b, entities), BuildOK(c, entities), SameParts(b, c),
           NEW result, result # "ok", NEW pair
    PROVE  OutcomeSound(b, entities, Outcome(c, result, pair))
<1>1. Together(b, c)
  BY SamePartsTogether
<1>2. QED BY <1>1 DEF OutcomeSound, Outcome, SameParts

\* Connecting two ports that fit leaves a sound build with the two under one builder.
LEMMA ConnectedPairOK ==
    ASSUME NEW entities, NEW b, BuildOK(b, entities), NEW l, NEW r,
           CanJoin(b.ports, l), CanJoin(b.ports, r), b.ports[l].real \/ b.ports[r].real
    PROVE  OutcomeSound(b, entities, ConnectedPair(b, l, r))
<1>1. PICK c, d, joins, top : /\ c = Combined(b, l, r) /\ d = Realized(Realized(c, l, r), r, l)
                              /\ joins = Joins(d.ports, <<l, r>>) /\ top = <<0, <<>>>>
  OBVIOUS
<1>2. SameParts(b, b)
  BY DEF SameParts
<1>3. CASE ~MayCombine(b, l, r)
  <2>1. ConnectedPair(b, l, r) = Outcome(b, "refused", <<>>)
    BY <1>3 DEF ConnectedPair
  <2>2. QED BY <1>2, <2>1, UnchangedSound
<1>4. CASE MayCombine(b, l, r) /\ ((top \in {l, r} /\ ~b.ports[top].real) \/ <<>> \in ToSet(joins))
  <2>1. ConnectedPair(b, l, r) = Outcome(b, "ended", <<>>)
    BY <1>1, <1>4 DEF ConnectedPair
  <2>2. QED BY <1>2, <2>1, UnchangedSound
<1>5. CASE MayCombine(b, l, r) /\ <<>> \notin ToSet(joins)
           /\ ConnectedPair(b, l, r) = Outcome(JoinedAll(d, joins), "ok", <<l, r>>)
  <2>1. l \in DOMAIN b.ports /\ r \in DOMAIN b.ports /\ l \in Addresses /\ r \in Addresses
        /\ l[1] \in 0 .. Len(b.parts) /\ r[1] \in 0 .. Len(b.parts)
    BY DEF CanJoin, BuildOK, PortsOK, PortsTyped
  <2>2. /\ BuildOK(c, entities) /\ c.ports = b.ports /\ Together(b, c) /\ c.parts = b.parts
        /\ Owner(c, l[1]) = Owner(c, r[1])
    BY <1>1, <1>5, <2>1, CombinedOK
  <2>3. BuildOK(d, entities) /\ SameParts(c, d) /\ l \in Known(d.ports) /\ r \in Known(d.ports)
    BY <1>1, <2>2, BothRealized
  <2>4. joins \in Seq(Pairs(Known(d.ports)))
    BY <1>1, <2>3, JoinsTyped DEF BuildOK, PortsOK
  <2>5. joins \in Seq(Known(d.ports) \X Known(d.ports))
    <3>1. \A i \in 1 .. Len(joins) : joins[i] \in Pairs(Known(d.ports)) /\ joins[i] # <<>>
      BY <1>5, <2>4 DEF ToSet
    <3>2. \A i \in 1 .. Len(joins) : joins[i] \in Known(d.ports) \X Known(d.ports)
      BY <3>1 DEF Pairs
    <3>3. QED BY <2>4, <3>2
  <2>6. PICK e : e = JoinedAll(d, joins)
    OBVIOUS
  <2>7. BuildOK(e, entities) /\ SameParts(d, e)
    BY <2>3, <2>5, <2>6, JoinedAllOK
  <2>8. e.parts = c.parts /\ e.builderOf = c.builderOf
    BY <2>3, <2>7 DEF SameParts
  <2>9. Together(b, e)
    BY <2>2, <2>8 DEF Together, Owner
  <2>10. Owner(e, l[1]) = Owner(e, r[1])
    BY <2>2, <2>8 DEF Owner
  <2>11. PICK o : o = Outcome(e, "ok", <<l, r>>)
    OBVIOUS
  <2>12. o.build = e /\ o.pair = <<l, r>>
    BY <2>11 DEF Outcome
  <2>13. OutcomeSound(b, entities, o)
    BY <2>1, <2>2, <2>7, <2>8, <2>9, <2>10, <2>12 DEF OutcomeSound
  <2>14. QED BY <1>5, <2>6, <2>11, <2>13
<1>6. QED BY <1>1, <1>3, <1>4, <1>5 DEF ConnectedPair

\* A request to connect two ports leaves a sound structure, whatever comes of it.
LEMMA ConnectedOK ==
    ASSUME NEW entities, NEW b, BuildOK(b, entities), NEW from \in DOMAIN b.ports, NEW to \in DOMAIN b.ports,
           ~(from[1] = 0 /\ to[1] = 0), NEW directional \in BOOLEAN
    PROVE  OutcomeSound(b, entities, Connected(b, from, to, directional))
<1>1. PICK meant : meant = Meant(b.ports, from, to, directional)
  OBVIOUS
<1>2. OutcomeOK(b.ports, from, to, meant)
  BY <1>1, MeantOK DEF BuildOK, PortsOK
<1>3. /\ meant.tag \in Tags /\ IsFiniteSet(meant.made)
      /\ meant.made \in SUBSET (Unreal(b.ports) \X PortNames)
  BY <1>2 DEF OutcomeOK, OutcomeTyped, Outcomes
<1>4. PICK m : m = Made(b, meant.made)
  OBVIOUS
<1>5. BuildOK(m, entities) /\ SameParts(b, m)
  BY <1>3, <1>4, MadeOK
<1>6. SameParts(b, b)
  BY DEF SameParts
<1>7. CASE meant.tag \in {"none", "incompatible", "multiple"}
  <2>1. Concluded(b, meant) = Outcome(m, "refused", <<>>)
    BY <1>4, <1>7 DEF Concluded
  <2>2. QED BY <1>1, <1>5, <2>1, UnchangedSound DEF Connected
<1>8. CASE meant.tag = "exists"
  <2>1. Concluded(b, meant) = Outcome(m, "unexpected", <<>>)
    BY <1>4, <1>8 DEF Concluded
  <2>2. QED BY <1>1, <1>5, <2>1, UnchangedSound DEF Connected
<1>9. CASE meant.tag = "undefined"
  <2>1. Concluded(b, meant) = Outcome(b, "ended", <<>>)
    BY <1>9 DEF Concluded
  <2>2. QED BY <1>1, <1>6, <2>1, UnchangedSound DEF Connected
<1>10. CASE meant.tag = "found"
  <2>1. PICK l \in Addresses, r \in Addresses :
            /\ meant.pair = <<l, r>> /\ l[1] = from[1] /\ r[1] = to[1]
            /\ CanPair(b.ports, l, r, meant.made)
    BY <1>2, <1>10 DEF OutcomeOK
  <2>2. CanJoin(m.ports, l) /\ CanJoin(m.ports, r) /\ (m.ports[l].real \/ m.ports[r].real)
    BY <1>3, <1>4, <2>1, PairMade
  <2>3. OutcomeSound(m, entities, ConnectedPair(m, l, r))
    BY <1>5, <2>2, ConnectedPairOK
  <2>4. Concluded(b, meant) = ConnectedPair(m, l, r)
    BY <1>4, <1>10, <2>1 DEF Concluded
  <2>5. OutcomeSound(b, entities, ConnectedPair(m, l, r))
    BY <1>5, <2>3 DEF OutcomeSound, SameParts, Together, Owner
  <2>6. QED BY <1>1, <2>4, <2>5 DEF Connected
<1>11. QED BY <1>3, <1>7, <1>8, <1>9, <1>10 DEF Tags

-----------------------------------------------------------------------------
(* The invariant.                                                            *)

\* The ports that were connected belong to elements there are, of one builder.
AskedOK ==
    \A x \in asked : \A p, q \in x :
        p[1] \in 0 .. Len(build.parts) /\ Owner(build, p[1]) = Owner(build, q[1])

\* A stateless structure that was finished has stateless parts.
ProductOK ==
    product.stateless => \A k \in DOMAIN product.parts : Entities[product.parts[k]].stateless

\* The inductive invariant.
IInv ==
    /\ phase \in {"idle", "open", "finished", "rejected", "aborted", "ended"}
    /\ plan \in Plans
    /\ BuildOK(build, Entities)
    /\ AskedOK /\ (phase = "idle" => asked = {})
    /\ ProductOK

\* What the assumption on plans says of the one that is carried out.
LEMMA PlanFacts ==
    ASSUME plan \in Plans
    PROVE  /\ Names \subseteq PortNames
           /\ plan.stateless \in BOOLEAN /\ plan.operators \subseteq BOOLEAN
           /\ \A name \in DOMAIN Entities : /\ Entities[name].stateless \in BOOLEAN
                                            /\ IsInterface(Entities[name].iface)
           /\ \A i \in DOMAIN plan.parts : plan.parts[i].name \in DOMAIN Entities
BY PlansAssumption DEF Entities, PortNames

\* The invariant holds initially.
LEMMA InitIInv == Init => IInv
<1> SUFFICES ASSUME Init PROVE IInv
  OBVIOUS
<1>1. plan \in Plans /\ phase = "idle" /\ build = EmptyBuild(FALSE) /\ asked = {} /\ product = NoProduct
  BY DEF Init, Idle
<1>2. BuildOK(build, Entities)
  <2>1. BuildOK(EmptyBuild(FALSE), Entities)
    BY EmptyBuildOK
  <2>2. QED BY <1>1, <2>1
<1>3. AskedOK /\ ProductOK
  BY <1>1 DEF AskedOK, ProductOK, NoProduct
<1>4. QED BY <1>1, <1>2, <1>3 DEF IInv

\* A step after which elements still have one builder that had one.
LEMMA AskedKept ==
    ASSUME AskedOK, BuildOK(build, Entities), BuildOK(build', Entities), Together(build, build'), asked' = asked
    PROVE  AskedOK'
<1>1. Len(build.parts) \in Nat /\ Len(build'.parts) \in Nat
  BY DEF BuildOK, Builds
<1>2. ASSUME NEW x \in asked, NEW p \in x, NEW q \in x
      PROVE  p[1] \in 0 .. Len(build'.parts) /\ Owner(build', p[1]) = Owner(build', q[1])
  <2>1. p[1] \in 0 .. Len(build.parts) /\ q[1] \in 0 .. Len(build.parts)
        /\ Owner(build, p[1]) = Owner(build, q[1])
    BY DEF AskedOK
  <2>2. QED BY <1>1, <2>1 DEF Together
<1>3. QED BY <1>2 DEF AskedOK

\* When nothing of the structure is left.
LEMMA ClosedIInv ==
    ASSUME IInv, NEW how \in {"rejected", "aborted", "ended"}, Closed(how)
    PROVE  IInv'
<1>1. phase' = how /\ build' = EmptyBuild(FALSE) /\ asked' = {} /\ plan' = plan /\ product' = product
  BY DEF Closed, Idle
<1>2. BuildOK(build', Entities')
  <2>1. BuildOK(EmptyBuild(FALSE), Entities')
    BY EmptyBuildOK
  <2>2. QED BY <1>1, <2>1
<1>3. AskedOK'
  BY <1>1 DEF AskedOK
<1>4. ProductOK'
  BY <1>1 DEF IInv, ProductOK, Entities
<1>5. QED BY <1>1, <1>2, <1>3, <1>4 DEF IInv

\* A step that leaves the plan, the requests and the product alone.
LEMMA BuildStep ==
    ASSUME IInv, BuildOK(build', Entities), Together(build, build') \/ phase = "idle",
           phase' = "open", UNCHANGED <<plan, asked, product>>
    PROVE  IInv'
<1>1. Entities' = Entities
  BY DEF Entities
<1>2. AskedOK'
  <2>1. CASE Together(build, build')
    BY <2>1, AskedKept DEF IInv
  <2>2. CASE phase = "idle"
    BY <2>2 DEF IInv, AskedOK
  <2>3. QED BY <2>1, <2>2
<1>3. ProductOK'
  BY <1>1 DEF IInv, ProductOK
<1>4. QED BY <1>1, <1>2, <1>3 DEF IInv

\* Composed leaves the parts alone.
LEMMA ComposedParts ==
    ASSUME NEW entities, NEW b, BuildOK(b, entities)
    PROVE  SameParts(b, Composed(b))
<1>1. b = [stateless |-> b.stateless, parts |-> b.parts, builderOf |-> b.builderOf,
           partial |-> b.partial, ports |-> b.ports, net |-> b.net,
           children |-> b.children, parents |-> b.parents]
  BY BuildIs DEF BuildOK
<1>2. PICK P, N, C, F : Composed(b) = [b EXCEPT !.ports = P, !.net = N, !.children = C, !.parents = F]
  BY DEF Composed
<1>3. QED BY ONLY <1>1, <1>2 DEF SameParts

\* The finished structure has the parts that belong to its builder.
LEMMA ConstructedSound ==
    ASSUME NEW entities, NEW b, BuildOK(b, entities), NEW s, s = Constructed(Composed(b)), s.stateless,
           NEW k \in DOMAIN s.parts
    PROVE  entities[s.parts[k]].stateless
<1>1. PICK c : c = Composed(b) /\ SameParts(b, c)
  BY ComposedParts
<1>2. s.stateless = c.stateless /\ s.parts = [j \in Elements(c) \ {0} |-> c.parts[j]]
  BY <1>1 DEF Constructed
<1>3. k \in Elements(c) \ {0} /\ s.parts[k] = c.parts[k]
  BY <1>2
<1>4. k \in DOMAIN b.parts /\ b.builderOf[k] = 0
  BY <1>1, <1>3 DEF Elements, SameParts
<1>5. k \in 1 .. Len(b.parts)
  BY <1>4 DEF BuildOK, Builds
<1>6. entities[b.parts[k]].stateless
  BY <1>1, <1>2, <1>4, <1>5 DEF BuildOK, PartsOK, SameParts
<1>7. QED BY <1>1, <1>3, <1>6 DEF SameParts

\* Each step of the program preserves the invariant.
LEMMA NextIInv == IInv /\ [Next]_vars => IInv'
<1> SUFFICES ASSUME IInv, [Next]_vars PROVE IInv'
  OBVIOUS
<1>1. BuildOK(build, Entities) /\ plan \in Plans
  BY DEF IInv
<1>2. /\ Names \subseteq PortNames /\ plan.stateless \in BOOLEAN
      /\ \A name \in DOMAIN Entities : Entities[name].stateless \in BOOLEAN /\ IsInterface(Entities[name].iface)
      /\ \A i \in DOMAIN plan.parts : plan.parts[i].name \in DOMAIN Entities
  BY <1>1, PlanFacts
<1>3. CASE BeginNew
  <2>1. phase = "idle" /\ phase' = "open" /\ build' = NewEntity(plan.stateless) /\ UNCHANGED <<plan, asked, product>>
    BY <1>3 DEF BeginNew
  <2>2. BuildOK(build', Entities)
    BY <1>2, <2>1, NewEntityOK
  <2>3. QED BY <2>1, <2>2, BuildStep
<1>4. CASE BeginExisting
  <2>1. phase = "idle" /\ phase' = "open" /\ build' = ExistingEntity(Entities[plan.name])
        /\ plan.name \in DOMAIN Entities /\ UNCHANGED <<plan, asked, product>>
    BY <1>4 DEF BeginExisting, IsNew
  <2>2. BuildOK(build', Entities)
    BY <1>2, <2>1, ExistingEntityOK
  <2>3. QED BY <2>1, <2>2, BuildStep
<1>5. CASE Component
  <2>1. PICK name : /\ name \in DOMAIN Entities /\ MayAdd(build, Entities[name])
                    /\ build' = PartAdded(build, name, Entities[name])
    BY <1>2, <1>5 DEF Component
  <2>2. phase' = "open" /\ UNCHANGED <<plan, asked, product>>
    BY <1>5 DEF Component
  <2>3. BuildOK(build', Entities) /\ Together(build, build')
    BY <1>1, <1>2, <2>1, PartAddedOK
  <2>4. QED BY <2>2, <2>3, BuildStep
<1>6. CASE MakeComponent
  <2>1. PICK name : name \in DOMAIN Entities /\ build' = MadeAlone(build, name, Entities[name])
    BY <1>2, <1>6 DEF MakeComponent
  <2>2. phase' = "open" /\ UNCHANGED <<plan, asked, product>>
    BY <1>6 DEF MakeComponent
  <2>3. BuildOK(build', Entities) /\ Together(build, build')
    BY <1>1, <1>2, <2>1, MadeAloneOK
  <2>4. QED BY <2>2, <2>3, BuildStep
<1>7. ASSUME NEW p \in DOMAIN build.ports, NEW name \in Names, Select(p, name) PROVE IInv'
  <2>1. ~build.ports[p].real /\ build' = EncloseNew(build, p, name) /\ phase' = "open"
        /\ UNCHANGED <<plan, asked, product>>
    BY <1>7 DEF Select
  <2>2. p \in Unreal(build.ports) /\ name \in PortNames
    BY <1>2, <2>1 DEF Unreal
  <2>3. BuildOK(build', Entities) /\ SameParts(build, build')
    BY <1>1, <2>1, <2>2, EncloseNewOK
  <2>4. Together(build, build')
    BY <1>1, <2>3, SamePartsTogether
  <2>5. QED BY <2>1, <2>3, <2>4, BuildStep
<1>8. ASSUME NEW from \in DOMAIN build.ports, NEW to \in DOMAIN build.ports, NEW directional \in BOOLEAN,
             Connect(from, to, directional)
      PROVE  IInv'
  <2>1. PICK o : o = Connected(build, from, to, directional)
    OBVIOUS
  <2>2. phase = "open" /\ (Answered(o) \/ Closed("ended")) /\ ~(from[1] = 0 /\ to[1] = 0)
    BY <1>8, <2>1 DEF Connect
  <2>3. OutcomeSound(build, Entities, o)
    BY <1>1, <2>1, <2>2, ConnectedOK
  <2>4. CASE Closed("ended")
    BY <2>4, ClosedIInv
  <2>5. CASE Answered(o)
    <3>1. /\ build' = o.build /\ UNCHANGED <<phase, plan, product>> /\ Entities' = Entities
          /\ asked' = asked \cup (IF o.result = "ok" THEN {ToSet(o.pair)} ELSE {})
      BY <2>5 DEF Answered, Entities
    <3>2. BuildOK(build', Entities) /\ Together(build, build') /\ build'.parts = build.parts
      BY <2>3, <3>1 DEF OutcomeSound
    <3>3. ASSUME NEW x \in asked, NEW p \in x, NEW q \in x
          PROVE  p[1] \in 0 .. Len(build'.parts) /\ Owner(build', p[1]) = Owner(build', q[1])
      <4>1. p[1] \in 0 .. Len(build.parts) /\ q[1] \in 0 .. Len(build.parts)
            /\ Owner(build, p[1]) = Owner(build, q[1])
        BY DEF IInv, AskedOK
      <4>2. QED BY <3>2, <4>1 DEF Together
    <3>4. ASSUME o.result = "ok", NEW p \in ToSet(o.pair), NEW q \in ToSet(o.pair)
          PROVE  p[1] \in 0 .. Len(build'.parts) /\ Owner(build', p[1]) = Owner(build', q[1])
      <4>1. PICK l \in Addresses, r \in Addresses :
                /\ o.pair = <<l, r>> /\ l[1] \in 0 .. Len(build.parts) /\ r[1] \in 0 .. Len(build.parts)
                /\ Owner(build', l[1]) = Owner(build', r[1])
        BY <2>3, <3>1, <3>4 DEF OutcomeSound
      <4>2. ToSet(o.pair) = {l, r}
        <5>1. PICK s : s = <<l, r>>
          OBVIOUS
        <5>2. s \in Seq({l, r}) /\ Len(s) = 2 /\ s[1] = l /\ s[2] = r
          BY <5>1
        <5>3. DOMAIN s = 1 .. 2
          BY ONLY <5>2
        <5>4. 1 .. 2 = {1, 2}
          OBVIOUS
        <5>5. QED BY ONLY <4>1, <5>1, <5>2, <5>3, <5>4 DEF ToSet
      <4>3. QED BY <3>2, <3>4, <4>1, <4>2
    <3>5. AskedOK'
      BY <3>1, <3>3, <3>4 DEF AskedOK
    <3>6. ProductOK'
      BY <3>1 DEF IInv, ProductOK
    <3>7. QED BY <2>2, <3>1, <3>2, <3>5, <3>6 DEF IInv
  <2>6. QED BY <2>2, <2>4, <2>5
<1>9. ASSUME NEW leaving \in BOOLEAN, NEW taken \in BOOLEAN, NEW rank, Finish(leaving, rank, taken) PROVE IInv'
  <2>1. CASE \E how \in {"rejected", "aborted", "ended"} : Closed(how)
    BY <2>1, ClosedIInv
  <2>2. CASE phase' = "finished" /\ product' = Constructed(Composed(build)) /\ UNCHANGED <<plan, build, asked>>
    <3>1. Entities' = Entities
      BY <2>2 DEF Entities
    <3>2. ProductOK'
      BY <1>1, <2>2, <3>1, ConstructedSound DEF ProductOK
    <3>3. AskedOK'
      BY <2>2 DEF IInv, AskedOK
    <3>4. QED BY <1>1, <2>2, <3>1, <3>2, <3>3 DEF IInv
  <2>3. QED BY <1>9, <2>1, <2>2 DEF Finish
<1>10. CASE Abort
  BY <1>10, ClosedIInv DEF Abort
<1>11. CASE UNCHANGED vars
  <2>1. UNCHANGED <<phase, plan, build, asked, product>>
    BY <1>11 DEF vars
  <2>2. Entities' = Entities
    BY <2>1 DEF Entities
  <2>3. QED BY <1>1, <2>1, <2>2 DEF IInv, AskedOK, ProductOK
<1>12. QED BY <1>3, <1>4, <1>5, <1>6, <1>7, <1>8, <1>9, <1>10, <1>11 DEF Next

\* The invariant holds throughout.
LEMMA InvariantHolds == Spec => []IInv
BY InitIInv, NextIInv, PTL DEF Spec

-----------------------------------------------------------------------------
(* The theorems.                                                             *)

\* However a program selects and connects, ports form trees, a port below a known one
\* is known, and the known ones are those with a connection, named by one of them.
THEOREM BuildsAreTyped == Spec => []TypeOK
<1>1. IInv => TypeOK
  <2> SUFFICES ASSUME IInv PROVE TypeOK
    OBVIOUS
  <2>1. BuildOK(build, Entities) /\ plan \in Plans
        /\ phase \in {"idle", "open", "finished", "rejected", "aborted", "ended"}
    BY DEF IInv
  <2>2. /\ PortsTyped(build.ports) /\ PortsTree(build.ports)
        /\ \A p \in DOMAIN build.ports : p[1] \in 0 .. Len(build.parts)
    BY <2>1 DEF BuildOK, PortsOK
  <2>3. ASSUME NEW p \in DOMAIN build.ports
        PROVE  /\ Range(Subs(build.ports, p)) \subseteq DOMAIN build.ports
               /\ p[1] \in 0..Len(build.parts)
               /\ IsTop(p) \/ (Enclosing(p) \in DOMAIN build.ports /\
                              (build.ports[Enclosing(p)].real => build.ports[p].real))
    <3>1. \A i \in 1 .. build.ports[p].subs : Sub(p, i) \in DOMAIN build.ports
      BY <2>2 DEF PortsTyped
    <3>2. Range(Subs(build.ports, p)) \subseteq DOMAIN build.ports
      BY <3>1 DEF Range, Subs
    <3>3. QED BY <2>2, <3>2 DEF PortsTree
  <2>4. build.net \in [Known(build.ports) -> Known(build.ports)]
    BY <2>1 DEF BuildOK, NetsOK
  <2>5. DOMAIN build.net = {p \in DOMAIN build.ports : build.ports[p].real}
        /\ Live(build) \subseteq DOMAIN build.net
    BY <2>4 DEF Known, Live, Range
  <2>6. Len(build.builderOf) = Len(build.parts)
    BY <2>1 DEF BuildOK, PartsOK
  <2>7. QED BY <2>1, <2>3, <2>5, <2>6 DEF TypeOK
<1>2. QED BY <1>1, InvariantHolds, PTL

\* However connections were joined, each knows the connections of its components and
\* these know it, and both are alive.
THEOREM RelativesStayMutual == Spec => []RelativesMutual
<1>1. IInv => RelativesMutual
  <2> SUFFICES ASSUME IInv PROVE RelativesMutual
    OBVIOUS
  <2>1. Related(build.net, build.children, build.parents)
    BY DEF IInv, BuildOK, NetsOK
  <2>2. ASSUME NEW e \in build.children PROVE e[1] \in Live(build) /\ e[2] \in Live(build)
    BY <2>1 DEF Related, Live
  <2>3. QED BY <2>1, <2>2 DEF RelativesMutual, Related
<1>2. QED BY <1>1, InvariantHolds, PTL

\* Components that were connected have the same builder, whatever was connected later.
THEOREM ConnectedStayTogether == Spec => []ConnectedTogether
<1>1. IInv => ConnectedTogether
  BY DEF IInv, AskedOK, ConnectedTogether, BuilderOf, Owner
<1>2. QED BY <1>1, InvariantHolds, PTL

\* A stateless structure never gets a stateful part, and no partial builder that counts
\* as stateless has one.
THEOREM StatelessStaysSound == Spec => []StatelessSound
<1>1. IInv => StatelessSound
  <2> SUFFICES ASSUME IInv PROVE StatelessSound
    OBVIOUS
  <2>1. PartsOK(build, Entities) /\ ProductOK /\ DOMAIN build.parts = 1 .. Len(build.parts)
    BY DEF IInv, BuildOK, Builds
  <2>2. QED BY <2>1 DEF StatelessSound, PartsOK, ProductOK
<1>2. QED BY <1>1, InvariantHolds, PTL

\* A request that does not mean its two ports means the only pair below them that fits.
THEOREM MeantStaysUnambiguous == Spec => []MeantUnambiguous
<1>1. IInv => MeantUnambiguous
  <2> DEFINE Said(from, to, meant, p, l, r) ==
                /\ l \in Below(build.ports, from) /\ r \in Below(build.ports, to)
                /\ {q \in Below(build.ports, to) : Fits(build.ports, l, q, p)} = {r}
                /\ {q \in Below(build.ports, from) : Fits(build.ports, q, r, p)} = {l}
  <2> SUFFICES ASSUME IInv PROVE MeantUnambiguous
    OBVIOUS
  <2>1. ASSUME NEW from \in DOMAIN build.net, NEW to \in DOMAIN build.net, from[1] = 0 => to[1] # 0,
               NEW p, p = Predicate(from, to, TRUE),
               NEW meant, meant = Meant(build.ports, from, to, TRUE), meant.tag = "found"
        PROVE  Said(from, to, meant, p, meant.pair[1], meant.pair[2])
    <3>1. PICK P : P = build.ports
      OBVIOUS
    <3>2. PortsTyped(P) /\ PortsTree(P) /\ DOMAIN build.net = Known(P)
      BY <3>1 DEF IInv, BuildOK, PortsOK, NetsOK
    <3>3. from \in DOMAIN P /\ P[from].real /\ to \in DOMAIN P /\ P[to].real
      BY <3>2 DEF Known
    <3>4. Only(P, Below(P, from), Below(P, to), p, meant)
      BY <2>1, <3>1, <3>2, <3>3, OnlyMeant
    <3>5. PICK l \in Below(P, from), r \in Below(P, to) :
              /\ meant.pair = <<l, r>>
              /\ \A q \in Below(P, from) : Fits(P, q, r, p) <=> q = l
              /\ \A q \in Below(P, to) : Fits(P, l, q, p) <=> q = r
      BY <2>1, <3>4 DEF Only
    <3>6. meant.pair[1] = l /\ meant.pair[2] = r
      <4>1. meant.pair = <<l, r>>
        BY <3>5
      <4>2. QED BY ONLY <4>1
    <3>7. Said(from, to, meant, p, l, r)
      BY <3>1, <3>5
    <3> HIDE DEF Said
    <3>8. QED BY <3>6, <3>7
  <2>2. ASSUME NEW from \in DOMAIN build.net, NEW to \in DOMAIN build.net, from[1] = 0 => to[1] # 0,
               NEW meant \in {Meant(build.ports, from, to, TRUE)}, meant.tag = "found"
        PROVE  Said(from, to, meant, Predicate(from, to, TRUE), meant.pair[1], meant.pair[2])
    <3> HIDE DEF Said
    <3>1. QED BY <2>1, <2>2
  <2>3. QED BY <2>2 DEF MeantUnambiguous
<1>2. QED BY <1>1, InvariantHolds, PTL
=============================================================================
