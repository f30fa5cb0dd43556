---------------------------- MODULE EntityProofs ----------------------------
(***************************************************************************)
(* What EntityRepresentations promises, proved for every bound: the list   *)
(* of representations stays well formed, what is synthesised for a         *)
(* stateless entity has no cycles, a part can be simulated by a            *)
(* representation with the entity's first timing, and timings are shared   *)
(* exactly by representations with the same delays.                        *)
(*                                                                         *)
(* The invariant says of every representation how it relates to the one it *)
(* was made from, and of those that start a timing that no two start the   *)
(* same.  All operations append to the list: it is enough that what they   *)
(* append fits behind what is there (FitsBehind), and that a netlist       *)
(* enters the list of a usable stateless entity only without cycles.       *)
(***************************************************************************)
EXTENDS EntityRepresentations, Minima

Rep == [type : 0 .. 6, parent : Nat, timing : Nat, cyclic : BOOLEAN, altered : BOOLEAN]

\* A representation with a timing of its own.
Starts(rep) == rep.type # TimedBehavior /\ (rep.altered \/ rep.parent = 0)

\* How a representation relates to its parent.
MadeFrom(rep, above) ==
    /\ rep.type > Structure /\ above.type >= Structure
    /\ rep.cyclic = above.cyclic
    /\ ~rep.altered => rep.timing = above.timing

ListOK(rs, ts) ==
    /\ rs \in Seq(Rep)
    /\ ts \in Nat
    /\ \A i \in 1 .. Len(rs) :
          /\ rs[i].parent < i
          /\ rs[i].timing <= ts
          /\ rs[i].parent # 0 => MadeFrom(rs[i], rs[rs[i].parent])
    /\ \A i, j \in 1 .. Len(rs) :
          Starts(rs[i]) /\ Starts(rs[j]) /\ rs[i].timing = rs[j].timing => i = j

\* rep may be appended to the list.
FitsBehind(rs, ts, rep) ==
    /\ rep \in Rep
    /\ rep.parent <= Len(rs)
    /\ rep.timing <= ts
    /\ rep.parent # 0 => MadeFrom(rep, rs[rep.parent])
    /\ Starts(rep) => \A j \in 1 .. Len(rs) : Starts(rs[j]) => rs[j].timing # rep.timing

\* The list a new or a builtin entity begins with.
BeginsWell ==
    /\ phase = "open" => reps = <<>> /\ timings = 0 /\ kind # "builtin"
    /\ phase = "listed" =>
          /\ Len(reps) > 0
          /\ kind = "builtin" => reps[1].type = Netlist
          /\ kind # "builtin" => reps[1].type = Structure /\ reps[1].timing = 1

\* As long as the program runs no netlist of a stateless entity has cycles.
StaysAcyclic ==
    kind = "stateless" /\ phase = "listed" =>
        /\ ~reps[1].cyclic
        /\ \A i \in DOMAIN reps :
              reps[i].type >= TreeModel \/ (reps[i].type = Netlist /\ failed = "none") => ~reps[i].cyclic

EInv ==
    /\ kind \in Kinds
    /\ phase \in {"open", "listed", "dropped"}
    /\ ListOK(reps, timings)
    /\ accepted \subseteq OfType(reps, Structure)
    /\ names \subseteq Names
    /\ failed \in {"none", "no netlist", "unexpected exception"}
    /\ BeginsWell
    /\ StaysAcyclic

-----------------------------------------------------------------------------
(* The list                                                                 *)

\* rs2 is rs with more behind it, all of it cyclic or not as c says.
Grown(rs, rs2, c) ==
    /\ Len(rs) <= Len(rs2)
    /\ \A i \in 1 .. Len(rs) : rs2[i] = rs[i]
    /\ \A i \in 1 .. Len(rs2) : i > Len(rs) => rs2[i].cyclic = c

\* A list that is in order stays so when timings are added.
LEMMA MoreTimings ==
    ASSUME NEW rs, NEW ts, ListOK(rs, ts), NEW us \in Nat, ts <= us
    PROVE  ListOK(rs, us)
<1>1. \A i \in 1 .. Len(rs) : rs[i] \in Rep
  BY DEF ListOK
<1>2. \A i \in 1 .. Len(rs) : rs[i].timing <= us
  BY <1>1 DEF ListOK, Rep
<1>3. QED BY <1>2 DEF ListOK

\* What the elements of a list are after one is appended.
LEMMA AppendFacts ==
    ASSUME NEW rs \in Seq(Rep), NEW rep \in Rep, NEW added, added = Append(rs, rep)
    PROVE  /\ added \in Seq(Rep) /\ Len(added) = Len(rs) + 1 /\ Len(rs) \in Nat
           /\ \A i \in 1 .. Len(rs) : added[i] = rs[i]
           /\ added[Len(rs) + 1] = rep
OBVIOUS

\* What the elements of a list are after others are appended.
LEMMA ConcatFacts ==
    ASSUME NEW rs \in Seq(Rep), NEW more \in Seq(Rep)
    PROVE  /\ rs \o more \in Seq(Rep) /\ Len(rs \o more) = Len(rs) + Len(more)
           /\ \A i \in 1 .. Len(rs) : (rs \o more)[i] = rs[i]
           /\ \A j \in 1 .. Len(more) : (rs \o more)[Len(rs) + j] = more[j]
OBVIOUS

\* Appending what fits keeps the list in order.
LEMMA AppendKeeps ==
    ASSUME NEW rs, NEW ts, ListOK(rs, ts), NEW rep, FitsBehind(rs, ts, rep)
    PROVE  /\ ListOK(Append(rs, rep), ts)
           /\ Grown(rs, Append(rs, rep), rep.cyclic)
<1>1. PICK added : added = Append(rs, rep)
  OBVIOUS
<1>2. rs \in Seq(Rep) /\ rep \in Rep /\ ts \in Nat
  BY DEF ListOK, FitsBehind
<1>3. /\ added \in Seq(Rep) /\ Len(added) = Len(rs) + 1 /\ Len(rs) \in Nat
      /\ \A i \in 1 .. Len(rs) : added[i] = rs[i]
      /\ added[Len(rs) + 1] = rep
  BY <1>1, <1>2, AppendFacts
<1>4. \A i \in 1 .. Len(rs) : rs[i] \in Rep
  BY <1>2
<1>5. ASSUME NEW i \in 1 .. Len(added)
      PROVE  /\ added[i].parent < i
             /\ added[i].timing <= ts
             /\ added[i].parent # 0 => MadeFrom(added[i], added[added[i].parent])
  <2>1. CASE i \in 1 .. Len(rs)
    <3>1. /\ rs[i].parent < i /\ rs[i].timing <= ts
          /\ rs[i].parent # 0 => MadeFrom(rs[i], rs[rs[i].parent])
      BY <2>1 DEF ListOK
    <3>2. rs[i].parent # 0 => rs[i].parent \in 1 .. Len(rs)
      <4>1. rs[i].parent \in Nat
        BY ONLY <1>4, <2>1 DEF Rep
      <4>2. QED BY ONLY <1>3, <2>1, <3>1, <4>1
    <3>3. added[i] = rs[i] /\ (rs[i].parent # 0 => added[rs[i].parent] = rs[rs[i].parent])
      BY ONLY <1>3, <2>1, <3>2
    <3>4. QED BY ONLY <3>1, <3>3
  <2>2. CASE i = Len(rs) + 1
    <3>1. rep.parent \in Nat /\ rep.parent <= Len(rs) /\ rep.timing <= ts
      BY <1>2 DEF FitsBehind, Rep
    <3>2. rep.parent # 0 => MadeFrom(rep, rs[rep.parent]) /\ rep.parent \in 1 .. Len(rs)
      BY <1>3, <3>1 DEF FitsBehind
    <3>3. QED BY <1>3, <2>2, <3>1, <3>2
  <2>3. QED BY <1>3, <2>1, <2>2
<1>6. ASSUME NEW i \in 1 .. Len(added), NEW j \in 1 .. Len(added),
             Starts(added[i]), Starts(added[j]), added[i].timing = added[j].timing
      PROVE  i = j
  <2>1. \A k \in 1 .. Len(rs) : Starts(rs[k]) /\ Starts(rep) => rs[k].timing # rep.timing
    BY DEF FitsBehind
  <2>2. \A k, l \in 1 .. Len(rs) :
            Starts(rs[k]) /\ Starts(rs[l]) /\ rs[k].timing = rs[l].timing => k = l
    BY DEF ListOK
  <2>3. (i \in 1 .. Len(rs) \/ i = Len(rs) + 1) /\ (j \in 1 .. Len(rs) \/ j = Len(rs) + 1)
    BY <1>3
  <2>4. QED BY <1>3, <1>6, <2>1, <2>2, <2>3
<1>7. ListOK(added, ts)
  BY <1>2, <1>3, <1>5, <1>6 DEF ListOK
<1>8. Grown(rs, added, rep.cyclic)
  BY <1>3 DEF Grown
<1>9. QED BY <1>1, <1>7, <1>8

\* One growth after another.
LEMMA GrownTwice ==
    ASSUME NEW rs \in Seq(Rep), NEW rs2 \in Seq(Rep), NEW rs3 \in Seq(Rep), NEW c,
           Grown(rs, rs2, c), Grown(rs2, rs3, c)
    PROVE  Grown(rs, rs3, c)
<1>1. Len(rs) \in Nat /\ Len(rs2) \in Nat /\ Len(rs3) \in Nat
  OBVIOUS
<1>2. Len(rs) <= Len(rs2) /\ Len(rs2) <= Len(rs3) /\ Len(rs) <= Len(rs3)
  BY <1>1 DEF Grown
<1>3. \A i \in 1 .. Len(rs) : i \in 1 .. Len(rs2) /\ rs3[i] = rs[i]
  BY <1>1, <1>2 DEF Grown
<1>4. ASSUME NEW i \in 1 .. Len(rs3), i > Len(rs) PROVE rs3[i].cyclic = c
  <2>1. CASE i > Len(rs2)
    BY <2>1 DEF Grown
  <2>2. CASE ~(i > Len(rs2))
    <3>1. i \in 1 .. Len(rs2)
      BY <1>1, <2>2
    <3>2. QED BY <1>4, <3>1 DEF Grown
  <2>3. QED BY <2>1, <2>2
<1>5. QED BY <1>2, <1>3, <1>4 DEF Grown

\* list[0] of a list of numbers that is not empty is one of them, the least.
LEMMA FirstOfMember ==
    ASSUME NEW T \in SUBSET Nat, T # {}
    PROVE  FirstOf(T) \in T /\ \A j \in T : FirstOf(T) <= j
BY LeastNumber DEF FirstOf

-----------------------------------------------------------------------------
(* What the operations append                                               *)

\* A representation made from one in the list keeps its timing unless altered.
LEMMA ChildFits ==
    ASSUME NEW rs, NEW ts, ListOK(rs, ts), NEW i \in 1 .. Len(rs), NEW type \in Netlist .. Commands,
           rs[i].type >= Structure
    PROVE  FitsBehind(rs, ts, Child(rs, i, type, rs[i].timing, FALSE))
<1>1. PICK rep : rep = Child(rs, i, type, rs[i].timing, FALSE)
  OBVIOUS
<1>2. rs[i] \in Rep /\ rs[i].timing <= ts /\ i \in Nat /\ i # 0 /\ Len(rs) \in Nat
  BY DEF ListOK
<1>3. /\ rep.type = type /\ rep.parent = i /\ rep.timing = rs[i].timing
      /\ rep.cyclic = rs[i].cyclic /\ rep.altered = FALSE
  BY <1>1 DEF Child
<1>4. rep \in Rep
  BY <1>1, <1>2 DEF Child, Rep, Netlist, Commands
<1>5. MadeFrom(rep, rs[i])
  BY <1>3 DEF MadeFrom, Netlist, Commands, Structure
<1>6. ~Starts(rep)
  BY <1>2, <1>3 DEF Starts
<1>7. FitsBehind(rs, ts, rep)
  BY <1>2, <1>3, <1>4, <1>5, <1>6 DEF FitsBehind
<1>8. QED BY <1>1, <1>7

\* The first structure of a list that has one.
LEMMA FirstStructure ==
    ASSUME NEW rs \in Seq(Rep), OfType(rs, Structure) # {}
    PROVE  /\ FirstOf(OfType(rs, Structure)) \in 1 .. Len(rs)
           /\ rs[FirstOf(OfType(rs, Structure))].type = Structure
           /\ rs[1].type = Structure => FirstOf(OfType(rs, Structure)) = 1
<1>1. DOMAIN rs = 1 .. Len(rs) /\ Len(rs) \in Nat
  OBVIOUS
<1>2. PICK T : T = OfType(rs, Structure)
  OBVIOUS
<1>3. T \in SUBSET Nat /\ T # {} /\ \A i : i \in T <=> i \in 1 .. Len(rs) /\ rs[i].type = Structure
  BY <1>1, <1>2 DEF OfType
<1>4. FirstOf(T) \in T /\ \A j \in T : FirstOf(T) <= j
  BY <1>3, FirstOfMember
<1>5. rs[1].type = Structure => FirstOf(T) = 1
  <2> SUFFICES ASSUME rs[1].type = Structure PROVE FirstOf(T) = 1
    OBVIOUS
  <2>1. FirstOf(T) \in 1 .. Len(rs)
    BY <1>3, <1>4
  <2>2. 1 \in T
    BY <1>1, <1>3, <2>1
  <2>3. QED BY <1>4, <2>1, <2>2
<1>6. QED BY <1>2, <1>3, <1>4, <1>5

\* The netlist that is made of the first structure of a list.
FirstNetlist(rs) ==
    Child(rs, FirstOf(OfType(rs, Structure)), Netlist, rs[FirstOf(OfType(rs, Structure))].timing, FALSE)

\* getRepresentation<Netlist> finds a netlist, makes one of the first structure,
\* or has no path.
LEMMA NetlistOfFacts ==
    ASSUME NEW rs, NEW ts, ListOK(rs, ts), NEW source \in 1 .. Len(rs),
           NEW found, found = NetlistOf(rs, source)
    PROVE  /\ ListOK(found.reps, ts)
           /\ \/ found.reps = rs
              \/ /\ rs[source].type = Structure
                 /\ found.reps = Append(rs, FirstNetlist(rs))
           /\ OfType(rs, Netlist) = {} /\ rs[source].type = Structure =>
                 found.reps = Append(rs, FirstNetlist(rs)) /\ found.netlist = Len(rs) + 1
<1> DEFINE descendants == {i \in OfType(rs, Netlist) : source \in Ancestors(rs, i)}
<1>1. found = IF descendants # {} THEN [reps |-> rs, netlist |-> FirstOf(descendants)]
              ELSE IF rs[source].type = Structure
              THEN [reps |-> Append(rs, FirstNetlist(rs)), netlist |-> Len(rs) + 1]
              ELSE [reps |-> rs, netlist |-> 0]
  BY Zenon DEF NetlistOf, FirstNetlist
<1>2. OfType(rs, Netlist) = {} => descendants = {}
  OBVIOUS
<1> HIDE DEF descendants
<1>3. rs \in Seq(Rep) /\ DOMAIN rs = 1 .. Len(rs)
  BY DEF ListOK
<1>4. ASSUME rs[source].type = Structure PROVE ListOK(Append(rs, FirstNetlist(rs)), ts)
  <2>1. OfType(rs, Structure) # {}
    BY <1>3, <1>4 DEF OfType
  <2>2. PICK i : i = FirstOf(OfType(rs, Structure))
    OBVIOUS
  <2>3. i \in 1 .. Len(rs) /\ rs[i].type = Structure
    BY <1>3, <2>1, <2>2, FirstStructure
  <2>4. FitsBehind(rs, ts, Child(rs, i, Netlist, rs[i].timing, FALSE))
    <3>1. Netlist \in Netlist .. Commands /\ Structure >= Structure
      BY DEF Netlist, Commands, Structure
    <3>2. QED BY <2>3, <3>1, ChildFits
  <2>5. QED BY <2>2, <2>4, AppendKeeps DEF FirstNetlist
<1>5. CASE descendants # {}
  BY <1>1, <1>2, <1>5
<1>6. CASE descendants = {} /\ rs[source].type = Structure
  BY <1>1, <1>4, <1>6
<1>7. CASE descendants = {} /\ rs[source].type # Structure
  BY <1>1, <1>7
<1>8. QED BY <1>5, <1>6, <1>7

\* What addRepresentation does to a list rep fits behind: rep is appended,
\* behind a structure perhaps the netlist of the first one; a netlist it accepts
\* for a stateless entity has no cycles, nor has the first structure.
AddedWell(rs, ts, rep, added) ==
    /\ ListOK(added.reps, ts)
    /\ added.verdict \in {"none", "cycles", "no netlist"}
    /\ \/ added.reps = Append(rs, rep)
       \/ /\ rep.type = Structure
          /\ added.reps = Append(Append(rs, rep), FirstNetlist(Append(rs, rep)))
    /\ isStateless /\ rep.type = Netlist /\ added.verdict = "none" => ~rep.cyclic
    /\ isStateless /\ rep.type = Structure /\ rs = <<>> /\ added.verdict = "none" => ~rep.cyclic

\* addRepresentation does so, whatever it is given that fits.
LEMMA AddFacts ==
    ASSUME NEW rs, NEW ts, ListOK(rs, ts), NEW rep, FitsBehind(rs, ts, rep),
           NEW result, result = AddRepresentation(rs, rep)
    PROVE  AddedWell(rs, ts, rep, result)
<1>1. PICK added : added = Append(rs, rep)
  OBVIOUS
<1>2. ListOK(added, ts)
  BY <1>1, AppendKeeps
<1>3. /\ rs \in Seq(Rep) /\ rep \in Rep
      /\ added \in Seq(Rep) /\ Len(added) = Len(rs) + 1 /\ Len(rs) \in Nat
      /\ added[Len(rs) + 1] = rep
  <2>1. rs \in Seq(Rep) /\ rep \in Rep
    BY DEF ListOK, FitsBehind
  <2>2. QED BY <1>1, <2>1, AppendFacts
<1>4. CASE ~isStateless \/ rep.type \notin {Structure, Blocks, Netlist}
  <2>1. result = [reps |-> added, verdict |-> "none"]
    BY <1>1, <1>4 DEF AddRepresentation
  <2>2. ~(isStateless /\ rep.type = Netlist) /\ ~(isStateless /\ rep.type = Structure)
    BY <1>4
  <2>3. QED BY <1>1, <1>2, <2>1, <2>2 DEF AddedWell
<1>5. CASE isStateless /\ rep.type = Netlist
  <2>1. result = [reps |-> added,
                  verdict |-> IF Len(added) = 0 THEN "no netlist"
                              ELSE IF added[Len(added)].cyclic THEN "cycles" ELSE "none"]
    BY <1>1, <1>5 DEF AddRepresentation
  <2>2. result.reps = added /\ result.verdict = IF rep.cyclic THEN "cycles" ELSE "none"
    <3>1. Len(added) # 0 /\ added[Len(added)] = rep
      BY <1>3
    <3>2. QED BY ONLY <2>1, <3>1
  <2>3. rep.type # Structure
    BY <1>5 DEF Netlist, Structure
  <2>4. QED BY <1>1, <1>2, <2>2, <2>3 DEF AddedWell
<1>6. CASE isStateless /\ rep.type \in {Structure, Blocks}
  <2>1. PICK found : found = NetlistOf(added, Len(added))
    OBVIOUS
  <2>2. result = [reps |-> found.reps,
                  verdict |-> IF found.netlist = 0 THEN "no netlist"
                              ELSE IF found.reps[found.netlist].cyclic THEN "cycles" ELSE "none"]
    <3>1. rep.type # Netlist /\ rep.type \in {Structure, Blocks, Netlist}
      BY <1>6 DEF Structure, Blocks, Netlist
    <3>2. QED BY Zenon, <1>1, <1>6, <2>1, <3>1 DEF AddRepresentation
  <2>3. Len(added) \in 1 .. Len(added) /\ added[Len(added)] = rep
    BY <1>3
  <2>4. /\ ListOK(found.reps, ts)
        /\ \/ found.reps = added
           \/ /\ rep.type = Structure
              /\ found.reps = Append(added, FirstNetlist(added))
        /\ OfType(added, Netlist) = {} /\ rep.type = Structure =>
              found.reps = Append(added, FirstNetlist(added)) /\ found.netlist = Len(added) + 1
    BY <1>2, <2>1, <2>3, NetlistOfFacts
  <2>5. ASSUME rep.type = Structure, rs = <<>>, result.verdict = "none" PROVE ~rep.cyclic
    <3>1. added = <<rep>> /\ Len(added) = 1 /\ added[1] = rep /\ DOMAIN added = 1 .. 1
      BY <1>1, <1>3, <2>5
    <3>2. OfType(added, Netlist) = {}
      BY <2>5, <3>1 DEF OfType, Netlist, Structure
    <3>3. OfType(added, Structure) # {}
      BY <2>5, <3>1 DEF OfType
    <3>4. FirstOf(OfType(added, Structure)) = 1
      BY <1>3, <2>5, <3>1, <3>3, FirstStructure
    <3>5. PICK netlist : netlist = FirstNetlist(added)
      OBVIOUS
    <3>6. netlist.cyclic = rep.cyclic
      BY <3>1, <3>4, <3>5 DEF FirstNetlist, Child
    <3>7. found.reps = Append(added, netlist) /\ found.netlist = 2
      BY <2>4, <2>5, <3>1, <3>2, <3>5
    <3>8. found.reps[2] = netlist
      BY <3>1, <3>7
    <3>9. QED BY <2>2, <2>5, <3>6, <3>7, <3>8
  <2>6. result.verdict \in {"none", "cycles", "no netlist"} /\ result.reps = found.reps
    BY ONLY <2>2
  <2>7. rep.type # Netlist
    BY <1>6 DEF Netlist, Structure, Blocks
  <2>8. QED BY <1>1, <2>4, <2>5, <2>6, <2>7 DEF AddedWell
<1>7. QED BY <1>4, <1>5, <1>6

\* What executing a transformation to the given type makes of a list: netlists
\* behind it if a tree is built, and a result that fits behind those.
TransformedWell(rs, ts, i, type, x) ==
    /\ ListOK(x.reps, x.timings)
    /\ ts <= x.timings
    /\ FitsBehind(x.reps, x.timings, x.result)
    /\ Grown(rs, x.reps, rs[i].cyclic)
    /\ type # TreeModel => x.reps = rs /\ ~x.thrown
    /\ \A k \in 1 .. Len(x.reps) : k > Len(rs) => x.reps[k].type = Netlist
    /\ x.result.type = type /\ x.result.cyclic = rs[i].cyclic
    /\ x.thrown \in BOOLEAN

\* Every transformation does so, of a representation of the type before.
LEMMA TransformedFacts ==
    ASSUME NEW rs, NEW ts, ListOK(rs, ts), NEW i \in 1 .. Len(rs),
           NEW type \in Netlist .. Commands, rs[i].type = type - 1,
           NEW splits \in Nat, NEW fixed \in BOOLEAN,
           NEW x, x = Transformed(rs, ts, i, type, splits, fixed)
    PROVE  TransformedWell(rs, ts, i, type, x)
<1> DEFINE thrown == type = TreeModel /\ isStateless /\ rs[i].cyclic /\ splits > 0
           n      == IF type # TreeModel THEN 0 ELSE IF thrown THEN 1 ELSE splits
           breaks == type = TreeModel /\ fixed /\ ~thrown
           parent(j) == IF j = 0 THEN i ELSE Len(rs) + j
           timing(j) == IF j = 0 THEN rs[i].timing ELSE ts + j
           split  == [j \in 1 .. n |->
                         [Child(rs, i, Netlist, timing(j), TRUE) EXCEPT !.parent = parent(j - 1)]]
           ends   == ts + n + (IF breaks THEN 1 ELSE 0)
           rep    == [Child(rs, i, type, IF breaks THEN ends ELSE timing(n), breaks)
                         EXCEPT !.parent = parent(n)]
<1>1. x = [reps |-> rs \o split, timings |-> ends, result |-> rep, thrown |-> thrown]
  BY Zenon DEF Transformed
<1>2. /\ rs \in Seq(Rep) /\ ts \in Nat /\ Len(rs) \in Nat /\ i \in Nat /\ i # 0
      /\ rs[i] \in Rep /\ rs[i].timing \in Nat /\ rs[i].timing <= ts /\ rs[i].cyclic \in BOOLEAN
      /\ type \in 3 .. 6 /\ TreeModel = 4 /\ Structure = 2 /\ Netlist = 3 /\ TimedBehavior = 0
  <2>1. rs \in Seq(Rep) /\ ts \in Nat /\ rs[i].timing <= ts
    BY DEF ListOK
  <2>2. rs[i] \in Rep /\ Len(rs) \in Nat /\ i \in Nat /\ i # 0
    BY <2>1
  <2>3. rs[i].timing \in Nat /\ rs[i].cyclic \in BOOLEAN
    BY <2>2 DEF Rep
  <2>4. /\ type \in 3 .. 6 /\ TreeModel = 4 /\ Structure = 2 /\ Netlist = 3 /\ TimedBehavior = 0
    BY DEF Netlist, Commands, TreeModel, Structure, TimedBehavior
  <2>5. QED BY <2>1, <2>2, <2>3, <2>4
<1>3. n \in Nat /\ (type # TreeModel => n = 0) /\ (n > 0 => type = 4)
  BY <1>2
<1>4. breaks \in BOOLEAN /\ thrown \in BOOLEAN /\ (type # TreeModel => ~breaks /\ ~thrown)
  BY <1>2
<1> HIDE DEF n, thrown, breaks
<1>5. ends \in Nat /\ ts + n <= ends /\ (breaks => ts + n < ends)
  BY <1>2, <1>3, <1>4
<1>6. ASSUME NEW j \in 1 .. n
      PROVE  split[j] = [type |-> Netlist, parent |-> parent(j - 1), timing |-> ts + j,
                         cyclic |-> rs[i].cyclic, altered |-> TRUE]
  <2>1. split[j] = [Child(rs, i, Netlist, timing(j), TRUE) EXCEPT !.parent = parent(j - 1)]
    OBVIOUS
  <2>2. timing(j) = ts + j
    BY <1>3
  <2> HIDE DEF split, parent, timing
  <2>3. QED BY <2>1, <2>2 DEF Child
<1>7. rep = [type |-> type, parent |-> parent(n), timing |-> IF breaks THEN ends ELSE timing(n),
             cyclic |-> rs[i].cyclic, altered |-> breaks]
  <2> HIDE DEF parent, timing, ends
  <2>1. QED BY DEF Child
<1>8. \A j \in 0 .. n : parent(j) \in Nat /\ parent(j) # 0 /\ parent(j) <= Len(rs) + j
  BY <1>2, <1>3
<1>9. \A j \in 1 .. n : split[j] \in Rep
  <2>1. ASSUME NEW j \in 1 .. n PROVE split[j] \in Rep
    <3>1. j - 1 \in 0 .. n /\ ts + j \in Nat
      BY <1>2, <1>3
    <3>2. parent(j - 1) \in Nat
      BY <1>8, <3>1
    <3> HIDE DEF parent, split
    <3>3. PICK p : p = parent(j - 1)
      OBVIOUS
    <3>4. split[j] = [type |-> Netlist, parent |-> p, timing |-> ts + j,
                      cyclic |-> rs[i].cyclic, altered |-> TRUE]
      BY <1>6, <3>3
    <3>5. 3 \in 0 .. 6
      OBVIOUS
    <3>6. Netlist \in 0 .. 6 /\ p \in Nat /\ ts + j \in Nat /\ rs[i].cyclic \in BOOLEAN
      BY <1>2, <3>1, <3>2, <3>3, <3>5
    <3>7. QED BY <3>4, <3>6 DEF Rep
  <2>2. QED BY <2>1
<1> DEFINE longer == rs \o split
<1>10. /\ longer \in Seq(Rep) /\ Len(longer) = Len(rs) + n
       /\ \A k \in 1 .. Len(rs) : longer[k] = rs[k]
       /\ \A j \in 1 .. n : longer[Len(rs) + j] = split[j]
  <2>1. split \in Seq(Rep) /\ Len(split) = n
    <3>1. split = [j \in 1 .. n |-> split[j]]
      OBVIOUS
    <3> HIDE DEF split
    <3>2. split \in [1 .. n -> Rep]
      BY <1>9, <3>1
    <3>3. QED BY <1>3, <3>2
  <2> HIDE DEF split
  <2>2. PICK more : more = split
    OBVIOUS
  <2>3. rs \in Seq(Rep) /\ more \in Seq(Rep) /\ Len(more) = n /\ longer = rs \o more
    BY <1>2, <2>1, <2>2
  <2> HIDE DEF longer
  <2>4. /\ longer \in Seq(Rep) /\ Len(longer) = Len(rs) + Len(more)
        /\ \A k \in 1 .. Len(rs) : longer[k] = rs[k]
        /\ \A j \in 1 .. Len(more) : longer[Len(rs) + j] = more[j]
    <3>1. /\ rs \o more \in Seq(Rep) /\ Len(rs \o more) = Len(rs) + Len(more)
          /\ \A k \in 1 .. Len(rs) : (rs \o more)[k] = rs[k]
          /\ \A j \in 1 .. Len(more) : (rs \o more)[Len(rs) + j] = more[j]
      BY ONLY <2>3, ConcatFacts
    <3>2. QED BY ONLY <2>3, <3>1
  <2>5. \A j \in 1 .. n : longer[Len(rs) + j] = split[j]
    BY ONLY <2>2, <2>3, <2>4
  <2>6. QED BY ONLY <2>3, <2>4, <2>5
<1> HIDE DEF longer
<1>11. \A k \in 1 .. Len(longer) : k > Len(rs) => k - Len(rs) \in 1 .. n /\ longer[k] = split[k - Len(rs)]
  <2>1. ASSUME NEW k \in 1 .. Len(longer), k > Len(rs)
        PROVE  k - Len(rs) \in 1 .. n /\ longer[k] = split[k - Len(rs)]
    <3>1. k - Len(rs) \in 1 .. n /\ Len(rs) + (k - Len(rs)) = k
      <4>1. Len(rs) \in Nat /\ n \in Nat /\ Len(longer) = Len(rs) + n
        BY ONLY <1>2, <1>3, <1>10
      <4>2. QED BY ONLY <2>1, <4>1
    <3> HIDE DEF split
    <3>2. QED BY ONLY <1>10, <3>1
  <2>2. QED BY <2>1
<1> DEFINE new(j) == longer[Len(rs) + j]
<1>12. \A j \in 1 .. n : /\ new(j).type = Netlist /\ new(j).parent = parent(j - 1) /\ new(j).timing = ts + j
                         /\ new(j).cyclic = rs[i].cyclic /\ new(j).altered = TRUE
  <2>1. ASSUME NEW j \in 1 .. n
        PROVE  /\ new(j).type = Netlist /\ new(j).parent = parent(j - 1) /\ new(j).timing = ts + j
               /\ new(j).cyclic = rs[i].cyclic /\ new(j).altered = TRUE
    <3>1. PICK p : p = parent(j - 1)
      OBVIOUS
    <3> HIDE DEF split
    <3>2. new(j) = split[j]
      BY <1>10
    <3> HIDE DEF new, parent
    <3>3. new(j) = [type |-> Netlist, parent |-> p, timing |-> ts + j,
                    cyclic |-> rs[i].cyclic, altered |-> TRUE]
      BY <1>6, <3>1, <3>2
    <3>4. QED BY ONLY <3>1, <3>3
  <2> HIDE DEF new, parent
  <2>2. QED BY <2>1
<1>13. ASSUME NEW j \in 0 .. n
       PROVE  /\ parent(j) \in 1 .. Len(rs) + j /\ parent(j) \in 1 .. Len(longer)
              /\ longer[parent(j)].cyclic = rs[i].cyclic
              /\ longer[parent(j)].type = IF j = 0 THEN type - 1 ELSE Netlist
              /\ longer[parent(j)].timing = timing(j)
  <2>1. CASE j = 0
    <3>1. parent(j) = i /\ timing(j) = rs[i].timing /\ longer[i] = rs[i] /\ i \in 1 .. Len(longer)
      BY <1>2, <1>3, <1>10, <2>1
    <3> HIDE DEF parent, timing
    <3>2. QED BY <1>2, <2>1, <3>1
  <2>2. CASE j # 0
    <3>1. j \in 1 .. n /\ Len(rs) + j \in 1 .. Len(longer)
      <4>1. Len(rs) \in Nat /\ n \in Nat /\ Len(longer) = Len(rs) + n
        BY ONLY <1>2, <1>3, <1>10
      <4>2. QED BY ONLY j \in 0 .. n, <2>2, <4>1
    <3>2. parent(j) = Len(rs) + j /\ timing(j) = ts + j /\ longer[Len(rs) + j] = new(j)
      BY <2>2
    <3> HIDE DEF parent, timing, new
    <3>3. PICK q : q = parent(j)
      OBVIOUS
    <3>4. q = Len(rs) + j /\ longer[q] = new(j) /\ Len(rs) \in Nat
      BY ONLY <1>2, <3>2, <3>3
    <3>5. longer[q].cyclic = rs[i].cyclic /\ longer[q].type = Netlist /\ longer[q].timing = ts + j
      BY ONLY <1>12, <3>1, <3>4
    <3>6. q \in 1 .. Len(rs) + j
      BY ONLY <3>1, <3>4
    <3>7. QED BY ONLY <2>2, <3>1, <3>2, <3>3, <3>4, <3>5, <3>6
  <2>3. QED BY <2>1, <2>2
<1> HIDE DEF split, rep, ends
<1>14. \A k \in 1 .. Len(longer) : k > Len(rs) => k - Len(rs) \in 1 .. n /\ longer[k] = new(k - Len(rs))
  <2>1. ASSUME NEW k \in 1 .. Len(longer), k > Len(rs)
        PROVE  k - Len(rs) \in 1 .. n /\ longer[k] = new(k - Len(rs))
    <3>1. k - Len(rs) \in 1 .. n /\ Len(rs) + (k - Len(rs)) = k
      BY <1>2, <1>3, <1>10, <2>1
    <3>2. QED BY <3>1
  <2>2. QED BY <2>1
<1> HIDE DEF parent, new
<1>15. ASSUME NEW k \in 1 .. Len(longer)
       PROVE  /\ longer[k].parent < k
              /\ longer[k].timing <= ends
              /\ longer[k].parent # 0 => MadeFrom(longer[k], longer[longer[k].parent])
  <2>1. CASE k \in 1 .. Len(rs)
    <3>1. /\ rs[k].parent < k /\ rs[k].timing <= ts /\ rs[k] \in Rep
          /\ rs[k].parent # 0 => MadeFrom(rs[k], rs[rs[k].parent])
      BY <2>1 DEF ListOK
    <3>2. rs[k].parent \in Nat /\ rs[k].timing \in Nat
      BY <3>1 DEF Rep
    <3>3. rs[k].parent # 0 => rs[k].parent \in 1 .. Len(rs)
      BY <1>2, <2>1, <3>1, <3>2
    <3>4. rs[k].timing <= ends
      BY <1>2, <1>3, <1>5, <3>1, <3>2
    <3>5. longer[k] = rs[k] /\ (rs[k].parent # 0 => longer[rs[k].parent] = rs[rs[k].parent])
      BY ONLY <1>10, <2>1, <3>3
    <3>6. QED BY ONLY <3>1, <3>4, <3>5
  <2>2. CASE k > Len(rs)
    <3>1. PICK j \in 1 .. n : j = k - Len(rs) /\ longer[k] = new(j)
      BY <1>14, <2>2
    <3>2. j - 1 \in 0 .. n /\ n > 0 /\ type = 4
      BY <1>3
    <3>3. PICK q : q = parent(j - 1)
      OBVIOUS
    <3>4. q \in 1 .. Len(rs) + (j - 1) /\ longer[q].cyclic = rs[i].cyclic /\ longer[q].type = Netlist
      <4>1. longer[q].type = IF j - 1 = 0 THEN type - 1 ELSE Netlist
        BY ONLY <1>13, <3>2, <3>3
      <4>2. q \in 1 .. Len(rs) + (j - 1) /\ longer[q].cyclic = rs[i].cyclic
        BY ONLY <1>13, <3>2, <3>3
      <4>3. QED BY ONLY <1>2, <3>2, <4>1, <4>2
    <3>5. q < k /\ ts + j <= ends
      <4>1. /\ Len(rs) \in Nat /\ ts \in Nat /\ n \in Nat /\ ends \in Nat /\ ts + n <= ends
            /\ q \in 1 .. Len(rs) + (j - 1) /\ j = k - Len(rs) /\ j \in 1 .. n /\ k \in Nat
        BY ONLY <1>2, <1>3, <1>5, <3>1, <3>4, k \in 1 .. Len(longer), <1>10
      <4>2. QED BY ONLY <4>1
    <3>6. /\ longer[k].type = Netlist /\ longer[k].parent = q /\ longer[k].timing = ts + j
          /\ longer[k].cyclic = rs[i].cyclic /\ longer[k].altered = TRUE
      BY <1>12, <3>1, <3>3
    <3>7. MadeFrom(longer[k], longer[q])
      BY ONLY <1>2, <3>4, <3>6 DEF MadeFrom
    <3>8. QED BY ONLY <3>5, <3>6, <3>7
  <2>3. QED BY <1>2, <1>10, <2>1, <2>2
<1>16. ASSUME NEW k \in 1 .. Len(longer)
       PROVE  /\ k <= Len(rs) => longer[k] = rs[k] /\ longer[k].timing <= ts /\ longer[k].timing \in Nat
              /\ k > Len(rs) => longer[k].timing = ts + (k - Len(rs))
  <2>1. CASE k <= Len(rs)
    <3>1. k \in 1 .. Len(rs)
      BY <2>1
    <3>2. rs[k] \in Rep /\ rs[k].timing <= ts
      BY <3>1 DEF ListOK
    <3>3. rs[k].timing \in Nat
      BY <3>2 DEF Rep
    <3>4. longer[k] = rs[k] /\ ~(k > Len(rs))
      BY <1>2, <1>10, <2>1, <3>1
    <3>5. QED BY <3>2, <3>3, <3>4
  <2>2. CASE k > Len(rs)
    <3>1. PICK j \in 1 .. n : j = k - Len(rs) /\ longer[k] = new(j)
      BY <1>14, <2>2
    <3>2. QED BY <1>2, <1>12, <2>2, <3>1
  <2>3. QED BY <1>2, <2>1, <2>2
<1>17. ASSUME NEW k \in 1 .. Len(longer), NEW l \in 1 .. Len(longer),
              Starts(longer[k]), Starts(longer[l]), longer[k].timing = longer[l].timing
       PROVE  k = l
  <2>1. CASE k <= Len(rs) /\ l <= Len(rs)
    <3>1. longer[k] = rs[k] /\ longer[l] = rs[l] /\ k \in 1 .. Len(rs) /\ l \in 1 .. Len(rs)
      BY <1>16, <2>1
    <3>2. QED BY <1>17, <3>1 DEF ListOK
  <2>2. CASE ~(k <= Len(rs) /\ l <= Len(rs))
    <3>2. CASE k > Len(rs) /\ l > Len(rs)
      BY <1>2, <1>16, <1>17, <3>2
    <3>3. CASE k > Len(rs) /\ l <= Len(rs)
      <4>1. longer[k].timing = ts + (k - Len(rs)) /\ longer[l].timing <= ts /\ longer[l].timing \in Nat
        BY <1>16, <3>3
      <4>2. QED BY <1>2, <1>17, <3>3, <4>1
    <3>4. CASE k <= Len(rs) /\ l > Len(rs)
      <4>1. longer[l].timing = ts + (l - Len(rs)) /\ longer[k].timing <= ts /\ longer[k].timing \in Nat
        BY <1>16, <3>4
      <4>2. QED BY <1>2, <1>17, <3>4, <4>1
    <3>5. QED BY <1>2, <2>2, <3>2, <3>3, <3>4
  <2>3. QED BY <2>1, <2>2
<1>18. ListOK(longer, ends)
  BY <1>5, <1>10, <1>15, <1>17 DEF ListOK
<1>19. n \in 0 .. n /\ Len(longer) = Len(rs) + n /\ Len(longer) \in Nat
  BY <1>2, <1>3, <1>10
<1>20. FitsBehind(longer, ends, rep)
  <2>1. PICK q : q = parent(n)
    OBVIOUS
  <2>2. /\ q \in 1 .. Len(longer) /\ longer[q].cyclic = rs[i].cyclic
        /\ longer[q].type >= Structure /\ longer[q].timing = timing(n)
    <3> HIDE DEF timing
    <3>1. /\ q \in 1 .. Len(longer) /\ longer[q].cyclic = rs[i].cyclic
          /\ longer[q].type = (IF n = 0 THEN type - 1 ELSE Netlist) /\ longer[q].timing = timing(n)
      BY ONLY <1>13, <1>19, <2>1
    <3>2. longer[q].type >= Structure
      BY ONLY <1>2, <3>1
    <3>3. QED BY ONLY <3>1, <3>2
  <2>3. timing(n) \in Nat /\ timing(n) <= ts + n
    BY <1>2, <1>3
  <2> HIDE DEF timing
  <2>4. PICK w : w = IF breaks THEN ends ELSE timing(n)
    OBVIOUS
  <2>5. w \in Nat /\ w <= ends /\ (breaks => w = ends) /\ (~breaks => w = timing(n))
    BY <1>2, <1>3, <1>4, <1>5, <2>3, <2>4
  <2>6. rep = [type |-> type, parent |-> q, timing |-> w, cyclic |-> rs[i].cyclic, altered |-> breaks]
    BY <1>7, <2>1, <2>4
  <2>7. rep \in Rep
    <3>1. type \in 0 .. 6 /\ q \in Nat /\ w \in Nat
      BY <1>2, <1>19, <2>2, <2>5
    <3>2. QED BY <1>2, <1>4, <2>6, <3>1 DEF Rep
  <2>8. /\ rep.type = type /\ rep.parent = q /\ rep.timing = w /\ rep.cyclic = rs[i].cyclic
        /\ rep.altered = breaks
    BY ONLY <2>6
  <2>9. MadeFrom(rep, longer[q])
    BY <1>2, <1>4, <2>2, <2>5, <2>8 DEF MadeFrom
  <2>10. ASSUME Starts(rep), NEW k \in 1 .. Len(longer) PROVE longer[k].timing # rep.timing
    <3>1. breaks
      BY <1>4, <1>19, <2>2, <2>8, <2>10 DEF Starts
    <3>2. longer[k].timing <= ts + n
      BY <1>2, <1>3, <1>16, <1>19
    <3>3. longer[k].timing \in Nat
      BY <1>2, <1>16, <1>19
    <3>4. QED BY <1>2, <1>3, <1>5, <2>5, <2>8, <3>1, <3>2, <3>3
  <2>11. QED BY <1>19, <2>2, <2>5, <2>7, <2>8, <2>9, <2>10 DEF FitsBehind
<1>21. Grown(rs, longer, rs[i].cyclic)
  <2>1. ASSUME NEW k \in 1 .. Len(longer), k > Len(rs)
        PROVE  longer[k].cyclic = rs[i].cyclic /\ longer[k].type = Netlist
    <3>1. PICK j \in 1 .. n : longer[k] = new(j)
      BY <1>14, <2>1
    <3>2. QED BY <1>12, <3>1
  <2>2. Len(rs) <= Len(longer)
    BY <1>2, <1>3, <1>19
  <2>3. QED BY <1>10, <2>1, <2>2 DEF Grown
<1>22. \A k \in 1 .. Len(longer) : k > Len(rs) => longer[k].type = Netlist
  BY <1>12, <1>14
<1>23. type # TreeModel => longer = rs
  <2> SUFFICES ASSUME type # TreeModel PROVE longer = rs
    OBVIOUS
  <2>1. n = 0 /\ Len(longer) = Len(rs) /\ DOMAIN longer = DOMAIN rs
    BY <1>2, <1>3, <1>10
  <2>2. \A k \in DOMAIN rs : longer[k] = rs[k]
    BY <1>2, <1>10
  <2>3. longer = [k \in DOMAIN longer |-> longer[k]] /\ rs = [k \in DOMAIN rs |-> rs[k]]
    BY <1>2, <1>10
  <2>4. QED BY <2>1, <2>2, <2>3
<1>24. x.reps = longer /\ x.timings = ends /\ x.result = rep /\ x.thrown = thrown
  BY <1>1 DEF longer
<1>25. rep.type = type /\ rep.cyclic = rs[i].cyclic
  BY <1>7
<1>26. ts <= ends
  BY <1>2, <1>3, <1>5
<1>27. QED BY <1>4, <1>18, <1>20, <1>21, <1>22, <1>23, <1>24, <1>25, <1>26 DEF TransformedWell

\* How far generate has come when it has made the type t from a representation
\* that is cyclic or not as c says.
AlongWell(b, t, c) ==
    /\ ListOK(b.reps, b.timings)
    /\ timings <= b.timings
    /\ Grown(reps, b.reps, c)
    /\ \A k \in 1 .. Len(b.reps) : k > Len(reps) => b.reps[k].type >= Netlist
    /\ b.thrown \in BOOLEAN
    /\ ~b.thrown => b.last \in 1 .. Len(b.reps) /\ b.reps[b.last].type = t /\ b.reps[b.last].cyclic = c

\* The step of generate from the type before to t.
AlongStep(before, t, splits, fixed) ==
    LET x == Transformed(before.reps, before.timings, before.last, t, splits, fixed)
    IN  IF before.thrown THEN before
        ELSE [reps |-> IF x.thrown THEN x.reps ELSE Append(x.reps, x.result),
              timings |-> x.timings, last |-> Len(x.reps) + 1, thrown |-> x.thrown]

\* One step of generate brings it that far, if the steps before did.
LEMMA AlongStepWell ==
    ASSUME NEW b, NEW t \in Netlist .. Commands, NEW c, AlongWell(b, t - 1, c),
           ListOK(reps, timings),
           NEW splits \in Nat, NEW fixed \in BOOLEAN,
           NEW after, after = AlongStep(b, t, splits, fixed)
    PROVE  AlongWell(after, t, c)
<1>1. CASE b.thrown
  <2>1. after = b
    BY <1>1 DEF AlongStep
  <2>2. QED BY <1>1, <2>1 DEF AlongWell
<1>2. CASE ~b.thrown
  <2>1. PICK x : x = Transformed(b.reps, b.timings, b.last, t, splits, fixed)
    OBVIOUS
  <2>2. after = [reps |-> IF x.thrown THEN x.reps ELSE Append(x.reps, x.result),
                 timings |-> x.timings, last |-> Len(x.reps) + 1, thrown |-> x.thrown]
    BY Zenon, <1>2, <2>1 DEF AlongStep
  <2>3. /\ ListOK(b.reps, b.timings) /\ timings <= b.timings /\ Grown(reps, b.reps, c)
        /\ b.last \in 1 .. Len(b.reps) /\ b.reps[b.last].type = t - 1 /\ b.reps[b.last].cyclic = c
        /\ \A k \in 1 .. Len(b.reps) : k > Len(reps) => b.reps[k].type >= Netlist
    BY <1>2 DEF AlongWell
  <2>4. TransformedWell(b.reps, b.timings, b.last, t, x)
    BY <2>1, <2>3, TransformedFacts
  <2>5. /\ ListOK(x.reps, x.timings) /\ b.timings <= x.timings
        /\ FitsBehind(x.reps, x.timings, x.result)
        /\ Grown(b.reps, x.reps, c)
        /\ \A k \in 1 .. Len(x.reps) : k > Len(b.reps) => x.reps[k].type = Netlist
        /\ x.result.type = t /\ x.result.cyclic = c
        /\ x.thrown \in BOOLEAN
    BY <2>3, <2>4 DEF TransformedWell
  <2>6. /\ reps \in Seq(Rep) /\ b.reps \in Seq(Rep) /\ x.reps \in Seq(Rep)
        /\ timings \in Nat /\ b.timings \in Nat /\ x.timings \in Nat
    BY <2>3, <2>5 DEF ListOK
  <2>7. Grown(reps, x.reps, c)
    BY <2>3, <2>5, <2>6, GrownTwice
  <2>8. timings <= x.timings
    BY <2>3, <2>5, <2>6
  <2>9. ASSUME NEW k \in 1 .. Len(x.reps), k > Len(reps) PROVE x.reps[k].type >= Netlist
    <3>1. CASE k > Len(b.reps)
      BY <2>5, <3>1 DEF Netlist
    <3>2. CASE ~(k > Len(b.reps))
      <4>1. k \in 1 .. Len(b.reps) /\ x.reps[k] = b.reps[k]
        BY <2>5, <2>6, <3>2 DEF Grown
      <4>2. QED BY <2>3, <2>9, <4>1
    <3>3. QED BY <3>1, <3>2
  <2>10. CASE x.thrown
    <3>1. after.reps = x.reps /\ after.timings = x.timings /\ after.thrown = x.thrown
      BY <2>2, <2>10
    <3>2. QED BY <2>5, <2>7, <2>8, <2>9, <2>10, <3>1 DEF AlongWell
  <2>11. CASE ~x.thrown
    <3>1. PICK longer : longer = Append(x.reps, x.result)
      OBVIOUS
    <3>2. /\ after.reps = longer /\ after.timings = x.timings /\ after.thrown = x.thrown
          /\ after.last = Len(x.reps) + 1
      BY <2>2, <2>11, <3>1
    <3>3. ListOK(longer, x.timings) /\ Grown(x.reps, longer, c)
      BY <2>5, <3>1, AppendKeeps
    <3>4. x.result \in Rep
      BY <2>5 DEF FitsBehind
    <3>5. /\ longer \in Seq(Rep) /\ Len(longer) = Len(x.reps) + 1 /\ Len(x.reps) \in Nat
          /\ \A i \in 1 .. Len(x.reps) : longer[i] = x.reps[i]
          /\ longer[Len(x.reps) + 1] = x.result
      BY <2>6, <3>1, <3>4, AppendFacts
    <3>6. Grown(reps, longer, c)
      BY <2>6, <2>7, <3>3, <3>5, GrownTwice
    <3>7. t >= Netlist
      BY DEF Netlist, Commands
    <3>8. ASSUME NEW k \in 1 .. Len(longer), k > Len(reps) PROVE longer[k].type >= Netlist
      <4>1. k \in 1 .. Len(x.reps) \/ k = Len(x.reps) + 1
        BY <3>5
      <4>2. QED BY <2>5, <2>9, <3>5, <3>7, <3>8, <4>1
    <3>9. /\ Len(x.reps) + 1 \in 1 .. Len(longer) /\ longer[Len(x.reps) + 1].type = t
          /\ longer[Len(x.reps) + 1].cyclic = c
      BY <2>5, <3>5
    <3>10. QED BY <2>5, <2>8, <3>2, <3>3, <3>6, <3>8, <3>9 DEF AlongWell
  <2>12. QED BY <2>5, <2>10, <2>11
<1>3. QED BY <1>1, <1>2 DEF AlongWell

\* generate: what is behind the list then was made, step by step, of a first
\* representation of some type before dst.
LEMMA GeneratedFacts ==
    ASSUME ListOK(reps, timings), NEW dst \in Netlist .. Commands,
           NEW splits \in Nat, NEW fixed \in BOOLEAN,
           \E t \in Structure .. dst - 1 : OfType(reps, t) # {},
           NEW g, g = Generated(dst, splits, fixed)
    PROVE  \E src \in Structure .. dst - 1 :
              /\ OfType(reps, src) # {}
              /\ AlongWell(g, dst, reps[FirstOf(OfType(reps, src))].cyclic)
<1> DEFINE existing == {t \in Structure .. dst - 1 : OfType(reps, t) # {}}
           src == CHOOSE t \in existing : \A u \in existing : u <= t
           Start == [reps |-> reps, timings |-> timings, last |-> FirstOf(OfType(reps, src)), thrown |-> FALSE]
           IsAlong(f, d) == f = [t \in src .. d |-> IF t = src THEN Start ELSE AlongStep(f[t - 1], t, splits, fixed)]
<1>1. Structure = 2 /\ Netlist = 3 /\ Commands = 6 /\ dst \in 3 .. 6
  BY DEF Structure, Netlist, Commands
<1>2. src \in existing
  <2>1. existing \in SUBSET Nat /\ existing # {} /\ existing \in SUBSET (2 .. dst - 1)
    BY <1>1
  <2>2. IsFiniteSet(2 .. dst - 1)
    BY <1>1, FS_Interval
  <2>3. IsFiniteSet(existing)
    BY <2>1, <2>2, FS_Subset
  <2> HIDE DEF existing
  <2>4. \E t \in existing : \A u \in existing : u <= t
    BY <2>1, <2>3, GreatestNumber
  <2>5. QED BY <2>4
<1>3. src \in 2 .. dst - 1 /\ OfType(reps, src) # {}
  BY <1>1, <1>2
<1>4. g = (CHOOSE f : IsAlong(f, dst))[dst]
  BY Zenon DEF Generated, AlongStep
<1> HIDE DEF src, existing
<1> DEFINE Next1(b, t) == AlongStep(b, t, splits, fixed)
           Without == {d \in src .. dst : ~\E f : IsAlong(f, d)}
<1>5. ASSUME NEW d \in Without PROVE \E m \in Without : m < d
  <2>1. d \in src .. dst /\ d \in Nat /\ src \in Nat /\ dst \in Nat
    BY <1>1, <1>3
  <2>2. d # src
    <3> SUFFICES ASSUME d = src PROVE FALSE
      OBVIOUS
    <3> DEFINE f == [t \in src .. src |-> Start]
    <3>1. \A t \in src .. src : t = src
      BY <2>1
    <3>2. IsAlong(f, src)
      <4> HIDE DEF Start
      <4>1. QED BY <3>1
    <3> HIDE DEF IsAlong
    <3>3. QED BY <3>2
  <2>3. d - 1 \in src .. dst /\ d - 1 < d
    BY <2>1, <2>2
  <2>4. ASSUME NEW f, IsAlong(f, d - 1) PROVE \E h : IsAlong(h, d)
    <3> HIDE DEF Start
    <3> DEFINE h == [t \in src .. d |-> IF t = d THEN Next1(f[d - 1], d) ELSE f[t]]
    <3>1. ASSUME NEW t \in src .. d
          PROVE  h[t] = IF t = src THEN Start ELSE Next1(h[t - 1], t)
      <4>1. CASE t = d
        <5>1. d - 1 \in src .. d /\ d - 1 # d
          BY <2>1, <2>3
        <5>2. h[t] = Next1(f[d - 1], d) /\ h[d - 1] = f[d - 1]
          BY <4>1, <5>1
        <5> HIDE DEF h, Next1
        <5>3. QED BY <2>2, <4>1, <5>2
      <4>2. CASE t # d
        <5>1. t \in src .. d - 1
          BY <2>1, <4>2
        <5>2. h[t] = f[t]
          BY <4>2
        <5>3. f[t] = IF t = src THEN Start ELSE Next1(f[t - 1], t)
          BY <2>4, <5>1
        <5>4. t # src => t - 1 \in src .. d /\ t - 1 # d
          BY <2>1, <5>1
        <5>5. t # src => h[t - 1] = f[t - 1]
          BY <5>4
        <5> HIDE DEF h, Next1
        <5>6. QED BY <5>2, <5>3, <5>5
      <4>3. QED BY <4>1, <4>2
    <3>2. h = [t \in src .. d |-> h[t]]
      OBVIOUS
    <3>3. h = [t \in src .. d |-> IF t = src THEN Start ELSE Next1(h[t - 1], t)]
      <4> HIDE DEF h, Next1
      <4>1. QED BY <3>1, <3>2
    <3>4. IsAlong(h, d)
      BY <3>3
    <3> HIDE DEF IsAlong, h
    <3>5. QED BY <3>4
  <2> HIDE DEF IsAlong
  <2>5. d - 1 \in Without
    BY <2>3, <2>4
  <2> HIDE DEF Without
  <2>6. QED BY <2>3, <2>5
<1>6. Without = {}
  <2>1. Without \in SUBSET Nat
    BY <1>1, <1>3
  <2> HIDE DEF Without
  <2>2. QED BY <1>5, <2>1, Descent
<1>7. dst \in src .. dst
  BY <1>1, <1>3
<1>8. \E f : IsAlong(f, dst)
  <2> HIDE DEF IsAlong
  <2>1. QED BY <1>6, <1>7
<1>9. PICK along : along = CHOOSE f : IsAlong(f, dst)
  OBVIOUS
<1>10. IsAlong(along, dst) /\ g = along[dst]
  <2> HIDE DEF IsAlong
  <2>1. QED BY <1>4, <1>8, <1>9
<1>11. /\ along[src] = Start
       /\ \A t \in src .. dst : t # src => along[t] = AlongStep(along[t - 1], t, splits, fixed)
  <2>1. src \in src .. dst
    BY <1>1, <1>3
  <2> HIDE DEF Start
  <2>2. QED BY <1>10, <2>1
<1> DEFINE c == reps[FirstOf(OfType(reps, src))].cyclic
           Wrong == {t \in src .. dst : ~AlongWell(along[t], t, c)}
<1>12. AlongWell(Start, src, c)
  <2>1. PICK first : first = FirstOf(OfType(reps, src))
    OBVIOUS
  <2>2. reps \in Seq(Rep) /\ timings \in Nat /\ DOMAIN reps = 1 .. Len(reps) /\ Len(reps) \in Nat
    BY DEF ListOK
  <2>3. first \in 1 .. Len(reps) /\ reps[first].type = src
    <3>1. OfType(reps, src) \in SUBSET Nat
      BY <2>2 DEF OfType
    <3>2. first \in OfType(reps, src)
      BY <1>3, <2>1, <3>1, FirstOfMember
    <3>3. QED BY <2>2, <3>2 DEF OfType
  <2>4. Start.reps = reps /\ Start.timings = timings /\ Start.last = first /\ Start.thrown = FALSE
    BY <2>1
  <2>5. \A k \in 1 .. Len(reps) : ~(k > Len(reps))
    BY <2>2
  <2>6. timings <= timings /\ Len(reps) <= Len(reps)
    BY <2>2
  <2>7. Grown(reps, reps, c)
    BY <2>5, <2>6 DEF Grown
  <2> HIDE DEF Start
  <2>8. QED BY <2>1, <2>3, <2>4, <2>5, <2>6, <2>7 DEF AlongWell
<1> HIDE DEF c, Start, IsAlong
<1>13. ASSUME NEW t \in Wrong PROVE \E m \in Wrong : m < t
  <2>1. t \in src .. dst /\ ~AlongWell(along[t], t, c)
    OBVIOUS
  <2>2. t # src
    BY <1>11, <1>12, <2>1
  <2>3. t \in Netlist .. Commands /\ t - 1 \in src .. dst /\ t - 1 < t
    BY <1>1, <1>3, <2>1, <2>2
  <2>4. along[t] = AlongStep(along[t - 1], t, splits, fixed)
    BY <1>11, <2>1, <2>2
  <2>5. ~AlongWell(along[t - 1], t - 1, c)
    BY <2>1, <2>3, <2>4, AlongStepWell
  <2>6. t - 1 \in Wrong
    BY <2>3, <2>5
  <2> HIDE DEF Wrong
  <2>7. QED BY <2>3, <2>6
<1>14. Wrong = {}
  <2>1. Wrong \in SUBSET Nat
    BY <1>1, <1>3
  <2> HIDE DEF Wrong
  <2>2. QED BY <1>13, <2>1, Descent
<1>15. AlongWell(g, dst, c)
  BY <1>7, <1>10, <1>14
<1>16. QED BY <1>1, <1>3, <1>15 DEF c

\* A structure that is added is perhaps followed by the netlist of the first one.
StructureAdded(s, ts, longer) ==
    /\ ListOK(longer, ts)
    /\ Len(reps) + 1 <= Len(longer)
    /\ \A k \in 1 .. Len(reps) : longer[k] = reps[k]
    /\ longer[Len(reps) + 1] = s
    /\ \A k \in 1 .. Len(longer) : k > Len(reps) + 1 =>
          /\ longer[k].type = Netlist
          /\ reps = <<>> => longer[k].cyclic = s.cyclic
          /\ reps # <<>> /\ reps[1].type = Structure => longer[k].cyclic = reps[1].cyclic

\* addRepresentation adds a structure like that.
LEMMA StructureFacts ==
    ASSUME NEW ts, ListOK(reps, ts), NEW s, FitsBehind(reps, ts, s), s.type = Structure,
           NEW added, AddedWell(reps, ts, s, added)
    PROVE  StructureAdded(s, ts, added.reps)
<1>1. PICK once : once = Append(reps, s)
  OBVIOUS
<1>2. reps \in Seq(Rep) /\ s \in Rep
  BY DEF ListOK, FitsBehind
<1>3. /\ once \in Seq(Rep) /\ Len(once) = Len(reps) + 1 /\ Len(reps) \in Nat
      /\ \A k \in 1 .. Len(reps) : once[k] = reps[k]
      /\ once[Len(reps) + 1] = s
  BY <1>1, <1>2, AppendFacts
<1>4. ListOK(added.reps, ts)
  BY DEF AddedWell
<1>5. CASE added.reps = once
  BY <1>3, <1>4, <1>5 DEF StructureAdded
<1>6. CASE added.reps = Append(once, FirstNetlist(once))
  <2>1. PICK netlist : netlist = FirstNetlist(once)
    OBVIOUS
  <2>2. PICK first : first = FirstOf(OfType(once, Structure))
    OBVIOUS
  <2>3. OfType(once, Structure) # {}
    <3>1. Len(reps) + 1 \in DOMAIN once
      BY <1>3
    <3>2. QED BY <1>3, <3>1 DEF OfType
  <2>4. first \in 1 .. Len(once) /\ (once[1].type = Structure => first = 1)
    BY <1>3, <2>2, <2>3, FirstStructure
  <2>5. netlist = Child(once, first, Netlist, once[first].timing, FALSE)
    BY <2>1, <2>2 DEF FirstNetlist
  <2>6. netlist.type = Netlist /\ netlist.cyclic = once[first].cyclic
    BY <2>5 DEF Child
  <2>7. once[first] \in Rep /\ first \in Nat
    BY <1>3, <2>4
  <2>8. netlist \in Rep
    <3>1. once[first].timing \in Nat /\ once[first].cyclic \in BOOLEAN /\ Netlist \in 0 .. 6
      BY <2>7 DEF Rep, Netlist
    <3>2. QED BY <2>5, <2>7, <3>1 DEF Child, Rep
  <2>9. reps = <<>> => netlist.cyclic = s.cyclic
    <3> SUFFICES ASSUME reps = <<>> PROVE netlist.cyclic = s.cyclic
      OBVIOUS
    <3>1. Len(once) = 1 /\ once[1] = s
      BY <1>3
    <3>2. QED BY <2>4, <2>6, <3>1
  <2>10. reps # <<>> /\ reps[1].type = Structure => netlist.cyclic = reps[1].cyclic
    <3> SUFFICES ASSUME reps # <<>>, reps[1].type = Structure PROVE netlist.cyclic = reps[1].cyclic
      OBVIOUS
    <3>1. 1 \in 1 .. Len(reps)
      BY <1>2
    <3>2. QED BY <1>3, <2>4, <2>6, <3>1
  <2>11. PICK longer : longer = Append(once, netlist)
    OBVIOUS
  <2>12. /\ longer \in Seq(Rep) /\ Len(longer) = Len(once) + 1
         /\ \A k \in 1 .. Len(once) : longer[k] = once[k]
         /\ longer[Len(once) + 1] = netlist
    BY <1>3, <2>8, <2>11, AppendFacts
  <2>13. Len(reps) + 1 <= Len(longer) /\ longer[Len(reps) + 1] = s
    BY <1>3, <2>12
  <2>14. \A k \in 1 .. Len(reps) : longer[k] = reps[k]
    BY <1>3, <2>12
  <2>15. \A k \in 1 .. Len(longer) : k > Len(reps) + 1 => longer[k] = netlist
    BY <1>3, <2>12
  <2>16. added.reps = longer
    BY <1>6, <2>1, <2>11
  <2>17. QED BY <1>4, <2>6, <2>9, <2>10, <2>13, <2>14, <2>15, <2>16 DEF StructureAdded
<1>7. QED BY <1>1, <1>5, <1>6 DEF AddedWell, Netlist, Structure

\* Behaviors behind a list in order: they have no parent, and no timing of
\* their own.
LEMMA BehaviorsFit ==
    ASSUME NEW rs, NEW ts, ListOK(rs, ts), NEW more \in Seq(Rep),
           \A j \in 1 .. Len(more) : more[j].type = TimedBehavior /\ more[j].parent = 0 /\ more[j].timing <= ts
    PROVE  /\ ListOK(rs \o more, ts)
           /\ Len(rs \o more) = Len(rs) + Len(more)
           /\ \A k \in 1 .. Len(rs) : (rs \o more)[k] = rs[k]
           /\ \A k \in 1 .. Len(rs \o more) : k > Len(rs) => (rs \o more)[k].type = TimedBehavior
<1>1. PICK longer : longer = rs \o more
  OBVIOUS
<1>2. rs \in Seq(Rep) /\ Len(rs) \in Nat /\ Len(more) \in Nat /\ ts \in Nat
  BY DEF ListOK
<1>3. /\ longer \in Seq(Rep) /\ Len(longer) = Len(rs) + Len(more)
      /\ \A k \in 1 .. Len(rs) : longer[k] = rs[k]
      /\ \A j \in 1 .. Len(more) : longer[Len(rs) + j] = more[j]
  BY <1>1, <1>2
<1>4. ASSUME NEW k \in 1 .. Len(longer), k > Len(rs)
      PROVE  longer[k].type = TimedBehavior /\ longer[k].parent = 0 /\ longer[k].timing <= ts
  <2>1. PICK j : j = k - Len(rs)
    OBVIOUS
  <2>2. j \in 1 .. Len(more) /\ k = Len(rs) + j
    BY <1>2, <1>3, <1>4, <2>1
  <2>3. QED BY <1>3, <2>2
<1>5. ASSUME NEW k \in 1 .. Len(longer)
      PROVE  /\ longer[k].parent < k
             /\ longer[k].timing <= ts
             /\ longer[k].parent # 0 => MadeFrom(longer[k], longer[longer[k].parent])
  <2>1. CASE k \in 1 .. Len(rs)
    <3>1. /\ rs[k].parent < k /\ rs[k].timing <= ts /\ rs[k] \in Rep
          /\ rs[k].parent # 0 => MadeFrom(rs[k], rs[rs[k].parent])
      BY <2>1 DEF ListOK
    <3>2. rs[k].parent \in Nat
      BY <3>1 DEF Rep
    <3>3. rs[k].parent # 0 => rs[k].parent \in 1 .. Len(rs)
      BY <1>2, <2>1, <3>1, <3>2
    <3>4. QED BY <1>3, <2>1, <3>1, <3>3
  <2>2. CASE k > Len(rs)
    BY <1>4, <2>2
  <2>3. QED BY <1>2, <1>3, <2>1, <2>2
<1>6. ASSUME NEW k \in 1 .. Len(longer), Starts(longer[k])
      PROVE  k \in 1 .. Len(rs) /\ longer[k] = rs[k]
  <2>1. ~(k > Len(rs))
    BY <1>4, <1>6 DEF Starts
  <2>2. QED BY <1>2, <1>3, <2>1
<1>7. ListOK(longer, ts)
  <2>1. ASSUME NEW k \in 1 .. Len(longer), NEW l \in 1 .. Len(longer),
               Starts(longer[k]), Starts(longer[l]), longer[k].timing = longer[l].timing
        PROVE  k = l
    <3>1. /\ k \in 1 .. Len(rs) /\ l \in 1 .. Len(rs) /\ longer[k] = rs[k] /\ longer[l] = rs[l]
      BY <1>6, <2>1
    <3>2. QED BY <2>1, <3>1 DEF ListOK
  <2>2. QED BY <1>2, <1>3, <1>5, <2>1 DEF ListOK
<1>8. QED BY <1>1, <1>3, <1>4, <1>7

-----------------------------------------------------------------------------
(* The invariant                                                            *)

\* A new entity, and EInverter with its netlist and its behavior.
LEMMA InitEInv == Init => EInv
<1> SUFFICES ASSUME Init PROVE EInv
  OBVIOUS
<1>1. kind \in Kinds /\ accepted = {} /\ names = {} /\ failed = "none"
  BY DEF Init
<1>2. CASE kind = "builtin"
  <2>1. phase = "listed" /\ reps = BuiltinRepresentations /\ timings = 1
    BY <1>2 DEF Init
  <2>2. PICK a : a = [type |-> 3, parent |-> 0, timing |-> 1, cyclic |-> FALSE, altered |-> FALSE]
    OBVIOUS
  <2>3. PICK b : b = [type |-> 0, parent |-> 0, timing |-> 1, cyclic |-> FALSE, altered |-> FALSE]
    OBVIOUS
  <2>4. reps = <<a, b>>
    BY <2>1, <2>2, <2>3 DEF BuiltinRepresentations, Parentless, Netlist, TimedBehavior
  <2>5. a \in Rep /\ b \in Rep
    BY <2>2, <2>3 DEF Rep
  <2>6. reps \in Seq(Rep) /\ Len(reps) = 2 /\ reps[1] = a /\ reps[2] = b
    BY <2>4, <2>5
  <2>7. a.type = 3 /\ a.parent = 0 /\ a.timing = 1 /\ b.type = 0 /\ b.parent = 0 /\ b.timing = 1
    BY ONLY <2>2, <2>3
  <2>8. \A k \in 1 .. Len(reps) : k = 1 \/ k = 2
    BY <2>6
  <2>9. ~Starts(b)
    BY <2>7 DEF Starts, TimedBehavior
  <2>10. \A k \in 1 .. Len(reps) : reps[k].parent = 0 /\ reps[k].timing = 1 /\ (Starts(reps[k]) => k = 1)
    BY <2>6, <2>7, <2>8, <2>9
  <2>11. \A k \in 1 .. Len(reps) : 0 < k
    OBVIOUS
  <2>12. ListOK(reps, timings)
    BY <2>1, <2>6, <2>10, <2>11 DEF ListOK
  <2>13. BeginsWell
    BY <1>2, <2>1, <2>6, <2>7 DEF BeginsWell, Netlist
  <2>14. StaysAcyclic
    BY <1>2 DEF StaysAcyclic
  <2>15. QED BY <1>1, <2>1, <2>12, <2>13, <2>14 DEF EInv
<1>3. CASE kind # "builtin"
  <2>1. phase = "open" /\ reps = <<>> /\ timings = 0
    BY <1>3 DEF Init
  <2>2. reps \in Seq(Rep) /\ 1 .. Len(reps) = {}
    BY <2>1
  <2>3. ListOK(reps, timings)
    BY <2>1, <2>2 DEF ListOK
  <2>4. QED BY <1>1, <1>3, <2>1, <2>3 DEF EInv, BeginsWell, StaysAcyclic
<1>4. QED BY <1>2, <1>3

\* What the invariant says of the list and its type.
LEMMA EInvList ==
    ASSUME EInv
    PROVE  /\ reps \in Seq(Rep) /\ timings \in Nat /\ DOMAIN reps = 1 .. Len(reps) /\ Len(reps) \in Nat
           /\ \A k \in 1 .. Len(reps) : reps[k] \in Rep
           /\ \A k \in accepted : k \in 1 .. Len(reps) /\ reps[k].type = Structure
<1>1. reps \in Seq(Rep) /\ timings \in Nat /\ accepted \subseteq OfType(reps, Structure)
  BY DEF EInv, ListOK
<1>2. DOMAIN reps = 1 .. Len(reps) /\ Len(reps) \in Nat /\ \A k \in 1 .. Len(reps) : reps[k] \in Rep
  BY <1>1
<1>3. QED BY <1>1, <1>2 DEF OfType

\* A list that begins as the one before keeps what was accepted of it.
LEMMA AcceptedStay ==
    ASSUME EInv, NEW longer \in Seq(Rep), Len(reps) <= Len(longer),
           \A k \in 1 .. Len(reps) : longer[k] = reps[k]
    PROVE  accepted \subseteq OfType(longer, Structure)
<1>1. Len(reps) \in Nat /\ Len(longer) \in Nat /\ DOMAIN longer = 1 .. Len(longer)
  BY EInvList
<1>2. \A k \in accepted : k \in 1 .. Len(reps) /\ reps[k].type = Structure
  BY EInvList
<1>3. \A k \in accepted : k \in 1 .. Len(longer) /\ longer[k].type = Structure
  BY <1>1, <1>2
<1>4. QED BY <1>1, <1>3 DEF OfType

\* A new structure may follow any list that is in order: its timing is new.
LEMMA NewStructureFits ==
    ASSUME EInv, NEW cyclic \in BOOLEAN, NEW s, s = Parentless(Structure, timings + 1, cyclic)
    PROVE  /\ ListOK(reps, timings + 1) /\ FitsBehind(reps, timings + 1, s)
           /\ s.type = Structure /\ s.cyclic = cyclic /\ s.timing = timings + 1
<1>1. /\ reps \in Seq(Rep) /\ timings \in Nat /\ DOMAIN reps = 1 .. Len(reps) /\ Len(reps) \in Nat
      /\ \A k \in 1 .. Len(reps) : reps[k] \in Rep
  BY EInvList
<1>2. ListOK(reps, timings)
  BY DEF EInv
<1>3. ListOK(reps, timings + 1)
  BY <1>1, <1>2, MoreTimings
<1>4. s = [type |-> 2, parent |-> 0, timing |-> timings + 1, cyclic |-> cyclic, altered |-> FALSE]
  BY DEF Parentless, Structure
<1>5. s \in Rep /\ s.type = 2 /\ s.parent = 0 /\ s.timing = timings + 1 /\ s.cyclic = cyclic
  <2>1. timings + 1 \in Nat /\ 2 \in 0 .. 6 /\ 0 \in Nat /\ FALSE \in BOOLEAN
    BY <1>1
  <2>2. s.type = 2 /\ s.parent = 0 /\ s.timing = timings + 1 /\ s.cyclic = cyclic /\ s.altered = FALSE
    BY <1>4
  <2>3. s.cyclic \in BOOLEAN
    BY <2>2
  <2>4. s = [type |-> s.type, parent |-> s.parent, timing |-> s.timing, cyclic |-> s.cyclic, altered |-> s.altered]
    BY Zenon, <1>4, <2>2
  <2>5. s \in Rep
    BY ONLY <2>1, <2>2, <2>3, <2>4 DEF Rep
  <2>6. QED BY <2>2, <2>5
<1>6. ASSUME NEW k \in 1 .. Len(reps) PROVE reps[k].timing # timings + 1
  <2>1. reps[k].timing <= timings
    BY <1>2 DEF ListOK
  <2>2. reps[k].timing \in Nat
    BY <1>1 DEF Rep
  <2>3. QED BY <1>1, <2>1, <2>2
<1>7. FitsBehind(reps, timings + 1, s)
  BY <1>1, <1>5, <1>6 DEF FitsBehind
<1>8. QED BY <1>3, <1>5, <1>7 DEF Structure

\* Structures: whatever the verdict, the list stays in order; what a stateless
\* entity accepts at first has no cycles, and later its netlist is that of the
\* first structure.
LEMMA FinalizeKeeps ==
    ASSUME EInv, NEW cyclic \in BOOLEAN, NEW behaviors \in Behaviors, FinalizeStructure(cyclic, behaviors)
    PROVE  EInv'
<1>1. PICK s : s = Parentless(Structure, timings + 1, cyclic)
  OBVIOUS
<1>2. PICK added : added = AddRepresentation(reps, s)
  OBVIOUS
<1>3. PICK behave : behave = [j \in DOMAIN behaviors |->
            Parentless(TimedBehavior, IF behaviors[j] = "timed" THEN timings + 1 ELSE 0, FALSE)]
  OBVIOUS
<1>4. /\ failed = "none" /\ phase # "dropped"
      /\ timings' = timings + 1 /\ kind' = kind /\ names' = names /\ failed' = failed
  BY DEF FinalizeStructure, Usable
<1>5. \/ /\ added.verdict = "none"
         /\ reps' = added.reps \o behave
         /\ accepted' = accepted \cup {Len(reps) + 1}
         /\ phase' = "listed"
      \/ /\ added.verdict = "cycles"
         /\ reps' = added.reps
         /\ phase' = IF phase = "open" THEN "dropped" ELSE phase
         /\ accepted' = accepted
  BY <1>1, <1>2, <1>3 DEF FinalizeStructure
<1>6. /\ ListOK(reps, timings + 1) /\ FitsBehind(reps, timings + 1, s)
      /\ s.type = Structure /\ s.cyclic = cyclic /\ s.timing = timings + 1
  BY <1>1, NewStructureFits
<1>7. AddedWell(reps, timings + 1, s, added)
  BY <1>2, <1>6, AddFacts
<1>8. /\ kind \in Kinds /\ phase \in {"open", "listed"} /\ names \subseteq Names /\ BeginsWell /\ StaysAcyclic
      /\ accepted \subseteq OfType(reps, Structure)
  BY <1>4 DEF EInv
<1>9. /\ reps \in Seq(Rep) /\ timings \in Nat /\ DOMAIN reps = 1 .. Len(reps) /\ Len(reps) \in Nat
      /\ \A k \in 1 .. Len(reps) : reps[k] \in Rep
  BY EInvList
<1>10. PICK R : R = added.reps
  OBVIOUS
<1>11. StructureAdded(s, timings + 1, R)
  BY <1>6, <1>7, <1>10, StructureFacts
<1>12. R \in Seq(Rep) /\ DOMAIN R = 1 .. Len(R) /\ Len(R) \in Nat /\ Len(reps) + 1 <= Len(R)
  BY <1>11 DEF StructureAdded, ListOK
<1>13. /\ behave \in Seq(Rep)
       /\ \A j \in 1 .. Len(behave) :
             behave[j].type = TimedBehavior /\ behave[j].parent = 0 /\ behave[j].timing <= timings + 1
  <2>1. Len(behaviors) \in Nat /\ DOMAIN behaviors = 1 .. Len(behaviors)
    BY DEF Behaviors
  <2>2. ASSUME NEW j \in 1 .. Len(behaviors)
        PROVE  /\ behave[j] \in Rep /\ behave[j].type = TimedBehavior /\ behave[j].parent = 0
               /\ behave[j].timing <= timings + 1
    <3>1. PICK w : w = IF behaviors[j] = "timed" THEN timings + 1 ELSE 0
      OBVIOUS
    <3>2. w \in Nat /\ w <= timings + 1
      BY <1>9, <3>1
    <3>3. behave[j] = [type |-> 0, parent |-> 0, timing |-> w, cyclic |-> FALSE, altered |-> FALSE]
      BY <1>3, <2>1, <3>1 DEF Parentless, TimedBehavior
    <3>4. QED BY <3>2, <3>3 DEF Rep, TimedBehavior
  <2>3. behave = [j \in 1 .. Len(behaviors) |-> behave[j]]
    BY <1>3, <2>1
  <2>4. behave \in [1 .. Len(behaviors) -> Rep]
    BY <2>2, <2>3
  <2>5. behave \in Seq(Rep) /\ Len(behave) = Len(behaviors)
    BY <2>1, <2>4
  <2>6. QED BY <2>2, <2>5
\* The new list: R, perhaps with behaviors behind it.
<1>14. /\ ListOK(reps', timings + 1)
       /\ Len(R) <= Len(reps') /\ DOMAIN reps' = 1 .. Len(reps') /\ Len(reps') \in Nat /\ reps' \in Seq(Rep)
       /\ \A k \in 1 .. Len(R) : reps'[k] = R[k]
       /\ \A k \in 1 .. Len(reps') : k > Len(R) => reps'[k].type = TimedBehavior
  <2>1. ListOK(R, timings + 1)
    BY <1>11 DEF StructureAdded
  <2>2. CASE reps' = R
    BY <1>12, <2>1, <2>2
  <2>3. CASE reps' = R \o behave
    <3>1. /\ ListOK(R \o behave, timings + 1)
          /\ Len(R \o behave) = Len(R) + Len(behave)
          /\ \A k \in 1 .. Len(R) : (R \o behave)[k] = R[k]
          /\ \A k \in 1 .. Len(R \o behave) : k > Len(R) => (R \o behave)[k].type = TimedBehavior
      BY <1>13, <2>1, BehaviorsFit
    <3>2. PICK longer : longer = R \o behave
      OBVIOUS
    <3>3. longer \in Seq(Rep) /\ Len(longer) \in Nat /\ DOMAIN longer = 1 .. Len(longer) /\ Len(R) <= Len(longer)
      <4>1. longer \in Seq(Rep)
        BY <1>12, <1>13, <3>2
      <4>2. Len(behave) \in Nat /\ Len(longer) = Len(R) + Len(behave)
        BY <1>13, <3>1, <3>2
      <4>3. QED BY <1>12, <4>1, <4>2
    <3>4. QED BY <2>3, <3>1, <3>2, <3>3
  <2>4. QED BY <1>5, <1>10, <2>2, <2>3
<1>15. /\ \A k \in 1 .. Len(reps) : reps'[k] = reps[k]
       /\ Len(reps) + 1 \in 1 .. Len(reps') /\ reps'[Len(reps) + 1] = s
       /\ \A k \in 1 .. Len(reps') : k > Len(reps) + 1 /\ reps'[k].type >= Netlist =>
             /\ reps = <<>> => reps'[k].cyclic = s.cyclic
             /\ reps # <<>> /\ reps[1].type = Structure => reps'[k].cyclic = reps[1].cyclic
  <2>1. \A k \in 1 .. Len(reps) : k \in 1 .. Len(R) /\ R[k] = reps[k]
    BY <1>9, <1>11, <1>12 DEF StructureAdded
  <2>2. Len(reps) + 1 \in 1 .. Len(R) /\ R[Len(reps) + 1] = s /\ Len(reps) + 1 \in 1 .. Len(reps')
    BY <1>9, <1>11, <1>12, <1>14 DEF StructureAdded
  <2>3. ASSUME NEW k \in 1 .. Len(reps'), k > Len(reps) + 1, reps'[k].type >= Netlist
        PROVE  /\ reps = <<>> => reps'[k].cyclic = s.cyclic
               /\ reps # <<>> /\ reps[1].type = Structure => reps'[k].cyclic = reps[1].cyclic
    <3>1. ~(k > Len(R))
      BY <1>14, <2>3 DEF Netlist, TimedBehavior
    <3>2. k \in 1 .. Len(R) /\ reps'[k] = R[k]
      BY <1>12, <1>14, <3>1
    <3>3. QED BY <1>11, <2>3, <3>2 DEF StructureAdded
  <2>4. QED BY <1>14, <2>1, <2>2, <2>3
<1>16. accepted' \subseteq OfType(reps', Structure)
  <2>1. accepted \subseteq OfType(reps', Structure)
    <3>1. Len(reps) <= Len(reps')
      BY <1>9, <1>12, <1>14
    <3>2. QED BY <1>14, <1>15, <3>1, AcceptedStay
  <2>2. Len(reps) + 1 \in OfType(reps', Structure)
    BY <1>6, <1>14, <1>15 DEF OfType
  <2>3. QED BY <1>5, <2>1, <2>2
<1>17. phase' \in {"listed", "dropped"} /\ (phase' = "listed" /\ phase = "open" => added.verdict = "none")
  BY <1>5, <1>8
<1>18. CASE phase = "open"
  <2>1. reps = <<>> /\ timings = 0 /\ kind # "builtin" /\ Len(reps) = 0
    BY <1>8, <1>18 DEF BeginsWell
  <2>2. reps'[1] = s /\ Len(reps') > 0 /\ 1 \in 1 .. Len(reps') /\ s.timing = 1
    BY <1>6, <1>14, <1>15, <2>1
  <2>3. BeginsWell'
    BY <1>4, <1>6, <1>17, <2>1, <2>2 DEF BeginsWell
  <2>4. ASSUME kind = "stateless", phase' = "listed" PROVE ~s.cyclic
    BY <1>6, <1>7, <1>17, <1>18, <2>1, <2>4 DEF AddedWell, isStateless
  <2>5. ASSUME NEW k \in 1 .. Len(reps'), reps'[k].type >= Netlist PROVE reps'[k].cyclic = s.cyclic
    <3>1. k = 1 \/ k > Len(reps) + 1
      BY <2>1
    <3>2. QED BY <1>15, <2>1, <2>2, <2>5, <3>1
  <2>6. \A k \in DOMAIN reps' : reps'[k].type >= TreeModel \/ reps'[k].type = Netlist => reps'[k].type >= Netlist
    <3>1. \A k \in 1 .. Len(reps') : reps'[k] \in Rep
      BY <1>14
    <3>2. \A k \in 1 .. Len(reps') : reps'[k].type \in 0 .. 6
      BY ONLY <3>1 DEF Rep
    <3>3. QED BY ONLY <1>14, <3>2 DEF TreeModel, Netlist
  <2>7. StaysAcyclic'
    BY <1>4, <1>14, <2>2, <2>4, <2>5, <2>6 DEF StaysAcyclic
  <2>8. QED BY <1>4, <1>8, <1>14, <1>16, <1>17, <2>3, <2>7 DEF EInv
<1>19. CASE phase = "listed"
  <2>1. /\ Len(reps) > 0 /\ (kind = "builtin" => reps[1].type = Netlist)
        /\ kind # "builtin" => reps[1].type = Structure /\ reps[1].timing = 1
    BY <1>8, <1>19 DEF BeginsWell
  <2>2. phase' = "listed"
    BY <1>5, <1>19
  <2>3. 1 \in 1 .. Len(reps) /\ reps'[1] = reps[1] /\ Len(reps') > 0 /\ reps # <<>>
    BY <1>9, <1>14, <1>15, <2>1
  <2>4. BeginsWell'
    BY <1>4, <2>1, <2>2, <2>3 DEF BeginsWell
  <2>5. ASSUME kind = "stateless", NEW k \in 1 .. Len(reps'), reps'[k].type >= Netlist
        PROVE  ~reps'[k].cyclic
    <3>1. /\ ~reps[1].cyclic
          /\ \A i \in 1 .. Len(reps) : reps[i].type >= TreeModel \/ reps[i].type = Netlist => ~reps[i].cyclic
      BY <1>4, <1>8, <1>9, <1>19, <2>5 DEF StaysAcyclic
    <3>2. CASE k \in 1 .. Len(reps)
      <4>1. reps[k].type >= TreeModel \/ reps[k].type = Netlist
        <5>1. reps[k] \in Rep /\ reps[k].type >= Netlist
          BY <1>9, <1>15, <2>5, <3>2
        <5>2. QED BY <5>1 DEF Rep, TreeModel, Netlist
      <4>2. QED BY <1>15, <3>1, <3>2, <4>1
    <3>3. CASE k = Len(reps) + 1
      BY <1>6, <1>15, <2>5, <3>3 DEF Netlist, Structure
    <3>4. CASE k > Len(reps) + 1
      BY <1>15, <2>1, <2>3, <2>5, <3>1, <3>4
    <3>5. QED BY <1>9, <3>2, <3>3, <3>4
  <2>6. \A k \in DOMAIN reps' : reps'[k].type >= TreeModel \/ reps'[k].type = Netlist => reps'[k].type >= Netlist
    <3>1. \A k \in 1 .. Len(reps') : reps'[k] \in Rep
      BY <1>14
    <3>2. \A k \in 1 .. Len(reps') : reps'[k].type \in 0 .. 6
      BY ONLY <3>1 DEF Rep
    <3>3. QED BY ONLY <1>14, <3>2 DEF TreeModel, Netlist
  <2>7. kind = "stateless" => ~reps[1].cyclic
    BY <1>8, <1>19 DEF StaysAcyclic
  <2>8. StaysAcyclic'
    BY <1>4, <1>14, <2>3, <2>5, <2>6, <2>7 DEF StaysAcyclic
  <2>9. QED BY <1>4, <1>8, <1>14, <1>16, <2>2, <2>4, <2>8 DEF EInv
<1>20. QED BY <1>8, <1>18, <1>19

\* A list that only grew begins as well as the one before.
LEMMA GrownBegins ==
    ASSUME EInv, phase = "listed", NEW longer \in Seq(Rep), NEW c, Grown(reps, longer, c)
    PROVE  /\ Len(reps) > 0 /\ Len(longer) > 0 /\ longer[1] = reps[1]
           /\ kind = "builtin" => longer[1].type = Netlist
           /\ kind # "builtin" => longer[1].type = Structure /\ longer[1].timing = 1
           /\ accepted \subseteq OfType(longer, Structure)
<1>1. reps \in Seq(Rep) /\ Len(reps) \in Nat /\ Len(longer) \in Nat
  BY EInvList
<1>2. /\ Len(reps) > 0
      /\ kind = "builtin" => reps[1].type = Netlist
      /\ kind # "builtin" => reps[1].type = Structure /\ reps[1].timing = 1
  BY DEF EInv, BeginsWell
<1>3. Len(reps) <= Len(longer) /\ \A k \in 1 .. Len(reps) : longer[k] = reps[k]
  BY DEF Grown
<1>4. Len(longer) > 0 /\ longer[1] = reps[1]
  BY <1>1, <1>2, <1>3
<1>5. accepted \subseteq OfType(longer, Structure)
  BY <1>3, AcceptedStay
<1>6. QED BY <1>2, <1>4, <1>5

\* The list of a usable stateless entity: from Netlist on nothing has cycles.
LEMMA NoneCyclic ==
    ASSUME EInv, kind = "stateless", phase = "listed", failed = "none"
    PROVE  /\ ~reps[1].cyclic
           /\ \A k \in 1 .. Len(reps) : reps[k].type >= Netlist => ~reps[k].cyclic
<1>1. /\ DOMAIN reps = 1 .. Len(reps)
      /\ \A k \in 1 .. Len(reps) : reps[k] \in Rep
  BY EInvList
<1>2. /\ ~reps[1].cyclic
      /\ \A k \in 1 .. Len(reps) : reps[k].type >= TreeModel \/ reps[k].type = Netlist => ~reps[k].cyclic
  BY <1>1 DEF EInv, StaysAcyclic
<1>3. \A k \in 1 .. Len(reps) : reps[k].type >= Netlist => reps[k].type >= TreeModel \/ reps[k].type = Netlist
  BY <1>1 DEF Rep, Netlist, TreeModel
<1>4. QED BY <1>2, <1>3

\* generate: the source has no cycles if the entity is stateless, so nothing
\* made of it has, thrown or not.
LEMMA GetKeeps ==
    ASSUME EInv, NEW type \in {Netlist, Commands}, NEW splits \in Nat, NEW fixed \in BOOLEAN,
           GetRepresentation(type, splits, fixed)
    PROVE  EInv'
<1>1. PICK g : g = Generated(type, splits, fixed)
  OBVIOUS
<1>2. /\ failed = "none" /\ phase = "listed" /\ OfType(reps, type) = {}
      /\ reps' = g.reps /\ timings' = g.timings
      /\ failed' = IF g.thrown THEN "unexpected exception" ELSE failed
      /\ kind' = kind /\ phase' = phase /\ accepted' = accepted /\ names' = names
  BY <1>1 DEF GetRepresentation, Usable
<1>3. /\ reps \in Seq(Rep) /\ timings \in Nat /\ DOMAIN reps = 1 .. Len(reps) /\ Len(reps) \in Nat
      /\ \A k \in 1 .. Len(reps) : reps[k] \in Rep
  BY EInvList
<1>4. /\ ListOK(reps, timings) /\ kind \in Kinds /\ names \subseteq Names
      /\ Len(reps) > 0
      /\ kind = "builtin" => reps[1].type = Netlist
      /\ kind # "builtin" => reps[1].type = Structure
  BY <1>2 DEF EInv, BeginsWell
<1>5. 1 \in DOMAIN reps
  BY <1>3, <1>4
<1>6. \E t \in Structure .. type - 1 : OfType(reps, t) # {}
  <2>1. CASE kind = "builtin"
    <3>1. 1 \in OfType(reps, Netlist)
      BY <1>4, <1>5, <2>1 DEF OfType
    <3>2. type = Commands
      BY <1>2, <3>1
    <3>3. Netlist \in Structure .. type - 1
      BY <3>2 DEF Netlist, Structure, Commands
    <3>4. QED BY <3>1, <3>3
  <2>2. CASE kind # "builtin"
    <3>1. 1 \in OfType(reps, Structure)
      BY <1>4, <1>5, <2>2 DEF OfType
    <3>2. Structure \in Structure .. type - 1
      BY DEF Netlist, Structure, Commands
    <3>3. QED BY <3>1, <3>2
  <2>3. QED BY <2>1, <2>2
<1>7. type \in Netlist .. Commands
  BY DEF Netlist, Commands
<1>8. PICK src \in Structure .. type - 1 :
          /\ OfType(reps, src) # {}
          /\ AlongWell(g, type, reps[FirstOf(OfType(reps, src))].cyclic)
  BY <1>1, <1>4, <1>6, <1>7, GeneratedFacts
<1>9. PICK first : first = FirstOf(OfType(reps, src))
  OBVIOUS
<1>10. first \in 1 .. Len(reps) /\ reps[first].type = src
  <2>1. OfType(reps, src) \in SUBSET Nat
    BY <1>3 DEF OfType
  <2>2. first \in OfType(reps, src)
    BY <1>8, <1>9, <2>1, FirstOfMember
  <2>3. QED BY <1>3, <2>2 DEF OfType
<1>11. /\ ListOK(g.reps, g.timings)
       /\ Grown(reps, g.reps, reps[first].cyclic)
       /\ g.thrown \in BOOLEAN
  BY <1>8, <1>9 DEF AlongWell
<1>12. g.reps \in Seq(Rep) /\ DOMAIN g.reps = 1 .. Len(g.reps) /\ Len(g.reps) \in Nat
  BY <1>11 DEF ListOK
<1>13. /\ Len(g.reps) > 0 /\ g.reps[1] = reps[1]
       /\ kind = "builtin" => g.reps[1].type = Netlist
       /\ kind # "builtin" => g.reps[1].type = Structure /\ g.reps[1].timing = 1
       /\ accepted \subseteq OfType(g.reps, Structure)
  BY <1>2, <1>11, <1>12, GrownBegins
<1>14. BeginsWell'
  BY <1>2, <1>13 DEF BeginsWell
<1>15. ASSUME kind = "stateless" PROVE ~reps[first].cyclic
  <2>1. CASE src = Structure
    <3>1. kind # "builtin"
      BY <1>15
    <3>2. first = 1
      BY <1>3, <1>4, <1>8, <1>9, <2>1, <3>1, FirstStructure
    <3>3. QED BY <1>2, <1>15, <3>2, NoneCyclic
  <2>2. CASE src # Structure
    <3>1. reps[first].type >= Netlist
      BY <1>10, <2>2 DEF Structure, Netlist, Commands
    <3>2. QED BY <1>2, <1>10, <1>15, <3>1, NoneCyclic
  <2>3. QED BY <2>1, <2>2
<1>16. ASSUME kind = "stateless", NEW k \in 1 .. Len(g.reps), g.reps[k].type >= Netlist
       PROVE  ~g.reps[k].cyclic
  <2>1. CASE k > Len(reps)
    BY <1>11, <1>15, <1>16, <2>1 DEF Grown
  <2>2. CASE ~(k > Len(reps))
    <3>1. k \in 1 .. Len(reps) /\ g.reps[k] = reps[k]
      BY <1>3, <1>11, <2>2 DEF Grown
    <3>2. QED BY <1>2, <1>16, <3>1, NoneCyclic
  <2>3. QED BY <2>1, <2>2
<1>17. \A k \in 1 .. Len(g.reps) : g.reps[k].type >= TreeModel \/ g.reps[k].type = Netlist => g.reps[k].type >= Netlist
  <2>1. ASSUME NEW k \in 1 .. Len(g.reps)
        PROVE  g.reps[k].type >= TreeModel \/ g.reps[k].type = Netlist => g.reps[k].type >= Netlist
    <3>1. g.reps[k] \in Rep
      BY <1>12
    <3>2. g.reps[k].type \in Int
      BY <3>1 DEF Rep
    <3>3. QED BY <3>2 DEF TreeModel, Netlist
  <2>2. QED BY <2>1
<1>18. kind = "stateless" => ~reps[1].cyclic
  BY <1>2, NoneCyclic
<1>19. StaysAcyclic'
  BY <1>2, <1>12, <1>13, <1>16, <1>17, <1>18 DEF StaysAcyclic
<1>20. failed' \in {"none", "no netlist", "unexpected exception"}
  BY <1>2
<1>21. QED BY <1>2, <1>4, <1>11, <1>13, <1>14, <1>19, <1>20 DEF EInv

\* Transform: netlists of splits are made of a netlist, which has no cycles in a
\* stateless entity; the result has none either, or is a netlist and is checked.
LEMMA TransformKeeps ==
    ASSUME EInv, NEW i \in DOMAIN reps, NEW splits \in Nat, NEW fixed \in BOOLEAN,
           NEW name \in Names \cup {NoName}, Transform(i, splits, fixed, name)
    PROVE  EInv'
<1>1. PICK type : type = reps[i].type + 1
  OBVIOUS
<1>2. PICK x : x = Transformed(reps, timings, i, type, splits, fixed)
  OBVIOUS
<1>3. PICK added : added = AddRepresentation(x.reps, x.result)
  OBVIOUS
<1>4. /\ failed = "none" /\ phase = "listed" /\ reps[i].type \in Structure .. Blocks
      /\ timings' = x.timings
      /\ kind' = kind /\ phase' = phase /\ accepted' = accepted
  BY <1>1, <1>2 DEF Transform, Usable
<1>5. \/ /\ reps' = x.reps
         /\ failed' = "unexpected exception"
         /\ names' = names
      \/ /\ reps' = added.reps
         /\ failed' = CASE added.verdict = "none" -> failed
                       [] added.verdict = "cycles" -> "unexpected exception"
                       [] added.verdict = "no netlist" -> "no netlist"
         /\ names' = names \cup ({name} \ {NoName})
  BY Zenon, <1>1, <1>2, <1>3 DEF Transform
<1>6. /\ reps \in Seq(Rep) /\ timings \in Nat /\ DOMAIN reps = 1 .. Len(reps) /\ Len(reps) \in Nat
      /\ \A k \in 1 .. Len(reps) : reps[k] \in Rep
  BY EInvList
<1>7. ListOK(reps, timings) /\ kind \in Kinds /\ names \subseteq Names
  BY DEF EInv
<1>8. type \in Netlist .. Commands /\ reps[i].type = type - 1 /\ i \in 1 .. Len(reps)
  BY <1>1, <1>4, <1>6 DEF Netlist, Commands, Structure, Blocks
<1>9. TransformedWell(reps, timings, i, type, x)
  BY <1>2, <1>7, <1>8, TransformedFacts
<1>10. PICK c : c = reps[i].cyclic
  OBVIOUS
<1>11. /\ ListOK(x.reps, x.timings) /\ FitsBehind(x.reps, x.timings, x.result)
       /\ Grown(reps, x.reps, c)
       /\ type # TreeModel => x.reps = reps
       /\ \A k \in 1 .. Len(x.reps) : k > Len(reps) => x.reps[k].type = Netlist
       /\ x.result.type = type /\ x.result.cyclic = c
  BY <1>9, <1>10 DEF TransformedWell
<1>12. AddedWell(x.reps, x.timings, x.result, added)
  BY <1>3, <1>11, AddFacts
<1>13. PICK longer : longer = Append(x.reps, x.result)
  OBVIOUS
<1>14. type # Structure
  BY <1>8 DEF Structure, Netlist, Commands
<1>15. /\ added.reps = longer
       /\ added.verdict \in {"none", "cycles", "no netlist"}
       /\ isStateless /\ type = Netlist /\ added.verdict = "none" => ~c
  BY <1>11, <1>12, <1>13, <1>14 DEF AddedWell
<1>16. x.reps \in Seq(Rep) /\ x.result \in Rep
  BY <1>11 DEF ListOK, FitsBehind
<1>17. /\ longer \in Seq(Rep) /\ Len(longer) = Len(x.reps) + 1 /\ Len(x.reps) \in Nat
       /\ \A k \in 1 .. Len(x.reps) : longer[k] = x.reps[k]
       /\ longer[Len(x.reps) + 1] = x.result
  BY <1>13, <1>16, AppendFacts
<1>18. ListOK(longer, x.timings) /\ Grown(x.reps, longer, c)
  BY <1>11, <1>13, AppendKeeps
<1>19. Grown(reps, longer, c)
  BY <1>6, <1>11, <1>16, <1>17, <1>18, GrownTwice
<1>20. reps' = x.reps \/ reps' = longer
  BY <1>5, <1>15
<1>21. ListOK(reps', timings') /\ Grown(reps, reps', c)
  BY <1>4, <1>11, <1>18, <1>19, <1>20
<1>22. reps' \in Seq(Rep) /\ DOMAIN reps' = 1 .. Len(reps') /\ Len(reps') \in Nat
  BY <1>21 DEF ListOK
<1>23. /\ Len(reps') > 0 /\ reps'[1] = reps[1]
       /\ kind = "builtin" => reps'[1].type = Netlist
       /\ kind # "builtin" => reps'[1].type = Structure /\ reps'[1].timing = 1
       /\ accepted \subseteq OfType(reps', Structure)
  BY <1>4, <1>21, <1>22, GrownBegins
<1>24. BeginsWell'
  BY <1>4, <1>23 DEF BeginsWell
<1>25. /\ failed' \in {"none", "no netlist", "unexpected exception"}
       /\ failed' = "none" => reps' = longer /\ added.verdict = "none"
  <2>1. CASE reps' = x.reps /\ failed' = "unexpected exception"
    BY <2>1
  <2>2. CASE /\ reps' = added.reps
             /\ failed' = CASE added.verdict = "none" -> failed
                           [] added.verdict = "cycles" -> "unexpected exception"
                           [] added.verdict = "no netlist" -> "no netlist"
    <3>1. CASE added.verdict = "none"
      BY <1>4, <1>15, <2>2, <3>1
    <3>2. CASE added.verdict = "cycles"
      BY <1>15, <2>2, <3>2
    <3>3. CASE added.verdict = "no netlist"
      BY <1>15, <2>2, <3>3
    <3>4. QED BY <1>15, <3>1, <3>2, <3>3
  <2>3. QED BY <1>5, <2>1, <2>2
<1>26. names' \subseteq Names
  BY <1>5, <1>7
<1>27. ASSUME kind = "stateless", reps[i].type # Structure PROVE ~c
  <2>1. reps[i].type >= Netlist
    BY <1>4, <1>27 DEF Structure, Netlist, Blocks
  <2>2. QED BY <1>4, <1>8, <1>10, <1>27, <2>1, NoneCyclic
<1>28. ASSUME kind = "stateless", NEW k \in 1 .. Len(reps'),
              reps'[k].type >= TreeModel \/ (reps'[k].type = Netlist /\ failed' = "none")
       PROVE  ~reps'[k].cyclic
  <2>1. CASE k <= Len(reps)
    <3>1. k \in 1 .. Len(reps) /\ reps'[k] = reps[k]
      BY <1>6, <1>21, <2>1 DEF Grown
    <3>2. reps[k].type >= Netlist
      <4>1. reps[k] \in Rep
        BY <1>6, <3>1
      <4>2. reps[k].type \in Int
        BY <4>1 DEF Rep
      <4>3. QED BY <1>28, <3>1, <4>2 DEF TreeModel, Netlist
    <3>3. QED BY <1>4, <1>28, <3>1, <3>2, NoneCyclic
  <2>2. CASE k > Len(reps)
    <3>1. reps'[k].cyclic = c
      BY <1>21, <2>2 DEF Grown
    <3>2. CASE reps[i].type # Structure
      BY <1>27, <1>28, <3>1, <3>2
    <3>3. CASE reps[i].type = Structure
      <4>1. type = Netlist /\ type # TreeModel /\ x.reps = reps
        BY <1>1, <1>11, <3>3 DEF Structure, Netlist, TreeModel
      <4>2. reps' = longer /\ k = Len(reps) + 1
        BY <1>6, <1>17, <1>20, <1>22, <2>2, <4>1
      <4>3. reps'[k].type = Netlist
        BY <1>11, <1>17, <4>1, <4>2
      <4>4. failed' = "none"
        BY <1>28, <4>3 DEF Netlist, TreeModel
      <4>5. isStateless
        BY <1>28 DEF isStateless
      <4>6. QED BY <1>15, <1>25, <3>1, <4>1, <4>4, <4>5
    <3>4. QED BY <3>2, <3>3
  <2>3. QED BY <1>6, <1>22, <2>1, <2>2
<1>29. kind = "stateless" => ~reps[1].cyclic
  BY <1>4, NoneCyclic
<1>30. StaysAcyclic'
  BY <1>4, <1>22, <1>23, <1>28, <1>29 DEF StaysAcyclic
<1>31. QED BY <1>4, <1>7, <1>21, <1>23, <1>24, <1>25, <1>26, <1>30 DEF EInv

\* EInv is an invariant: the operations keep it, and between them nothing changes.
THEOREM EntityInvariance == Spec => []EInv
<1>1. Init => EInv
  BY InitEInv
<1>2. EInv /\ [Next]_vars => EInv'
  <2> SUFFICES ASSUME EInv, [Next]_vars PROVE EInv'
    OBVIOUS
  <2>1. MaxSplits \in Nat
    BY BoundsAssumption
  <2>2. ASSUME NEW cyclic \in BOOLEAN, NEW behaviors \in Behaviors, FinalizeStructure(cyclic, behaviors)
        PROVE  EInv'
    BY <2>2, FinalizeKeeps
  <2>3. ASSUME NEW type \in {Netlist, Commands}, NEW splits \in 0 .. MaxSplits, NEW fixed \in BOOLEAN,
               GetRepresentation(type, splits, fixed)
        PROVE  EInv'
    <3>1. splits \in Nat
      BY <2>1
    <3>2. QED BY <2>3, <3>1, GetKeeps
  <2>4. ASSUME NEW i \in DOMAIN reps, NEW splits \in 0 .. MaxSplits, NEW fixed \in BOOLEAN,
               NEW name \in Names \cup {NoName}, Transform(i, splits, fixed, name)
        PROVE  EInv'
    <3>1. splits \in Nat
      BY <2>1
    <3>2. QED BY <2>4, <3>1, TransformKeeps
  <2>5. CASE UNCHANGED vars
    <3>1. /\ kind' = kind /\ phase' = phase /\ reps' = reps /\ timings' = timings
          /\ accepted' = accepted /\ names' = names /\ failed' = failed
      BY ONLY <2>5 DEF vars
    <3>2. ListOK(reps, timings)' /\ (accepted \subseteq OfType(reps, Structure))'
      BY <3>1 DEF EInv, ListOK, OfType
    <3>3. BeginsWell' /\ StaysAcyclic'
      BY <3>1 DEF EInv, BeginsWell, StaysAcyclic
    <3>4. QED BY <3>1, <3>2, <3>3 DEF EInv
  <2>6. CASE Terminated
    BY <2>5, <2>6 DEF Terminated
  <2>7. QED BY <2>2, <2>3, <2>4, <2>5, <2>6 DEF Next
<1>3. QED BY <1>1, <1>2, PTL DEF Spec

\* The entity, its list, timings and verdicts have their types at any time, and
\* a representation comes behind the one it was made from.
THEOREM EntityTypes == Spec => []TypeOK
<1>1. EInv => TypeOK
  <2> SUFFICES ASSUME EInv PROVE TypeOK
    OBVIOUS
  <2>1. /\ reps \in Seq(Rep) /\ timings \in Nat /\ DOMAIN reps = 1 .. Len(reps) /\ Len(reps) \in Nat
        /\ \A k \in 1 .. Len(reps) : reps[k] \in Rep
    BY EInvList
  <2>2. ASSUME NEW i \in DOMAIN reps
        PROVE  reps[i] \in [type : 0 .. 6, parent : 0 .. i - 1, timing : 0 .. timings,
                            cyclic : BOOLEAN, altered : BOOLEAN]
    <3>1. reps[i] \in Rep /\ i \in 1 .. Len(reps)
      BY <2>1
    <3>2. reps[i].parent < i /\ reps[i].timing <= timings
      BY <3>1 DEF EInv, ListOK
    <3>3. PICK r : r = reps[i]
      OBVIOUS
    <3>4. r \in [type : 0 .. 6, parent : Nat, timing : Nat, cyclic : BOOLEAN, altered : BOOLEAN]
      BY <3>1, <3>3 DEF Rep
    <3>5. r.parent \in Nat /\ r.timing \in Nat
      BY <3>4
    <3>6. r.parent \in 0 .. i - 1 /\ r.timing \in 0 .. timings
      BY <2>1, <3>1, <3>2, <3>3, <3>5
    <3>7. r \in [type : 0 .. 6, parent : 0 .. i - 1, timing : 0 .. timings, cyclic : BOOLEAN, altered : BOOLEAN]
      BY <3>4, <3>6
    <3>8. QED BY <3>3, <3>7
  <2>3. QED BY <2>1, <2>2 DEF TypeOK, EInv
<1>2. QED BY <1>1, EntityInvariance, PTL

\* Nothing with cycles is synthesised for a stateless entity.
THEOREM SynthesisIsAlwaysAcyclic == Spec => []SynthesizedAcyclic
<1>1. EInv => SynthesizedAcyclic
  BY DEF EInv, StaysAcyclic, SynthesizedAcyclic
<1>2. QED BY <1>1, EntityInvariance, PTL

\* The assertion of HierarchicalSim holds: an entity made of structures has a
\* representation with its first timing, a behavior or its first structure.
THEOREM PartsAreAlwaysSimulatable == Spec => []PartsSimulatable
<1>1. EInv => PartsSimulatable
  <2> SUFFICES ASSUME EInv, kind # "builtin", phase = "listed", NEW useBehavior \in BOOLEAN,
                      NEW i, i = PartRepresentation(useBehavior)
               PROVE  i # 0 /\ reps[i].timing = 1
    BY DEF PartsSimulatable
  <2>1. /\ reps \in Seq(Rep) /\ DOMAIN reps = 1 .. Len(reps) /\ Len(reps) \in Nat
    BY EInvList
  <2>2. Len(reps) > 0 /\ reps[1].type = Structure /\ reps[1].timing = 1
    BY DEF EInv, BeginsWell
  <2>3. 1 \in OfType(reps, Structure)
    BY <2>1, <2>2 DEF OfType
  <2>4. FirstOf(OfType(reps, Structure)) = 1
    BY <2>1, <2>2, <2>3, FirstStructure
  <2>5. PICK behavior : behavior = FirstOf(OfType(reps, TimedBehavior))
    OBVIOUS
  <2>6. i = IF useBehavior
            THEN IF behavior = 0 \/ reps[behavior].timing # 1 THEN 1 ELSE behavior
            ELSE IF 1 = 0 THEN behavior ELSE 1
    BY Zenon, <2>4, <2>5 DEF PartRepresentation
  <2>7. i = 1 \/ (i = behavior /\ behavior # 0 /\ reps[behavior].timing = 1)
    BY <2>6
  <2>8. QED BY <2>2, <2>7
<1>2. QED BY <1>1, EntityInvariance, PTL

-----------------------------------------------------------------------------
(* Timings                                                                  *)

\* Ancestors is defined for every list in order: a parent comes first.
LEMMA AncestorsDefined ==
    ASSUME NEW rs, NEW ts, ListOK(rs, ts), NEW i \in 1 .. Len(rs)
    PROVE  /\ rs[i].parent = 0 => Ancestors(rs, i) = {}
           /\ rs[i].parent # 0 => Ancestors(rs, i) = {rs[i].parent} \cup Ancestors(rs, rs[i].parent)
           /\ rs[i].parent \in 0 .. i - 1
<1> DEFINE More(f, j) == IF j = 0 \/ rs[j].parent = 0 THEN {} ELSE {rs[j].parent} \cup f[rs[j].parent]
           IsAbove(f, d) == f = [j \in 0 .. d |-> More(f, j)]
           Without == {d \in 0 .. Len(rs) : ~\E f : IsAbove(f, d)}
<1>1. Len(rs) \in Nat /\ \A j \in 1 .. Len(rs) : rs[j].parent \in 0 .. j - 1
  <2>1. rs \in Seq(Rep)
    BY DEF ListOK
  <2>2. ASSUME NEW j \in 1 .. Len(rs) PROVE rs[j].parent \in 0 .. j - 1
    <3>1. rs[j] \in Rep /\ rs[j].parent < j
      BY <2>1 DEF ListOK
    <3>2. rs[j].parent \in Nat
      BY <3>1 DEF Rep
    <3>3. QED BY <3>1, <3>2
  <2>3. QED BY <2>1, <2>2
<1>2. \A k : Ancestors(rs, k) = (CHOOSE f : IsAbove(f, Len(rs)))[k]
  BY Zenon DEF Ancestors
<1>3. ASSUME NEW f, NEW h, NEW j, j = 0 \/ f[rs[j].parent] = h[rs[j].parent] PROVE More(f, j) = More(h, j)
  BY <1>3
<1>4. ASSUME NEW d \in Without PROVE \E m \in Without : m < d
  <2>1. d \in 0 .. Len(rs) /\ d \in Nat
    BY <1>1
  <2>2. d # 0
    <3> SUFFICES ASSUME d = 0 PROVE FALSE
      OBVIOUS
    <3> DEFINE f == [j \in 0 .. 0 |-> {}]
    <3>1. \A j \in 0 .. 0 : More(f, j) = {}
      OBVIOUS
    <3> HIDE DEF More
    <3>2. IsAbove(f, 0)
      BY <3>1
    <3> HIDE DEF IsAbove
    <3>3. QED BY <3>2
  <2>3. d - 1 \in 0 .. Len(rs) /\ d - 1 < d
    BY <1>1, <2>1, <2>2
  <2>4. ASSUME NEW f, IsAbove(f, d - 1) PROVE \E h : IsAbove(h, d)
    <3> HIDE DEF More
    <3> DEFINE h == [j \in 0 .. d |-> IF j = d THEN More(f, d) ELSE f[j]]
    <3>1. ASSUME NEW j \in 0 .. d PROVE h[j] = More(h, j)
      <4>1. j = 0 \/ (rs[j].parent \in 0 .. d /\ rs[j].parent # d)
        BY <1>1, <2>1
      <4>2. j = 0 \/ h[rs[j].parent] = f[rs[j].parent]
        BY <4>1
      <4>3. More(h, j) = More(f, j)
        BY <1>3, <4>2
      <4>4. CASE j = d
        BY <4>3, <4>4
      <4>5. CASE j # d
        <5>1. j \in 0 .. d - 1
          BY <2>1, <4>5
        <5>2. f[j] = More(f, j)
          BY <2>4, <5>1
        <5>3. h[j] = f[j]
          BY <4>5
        <5> HIDE DEF h
        <5>4. QED BY <4>3, <5>2, <5>3
      <4>6. QED BY <4>4, <4>5
    <3>2. h = [j \in 0 .. d |-> h[j]]
      OBVIOUS
    <3>3. IsAbove(h, d)
      <4> HIDE DEF h
      <4>1. QED BY <3>1, <3>2
    <3> HIDE DEF IsAbove, h
    <3>4. QED BY <3>3
  <2> HIDE DEF IsAbove
  <2>5. d - 1 \in Without
    BY <2>3, <2>4
  <2> HIDE DEF Without
  <2>6. QED BY <2>3, <2>5
<1>5. Without = {}
  <2>1. Without \in SUBSET Nat
    BY <1>1
  <2> HIDE DEF Without
  <2>2. QED BY <1>4, <2>1, Descent
<1>6. \E f : IsAbove(f, Len(rs))
  <2>1. Len(rs) \in 0 .. Len(rs)
    BY <1>1
  <2> HIDE DEF IsAbove
  <2>2. QED BY <1>5, <2>1
<1>7. PICK above : above = CHOOSE f : IsAbove(f, Len(rs))
  OBVIOUS
<1>8. IsAbove(above, Len(rs))
  <2> HIDE DEF IsAbove
  <2>1. QED BY <1>6, <1>7
<1>9. i \in 0 .. Len(rs) /\ i # 0 /\ above[i] = More(above, i)
  <2> HIDE DEF More
  <2>1. i \in 0 .. Len(rs) /\ i # 0
    OBVIOUS
  <2>2. QED BY <1>8, <2>1
<1> HIDE DEF IsAbove
<1>10. \A k : Ancestors(rs, k) = above[k]
  BY <1>2, <1>7
<1>11. QED BY <1>1, <1>9, <1>10

\* They come before it.
LEMMA AncestorsBefore ==
    ASSUME NEW rs, NEW ts, ListOK(rs, ts), NEW i \in 1 .. Len(rs)
    PROVE  Ancestors(rs, i) \subseteq 1 .. i - 1
<1> DEFINE Wrong == {k \in 1 .. Len(rs) : ~(Ancestors(rs, k) \subseteq 1 .. k - 1)}
<1>1. ASSUME NEW k \in Wrong PROVE \E m \in Wrong : m < k
  <2>1. k \in 1 .. Len(rs) /\ ~(Ancestors(rs, k) \subseteq 1 .. k - 1)
    OBVIOUS
  <2>2. PICK p : p = rs[k].parent
    OBVIOUS
  <2>3. /\ p = 0 => Ancestors(rs, k) = {}
        /\ p # 0 => Ancestors(rs, k) = {p} \cup Ancestors(rs, p)
        /\ p \in 0 .. k - 1
    BY <2>1, <2>2, AncestorsDefined
  <2>4. p # 0
    BY <2>1, <2>3
  <2>5. Len(rs) \in Nat
    BY DEF ListOK
  <2>6. p \in 1 .. Len(rs) /\ p < k /\ p \in 1 .. k - 1
    BY <2>1, <2>3, <2>4, <2>5
  <2>7. ~(Ancestors(rs, p) \subseteq 1 .. p - 1)
    <3> SUFFICES ASSUME Ancestors(rs, p) \subseteq 1 .. p - 1 PROVE FALSE
      OBVIOUS
    <3>1. 1 .. p - 1 \subseteq 1 .. k - 1
      BY <2>1, <2>6
    <3>2. QED BY <2>1, <2>3, <2>4, <2>6, <3>1
  <2>8. p \in Wrong
    BY <2>6, <2>7
  <2> HIDE DEF Wrong
  <2>9. QED BY <2>6, <2>8
<1>2. Wrong = {}
  <2>1. Wrong \in SUBSET Nat
    OBVIOUS
  <2> HIDE DEF Wrong
  <2>2. QED BY <1>1, <2>1, Descent
<1>3. QED BY <1>2

\* The origin of a representation starts the timing it abides by.
LEMMA OriginFacts ==
    ASSUME EInv, NEW i \in Synthesis
    PROVE  /\ Origin(i) \in 1 .. Len(reps)
           /\ Starts(reps[Origin(i)])
           /\ reps[Origin(i)].timing = reps[i].timing
<1> DEFINE Whole(k) == reps[k].altered \/ reps[k].parent = 0
           origins(k) == {j \in {k} \cup Ancestors(reps, k) : Whole(j)}
           Right(k) == /\ Origin(k) \in 1 .. Len(reps) /\ Starts(reps[Origin(k)])
                       /\ reps[Origin(k)].timing = reps[k].timing
           Wrong == {k \in Synthesis : ~Right(k)}
<1>1. /\ reps \in Seq(Rep) /\ DOMAIN reps = 1 .. Len(reps) /\ Len(reps) \in Nat /\ ListOK(reps, timings)
  BY EInvList DEF EInv
<1>2. \A k : Origin(k) = CHOOSE j \in origins(k) : \A l \in origins(k) : l <= j
  BY Zenon DEF Origin
<1>3. ASSUME NEW k \in Wrong PROVE \E m \in Wrong : m < k
  <2>1. k \in Synthesis /\ k \in 1 .. Len(reps) /\ reps[k].type # TimedBehavior
    BY <1>1 DEF Synthesis
  <2>2. PICK p : p = reps[k].parent
    OBVIOUS
  <2>3. /\ p = 0 => Ancestors(reps, k) = {}
        /\ p # 0 => Ancestors(reps, k) = {p} \cup Ancestors(reps, p)
        /\ p \in 0 .. k - 1
    BY <1>1, <2>1, <2>2, AncestorsDefined
  <2>4. ~Whole(k)
    <3> SUFFICES ASSUME Whole(k) PROVE FALSE
      OBVIOUS
    <3>1. Ancestors(reps, k) \subseteq 1 .. k - 1
      BY <1>1, <2>1, AncestorsBefore
    <3>2. k \in origins(k) /\ \A l \in origins(k) : l <= k /\ l \in Nat
      BY <1>1, <2>1, <3>1
    <3>3. Starts(reps[k])
      BY <2>1 DEF Starts
    <3>4. PICK O : O = origins(k)
      OBVIOUS
    <3>5. Origin(k) = CHOOSE j \in O : \A l \in O : l <= j
      BY <1>2, <3>4
    <3> HIDE DEF origins, Whole
    <3>6. Origin(k) = k
      BY <2>1, <3>2, <3>4, <3>5
    <3> HIDE DEF Wrong
    <3>7. Right(k)
      BY <2>1, <3>3, <3>6
    <3>8. QED BY <3>7 DEF Wrong
  <2>5. p # 0 /\ ~reps[k].altered
    BY <2>2, <2>4
  <2>6. p \in 1 .. Len(reps) /\ p < k
    BY <1>1, <2>1, <2>3, <2>5
  <2>7. MadeFrom(reps[k], reps[p])
    BY <1>1, <2>1, <2>2, <2>5 DEF ListOK
  <2>8. reps[p].timing = reps[k].timing /\ reps[p].type # TimedBehavior
    BY <2>5, <2>7 DEF MadeFrom, Structure, TimedBehavior
  <2>9. p \in Synthesis
    BY <1>1, <2>6, <2>8 DEF Synthesis
  <2>10. origins(k) = origins(p)
    BY <2>3, <2>4, <2>5
  <2> HIDE DEF origins, Whole
  <2>11. Origin(k) = Origin(p)
    BY <1>2, <2>10
  <2>12. ~Right(p)
    BY <2>8, <2>11
  <2>13. p \in Wrong
    BY <2>9, <2>12
  <2> HIDE DEF Wrong
  <2>14. QED BY <2>6, <2>13
<1>4. Wrong = {}
  <2>1. Wrong \in SUBSET Nat
    BY <1>1 DEF Synthesis
  <2> HIDE DEF Wrong
  <2>2. QED BY <1>3, <2>1, Descent
<1> HIDE DEF origins, Whole
<1>5. QED BY <1>4

\* Two representations share a timing exactly if they have the same delays.
THEOREM TimingsAlwaysTellDelays == Spec => []SameTimingSameDelays
<1>1. EInv => SameTimingSameDelays
  <2> SUFFICES ASSUME EInv, NEW i \in Synthesis, NEW j \in Synthesis
               PROVE  reps[i].timing = reps[j].timing <=> Origin(i) = Origin(j)
    BY DEF SameTimingSameDelays
  <2>1. PICK a : a = Origin(i)
    OBVIOUS
  <2>2. PICK b : b = Origin(j)
    OBVIOUS
  <2>3. a \in 1 .. Len(reps) /\ Starts(reps[a]) /\ reps[a].timing = reps[i].timing
    BY <2>1, OriginFacts
  <2>4. b \in 1 .. Len(reps) /\ Starts(reps[b]) /\ reps[b].timing = reps[j].timing
    BY <2>2, OriginFacts
  <2>5. reps[a].timing = reps[b].timing => a = b
    BY <2>3, <2>4 DEF EInv, ListOK
  <2>6. QED BY <2>1, <2>2, <2>3, <2>4, <2>5
<1>2. QED BY <1>1, EntityInvariance, PTL
=============================================================================
