-------------------------- MODULE NNLibraryProofs ---------------------------
(***************************************************************************)
(* The point utilities of nncommon.c, for arrays, files, grids and zooms   *)
(* of any size.  First the two that fill an array they do not know the     *)
(* length of: what points_thinlin merges and loses, and what points_read   *)
(* returns.  Then the rectangle points_getrange encloses, what             *)
(* points_scaletosquare and points_scale do to each other, and the cells   *)
(* of points_thingrid and their sums.  Last the types of the library       *)
(* altogether, the triangulation included.                                 *)
(***************************************************************************)
EXTENDS MCNNLibrary, DelaunayProofs, WellFoundedInduction

-----------------------------------------------------------------------------
(* points_thinlin and points_read: a call and what it has done so far.      *)

Row == call.op = "thinlin"
File == call.op = "read"

CallInv ==
  /\ Row \/ File
  /\ Row => call.points \in Seq(Int \cup {NaN}) /\ call.rmax \in Nat
  /\ File => /\ Len(call.lines) \in Nat
             /\ \A l \in 1..Len(call.lines) : Len(call.lines[l].tokens) \in Nat
  /\ i \in 0..Len(Input) /\ returned \in BOOLEAN
  /\ n \in Nat /\ nallocated \in Nat /\ (~returned => nallocated \in Nat \ {0})

(* Neighbouring points without an undefined one, and the path so far.       *)
Chain(c) ==
  /\ c \in Seq(1..Len(Input)) /\ Len(c) \in Nat \ {0}
  /\ \A l \in 1..Len(c) : Input[c[l]] # NaN /\ c[l] = c[1] + l - 1

PathIs(c, path) ==
  /\ path \in [1..Len(c) -> 0..call.rmax]
  /\ \A l \in 1..Len(c) :
       path[l] = IF l = 1 THEN 0 ELSE path[l - 1] + Dist(Input[c[l - 1]], Input[c[l]])

Final(c) == c[Len(c)]

RowInv ==
  Row =>
    /\ n = 0 /\ Len(pout) <= nallocated
    /\ pout \in Seq(Seq(1..Len(Input)))
    /\ \A k \in 1..Len(pout) : Chain(pout[k]) /\ PathWithin(pout[k], call.rmax) /\ Final(pout[k]) <= i
    /\ \A k, l \in 1..Len(pout) : k < l => Final(pout[k]) < pout[l][1]
    /\ pprev # 0 =>
         /\ pprev = i /\ Chain(cluster) /\ Final(cluster) = i
         /\ \A k \in 1..Len(pout) : Final(pout[k]) < cluster[1]
         /\ \E path \in [1..Len(cluster) -> 0..call.rmax] :
              PathIs(cluster, path) /\ path[Len(cluster)] = sum_r
    /\ \A d \in Defined : \/ d \in Averaged \/ d \in Open
                          \/ \E k \in 1..Len(pout) : d = Final(pout[k]) + 1

(* The lines that are points are in the array, each in the place of its     *)
(* number among them.                                                       *)
Coordinates(l) == [c \in 1..3 |-> IF c > call.dim THEN NaN ELSE call.lines[l].tokens[c]]

FileInv ==
  File =>
    /\ pout = <<>>
    /\ n <= nallocated
    /\ ~returned => DOMAIN slots = 1..nallocated
    /\ returned => DOMAIN slots = 1..n
    /\ call.dim \notin {2, 3} => n = 0
    /\ call.dim \in {2, 3} =>
         /\ n = Cardinality(GoodUpTo(i))
         /\ \A l \in GoodUpTo(i) : slots[Cardinality(GoodUpTo(l))] = Coordinates(l)
         /\ returned => i = Len(Input)

PointsInv == CallInv /\ RowInv /\ FileInv

(* Every call begins in the invariant.                                      *)
LEMMA InitPoints == PointsInit => PointsInv
<1> SUFFICES ASSUME PointsInit PROVE PointsInv
  OBVIOUS
<1>0. i = 0 /\ cluster = <<>> /\ sum_r = 0 /\ pprev = 0 /\ pout = <<>> /\ n = 0
      /\ slots = [k \in 1..NALLOCATED_START |-> Nothing] /\ nallocated = NALLOCATED_START /\ returned = FALSE
  BY DEF PointsInit
<1>1. CASE \E c \in Thins : call = [op |-> "thinlin", points |-> c.points, rmax |-> c.rmax]
  <2>1. PICK c \in Thins : call = [op |-> "thinlin", points |-> c.points, rmax |-> c.rmax]
    BY <1>1
  <2>2. Row /\ ~File /\ Input = call.points /\ call.points \in Seq(Int \cup {NaN}) /\ call.rmax \in Nat
    BY <2>1, InputAssumption DEF Row, File, Input
  <2>3. Len(Input) \in Nat
    BY <2>2, LenProperties
  <2>4. CallInv
    <3>1. 0 \in 0..Len(Input) /\ 0 \in Nat /\ NALLOCATED_START \in Nat /\ NALLOCATED_START \in Nat \ {0}
      BY <2>3, AllocationAssumption
    <3> QED BY <1>0, <2>2, <3>1, Zenon DEF CallInv
  <2>5. RowInv
    <3>1. Defined = {} /\ Len(pout) = 0 /\ 1..0 = {}
      BY <1>0 DEF Defined
    <3>2. pout \in Seq(Seq(1..Len(Input)))
      BY <1>0
    <3> QED BY <1>0, <3>1, <3>2, AllocationAssumption DEF RowInv
  <2> QED BY <2>2, <2>4, <2>5 DEF PointsInv, FileInv
<1>2. CASE \E c \in Reads : call = [op |-> "read", lines |-> c.lines, dim |-> c.dim]
  <2>1. PICK c \in Reads : call = [op |-> "read", lines |-> c.lines, dim |-> c.dim]
    BY <1>2
  <2>2. ~Row /\ File /\ Input = call.lines /\ Len(Input) \in Nat
        /\ \A l \in 1..Len(call.lines) : Len(call.lines[l].tokens) \in Nat
    BY <2>1, InputAssumption DEF Row, File, Input
  <2>3. CallInv
    <3>1. 0 \in 0..Len(Input) /\ 0 \in Nat /\ NALLOCATED_START \in Nat /\ NALLOCATED_START \in Nat \ {0}
      BY <2>2, AllocationAssumption
    <3> QED BY <1>0, <2>2, <3>1, Zenon DEF CallInv
  <2>4. FileInv
    <3>1. GoodUpTo(i) = {}
      BY <1>0 DEF GoodUpTo, Good
    <3>2. Cardinality(GoodUpTo(i)) = 0 /\ 0 <= NALLOCATED_START
      BY <3>1, FS_EmptySet, AllocationAssumption
    <3>3. DOMAIN slots = 1..nallocated
      BY <1>0
    <3> QED BY <1>0, <3>1, <3>2, <3>3 DEF FileInv
  <2> QED BY <2>2, <2>3, <2>4 DEF PointsInv, RowInv
<1> QED BY <1>1, <1>2 DEF PointsInit

(* What a step does to the call, the counts and the row or file.            *)
LEMMA TakesNext ==
  ASSUME CallInv, NEW op, NextPoint(op), n' \in Nat, nallocated' \in Nat \ {0}
  PROVE  CallInv' /\ i + 1 \in 1..Len(Input) /\ Input' = Input /\ Row' = Row /\ File' = File
<1>1. /\ call' = call /\ returned' = returned /\ i' = i + 1 /\ i < Len(Input) /\ ~returned
  BY DEF NextPoint
<1>2. Input' = Input /\ Row' = Row /\ File' = File
  BY <1>1 DEF Input, Row, File
<1>3. Len(Input) \in Nat
  BY DEF CallInv, Input, Row, File
<1>4. i \in Nat /\ i + 1 \in 1..Len(Input) /\ i + 1 \in 0..Len(Input)
  BY <1>1, <1>3 DEF CallInv
<1>5. CallInv'
  BY <1>1, <1>2, <1>4 DEF CallInv
<1> QED BY <1>2, <1>4, <1>5

(* The doubling keeps ahead.                                                *)
LEMMA GrownFits ==
  ASSUME nallocated \in Nat \ {0}, NEW count \in Nat, count <= nallocated
  PROVE  Grown(count) \in Nat \ {0} /\ count + 1 <= Grown(count) /\ nallocated <= Grown(count)
BY DEF Grown

-----------------------------------------------------------------------------
(* Steps of points_thinlin.                                                *)

(* A cluster lies between its first and its last point.                     *)
LEMMA ChainSpan ==
  ASSUME Len(Input) \in Nat, NEW c, Chain(c)
  PROVE  /\ c[1] \in 1..Len(Input) /\ Final(c) \in 1..Len(Input) /\ c[1] <= Final(c)
         /\ \A m \in Members(c) : m \in 1..Len(Input) /\ c[1] <= m /\ m <= Final(c)
         /\ Final(c) \in Members(c)
<1>1. PICK len \in Nat \ {0} : len = Len(c)
  BY DEF Chain
<1>2. \A l \in 1..len : c[l] \in 1..Len(Input) /\ c[l] = c[1] + l - 1
  BY <1>1, ElementOfSeq DEF Chain
<1>3. 1 \in 1..len /\ len \in 1..len
  OBVIOUS
<1>4. c[1] \in 1..Len(Input) /\ c[len] \in 1..Len(Input) /\ c[len] = c[1] + len - 1
  BY <1>2, <1>3
<1>5. c[1] \in Int /\ c[1] <= c[len]
  BY <1>4
<1>6. ASSUME NEW l \in 1..len PROVE c[l] \in 1..Len(Input) /\ c[1] <= c[l] /\ c[l] <= c[len]
  BY <1>2, <1>4, <1>5
<1> QED BY <1>1, <1>3, <1>4, <1>5, <1>6 DEF Final, Members

(* The facts that the steps start from.                                    *)
LEMMA RowFacts ==
  ASSUME PointsInv, Row
  PROVE  /\ Input = call.points /\ Len(Input) \in Nat /\ call.rmax \in Nat
         /\ \A k \in 1..Len(Input) : Input[k] # NaN => Input[k] \in Int
         /\ Len(pout) \in Nat /\ i \in Nat /\ i <= Len(Input)
<1>1. Input = call.points /\ call.points \in Seq(Int \cup {NaN}) /\ call.rmax \in Nat
  BY DEF PointsInv, CallInv, Row, Input
<1>2. Len(Input) \in Nat
  BY <1>1, LenProperties
<1>3. \A k \in 1..Len(Input) : Input[k] \in Int \cup {NaN}
  BY <1>1, ElementOfSeq
<1>4. Len(pout) \in Nat
  BY LenProperties DEF PointsInv, RowInv
<1>5. i \in Nat /\ i <= Len(Input)
  BY <1>2 DEF PointsInv, CallInv
<1> QED BY <1>1, <1>2, <1>3, <1>4, <1>5

(* A fact about a mean that is written, in the state after the step.        *)
LEMMA PrimedMean ==
  ASSUME Input' = Input, call' = call, i' = i + 1, NEW k,
         Chain(pout'[k]), PathWithin(pout'[k], call.rmax), Final(pout'[k]) <= i + 1
  PROVE  Chain(pout[k])' /\ PathWithin(pout[k], call.rmax)' /\ Final(pout[k])' <= i'
<1>1. Chain(pout[k])'
  BY DEF Chain
<1>2. PathWithin(pout[k], call.rmax)'
  BY DEF PathWithin, Dist
<1>3. Final(pout[k])' <= i'
  BY DEF Final
<1> QED BY <1>1, <1>2, <1>3

(* Writing a mean: the cluster becomes the last of those written, and the point *)
(* after it, if it is defined, is the one it loses.                         *)
LEMMA MeanWritten ==
  ASSUME PointsInv, Row, pprev # 0, WriteMean, ~returned,
         call' = call, i' = i + 1, UNCHANGED readVars
  PROVE  RowInv' /\ nallocated' \in Nat \ {0}
<1>0. Input' = Input /\ Row'
  BY DEF Input, Row
<1>1. PICK len \in Nat : len = Len(pout)
  BY RowFacts
<1>2. /\ n = 0 /\ len <= nallocated /\ pout \in Seq(Seq(1..Len(Input)))
      /\ \A k \in 1..len : Chain(pout[k]) /\ PathWithin(pout[k], call.rmax) /\ Final(pout[k]) <= i
      /\ \A k, l \in 1..len : k < l => Final(pout[k]) < pout[l][1]
      /\ Chain(cluster) /\ Final(cluster) = i
      /\ \A k \in 1..len : Final(pout[k]) < cluster[1]
  BY <1>1 DEF PointsInv, RowInv
<1>3. pout' = Append(pout, cluster) /\ pprev' = 0 /\ nallocated' = Grown(len) /\ n' = n
  BY <1>1 DEF WriteMean, readVars
<1>4. nallocated' \in Nat \ {0} /\ len + 1 <= nallocated'
  BY <1>1, <1>2, <1>3, GrownFits DEF PointsInv, CallInv
<1>5. cluster \in Seq(1..Len(Input))
  BY <1>2 DEF Chain
<1>6. /\ pout' \in Seq(Seq(1..Len(Input))) /\ Len(pout') = len + 1
      /\ \A k \in 1..len : pout'[k] = pout[k]
      /\ pout'[len + 1] = cluster
  BY <1>1, <1>2, <1>3, <1>5, AppendProperties
<1>7. PathWithin(cluster, call.rmax)
  <2>1. PICK path \in [1..Len(cluster) -> 0..call.rmax] : PathIs(cluster, path)
    BY DEF PointsInv, RowInv
  <2> QED BY <2>1 DEF PathIs, PathWithin
<1>8. \A k \in 1..(len + 1) : k \in 1..len \/ k = len + 1
  OBVIOUS
<1>9. i \in Nat
  BY RowFacts
<1>10. ASSUME NEW k \in 1..(len + 1)
       PROVE  Chain(pout'[k]) /\ PathWithin(pout'[k], call.rmax) /\ Final(pout'[k]) <= i + 1
  <2>1. CASE k \in 1..len
    <3>1. Final(pout[k]) \in Int
      <4>1. Chain(pout[k]) /\ Len(Input) \in Nat
        BY <1>2, <2>1, RowFacts
      <4> QED BY <4>1, ChainSpan
    <3> QED BY <1>2, <1>6, <1>9, <2>1, <3>1
  <2>2. CASE k = len + 1
    BY <1>2, <1>6, <1>7, <1>9, <2>2
  <2> QED BY <1>8, <2>1, <2>2
<1>11. ASSUME NEW k \in 1..(len + 1), NEW l \in 1..(len + 1), k < l
       PROVE  Final(pout'[k]) < pout'[l][1]
  <2>1. k \in 1..len
    BY <1>11
  <2> QED BY <1>2, <1>6, <1>8, <1>11, <2>1
<1>12. Averaged' = Averaged \cup Members(cluster)
  <2>1. Averaged' = UNION {Members(pout'[k]) : k \in 1..(len + 1)}
    BY <1>6 DEF Averaged, Members
  <2>2. Averaged = UNION {Members(pout[k]) : k \in 1..len}
    BY <1>1 DEF Averaged
  <2>3. ASSUME NEW m PROVE m \in Averaged' <=> m \in Averaged \/ m \in Members(cluster)
    <3>1. m \in Averaged' <=> \E k \in 1..(len + 1) : m \in Members(pout'[k])
      BY <2>1
    <3>2. m \in Averaged <=> \E k \in 1..len : m \in Members(pout[k])
      BY <2>2
    <3>3. 1..len \subseteq 1..(len + 1) /\ len + 1 \in 1..(len + 1)
      OBVIOUS
    <3> QED BY <1>6, <1>8, <3>1, <3>2, <3>3
  <2> QED BY <2>3
<1>13. ASSUME NEW d \in Defined'
       PROVE  d \in Averaged' \/ \E k \in 1..(len + 1) : d = Final(pout'[k]) + 1
  <2>1. CASE d = i + 1
    BY <1>2, <1>6, <2>1
  <2>2. CASE d # i + 1
    <3>1. d \in Defined
      BY <1>9, <2>2 DEF Defined
    <3>2. d \in Averaged \/ d \in Open \/ \E k \in 1..len : d = Final(pout[k]) + 1
      BY <1>1, <3>1 DEF PointsInv, RowInv
    <3>3. Open = Members(cluster)
      BY DEF Open
    <3> QED BY <1>6, <1>12, <3>2, <3>3
  <2> QED BY <2>1, <2>2
<1>14. RowInv'
  <2>1. ASSUME NEW k \in 1..(len + 1)
        PROVE  Chain(pout[k])' /\ PathWithin(pout[k], call.rmax)' /\ Final(pout[k])' <= i'
    BY <1>0, <1>10, PrimedMean
  <2>2. \A k, l \in 1..(len + 1) : k < l => Final(pout[k])' < pout'[l][1]
    BY <1>11 DEF Final
  <2>3. \A d \in Defined' : d \in Averaged' \/ \E k \in 1..(len + 1) : d = Final(pout[k])' + 1
    BY <1>13 DEF Final
  <2>4. n' = 0 /\ Len(pout') <= nallocated' /\ pout' \in Seq(Seq(1..Len(Input'))) /\ pprev' = 0
    BY <1>0, <1>2, <1>3, <1>4, <1>6
  <2> QED BY <1>6, <2>1, <2>2, <2>3, <2>4 DEF RowInv
<1> QED BY <1>4, <1>14

(* The steps that write no mean leave the means alone.                      *)
LEMMA MeansKept ==
  ASSUME PointsInv, Row, call' = call, i' = i + 1, UNCHANGED <<pout, readVars, nallocated>>
  PROVE  /\ n' = 0 /\ Len(pout') <= nallocated' /\ pout' \in Seq(Seq(1..Len(Input')))
         /\ \A k \in 1..Len(pout') : Chain(pout[k])' /\ PathWithin(pout[k], call.rmax)' /\ Final(pout[k])' <= i'
         /\ \A k, l \in 1..Len(pout') : k < l => Final(pout[k])' < pout'[l][1]
         /\ Averaged' = Averaged
         /\ \A k : Final(pout[k])' = Final(pout[k])
<1>0. Input' = Input /\ pout' = pout /\ n' = n /\ nallocated' = nallocated /\ i \in Nat /\ Len(pout) \in Nat
  BY RowFacts DEF Input, readVars
<1>1. /\ n = 0 /\ Len(pout) <= nallocated /\ pout \in Seq(Seq(1..Len(Input)))
      /\ \A k \in 1..Len(pout) : Chain(pout[k]) /\ PathWithin(pout[k], call.rmax) /\ Final(pout[k]) <= i
      /\ \A k, l \in 1..Len(pout) : k < l => Final(pout[k]) < pout[l][1]
  BY DEF PointsInv, RowInv
<1>2. ASSUME NEW k \in 1..Len(pout)
      PROVE  Chain(pout[k])' /\ PathWithin(pout[k], call.rmax)' /\ Final(pout[k])' <= i'
  <2>1. Chain(pout[k]) /\ Len(Input) \in Nat
    BY <1>1, RowFacts
  <2>2. Final(pout[k]) \in Int /\ Final(pout[k]) <= i
    BY <1>1, <2>1, ChainSpan
  <2>3. Chain(pout'[k]) /\ PathWithin(pout'[k], call.rmax) /\ Final(pout'[k]) <= i + 1
    <3>1. Final(pout[k]) <= i + 1
      BY <1>0, <2>2
    <3>2. pout' = pout
      BY <1>0
    <3>3. Chain(pout[k]) /\ PathWithin(pout[k], call.rmax)
      BY <1>1
    <3> QED BY <3>1, <3>2, <3>3, Zenon
  <2> QED BY <1>0, <2>3, PrimedMean
<1>3. \A k : Final(pout[k])' = Final(pout[k])
  BY <1>0 DEF Final
<1>4. Averaged' = Averaged
  BY <1>0 DEF Averaged, Members
<1> QED BY <1>0, <1>1, <1>2, <1>3, <1>4

(* A defined point beside those of Defined before the step is the new one. *)
LEMMA DefinedGrows ==
  ASSUME PointsInv, Row, call' = call, i' = i + 1, NEW d \in Defined'
  PROVE  d \in Defined \/ (d = i + 1 /\ Input[i + 1] # NaN)
BY RowFacts DEF Defined

(* An undefined point without a cluster, and the first of a cluster.        *)
LEMMA NothingOpened ==
  ASSUME PointsInv, Row, call' = call, i' = i + 1, Input[i + 1] = NaN, pprev = 0,
         UNCHANGED <<thinVars, readVars, nallocated>>
  PROVE  RowInv'
<1>1. pout' = pout /\ pprev' = 0 /\ UNCHANGED <<pout, readVars, nallocated>>
  BY DEF thinVars
<1>2. Open = {} /\ Open' = {}
  BY <1>1 DEF Open
<1>3. ASSUME NEW d \in Defined'
      PROVE  d \in Averaged' \/ d \in Open' \/ \E k \in 1..Len(pout') : d = Final(pout[k])' + 1
  <2>1. d \in Defined
    BY DefinedGrows
  <2>2. d \in Averaged \/ \E k \in 1..Len(pout) : d = Final(pout[k]) + 1
    BY <1>2, <2>1 DEF PointsInv, RowInv
  <2> QED BY <1>1, <2>2, MeansKept
<1> QED BY <1>1, <1>3, MeansKept DEF RowInv

(* The first point of a cluster.                                            *)
LEMMA ClusterOpened ==
  ASSUME PointsInv, Row, call' = call, i' = i + 1, i + 1 \in 1..Len(Input),
         Input[i + 1] # NaN, pprev = 0, cluster' = <<i + 1>>, sum_r' = 0, pprev' = i + 1,
         UNCHANGED <<pout, readVars, nallocated>>
  PROVE  RowInv'
<1>0. Input' = Input /\ pout' = pout /\ i \in Nat /\ Len(Input) \in Nat /\ call.rmax \in Nat
  BY RowFacts DEF Input
<1>1. Len(cluster') = 1 /\ cluster'[1] = i + 1 /\ cluster' \in Seq(1..Len(Input)) /\ 1..1 = {1}
  OBVIOUS
<1>2. Chain(cluster)'
  BY <1>0, <1>1 DEF Chain
<1>3. Final(cluster)' = i'
  BY <1>1 DEF Final
<1>4. \E path \in [1..Len(cluster) -> 0..call.rmax]' : PathIs(cluster, path)' /\ path[Len(cluster')] = sum_r'
  <2>1. [l \in 1..1 |-> 0] \in [1..1 -> 0..call.rmax]
    BY <1>0
  <2>2. PICK path \in [1..1 -> 0..call.rmax] : path = [l \in 1..1 |-> 0]
    BY <2>1
  <2>3. path[1] = 0
    BY <2>2
  <2>4. PathIs(cluster, path)'
    BY <1>1, <2>3 DEF PathIs
  <2> QED BY <1>1, <2>3, <2>4
<1>5. ASSUME NEW k \in 1..Len(pout') PROVE Final(pout[k])' < cluster'[1]
  <2>1. Final(pout[k])' <= i'
    BY MeansKept
  <2>2. Final(pout[k]) <= i /\ Chain(pout[k])
    BY <1>0 DEF PointsInv, RowInv
  <2>3. Final(pout[k]) \in Int
    BY <1>0, <2>2, ChainSpan
  <2> QED BY <1>0, <1>1, <2>2, <2>3, MeansKept
<1>6. ASSUME NEW d \in Defined'
      PROVE  d \in Averaged' \/ d \in Open' \/ \E k \in 1..Len(pout') : d = Final(pout[k])' + 1
  <2>1. d \in Defined \/ d = i + 1
    BY DefinedGrows
  <2>2. i + 1 \in Open'
    BY <1>0, <1>1 DEF Open, Members
  <2>3. d \in Defined => d \in Averaged \/ \E k \in 1..Len(pout) : d = Final(pout[k]) + 1
    BY DEF PointsInv, RowInv, Open
  <2> QED BY <1>0, <2>1, <2>2, <2>3, MeansKept
<1>7. pprev' = i'
  OBVIOUS
<1> QED BY <1>2, <1>3, <1>4, <1>5, <1>6, <1>7, MeansKept DEF RowInv
(* A point that does not make the path too long joins the cluster.          *)
LEMMA ClusterGrown ==
  ASSUME PointsInv, Row, call' = call, i' = i + 1, i + 1 \in 1..Len(Input),
         Input[i + 1] # NaN, pprev # 0, ~Exceeds, cluster' = Append(cluster, i + 1),
         sum_r' = sum_r + Dist(Input[i + 1], Input[pprev]), pprev' = i + 1,
         UNCHANGED <<pout, readVars, nallocated>>
  PROVE  RowInv'
<1>0. Input' = Input /\ pout' = pout /\ i \in Nat /\ Len(Input) \in Nat /\ call.rmax \in Nat
  BY RowFacts DEF Input
<1>1. /\ pprev = i /\ Chain(cluster) /\ Final(cluster) = i
      /\ \A k \in 1..Len(pout) : Final(pout[k]) < cluster[1]
      /\ \E path \in [1..Len(cluster) -> 0..call.rmax] :
           PathIs(cluster, path) /\ path[Len(cluster)] = sum_r
  BY DEF PointsInv, RowInv
<1>2. PICK len \in Nat \ {0} : len = Len(cluster)
  BY <1>1 DEF Chain
<1>3. /\ cluster \in Seq(1..Len(Input))
      /\ \A l \in 1..len : Input[cluster[l]] # NaN /\ cluster[l] = cluster[1] + l - 1
      /\ cluster[len] = i
  BY <1>1, <1>2 DEF Chain, Final
<1>4. /\ cluster' \in Seq(1..Len(Input)) /\ Len(cluster') = len + 1
      /\ \A l \in 1..len : cluster'[l] = cluster[l]
      /\ cluster'[len + 1] = i + 1
  BY <1>2, <1>3, AppendProperties
<1>5. cluster[1] \in Int /\ i + 1 = cluster[1] + (len + 1) - 1
  <2>1. cluster[1] \in Int
    BY <1>0, <1>1, ChainSpan
  <2>2. len \in 1..len /\ cluster[len] = cluster[1] + len - 1
    BY <1>3
  <2> QED BY <1>3, <2>1, <2>2
<1>6. 1 \in 1..len /\ cluster'[1] = cluster[1] /\ \A l \in 1..(len + 1) : l \in 1..len \/ l = len + 1
  BY <1>4
<1>7. Chain(cluster)'
  <2>1. ASSUME NEW l \in 1..(len + 1)
        PROVE  Input[cluster'[l]] # NaN /\ cluster'[l] = cluster'[1] + l - 1
    BY <1>3, <1>4, <1>5, <1>6
  <2>2. len + 1 \in Nat \ {0}
    OBVIOUS
  <2>3. Chain(cluster')
    BY <1>4, <2>1, <2>2, Zenon DEF Chain
  <2> QED BY <1>0, <2>3, Zenon DEF Chain
<1>8. Final(cluster)' = i'
  BY <1>4 DEF Final
<1>9. \E path \in [1..Len(cluster) -> 0..call.rmax]' : PathIs(cluster, path)' /\ path[Len(cluster')] = sum_r'
  <2>1. PICK path \in [1..len -> 0..call.rmax] : PathIs(cluster, path) /\ path[len] = sum_r
    BY <1>1, <1>2
  <2>2. Input[i + 1] \in Int /\ Input[i] \in Int
    <3>1. len \in 1..len /\ i \in 1..Len(Input) /\ Input[i] # NaN
      BY <1>3, <1>0, <1>1, ChainSpan
    <3> QED BY <3>1, RowFacts
  <2>3. sum_r \in 0..call.rmax /\ sum_r' \in 0..call.rmax
    <3>1. sum_r \in 0..call.rmax
      BY <2>1
    <3>2. Dist(Input[i + 1], Input[i]) \in Nat
      BY <2>2, SMTT(60) DEF Dist
    <3>3. ~(sum_r + Dist(Input[i + 1], Input[i]) > call.rmax)
      BY <1>1 DEF Exceeds
    <3> QED BY <1>0, <1>1, <3>1, <3>2, <3>3, SMTT(30)
  <2>4. [l \in 1..(len + 1) |-> IF l = len + 1 THEN sum_r' ELSE path[l]] \in [1..(len + 1) -> 0..call.rmax]
    BY <2>3
  <2>5. PICK longer \in [1..(len + 1) -> 0..call.rmax] :
          longer = [l \in 1..(len + 1) |-> IF l = len + 1 THEN sum_r' ELSE path[l]]
    BY <2>4
  <2>6. longer[len + 1] = sum_r' /\ \A l \in 1..len : longer[l] = path[l]
    BY <2>5
  <2>7. \A l \in 1..len : path[l] = IF l = 1 THEN 0 ELSE path[l - 1] + Dist(Input[cluster[l - 1]], Input[cluster[l]])
    BY <1>2, <2>1 DEF PathIs
  <2>8. ASSUME NEW l \in 1..(len + 1)
        PROVE  longer[l] = IF l = 1 THEN 0 ELSE longer[l - 1] + Dist(Input[cluster'[l - 1]], Input[cluster'[l]])
    <3>1. CASE l \in 1..len
      <4>1. l # 1 => l - 1 \in 1..len
        BY <3>1
      <4> QED BY <1>4, <2>6, <2>7, <3>1, <4>1
    <3>2. CASE l = len + 1
      <4>1. l # 1 /\ l - 1 = len /\ len \in 1..len
        BY <3>2
      <4>2. longer[l - 1] = sum_r /\ cluster'[l - 1] = i /\ cluster'[l] = i + 1
        BY <1>3, <1>4, <2>1, <2>6, <3>2, <4>1
      <4>3. Dist(Input[i + 1], Input[i]) = Dist(Input[i], Input[i + 1])
        BY <2>2, SMTT(30) DEF Dist
      <4> QED BY <1>1, <2>6, <3>2, <4>1, <4>2, <4>3
    <3> QED BY <1>6, <3>1, <3>2
  <2>9. PathIs(cluster, longer)'
    BY <1>0, <1>4, <2>8 DEF PathIs, Dist
  <2> QED BY <1>4, <2>6, <2>9
<1>10. ASSUME NEW k \in 1..Len(pout') PROVE Final(pout[k])' < cluster'[1]
  BY <1>0, <1>1, <1>6, MeansKept
<1>11. ASSUME NEW d \in Defined'
       PROVE  d \in Averaged' \/ d \in Open' \/ \E k \in 1..Len(pout') : d = Final(pout[k])' + 1
  <2>1. d \in Defined \/ d = i + 1
    BY DefinedGrows
  <2>2. pprev' # 0 /\ Open = Members(cluster) /\ Open' = Members(cluster')
    BY <1>0 DEF Open, Members
  <2>3. Members(cluster) \subseteq Members(cluster') /\ i + 1 \in Members(cluster')
    BY <1>2, <1>4 DEF Members
  <2>4. d \in Defined => d \in Averaged \/ d \in Open \/ \E k \in 1..Len(pout) : d = Final(pout[k]) + 1
    BY DEF PointsInv, RowInv
  <2> QED BY <1>0, <2>1, <2>2, <2>3, <2>4, MeansKept
<1>12. pprev' = i'
  OBVIOUS
<1> QED BY <1>7, <1>8, <1>9, <1>10, <1>11, <1>12, MeansKept DEF RowInv
-----------------------------------------------------------------------------
(* Steps of points_read.                                                    *)

(* The points up to a line are finitely many, and a line that is one is     *)
(* numbered from 1 and never beyond their number.                           *)
LEMMA Ranks ==
  ASSUME Len(call.lines) \in Nat, NEW last
  PROVE  /\ IsFiniteSet(GoodUpTo(last)) /\ Cardinality(GoodUpTo(last)) \in Nat
         /\ \A l \in GoodUpTo(last) :
              Cardinality(GoodUpTo(l)) \in Nat /\ 1 <= Cardinality(GoodUpTo(l))
<1>1. \A m : IsFiniteSet(GoodUpTo(m)) /\ Cardinality(GoodUpTo(m)) \in Nat
  <2> TAKE m
  <2>1. GoodUpTo(m) \subseteq 1..Len(call.lines)
    BY DEF GoodUpTo, Good
  <2>2. IsFiniteSet(1..Len(call.lines))
    BY FS_Interval
  <2> QED BY <2>1, <2>2, FS_Subset, FS_CardinalityType
<1>2. ASSUME NEW l \in GoodUpTo(last) PROVE 1 <= Cardinality(GoodUpTo(l))
  <2>1. l \in GoodUpTo(l) /\ l \in Int
    BY DEF GoodUpTo, Good
  <2>2. Cardinality(GoodUpTo(l)) # 0
    BY <1>1, <2>1, FS_EmptySet
  <2> QED BY <1>1, <2>2
<1> QED BY <1>1, <1>2

(* A line's number is at most the number of points up to a later line.      *)
LEMMA RanksInside ==
  ASSUME Len(call.lines) \in Nat, NEW last \in Int, NEW l \in GoodUpTo(last)
  PROVE  Cardinality(GoodUpTo(l)) <= Cardinality(GoodUpTo(last))
<1>1. GoodUpTo(l) \subseteq GoodUpTo(last)
  BY DEF GoodUpTo, Good
<1> QED BY <1>1, Ranks, FS_Subset

(* One more line: a point or not.                                           *)
LEMMA OneMoreLine ==
  ASSUME Len(call.lines) \in Nat, NEW last \in Nat, last + 1 \in 1..Len(call.lines)
  PROVE  /\ last + 1 \notin Good => GoodUpTo(last + 1) = GoodUpTo(last)
         /\ last + 1 \in Good =>
              /\ GoodUpTo(last + 1) = GoodUpTo(last) \cup {last + 1}
              /\ Cardinality(GoodUpTo(last + 1)) = Cardinality(GoodUpTo(last)) + 1
<1>1. ASSUME NEW l \in Good PROVE l \in Int /\ (l <= last + 1 <=> l <= last \/ l = last + 1)
  BY DEF Good
<1>2. last + 1 \notin Good => GoodUpTo(last + 1) = GoodUpTo(last)
  BY <1>1 DEF GoodUpTo
<1>3. last + 1 \in Good => GoodUpTo(last + 1) = GoodUpTo(last) \cup {last + 1}
  BY <1>1 DEF GoodUpTo
<1>4. last + 1 \notin GoodUpTo(last)
  BY DEF GoodUpTo
<1>5. last + 1 \in Good => Cardinality(GoodUpTo(last + 1)) = Cardinality(GoodUpTo(last)) + 1
  BY <1>3, <1>4, Ranks, FS_AddElement
<1> QED BY <1>2, <1>3, <1>5

(* A line counts as a point exactly when it is good, and then its           *)
(* coordinates are what is written.                                         *)
LEMMA PointWritten ==
  ASSUME File, Input = call.lines, call.dim \in {2, 3}, NEW l \in 1..Len(call.lines),
         Len(call.lines[l].tokens) \in Nat
  PROVE  /\ IsPoint(call.lines[l], call.dim) <=> l \in Good
         /\ l \in Good => \A old : Written(call.lines[l], old) = Coordinates(l)
<1>1. PICK dim \in {2, 3} : dim = call.dim
  OBVIOUS
<1>2. PICK len \in Nat : len = Len(call.lines[l].tokens)
  OBVIOUS
<1>3. IsPoint(call.lines[l], call.dim) <=> l \in Good
  <2>1. AllBefore(call.lines[l], dim + 1) <=> \A k \in 1..dim : k <= len /\ call.lines[l].tokens[k] # Bad
    BY <1>2 DEF AllBefore, Parsed
  <2>2. l \in Good <=> /\ ~call.lines[l].comment /\ len >= dim
                       /\ \A k \in 1..dim : call.lines[l].tokens[k] # Bad
    BY <1>1, <1>2 DEF Good
  <2>3. (\A k \in 1..dim : k <= len) <=> len >= dim
    BY <1>1, <1>2
  <2> QED BY <1>1, <2>1, <2>2, <2>3 DEF IsPoint
<1>4. ASSUME l \in Good, NEW old PROVE Written(call.lines[l], old) = Coordinates(l)
  <2>1. len >= dim /\ \A k \in 1..dim : call.lines[l].tokens[k] # Bad
    BY <1>1, <1>2, <1>4 DEF Good
  <2>2. \A k \in 1..(dim + 1) : AllBefore(call.lines[l], k)
    BY <1>1, <1>2, <2>1 DEF AllBefore, Parsed
  <2>3. ASSUME NEW k \in 1..3
        PROVE  (IF k = 3 /\ dim = 2 THEN IF AllBefore(call.lines[l], 3) THEN NaN ELSE old[3]
                ELSE IF AllBefore(call.lines[l], k) /\ k <= len THEN Value(call.lines[l], k) ELSE old[k])
               = IF k > dim THEN NaN ELSE call.lines[l].tokens[k]
    <3>1. CASE k = 3 /\ dim = 2
      BY <2>2, <3>1
    <3>2. CASE ~(k = 3 /\ dim = 2)
      <4>1. k \in 1..dim /\ k <= len /\ k \in 1..(dim + 1) /\ ~(k > dim)
        BY <2>1, <3>2
      <4>2. Value(call.lines[l], k) = call.lines[l].tokens[k]
        BY <1>2, <2>1, <4>1 DEF Value
      <4> QED BY <2>2, <3>2, <4>1, <4>2
    <3> QED BY <3>1, <3>2
  <2> QED BY <1>1, <1>2, <2>3 DEF Written, Coordinates
<1> QED BY <1>3, <1>4

(* A line of the file: at most one more point, behind those that are there. *)
LEMMA LineRead ==
  ASSUME PointsInv, File, ReadLine
  PROVE  FileInv' /\ n' \in Nat /\ nallocated' \in Nat \ {0}
<1>0. /\ NextPoint("read") /\ call.dim \in {2, 3} /\ pout' = pout
      /\ call' = call /\ i' = i + 1 /\ returned' = returned /\ ~returned /\ i < Len(Input)
  BY DEF ReadLine, NextPoint, thinVars
<1>1. /\ ~Row /\ Input = call.lines /\ Len(call.lines) \in Nat /\ i \in Nat /\ n \in Nat
      /\ \A l \in 1..Len(call.lines) : Len(call.lines[l].tokens) \in Nat
      /\ nallocated \in Nat \ {0}
  BY <1>0 DEF PointsInv, CallInv, Row, File, Input
<1>2. i + 1 \in 1..Len(call.lines)
  BY <1>0, <1>1
<1>3. /\ pout = <<>> /\ n <= nallocated /\ DOMAIN slots = 1..nallocated
      /\ n = Cardinality(GoodUpTo(i))
      /\ \A l \in GoodUpTo(i) : slots[Cardinality(GoodUpTo(l))] = Coordinates(l)
  BY <1>0 DEF PointsInv, FileInv
<1>4. Grown(n) \in Nat \ {0} /\ n + 1 <= Grown(n) /\ nallocated <= Grown(n)
  BY <1>1, <1>3, GrownFits
<1>5. PICK size \in Nat \ {0} : size = Grown(n)
  BY <1>4
<1> DEFINE line == call.lines[i + 1]
           grown == [k \in 1..size |-> IF k \in DOMAIN slots THEN slots[k] ELSE Nothing]
<1>6. /\ nallocated' = size
      /\ slots' = IF line.comment THEN grown ELSE [grown EXCEPT ![n + 1] = Written(line, @)]
      /\ n' = IF IsPoint(line, call.dim) THEN n + 1 ELSE n
  BY <1>1, <1>5 DEF ReadLine
<1>7. DOMAIN slots' = 1..size /\ n' \in Nat /\ n' <= size /\ nallocated' \in Nat \ {0}
  BY <1>1, <1>4, <1>5, <1>6
<1>8. ASSUME NEW r \in Nat, 1 <= r, r <= n PROVE slots'[r] = slots[r]
  <2>1. r \in 1..size /\ r \in DOMAIN slots /\ r # n + 1
    BY <1>1, <1>3, <1>4, <1>5, <1>8
  <2>2. grown[r] = slots[r]
    BY <2>1
  <2> QED BY <1>6, <2>1, <2>2
<1>9. line.comment \/ slots'[n + 1] = Written(line, grown[n + 1])
  <2>1. n + 1 \in 1..size
    BY <1>1, <1>4, <1>5
  <2> QED BY <1>6, <2>1
<1>10. /\ IsPoint(line, call.dim) <=> i + 1 \in Good
       /\ i + 1 \in Good => \A old : Written(line, old) = Coordinates(i + 1)
  BY <1>0, <1>1, <1>2, PointWritten
<1>11. ASSUME NEW l \in GoodUpTo(i) PROVE slots'[Cardinality(GoodUpTo(l))] = Coordinates(l)
  <2>1. Cardinality(GoodUpTo(l)) \in Nat /\ 1 <= Cardinality(GoodUpTo(l)) /\ Cardinality(GoodUpTo(l)) <= n
    BY <1>1, <1>3, Ranks, RanksInside
  <2> QED BY <1>3, <1>8, <2>1
<1>12. n' = Cardinality(GoodUpTo(i + 1))
  BY <1>1, <1>2, <1>3, <1>6, <1>10, OneMoreLine
<1>13. ASSUME NEW l \in GoodUpTo(i + 1) PROVE slots'[Cardinality(GoodUpTo(l))] = Coordinates(l)
  <2>1. CASE l \in GoodUpTo(i)
    BY <1>11, <2>1
  <2>2. CASE l \notin GoodUpTo(i)
    <3>1. i + 1 \in Good /\ l = i + 1
      BY <1>1, <1>2, <2>2, OneMoreLine
    <3>2. Cardinality(GoodUpTo(l)) = n + 1 /\ ~line.comment
      BY <1>1, <1>2, <1>3, <3>1, OneMoreLine DEF Good
    <3> QED BY <1>9, <1>10, <3>1, <3>2
  <2> QED BY <2>1, <2>2
<1>14. FileInv'
  <2>1. /\ \A l : GoodUpTo(l)' = GoodUpTo(l) /\ Coordinates(l)' = Coordinates(l)
        /\ GoodUpTo(i)' = GoodUpTo(i + 1)
    BY <1>0 DEF GoodUpTo, Good, Coordinates
  <2>2. n' = Cardinality(GoodUpTo(i)')
        /\ \A l \in GoodUpTo(i)' : slots'[Cardinality(GoodUpTo(l)')] = Coordinates(l)'
    BY <1>12, <1>13, <2>1
  <2>3. n' <= nallocated' /\ DOMAIN slots' = 1..nallocated'
    BY <1>6, <1>7
  <2> QED BY <1>0, <1>3, <2>2, <2>3 DEF FileInv
<1> QED BY <1>7, <1>14
-----------------------------------------------------------------------------
(* The end of a call, and every step.                                       *)

(* The array is cut to its length and returned.                             *)
LEMMA ArrayReturned == PointsInv /\ ReturnArray => PointsInv'
<1> SUFFICES ASSUME PointsInv, ReturnArray PROVE PointsInv'
  OBVIOUS
<1>0. /\ ~returned /\ returned' = TRUE /\ call' = call /\ i' = i /\ n' = n
      /\ cluster' = cluster /\ sum_r' = sum_r /\ pprev' = pprev /\ pout' = pout
      /\ i = Len(Input) \/ (call.op = "read" /\ call.dim \notin {2, 3})
      /\ nallocated' = IF call.op = "thinlin" THEN Len(pout) ELSE n
      /\ slots' = [k \in 1..n |-> slots[k]]
  BY DEF ReturnArray, thinVars
<1>1. Input' = Input /\ Row' = Row /\ File' = File
  BY <1>0 DEF Input, Row, File
<1>2. n \in Nat /\ (Row => Len(pout) \in Nat)
  BY RowFacts DEF PointsInv, CallInv
<1>3. CallInv'
  BY <1>0, <1>1, <1>2 DEF PointsInv, CallInv, Row
<1>4. RowInv'
  <2> SUFFICES ASSUME Row PROVE RowInv'
    BY <1>1 DEF RowInv
  <2>1. nallocated' = Len(pout)
    BY <1>0 DEF Row
  <2>2. RowInv
    BY DEF PointsInv
  <2>3. Len(pout) <= Len(pout)
    BY <1>2
  <2>4. /\ \A k : Chain(pout[k])' <=> Chain(pout[k])
        /\ \A k : PathWithin(pout[k], call.rmax)' <=> PathWithin(pout[k], call.rmax)
        /\ \A k : Final(pout[k])' = Final(pout[k])
        /\ Chain(cluster)' <=> Chain(cluster)
        /\ Final(cluster)' = Final(cluster)
        /\ \A path : PathIs(cluster, path)' <=> PathIs(cluster, path)
    BY <1>0, <1>1 DEF Chain, PathWithin, PathIs, Final, Dist
  <2>5. Averaged' = Averaged /\ Open' = Open /\ Defined' = Defined
    BY <1>0 DEF Averaged, Open, Defined, Members
  <2> QED BY <1>0, <1>1, <2>1, <2>2, <2>3, <2>4, <2>5 DEF RowInv
<1>5. FileInv'
  <2> SUFFICES ASSUME File PROVE FileInv'
    BY <1>1 DEF FileInv
  <2>1. /\ pout = <<>> /\ n <= nallocated
        /\ DOMAIN slots = 1..nallocated
        /\ call.dim \notin {2, 3} => n = 0
        /\ call.dim \in {2, 3} =>
             /\ n = Cardinality(GoodUpTo(i))
             /\ \A l \in GoodUpTo(i) : slots[Cardinality(GoodUpTo(l))] = Coordinates(l)
    BY <1>0 DEF PointsInv, FileInv
  <2>2. nallocated' = n /\ n <= n /\ DOMAIN slots' = 1..n
    BY <1>0, <1>2 DEF File
  <2>3. /\ \A l : GoodUpTo(l)' = GoodUpTo(l) /\ Coordinates(l)' = Coordinates(l)
        /\ GoodUpTo(i)' = GoodUpTo(i)
    BY <1>0 DEF GoodUpTo, Good, Coordinates
  <2>4. ASSUME call.dim \in {2, 3}, NEW l \in GoodUpTo(i)
        PROVE  slots'[Cardinality(GoodUpTo(l))] = Coordinates(l)
    <3>1. Len(call.lines) \in Nat /\ i \in Int
      BY DEF PointsInv, CallInv, File
    <3>2. Cardinality(GoodUpTo(l)) \in 1..n
      BY <1>2, <2>1, <2>4, <3>1, Ranks, RanksInside
    <3> QED BY <1>0, <2>1, <2>4, <3>2
  <2>5. call.dim \in {2, 3} => i = Len(Input)
    BY <1>0
  <2> QED BY <1>0, <1>1, <2>1, <2>2, <2>3, <2>4, <2>5 DEF FileInv
<1> QED BY <1>3, <1>4, <1>5 DEF PointsInv

(* A step of another part changes nothing of it.                            *)
LEMMA StutterPoints == PointsInv /\ UNCHANGED pointsVars => PointsInv'
<1> SUFFICES ASSUME PointsInv, UNCHANGED pointsVars PROVE PointsInv'
  OBVIOUS
<1>1. /\ call' = call /\ i' = i /\ cluster' = cluster /\ sum_r' = sum_r /\ pprev' = pprev
      /\ pout' = pout /\ slots' = slots /\ n' = n /\ nallocated' = nallocated /\ returned' = returned
  BY DEF pointsVars, thinVars, readVars
<1>2. CallInv'
  BY <1>1 DEF PointsInv, CallInv, Row, File, Input
<1>3. Input' = Input /\ Row' = Row /\ File' = File
  BY <1>1 DEF Input, Row, File
<1>4. RowInv'
  <2>1. RowInv
    BY DEF PointsInv
  <2>2. /\ \A k : Chain(pout[k])' <=> Chain(pout[k])
        /\ \A k : PathWithin(pout[k], call.rmax)' <=> PathWithin(pout[k], call.rmax)
        /\ \A k : Final(pout[k])' = Final(pout[k])
        /\ Chain(cluster)' <=> Chain(cluster)
        /\ Final(cluster)' = Final(cluster)
        /\ \A path : PathIs(cluster, path)' <=> PathIs(cluster, path)
    BY <1>1, <1>3 DEF Chain, PathWithin, PathIs, Final, Dist
  <2>3. Averaged' = Averaged /\ Open' = Open /\ Defined' = Defined
    BY <1>1 DEF Averaged, Open, Defined, Members
  <2> QED BY <1>1, <1>3, <2>1, <2>2, <2>3 DEF RowInv
<1>5. FileInv'
  <2>1. FileInv
    BY DEF PointsInv
  <2>2. /\ \A l : GoodUpTo(l)' = GoodUpTo(l) /\ Coordinates(l)' = Coordinates(l)
        /\ GoodUpTo(i)' = GoodUpTo(i)
    BY <1>1 DEF GoodUpTo, Good, Coordinates
  <2> QED BY <1>1, <1>3, <2>1, <2>2 DEF FileInv
<1> QED BY <1>2, <1>4, <1>5 DEF PointsInv

(* Every step keeps the invariant.                                          *)
LEMMA StepPoints == PointsInv /\ [PointsNext]_pointsVars => PointsInv'
<1> SUFFICES ASSUME PointsInv, [PointsNext]_pointsVars PROVE PointsInv'
  OBVIOUS
<1>0. /\ CallInv /\ (Row <=> call.op = "thinlin") /\ (File <=> call.op = "read") /\ ~(Row /\ File)
      /\ n \in Nat /\ (~returned => nallocated \in Nat \ {0})
  BY DEF PointsInv, CallInv, Row, File
<1>1. ASSUME Row, NextPoint("thinlin"), RowInv', n' = n, nallocated' \in Nat \ {0} PROVE PointsInv'
  <2>1. CallInv' /\ ~File'
    BY <1>0, <1>1, TakesNext
  <2> QED BY <1>1, <2>1 DEF PointsInv, FileInv
<1>2. ASSUME UndefinedPoint \/ InitCluster \/ CloseCluster \/ AddToCluster PROVE PointsInv'
  <2>1. /\ NextPoint("thinlin") /\ Row /\ call' = call /\ i' = i + 1 /\ ~returned
        /\ i + 1 \in 1..Len(Input) /\ n' = n /\ UNCHANGED readVars
    <3>1. NextPoint("thinlin") /\ UNCHANGED readVars
      BY <1>2 DEF UndefinedPoint, InitCluster, CloseCluster, AddToCluster
    <3>2. i \in Nat /\ Len(Input) \in Nat /\ Row
      BY <1>0, <3>1, RowFacts DEF NextPoint
    <3> QED BY <3>1, <3>2 DEF NextPoint, readVars
  <2>2. ASSUME pprev # 0, WriteMean PROVE PointsInv'
    BY <1>1, <2>1, <2>2, MeanWritten
  <2>3. ASSUME nallocated' = nallocated, RowInv' PROVE PointsInv'
    BY <1>0, <1>1, <2>1, <2>3
  <2>4. CASE UndefinedPoint /\ pprev = 0
    BY <2>1, <2>3, <2>4, NothingOpened DEF UndefinedPoint, thinVars
  <2>5. CASE UndefinedPoint /\ pprev # 0
    BY <2>2, <2>5 DEF UndefinedPoint
  <2>6. CASE InitCluster
    BY <2>1, <2>3, <2>6, ClusterOpened DEF InitCluster
  <2>7. CASE CloseCluster
    BY <2>2, <2>7 DEF CloseCluster
  <2>8. CASE AddToCluster
    BY <2>1, <2>3, <2>8, ClusterGrown DEF AddToCluster
  <2> QED BY <1>2, <2>4, <2>5, <2>6, <2>7, <2>8
<1>3. CASE ReadLine
  <2>1. NextPoint("read") /\ File /\ ~Row
    BY <1>0, <1>3 DEF ReadLine, NextPoint
  <2>2. FileInv' /\ n' \in Nat /\ nallocated' \in Nat \ {0}
    BY <1>3, <2>1, LineRead
  <2>3. CallInv' /\ ~Row'
    BY <1>0, <2>1, <2>2, TakesNext
  <2> QED BY <2>2, <2>3 DEF PointsInv, RowInv
<1> QED BY <1>2, <1>3, ArrayReturned, StutterPoints DEF PointsNext

(* What a call of points_thinlin or points_read keeps.                      *)
THEOREM PointsInvariant == PointsSpec => []PointsInv
<1>1. PointsInit => PointsInv
  BY InitPoints
<1>2. PointsInv /\ [PointsNext]_pointsVars => PointsInv'
  BY StepPoints
<1> QED BY <1>1, <1>2, PTL DEF PointsSpec
-----------------------------------------------------------------------------
(* What follows.                                                            *)

(* The invariant bounds every mean that is written.                         *)
LEMMA MeansFollow == PointsInv /\ Row => ClustersBounded
<1> SUFFICES ASSUME PointsInv, Row, NEW k \in 1..Len(pout)
             PROVE  /\ \A l \in 1..Len(pout[k]) : Input[pout[k][l]] # NaN
                    /\ \A l \in 2..Len(pout[k]) : pout[k][l] = pout[k][l - 1] + 1
                    /\ PathWithin(pout[k], call.rmax)
  BY DEF ClustersBounded
<1>1. Chain(pout[k]) /\ PathWithin(pout[k], call.rmax)
  BY DEF PointsInv, RowInv
<1>2. PICK len \in Nat \ {0} : len = Len(pout[k])
  BY <1>1 DEF Chain
<1>3. \A l \in 1..len : Input[pout[k][l]] # NaN /\ pout[k][l] = pout[k][1] + l - 1
  BY <1>1, <1>2 DEF Chain
<1>4. pout[k][1] \in Int
  BY <1>1, RowFacts, ChainSpan
<1>5. ASSUME NEW l \in 2..len PROVE pout[k][l] = pout[k][l - 1] + 1
  <2>1. l \in 1..len /\ l - 1 \in 1..len
    OBVIOUS
  <2>2. pout[k][l] = pout[k][1] + l - 1 /\ pout[k][l - 1] = pout[k][1] + (l - 1) - 1
    BY <1>3, <2>1
  <2> QED BY <1>4, <2>2
<1> QED BY <1>1, <1>2, <1>3, <1>5

(* The order of the means makes them disjoint, and gives every point that is *)
(* lost a mean of its own.                                                  *)
LEMMA LossesFollow == PointsInv /\ Row => LossesBounded
<1> SUFFICES ASSUME PointsInv, Row PROVE LossesBounded
  OBVIOUS
<1>1. PICK len \in Nat : len = Len(pout)
  BY RowFacts
<1>2. Len(Input) \in Nat
  BY RowFacts
<1>3. /\ \A k \in 1..len : Chain(pout[k])
      /\ \A k, l \in 1..len : k < l => Final(pout[k]) < pout[l][1]
      /\ pprev # 0 => Chain(cluster) /\ \A k \in 1..len : Final(pout[k]) < cluster[1]
      /\ \A d \in Defined : \/ d \in Averaged \/ d \in Open
                            \/ \E k \in 1..len : d = Final(pout[k]) + 1
  BY <1>1 DEF PointsInv, RowInv
<1>4. ASSUME NEW k \in 1..len, NEW l \in 1..len, k < l, NEW m \in Members(pout[k]), m \in Members(pout[l])
      PROVE  FALSE
  <2>1. Final(pout[k]) < pout[l][1]
    BY <1>3, <1>4
  <2>2. m \in Int /\ Final(pout[k]) \in Int /\ pout[l][1] \in Int /\ m <= Final(pout[k]) /\ pout[l][1] <= m
    BY <1>2, <1>3, <1>4, ChainSpan
  <2> QED BY <2>1, <2>2
<1>5. \A k, l \in 1..len : k # l => Members(pout[k]) \cap Members(pout[l]) = {}
  <2> SUFFICES ASSUME NEW k \in 1..len, NEW l \in 1..len, k # l,
                      NEW m \in Members(pout[k]), m \in Members(pout[l])
               PROVE  FALSE
    OBVIOUS
  <2>1. k < l \/ l < k
    OBVIOUS
  <2> QED BY <1>4, <2>1
<1>6. Averaged \cap Open = {}
  <2> SUFFICES ASSUME NEW m \in Averaged, m \in Open PROVE FALSE
    OBVIOUS
  <2>1. PICK k \in 1..len : m \in Members(pout[k])
    BY <1>1 DEF Averaged
  <2>2. pprev # 0 /\ m \in Members(cluster)
    BY DEF Open
  <2>3. Final(pout[k]) < cluster[1] /\ Chain(cluster) /\ Chain(pout[k])
    BY <1>3, <2>2
  <2>4. m \in Int /\ Final(pout[k]) \in Int /\ cluster[1] \in Int /\ m <= Final(pout[k]) /\ cluster[1] <= m
    BY <1>2, <2>1, <2>2, <2>3, ChainSpan
  <2> QED BY <2>3, <2>4
<1>7. \A lost \in Lost : \E k \in 1..len : lost = Final(pout[k]) + 1
  BY <1>3 DEF Lost
<1>8. ASSUME NEW lost \in Lost PROVE lost - 1 \in Averaged
  <2>1. PICK k \in 1..len : lost = Final(pout[k]) + 1
    BY <1>7
  <2>2. Final(pout[k]) \in Int /\ Final(pout[k]) \in Members(pout[k])
    BY <1>2, <1>3, ChainSpan
  <2>3. lost - 1 = Final(pout[k])
    BY <2>1, <2>2
  <2> QED BY <1>1, <2>2, <2>3 DEF Averaged
<1>9. Cardinality(Lost) <= len
  <2> DEFINE Ends == {Final(pout[k]) + 1 : k \in 1..len}
  <2>1. IsFiniteSet(1..len) /\ Cardinality(1..len) = len
    BY FS_Interval
  <2>2. IsFiniteSet(Ends) /\ Cardinality(Ends) <= len
    <3>1. [k \in 1..len |-> Final(pout[k]) + 1] \in Surjection(1..len, Ends)
      BY DEF Surjection
    <3> QED BY <2>1, <3>1, FS_Surjection
  <2>3. Lost \subseteq Ends
    BY <1>7
  <2>4. Cardinality(Lost) <= Cardinality(Ends) /\ Cardinality(Lost) \in Nat /\ Cardinality(Ends) \in Nat
    BY <2>2, <2>3, FS_Subset, FS_CardinalityType
  <2> QED BY <2>2, <2>4
<1> QED BY <1>1, <1>5, <1>6, <1>8, <1>9 DEF LossesBounded

(* The array never overflows, a mean stands for a short path of neighbours, *)
(* and at most one point is lost for each.                                  *)
THEOREM MeansAreRight == PointsSpec => []ThinlinRight
<1>1. PointsInv => ThinlinRight
  <2> SUFFICES ASSUME PointsInv PROVE ThinlinRight
    OBVIOUS
  <2>1. CASE Row
    <3>1. WritesFit
      BY <2>1 DEF PointsInv, CallInv, RowInv, WritesFit
    <3> QED BY <2>1, <3>1, MeansFollow, LossesFollow DEF ThinlinRight
  <2>2. CASE ~Row
    <3>1. pout = <<>> /\ n <= nallocated /\ Len(<<>>) = 0 /\ nallocated \in Nat
      BY <2>2 DEF PointsInv, CallInv, FileInv
    <3> QED BY <2>2, <3>1 DEF ThinlinRight, WritesFit, ClustersBounded, LossesBounded, Row
  <2> QED BY <2>1, <2>2
<1> QED BY <1>1, PointsInvariant, PTL

(* points_read returns one point per line that is one, in the order of the  *)
(* file, and none in other dimensions.                                      *)
THEOREM FilesAreRead == PointsSpec => []ReadExact
<1>1. PointsInv => ReadExact
  <2> SUFFICES ASSUME PointsInv, returned, File PROVE ReadExact
    BY DEF ReadExact, File
  <2>1. Input = call.lines /\ Len(call.lines) \in Nat
    BY DEF PointsInv, CallInv, File, Input
  <2>2. DOMAIN slots = 1..n /\ (call.dim \notin {2, 3} => n = 0)
    BY DEF PointsInv, FileInv
  <2>3. CASE call.dim \in {2, 3}
    <3>1. /\ n = Cardinality(GoodUpTo(i)) /\ i = Len(call.lines)
          /\ \A l \in GoodUpTo(i) : slots[Cardinality(GoodUpTo(l))] = Coordinates(l)
      BY <2>1, <2>3 DEF PointsInv, FileInv
    <3>2. GoodUpTo(i) = Good
      BY <2>1, <3>1 DEF GoodUpTo, Good
    <3> QED BY <2>2, <2>3, <3>1, <3>2 DEF ReadExact, Coordinates
  <2> QED BY <2>2, <2>3 DEF ReadExact
<1> QED BY <1>1, PointsInvariant, PTL

(* The initial state is of its type.                                        *)
LEMMA InitPointsTyped == PointsInit => PointsTypeOK
<1>1. PointsInit => PointsInv
  BY InitPoints
<1> QED BY <1>1 DEF PointsInit, PointsTypeOK, PointsInv, CallInv

(* Every step leaves everything of its type.                                *)
LEMMA StepPointsTyped ==
  ASSUME PointsInv, PointsTypeOK, [PointsNext]_pointsVars
  PROVE  PointsTypeOK'
<1>1. PointsInv'
  BY StepPoints
<1>2. i' \in 0..Len(Input') /\ returned' \in BOOLEAN /\ n' \in Nat /\ nallocated' \in Nat
  BY <1>1 DEF PointsInv, CallInv
<1>3. call' = call /\ Input' = Input
  BY DEF PointsNext, UndefinedPoint, InitCluster, CloseCluster, AddToCluster, ReadLine, NextPoint,
         ReturnArray, pointsVars, Input
<1>4. i \in Nat /\ i <= i'
  BY DEF PointsInv, CallInv, PointsNext, UndefinedPoint, InitCluster, CloseCluster, AddToCluster,
         ReadLine, NextPoint, ReturnArray, pointsVars
<1>5. CASE UNCHANGED <<cluster, sum_r, pprev, pout>>
  BY <1>2, <1>3, <1>4, <1>5 DEF PointsTypeOK
<1>6. CASE call.op = "thinlin" /\ WriteMean
  BY <1>2, <1>3, <1>4, <1>6, AppendProperties DEF PointsTypeOK, WriteMean
<1>7. CASE InitCluster \/ AddToCluster
  <2>1. /\ Row /\ i' = i + 1 /\ pprev' = i + 1 /\ pout' = pout /\ i < Len(Input)
        /\ cluster' = <<i + 1>> \/ cluster' = Append(cluster, i + 1)
        /\ Input[i + 1] # NaN
    BY <1>7 DEF InitCluster, AddToCluster, NextPoint, Row
  <2>2. Len(Input) \in Nat /\ i + 1 \in 1..Len(Input)
    BY <1>4, <2>1, RowFacts
  <2>3. cluster' \in Seq(1..Len(Input))
    <3>1. CASE cluster' = <<i + 1>>
      BY <2>2, <3>1
    <3>2. CASE cluster' = Append(cluster, i + 1)
      <4>1. cluster \in Seq(1..Len(Input))
        BY DEF PointsTypeOK
      <4> QED BY <2>2, <3>2, <4>1, AppendProperties
    <3> QED BY <2>1, <3>1, <3>2
  <2>4. sum_r' \in Nat
    <3>1. CASE InitCluster
      BY <3>1 DEF InitCluster
    <3>2. CASE AddToCluster
      <4>1. pprev # 0 /\ sum_r' = sum_r + Dist(Input[i + 1], Input[pprev]) /\ sum_r \in Nat
        BY <3>2 DEF AddToCluster, PointsTypeOK
      <4>2. pprev \in 1..Len(Input) /\ Input[pprev] # NaN
        <5>1. Chain(cluster) /\ Final(cluster) = pprev
          BY <2>1, <4>1 DEF PointsInv, RowInv
        <5>2. Final(cluster) \in 1..Len(Input)
          BY <2>2, <5>1, ChainSpan
        <5>3. Len(cluster) \in 1..Len(cluster)
          BY <5>1 DEF Chain
        <5> QED BY <5>1, <5>2, <5>3 DEF Chain, Final
      <4>3. Input[i + 1] \in Int /\ Input[pprev] \in Int
        BY <2>1, <2>2, <4>2, RowFacts
      <4> QED BY <4>1, <4>3 DEF Dist
    <3> QED BY <1>7, <3>1, <3>2
  <2> QED BY <1>2, <1>3, <1>4, <2>1, <2>3, <2>4 DEF PointsTypeOK
<1> QED BY <1>5, <1>6, <1>7 DEF PointsNext, UndefinedPoint, CloseCluster, NextPoint, ReadLine, ReturnArray,
                                pointsVars, thinVars

(* Types: a mean and the open cluster are of points that there are, and the *)
(* path so far is a length.                                                 *)
THEOREM PointsTyped == PointsSpec => []PointsTypeOK
<1>1. PointsInit => PointsInv /\ PointsTypeOK
  BY InitPoints, InitPointsTyped
<1>2. PointsInv /\ PointsTypeOK /\ [PointsNext]_pointsVars => (PointsInv /\ PointsTypeOK)'
  BY StepPoints, StepPointsTyped
<1> QED BY <1>1, <1>2, PTL DEF PointsSpec

-----------------------------------------------------------------------------
(* points_getrange, points_scaletosquare, points_scale and points_thingrid. *)

(* A set of natural numbers has a least one, which gives induction.        *)
Under == {ss \in Nat \X Nat : ss[1] < ss[2]}

(* Every set of natural numbers has a least element.                        *)
LEMMA LeastOf ==
  ASSUME NEW S \in SUBSET Nat, S # {}
  PROVE  \E m \in S : \A k \in S : m <= k
<1>1. IsWellFoundedOn(Under, Nat)
  BY NatLessThanWellFounded DEF OpToRel, Under
<1>2. PICK m \in S : \A k \in S : ~(<<k, m>> \in Under)
  BY <1>1, WFMin
<1>3. ASSUME NEW k \in S PROVE m <= k
  <2>1. ~(<<k, m>> \in Under)
    BY <1>2
  <2> QED BY <2>1 DEF Under
<1> QED BY <1>3

(* A set that 0 is in, and k + 1 with k, holds every natural number.        *)
LEMMA SetInduction ==
  ASSUME NEW S, 0 \in S, \A k \in Nat : k \in S => k + 1 \in S
  PROVE  Nat \subseteq S
<1> SUFFICES ASSUME Nat \ S # {} PROVE FALSE
  OBVIOUS
<1>1. PICK m \in Nat \ S : \A k \in Nat \ S : m <= k
  BY LeastOf
<1>2. m # 0 /\ m - 1 \in Nat /\ m - 1 \in S
  BY <1>1
<1> QED BY <1>1, <1>2

-----------------------------------------------------------------------------
(* The extreme values of an array.                                         *)

(* A non-empty array of integers has a least entry.                         *)
LEMMA LeastEntry ==
  ASSUME NEW len \in Nat \ {0}, NEW f \in [1..len -> Int]
  PROVE  \E m \in 1..len : \A v \in 1..len : f[m] <= f[v]
<1> DEFINE G == {k \in Nat : k \in 1..len => \E m \in 1..k : \A v \in 1..k : f[m] <= f[v]}
<1>1. 0 \in G
  OBVIOUS
<1>2. ASSUME NEW k \in Nat, k \in G PROVE k + 1 \in G
  <2> SUFFICES ASSUME k + 1 \in 1..len
               PROVE  \E m \in 1..(k + 1) : \A v \in 1..(k + 1) : f[m] <= f[v]
    OBVIOUS
  <2>1. CASE k = 0
    <3>1. 1 \in 1..(k + 1) /\ \A v \in 1..(k + 1) : v = 1
      BY <2>1
    <3>2. f[1] \in Int /\ f[1] <= f[1]
      OBVIOUS
    <3>3. \A v \in 1..(k + 1) : f[1] <= f[v]
      BY <3>1, <3>2
    <3> QED BY <3>1, <3>3
  <2>2. CASE k # 0
    <3>1. k \in 1..len
      BY <2>2
    <3>2. PICK m \in 1..k : \A v \in 1..k : f[m] <= f[v]
      BY <1>2, <3>1
    <3>3. /\ m \in 1..(k + 1) /\ k + 1 \in 1..(k + 1) /\ f[m] \in Int /\ f[k + 1] \in Int
          /\ \A v \in 1..(k + 1) : v \in 1..len /\ (v \in 1..k \/ v = k + 1)
      BY <3>1
    <3>4. CASE f[m] <= f[k + 1]
      BY <3>2, <3>3, <3>4
    <3>5. CASE ~(f[m] <= f[k + 1])
      <4>1. \A v \in 1..(k + 1) : f[k + 1] <= f[v]
        BY <3>2, <3>3, <3>5
      <4> QED BY <3>3, <4>1
    <3> QED BY <3>4, <3>5
  <2> QED BY <2>1, <2>2
<1> HIDE DEF G
<1>3. len \in G
  BY <1>1, <1>2, SetInduction
<1> QED BY <1>3 DEF G

(* Min is the element that is below all the others.                         *)
LEMMA LeastValue ==
  ASSUME NEW S \in SUBSET Int, NEW m \in S, \A k \in S : m <= k
  PROVE  Min(S) = m
<1>1. \A k \in S : (\A j \in S : k <= j) => k = m
  OBVIOUS
<1> QED BY <1>1 DEF Min

(* Max is the element that is above all the others.                         *)
LEMMA GreatestValue ==
  ASSUME NEW S \in SUBSET Int, NEW m \in S, \A k \in S : k <= m
  PROVE  Max(S) = m
<1>1. \A k \in S : (\A j \in S : k >= j) => k = m
  OBVIOUS
<1> QED BY <1>1 DEF Max

(* A set of coordinates between its Min and its Max.                       *)
Spanned(S) ==
  /\ S \subseteq Int /\ Min(S) \in S /\ Max(S) \in S
  /\ \A k \in S : Min(S) <= k /\ k <= Max(S)

(* A set that has a least and a greatest element lies between its Min and Max. *)
LEMMA SpannedBy ==
  ASSUME NEW S \in SUBSET Int, NEW a \in S, NEW b \in S, \A k \in S : a <= k /\ k <= b
  PROVE  Spanned(S) /\ Min(S) = a /\ Max(S) = b
BY LeastValue, GreatestValue DEF Spanned

(* The values of a non-empty array lie between their Min and Max.           *)
LEMMA ValuesSpanned ==
  ASSUME NEW len \in Nat \ {0}, NEW f \in [1..len -> Int]
  PROVE  Spanned({f[v] : v \in 1..len})
<1> DEFINE S == {f[v] : v \in 1..len}
           g == [v \in 1..len |-> -f[v]]
<1>1. PICK m \in 1..len : \A v \in 1..len : f[m] <= f[v]
  BY LeastEntry
<1>2. PICK k \in 1..len : \A v \in 1..len : g[k] <= g[v]
  <2>1. g \in [1..len -> Int]
    OBVIOUS
  <2> HIDE DEF g
  <2> QED BY <2>1, LeastEntry
<1>3. S \subseteq Int /\ f[m] \in S /\ f[k] \in S
  OBVIOUS
<1>4. \A j \in S : f[m] <= j /\ j <= f[k]
  BY <1>1, <1>2
<1> HIDE DEF S
<1>5. Spanned(S)
  BY <1>3, <1>4, SpannedBy
<1> QED BY <1>5 DEF S

(* Multiplying a set of coordinates multiplies its bounds and its width.    *)
LEMMA Scaled ==
  ASSUME NEW S, Spanned(S), NEW q \in Nat \ {0}, NEW T, T = {k * q : k \in S}
  PROVE  Spanned(T) /\ Min(T) = Min(S) * q /\ Max(T) = Max(S) * q /\ Width(T) = Width(S) * q
<1>1. PICK a \in Int, b \in Int : a = Min(S) /\ b = Max(S) /\ a \in S /\ b \in S
  BY DEF Spanned
<1>2. \A k \in S : k \in Int /\ a <= k /\ k <= b
  BY <1>1 DEF Spanned
<1>3. T \in SUBSET Int /\ a * q \in T /\ b * q \in T
  BY <1>1, <1>2
<1>4. \A j \in T : a * q <= j /\ j <= b * q
  <2> SUFFICES ASSUME NEW k \in S PROVE a * q <= k * q /\ k * q <= b * q
    OBVIOUS
  <2>1. k - a \in Nat /\ b - k \in Nat
    BY <1>2
  <2>2. (k - a) * q >= 0 /\ (b - k) * q >= 0
    BY <2>1
  <2> QED BY <1>2, <2>2
<1>5. Spanned(T) /\ Min(T) = a * q /\ Max(T) = b * q
  BY <1>3, <1>4, SpannedBy
<1>6. b * q - a * q = (b - a) * q
  OBVIOUS
<1> QED BY <1>1, <1>5, <1>6 DEF Width

-----------------------------------------------------------------------------
(* Points and their coordinates.                                           *)
GridPoint == [x : Int, y : Int]

(* The coordinates of a non-empty array lie between their bounds.           *)
LEMMA CoordinatesSpanned ==
  ASSUME NEW ps \in Seq(GridPoint), ps # <<>>
  PROVE  /\ Spanned(Xs(ps)) /\ Min(Xs(ps)) \in Int /\ Max(Xs(ps)) \in Int /\ Width(Xs(ps)) \in Nat
         /\ Spanned(Ys(ps)) /\ Min(Ys(ps)) \in Int /\ Max(Ys(ps)) \in Int /\ Width(Ys(ps)) \in Nat
<1>0. Len(ps) \in Nat \ {0}
  BY EmptySeq, LenProperties
<1>1. PICK len \in Nat \ {0} : len = Len(ps)
  BY <1>0
<1>2. \A v \in 1..len : ps[v].x \in Int /\ ps[v].y \in Int
  <2>1. \A v \in 1..len : ps[v] \in GridPoint
    BY <1>1, LenProperties
  <2> QED BY <2>1 DEF GridPoint
<1> DEFINE f == [v \in 1..len |-> ps[v].x]
           g == [v \in 1..len |-> ps[v].y]
<1>3. f \in [1..len -> Int] /\ g \in [1..len -> Int]
  BY <1>2
<1>4. Xs(ps) = {f[v] : v \in 1..len} /\ Ys(ps) = {g[v] : v \in 1..len}
  BY <1>1 DEF Xs, Ys
<1> HIDE DEF f, g
<1>5. Spanned(Xs(ps)) /\ Spanned(Ys(ps))
  BY <1>3, <1>4, ValuesSpanned
<1>6. ASSUME NEW S, Spanned(S) PROVE Min(S) \in Int /\ Max(S) \in Int /\ Width(S) \in Nat
  <2>1. Min(S) \in Int /\ Max(S) \in Int /\ Min(S) <= Max(S)
    BY <1>6 DEF Spanned
  <2> QED BY <2>1 DEF Width
<1> QED BY <1>5, <1>6

-----------------------------------------------------------------------------
(* Division, and the cell of a coordinate.                                 *)

(* What integer division returns.                                           *)
LEMMA Quotient ==
  ASSUME NEW m \in Int, NEW d \in Nat \ {0}
  PROVE  /\ m \div d \in Int
         /\ d * (m \div d) <= m /\ m < d * (m \div d) + d
         /\ m >= 0 => m \div d >= 0
OBVIOUS

(* It is the only such number.                                              *)
LEMMA QuotientIs ==
  ASSUME NEW m \in Int, NEW d \in Nat \ {0}, NEW q \in Int, d * q <= m, m < d * q + d
  PROVE  m \div d = q
<1>1. PICK r \in Int : r = m \div d /\ d * r <= m /\ m < d * r + d
  BY Quotient
<1>2. CASE r < q
  <2>1. PICK e \in Nat : q = r + 1 + e
    <3>1. q - r - 1 \in Nat /\ q = r + 1 + (q - r - 1)
      BY <1>2
    <3> QED BY <3>1
  <2>2. d * (r + 1 + e) = d * r + d + d * e /\ d * e >= 0
    OBVIOUS
  <2> QED BY <1>1, <2>1, <2>2
<1>3. CASE r > q
  <2>1. PICK e \in Nat : r = q + 1 + e
    <3>1. r - q - 1 \in Nat /\ r = q + 1 + (r - q - 1)
      BY <1>3
    <3> QED BY <3>1
  <2>2. d * (q + 1 + e) = d * q + d + d * e /\ d * e >= 0
    OBVIOUS
  <2> QED BY <1>1, <2>1, <2>2
<1> QED BY <1>1, <1>2, <1>3

(* A row and a column, from the index they make.                            *)
LEMMA Digits ==
  ASSUME NEW d \in Nat \ {0}, NEW j \in 0..(d - 1), NEW k \in Nat
  PROVE  (j + k * d) \div d = k /\ (j + k * d) % d = j
<1>1. j + k * d \in Int /\ d * k <= j + k * d /\ j + k * d < d * k + d
  OBVIOUS
<1>2. (j + k * d) \div d = k
  BY <1>1, QuotientIs
<1>3. PICK m \in Int : m = j + k * d
  BY <1>1
<1>4. m % d = m - d * (m \div d)
  OBVIOUS
<1>5. m - d * k = j
  BY <1>3
<1> QED BY <1>2, <1>3, <1>4, <1>5

(* An index of a grid, from its row and its column.                         *)
LEMMA InRows ==
  ASSUME NEW d \in Nat \ {0}, NEW rows \in Nat \ {0}, NEW m \in 0..(d * rows - 1)
  PROVE  /\ m % d \in 0..(d - 1) /\ m \div d \in 0..(rows - 1)
         /\ m = (m % d) + (m \div d) * d
<1>1. PICK q \in Int : q = m \div d /\ d * q <= m /\ m < d * q + d /\ q >= 0
  BY Quotient
<1>2. m % d = m - d * q
  BY <1>1
<1>3. q < rows
  <2> SUFFICES ASSUME q >= rows PROVE FALSE
    BY <1>1
  <2>1. PICK e \in Nat : q = rows + e
    <3>1. q - rows \in Nat /\ q = rows + (q - rows)
      OBVIOUS
    <3> QED BY <3>1
  <2>2. d * (rows + e) = d * rows + d * e /\ d * e >= 0
    OBVIOUS
  <2> QED BY <1>1, <2>1, <2>2
<1>4. m - d * q \in 0..(d - 1) /\ m = (m - d * q) + q * d
  BY <1>1
<1> QED BY <1>1, <1>2, <1>3, <1>4

(* The quotient of a coordinate lies in the cell's rectangle; only that of *)
(* the largest one is count, and goes into the last cell.                  *)
LEMMA CellFits ==
  ASSUME NEW S, Spanned(S), NEW c \in S, NEW count \in Nat \ {0}, count > 1 => Width(S) > 0
  PROVE  Cell(c, S, count) \in 0..(count - 1) /\ InCell(c, S, count, Cell(c, S, count))
<1>1. CASE count = 1
  BY <1>1 DEF Cell, InCell
<1>2. CASE count # 1
  <2>1. PICK a \in Int, b \in Int, w \in Int :
          a = Min(S) /\ b = Max(S) /\ w = b - a /\ w = Width(S) /\ a <= c /\ c <= b /\ c \in Int
    <3>1. Min(S) \in Int /\ Max(S) \in Int /\ c \in Int /\ Min(S) <= c /\ c <= Max(S)
      BY DEF Spanned
    <3>2. Max(S) - Min(S) \in Int
      BY <3>1
    <3> QED BY <3>1, <3>2 DEF Width
  <2>2. w > 0
    BY <1>2, <2>1
  <2>3. PICK e \in Nat, m \in Nat : e = c - a /\ m = e * count
    <3>1. c - a \in Nat /\ (c - a) * count \in Nat
      BY <2>1
    <3> QED BY <3>1
  <2>4. PICK q \in Nat : q = m \div w /\ w * q <= m /\ m < w * q + w
    <3>1. w \in Nat \ {0}
      BY <2>2
    <3>2. /\ m \div w \in Int /\ w * (m \div w) <= m /\ m < w * (m \div w) + w
          /\ m >= 0 => m \div w >= 0
      BY <3>1, Quotient
    <3>3. m \div w \in Nat
      BY <3>2
    <3> QED BY <3>2, <3>3
  <2>5. e <= w /\ (c = b <=> e = w)
    <3>1. c \in Int /\ c <= b /\ e = c - a /\ w = b - a
      BY <2>1, <2>3
    <3>2. e <= w
      BY <3>1
    <3>3. c = b => e = w
      BY <3>1
    <3>4. e = w => c = b
      BY <3>1
    <3> QED BY <3>2, <3>3, <3>4
  <2>6. Cell(c, S, count) = IF q = count THEN count - 1 ELSE q
    BY <1>2, <2>1, <2>3, <2>4 DEF Cell
  <2>7. \A k \in Int : InCell(c, S, count, k) <=>
           m >= k * w /\ (m < (k + 1) * w \/ (k = count - 1 /\ c = b))
    BY <1>2, <2>1, <2>3 DEF InCell
  <2>8. CASE e = w
    <3>1. m = w * count
      BY <2>3, <2>8
    <3>2. q = count
      <4>1. w \in Nat \ {0} /\ w * count <= m /\ m < w * count + w
        BY <2>2, <3>1
      <4> QED BY <2>4, <4>1, QuotientIs
    <3>3. w * count >= (count - 1) * w
      BY <2>2
    <3> QED BY <2>5, <2>6, <2>7, <2>8, <3>1, <3>2, <3>3
  <2>9. CASE e < w
    <3>1. m < w * count
      <4>1. PICK g \in Nat \ {0} : w = e + g
        <5>1. w - e \in Nat \ {0} /\ w = e + (w - e)
          BY <2>9
        <5> QED BY <5>1
      <4>2. (e + g) * count = e * count + g * count /\ g * count > 0
        OBVIOUS
      <4> QED BY <2>3, <4>1, <4>2
    <3>2. q < count
      <4> SUFFICES ASSUME q >= count PROVE FALSE
        OBVIOUS
      <4>1. PICK g \in Nat : q = count + g
        <5>1. q - count \in Nat /\ q = count + (q - count)
          OBVIOUS
        <5> QED BY <5>1
      <4>2. w * (count + g) = w * count + w * g /\ w * g >= 0
        BY <2>2
      <4> QED BY <2>4, <3>1, <4>1, <4>2
    <3>3. m >= q * w /\ m < (q + 1) * w
      BY <2>4
    <3> QED BY <2>6, <2>7, <3>2, <3>3
  <2> QED BY <2>5, <2>8, <2>9
<1> QED BY <1>1, <1>2

-----------------------------------------------------------------------------
(* Steps of (max-min)/(count-1) and cells of (max-min)/count: the k-th of  *)
(* count evenly spaced coordinates is in the k-th cell.                    *)

(* Evenly spaced coordinates from 0: their bounds and their width.          *)
LEMMA EvenSpan ==
  ASSUME NEW count \in Nat \ {0}, count > 1, NEW step \in Nat,
         NEW S, S = {k * step : k \in 0..(count - 1)}
  PROVE  Spanned(S) /\ Min(S) = 0 /\ Max(S) = (count - 1) * step /\ Width(S) = (count - 1) * step
<1>1. S \in SUBSET Int
  OBVIOUS
<1>2. 0 * step = 0 /\ 0 \in 0..(count - 1) /\ count - 1 \in 0..(count - 1)
  OBVIOUS
<1>3. 0 \in S /\ (count - 1) * step \in S
  BY <1>2
<1>4. \A j \in S : 0 <= j /\ j <= (count - 1) * step
  <2> SUFFICES ASSUME NEW k \in 0..(count - 1) PROVE 0 <= k * step /\ k * step <= (count - 1) * step
    OBVIOUS
  <2>1. PICK e \in Nat : count - 1 = k + e
    <3>1. count - 1 - k \in Nat /\ count - 1 = k + (count - 1 - k)
      OBVIOUS
    <3> QED BY <3>1
  <2>2. (k + e) * step = k * step + e * step /\ e * step >= 0 /\ k * step >= 0
    OBVIOUS
  <2> QED BY <2>1, <2>2
<1>5. PICK b \in Int : b = (count - 1) * step
  OBVIOUS
<1>6. Spanned(S) /\ Min(S) = 0 /\ Max(S) = b
  BY <1>1, <1>3, <1>4, <1>5, SpannedBy
<1> QED BY <1>5, <1>6 DEF Width

(* The k-th of count evenly spaced coordinates is in the k-th cell.         *)
LEMMA EvenCells ==
  ASSUME NEW count \in Nat \ {0}, NEW step \in Nat, NEW S, NEW c, NEW k \in 0..(count - 1),
         count > 1 => /\ S = {j * step : j \in 0..(count - 1)}
                      /\ Width(S) > 0 /\ c = k * step
  PROVE  Cell(c, S, count) = k
<1>1. CASE count = 1
  BY <1>1 DEF Cell
<1>2. CASE count > 1
  <2>1. Min(S) = 0 /\ Width(S) = (count - 1) * step
    BY <1>2, EvenSpan
  <2>2. PICK d \in Nat \ {0}, m \in Nat : d = (count - 1) * step /\ m = k * step * count
    <3>1. (count - 1) * step > 0
      BY <1>2, <2>1
    <3>2. (count - 1) * step \in Int /\ k * step * count \in Nat
      OBVIOUS
    <3>3. (count - 1) * step \in Nat \ {0}
      BY <3>1, <3>2
    <3> QED BY <3>2, <3>3
  <2>3. step > 0
    BY <2>2
  <2>4. (c - Min(S)) * count = m
    <3>1. (k * step - 0) * count = k * step * count
      OBVIOUS
    <3> QED BY <1>2, <2>1, <2>2, <3>1
  <2>5. Cell(c, S, count) = IF m \div d = count THEN (m \div d) - 1 ELSE m \div d
    BY <1>2, <2>1, <2>2, <2>4 DEF Cell
  <2>6. CASE k = count - 1
    <3>1. m = d * count
      BY <2>2, <2>6
    <3>2. d * count <= m /\ m < d * count + d /\ m \in Int /\ count \in Int
      BY <3>1
    <3>3. m \div d = count
      BY <3>2, QuotientIs
    <3> QED BY <2>5, <2>6, <3>3
  <2>7. CASE k # count - 1
    <3>1. PICK e \in Nat : count = k + 2 + e
      <4>1. count - k - 2 \in Nat /\ count = k + 2 + (count - k - 2)
        BY <2>7
      <4> QED BY <4>1
    <3>2. d = (k + 1 + e) * step /\ m = k * step * (k + 2 + e)
      <4>1. count - 1 = k + 1 + e
        BY <3>1
      <4> QED BY <2>2, <3>1, <4>1
    <3>3. /\ (k + 1 + e) * step * k + k * step = k * step * (k + 2 + e)
          /\ (k + 1 + e) * step * k + (k + 1 + e) * step = k * step * (k + 2 + e) + (1 + e) * step
      OBVIOUS
    <3>4. k * step >= 0 /\ (1 + e) * step > 0
      BY <2>3
    <3>5. d * k <= m /\ m < d * k + d
      BY <3>2, <3>3, <3>4
    <3>6. m \div d = k
      BY <3>5, QuotientIs
    <3> QED BY <2>5, <3>1, <3>6
  <2> QED BY <2>6, <2>7
<1> QED BY <1>1, <1>2

(* A node's coordinate is an integer.                                       *)
LEMMA AlongIsInt ==
  ASSUME NEW count \in Nat \ {0}, NEW k \in Int
  PROVE  Along(0, 12, count, k) \in Int
<1>1. CASE count > 1
  <2>1. count - 1 \in Nat \ {0}
    BY <1>1
  <2>2. 12 \div (count - 1) \in Int
    BY <2>1, Quotient
  <2> QED BY <1>1, <2>2 DEF Along
<1>2. CASE ~(count > 1)
  BY <1>2 DEF Along
<1> QED BY <1>1, <1>2

(* The array holds a generated grid, its rows perhaps stretched.           *)
HoldsGrid(ps, nx, ny, f) ==
  /\ Len(ps) = nx * ny
  /\ \A v \in 1..(nx * ny) : ps[v].x = Node(nx, ny, v).x /\ ps[v].y = Node(nx, ny, v).y * f

EvenlySpaced(ps, nx, ny, dx, dy) ==
  /\ nx > 1 => /\ Xs(ps) = {k * dx : k \in 0..(nx - 1)}
               /\ \A v \in 1..(nx * ny) : ps[v].x = ((v - 1) % nx) * dx
  /\ ny > 1 => /\ Ys(ps) = {k * dy : k \in 0..(ny - 1)}
               /\ \A v \in 1..(nx * ny) : ps[v].y = ((v - 1) \div nx) * dy

(* The coordinates of a generated grid are evenly spaced, stretched or not. *)
LEMMA GridCoordinates ==
  ASSUME NEW nx \in Nat \ {0}, NEW ny \in Nat \ {0}, NEW f \in Nat \ {0}, NEW ps, HoldsGrid(ps, nx, ny, f)
  PROVE  \E dx, dy \in Nat : EvenlySpaced(ps, nx, ny, dx, dy)
<1>1. \A v \in 1..(nx * ny) : (v - 1) % nx \in 0..(nx - 1) /\ (v - 1) \div nx \in 0..(ny - 1)
  <2> SUFFICES ASSUME NEW v \in 1..(nx * ny)
               PROVE  (v - 1) % nx \in 0..(nx - 1) /\ (v - 1) \div nx \in 0..(ny - 1)
    OBVIOUS
  <2>1. PICK m \in Int : m = nx * ny
    OBVIOUS
  <2>2. v - 1 \in 0..(nx * ny - 1)
    BY <2>1
  <2> QED BY <2>2, InRows
<1>2. nx > 1 => 12 \div (nx - 1) \in Nat
  <2> SUFFICES ASSUME nx > 1 PROVE 12 \div (nx - 1) \in Nat
    OBVIOUS
  <2>1. nx - 1 \in Nat \ {0}
    OBVIOUS
  <2>2. 12 \div (nx - 1) \in Int /\ (12 >= 0 => 12 \div (nx - 1) >= 0)
    BY <2>1, Quotient
  <2> QED BY <2>2
<1>3. ny > 1 => 12 \div (ny - 1) \in Nat
  <2> SUFFICES ASSUME ny > 1 PROVE 12 \div (ny - 1) \in Nat
    OBVIOUS
  <2>1. ny - 1 \in Nat \ {0}
    OBVIOUS
  <2>2. 12 \div (ny - 1) \in Int /\ (12 >= 0 => 12 \div (ny - 1) >= 0)
    BY <2>1, Quotient
  <2> QED BY <2>2
<1>4. PICK dx \in Nat : nx > 1 => dx = 12 \div (nx - 1)
  BY <1>2
<1>5. PICK ey \in Nat : ny > 1 => ey = 12 \div (ny - 1)
  BY <1>3
<1>6. PICK dy \in Nat : dy = ey * f
  OBVIOUS
<1>7. ASSUME nx > 1
      PROVE  /\ \A v \in 1..(nx * ny) : ps[v].x = ((v - 1) % nx) * dx
             /\ Xs(ps) = {k * dx : k \in 0..(nx - 1)}
  <2>1. ASSUME NEW v \in 1..(nx * ny) PROVE ps[v].x = ((v - 1) % nx) * dx
    <3>1. ps[v].x = Along(0, 12, nx, (v - 1) % nx)
      BY DEF HoldsGrid, Node
    <3>2. PICK k \in Nat : k = (v - 1) % nx
      BY <1>1
    <3>3. Along(0, 12, nx, k) = k * dx
      BY <1>4, <1>7 DEF Along
    <3> QED BY <3>1, <3>2, <3>3
  <2>2. ASSUME NEW k \in 0..(nx - 1) PROVE \E v \in 1..(nx * ny) : (v - 1) % nx = k
    <3>1. (k + 0 * nx) % nx = k
      BY Digits
    <3>2. k + 0 * nx = k /\ (k + 1) - 1 = k
      OBVIOUS
    <3>3. k + 1 \in 1..(nx * ny)
      <4>1. PICK e \in Nat : ny = 1 + e
        <5>1. ny - 1 \in Nat /\ ny = 1 + (ny - 1)
          OBVIOUS
        <5> QED BY <5>1
      <4>2. nx * (1 + e) = nx + nx * e /\ nx * e >= 0
        OBVIOUS
      <4> QED BY <4>1, <4>2
    <3> QED BY <3>1, <3>2, <3>3
  <2>3. Xs(ps) = {ps[v].x : v \in 1..(nx * ny)}
    BY DEF Xs, HoldsGrid
  <2>4. Xs(ps) \subseteq {k * dx : k \in 0..(nx - 1)}
    BY <1>1, <2>1, <2>3
  <2>5. {k * dx : k \in 0..(nx - 1)} \subseteq Xs(ps)
    BY <2>1, <2>2, <2>3
  <2> QED BY <2>1, <2>4, <2>5
<1>8. ASSUME ny > 1
      PROVE  /\ \A v \in 1..(nx * ny) : ps[v].y = ((v - 1) \div nx) * dy
             /\ Ys(ps) = {k * dy : k \in 0..(ny - 1)}
  <2>1. ASSUME NEW v \in 1..(nx * ny) PROVE ps[v].y = ((v - 1) \div nx) * dy
    <3>1. ps[v].y = Along(0, 12, ny, (v - 1) \div nx) * f
      BY DEF HoldsGrid, Node
    <3>2. PICK k \in Nat : k = (v - 1) \div nx
      BY <1>1
    <3>3. Along(0, 12, ny, k) = k * ey
      BY <1>5, <1>8 DEF Along
    <3>4. (k * ey) * f = k * (ey * f)
      OBVIOUS
    <3> QED BY <1>6, <3>1, <3>2, <3>3, <3>4
  <2>2. ASSUME NEW k \in 0..(ny - 1) PROVE \E v \in 1..(nx * ny) : (v - 1) \div nx = k
    <3>1. (0 + k * nx) \div nx = k
      BY Digits
    <3>2. 0 + k * nx = k * nx /\ (k * nx + 1) - 1 = k * nx /\ k * nx + 1 \in Int /\ k * nx + 1 >= 1
      OBVIOUS
    <3>3. k * nx + 1 <= nx * ny
      <4>1. PICK e \in Nat : ny = k + 1 + e
        <5>1. ny - k - 1 \in Nat /\ ny = k + 1 + (ny - k - 1)
          OBVIOUS
        <5> QED BY <5>1
      <4>2. nx * (k + 1 + e) = k * nx + nx + nx * e /\ nx * e >= 0
        OBVIOUS
      <4> QED BY <4>1, <4>2
    <3>4. k * nx + 1 \in 1..(nx * ny)
      BY <3>2, <3>3
    <3> QED BY <3>1, <3>2, <3>4
  <2>3. Ys(ps) = {ps[v].y : v \in 1..(nx * ny)}
    BY DEF Ys, HoldsGrid
  <2>4. Ys(ps) \subseteq {k * dy : k \in 0..(ny - 1)}
    BY <1>1, <2>1, <2>3
  <2>5. {k * dy : k \in 0..(ny - 1)} \subseteq Ys(ps)
    BY <2>1, <2>2, <2>3
  <2> QED BY <2>1, <2>4, <2>5
<1>9. EvenlySpaced(ps, nx, ny, dx, dy)
  BY <1>7, <1>8 DEF EvenlySpaced
<1> QED BY <1>9

-----------------------------------------------------------------------------
(* The invariant.  As long as another call or a step of points_thingrid can *)
(* follow, the array is made of points (the means that end a run of the     *)
(* model are sums, which nothing reads again).                              *)
Live == calls < MaxCalls \/ thin # Idle

ArrayInv ==
  /\ calls \in Nat /\ yden \in Nat \ {0}
  /\ Live => array \in Seq(GridPoint)

LaidInv ==
  Live /\ laid # <<0, 0>> =>
    \E nx, ny, f \in Nat \ {0} : laid = <<nx, ny>> /\ HoldsGrid(array, nx, ny, f)

RangeOf(ps, asked, zoom) ==
  LET bx == Bounds(Xs(ps), "xmin" \in asked, "xmax" \in asked, zoom)
      by == Bounds(Ys(ps), "ymin" \in asked, "ymax" \in asked, zoom)
  IN  [of |-> ps, asked |-> asked, zoom |-> zoom, over |-> 2 * zoom[2],
       lo |-> [x |-> bx[1], y |-> by[1]], hi |-> [x |-> bx[2], y |-> by[2]]]

RangeInv ==
  range # NoRange =>
    \E ps \in Seq(GridPoint), asked \in SUBSET {"xmin", "xmax", "ymin", "ymax"}, zoom \in Zooms :
      ps # <<>> /\ range = RangeOf(ps, asked, zoom)

(* Until a call replaces the array, it is the one that was made square.     *)
Squared(k1, k2, den, ps) ==
  /\ square = [k |-> <<k1, k2>>, before |-> ps, yden |-> den]
  /\ Live => /\ Len(array) = Len(ps) /\ yden = den * k1
             /\ \A v \in 1..Len(array) : array[v].y = ps[v].y * k2

SquareInv ==
  square # NoSquare => \E k1, k2, den \in Nat \ {0}, ps \in Seq(GridPoint) : Squared(k1, k2, den, ps)

(* Sums of entries, and of those of the points of a set.                    *)
IsSum(f, t, len) == f = [v \in 0..len |-> IF v = 0 THEN 0 ELSE f[v - 1] + t[v]]
Entries(ps, S, d) == [v \in 1..Len(ps) |-> IF v \in S THEN ps[v][d] ELSE 0]

(* The cells hold the points looked at so far, each the one it is in.       *)
Box(nx, ny, v) == Cell(array[v].x, Xs(array), nx) + Cell(array[v].y, Ys(array), ny) * nx

CellMembers(nx, ny, ii, c) == {v \in 1..ii : Box(nx, ny, v) = c}
Thinning(nx, ny, ii) ==
  [nx |-> nx, ny |-> ny, ii |-> ii,
   cells |-> [c \in 0..(nx * ny - 1) |-> CellMembers(nx, ny, ii, c)],
   sums |-> [c \in 0..(nx * ny - 1) |-> [x |-> SumOver(array, CellMembers(nx, ny, ii, c), "x"),
                                       y |-> SumOver(array, CellMembers(nx, ny, ii, c), "y")]]]

Apart(nx, ny) ==
  array # <<>> => (nx > 1 => Width(Xs(array)) > 0) /\ (ny > 1 => Width(Ys(array)) > 0)

ThinInv ==
  thin # Idle =>
    \E nx, ny \in Nat \ {0}, ii \in 0..Len(array) : thin = Thinning(nx, ny, ii) /\ Apart(nx, ny)

GridInv == ArrayInv /\ LaidInv /\ RangeInv /\ SquareInv /\ ThinInv

-----------------------------------------------------------------------------
(* The sums of points_thingrid.                                            *)

(* A running sum of integers exists.                                       *)
LEMMA RunningSum ==
  ASSUME NEW len \in Nat, NEW t, \A v \in 1..len : t[v] \in Int
  PROVE  \E f \in [0..len -> Int] : IsSum(f, t, len)
<1> DEFINE Solves(f, m) == \A v \in 0..m : f[v] = IF v = 0 THEN 0 ELSE f[v - 1] + t[v]
           G == {m \in Nat : m <= len => \E f \in [0..m -> Int] : Solves(f, m)}
<1>1. 0 \in G
  <2>1. [v \in 0..0 |-> 0] \in [0..0 -> Int] /\ Solves([v \in 0..0 |-> 0], 0)
    OBVIOUS
  <2> QED BY <2>1
<1>2. ASSUME NEW m \in Nat, m \in G PROVE m + 1 \in G
  <2> SUFFICES ASSUME m + 1 <= len PROVE \E f \in [0..(m + 1) -> Int] : Solves(f, m + 1)
    OBVIOUS
  <2>1. PICK f \in [0..m -> Int] : Solves(f, m)
    BY <1>2
  <2>2. PICK h \in [0..(m + 1) -> Int] :
          h = [v \in 0..(m + 1) |-> IF v = m + 1 THEN f[m] + t[m + 1] ELSE f[v]]
    <3>1. t[m + 1] \in Int /\ f[m] \in Int
      OBVIOUS
    <3>2. [v \in 0..(m + 1) |-> IF v = m + 1 THEN f[m] + t[m + 1] ELSE f[v]] \in [0..(m + 1) -> Int]
      BY <3>1
    <3> QED BY <3>2
  <2>3. h[m + 1] = f[m] + t[m + 1] /\ \A v \in 0..m : h[v] = f[v]
    BY <2>2
  <2>4. ASSUME NEW v \in 0..(m + 1) PROVE h[v] = IF v = 0 THEN 0 ELSE h[v - 1] + t[v]
    <3>1. CASE v = m + 1
      BY <2>3, <3>1
    <3>2. CASE v \in 0..m
      <4>1. v # 0 => v - 1 \in 0..m
        BY <3>2
      <4> QED BY <2>1, <2>3, <3>2, <4>1
    <3> QED BY <3>1, <3>2
  <2> QED BY <2>4
<1>3. len \in G
  <2> HIDE DEF G
  <2> QED BY <1>1, <1>2, SetInduction
<1>4. PICK f \in [0..len -> Int] : Solves(f, len)
  <2> HIDE DEF Solves
  <2> QED BY <1>3
<1>5. f = [v \in 0..len |-> IF v = 0 THEN 0 ELSE f[v - 1] + t[v]]
  BY <1>4
<1> QED BY <1>4, <1>5 DEF IsSum

(* And there is only one.                                                  *)
LEMMA OneSum ==
  ASSUME NEW len \in Nat, NEW t, NEW f, NEW h, IsSum(f, t, len), IsSum(h, t, len)
  PROVE  f[len] = h[len]
<1>1. /\ \A v \in 0..len : f[v] = IF v = 0 THEN 0 ELSE f[v - 1] + t[v]
      /\ \A v \in 0..len : h[v] = IF v = 0 THEN 0 ELSE h[v - 1] + t[v]
  BY DEF IsSum
<1> DEFINE G == {m \in Nat : m <= len => f[m] = h[m]}
<1>2. 0 \in G
  <2>1. 0 \in 0..len
    OBVIOUS
  <2>2. f[0] = 0 /\ h[0] = 0
    BY <1>1, <2>1
  <2> QED BY <2>2
<1>3. ASSUME NEW m \in Nat, m \in G PROVE m + 1 \in G
  <2> SUFFICES ASSUME m + 1 \in 0..len PROVE f[m + 1] = h[m + 1]
    OBVIOUS
  <2>1. f[m] = h[m] /\ m + 1 # 0 /\ (m + 1) - 1 = m
    BY <1>3
  <2>2. f[m + 1] = f[m] + t[m + 1] /\ h[m + 1] = h[m] + t[m + 1]
    BY <1>1, <2>1
  <2> QED BY <2>1, <2>2
<1>4. len \in G
  <2> HIDE DEF G
  <2> QED BY <1>2, <1>3, SetInduction
<1> QED BY <1>4

(* The sum over a set of points is the last of the running sums.           *)
LEMMA SumOverIs ==
  ASSUME NEW ps, Len(ps) \in Nat, NEW S, NEW d, NEW f, IsSum(f, Entries(ps, S, d), Len(ps))
  PROVE  SumOver(ps, S, d) = f[Len(ps)]
<1> DEFINE Sum(g) == g = [v \in 0..Len(ps) |-> IF v = 0 THEN 0 ELSE g[v - 1] + (IF v \in S THEN ps[v][d] ELSE 0)]
<1>1. ASSUME NEW g PROVE Sum(g) <=> IsSum(g, Entries(ps, S, d), Len(ps))
  <2>1. \A v \in 0..Len(ps) : v # 0 => Entries(ps, S, d)[v] = IF v \in S THEN ps[v][d] ELSE 0
    BY DEF Entries
  <2>2. [v \in 0..Len(ps) |-> IF v = 0 THEN 0 ELSE g[v - 1] + (IF v \in S THEN ps[v][d] ELSE 0)]
        = [v \in 0..Len(ps) |-> IF v = 0 THEN 0 ELSE g[v - 1] + Entries(ps, S, d)[v]]
    BY <2>1
  <2> QED BY <2>2 DEF IsSum
<1>2. SumOver(ps, S, d) = (CHOOSE g : Sum(g))[Len(ps)]
  BY DEF SumOver
<1>3. Sum(f)
  BY <1>1
<1> HIDE DEF Sum
<1>4. Sum(CHOOSE g : Sum(g))
  BY <1>3
<1>5. IsSum((CHOOSE g : Sum(g)), Entries(ps, S, d), Len(ps))
  BY <1>1, <1>4
<1> QED BY <1>2, <1>5, OneSum

(* No points add up to 0.                                                  *)
LEMMA EmptySum ==
  ASSUME NEW ps, Len(ps) \in Nat, NEW d
  PROVE  SumOver(ps, {}, d) = 0
<1>1. PICK len \in Nat : len = Len(ps)
  OBVIOUS
<1>2. PICK f : f = [v \in 0..len |-> 0]
  OBVIOUS
<1>3. \A v \in 1..len : Entries(ps, {}, d)[v] = 0
  BY <1>1 DEF Entries
<1>4. [v \in 0..len |-> IF v = 0 THEN 0 ELSE f[v - 1] + Entries(ps, {}, d)[v]] = f
  <2>1. ASSUME NEW v \in 0..len
        PROVE  (IF v = 0 THEN 0 ELSE f[v - 1] + Entries(ps, {}, d)[v]) = 0
    <3>1. v # 0 => v - 1 \in 0..len /\ v \in 1..len
      OBVIOUS
    <3> QED BY <1>2, <1>3, <3>1
  <2> QED BY <1>2, <2>1
<1>5. IsSum(f, Entries(ps, {}, d), len) /\ f[len] = 0
  BY <1>2, <1>4 DEF IsSum
<1> QED BY <1>1, <1>5, SumOverIs

(* One point more adds its own coordinate.                                 *)
LEMMA SumGrows ==
  ASSUME NEW ps \in Seq(GridPoint), NEW S, NEW p1 \in 1..Len(ps), p1 \notin S, NEW d \in {"x", "y"}
  PROVE  SumOver(ps, S, d) \in Int /\ SumOver(ps, S \cup {p1}, d) = SumOver(ps, S, d) + ps[p1][d]
<1>1. PICK len \in Nat : len = Len(ps)
  BY LenProperties
<1>2. \A v \in 1..len : ps[v] \in GridPoint
  BY <1>1, LenProperties
<1>3. \A v \in 1..len : ps[v][d] \in Int
  BY <1>2 DEF GridPoint
<1>4. PICK t : t = Entries(ps, S, d)
  OBVIOUS
<1>5. \A v \in 1..len : t[v] \in Int /\ t[v] = IF v \in S THEN ps[v][d] ELSE 0
  BY <1>1, <1>3, <1>4 DEF Entries
<1>6. PICK f \in [0..len -> Int] : IsSum(f, t, len)
  BY <1>5, RunningSum
<1>7. SumOver(ps, S, d) = f[len]
  BY <1>1, <1>4, <1>6, SumOverIs
<1>8. PICK a \in Int : a = ps[p1][d]
  BY <1>1, <1>3
<1>9. PICK h : h = [v \in 0..len |-> IF v >= p1 THEN f[v] + a ELSE f[v]]
  OBVIOUS
<1>10. PICK u : u = Entries(ps, S \cup {p1}, d)
  OBVIOUS
<1>11. /\ \A v \in 1..len : v # p1 => u[v] = t[v]
       /\ u[p1] = a /\ t[p1] = 0
  BY <1>1, <1>5, <1>8, <1>10 DEF Entries
<1>12. \A v \in 0..len : f[v] = IF v = 0 THEN 0 ELSE f[v - 1] + t[v]
  BY <1>6 DEF IsSum
<1>13. ASSUME NEW v \in 0..len
       PROVE  (IF v >= p1 THEN f[v] + a ELSE f[v]) = IF v = 0 THEN 0 ELSE h[v - 1] + u[v]
  <2>1. CASE v = 0
    <3>1. ~(v >= p1)
      BY <2>1
    <3> QED BY <1>12, <2>1, <3>1
  <2>2. CASE v # 0
    <3>1. v - 1 \in 0..len /\ v \in 1..len /\ f[v] = f[v - 1] + t[v] /\ f[v - 1] \in Int /\ t[v] \in Int
      BY <1>5, <1>12, <2>2
    <3>2. CASE v < p1
      BY <1>9, <1>11, <2>2, <3>1, <3>2
    <3>3. CASE v = p1
      BY <1>9, <1>11, <2>2, <3>1, <3>3, SMTT(60)
    <3>4. CASE v > p1
      BY <1>9, <1>11, <2>2, <3>1, <3>4, SMTT(60)
    <3> QED BY <3>2, <3>3, <3>4
  <2> QED BY <2>1, <2>2
<1>14. h = [v \in 0..len |-> IF v = 0 THEN 0 ELSE h[v - 1] + u[v]]
  BY <1>9, <1>13
<1>15. IsSum(h, u, len) /\ h[len] = f[len] + a
  BY <1>1, <1>9, <1>14 DEF IsSum
<1>16. SumOver(ps, S \cup {p1}, d) = h[len]
  BY <1>1, <1>10, <1>15, SumOverIs
<1> QED BY <1>7, <1>8, <1>15, <1>16

(* A sum of coordinates is a number.                                       *)
LEMMA SumIsInt ==
  ASSUME NEW ps \in Seq(GridPoint), NEW S, NEW d \in {"x", "y"}
  PROVE  SumOver(ps, S, d) \in Int
<1>1. PICK len \in Nat : len = Len(ps)
  BY LenProperties
<1>2. \A v \in 1..len : ps[v][d] \in Int
  <2>1. \A v \in 1..len : ps[v] \in GridPoint
    BY <1>1, LenProperties
  <2> QED BY <2>1 DEF GridPoint
<1>3. PICK t : t = Entries(ps, S, d)
  OBVIOUS
<1>4. \A v \in 1..len : t[v] \in Int
  BY <1>1, <1>2, <1>3 DEF Entries
<1>5. PICK f \in [0..len -> Int] : IsSum(f, t, len)
  BY <1>4, RunningSum
<1>6. SumOver(ps, S, d) = f[len]
  BY <1>1, <1>3, <1>5, SumOverIs
<1> QED BY <1>5, <1>6

-----------------------------------------------------------------------------
(* Its steps.                                                              *)

(* The initial state.                                                       *)
LEMMA InitGrid == GridInit => GridInv
<1> SUFFICES ASSUME GridInit PROVE GridInv
  OBVIOUS
<1>1. array \in Seq(GridPoint)
  BY GridAssumption DEF GridInit, GridPoint
<1>2. ArrayInv
  BY <1>1 DEF GridInit, ArrayInv
<1>3. LaidInv /\ RangeInv /\ SquareInv /\ ThinInv
  BY DEF GridInit, LaidInv, RangeInv, SquareInv, ThinInv
<1> QED BY <1>2, <1>3 DEF GridInv

(* Calls and steps that leave the array alone.                             *)
LEMMA ArrayStays ==
  ASSUME GridInv, UNCHANGED <<array, yden, laid, square>>, calls' \in Nat, Live' => Live
  PROVE  ArrayInv' /\ LaidInv' /\ SquareInv'
<1>1. ArrayInv'
  BY DEF GridInv, ArrayInv
<1>2. LaidInv'
  BY DEF GridInv, LaidInv
<1>3. SquareInv'
  <2> SUFFICES ASSUME square' # NoSquare PROVE SquareInv'
    BY DEF SquareInv
  <2>1. PICK k1 \in Nat \ {0}, k2 \in Nat \ {0}, den \in Nat \ {0}, ps \in Seq(GridPoint) :
          Squared(k1, k2, den, ps)
    BY DEF GridInv, SquareInv
  <2>2. Squared(k1, k2, den, ps)'
    BY <2>1 DEF Squared
  <2> QED BY <2>2 DEF SquareInv
<1> QED BY <1>1, <1>2, <1>3

(* The points of a lattice.                                                 *)
LEMMA LatticePoints ==
  ASSUME NEW nx \in Nat \ {0}, NEW ny \in Nat \ {0}
  PROVE  Lattice(nx, ny) \in Seq(GridPoint) /\ Len(Lattice(nx, ny)) = nx * ny
<1>1. PICK len \in Nat : len = nx * ny
  OBVIOUS
<1>2. ASSUME NEW v \in 1..len PROVE Node(nx, ny, v) \in GridPoint
  <2>1. (v - 1) % nx \in Int /\ (v - 1) \div nx \in Int
    BY Quotient
  <2> QED BY <2>1, AlongIsInt DEF Node, GridPoint
<1>3. Lattice(nx, ny) = [v \in 1..len |-> Node(nx, ny, v)]
  BY <1>1 DEF Lattice
<1> QED BY <1>1, <1>2, <1>3

(* points_generate: the grid it lays.                                       *)
LEMMA GenerateGrid ==
  ASSUME GridInv, NEW nx \in Nat \ {0}, NEW ny \in Nat \ {0}, Generate(nx, ny)
  PROVE  GridInv'
<1>0. thin = Idle /\ thin' = Idle /\ calls' = calls + 1 /\ array' = Lattice(nx, ny) /\ yden' = 1
      /\ laid' = <<nx, ny>> /\ square' = NoSquare /\ UNCHANGED range
  BY DEF Generate, Call
<1>1. PICK len \in Nat : len = nx * ny
  OBVIOUS
<1>3. ASSUME NEW v \in 1..len PROVE Node(nx, ny, v) \in GridPoint
  <2>1. (v - 1) % nx \in Int /\ (v - 1) \div nx \in Int
    BY Quotient
  <2> QED BY <2>1, AlongIsInt DEF Node, GridPoint
<1>4. array' = [v \in 1..len |-> Node(nx, ny, v)]
  BY <1>0, <1>1 DEF Lattice
<1>5. array' \in Seq(GridPoint) /\ Len(array') = len
  BY <1>3, <1>4
<1>6. ArrayInv'
  BY <1>0, <1>5 DEF GridInv, ArrayInv
<1>7. HoldsGrid(array', nx, ny, 1)
  <2>1. ASSUME NEW v \in 1..len
        PROVE  array'[v].x = Node(nx, ny, v).x /\ array'[v].y = Node(nx, ny, v).y * 1
    <3>1. Node(nx, ny, v).y \in Int
      BY <1>3 DEF GridPoint
    <3> QED BY <1>4, <3>1
  <2> QED BY <1>1, <1>5, <2>1 DEF HoldsGrid
<1>8. LaidInv'
  BY <1>0, <1>7 DEF LaidInv
<1>9. RangeInv' /\ SquareInv' /\ ThinInv'
  BY <1>0 DEF GridInv, RangeInv, SquareInv, ThinInv
<1> QED BY <1>6, <1>8, <1>9 DEF GridInv

(* points_thingrid begins with empty cells.                                 *)
LEMMA ThinGridBegins ==
  ASSUME GridInv, NEW nx \in Nat \ {0}, NEW ny \in Nat \ {0}, ThinGrid(nx, ny)
  PROVE  GridInv'
<1>0. /\ thin = Idle /\ calls < MaxCalls /\ calls' = calls + 1
      /\ thin' = [nx |-> nx, ny |-> ny, ii |-> 0, cells |-> [c \in 0..(nx * ny - 1) |-> {}],
                  sums |-> [c \in 0..(nx * ny - 1) |-> Zero]]
      /\ UNCHANGED <<array, yden, laid, range, square>> /\ Apart(nx, ny)
  BY DEF ThinGrid, Call, Apart
<1>1. Live
  BY <1>0 DEF Live
<1>2. ArrayInv' /\ LaidInv' /\ SquareInv' /\ RangeInv'
  <2>1. calls' \in Nat
    BY <1>0 DEF GridInv, ArrayInv
  <2>2. RangeInv'
    BY <1>0 DEF GridInv, RangeInv
  <2> QED BY <1>0, <1>1, <2>1, <2>2, ArrayStays
<1>5. Len(array') \in Nat
  BY <1>0, <1>1, LenProperties DEF GridInv, ArrayInv
<1>3. \A c : CellMembers(nx, ny, 0, c)' = {} /\ SumOver(array', {}, "x") = 0 /\ SumOver(array', {}, "y") = 0
  BY <1>5, EmptySum DEF CellMembers
<1>4. thin' = Thinning(nx, ny, 0)'
  BY <1>0, <1>3 DEF Thinning, Zero
<1>6. Apart(nx, ny)'
  BY <1>0 DEF Apart
<1>7. ThinInv'
  BY <1>4, <1>5, <1>6 DEF ThinInv
<1> QED BY <1>2, <1>7 DEF GridInv

(* No row or no column of cells leaves nothing of the array.                *)
LEMMA ThinAwayGrid ==
  ASSUME GridInv, NEW nx, NEW ny, ThinAway(nx, ny)
  PROVE  GridInv'
<1>0. /\ thin = Idle /\ thin' = Idle /\ calls' = calls + 1 /\ array' = <<>> /\ laid' = <<0, 0>>
      /\ square' = NoSquare /\ UNCHANGED <<yden, range>>
  BY DEF ThinAway, Call
<1>1. array' \in Seq(GridPoint)
  BY <1>0
<1>2. ArrayInv'
  BY <1>0, <1>1 DEF GridInv, ArrayInv
<1>3. LaidInv' /\ RangeInv' /\ SquareInv' /\ ThinInv'
  BY <1>0 DEF GridInv, LaidInv, RangeInv, SquareInv, ThinInv
<1> QED BY <1>2, <1>3 DEF GridInv

(* points_getrange changes only what it returns.                            *)
LEMMA GetRangeGrid ==
  ASSUME GridInv, NEW asked \in SUBSET {"xmin", "xmax", "ymin", "ymax"}, NEW zoom \in Zooms,
         GetRange(asked, zoom)
  PROVE  GridInv'
<1>0. /\ thin = Idle /\ thin' = Idle /\ calls < MaxCalls /\ calls' = calls + 1 /\ array # <<>>
      /\ range' = RangeOf(array, asked, zoom) /\ UNCHANGED <<array, yden, laid, square>>
  BY DEF GetRange, Call, RangeOf
<1>1. Live
  BY <1>0 DEF Live
<1>2. ArrayInv' /\ LaidInv' /\ SquareInv' /\ ThinInv'
  <2>1. calls' \in Nat
    BY <1>0 DEF GridInv, ArrayInv
  <2>2. ThinInv'
    BY <1>0 DEF ThinInv
  <2> QED BY <1>0, <1>1, <2>1, <2>2, ArrayStays
<1>3. array \in Seq(GridPoint)
  BY <1>1 DEF GridInv, ArrayInv
<1>4. RangeInv'
  BY <1>0, <1>3 DEF RangeInv
<1> QED BY <1>2, <1>4 DEF GridInv

(* A step of another part changes nothing of it.                            *)
LEMMA StutterGrid == GridInv /\ UNCHANGED gridVars => GridInv'
<1> SUFFICES ASSUME GridInv, UNCHANGED gridVars PROVE GridInv'
  OBVIOUS
<1>1. ArrayInv' /\ LaidInv' /\ SquareInv' /\ RangeInv'
  <2>1. UNCHANGED <<array, yden, laid, square>> /\ calls' \in Nat /\ Live' = Live
    BY DEF GridInv, ArrayInv, gridVars, Live
  <2>2. RangeInv'
    BY DEF GridInv, RangeInv, gridVars
  <2> QED BY <2>1, <2>2, ArrayStays
<1>2. ThinInv'
  <2> SUFFICES ASSUME thin # Idle PROVE ThinInv'
    BY DEF ThinInv, gridVars
  <2>1. PICK nx \in Nat \ {0}, ny \in Nat \ {0}, ii \in 0..Len(array) :
          thin = Thinning(nx, ny, ii) /\ Apart(nx, ny)
    BY DEF GridInv, ThinInv
  <2>2. thin' = thin /\ array' = array
    BY DEF gridVars
  <2>3. \A c : CellMembers(nx, ny, ii, c)' = CellMembers(nx, ny, ii, c)
    BY <2>2 DEF CellMembers, Box
  <2>4. Thinning(nx, ny, ii)' = Thinning(nx, ny, ii)
    BY <2>2, <2>3 DEF Thinning
  <2>5. Apart(nx, ny)'
    BY <2>1, <2>2 DEF Apart
  <2> QED BY <2>1, <2>2, <2>4, <2>5 DEF ThinInv
<1> QED BY <1>1, <1>2 DEF GridInv

(* points_thingrid ends with the means of its cells.                        *)
LEMMA WriteMeansGrid ==
  ASSUME GridInv, WriteMeans
  PROVE  GridInv'
<1>0. thin' = Idle /\ calls' = MaxCalls /\ UNCHANGED <<yden, laid, range, square>>
  BY DEF WriteMeans
<1>1. ~Live'
  BY <1>0, GridAssumption DEF Live
<1>2. ArrayInv'
  BY <1>0, <1>1, GridAssumption DEF GridInv, ArrayInv
<1>3. LaidInv' /\ RangeInv' /\ ThinInv'
  BY <1>0, <1>1 DEF GridInv, LaidInv, RangeInv, ThinInv
<1>4. SquareInv'
  <2> SUFFICES ASSUME square' # NoSquare PROVE SquareInv'
    BY DEF SquareInv
  <2>1. PICK k1 \in Nat \ {0}, k2 \in Nat \ {0}, den \in Nat \ {0}, ps \in Seq(GridPoint) :
          Squared(k1, k2, den, ps)
    BY <1>0 DEF GridInv, SquareInv
  <2>2. Squared(k1, k2, den, ps)'
    BY <1>0, <1>1, <2>1 DEF Squared
  <2> QED BY <2>2 DEF SquareInv
<1> QED BY <1>2, <1>3, <1>4 DEF GridInv

(* A step of points_thingrid puts one more point into the cell it is in.    *)
LEMMA CellInGrid ==
  ASSUME array \in Seq(GridPoint), NEW nx \in Nat \ {0}, NEW ny \in Nat \ {0}, Apart(nx, ny),
         NEW v \in 1..Len(array)
  PROVE  /\ Box(nx, ny, v) \in 0..(nx * ny - 1)
         /\ InCell(array[v].x, Xs(array), nx, Box(nx, ny, v) % nx)
         /\ InCell(array[v].y, Ys(array), ny, Box(nx, ny, v) \div nx)
<1>1. array # <<>>
  BY LenProperties
<1>2. array[v].x \in Xs(array) /\ array[v].y \in Ys(array)
  BY DEF Xs, Ys
<1>3. Spanned(Xs(array)) /\ Spanned(Ys(array))
  BY <1>1, CoordinatesSpanned
<1>4. (nx > 1 => Width(Xs(array)) > 0) /\ (ny > 1 => Width(Ys(array)) > 0)
  BY <1>1 DEF Apart
<1>5. PICK j \in 0..(nx - 1) : j = Cell(array[v].x, Xs(array), nx) /\ InCell(array[v].x, Xs(array), nx, j)
  BY <1>2, <1>3, <1>4, CellFits
<1>6. PICK k \in 0..(ny - 1) : k = Cell(array[v].y, Ys(array), ny) /\ InCell(array[v].y, Ys(array), ny, k)
  BY <1>2, <1>3, <1>4, CellFits
<1>7. Box(nx, ny, v) = j + k * nx
  BY <1>5, <1>6 DEF Box
<1>8. (j + k * nx) % nx = j /\ (j + k * nx) \div nx = k
  <2>1. k \in Nat
    OBVIOUS
  <2> QED BY <2>1, Digits
<1>9. j + k * nx \in 0..(nx * ny - 1)
  <2>1. PICK e \in Nat : ny = k + 1 + e
    <3>1. ny - k - 1 \in Nat /\ ny = k + 1 + (ny - k - 1)
      OBVIOUS
    <3> QED BY <3>1
  <2>2. nx * (k + 1 + e) = k * nx + nx + nx * e /\ nx * e >= 0 /\ j + k * nx >= 0
    OBVIOUS
  <2>3. j + k * nx \in Int /\ j + k * nx <= nx * ny - 1
    BY <2>1, <2>2
  <2> QED BY <2>2, <2>3
<1> QED BY <1>5, <1>6, <1>7, <1>8, <1>9

(* A point goes into the cell it is in, and into no other.                  *)
LEMMA AddToCellGrid ==
  ASSUME GridInv, AddToCell
  PROVE  GridInv'
<1>0. thin # Idle /\ UNCHANGED <<array, yden, laid, range, square, calls>>
  BY DEF AddToCell
<1>1. Live
  BY <1>0 DEF Live
<1>2. ArrayInv' /\ LaidInv' /\ SquareInv' /\ RangeInv'
  <2>1. calls' \in Nat
    BY <1>0 DEF GridInv, ArrayInv
  <2>2. RangeInv'
    BY <1>0 DEF GridInv, RangeInv
  <2> QED BY <1>0, <1>1, <2>1, <2>2, ArrayStays
<1>3. array \in Seq(GridPoint)
  BY <1>1 DEF GridInv, ArrayInv
<1>4. PICK nx \in Nat \ {0}, ny \in Nat \ {0}, ii \in 0..Len(array) :
        thin = Thinning(nx, ny, ii) /\ Apart(nx, ny)
  BY <1>0 DEF GridInv, ThinInv
<1>5. thin.ii = ii /\ thin.nx = nx /\ thin.ny = ny /\ ii < Len(array)
  BY <1>4 DEF AddToCell, Thinning
<1>6. Len(array) \in Nat /\ ii + 1 \in 1..Len(array) /\ ii + 1 \in 0..Len(array)
  BY <1>3, <1>5, LenProperties
<1>7. PICK box \in 0..(nx * ny - 1) : box = Box(nx, ny, ii + 1)
  BY <1>3, <1>4, <1>6, CellInGrid
<1>8. CellOf(array[thin.ii + 1]) = box
  BY <1>5, <1>7 DEF CellOf, Box
<1> DEFINE D == 0..(nx * ny - 1)
           M(c) == CellMembers(nx, ny, ii, c)
           T(c) == [x |-> SumOver(array, M(c), "x"), y |-> SumOver(array, M(c), "y")]
           cells == [c \in D |-> M(c)]
           sums == [c \in D |-> T(c)]
           p1 == array[ii + 1]
<1>9. thin' = [thin EXCEPT !.ii = @ + 1,
                           !.cells[box] = @ \cup {ii + 1},
                           !.sums[box] = [x |-> @.x + p1.x, y |-> @.y + p1.y]]
  BY <1>5, <1>8 DEF AddToCell
<1>10. thin = [nx |-> nx, ny |-> ny, ii |-> ii, cells |-> cells, sums |-> sums]
  BY <1>4 DEF Thinning
<1>11. \A c \in D : CellMembers(nx, ny, ii + 1, c) = IF c = box THEN M(c) \cup {ii + 1} ELSE M(c)
  <2>1. \A v : v \in 1..(ii + 1) <=> v \in 1..ii \/ v = ii + 1
    BY <1>6
  <2> QED BY <1>7, <2>1 DEF CellMembers
<1>12. ii + 1 \notin M(box)
  BY DEF CellMembers
<1>13. /\ SumOver(array, M(box) \cup {ii + 1}, "x") = T(box).x + p1.x
       /\ SumOver(array, M(box) \cup {ii + 1}, "y") = T(box).y + p1.y
  <2> HIDE DEF M
  <2>1. /\ SumOver(array, M(box) \cup {ii + 1}, "x") = SumOver(array, M(box), "x") + array[ii + 1]["x"]
        /\ SumOver(array, M(box) \cup {ii + 1}, "y") = SumOver(array, M(box), "y") + array[ii + 1]["y"]
    BY <1>3, <1>6, <1>12, SumGrows
  <2> QED BY <2>1
<1>14. thin' = [nx |-> nx, ny |-> ny, ii |-> ii + 1,
                cells |-> [cells EXCEPT ![box] = @ \cup {ii + 1}],
                sums |-> [sums EXCEPT ![box] = [x |-> @.x + p1.x, y |-> @.y + p1.y]]]
  <2> DEFINE X == [cells EXCEPT ![box] = @ \cup {ii + 1}]
             Y == [sums EXCEPT ![box] = [x |-> @.x + p1.x, y |-> @.y + p1.y]]
  <2>1. thin.ii = ii /\ thin.cells = cells /\ thin.sums = sums
    <3> HIDE DEF cells, sums
    <3> QED BY <1>10
  <2>2. thin' = [thin EXCEPT !.ii = ii + 1, !.cells = X, !.sums = Y]
    <3> HIDE DEF cells, sums, p1
    <3> QED BY <1>9, <2>1
  <2> HIDE DEF cells, sums, X, Y
  <2>3. thin' = [nx |-> nx, ny |-> ny, ii |-> ii + 1, cells |-> X, sums |-> Y]
    BY <1>10, <2>2
  <2> QED BY <2>3 DEF X, Y
<1>18. [cells EXCEPT ![box] = @ \cup {ii + 1}] = [c \in D |-> CellMembers(nx, ny, ii + 1, c)]
  <2> HIDE DEF M
  <2> QED BY <1>7, <1>11
<1>19. [sums EXCEPT ![box] = [x |-> @.x + p1.x, y |-> @.y + p1.y]]
       = [c \in D |-> [x |-> SumOver(array, CellMembers(nx, ny, ii + 1, c), "x"),
                       y |-> SumOver(array, CellMembers(nx, ny, ii + 1, c), "y")]]
  <2> DEFINE Z == [x |-> T(box).x + p1.x, y |-> T(box).y + p1.y]
             New(c) == [x |-> SumOver(array, CellMembers(nx, ny, ii + 1, c), "x"),
                        y |-> SumOver(array, CellMembers(nx, ny, ii + 1, c), "y")]
  <2>1. [sums EXCEPT ![box] = [x |-> @.x + p1.x, y |-> @.y + p1.y]]
        = [c \in D |-> IF c = box THEN Z ELSE T(c)]
    <3> HIDE DEF T, p1
    <3> QED BY <1>7
  <2>2. \A c \in D : (IF c = box THEN Z ELSE T(c)) = New(c)
    <3> SUFFICES ASSUME NEW c \in D PROVE (IF c = box THEN Z ELSE T(c)) = New(c)
      OBVIOUS
    <3>1. CASE c = box
      <4>1. New(c) = [x |-> T(box).x + p1.x, y |-> T(box).y + p1.y]
        <5> HIDE DEF M, T, p1
        <5> QED BY <1>11, <1>13, <3>1
      <4> QED BY <3>1, <4>1
    <3>2. CASE c # box
      <4> HIDE DEF M
      <4> QED BY <1>11, <3>2
    <3> QED BY <3>1, <3>2
  <2>3. [c \in D |-> IF c = box THEN Z ELSE T(c)] = [c \in D |-> New(c)]
    <3> HIDE DEF T, Z, New, D
    <3> QED BY <2>2
  <2> HIDE DEF T, Z, New, D, sums, p1
  <2>4. [sums EXCEPT ![box] = [x |-> @.x + p1.x, y |-> @.y + p1.y]] = [c \in D |-> New(c)]
    BY <2>1, <2>3
  <2> QED BY <2>4 DEF New
<1>15. thin' = Thinning(nx, ny, ii + 1)'
  <2>1. \A c : CellMembers(nx, ny, ii + 1, c)' = CellMembers(nx, ny, ii + 1, c)
    BY <1>0 DEF CellMembers, Box
  <2>2. Thinning(nx, ny, ii + 1)' = Thinning(nx, ny, ii + 1)
    BY <1>0, <2>1 DEF Thinning
  <2>3. Thinning(nx, ny, ii + 1)
        = [nx |-> nx, ny |-> ny, ii |-> ii + 1,
           cells |-> [c \in D |-> CellMembers(nx, ny, ii + 1, c)],
           sums |-> [c \in D |-> [x |-> SumOver(array, CellMembers(nx, ny, ii + 1, c), "x"),
                                y |-> SumOver(array, CellMembers(nx, ny, ii + 1, c), "y")]]]
    BY DEF Thinning
  <2> HIDE DEF D, M, T, cells, sums, p1
  <2> QED BY <1>14, <1>18, <1>19, <2>2, <2>3
<1>16. Apart(nx, ny)' /\ ii + 1 \in 0..Len(array')
  BY <1>0, <1>4, <1>6 DEF Apart
<1>17. ThinInv'
  BY <1>15, <1>16 DEF ThinInv
<1> QED BY <1>2, <1>17 DEF GridInv

(* Stretching the rows, which both points_scaletosquare and points_scale do.*)
LEMMA Stretch ==
  ASSUME array \in Seq(GridPoint), yden \in Nat \ {0}, NEW k1 \in Nat \ {0}, NEW k2 \in Nat \ {0},
         DivideY(<<k1, k2>>)
  PROVE  /\ array' \in Seq(GridPoint) /\ Len(array') = Len(array)
         /\ \A v \in 1..Len(array) : array'[v].x = array[v].x /\ array'[v].y = array[v].y * k2
         /\ yden' = yden * k1 /\ yden' \in Nat \ {0}
<1>1. PICK len \in Nat : len = Len(array)
  BY LenProperties
<1>2. array' = [v \in 1..len |-> [array[v] EXCEPT !.y = @ * k2]] /\ yden' = yden * k1
  BY <1>1 DEF DivideY
<1>3. ASSUME NEW v \in 1..len
      PROVE  /\ [array[v] EXCEPT !.y = @ * k2] \in GridPoint
             /\ [array[v] EXCEPT !.y = @ * k2].x = array[v].x
             /\ [array[v] EXCEPT !.y = @ * k2].y = array[v].y * k2
  <2>1. array[v] \in GridPoint
    BY <1>1, LenProperties
  <2>2. PICK x \in Int, y \in Int : array[v] = [x |-> x, y |-> y]
    BY <2>1 DEF GridPoint
  <2>3. y * k2 \in Int /\ [array[v] EXCEPT !.y = @ * k2] = [x |-> x, y |-> y * k2]
    BY <2>2
  <2> QED BY <2>2, <2>3 DEF GridPoint
<1>4. array' \in Seq(GridPoint) /\ Len(array') = len
  <2>1. array' \in [1..len -> GridPoint]
    BY <1>2, <1>3
  <2> QED BY <2>1
<1>5. yden * k1 \in Nat \ {0}
  OBVIOUS
<1> QED BY <1>1, <1>2, <1>3, <1>4, <1>5

(* A grid that is stretched is one still.                                   *)
LEMMA StretchedGrid ==
  ASSUME array \in Seq(GridPoint), yden \in Nat \ {0}, NEW k1 \in Nat \ {0}, NEW k2 \in Nat \ {0},
         DivideY(<<k1, k2>>), LaidInv, Live, UNCHANGED laid
  PROVE  LaidInv'
<1> SUFFICES ASSUME laid # <<0, 0>> PROVE LaidInv'
  BY DEF LaidInv
<1>1. PICK nx \in Nat \ {0}, ny \in Nat \ {0}, f \in Nat \ {0} : laid = <<nx, ny>> /\ HoldsGrid(array, nx, ny, f)
  BY DEF LaidInv
<1>2. PICK g \in Nat \ {0} : g = f * k2
  <2>1. f * k2 \in Nat \ {0}
    OBVIOUS
  <2> QED BY <2>1
<1>3. ASSUME NEW v \in 1..(nx * ny)
      PROVE  array'[v].x = Node(nx, ny, v).x /\ array'[v].y = Node(nx, ny, v).y * g
  <2>1. v \in 1..Len(array) /\ array[v].x = Node(nx, ny, v).x /\ array[v].y = Node(nx, ny, v).y * f
    BY <1>1 DEF HoldsGrid
  <2>2. array'[v].x = array[v].x /\ array'[v].y = array[v].y * k2
    BY <2>1, Stretch
  <2>3. PICK y \in Int : y = Node(nx, ny, v).y
    <3>1. Along(0, 12, ny, (v - 1) \div nx) \in Int
      BY <2>1, AlongIsInt, Quotient
    <3> QED BY <3>1 DEF Node
  <2>4. (y * f) * k2 = y * (f * k2)
    OBVIOUS
  <2> QED BY <1>2, <2>1, <2>2, <2>3, <2>4
<1>4. HoldsGrid(array', nx, ny, g)
  BY <1>1, <1>3, Stretch DEF HoldsGrid
<1> QED BY <1>1, <1>4 DEF LaidInv

(* points_scaletosquare: heights multiplied, and what they were before.     *)
LEMMA ScaleToSquareGrid ==
  ASSUME GridInv, ScaleToSquare
  PROVE  GridInv' /\ Width(Ys(array')) = Width(Xs(array')) * yden'
<1>0. /\ thin = Idle /\ calls < MaxCalls /\ calls' = calls + 1 /\ array # <<>>
      /\ Width(Xs(array)) > 0 /\ Width(Ys(array)) > 0 /\ UNCHANGED <<laid, thin, range>>
  BY DEF ScaleToSquare, Call
<1>1. Live /\ array \in Seq(GridPoint) /\ yden \in Nat \ {0}
  BY <1>0 DEF Live, GridInv, ArrayInv
<1>2. PICK wx \in Nat \ {0}, wy \in Nat \ {0} : wx = Width(Xs(array)) /\ wy = Width(Ys(array))
  <2>1. Width(Xs(array)) \in Nat \ {0} /\ Width(Ys(array)) \in Nat \ {0}
    BY <1>0, <1>1, CoordinatesSpanned
  <2> QED BY <2>1
<1>3. PICK k2 \in Nat \ {0} : k2 = wx * yden
  <2>1. wx * yden \in Nat \ {0}
    BY <1>1
  <2> QED BY <2>1
<1>4. DivideY(<<wy, k2>>) /\ square' = [k |-> <<wy, k2>>, before |-> array, yden |-> yden]
  BY <1>2, <1>3 DEF ScaleToSquare
<1>5. /\ array' \in Seq(GridPoint) /\ Len(array') = Len(array)
      /\ \A v \in 1..Len(array) : array'[v].x = array[v].x /\ array'[v].y = array[v].y * k2
      /\ yden' = yden * wy /\ yden' \in Nat \ {0}
  BY <1>1, <1>4, Stretch
<1>6. ArrayInv'
  BY <1>0, <1>5 DEF GridInv, ArrayInv
<1>7. LaidInv'
  BY <1>0, <1>1, <1>4, StretchedGrid DEF GridInv
<1>8. RangeInv' /\ ThinInv'
  BY <1>0 DEF GridInv, RangeInv, ThinInv
<1>9. SquareInv'
  <2>1. PICK den \in Nat \ {0}, ps \in Seq(GridPoint) : den = yden /\ ps = array
    BY <1>1
  <2>2. Squared(wy, k2, den, ps)'
    BY <1>4, <1>5, <2>1 DEF Squared
  <2> QED BY <2>2 DEF SquareInv
<1>10. Xs(array') = Xs(array) /\ Ys(array') = {k * k2 : k \in Ys(array)}
  BY <1>5 DEF Xs, Ys
<1>11. Width(Ys(array')) = wy * k2 /\ Width(Xs(array')) = wx
  BY <1>0, <1>1, <1>2, <1>10, CoordinatesSpanned, Scaled
<1>12. wy * (wx * yden) = wx * (yden * wy)
  BY <1>1
<1> QED BY <1>3, <1>5, <1>6, <1>7, <1>8, <1>9, <1>11, <1>12 DEF GridInv

(* points_scale with the inverse factor.                                    *)
LEMMA ScaleBackGrid ==
  ASSUME GridInv, ScaleBack
  PROVE  GridInv' /\ \A v \in 1..Len(array') : array'[v].y * square.yden = square.before[v].y * yden'
<1>0. /\ thin = Idle /\ calls < MaxCalls /\ calls' = calls + 1 /\ square # NoSquare
      /\ square' = NoSquare /\ UNCHANGED <<laid, thin, range>>
  BY DEF ScaleBack, Call
<1>1. Live /\ array \in Seq(GridPoint) /\ yden \in Nat \ {0}
  BY <1>0 DEF Live, GridInv, ArrayInv
<1>2. PICK k1 \in Nat \ {0}, k2 \in Nat \ {0}, den \in Nat \ {0}, ps \in Seq(GridPoint) :
        Squared(k1, k2, den, ps)
  BY <1>0 DEF GridInv, SquareInv
<1>3. /\ square.k[1] = k1 /\ square.k[2] = k2 /\ square.before = ps /\ square.yden = den
      /\ Len(array) = Len(ps) /\ yden = den * k1
      /\ \A v \in 1..Len(array) : array[v].y = ps[v].y * k2
  BY <1>1, <1>2 DEF Squared
<1>4. DivideY(<<k2, k1>>)
  BY <1>3 DEF ScaleBack
<1>5. /\ array' \in Seq(GridPoint) /\ Len(array') = Len(array)
      /\ \A v \in 1..Len(array) : array'[v].x = array[v].x /\ array'[v].y = array[v].y * k1
      /\ yden' = yden * k2 /\ yden' \in Nat \ {0}
  BY <1>1, <1>4, Stretch
<1>6. ArrayInv'
  BY <1>0, <1>5 DEF GridInv, ArrayInv
<1>7. LaidInv'
  BY <1>0, <1>1, <1>4, StretchedGrid DEF GridInv
<1>8. RangeInv' /\ ThinInv' /\ SquareInv'
  BY <1>0 DEF GridInv, RangeInv, ThinInv, SquareInv
<1>9. ASSUME NEW v \in 1..Len(array') PROVE array'[v].y * square.yden = square.before[v].y * yden'
  <2>1. PICK y \in Int : y = ps[v].y
    <3>1. ps[v] \in GridPoint
      BY <1>3, <1>5, LenProperties
    <3> QED BY <3>1 DEF GridPoint
  <2>2. array'[v].y = (y * k2) * k1
    BY <1>3, <1>5, <2>1
  <2>3. ((y * k2) * k1) * den = y * ((den * k1) * k2)
    OBVIOUS
  <2> QED BY <1>3, <1>5, <2>1, <2>2, <2>3
<1> QED BY <1>6, <1>7, <1>8, <1>9 DEF GridInv

(* Every step keeps the invariant.                                          *)
LEMMA StepGrid == GridInv /\ [GridNext]_gridVars => GridInv'
<1> SUFFICES ASSUME GridInv, [GridNext]_gridVars PROVE GridInv'
  OBVIOUS
<1>1. CASE \E s \in Sizes : s[1] > 0 /\ s[2] > 0 /\ (Generate(s[1], s[2]) \/ ThinGrid(s[1], s[2]))
  <2>1. PICK s \in Sizes : s[1] > 0 /\ s[2] > 0 /\ (Generate(s[1], s[2]) \/ ThinGrid(s[1], s[2]))
    BY <1>1
  <2>2. s[1] \in Nat \ {0} /\ s[2] \in Nat \ {0}
    BY <2>1, GridAssumption
  <2> QED BY <2>1, <2>2, GenerateGrid, ThinGridBegins
<1>2. CASE \E s \in Sizes : ThinAway(s[1], s[2])
  BY <1>2, ThinAwayGrid
<1>3. CASE AddToCell \/ WriteMeans
  BY <1>3, AddToCellGrid, WriteMeansGrid
<1>4. CASE \E asked \in SUBSET {"xmin", "xmax", "ymin", "ymax"}, zoom \in Zooms : GetRange(asked, zoom)
  BY <1>4, GetRangeGrid
<1>5. CASE ScaleToSquare \/ ScaleBack
  BY <1>5, ScaleToSquareGrid, ScaleBackGrid
<1>6. CASE UNCHANGED gridVars
  BY <1>6, StutterGrid
<1> QED BY <1>1, <1>2, <1>3, <1>4, <1>5, <1>6 DEF GridNext

(* What the calls on an array keep, for every array, size and zoom.         *)
THEOREM GridInvariant == GridSpec => []GridInv
BY InitGrid, StepGrid, PTL DEF GridSpec

-----------------------------------------------------------------------------
(* points_getrange (nncommon.c:350): for every array, zoom and choice of    *)
(* bounds, both bounds left open and a zoom of at least 1 enclose all       *)
(* points, with equal margins, and a bound that was given stays.            *)

(* The interval from a to b, zoomed by z1 / z2 about its middle, in units   *)
(* of 1 / (2 * z2), and what it should be.                                  *)
Zoomed(a, b, z1, z2) ==
  IF z1 > 0 THEN <<(b + a) * z2 - (b - a) * z1, (b + a) * z2 + (b - a) * z1>>
  ELSE <<a * 2 * z2, b * 2 * z2>>

Wraps(a, b, z1, z2, lo, hi) ==
  /\ z1 = 0 \/ z1 >= z2 => lo <= a * (2 * z2) /\ b * (2 * z2) <= hi
  /\ a * (2 * z2) - lo = hi - b * (2 * z2)

(* A zoom about the middle of the interval from a to b.                     *)
LEMMA ZoomedBounds ==
  ASSUME NEW a \in Int, NEW b \in Int, a <= b, NEW z1 \in Nat, NEW z2 \in Nat \ {0},
         NEW lo, NEW hi, <<lo, hi>> = Zoomed(a, b, z1, z2)
  PROVE  Wraps(a, b, z1, z2, lo, hi)
<1>1. CASE z1 = 0
  <2>1. lo = a * 2 * z2 /\ hi = b * 2 * z2
    BY <1>1 DEF Zoomed
  <2>2. a * 2 * z2 = a * (2 * z2) /\ b * 2 * z2 = b * (2 * z2)
    OBVIOUS
  <2> QED BY <2>1, <2>2 DEF Wraps
<1>2. CASE z1 > 0
  <2>1. lo = (b + a) * z2 - (b - a) * z1 /\ hi = (b + a) * z2 + (b - a) * z1
    BY <1>2 DEF Zoomed
  <2>2. PICK w \in Nat : b = a + w
    <3>1. b - a \in Nat /\ b = a + (b - a)
      OBVIOUS
    <3> QED BY <3>1
  <2>3. lo = (2 * a + w) * z2 - w * z1 /\ hi = (2 * a + w) * z2 + w * z1
    <3>1. b + a = 2 * a + w /\ b - a = w
      BY <2>2
    <3> QED BY <2>1, <3>1
  <2>4. /\ a * (2 * z2) - ((2 * a + w) * z2 - w * z1) = w * z1 - w * z2
        /\ (2 * a + w) * z2 + w * z1 - (a + w) * (2 * z2) = w * z1 - w * z2
    OBVIOUS
  <2>5. z1 >= z2 => w * z1 - w * z2 >= 0
    <3> SUFFICES ASSUME z1 >= z2 PROVE w * z1 - w * z2 >= 0
      OBVIOUS
    <3>1. PICK e \in Nat : z1 = z2 + e
      <4>1. z1 - z2 \in Nat /\ z1 = z2 + (z1 - z2)
        OBVIOUS
      <4> QED BY <4>1
    <3>2. w * (z2 + e) - w * z2 = w * e /\ w * e >= 0
      OBVIOUS
    <3> QED BY <3>1, <3>2
  <2>6. lo \in Int /\ hi \in Int /\ b * (2 * z2) = (a + w) * (2 * z2)
    BY <2>2, <2>3
  <2> QED BY <1>2, <2>3, <2>4, <2>5, <2>6 DEF Wraps
<1> QED BY <1>1, <1>2

(* One direction: lo and hi, zoomed if neither was given, for the points T. *)
Encloses(asked, min, max, zoom, lo, hi, T) ==
  /\ {min, max} \subseteq asked =>
       /\ zoom[1] = 0 \/ zoom[1] >= zoom[2] => lo <= Min(T) /\ Max(T) <= hi
       /\ Min(T) - lo = hi - Max(T)
  /\ min \notin asked => lo = 0
  /\ max \notin asked => hi = 0

(* The bounds that points_getrange returns along one axis.                  *)
LEMMA BoundsRight ==
  ASSUME NEW S, Spanned(S), NEW zoom \in Zooms, NEW asked, NEW min, NEW max, NEW lo, NEW hi,
         lo = Bounds(S, min \in asked, max \in asked, zoom)[1],
         hi = Bounds(S, min \in asked, max \in asked, zoom)[2],
         NEW T, T = {k * (2 * zoom[2]) : k \in S}
  PROVE  Encloses(asked, min, max, zoom, lo, hi, T)
<1>1. PICK z1 \in Nat, z2 \in Nat \ {0} : z1 = zoom[1] /\ z2 = zoom[2]
  BY GridAssumption
<1>2. PICK a \in Int, b \in Int : a = Min(S) /\ b = Max(S) /\ a <= b
  <2>1. Min(S) \in Int /\ Max(S) \in Int /\ Min(S) <= Max(S)
    BY DEF Spanned
  <2> QED BY <2>1
<1>3. 2 * z2 \in Nat \ {0}
  OBVIOUS
<1>4. Min(T) = a * (2 * z2) /\ Max(T) = b * (2 * z2)
  BY <1>1, <1>2, <1>3, Scaled
<1>5. ASSUME {min, max} \subseteq asked
      PROVE  /\ zoom[1] = 0 \/ zoom[1] >= zoom[2] => lo <= Min(T) /\ Max(T) <= hi
             /\ Min(T) - lo = hi - Max(T)
  <2>1. <<lo, hi>> = Zoomed(a, b, z1, z2)
    BY <1>1, <1>2, <1>5 DEF Bounds, Zoomed
  <2>2. Wraps(a, b, z1, z2, lo, hi)
    BY <1>2, <2>1, ZoomedBounds
  <2>3. /\ z1 = 0 \/ z1 >= z2 => lo <= a * (2 * z2) /\ b * (2 * z2) <= hi
        /\ a * (2 * z2) - lo = hi - b * (2 * z2)
    BY <2>2 DEF Wraps
  <2> QED BY <1>1, <1>4, <2>3
<1>6. min \notin asked => lo = 0
  BY <1>1, <1>2 DEF Bounds
<1>7. max \notin asked => hi = 0
  BY <1>1, <1>2 DEF Bounds
<1> QED BY <1>5, <1>6, <1>7 DEF Encloses

(* The range that the invariant describes is the right one.                 *)
LEMMA RangeFollows == GridInv => RangeRight
<1> SUFFICES ASSUME GridInv, range # NoRange PROVE RangeRight
  BY DEF RangeRight
<1>1. PICK ps \in Seq(GridPoint), asked \in SUBSET {"xmin", "xmax", "ymin", "ymax"}, zoom \in Zooms :
        ps # <<>> /\ range = RangeOf(ps, asked, zoom)
  BY DEF GridInv, RangeInv
<1> DEFINE bx == Bounds(Xs(ps), "xmin" \in asked, "xmax" \in asked, zoom)
           by == Bounds(Ys(ps), "ymin" \in asked, "ymax" \in asked, zoom)
           TX == {range.of[v].x * range.over : v \in 1..Len(range.of)}
           TY == {range.of[v].y * range.over : v \in 1..Len(range.of)}
<1>2. /\ range.of = ps /\ range.asked = asked /\ range.zoom = zoom /\ range.over = 2 * zoom[2]
      /\ range.lo.x = bx[1] /\ range.lo.y = by[1] /\ range.hi.x = bx[2] /\ range.hi.y = by[2]
  BY <1>1 DEF RangeOf
<1>3. Spanned(Xs(ps)) /\ Spanned(Ys(ps))
  BY <1>1, CoordinatesSpanned
<1>4. TX = {k * (2 * zoom[2]) : k \in Xs(ps)} /\ TY = {k * (2 * zoom[2]) : k \in Ys(ps)}
  BY <1>2 DEF Xs, Ys
<1> HIDE DEF bx, by, TX, TY
<1>5. Encloses(asked, "xmin", "xmax", zoom, bx[1], bx[2], TX)
  <2>1. /\ bx[1] = Bounds(Xs(ps), "xmin" \in asked, "xmax" \in asked, zoom)[1]
        /\ bx[2] = Bounds(Xs(ps), "xmin" \in asked, "xmax" \in asked, zoom)[2]
    BY DEF bx
  <2> QED BY <1>3, <1>4, <2>1, BoundsRight
<1>6. Encloses(asked, "ymin", "ymax", zoom, by[1], by[2], TY)
  <2>1. /\ by[1] = Bounds(Ys(ps), "ymin" \in asked, "ymax" \in asked, zoom)[1]
        /\ by[2] = Bounds(Ys(ps), "ymin" \in asked, "ymax" \in asked, zoom)[2]
    BY DEF by
  <2> QED BY <1>3, <1>4, <2>1, BoundsRight
<1> SUFFICES ASSUME NEW d \in {<<"x", "xmin", "xmax">>, <<"y", "ymin", "ymax">>}
             PROVE  LET S == {range.of[v][d[1]] * range.over : v \in 1..Len(range.of)}
                        lo == range.lo[d[1]]
                        hi == range.hi[d[1]]
                    IN  /\ {d[2], d[3]} \subseteq range.asked =>
                             /\ range.zoom[1] = 0 \/ range.zoom[1] >= range.zoom[2] => lo <= Min(S) /\ Max(S) <= hi
                             /\ Min(S) - lo = hi - Max(S)
                        /\ d[2] \notin range.asked => lo = 0
                        /\ d[3] \notin range.asked => hi = 0
  BY DEF RangeRight
<1>7. CASE d = <<"x", "xmin", "xmax">>
  BY <1>2, <1>5, <1>7 DEF TX, Encloses
<1>8. CASE d = <<"y", "ymin", "ymax">>
  BY <1>2, <1>6, <1>8 DEF TY, Encloses
<1> QED BY <1>7, <1>8

(* points_getrange encloses every point, with equal margins, where both bounds *)
(* are left to it and the zoom is not below 1, and returns a given bound as it is. *)
THEOREM RangesAreRight == GridSpec => []RangeRight
BY GridInvariant, RangeFollows, PTL

(* points_scaletosquare and points_scale (nncommon.c): the points fill a    *)
(* square, and the inverse of the factor brings the same points back,       *)
(* whatever calls that keep the array come in between.                      *)
THEOREM SquaresGoBack == GridSpec => SquareAndBack
<1> DEFINE A == /\ ScaleToSquare => Width(Ys(array')) = Width(Xs(array')) * yden'
                /\ ScaleBack => \A v \in 1..Len(array') : array'[v].y * square.yden = square.before[v].y * yden'
<1>1. GridInv /\ [GridNext]_gridVars => [A]_gridVars
  BY ScaleToSquareGrid, ScaleBackGrid
<1>2. SquareAndBack <=> [][A]_gridVars
  BY DEF SquareAndBack
<1> HIDE DEF A
<1> QED BY <1>1, <1>2, GridInvariant, PTL DEF GridSpec

-----------------------------------------------------------------------------
(* points_thingrid (nncommon.c:135): every point is in one cell, the one    *)
(* whose rectangle it lies in; and a generated grid thinned with its own    *)
(* sizes has one point per cell.                                            *)

(* The closed form of the cells puts every point into one of them.          *)
LEMMA CellsFollow == GridInv => CellsPartition
<1> SUFFICES ASSUME GridInv, thin # Idle PROVE CellsPartition
  BY DEF CellsPartition
<1>1. PICK nx \in Nat \ {0}, ny \in Nat \ {0}, ii \in 0..Len(array) :
        thin = Thinning(nx, ny, ii) /\ Apart(nx, ny)
  BY DEF GridInv, ThinInv
<1>2. array \in Seq(GridPoint) /\ Len(array) \in Nat
  BY LenProperties DEF GridInv, ArrayInv, Live
<1>3. /\ thin.nx = nx /\ thin.ny = ny /\ thin.ii = ii /\ DOMAIN thin.cells = 0..(nx * ny - 1)
      /\ \A c \in 0..(nx * ny - 1) : thin.cells[c] = {v \in 1..ii : Box(nx, ny, v) = c}
  BY <1>1 DEF Thinning, CellMembers
<1>4. \A v \in 1..ii : v \in 1..Len(array)
  BY <1>2
<1>5. ASSUME NEW v \in 1..ii
      PROVE  Cardinality({c \in DOMAIN thin.cells : v \in thin.cells[c]}) = 1
  <2>1. Box(nx, ny, v) \in 0..(nx * ny - 1)
    BY <1>1, <1>2, <1>4, CellInGrid
  <2>2. {c \in DOMAIN thin.cells : v \in thin.cells[c]} = {Box(nx, ny, v)}
    BY <1>3, <2>1
  <2> QED BY <2>2, FS_Singleton
<1>6. ASSUME NEW c \in DOMAIN thin.cells, NEW v \in thin.cells[c]
      PROVE  /\ InCell(array[v].x, Xs(array), thin.nx, c % thin.nx)
             /\ InCell(array[v].y, Ys(array), thin.ny, c \div thin.nx)
  <2>1. v \in 1..Len(array) /\ Box(nx, ny, v) = c
    BY <1>3, <1>4
  <2> QED BY <1>1, <1>2, <1>3, <2>1, CellInGrid
<1> QED BY <1>3, <1>5, <1>6 DEF CellsPartition

(* And so does that of the sums.                                           *)
LEMMA SumsFollow == GridInv => SumsRight
<1> SUFFICES ASSUME GridInv, thin # Idle PROVE SumsRight
  BY DEF SumsRight
<1>1. PICK nx \in Nat \ {0}, ny \in Nat \ {0}, ii \in 0..Len(array) : thin = Thinning(nx, ny, ii)
  BY DEF GridInv, ThinInv
<1>2. /\ DOMAIN thin.cells = 0..(nx * ny - 1)
      /\ \A c \in 0..(nx * ny - 1) :
           /\ thin.cells[c] = CellMembers(nx, ny, ii, c)
           /\ thin.sums[c] = [x |-> SumOver(array, CellMembers(nx, ny, ii, c), "x"),
                              y |-> SumOver(array, CellMembers(nx, ny, ii, c), "y")]
  BY <1>1 DEF Thinning
<1> QED BY <1>2 DEF SumsRight

(* A generated grid thinned with its own sizes: each point has its own cell. *)
LEMMA GridFollows == GridInv => GridKept
<1> SUFFICES ASSUME GridInv, thin # Idle, thin.ii = Len(array), laid = <<thin.nx, thin.ny>>
             PROVE  \A c \in DOMAIN thin.cells : thin.cells[c] = {c + 1}
  BY DEF GridKept
<1>1. PICK nx \in Nat \ {0}, ny \in Nat \ {0}, ii \in 0..Len(array) :
        thin = Thinning(nx, ny, ii) /\ Apart(nx, ny)
  BY DEF GridInv, ThinInv
<1>2. array \in Seq(GridPoint) /\ Live
  BY DEF GridInv, ArrayInv, Live
<1>3. /\ thin.nx = nx /\ thin.ny = ny /\ ii = Len(array) /\ DOMAIN thin.cells = 0..(nx * ny - 1)
      /\ \A c \in 0..(nx * ny - 1) : thin.cells[c] = {v \in 1..ii : Box(nx, ny, v) = c}
  BY <1>1 DEF Thinning, CellMembers
<1>4. PICK f \in Nat \ {0} : HoldsGrid(array, nx, ny, f)
  <2>1. laid = <<nx, ny>> /\ laid # <<0, 0>>
    BY <1>3
  <2> QED BY <1>2, <2>1 DEF GridInv, LaidInv
<1>5. PICK dx \in Nat, dy \in Nat : EvenlySpaced(array, nx, ny, dx, dy)
  BY <1>4, GridCoordinates
<1>6. PICK len \in Nat \ {0} : len = nx * ny /\ ii = len
  <2>1. nx * ny \in Nat \ {0}
    OBVIOUS
  <2> QED BY <1>3, <1>4, <2>1 DEF HoldsGrid
<1>7. (nx > 1 => Width(Xs(array)) > 0) /\ (ny > 1 => Width(Ys(array)) > 0)
  <2>1. array # <<>>
    BY <1>3, <1>6
  <2> QED BY <1>1, <2>1 DEF Apart
<1>8. ASSUME NEW v \in 1..len PROVE Box(nx, ny, v) = v - 1
  <2>1. v - 1 \in 0..(nx * ny - 1)
    BY <1>6
  <2>2. PICK j \in 0..(nx - 1), k \in 0..(ny - 1) :
          j = (v - 1) % nx /\ k = (v - 1) \div nx /\ v - 1 = j + k * nx
    BY <2>1, InRows
  <2>3. Cell(array[v].x, Xs(array), nx) = j
    <3>1. nx > 1 => /\ Xs(array) = {c * dx : c \in 0..(nx - 1)}
                    /\ Width(Xs(array)) > 0 /\ array[v].x = j * dx
      BY <1>5, <1>6, <1>7, <2>2 DEF EvenlySpaced
    <3> QED BY <3>1, EvenCells
  <2>4. Cell(array[v].y, Ys(array), ny) = k
    <3>1. ny > 1 => /\ Ys(array) = {c * dy : c \in 0..(ny - 1)}
                    /\ Width(Ys(array)) > 0 /\ array[v].y = k * dy
      BY <1>5, <1>6, <1>7, <2>2 DEF EvenlySpaced
    <3> QED BY <3>1, EvenCells
  <2> QED BY <2>2, <2>3, <2>4 DEF Box
<1>9. ASSUME NEW c \in 0..(nx * ny - 1) PROVE thin.cells[c] = {c + 1}
  <2>1. c \in Int /\ c + 1 \in 1..len
    BY <1>6
  <2>2. \A v \in 1..len : v - 1 = c <=> v = c + 1
    BY <2>1
  <2>3. thin.cells[c] = {v \in 1..len : v - 1 = c}
    BY <1>3, <1>6, <1>8
  <2> QED BY <2>1, <2>2, <2>3
<1> QED BY <1>3, <1>9

(* points_thingrid counts every point in exactly one cell, the one whose    *)
(* rectangle it is in, and keeps every point of a grid points_generate has laid *)
(* with the same sizes.                                                     *)
THEOREM CellsAreRight == GridSpec => []CellsRight
<1>1. GridInv => CellsRight
  BY CellsFollow, SumsFollow, GridFollows DEF CellsRight
<1> QED BY <1>1, GridInvariant, PTL

-----------------------------------------------------------------------------
(* The types: what the client's array holds, even when points_thingrid has  *)
(* replaced it by its means.                                                *)

(* The element of a finite set of integers that has v elements up to it.    *)
LEMMA EveryRank ==
  ASSUME NEW S, S \subseteq Int, IsFiniteSet(S), NEW v \in 1..Cardinality(S)
  PROVE  \E c \in S : Cardinality({d \in S : d <= c}) = v
<1> DEFINE Upto(c) == {d \in S : d <= c}
           rank == [c \in S |-> Cardinality(Upto(c))]
<1>1. PICK len \in Nat : len = Cardinality(S)
  BY FS_CardinalityType
<1>2. ASSUME NEW c \in S
      PROVE  IsFiniteSet(Upto(c)) /\ Cardinality(Upto(c)) \in 1..len
  <2>1. Upto(c) \subseteq S /\ c \in Upto(c)
    OBVIOUS
  <2>2. IsFiniteSet(Upto(c)) /\ Cardinality(Upto(c)) <= len /\ Cardinality(Upto(c)) \in Nat
    BY <1>1, <2>1, FS_Subset, FS_CardinalityType
  <2>3. Cardinality(Upto(c)) # 0
    BY <2>1, <2>2, FS_EmptySet
  <2> QED BY <2>2, <2>3
<1>3. ASSUME NEW c \in S, NEW e \in S, c < e PROVE Cardinality(Upto(c)) # Cardinality(Upto(e))
  <2>1. Upto(c) \subseteq Upto(e) /\ e \in Upto(e) /\ e \notin Upto(c)
    <3>1. c \in Int /\ e \in Int /\ \A d \in S : d \in Int /\ (d <= c => d <= e)
      BY <1>3
    <3>2. Upto(c) \subseteq Upto(e)
      BY <3>1
    <3>3. e <= e /\ ~(e <= c)
      BY <1>3, <3>1
    <3>4. e \in Upto(e) /\ e \notin Upto(c)
      BY <3>3
    <3> QED BY <3>2, <3>4
  <2>2. Upto(c) # Upto(e)
    BY <2>1
  <2> HIDE DEF Upto
  <2> QED BY <1>2, <2>1, <2>2, FS_Subset
<1>4. rank \in [S -> 1..len]
  BY <1>2
<1>5. \A c, e \in S : rank[c] = rank[e] => c = e
  <2> SUFFICES ASSUME NEW c \in S, NEW e \in S, c # e PROVE Cardinality(Upto(c)) # Cardinality(Upto(e))
    OBVIOUS
  <2> HIDE DEF Upto
  <2>1. c < e \/ e < c
    OBVIOUS
  <2> QED BY <1>3, <2>1
<1> HIDE DEF rank, Upto
<1>6. rank \in Injection(S, 1..len)
  BY <1>4, <1>5 DEF Injection, IsInjective
<1>7. IsFiniteSet(1..len) /\ Cardinality(1..len) = len
  BY FS_Interval
<1>8. rank \in Surjection(S, 1..len)
  BY <1>1, <1>6, <1>7, FS_Injection
<1>9. PICK c \in S : rank[c] = v
  BY <1>1, <1>8 DEF Surjection
<1> QED BY <1>9 DEF rank, Upto

(* There are as many means as cells with points, at most one per point, and *)
(* each is that of such a cell.                                             *)
LEMMA MeansOfCells ==
  ASSUME GridInv, thin # Idle
  PROVE  /\ Cardinality(Filled) \in 0..Len(array)
         /\ \A v \in 1..Cardinality(Filled) :
              Nth(v) \in Filled /\ thin.sums[Nth(v)].x \in Int /\ thin.sums[Nth(v)].y \in Int
<1>1. PICK nx \in Nat \ {0}, ny \in Nat \ {0}, ii \in 0..Len(array) :
        thin = Thinning(nx, ny, ii) /\ Apart(nx, ny)
  BY DEF GridInv, ThinInv
<1>2. array \in Seq(GridPoint) /\ Len(array) \in Nat
  BY LenProperties DEF GridInv, ArrayInv, Live
<1> DEFINE D == 0..(nx * ny - 1)
<1>3. /\ DOMAIN thin.cells = D
      /\ \A c \in D : /\ thin.cells[c] = {v \in 1..ii : Box(nx, ny, v) = c}
                      /\ thin.sums[c] = [x |-> SumOver(array, CellMembers(nx, ny, ii, c), "x"),
                                         y |-> SumOver(array, CellMembers(nx, ny, ii, c), "y")]
  BY <1>1 DEF Thinning, CellMembers
<1>4. Filled \subseteq D
  BY <1>3 DEF Filled
<1>5. Filled = {Box(nx, ny, v) : v \in 1..ii}
  <2>1. \A v \in 1..ii : v \in 1..Len(array)
    BY <1>2
  <2>2. \A v \in 1..ii : Box(nx, ny, v) \in D
    BY <1>1, <1>2, <2>1, CellInGrid
  <2> HIDE DEF D
  <2>3. \A c \in D : thin.cells[c] # {} <=> \E v \in 1..ii : Box(nx, ny, v) = c
    BY <1>3
  <2>4. Filled = {c \in D : \E v \in 1..ii : Box(nx, ny, v) = c}
    BY <1>3, <2>3 DEF Filled
  <2> QED BY <2>2, <2>4
<1>6. IsFiniteSet(Filled) /\ Cardinality(Filled) <= ii
  <2>1. IsFiniteSet(1..ii) /\ Cardinality(1..ii) = ii
    BY <1>2, FS_Interval
  <2>2. [v \in 1..ii |-> Box(nx, ny, v)] \in Surjection(1..ii, Filled)
    BY <1>5 DEF Surjection
  <2> QED BY <2>1, <2>2, FS_Surjection
<1>7. Cardinality(Filled) \in 0..Len(array)
  BY <1>2, <1>6, FS_CardinalityType
<1>8. ASSUME NEW v \in 1..Cardinality(Filled) PROVE Nth(v) \in Filled
  <2>1. Filled \subseteq Int
    BY <1>4
  <2>2. \E c \in Filled : Cardinality({d \in Filled : d <= c}) = v
    BY <1>6, <2>1, EveryRank
  <2> QED BY <2>2 DEF Nth
<1>9. ASSUME NEW c \in Filled PROVE thin.sums[c].x \in Int /\ thin.sums[c].y \in Int
  <2>1. SumOver(array, CellMembers(nx, ny, ii, c), "x") \in Int /\ SumOver(array, CellMembers(nx, ny, ii, c), "y") \in Int
    BY <1>2, SumIsInt
  <2>2. c \in D
    BY <1>4
  <2>3. thin.sums[c] = [x |-> SumOver(array, CellMembers(nx, ny, ii, c), "x"),
                        y |-> SumOver(array, CellMembers(nx, ny, ii, c), "y")]
    BY <1>3, <2>2
  <2> QED BY <2>1, <2>3
<1> QED BY <1>7, <1>8, <1>9

(* The means are written one per cell with points.                          *)
LEMMA MeansTyped ==
  ASSUME GridInv, GridTypeOK, WriteMeans
  PROVE  GridTypeOK'
<1>1. thin # Idle /\ thin' = Idle /\ calls' = MaxCalls /\ UNCHANGED <<yden, laid>>
  BY DEF WriteMeans
<1>2. PICK len \in 0..Len(array) : len = Cardinality(Filled)
  BY <1>1, MeansOfCells
<1>3. Len(array) \in Nat
  BY <1>1, LenProperties DEF GridInv, ArrayInv, Live
<1> DEFINE Mean(v) == [x |-> thin.sums[Nth(v)].x, y |-> thin.sums[Nth(v)].y,
                       count |-> Cardinality(thin.cells[Nth(v)])]
<1>4. array' = [v \in 1..len |-> Mean(v)]
  BY <1>2 DEF WriteMeans
<1>5. \A v \in 1..len : Mean(v).x \in Int /\ Mean(v).y \in Int
  BY <1>1, <1>2, MeansOfCells
<1>6. Len(array') = len
  <2>1. DOMAIN array' = 1..len /\ len \in Nat
    BY <1>2, <1>3, <1>4
  <2>2. array' \in Seq({Mean(v) : v \in 1..len})
    BY <1>4, <2>1
  <2> HIDE DEF Mean
  <2> QED BY <2>1, <2>2, LenProperties
<1>7. \A v \in 1..Len(array') : array'[v].x \in Int /\ array'[v].y \in Int
  <2> HIDE DEF Mean
  <2> QED BY <1>4, <1>5, <1>6
<1>8. laid[1] * laid[2] > 0 => Len(array') <= laid[1] * laid[2]
  <2> SUFFICES ASSUME laid[1] * laid[2] > 0 PROVE len <= laid[1] * laid[2]
    BY <1>6
  <2>1. laid # <<0, 0>>
    OBVIOUS
  <2>2. PICK nx \in Nat \ {0}, ny \in Nat \ {0}, f \in Nat \ {0} : laid = <<nx, ny>>
    BY <1>1, <2>1 DEF GridInv, LaidInv, Live
  <2>3. Len(array) <= laid[1] * laid[2]
    BY DEF GridTypeOK
  <2>4. laid[1] * laid[2] \in Nat
    BY <2>2
  <2> QED BY <1>2, <1>3, <2>3, <2>4
<1>9. calls' \in 0..MaxCalls /\ yden' \in Nat \ {0} /\ thin'.ii \in 0..Len(array')
  BY <1>1, <1>2, <1>3, <1>6, GridAssumption DEF GridTypeOK, Idle
<1> QED BY <1>1, <1>7, <1>8, <1>9 DEF GridTypeOK

(* Steps that leave the array and its grid alone.                           *)
LEMMA SameArrayTyped ==
  ASSUME GridTypeOK, UNCHANGED <<array, yden, laid>>, calls' \in 0..MaxCalls, thin'.ii \in 0..Len(array)
  PROVE  GridTypeOK'
BY DEF GridTypeOK

(* Another array of points.                                                 *)
LEMMA NewArrayTyped ==
  ASSUME array' \in Seq(GridPoint), yden' \in Nat \ {0}, thin' = Idle, calls' \in 0..MaxCalls,
         laid'[1] * laid'[2] > 0 => Len(array') <= laid'[1] * laid'[2]
  PROVE  GridTypeOK'
<1>1. \A v \in 1..Len(array') : array'[v] \in GridPoint
  BY LenProperties
<1>2. Len(array') \in Nat
  BY LenProperties
<1> QED BY <1>1, <1>2 DEF GridTypeOK, GridPoint, Idle

(* Every step leaves everything of its type.                                *)
LEMMA StepGridTyped ==
  ASSUME GridInv, GridInv', GridTypeOK, [GridNext]_gridVars
  PROVE  GridTypeOK'
<1>1. Call => thin = Idle /\ Live /\ calls' \in 0..MaxCalls
  BY GridAssumption DEF Call, Live, GridTypeOK
<1>2. Live => array \in Seq(GridPoint) /\ Len(array) \in Nat
  BY LenProperties DEF GridInv, ArrayInv
<1>3. CASE \E s \in Sizes : s[1] > 0 /\ s[2] > 0 /\ (Generate(s[1], s[2]) \/ ThinGrid(s[1], s[2]))
  <2>1. PICK nx \in Nat \ {0}, ny \in Nat \ {0} : Generate(nx, ny) \/ ThinGrid(nx, ny)
    <3>1. PICK s \in Sizes : s[1] > 0 /\ s[2] > 0 /\ (Generate(s[1], s[2]) \/ ThinGrid(s[1], s[2]))
      BY <1>3
    <3>2. s[1] \in Nat \ {0} /\ s[2] \in Nat \ {0}
      BY <3>1, GridAssumption
    <3> QED BY <3>1, <3>2
  <2>2. CASE Generate(nx, ny)
    <3>1. /\ array' = Lattice(nx, ny) /\ yden' = 1 /\ laid' = <<nx, ny>> /\ thin' = Idle
          /\ calls' \in 0..MaxCalls
      BY <1>1, <2>2 DEF Generate
    <3>2. array' \in Seq(GridPoint) /\ Len(array') = nx * ny
      BY <3>1, LatticePoints
    <3> QED BY <3>1, <3>2, NewArrayTyped
  <2>3. CASE ThinGrid(nx, ny)
    <3>1. UNCHANGED <<array, yden, laid>> /\ calls' \in 0..MaxCalls /\ thin'.ii = 0 /\ Live
      BY <1>1, <2>3 DEF ThinGrid
    <3> QED BY <1>2, <3>1, SameArrayTyped
  <2> QED BY <2>1, <2>2, <2>3
<1>4. CASE \E s \in Sizes : ThinAway(s[1], s[2])
  <2>1. /\ array' = <<>> /\ yden' = yden /\ laid' = <<0, 0>> /\ thin' = Idle /\ calls' \in 0..MaxCalls
    BY <1>1, <1>4 DEF ThinAway
  <2>2. array' \in Seq(GridPoint) /\ yden' \in Nat \ {0} /\ ~(laid'[1] * laid'[2] > 0)
    BY <2>1 DEF GridTypeOK
  <2> QED BY <2>1, <2>2, NewArrayTyped
<1>5. CASE AddToCell
  <2>1. thin # Idle /\ thin.ii < Len(array) /\ UNCHANGED <<array, yden, laid, calls>>
    BY <1>5 DEF AddToCell
  <2>2. thin' # Idle => thin'.ii \in 0..Len(array')
    <3> SUFFICES ASSUME thin' # Idle PROVE thin'.ii \in 0..Len(array')
      OBVIOUS
    <3>1. \E nx, ny \in Nat \ {0}, ii \in 0..Len(array') : thin' = Thinning(nx, ny, ii)'
      BY DEF GridInv, ThinInv
    <3> QED BY <3>1 DEF Thinning
  <2>3. Len(array) \in Nat
    BY <1>2, <2>1 DEF Live
  <2>4. thin'.ii \in 0..Len(array)
    BY <2>1, <2>2, <2>3 DEF Idle
  <2> QED BY <2>1, <2>4, SameArrayTyped DEF GridTypeOK
<1>6. CASE WriteMeans
  BY <1>6, MeansTyped
<1>7. CASE \E asked \in SUBSET {"xmin", "xmax", "ymin", "ymax"}, zoom \in Zooms : GetRange(asked, zoom)
  <2>1. UNCHANGED <<array, yden, laid, thin>> /\ calls' \in 0..MaxCalls
    BY <1>1, <1>7 DEF GetRange
  <2> QED BY <2>1, SameArrayTyped DEF GridTypeOK
<1>8. CASE ScaleToSquare \/ ScaleBack
  <2>1. thin' = Idle /\ Live /\ calls' \in 0..MaxCalls /\ UNCHANGED laid
    BY <1>1, <1>8 DEF ScaleToSquare, ScaleBack
  <2>2. PICK k1 \in Nat \ {0}, k2 \in Nat \ {0} : DivideY(<<k1, k2>>)
    <3>1. CASE ScaleToSquare
      <4>1. array # <<>> /\ Width(Xs(array)) > 0 /\ Width(Ys(array)) > 0
        BY <3>1 DEF ScaleToSquare
      <4>2. Width(Xs(array)) \in Nat \ {0} /\ Width(Ys(array)) \in Nat \ {0} /\ yden \in Nat \ {0}
        BY <1>2, <2>1, <4>1, CoordinatesSpanned DEF GridTypeOK
      <4>3. Width(Xs(array)) * yden \in Nat \ {0}
        BY <4>2
      <4>4. DivideY(<<Width(Ys(array)), Width(Xs(array)) * yden>>)
        BY <3>1 DEF ScaleToSquare
      <4> QED BY <4>2, <4>3, <4>4
    <3>2. CASE ScaleBack
      <4>1. square # NoSquare /\ DivideY(<<square.k[2], square.k[1]>>)
        BY <3>2 DEF ScaleBack
      <4>2. PICK k1 \in Nat \ {0}, k2 \in Nat \ {0}, den \in Nat \ {0}, ps \in Seq(GridPoint) :
              Squared(k1, k2, den, ps)
        BY <4>1 DEF GridInv, SquareInv
      <4>3. square.k[1] = k1 /\ square.k[2] = k2
        BY <4>2 DEF Squared
      <4> QED BY <4>1, <4>3
    <3> QED BY <1>8, <3>1, <3>2
  <2>3. array' \in Seq(GridPoint) /\ Len(array') = Len(array) /\ yden' \in Nat \ {0}
    BY <1>2, <2>1, <2>2, Stretch DEF GridTypeOK
  <2>4. laid'[1] * laid'[2] > 0 => Len(array') <= laid'[1] * laid'[2]
    BY <2>1, <2>3 DEF GridTypeOK
  <2> QED BY <2>1, <2>3, <2>4, NewArrayTyped
<1>9. CASE UNCHANGED gridVars
  BY <1>9 DEF gridVars, GridTypeOK
<1> QED BY <1>3, <1>4, <1>5, <1>6, <1>7, <1>8, <1>9 DEF GridNext

(* The initial state is of its type.                                        *)
LEMMA InitGridTyped == GridInit => GridTypeOK
<1> SUFFICES ASSUME GridInit PROVE GridTypeOK
  OBVIOUS
<1>1. array \in Seq(GridPoint)
  BY GridAssumption DEF GridInit, GridPoint
<1>2. Len(array) \in Nat /\ \A v \in 1..Len(array) : array[v] \in GridPoint
  BY <1>1, LenProperties
<1>3. yden = 1 /\ laid = <<0, 0>> /\ thin = Idle /\ calls = 0
  BY DEF GridInit
<1>4. /\ laid[1] * laid[2] = 0 /\ thin.ii = 0 /\ yden \in Nat \ {0} /\ calls \in 0..MaxCalls
  BY <1>3, GridAssumption DEF Idle
<1> QED BY <1>2, <1>4 DEF GridTypeOK, GridPoint

(* The point utilities keep coordinates numbers, the sums behind the means  *)
(* included; points_thingrid leaves no more points than it was given, and   *)
(* no more than the grid had that points_generate laid.                     *)
THEOREM GridTyped == GridSpec => []GridTypeOK
<1>1. GridInit => GridInv /\ GridTypeOK
  BY InitGrid, InitGridTyped
<1>2. GridInv /\ GridTypeOK /\ [GridNext]_gridVars => (GridInv /\ GridTypeOK)'
  BY StepGrid, StepGridTyped
<1> QED BY <1>1, <1>2, PTL DEF GridSpec
-----------------------------------------------------------------------------
(* The library as it is checked: the three side by side.                    *)

LibraryInv == DelaunayTypeOK /\ PointsInv /\ PointsTypeOK /\ GridInv /\ GridTypeOK

(* A step is one of one of them; the other two do not move.                 *)
LEMMA StepLibrary == LibraryInv /\ [MCNext]_<<vars, pointsVars, gridVars, part>> => LibraryInv'
<1> SUFFICES ASSUME LibraryInv, [MCNext]_<<vars, pointsVars, gridVars, part>> PROVE LibraryInv'
  OBVIOUS
<1>1. [DelaunayNext]_vars /\ [PointsNext]_pointsVars /\ [GridNext]_gridVars
  BY DEF MCNext
<1>2. DelaunayTypeOK'
  BY <1>1, StepTyped DEF LibraryInv
<1>3. PointsInv' /\ PointsTypeOK'
  BY <1>1, StepPoints, StepPointsTyped DEF LibraryInv
<1>4. GridInv' /\ GridTypeOK'
  BY <1>1, StepGrid, StepGridTyped DEF LibraryInv
<1> QED BY <1>2, <1>3, <1>4 DEF LibraryInv

(* Types of the triangulation, its lists and its searches, of the points    *)
(* taken and written, and of the grid: whatever the library is doing, what  *)
(* it indexes exists.                                                       *)
THEOREM LibraryTyped == MCSpec => []TypesOK
<1>1. MCInit => LibraryInv
  BY InitTyped, InitPoints, InitPointsTyped, InitGrid, InitGridTyped DEF MCInit, LibraryInv
<1>2. LibraryInv => TypesOK
  BY DEF LibraryInv, TypesOK
<1> QED BY <1>1, <1>2, StepLibrary, PTL DEF MCSpec
=============================================================================
