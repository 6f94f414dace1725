------------------------------ MODULE NNPoints ------------------------------
(* The two point utilities of nncommon.c that fill an array whose length    *)
(* they do not know beforehand: points_thinlin(), which merges runs of      *)
(* neighbouring points into their means, and points_read(), which reads one *)
(* point per line of a file.  Both double the array when it is full and cut *)
(* it to its length at the end.                                             *)
(*                                                                          *)
(* A point of points_thinlin is its position along a line, or NaN when one  *)
(* of its coordinates is; the sums over a cluster are the indices summed.   *)
(* A line of a file is its first character's role and its tokens: strtod    *)
(* makes a number of a token or nothing.                                    *)
EXTENDS Integers, Sequences, FiniteSets

CONSTANTS
  Thins,             \* calls of points_thinlin: [points: Seq, rmax: Nat]
  Reads,             \* calls of points_read: [lines: Seq, dim: 1..4]
  NALLOCATED_START,  \* entries the array starts with
  NaN, Unset,        \* an undefined coordinate, memory never written
  Bad                \* a token strtod() makes nothing of

ASSUME AllocationAssumption == NALLOCATED_START \in Nat \ {0}
ASSUME InputAssumption ==
  /\ \A c \in Thins : c.points \in Seq(Int \cup {NaN}) /\ c.rmax \in Nat
  /\ \A c \in Reads : /\ Len(c.lines) \in Nat
                      /\ \A l \in 1..Len(c.lines) : Len(c.lines[l].tokens) \in Nat

VARIABLES
  call,        \* the call that runs, and its arguments
  i,           \* points or lines taken so far
  cluster,     \* indices summed in sum_x, sum_y, sum_z; their number is n
  sum_r,       \* length of the path through the cluster
  pprev,       \* the cluster's last point, 0 for NULL
  pout,        \* the clusters whose means are written: nout is its length
  slots,       \* points_read's array: coordinates written to each entry
  n,           \* points_read's count
  nallocated,  \* entries of the array
  returned

thinVars == <<cluster, sum_r, pprev, pout>>
readVars == <<slots, n>>
pointsVars == <<call, i, thinVars, readVars, nallocated, returned>>

Input == IF call.op = "thinlin" THEN call.points ELSE call.lines

Nothing == <<Unset, Unset, Unset>>

PointsInit ==
  /\ call \in {[op |-> "thinlin", points |-> c.points, rmax |-> c.rmax] : c \in Thins}
       \cup {[op |-> "read", lines |-> c.lines, dim |-> c.dim] : c \in Reads}
  /\ i = 0 /\ cluster = <<>> /\ sum_r = 0 /\ pprev = 0 /\ pout = <<>>
  /\ slots = [k \in 1..NALLOCATED_START |-> Nothing]
  /\ n = 0
  /\ nallocated = NALLOCATED_START
  /\ returned = FALSE

-----------------------------------------------------------------------------
(* points_thinlin *)

(* A full array doubles.                                                    *)
Grown(count) == IF count = nallocated THEN 2 * nallocated ELSE nallocated

Dist(p, q) == IF p < q THEN q - p ELSE p - q

NextPoint(op) ==
  /\ ~returned /\ call.op = op
  /\ i < Len(Input)
  /\ i' = i + 1
  /\ UNCHANGED <<call, returned>>

WriteAndKeep ==  \* mutant: the cluster is not reset
  /\ nallocated' = Grown(Len(pout))
  /\ pout' = Append(pout, cluster)
  /\ UNCHANGED <<cluster, sum_r, pprev>>

(* The mean of the cluster goes behind the last one.                        *)
WriteMean ==
  /\ nallocated' = Grown(Len(pout))
  /\ pout' = Append(pout, cluster)
  /\ pprev' = 0
  /\ UNCHANGED <<cluster, sum_r>>

UndefinedPoint ==
  /\ NextPoint("thinlin")
  /\ Input[i + 1] = NaN
  /\ \/ pprev # 0 /\ WriteMean
     \/ pprev = 0 /\ UNCHANGED <<thinVars, nallocated>>
  /\ UNCHANGED readVars

InitCluster ==
  /\ NextPoint("thinlin")
  /\ Input[i + 1] # NaN /\ pprev = 0
  /\ cluster' = <<i + 1>>
  /\ sum_r' = 0
  /\ pprev' = i + 1
  /\ UNCHANGED <<pout, readVars, nallocated>>

Exceeds == sum_r + Dist(Input[i + 1], Input[pprev]) > call.rmax

(* The point that makes the path too long closes the cluster and is in none.*)
CloseCluster ==
  /\ NextPoint("thinlin")
  /\ Input[i + 1] # NaN /\ pprev # 0 /\ Exceeds
  /\ WriteMean
  /\ UNCHANGED readVars

AddToCluster ==
  /\ NextPoint("thinlin")
  /\ Input[i + 1] # NaN /\ pprev # 0 /\ ~Exceeds
  /\ cluster' = Append(cluster, i + 1)
  /\ sum_r' = sum_r + Dist(Input[i + 1], Input[pprev])
  /\ pprev' = i + 1
  /\ UNCHANGED <<pout, readVars, nallocated>>

-----------------------------------------------------------------------------
(* points_read *)

(* str2double: no token, or one strtod() makes nothing of, gives NaN.       *)
Value(line, k) == IF k <= Len(line.tokens) /\ line.tokens[k] # Bad THEN line.tokens[k] ELSE NaN

(* The coordinates the tokens are for, and those before the first failure.  *)
Parsed(line, k) == k <= Len(line.tokens) /\ line.tokens[k] # Bad
AllBefore(line, k) == \A l \in 1..(k - 1) : Parsed(line, l)

(* What a line writes to the entry behind the last point, whether or not    *)
(* it turns out to be a point: a failed token leaves NaN, no token nothing. *)
Written(line, old) ==
  [k \in 1..3 |->
     IF k = 3 /\ call.dim = 2 THEN IF AllBefore(line, 3) THEN NaN ELSE old[3]
     ELSE IF AllBefore(line, k) /\ k <= Len(line.tokens) THEN Value(line, k) ELSE old[k]]

IsPlanePoint(line, dim) == ~line.comment /\ AllBefore(line, 3)  \* mutant: z is not asked for
IsPoint(line, dim) == ~line.comment /\ AllBefore(line, dim + 1)

ReadLine ==
  /\ NextPoint("read")
  /\ call.dim \in {2, 3}
  /\ LET line == Input[i + 1]
         size == Grown(n)
         grown == [k \in 1..size |-> IF k \in DOMAIN slots THEN slots[k] ELSE Nothing]
     IN  /\ nallocated' = size
         /\ slots' = IF line.comment THEN grown
                     ELSE [grown EXCEPT ![n + 1] = Written(line, @)]
         /\ n' = IF IsPoint(line, call.dim) THEN n + 1 ELSE n
  /\ UNCHANGED thinVars

-----------------------------------------------------------------------------
(* The array is cut to its length.  points_read refuses other dimensions    *)
(* than 2 and 3 before it opens the file.                                   *)
ReturnArray ==
  /\ ~returned
  /\ i = Len(Input) \/ (call.op = "read" /\ call.dim \notin {2, 3})
  /\ returned' = TRUE
  /\ nallocated' = IF call.op = "thinlin" THEN Len(pout) ELSE n
  /\ slots' = [k \in 1..n |-> slots[k]]
  /\ UNCHANGED <<call, i, thinVars, n>>

PointsNext == UndefinedPoint \/ InitCluster \/ CloseCluster \/ AddToCluster \/ ReadLine \/ ReturnArray

PointsSpec == PointsInit /\ [][PointsNext]_pointsVars /\ WF_pointsVars(PointsNext)

-----------------------------------------------------------------------------
(* Properties *)

PointsTypeOK ==
  /\ i \in 0..Len(Input)
  /\ pprev \in 0..i
  /\ sum_r \in Nat /\ n \in Nat /\ nallocated \in Nat
  /\ cluster \in Seq(1..Len(Input)) /\ pout \in Seq(Seq(1..Len(Input)))
  /\ returned \in BOOLEAN

(* A mean or a point is only ever written inside the array: the doubling    *)
(* keeps ahead of both counts.                                              *)
WritesFit == Len(pout) <= nallocated /\ n <= nallocated

(* The path through the points of c, by its length up to each of them.      *)
PathWithin(c, rmax) ==
  \E path \in [1..Len(c) -> 0..rmax] :
    \A l \in 1..Len(c) :
      path[l] = IF l = 1 THEN 0 ELSE path[l - 1] + Dist(Input[c[l - 1]], Input[c[l]])

(* A mean is taken over neighbouring points without an undefined one between*)
(* them, and the path through them is never longer than rmax.               *)
ClustersBounded ==
  call.op = "thinlin" =>
    \A k \in 1..Len(pout) :
      /\ \A l \in 1..Len(pout[k]) : Input[pout[k][l]] # NaN
      /\ \A l \in 2..Len(pout[k]) : pout[k][l] = pout[k][l - 1] + 1
      /\ PathWithin(pout[k], call.rmax)

Members(c) == {c[k] : k \in 1..Len(c)}
Averaged == UNION {Members(pout[k]) : k \in 1..Len(pout)}
Open == IF pprev = 0 THEN {} ELSE Members(cluster)
Defined == {k \in 1..i : call.points[k] # NaN}
Lost == Defined \ (Averaged \cup Open)

(* What points_thinlin loses: of the points taken so far no two are in the  *)
(* same mean twice, and a point is in no mean only because it ended the     *)
(* cluster before it, so at most one is lost for each mean written.         *)
LossesBounded ==
  call.op = "thinlin" =>
    /\ \A k, l \in 1..Len(pout) : k # l => Members(pout[k]) \cap Members(pout[l]) = {}
    /\ Averaged \cap Open = {}
    /\ \A p \in Lost : p - 1 \in Averaged
    /\ Cardinality(Lost) <= Len(pout)

(* points_read returns one point per line that holds one, in the order of   *)
(* the file, with nothing left in it from a line that was given up halfway; *)
(* in two dimensions z is NaN.                                              *)
Good ==
  {l \in 1..Len(call.lines) :
     /\ ~call.lines[l].comment
     /\ Len(call.lines[l].tokens) >= call.dim
     /\ \A k \in 1..call.dim : call.lines[l].tokens[k] # Bad}
GoodUpTo(last) == {l \in Good : l <= last}

ReadExact ==
  (returned /\ call.op = "read") =>
    IF call.dim \notin {2, 3} THEN n = 0
    ELSE /\ n = Cardinality(Good) /\ DOMAIN slots = 1..n
         /\ \A l \in Good : slots[Cardinality(GoodUpTo(l))] =
              [c \in 1..3 |-> IF c > call.dim THEN NaN ELSE call.lines[l].tokens[c]]

(* points_thinlin altogether: the array never overflows, a mean stands for  *)
(* a short path of neighbours, and few points are lost.                     *)
ThinlinRight == WritesFit /\ ClustersBounded /\ LossesBounded
=============================================================================
