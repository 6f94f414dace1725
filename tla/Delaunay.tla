------------------------------ MODULE Delaunay ------------------------------
(***************************************************************************)
(* delaunay.c: from the output of triangulate() to the triangles around    *)
(* each point, and the search for all circumcircles that hold a point.     *)
(*                                                                         *)
(* Coordinates are integers.  Circles are kept as exact fractions; only    *)
(* for a point exactly on a circle may the code's floating point answer    *)
(* either way, and the variable touching fixes that answer.                *)
(***************************************************************************)
EXTENDS Integers, Sequences, FiniteSets, Functions

CONSTANTS
  Meshes,        \* input points with what triangulate() returns for them
  Queries,       \* points that are searched for
  N_SEARCH_TURNON

Point == [x : Int, y : Int]

Next3(k) == (k + 1) % 3

(* Whether the point q is on the right side of the vector (p0, p1).        *)
OnRightSide(q, p0, p1) ==
  (p1.x - q.x) * (p0.y - q.y) > (p0.x - q.x) * (p1.y - q.y)

(* Whether m is a triangulation of its points: triangles turn left, a      *)
(* neighbour shares the side opposite a corner, and where there is none    *)
(* the whole mesh is on the left of that side.                             *)
IsMesh(m) ==
  LET V == DOMAIN m.points
      T == DOMAIN m.triangles
  IN  /\ IsFiniteSet(V) /\ V = 0..(Cardinality(V) - 1)
      /\ IsFiniteSet(T) /\ T = 0..(Cardinality(T) - 1) /\ T # {}
      /\ m.points \in [V -> Point]
      /\ m.triangles \in [T -> [0..2 -> V]]
      /\ m.neighbours \in [T -> [0..2 -> T \cup {-1}]]
      /\ \A t \in T, k \in 0..2 :
           LET a == m.triangles[t][Next3(k)]
               b == m.triangles[t][Next3(Next3(k))]
               u == m.neighbours[t][k]
           IN  /\ OnRightSide(m.points[b], m.points[a], m.points[m.triangles[t][k]])
               /\ IF u = -1 THEN \A v \in V : ~OnRightSide(m.points[v], m.points[a], m.points[b])
                  ELSE \E l \in 0..2 : /\ m.triangles[u][Next3(l)] = b
                                       /\ m.triangles[u][Next3(Next3(l))] = a

-----------------------------------------------------------------------------
(* circle_build1: origin is p1; (x, y) is the centre seen from there,      *)
(* multiplied by 2 * denom.                                                *)
Circle(p1, p2, p3) ==
  LET x2 == p2.x - p1.x
      y2 == p2.y - p1.y
      x3 == p3.x - p1.x
      y3 == p3.y - p1.y
      denom == x2 * y3 - y2 * x3
      frac == x2 * (x2 - x3) + y2 * (y2 - y3)
  IN  [origin |-> p1, denom |-> denom,
       x |-> x3 * denom + frac * y3, y |-> y3 * denom - frac * x3]

(* Negative for q inside the circle, 0 on it, positive outside.            *)
Excess(c, q) ==
  LET x == q.x - c.origin.x
      y == q.y - c.origin.y
  IN  c.denom * (x * x + y * y) - (x * c.x + y * c.y)

CircleOf(m, t) ==
  LET corner == [k \in 0..2 |-> m.points[m.triangles[t][k]]]
  IN  Circle(corner[0], corner[1], corner[2])

(* triangulate() returns Delaunay triangulations.                          *)
EmptyCircles(m) ==
  \A t \in DOMAIN m.triangles, v \in DOMAIN m.points : Excess(CircleOf(m, t), m.points[v]) >= 0

ASSUME DelaunayAssumption ==
  /\ \A m \in Meshes : IsMesh(m) /\ EmptyCircles(m)
  /\ Queries \subseteq Point /\ Queries # {}
  /\ N_SEARCH_TURNON \in Nat

VARIABLES
  mesh,               \* what triangulate() returned for the input points
  touching,           \* <<t, q>>: circle t is found to hold q, which is on it
  points,             \* the caller's array, which d->points refers to
  circles,            \* circumcircles
  n_point_triangles,  \* number of triangles in point_triangles[v]
  room,               \* number of entries allocated for point_triangles[v]
  point_triangles,    \* triangles around each point
  first_id,           \* start of the next search; -1: none
  t_in, t_out,        \* stack of triangles to look at; result
  flags, flagids,     \* triangles that have been on t_in; which these are
  p,                  \* point that is searched for
  tid,                \* triangle at hand in the loops
  corner, entry,      \* corner of tid, entry of its list; corner 3: all done
  contains,           \* first_id was located: its circle is not asked
  pc                  \* "ready": built; "found": a search has returned

lists == <<n_point_triangles, room, point_triangles>>
search == <<first_id, t_in, t_out, flags, flagids>>
local == <<p, tid, corner, entry, contains>>
vars == <<mesh, touching, points, circles, lists, search, local, pc>>

Triangles == DOMAIN mesh.triangles
Vertices == DOMAIN mesh.points
ntriangles == Cardinality(Triangles)

DelaunayInit ==
  /\ mesh \in Meshes
  /\ touching \in SUBSET {e \in Triangles \X Queries : Excess(CircleOf(mesh, e[1]), e[2]) = 0}
  /\ points = mesh.points
  /\ circles = <<>>
  /\ n_point_triangles = [v \in Vertices |-> 0]
  /\ room = [v \in Vertices |-> 0]
  /\ point_triangles = [v \in Vertices |-> <<>>]
  /\ first_id = -1
  /\ t_in = <<>> /\ t_out = <<>>
  /\ flags = [t \in Triangles |-> 0]
  /\ flagids = <<>>
  /\ p = CHOOSE q \in Queries : TRUE
  /\ tid = 0 /\ corner = 3 /\ entry = 0 /\ contains = FALSE
  /\ pc = "store"

-----------------------------------------------------------------------------
(* delaunay_build *)

StoreTriangles ==
  /\ pc = "store" /\ pc' = "count"
  /\ circles' = [t \in Triangles |-> CircleOf(mesh, t)]
  /\ UNCHANGED <<mesh, touching, points, lists, search, local>>

CountTriangles ==
  /\ pc = "count" /\ pc' = "allocate"
  /\ n_point_triangles' =
       [v \in Vertices |-> Cardinality({e \in Triangles \X (0..2) : mesh.triangles[e[1]][e[2]] = v})]
  /\ UNCHANGED <<mesh, touching, points, circles, room, point_triangles, search, local>>

(* Mutant of AllocateLists: the counts are not set back.                   *)
KeepCounts ==
  /\ pc = "allocate" /\ pc' = "fill"
  /\ room' = n_point_triangles
  /\ UNCHANGED <<mesh, touching, points, circles, n_point_triangles, point_triangles, search, local>>

AllocateLists ==
  /\ pc = "allocate" /\ pc' = "fill"
  /\ room' = n_point_triangles
  /\ n_point_triangles' = [v \in Vertices |-> 0]
  /\ UNCHANGED <<mesh, touching, points, circles, point_triangles, search, local>>

FillLists ==
  LET around == Range(mesh.triangles[tid])
      last == tid + 1 = ntriangles
  IN  /\ pc = "fill" /\ pc' = IF last THEN "ready" ELSE "fill"
      /\ tid' = IF last THEN 0 ELSE tid + 1
      /\ point_triangles' = [v \in Vertices |->
           IF v \in around THEN Append(point_triangles[v], tid) ELSE point_triangles[v]]
      /\ n_point_triangles' = [v \in Vertices |->
           IF v \in around THEN n_point_triangles[v] + 1 ELSE n_point_triangles[v]]
      /\ UNCHANGED <<mesh, touching, points, circles, room, search, p, corner, entry, contains>>

-----------------------------------------------------------------------------
(* delaunay_circles_find *)

CircleContains(t) ==
  \/ Excess(circles[t], p) < 0
  \/ Excess(circles[t], p) = 0 /\ <<t, p>> \in touching

(* Mutant of SeedOK: the circle is not asked whether it holds the new p.   *)
AnySeed == first_id >= 0

SeedOK == first_id >= 0 /\ CircleContains(first_id)

built == <<mesh, touching, points, circles, lists>>

CirclesFind(q) ==
  /\ pc \in {"ready", "found"}
  /\ IF ntriangles <= N_SEARCH_TURNON
     THEN pc' = "linear" /\ t_out' = <<>>
     ELSE pc' = "seed" /\ UNCHANGED t_out
  /\ p' = q /\ contains' = FALSE /\ tid' = 0
  /\ UNCHANGED <<built, first_id, t_in, flags, flagids, corner, entry>>

LinearSearch ==
  LET last == tid + 1 = ntriangles
  IN  /\ pc = "linear" /\ pc' = IF last THEN "found" ELSE "linear"
      /\ t_out' = IF CircleContains(tid) THEN Append(t_out, tid) ELSE t_out
      /\ tid' = IF last THEN 0 ELSE tid + 1
      /\ UNCHANGED <<built, first_id, t_in, flags, flagids, p, corner, entry, contains>>

(* The search starts with triangle t.                                      *)
Begin(t) ==
  /\ pc' = "expand"
  /\ first_id' = t
  /\ t_in' = <<t>> /\ t_out' = <<>>
  /\ flags' = [flags EXCEPT ![t] = 1]
  /\ flagids' = Append(flagids, t)

ReuseSeed ==
  /\ pc = "seed" /\ SeedOK
  /\ Begin(first_id)
  /\ UNCHANGED <<built, local>>

(* delaunay_xytoi: the bounding box, then from triangle to triangle.       *)
InBox ==
  /\ \E u, v \in Vertices : mesh.points[u].x <= p.x /\ p.x <= mesh.points[v].x
  /\ \E u, v \in Vertices : mesh.points[u].y <= p.y /\ p.y <= mesh.points[v].y

Locate ==
  /\ pc = "seed" /\ ~SeedOK
  /\ IF InBox
     THEN /\ pc' = "walk"
          /\ tid' = IF first_id < 0 \/ first_id > ntriangles THEN 0 ELSE first_id
          /\ UNCHANGED first_id
     ELSE /\ pc' = "missed"
          /\ first_id' = -1
          /\ UNCHANGED tid
  /\ UNCHANGED <<built, t_in, t_out, flags, flagids, p, corner, entry, contains>>

Corner(t, k) == points[mesh.triangles[t][k]]
Beyond(t, k) == OnRightSide(p, Corner(t, k), Corner(t, Next3(k)))

(* Mutant of Across: the neighbour opposite the first end of the side.     *)
AcrossFirst(t, k) == mesh.neighbours[t][k]

(* The neighbour across the side from corner k to the next one.            *)
Across(t, k) == mesh.neighbours[t][(k + 2) % 3]

Walk ==
  /\ pc = "walk"
  /\ \E k \in 0..2 :
       /\ Beyond(tid, k) /\ \A l \in 0..(k - 1) : ~Beyond(tid, l)
       /\ IF Across(tid, k) < 0
          THEN pc' = "missed" /\ first_id' = -1 /\ UNCHANGED tid
          ELSE tid' = Across(tid, k) /\ UNCHANGED <<pc, first_id>>
  /\ UNCHANGED <<built, t_in, t_out, flags, flagids, p, corner, entry, contains>>

Located ==
  /\ pc = "walk"
  /\ \A k \in 0..2 : ~Beyond(tid, k)
  /\ contains' = TRUE
  /\ Begin(tid)
  /\ UNCHANGED <<built, p, tid, corner, entry>>

(* p is in no triangle: first the circles of the last result, then all.    *)
SeedFromLast ==
  /\ pc = "missed"
  /\ \E i \in DOMAIN t_out :
       /\ CircleContains(t_out[i]) /\ \A j \in 1..(i - 1) : ~CircleContains(t_out[j])
       /\ Begin(t_out[i])
  /\ UNCHANGED <<built, local>>

LastFails == \A t \in Range(t_out) : ~CircleContains(t)

SeedFromAll ==
  /\ pc = "missed" /\ LastFails
  /\ \E t \in Triangles :
       /\ CircleContains(t) /\ \A u \in 0..(t - 1) : ~CircleContains(u)
       /\ Begin(t)
  /\ UNCHANGED <<built, local>>

(* Mutant of NotFound: tid == nt is not looked for.                        *)
SeedBehindLast ==
  /\ pc = "missed" /\ LastFails
  /\ \A t \in Triangles : ~CircleContains(t)
  /\ Begin(ntriangles)
  /\ UNCHANGED <<built, local>>

NotFound ==
  /\ pc = "missed" /\ pc' = "found" /\ LastFails
  /\ \A t \in Triangles : ~CircleContains(t)
  /\ t_out' = <<>>
  /\ UNCHANGED <<built, first_id, t_in, flags, flagids, local>>

-----------------------------------------------------------------------------
(* The main cycle *)

Pop ==
  LET t == t_in[Len(t_in)]
      holds == contains \/ CircleContains(t)
  IN  /\ pc = "expand" /\ corner = 3 /\ t_in # <<>>
      /\ t_in' = SubSeq(t_in, 1, Len(t_in) - 1)
      /\ tid' = t
      /\ t_out' = IF holds THEN Append(t_out, t) ELSE t_out
      /\ corner' = IF holds THEN 0 ELSE 3
      /\ contains' = FALSE
      /\ UNCHANGED <<built, first_id, flags, flagids, p, entry, pc>>

(* The triangles around the corners of tid, one at a time.                 *)
PushAround ==
  LET around == point_triangles[mesh.triangles[tid][corner]]
      t == around[entry + 1]
      last == entry + 1 = Len(around)
  IN  /\ pc = "expand" /\ corner < 3 /\ entry < Len(around)
      /\ IF flags[t] = 0
         THEN /\ t_in' = Append(t_in, t)
              /\ flags' = [flags EXCEPT ![t] = 1]
              /\ flagids' = Append(flagids, t)
         ELSE UNCHANGED <<t_in, flags, flagids>>
      /\ entry' = IF last THEN 0 ELSE entry + 1
      /\ corner' = IF last THEN corner + 1 ELSE corner
      /\ UNCHANGED <<built, first_id, t_out, p, tid, contains, pc>>

(* Mutant of ResetFlags: the first flag stays.                             *)
ResetAllButFirst ==
  /\ flags' = [t \in Triangles |-> IF t \in Range(Tail(flagids)) THEN 0 ELSE flags[t]]
  /\ flagids' = <<>>

(* delaunay_resetflags *)
ResetFlags ==
  /\ flags' = [t \in Triangles |-> IF t \in Range(flagids) THEN 0 ELSE flags[t]]
  /\ flagids' = <<>>

Return ==
  /\ pc = "expand" /\ corner = 3 /\ t_in = <<>>
  /\ pc' = "found"
  /\ ResetFlags
  /\ UNCHANGED <<built, first_id, t_in, t_out, local>>

(* FaceMorphFilter searches for nothing: it writes the deformed points     *)
(* into the array it has passed, frees it, then calls delaunay_destroy.    *)
ReuseArray ==
  /\ pc \in {"ready", "found"} /\ pc' = "released"
  /\ \E v \in Vertices : points' = [points EXCEPT ![v] = p]
  /\ UNCHANGED <<mesh, touching, circles, lists, search, local>>

Find ==
  \/ LinearSearch \/ ReuseSeed \/ Locate \/ Walk \/ Located
  \/ SeedFromLast \/ SeedFromAll \/ NotFound
  \/ Pop \/ PushAround \/ Return

DelaunayNext ==
  \/ StoreTriangles \/ CountTriangles \/ AllocateLists \/ FillLists
  \/ \E q \in Queries : CirclesFind(q)
  \/ Find
  \/ ReuseArray

DelaunaySpec == DelaunayInit /\ [][DelaunayNext]_vars /\ WF_vars(Find)

-----------------------------------------------------------------------------
Building == pc \in {"store", "count", "allocate", "fill"}

(* Types.  A search starts and walks in existing triangles only, so the    *)
(* test id > ntriangles of delaunay_xytoi, which lets ntriangles pass,     *)
(* never meets that value.                                                 *)
DelaunayTypeOK ==
  /\ mesh \in Meshes
  /\ points \in [Vertices -> Point]
  /\ pc # "store" => DOMAIN circles = Triangles
  /\ n_point_triangles \in [Vertices -> Nat] /\ room \in [Vertices -> Nat]
  /\ point_triangles \in [Vertices -> Seq(Triangles)]
  /\ first_id \in Triangles \cup {-1}
  /\ t_in \in Seq(Triangles) /\ t_out \in Seq(Triangles)
  /\ flags \in [Triangles -> {0, 1}] /\ flagids \in Seq(Triangles)
  /\ p \in Queries
  /\ tid \in Triangles /\ corner \in 0..3 /\ entry \in Nat /\ contains \in BOOLEAN
  /\ pc \in {"store", "count", "allocate", "fill", "ready", "linear", "seed", "walk",
             "missed", "expand", "found", "released"}

(* The second pass of tio2delaunay writes no more triangles into a list    *)
(* than the first pass has allocated, and in the end the list of a point   *)
(* names exactly the triangles it is a corner of, each once.               *)
ListsExact ==
  /\ pc = "fill" => \A v \in Vertices : n_point_triangles[v] <= room[v]
  /\ ~Building =>
       \A v \in Vertices :
         /\ Range(point_triangles[v]) = {t \in Triangles : v \in Range(mesh.triangles[t])}
         /\ IsInjective(point_triangles[v])
         /\ n_point_triangles[v] = Len(point_triangles[v]) /\ room[v] = n_point_triangles[v]

(* A triangle is flagged exactly if it is remembered for the reset, no     *)
(* triangle is put on the stack twice in one search, and between searches  *)
(* no flag is left: a flag left over would hide its triangle from all      *)
(* later searches.                                                         *)
FlagsTracked ==
  /\ \A t \in Triangles : flags[t] = 1 <=> t \in Range(flagids)
  /\ IsInjective(flagids)
  /\ pc # "expand" => flagids = <<>>

InTriangle(t, q) ==
  \A k \in 0..2 : ~OnRightSide(q, mesh.points[mesh.triangles[t][k]],
                                  mesh.points[mesh.triangles[t][Next3(k)]])
InHull(q) == \E t \in Triangles : InTriangle(t, q)

(* delaunay_xytoi gives up only on points outside the hull, and a triangle *)
(* it returns holds the point, from whatever triangle it started.          *)
LocatedRight ==
  /\ pc = "missed" => ~InHull(p)
  /\ contains => InTriangle(first_id, p)

SharesCorner(t, u) == \E k, l \in 0..2 : mesh.triangles[t][k] = mesh.triangles[u][l]

(* The result of a search, however earlier searches have left first_id and *)
(* t_out: circles the point is in or on, each once, the one the search has *)
(* started with among them, and with a triangle all around its corners     *)
(* whose circles have the point in their interior.  The linear search      *)
(* leaves out none of these; nothing is returned only if nothing contains  *)
(* the point.                                                              *)
ResultsRight ==
  pc = "found" =>
    LET result == Range(t_out)
        linear == ntriangles <= N_SEARCH_TURNON
    IN  /\ IsInjective(t_out)
        /\ \A t \in result : Excess(circles[t], p) <= 0
        /\ \A t \in Triangles :
             Excess(circles[t], p) < 0 /\ (linear \/ \E u \in result : SharesCorner(t, u)) => t \in result
        /\ ~linear => IF first_id = -1 THEN \A t \in Triangles : ~CircleContains(t)
                      ELSE first_id \in result

(* delaunay_circles_find altogether: its flags, where it looks for the      *)
(* point, and what it returns, for any history of searches.                 *)
SearchExact == FlagsTracked /\ LocatedRight /\ ResultsRight

(* The walk goes downhill: with respect to the circle of the triangle it    *)
(* steps into, the power of the point (excess over denominator) is less, or *)
(* both triangles are on one circle.  So it comes back to no triangle,      *)
(* unless round triangles that all have one circle.                         *)
OneCircle(t, u) == \A k \in 0..2 : Excess(circles[t], mesh.points[mesh.triangles[u][k]]) = 0

Downhill(t, u) ==
  LET there == Excess(circles[u], p) * circles[t].denom
      here == Excess(circles[t], p) * circles[u].denom
  IN  there < here \/ (there = here /\ OneCircle(t, u))

WalkDescends == [][Walk /\ pc' = "walk" => Downhill(tid, tid')]_vars

(* The main cycle gets nearer to its end with every step: to each triangle  *)
(* not flagged or still on the stack belong a Pop and three lists at most,  *)
(* none longer than ntriangles.                                             *)
StepsLeft ==
  LET longest == ntriangles + 1
      pops == ntriangles - Len(flagids) + Len(t_in)
  IN  pops * (3 * longest + 1) + (3 - corner) * longest - entry

ExpansionEnds ==
  [][pc = "expand" /\ pc' = "expand" => 0 <= StepsLeft' /\ StepsLeft' < StepsLeft]_vars

(* What a search's end rests on: a walk that descends, a cycle of bounded   *)
(* length.                                                                  *)
SearchProgresses == WalkDescends /\ ExpansionEnds

(* "Finds all tricircles specified point belongs to" (delaunay.c): also    *)
(* for points outside the hull.                                            *)
AllCirclesFound ==
  pc = "found" =>
    {t \in Triangles : Excess(circles[t], p) < 0} \subseteq Range(t_out)

(* "Contains a deep copy of the input array of points" (delaunay.h): the   *)
(* points of d do not change when the caller writes into its array.        *)
DeepCopy == points = mesh.points

(* All circles with the point in their interior, for a point of the hull.  *)
(* A search that started from a circle the point is exactly on is left     *)
(* out: rounding may then accept this circle and refuse the same circle of *)
(* the triangles between it and the others.                                *)
AllOfHull ==
  InHull(p) /\ Excess(circles[first_id], p) # 0 =>
    {t \in Triangles : Excess(circles[t], p) < 0} \subseteq Range(t_out)

(* Every search ends, and with everything: the walk does not circle, no    *)
(* triangle comes back to the stack for ever, and from the triangle it     *)
(* started with a search reaches all the others over common corners.       *)
SearchReturns == pc = "seed" ~> pc = "found" /\ (first_id # -1 => AllOfHull)
=============================================================================
