----------------------------- MODULE MCDelaunay -----------------------------
(* Meshes for TLC: points and triangles are listed as triangulate() numbers *)
(* them, neighbours follow from them.                                       *)
EXTENDS Delaunay

Points(ps) == [v \in 0..(Len(ps) - 1) |-> [x |-> ps[v + 1][1], y |-> ps[v + 1][2]]]

Mesh(ps, ts) ==
  LET T == 0..(Len(ts) - 1)
      Side(t, k) == {ts[t + 1][Next3(k) + 1], ts[t + 1][Next3(Next3(k)) + 1]}
      Opposite(t, k) == {u \in T \ {t} : \E l \in 0..2 : Side(u, l) = Side(t, k)}
  IN  [points |-> Points(ps),
       triangles |-> [t \in T |-> [k \in 0..2 |-> ts[t + 1][k + 1]]],
       neighbours |-> [t \in T |-> [k \in 0..2 |->
          IF Opposite(t, k) = {} THEN -1 ELSE CHOOSE u \in Opposite(t, k) : TRUE]]]

(* 21 triangles, so that the neighbours are searched; point 3 has a         *)
(* duplicate, so triangulate() leaves it without a triangle.                *)
Large == Mesh(
  <<<<11, 7>>, <<1, 0>>, <<11, 13>>, <<6, 7>>, <<10, 7>>, <<5, 12>>, <<1, 9>>, <<12, 0>>,
    <<13, 9>>, <<7, 2>>, <<12, 2>>, <<0, 12>>, <<1, 1>>, <<2, 11>>, <<6, 7>>>>,
  <<<<12, 9, 14>>, <<9, 12, 1>>, <<12, 14, 6>>, <<1, 12, 11>>, <<11, 6, 13>>, <<6, 11, 12>>,
    <<13, 5, 11>>, <<13, 6, 14>>, <<14, 5, 13>>, <<11, 5, 2>>, <<14, 4, 5>>, <<9, 7, 10>>,
    <<7, 9, 1>>, <<10, 7, 8>>, <<9, 10, 4>>, <<4, 0, 8>>, <<0, 4, 10>>, <<8, 2, 4>>,
    <<0, 10, 8>>, <<2, 5, 4>>, <<4, 14, 9>>>>)

(* A grid, as the points around a face may form one: four points of every   *)
(* cell lie on one circle, and the hull has points on its sides.            *)
Grid == Mesh(
  [k \in 1..20 |-> <<1 + 3 * ((k - 1) \div 4), 4 * ((k - 1) % 4)>>],
  <<<<1, 0, 4>>, <<4, 8, 5>>, <<5, 8, 9>>, <<4, 5, 1>>, <<1, 5, 6>>, <<3, 2, 6>>,
    <<7, 6, 10>>, <<6, 2, 1>>, <<10, 6, 9>>, <<6, 7, 3>>, <<5, 9, 6>>, <<8, 12, 9>>,
    <<9, 13, 10>>, <<13, 9, 12>>, <<13, 16, 17>>, <<16, 13, 12>>, <<10, 13, 14>>, <<18, 13, 17>>,
    <<11, 14, 15>>, <<14, 11, 10>>, <<15, 18, 19>>, <<18, 15, 14>>, <<14, 13, 18>>, <<10, 11, 7>>>>)

(* Few triangles: the linear search.                                        *)
Small == Mesh(
  <<<<0, 9>>, <<3, 9>>, <<0, 7>>, <<1, 3>>, <<7, 10>>, <<1, 2>>>>,
  <<<<0, 2, 1>>, <<0, 1, 4>>, <<1, 2, 3>>, <<1, 3, 4>>, <<2, 5, 3>>, <<3, 5, 4>>>>)

MCMeshes == {Large, Grid, Small}

At(x, y) == [x |-> x, y |-> y]

(* In a triangle, on two circles' edges, a corner; outside the hull: within *)
(* and beyond the bounding box, and on no circle at all.                    *)
MCQueries == {At(2, 2), At(5, 8), At(2, 11), At(0, 2), At(-3, 5), At(14, 13), At(16, 15)}

=============================================================================
