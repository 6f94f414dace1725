---------------------------- MODULE MCNNLibrary -----------------------------
(* Instances for TLC of the library under Delaunay/: the triangulation of   *)
(* delaunay.c, and the point utilities of nncommon.c in NNPoints and NNGrid.*)
(* They share no state: a behaviour is one of one of them, while the others *)
(* have not begun.                                                          *)
EXTENDS MCDelaunay, NNPoints, NNGrid

VARIABLE part    \* which of them

(* Rows of up to five points on four positions or NaN, and files of up to   *)
(* three lines, where an array of one entry doubles twice.                  *)
UpTo(k, S) == UNION {[1..l -> S] : l \in 0..k}
MCThins == [points : UpTo(5, {0, 1, 2, 4, NaN}), rmax : {0, 2}]

Line(comment, tokens) == [comment |-> comment, tokens |-> tokens]
MCLines == {Line(TRUE, <<1, 2, 3>>), Line(FALSE, <<>>), Line(FALSE, <<7>>), Line(FALSE, <<Bad, 8>>),
            Line(FALSE, <<4, Bad, 9>>), Line(FALSE, <<5, 6>>), Line(FALSE, <<1, 2, 3>>)}
MCReads == [lines : UpTo(3, MCLines), dim : {1, 2, 3}]
NoLines == [op |-> "read", lines |-> <<>>, dim |-> 2]

(* Two and three points on a small lattice, among them points on the sides  *)
(* of cells, and the empty array.                                           *)
MCLattice == [x : {0, 1, 3, 6}, y : {0, 2, 4}]
MCArrays == {<<>>} \cup [1..2 -> MCLattice] \cup {<<[x |-> 0, y |-> 0], a, b>> : a, b \in MCLattice}
MCSizes == {<<1, 1>>, <<2, 3>>, <<3, 2>>, <<4, 3>>, <<1, 4>>, <<0, 2>>, <<2, 0>>}
MCZooms == {<<0, 1>>, <<1, 2>>, <<1, 1>>, <<3, 2>>}

MCInit ==
  /\ part \in {"delaunay", "points", "grid"}
  /\ \/ part = "delaunay" /\ DelaunayInit
     \/ part # "delaunay" /\ mesh = Small /\ touching = {} /\ DelaunayInit
  /\ \/ part = "points" /\ PointsInit
     \/ part # "points" /\ call = NoLines /\ PointsInit
  /\ \/ part = "grid" /\ GridInit
     \/ part # "grid" /\ array = <<>> /\ GridInit

MCNext ==
  /\ UNCHANGED part
  /\ \/ part = "delaunay" /\ DelaunayNext /\ UNCHANGED <<pointsVars, gridVars>>
     \/ part = "points" /\ PointsNext /\ UNCHANGED <<vars, gridVars>>
     \/ part = "grid" /\ GridNext /\ UNCHANGED <<vars, pointsVars>>

MCSpec == MCInit /\ [][MCNext]_<<vars, pointsVars, gridVars, part>> /\ WF_vars(part = "delaunay" /\ Find)

(* Types of all three; a search tests existing triangles only, and a cell   *)
(* or a cluster is made of existing points.                                 *)
TypesOK == DelaunayTypeOK /\ PointsTypeOK /\ GridTypeOK
=============================================================================
