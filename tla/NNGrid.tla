------------------------------- MODULE NNGrid -------------------------------
(* The point utilities of nncommon.c that work on an array of known length: *)
(* points_generate() lays out a grid, points_thingrid() merges the points   *)
(* of each cell of a grid into their mean, points_getrange() finds the      *)
(* bounds a caller left undefined, points_scaletosquare() and              *)
(* points_scale() rescale y.  A client calls them on its array one after    *)
(* another.                                                                 *)
(*                                                                          *)
(* Coordinates are integers over a common denominator (yden for y), so that *)
(* divisions are exact; the code's EPS, which undoes the rounding of a      *)
(* quotient next to an integer, has no counterpart.                         *)
EXTENDS Integers, Sequences, FiniteSets, FiniteSetsExt

CONSTANTS
  Arrays,   \* the arrays a client may start with: sequences of [x, y]
  Sizes,    \* grid sizes <<nx, ny>>
  Zooms,    \* zooms <<numerator, denominator>>, <<0, 1>> for NaN or less
  MaxCalls  \* bound: calls a client makes

ASSUME GridAssumption ==
  /\ Arrays \subseteq Seq([x : Int, y : Int])
  /\ \A s \in Sizes : s[1] \in Int /\ s[2] \in Int
  /\ \A z \in Zooms : z[1] \in Nat /\ z[2] \in Nat \ {0}
  /\ MaxCalls \in Nat

VARIABLES
  array, yden,  \* the client's array; its y coordinates are over yden
  laid,          \* sizes of the grid the array holds, <<0, 0>> if another array
  thin,          \* the call of points_thingrid that runs: sizes, ii, members and sums of each cell
  range,         \* result of the last points_getrange: [of, asked, zoom, over, lo, hi]
  square,        \* result of the last points_scaletosquare: [k, before, yden]
  calls          \* calls made

gridVars == <<array, yden, laid, thin, range, square, calls>>

Idle == [nx |-> 0, ny |-> 0, ii |-> 0, cells |-> <<>>, sums |-> <<>>]
Zero == [x |-> 0, y |-> 0]
NoRange == [of |-> <<>>, asked |-> {}, zoom |-> <<1, 1>>, over |-> 1, lo |-> Zero, hi |-> Zero]
NoSquare == [k |-> <<1, 1>>, before |-> <<>>, yden |-> 1]

GridInit ==
  /\ array \in Arrays /\ yden = 1 /\ laid = <<0, 0>>
  /\ thin = Idle /\ range = NoRange /\ square = NoSquare /\ calls = 0

Call == thin = Idle /\ calls < MaxCalls /\ calls' = calls + 1

Xs(ps) == {ps[v].x : v \in 1..Len(ps)}
Ys(ps) == {ps[v].y : v \in 1..Len(ps)}
Width(S) == Max(S) - Min(S)

-----------------------------------------------------------------------------
(* points_generate: x outwards from xmin in steps of (xmax-xmin)/(nx-1),    *)
(* rows likewise; one column or row lies in the middle.  The corners are    *)
(* far enough apart for the steps to be whole.                              *)
Along(lo, hi, count, k) ==
  IF count > 1 THEN lo + k * ((hi - lo) \div (count - 1)) ELSE (lo + hi) \div 2

Node(nx, ny, v) == [x |-> Along(0, 12, nx, (v - 1) % nx), y |-> Along(0, 12, ny, (v - 1) \div nx)]
Lattice(nx, ny) == [v \in 1..(nx * ny) |-> Node(nx, ny, v)]

Generate(nx, ny) ==
  /\ Call
  /\ array' = Lattice(nx, ny)
  /\ yden' = 1
  /\ laid' = <<nx, ny>>
  /\ square' = NoSquare
  /\ UNCHANGED <<thin, range>>

-----------------------------------------------------------------------------
(* points_thingrid, a step per point, then the means row by row.            *)

(* floor((c - min) / step), the last cell for the largest coordinate.       *)
CellNearest(c, S, count) ==  \* mutant: rint for floor
  IF count = 1 THEN 0
  ELSE LET k == (2 * (c - Min(S)) * count + Width(S)) \div (2 * Width(S)) IN IF k = count THEN k - 1 ELSE k
Cell(c, S, count) ==
  IF count = 1 THEN 0
  ELSE LET k == ((c - Min(S)) * count) \div Width(S) IN IF k = count THEN k - 1 ELSE k

CellOf(p) == Cell(p.x, Xs(array), thin.nx) + Cell(p.y, Ys(array), thin.ny) * thin.nx

(* With several columns (rows) the points must differ in x (in y): step is  *)
(* a divisor, and 0/0 converted to int is undefined.                        *)
ThinGrid(nx, ny) ==
  /\ Call
  /\ array # <<>> => (nx > 1 => Width(Xs(array)) > 0) /\ (ny > 1 => Width(Ys(array)) > 0)
  /\ LET index == 0..(nx * ny - 1)
     IN  thin' = [nx |-> nx, ny |-> ny, ii |-> 0,
                  cells |-> [c \in index |-> {}], sums |-> [c \in index |-> Zero]]
  /\ UNCHANGED <<array, yden, laid, range, square>>

(* A size below 1 empties the array at once.                                *)
ThinAway(nx, ny) ==
  /\ Call
  /\ nx < 1 \/ ny < 1
  /\ array' = <<>>
  /\ laid' = <<0, 0>>
  /\ square' = NoSquare
  /\ UNCHANGED <<yden, thin, range>>

AddToCell ==
  /\ thin # Idle /\ thin.ii < Len(array)
  /\ LET p == array[thin.ii + 1]
         index == CellOf(p)
     IN  thin' = [thin EXCEPT !.ii = @ + 1,
                              !.cells[index] = @ \cup {thin.ii + 1},
                              !.sums[index] = [x |-> @.x + p.x, y |-> @.y + p.y]]
  /\ UNCHANGED <<array, yden, laid, range, square, calls>>

(* The array becomes the means of the cells that have points, row by row;   *)
(* a mean is its sums and its count.  Bound: no call follows.               *)
Filled == {c \in DOMAIN thin.cells : thin.cells[c] # {}}
Nth(v) == CHOOSE c \in Filled : Cardinality({d \in Filled : d <= c}) = v

WriteMeans ==
  /\ thin # Idle /\ thin.ii = Len(array)
  /\ array' = [v \in 1..Cardinality(Filled) |->
                  [x |-> thin.sums[Nth(v)].x, y |-> thin.sums[Nth(v)].y, count |-> Cardinality(thin.cells[Nth(v)])]]
  /\ thin' = Idle
  /\ calls' = MaxCalls
  /\ UNCHANGED <<yden, laid, range, square>>

-----------------------------------------------------------------------------
(* points_getrange: only the bounds left NaN are computed, and the zoom     *)
(* applies to a direction both of whose bounds were; the result is over     *)
(* twice the zoom's denominator.  A bound that was given is given as 0.     *)
BoundsAroundGiven(S, min, max, zoom) ==  \* mutant: zooms with one bound given
  LET lo == IF min THEN Min(S) ELSE 0
      hi == IF max THEN Max(S) ELSE 0
  IN  <<(hi + lo) * zoom[2] - (hi - lo) * zoom[1], (hi + lo) * zoom[2] + (hi - lo) * zoom[1]>>
Bounds(S, min, max, zoom) ==
  LET lo == IF min THEN Min(S) ELSE 0
      hi == IF max THEN Max(S) ELSE 0
  IN  IF min /\ max /\ zoom[1] > 0
      THEN <<(hi + lo) * zoom[2] - (hi - lo) * zoom[1], (hi + lo) * zoom[2] + (hi - lo) * zoom[1]>>
      ELSE <<lo * 2 * zoom[2], hi * 2 * zoom[2]>>

GetRange(asked, zoom) ==
  /\ Call
  /\ array # <<>>
  /\ LET bx == Bounds(Xs(array), "xmin" \in asked, "xmax" \in asked, zoom)
         by == Bounds(Ys(array), "ymin" \in asked, "ymax" \in asked, zoom)
     IN  range' = [of |-> array, asked |-> asked, zoom |-> zoom, over |-> 2 * zoom[2],
                   lo |-> [x |-> bx[1], y |-> by[1]], hi |-> [x |-> bx[2], y |-> by[2]]]
  /\ UNCHANGED <<array, yden, laid, thin, square>>

-----------------------------------------------------------------------------
(* points_scaletosquare, which returns NaN for points on one line along an  *)
(* axis, and points_scale, which a client calls to undo it.  k is           *)
(* (ymax-ymin)/(xmax-xmin) as <<numerator, denominator>>.                   *)
MultiplyY(k) ==  \* mutant: y times k
  /\ array' = [v \in 1..Len(array) |-> [array[v] EXCEPT !.y = @ * k[1]]]
  /\ yden' = yden * k[2]
DivideY(k) ==
  /\ array' = [v \in 1..Len(array) |-> [array[v] EXCEPT !.y = @ * k[2]]]
  /\ yden' = yden * k[1]

ScaleToSquare ==
  /\ Call
  /\ square = NoSquare
  /\ array # <<>> /\ Width(Xs(array)) > 0 /\ Width(Ys(array)) > 0
  /\ LET k == <<Width(Ys(array)), Width(Xs(array)) * yden>>
     IN  DivideY(k) /\ square' = [k |-> k, before |-> array, yden |-> yden]
  /\ UNCHANGED <<laid, thin, range>>

ScaleBack ==
  /\ Call
  /\ square # NoSquare
  /\ DivideY(<<square.k[2], square.k[1]>>)
  /\ square' = NoSquare
  /\ UNCHANGED <<laid, thin, range>>

GridNext ==
  \/ \E s \in Sizes : s[1] > 0 /\ s[2] > 0 /\ (Generate(s[1], s[2]) \/ ThinGrid(s[1], s[2]))
  \/ \E s \in Sizes : ThinAway(s[1], s[2])
  \/ AddToCell \/ WriteMeans
  \/ \E asked \in SUBSET {"xmin", "xmax", "ymin", "ymax"}, zoom \in Zooms : GetRange(asked, zoom)
  \/ ScaleToSquare \/ ScaleBack

GridSpec == GridInit /\ [][GridNext]_gridVars

-----------------------------------------------------------------------------
(* Properties *)

GridTypeOK ==
  /\ \A v \in 1..Len(array) : array[v].x \in Int /\ array[v].y \in Int
  /\ yden \in Nat \ {0} /\ calls \in 0..MaxCalls
  /\ thin.ii \in 0..Len(array)
  /\ laid[1] * laid[2] > 0 => Len(array) <= laid[1] * laid[2]

(* The rectangle of a cell: its lower and left sides belong to it, its upper*)
(* and right ones only in the last row and column.                          *)
InCell(c, S, count, k) ==
  \/ count = 1
  \/ /\ (c - Min(S)) * count >= k * Width(S)
     /\ (c - Min(S)) * count < (k + 1) * Width(S) \/ (k = count - 1 /\ c = Max(S))

(* points_thingrid puts every point into exactly one cell of the nx by ny   *)
(* grid over the points' bounds, the one whose rectangle it lies in; the    *)
(* points of the largest x or y included, whose quotient is nx or ny.       *)
CellsPartition ==
  thin # Idle =>
    /\ DOMAIN thin.cells = 0..(thin.nx * thin.ny - 1)
    /\ \A v \in 1..thin.ii : Cardinality({c \in DOMAIN thin.cells : v \in thin.cells[c]}) = 1
    /\ \A c \in DOMAIN thin.cells : \A v \in thin.cells[c] :
         /\ InCell(array[v].x, Xs(array), thin.nx, c % thin.nx)
         /\ InCell(array[v].y, Ys(array), thin.ny, c \div thin.nx)

(* The steps of points_generate and of points_thingrid differ, a division   *)
(* by nx-1 and one by nx: still a generated grid thinned with its own sizes *)
(* keeps all its points, each alone in its cell and in their order.         *)
GridKept ==
  (thin # Idle /\ thin.ii = Len(array) /\ laid = <<thin.nx, thin.ny>>) =>
    \A c \in DOMAIN thin.cells : thin.cells[c] = {c + 1}

(* points_getrange with both bounds of a direction left to it and no zoom   *)
(* below 1 encloses every point, the points' extreme values equally far     *)
(* inside the two bounds; a bound the caller gave is returned as given,     *)
(* whatever the zoom.                                                       *)
RangeRight ==
  range # NoRange =>
    \A d \in {<<"x", "xmin", "xmax">>, <<"y", "ymin", "ymax">>} :
      LET S == {range.of[v][d[1]] * range.over : v \in 1..Len(range.of)}
          lo == range.lo[d[1]]
          hi == range.hi[d[1]]
      IN  /\ {d[2], d[3]} \subseteq range.asked =>
               /\ range.zoom[1] = 0 \/ range.zoom[1] >= range.zoom[2] => lo <= Min(S) /\ Max(S) <= hi
               /\ Min(S) - lo = hi - Max(S)
          /\ d[2] \notin range.asked => lo = 0
          /\ d[3] \notin range.asked => hi = 0

(* points_scaletosquare makes the points fill a square, and the returned k  *)
(* inverted gives points_scale() the way back to the same points.           *)
SquareAndBack ==
  [][/\ ScaleToSquare => Width(Ys(array')) = Width(Xs(array')) * yden'
     /\ ScaleBack => \A v \in 1..Len(array') : array'[v].y * square.yden = square.before[v].y * yden']_gridVars

(* What is to be divided by a cell's count is the sum over its own points   *)
(* and no others, of those looked at so far.                                *)
SumOver(ps, S, d) ==
  LET sum[v \in 0..Len(ps)] == IF v = 0 THEN 0 ELSE sum[v - 1] + (IF v \in S THEN ps[v][d] ELSE 0)
  IN  sum[Len(ps)]

SumsRight ==
  thin # Idle =>
    \A c \in DOMAIN thin.cells :
      thin.sums[c] = [x |-> SumOver(array, thin.cells[c], "x"), y |-> SumOver(array, thin.cells[c], "y")]

(* points_thingrid altogether: every point is counted and summed in its own *)
(* cell, and the grid points_generate lays is kept point by point.          *)
CellsRight == CellsPartition /\ SumsRight /\ GridKept
=============================================================================
