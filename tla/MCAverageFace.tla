--------------------------- MODULE MCAverageFace ---------------------------
(* Instances of AverageFace for TLC: two still pictures of different size. *)
EXTENDS AverageFace

Sizes == [p \in Pictures |-> IF p = "mine" THEN 1 ELSE 2]
Photos == {"mine", "model"}
None == {}

=============================================================================
