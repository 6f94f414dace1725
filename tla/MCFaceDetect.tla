---------------------------- MODULE MCFaceDetect ----------------------------
(* Instances of FaceDetect for TLC: four requests, two of one size, one of *)
(* another and one with an empty image, and one more whose image is nil.      *)
EXTENDS FaceDetect, TLC

CONSTANTS a, b, c, empty, skipped

AllRequests == {a, b, c, empty, skipped}
Sizes == (a :> 1) @@ (b :> 1) @@ (c :> 2) @@ (empty :> 0) @@ (skipped :> 1)
Photos == {a, b, c}
PhotoSizes == [r \in Photos |-> Sizes[r]]
Ignored == {skipped}
None == {}

=============================================================================
