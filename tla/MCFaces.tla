------------------------------ MODULE MCFaces -------------------------------
(* Instances for TLC of the two sides of a detection, which share no state: *)
(* the service that answers requests (FaceDetect), and what becomes of its  *)
(* answers, the features of two faces and the frames drawn with them        *)
(* (FaceFeatures).  A behaviour is one of one of them, while the other has  *)
(* not begun.                                                               *)
EXTENDS FaceDetect, FaceFeatures, TLC

CONSTANTS first, second, large, empty, skipped

VARIABLE part    \* which of them

(* Four requests, two of one size, one of another and one with an empty     *)
(* image, and one more whose image is nil.                                  *)
AllRequests == {first, second, large, empty, skipped}
Sizes == (first :> 1) @@ (second :> 1) @@ (large :> 2) @@ (empty :> 0) @@ (skipped :> 1)
Ignored == {skipped}
None == {}

(* Five photos of two faces.  A pixel is 240 units, so that means of 4, 5,  *)
(* 6 and 12 points, the two sizes and a half intensity divide exactly.      *)
PixelUnits == 240
FaceA == [v \in 0..67 |-> PixelUnits * (2 * ((v * v + 3) % 23))]
FaceB == [v \in 0..67 |-> PixelUnits * ((7 * v) % 31)]

TenPixels == 10 * PixelUnits
Photo(points, zoom, shift, face) ==
  [points |-> [v \in 0..67 |-> (points[v] * zoom) \div 2 + shift * PixelUnits],
   face |-> face * PixelUnits, image |-> 48 * PixelUnits]

(* Face A, the same at half the size, face A cut off at the left, face B,   *)
(* and face B too small for features.                                       *)
FivePhotos == {Photo(FaceA, 2, 1, 40), Photo(FaceA, 1, 9, 20), Photo(FaceA, 2, -6, 40),
               Photo(FaceB, 2, 4, 20), Photo(FaceB, 1, 0, 8)}

MCInit == DetectInit /\ FeaturesInit /\ part \in {"service", "features"}

MCNext ==
  /\ UNCHANGED part
  /\ \/ part = "service" /\ DetectNext /\ UNCHANGED featureVars
     \/ part = "features" /\ FeaturesNext /\ UNCHANGED detectVars

MCSpec ==
  /\ MCInit /\ [][MCNext]_<<detectVars, featureVars, part>>
  /\ WF_detectVars(part = "service" /\ DetectThread)

(* Types of both sides.                                                     *)
TypesOK == DetectTypeOK /\ FeaturesTypeOK
=============================================================================
