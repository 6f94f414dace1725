---------------------------- MODULE FaceFeatures ----------------------------
(* What a frame is computed from: the landmarks of the two faces, the eight *)
(* feature groups DLibFaceFeatureItem extracts from them, their rescaling   *)
(* by normalizePhotos, and the points newFrameReadyAtTime1 moves.  Only x   *)
(* is followed; y takes the same way with the heights.  Lengths are         *)
(* integers fine enough to be divided exactly, where the code has floats.   *)
EXTENDS Integers, Sequences

CONSTANTS
  Photos,     \* [points : the detector's 68 landmarks, face : width of the face, image : width]
  NoPhoto,    \* no item yet
  TinyFace,   \* 10.0f, below which no features are extracted
  Pixel,      \* 1.0f
  IntensitySteps       \* shapeIntensity goes from 0 to Steps, for 0.0 to 1.0

ASSUME FeaturesAssumption ==
  /\ IntensitySteps \in Nat \ {0} /\ TinyFace \in Nat \ {0} /\ Pixel \in Int
  /\ \A p \in Photos : p.points \in [0..67 -> Int] /\ p.face \in Nat \ {0} /\ p.image \in Int
  /\ NoPhoto \notin Photos

VARIABLES
  item,       \* the photo each feature item was made from
  features,   \* its groups
  blended,    \* the filter's own groups: mine, rescaled
  normalized, \* blended was made from the items as they are now
  np_list,    \* the points of the frame being drawn, freed after it
  frame       \* what it was drawn with: intensity, photos, and whether all was in place

featureVars == <<item, features, blended, normalized, np_list, frame>>

Run(a, b) == [i \in 1..(b - a + 1) |-> a + i - 1]
Vids == [le |-> Run(36, 41), re |-> Run(42, 47), leb |-> Run(17, 21), reb |-> Run(22, 26),
         nu |-> Run(27, 30), nd |-> Run(31, 35),
         mu |-> Run(48, 54) \o Run(60, 64), md |-> Run(54, 59) \o <<48>> \o Run(64, 67) \o <<60>>]
Groups == DOMAIN Vids
MouthReversed == <<"le", "leb", "re", "reb", "nu", "nd", "md", "mu">>  \* mutant of ApplyOrder
ApplyOrder == <<"le", "leb", "re", "reb", "nu", "nd", "mu", "md">>

Roles == {"mine", "model"}
Empty == [point |-> 0, list |-> <<>>]
NoFeatures == [g \in Groups |-> Empty]
NoPoints == [v \in 0..70 |-> 0]
NoFrame == [k |-> 0, mine |-> NoPhoto, model |-> NoPhoto, complete |-> FALSE]

Freed == np_list' = NoPoints /\ frame' = NoFrame

FeaturesInit ==
  /\ item = [r \in Roles |-> NoPhoto] /\ features = [r \in Roles |-> NoFeatures]
  /\ blended = NoFeatures /\ normalized = FALSE
  /\ np_list = NoPoints /\ frame = NoFrame

-----------------------------------------------------------------------------
(* The 71 key points: the detector's and three on the forehead.             *)
KeyPoints(photo) ==
  LET p == photo.points
      brow == (p[19] + p[24]) \div 2
  IN  [v \in 0..70 |-> CASE v = 68 -> brow
                         [] v = 69 -> 2 * brow - p[27]
                         [] v = 70 -> 2 * brow - p[30]
                         [] OTHER  -> p[v]]

Sums(s) ==
  LET sum[i \in 0..Len(s)] == IF i = 0 THEN 0 ELSE sum[i - 1] + s[i]
  IN  sum

MeanOfPoints(s) == Sums(s)[Len(s)] \div Len(s)

GroupPoints(photo, g) == [i \in 1..Len(Vids[g]) |-> KeyPoints(photo)[Vids[g][i]]]

(* Lengths that are fine enough: the divisions of the code come out even.   *)
ASSUME ExactAssumption ==
  \A p, q \in Photos : \A g \in Groups :
    p.face >= TinyFace /\ q.face >= TinyFace =>
      LET mine == GroupPoints(p, g)
          model == GroupPoints(q, g)
      IN  /\ Sums(mine)[Len(mine)] % Len(mine) = 0
          /\ \A i \in 1..Len(mine) :
               LET length == (mine[i] - MeanOfPoints(mine)) * q.face
               IN  /\ length % p.face = 0
                   /\ (length \div p.face - (model[i] - MeanOfPoints(model))) % IntensitySteps = 0

(* Mutant of ExtractFeatures: one vector short.                             *)
ExtractShort(photo) ==
  [g \in Groups |->
    LET pb == GroupPoints(photo, g)
    IN  IF photo.face < TinyFace THEN Empty
        ELSE [point |-> MeanOfPoints(pb), list |-> [i \in 1..Len(pb) - 1 |-> pb[i] - MeanOfPoints(pb)]]]

ExtractFeatures(photo) ==
  [g \in Groups |->
    LET pb == GroupPoints(photo, g)
    IN  IF photo.face < TinyFace THEN Empty
        ELSE [point |-> MeanOfPoints(pb), list |-> [i \in 1..Len(pb) |-> pb[i] - MeanOfPoints(pb)]]]

(* The completion block of a detection: a new item, its features extracted. *)
DetectFeatures(r, photo) ==
  /\ item' = [item EXCEPT ![r] = photo]
  /\ features' = [features EXCEPT ![r] = ExtractFeatures(photo)]
  /\ normalized' = FALSE
  /\ Freed /\ UNCHANGED blended

(* An item that was encoded and decoded has its landmarks and no features.  *)
Decode(r) ==
  /\ item[r] # NoPhoto
  /\ features' = [features EXCEPT ![r] = NoFeatures]
  /\ normalized' = FALSE
  /\ Freed /\ UNCHANGED <<item, blended>>

Extract(r) ==
  /\ item[r] # NoPhoto
  /\ features' = [features EXCEPT ![r] = IF item[r].face < TinyFace THEN @ ELSE ExtractFeatures(item[r])]
  /\ normalized' = FALSE
  /\ Freed /\ UNCHANGED <<item, blended>>

-----------------------------------------------------------------------------
ScaledBack(x) == (x * item["mine"].face) \div item["model"].face  \* mutant of Scaled
Scaled(x) == (x * item["model"].face) \div item["mine"].face

NormalizeFeature(f) == [point |-> Scaled(f.point), list |-> [i \in DOMAIN f.list |-> Scaled(f.list[i])]]

NormalizePhotos ==
  /\ \A r \in Roles : item[r] # NoPhoto
  /\ blended' = [g \in Groups |-> NormalizeFeature(features["mine"][g])]
  /\ normalized' = TRUE
  /\ Freed /\ UNCHANGED <<item, features>>

Clamped(x, top) == IF x < 0 THEN 0 ELSE IF x > top THEN top ELSE x
TextureCoordinate(photo) ==
  [v \in 0..70 |-> Clamped(KeyPoints(photo)[v], photo.image - Pixel)]

(* The vector of a group that was never filled in is zero.                  *)
Vector(f, i) == IF i \in DOMAIN f.list THEN f.list[i] ELSE 0

ApplyFeatures(np, g, k) ==
  LET model == features["model"][g]
      At(i) == model.point + model.list[i]
                 + (k * (Vector(blended[g], i) - model.list[i])) \div IntensitySteps
  IN  [v \in 0..70 |-> IF \E i \in DOMAIN model.list : Vids[g][i] = v
                       THEN At(CHOOSE i \in DOMAIN model.list : Vids[g][i] = v)
                       ELSE np[v]]

(* newFrameReadyAtTime1, as far as the points it draws go: the model's, and *)
(* what each call of ApplyFeatures makes of what the one before left.       *)
Applied(k) ==
  LET points[j \in 0..Len(ApplyOrder)] ==
        IF j = 0 THEN TextureCoordinate(item["model"])
        ELSE ApplyFeatures(points[j - 1], ApplyOrder[j], k)
  IN  points

DrawFrame(k) ==
  /\ \A r \in Roles : item[r] # NoPhoto
  /\ np_list' = Applied(k)[Len(ApplyOrder)]
  /\ frame' = [k |-> k, mine |-> item["mine"], model |-> item["model"],
                complete |-> normalized /\ \A r \in Roles : features[r] # NoFeatures]
  /\ UNCHANGED <<item, features, blended, normalized>>

FeaturesNext ==
  \/ \E r \in Roles : (\E photo \in Photos : DetectFeatures(r, photo)) \/ Decode(r) \/ Extract(r)
  \/ NormalizePhotos
  \/ \E k \in 0..IntensitySteps : DrawFrame(k)

FeaturesSpec == FeaturesInit /\ [][FeaturesNext]_featureVars

-----------------------------------------------------------------------------
(* Properties *)

FeaturesTypeOK ==
  /\ item \in [Roles -> Photos \cup {NoPhoto}]
  /\ \A g \in Groups : \A f \in {features["mine"][g], features["model"][g], blended[g]} :
       f.point \in Int /\ Len(f.list) \in {0, Len(Vids[g])}
  /\ normalized \in BOOLEAN
  /\ \A v \in 0..70 : np_list[v] \in Int
  /\ frame.k \in 0..IntensitySteps /\ frame.complete \in BOOLEAN

Grouped == UNION {{Vids[g][i] : i \in DOMAIN Vids[g]} : g \in Groups}

(* Intensity 0 shows the model as it is: every landmark is where it was     *)
(* found, whatever mean, vectors, tables and the order of the groups did to *)
(* it.  One outside the picture and outside the groups is moved to its edge.*)
NeutralFrame ==
  frame.complete /\ frame.k = 0 =>
    \A v \in 0..70 :
      np_list[v] = IF v \in Grouped THEN KeyPoints(frame.model)[v]
                   ELSE Clamped(KeyPoints(frame.model)[v], frame.model.image - Pixel)

(* The same face at another size and place in the picture changes nothing,  *)
(* at any intensity: what normalizePhotos is for.                           *)
Similar(p, q) ==
  \A v \in 1..67 : (p.points[v] - p.points[0]) * q.face = (q.points[v] - q.points[0]) * p.face
SameFaceUnchanged ==
  frame.complete /\ Similar(frame.mine, frame.model) =>
    \A v \in Grouped : np_list[v] = KeyPoints(frame.model)[v]

(* At full intensity a group has the shape it has in my face, in the size   *)
(* of the model's: eyes, brows, nose, and the lower half of the mouth,      *)
(* which shares its four corners with the upper half and is drawn last.     *)
ShapeTaken ==
  frame.complete /\ frame.k = IntensitySteps =>
    \A g \in Groups \ {"mu"} : \A i, j \in DOMAIN Vids[g] :
      (np_list[Vids[g][i]] - np_list[Vids[g][j]]) * frame.mine.face
        = (frame.mine.points[Vids[g][i]] - frame.mine.points[Vids[g][j]]) * frame.model.face

(* And at every intensity these groups stay where they are in the model:    *)
(* their centre does not move.                                              *)
GroupsCentred ==
  frame.complete =>
    \A g \in Groups \ {"mu"} :
      MeanOfPoints([i \in DOMAIN Vids[g] |-> np_list[Vids[g][i]]])
        = MeanOfPoints([i \in DOMAIN Vids[g] |-> KeyPoints(frame.model)[Vids[g][i]]])

(* What normalizing must bring about, the face's own size and place in the  *)
(* picture cancelled and every group around its own centre; and what the    *)
(* intensity must, at its two ends.                                         *)
NormalizedRight == SameFaceUnchanged /\ GroupsCentred
FramesRight == NeutralFrame /\ ShapeTaken
=============================================================================
