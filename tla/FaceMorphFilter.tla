-------------------------- MODULE FaceMorphFilter --------------------------
(***************************************************************************)
(* FaceMorphFilter: a two-input GPUImage filter.  A frame has to arrive on *)
(* each of its inputs before it renders; rendering triangulates the two    *)
(* faces, blends the eight feature groups and draws.                       *)
(*                                                                         *)
(* Three threads touch the filter.  The video processing queue delivers    *)
(* frames and renders; the face detection queue sets the feature items and *)
(* runs normalizePhotos; the main thread sets the two intensities.  A      *)
(* frame is therefore built in several steps, and every read of state that *)
(* another thread may write is a step of its own.                          *)
(***************************************************************************)
EXTENDS Integers, Sequences

CONSTANTS
  Intensities,       \* values a slider can take
  DefaultIntensity,  \* 0.5f
  FrameTimes,        \* definite frame times
  Indefinite,        \* kCMTimeIndefinite, the time of a still picture
  Invalid,           \* the time of an input that has had no frame yet
  MovieInputs,       \* inputs fed by a movie; the others get still pictures
  CheckDisabled,     \* inputs whose frame check the superclass has disabled
  MaxLocks           \* bound of the model: locks left behind, or owed, per input

ASSUME FilterAssumption ==
  /\ DefaultIntensity \in Intensities
  /\ Indefinite # Invalid
  /\ Indefinite \notin FrameTimes
  /\ Invalid \notin FrameTimes
  /\ MovieInputs \subseteq {0, 1}
  /\ CheckDisabled \subseteq {0, 1}
  /\ MaxLocks \in Nat

Inputs == {0, 1}                      \* texture index: 0 first, 1 second
Times(i) == IF i \in MovieInputs THEN FrameTimes ELSE {Indefinite}

(* The eight groups, in the order normalizePhotos rescales them and in the *)
(* order a frame applies them.                                             *)
NormalizeOrder == <<"le", "re", "leb", "reb", "nu", "nd", "mu", "md">>
ApplyOrder == <<"le", "leb", "re", "reb", "nu", "nd", "mu", "md">>
Groups == {"le", "re", "leb", "reb", "nu", "nd", "mu", "md"}

(* "nil": no item.  "tiny": an item whose face rectangle is below 10x10,   *)
(* so that extractFaceFeatures returned early and its feature lists are    *)
(* empty.  "face": an item with features.                                  *)
Items == {"nil", "tiny", "face"}

(* A group of _features_xx: never filled in, copied from the other face,   *)
(* or copied and rescaled to this face.                                    *)
MorphStates == {"zero", "raw", "scaled"}

(* maskImage: not set, made from a nil UIImage, or made from a face shape. *)
Masks == {"none", "empty", "built"}

(* What a frame was drawn from.  "unmoved" stands for a group that was not *)
(* blended at all because the model face has no features.                  *)
Frames == [shapes : SUBSET Intensities, morphs : SUBSET (MorphStates \cup {"unmoved"}),
           skin : Intensities, mask : Masks, time : FrameTimes \cup {Indefinite, Invalid}]
NoFrame == [shapes |-> {}, morphs |-> {}, skin |-> DefaultIntensity,
            mask |-> "none", time |-> Invalid]

VARIABLES
  received,          \* hasReceivedFirstFrame, hasReceivedSecondFrame
  frameTime,         \* firstFrameTime, secondFrameTime
  locks,             \* locks the filter holds on the current framebuffer of
                     \* an input (firstInputFramebuffer, secondInputFramebuffer)
  left,              \* locks left behind on framebuffers that were replaced
  stage,             \* where the rendering thread is inside the filter
  applied,           \* groups already applied to the frame being built
  frame,             \* the frame being built
  shown,             \* the last frame the targets (the view) were given
  skin,              \* skinIntensity
  shape,             \* shapeIntensity
  faceFeatureMine,
  faceFeatureModel,
  morph,             \* _features_le ... _features_md
  normalized,        \* groups normalizePhotos has finished
  maskImage,
  preventRendering

pairing == <<received, frameTime, locks, left>>
building == <<stage, applied, frame, shown>>
intensities == <<skin, shape>>
items == <<faceFeatureMine, faceFeatureModel>>
normalizing == <<morph, normalized>>
config == <<intensities, items, normalizing, maskImage, preventRendering>>
filterVars == <<pairing, building, config>>

Stages == {"idle", "triangulate", "apply", "draw", "inform", "crashed"}

FilterInit ==
  /\ received = [i \in Inputs |-> FALSE]
  /\ frameTime = [i \in Inputs |-> Invalid]
  /\ locks = [i \in Inputs |-> 0] /\ left = [i \in Inputs |-> 0]
  /\ stage = "idle"
  /\ applied = 0
  /\ frame = NoFrame
  /\ shown = NoFrame
  /\ skin = DefaultIntensity
  /\ shape = DefaultIntensity
  /\ faceFeatureMine = "nil"
  /\ faceFeatureModel = "nil"
  /\ morph = [g \in Groups |-> "zero"]
  /\ normalized = Len(NormalizeOrder)
  /\ maskImage = "none"
  /\ preventRendering = FALSE

-----------------------------------------------------------------------------
(* Pairing of the inputs: newFrameReadyAtTime:atIndex:                     *)

(* Mutant of Marked: no input waits for the other one.                     *)
MarkBoth(i) == [j \in Inputs |-> TRUE]

(* The flags after a frame on input i.  An input whose check is disabled   *)
(* counts as received together with the other one.                         *)
Marked(i) ==
  [received EXCEPT ![i] = TRUE, ![1 - i] = @ \/ (1 - i) \in CheckDisabled]

(* A movie frame against a still picture does not wait for the picture.    *)
MovieOppositeStill(t, i) == t # Indefinite /\ frameTime[1 - i] = Indefinite

FirstInputTime(times) == times[0]                       \* mutant of PassOnTime
PassOnTime(times) == IF times[0] # Indefinite THEN times[0] ELSE times[1]

(* The new framebuffer is locked when it is handed over, and takes the     *)
(* place of the one before, whose lock is then out of reach.  The flags    *)
(* decide whether a frame is built now.  When both are still set the       *)
(* delivery is short-circuited: only the lock is left of it.               *)
NewFrameReady(t, i) ==
  LET open  == ~(received[0] /\ received[1])
      times == [frameTime EXCEPT ![i] = t]
      ready == (Marked(i)[0] /\ Marked(i)[1]) \/ MovieOppositeStill(t, i)
  IN  /\ stage = "idle"
      /\ locks' = [locks EXCEPT ![i] = 1]
      /\ left' = [left EXCEPT ![i] = IF locks[i] > 0 THEN @ + locks[i] ELSE @]
      /\ received' = IF open THEN Marked(i) ELSE received
      /\ frameTime' = IF open THEN times ELSE frameTime
      /\ stage' = IF open /\ ready THEN "triangulate" ELSE stage
      /\ frame' = IF open /\ ready THEN [NoFrame EXCEPT !.time = PassOnTime(times)]
                                   ELSE frame
      /\ UNCHANGED <<applied, shown, config>>

-----------------------------------------------------------------------------
(* Building a frame: newFrameReadyAtTime1:atIndex:                         *)

(* Both faces' key points are read through [item keyPointsRef]->..., which *)
(* dereferences NULL when the item is nil.                                 *)
Triangulate ==
  /\ stage = "triangulate"
  /\ stage' = IF "nil" \in {faceFeatureModel, faceFeatureMine} THEN "crashed" ELSE "apply"
  /\ UNCHANGED <<pairing, applied, frame, shown, config>>

(* One ApplyFeatures call: it reads _shapeIntensity for its argument and   *)
(* the group's blended features; its loop runs over the model's features.  *)
ApplyFeatures ==
  LET g == ApplyOrder[applied + 1]
      m == IF faceFeatureModel = "tiny" THEN "unmoved" ELSE morph[g]
  IN  /\ stage = "apply"
      /\ frame' = [frame EXCEPT !.shapes = @ \cup {shape}, !.morphs = @ \cup {m}]
      /\ applied' = applied + 1
      /\ stage' = IF applied' = Len(ApplyOrder) THEN "draw" ELSE stage
      /\ UNCHANGED <<pairing, shown, config>>

UnlockFirst(i) == IF i = 0 THEN locks[i] - 1 ELSE locks[i]    \* mutant of Unlocked

(* Unlocking the framebuffer of input i.  An input that never had a frame   *)
(* has a nil framebuffer, which ignores the message.                       *)
Unlocked(i) == IF frameTime[i] = Invalid THEN locks[i] ELSE locks[i] - 1

(* The mask and the skin intensity are read for the draw call, after which *)
(* each input framebuffer is unlocked once.                                *)
RenderToTexture ==
  /\ stage = "draw"
  /\ ~preventRendering
  /\ frame' = [frame EXCEPT !.skin = skin, !.mask = maskImage]
  /\ locks' = [i \in Inputs |-> Unlocked(i)]
  /\ stage' = "inform"
  /\ UNCHANGED <<received, frameTime, left, applied, shown, config>>

(* The early return of renderToTexture: nothing is drawn, the output       *)
(* framebuffer stays that of the last draw, and only the first input is    *)
(* unlocked.                                                               *)
SkipRendering ==
  /\ stage = "draw"
  /\ preventRendering
  /\ frame' = [shown EXCEPT !.time = frame.time]
  /\ locks' = [locks EXCEPT ![0] = Unlocked(0)]
  /\ stage' = "inform"
  /\ UNCHANGED <<received, frameTime, left, applied, shown, config>>

(* The targets are told about the output framebuffer; back in the caller   *)
(* the flags are reset.                                                    *)
Inform(flags, count) ==
  /\ stage = "inform"
  /\ shown' = frame
  /\ frame' = NoFrame
  /\ applied' = count
  /\ received' = flags
  /\ stage' = "idle"
  /\ UNCHANGED <<frameTime, locks, left, config>>

NoFlags == [i \in Inputs |-> FALSE]

(* Mutants of InformTargets: the loop over the groups would not start      *)
(* afresh; the flags are not reset.                                        *)
KeepApplied == Inform(NoFlags, applied)

InformTargets == Inform(NoFlags, 0)

BuildFrame ==
  \/ Triangulate \/ ApplyFeatures \/ RenderToTexture \/ SkipRendering \/ InformTargets

-----------------------------------------------------------------------------
(* Configuration of the filter by the other threads.                       *)

SetSkinIntensity(v) ==
  /\ skin' = v
  /\ UNCHANGED <<pairing, building, shape, items, normalizing, maskImage, preventRendering>>

SetShapeIntensity(v) ==
  /\ shape' = v
  /\ UNCHANGED <<pairing, building, skin, items, normalizing, maskImage, preventRendering>>

SetFaceFeatureMine(x) ==
  /\ faceFeatureMine' = x
  /\ UNCHANGED <<pairing, building, intensities, faceFeatureModel, normalizing, maskImage, preventRendering>>

(* The model face is set and normalizePhotos starts over all the groups.   *)
SetFaceFeatureModel(x) ==
  /\ faceFeatureModel' = x
  /\ normalized' = 0
  /\ UNCHANGED <<pairing, building, intensities, faceFeatureMine, morph, maskImage, preventRendering>>

SetMaskImage(m) ==
  /\ maskImage' = m
  /\ UNCHANGED <<pairing, building, intensities, items, normalizing, preventRendering>>

(* normalizePhotos, one group at a time: the other face's features are     *)
(* copied, then rescaled in place.  An item without features leaves the    *)
(* group empty and there is nothing to rescale.                            *)
CopyFeatures ==
  LET g == NormalizeOrder[normalized + 1]
  IN  /\ normalized < Len(NormalizeOrder)
      /\ morph[g] # "raw"
      /\ IF faceFeatureMine = "face"
         THEN morph' = [morph EXCEPT ![g] = "raw"] /\ UNCHANGED normalized
         ELSE morph' = [morph EXCEPT ![g] = "zero"] /\ normalized' = normalized + 1
      /\ UNCHANGED <<pairing, building, intensities, items, maskImage, preventRendering>>

NormalizeFeature ==
  LET g == NormalizeOrder[normalized + 1]
  IN  /\ normalized < Len(NormalizeOrder)
      /\ morph[g] = "raw"
      /\ morph' = [morph EXCEPT ![g] = "scaled"]
      /\ normalized' = normalized + 1
      /\ UNCHANGED <<pairing, building, intensities, items, maskImage, preventRendering>>

NormalizePhotos == CopyFeatures \/ NormalizeFeature

-----------------------------------------------------------------------------
(* The filter in an arbitrary graph: any input may get a frame whenever    *)
(* the rendering thread is outside the filter, and both feature items have *)
(* been set before.  This drives the pairing of the inputs alone; in the   *)
(* application AverageFace drives it.                                      *)

SetPreventRendering(b) ==
  /\ preventRendering' = b
  /\ UNCHANGED <<pairing, building, intensities, items, normalizing, maskImage>>

WithinLocks == \A i \in Inputs : left[i] < MaxLocks /\ locks[i] > -MaxLocks

FilterNext ==
  \/ WithinLocks /\ \E i \in Inputs : \E t \in Times(i) : NewFrameReady(t, i)
  \/ BuildFrame
  \/ \E v \in Intensities : SetSkinIntensity(v) \/ SetShapeIntensity(v)
  \/ \E b \in BOOLEAN : SetPreventRendering(b)

ReadyInit ==
  /\ received = [i \in Inputs |-> FALSE]
  /\ frameTime = [i \in Inputs |-> Invalid]
  /\ locks = [i \in Inputs |-> 0] /\ left = [i \in Inputs |-> 0]
  /\ stage = "idle" /\ applied = 0 /\ frame = NoFrame /\ shown = NoFrame
  /\ skin = DefaultIntensity /\ shape = DefaultIntensity
  /\ faceFeatureMine = "face" /\ faceFeatureModel = "face"
  /\ morph = [g \in Groups |-> "scaled"]
  /\ normalized = Len(NormalizeOrder)
  /\ maskImage = "built"
  /\ preventRendering = FALSE

FilterSpec == ReadyInit /\ [][FilterNext]_filterVars

-----------------------------------------------------------------------------
(* Properties.                                                             *)

(* Every variable keeps its type, and nothing is left over from the frame  *)
(* before when one is started.                                             *)
FilterTypeOK ==
  /\ received \in [Inputs -> BOOLEAN]
  /\ frameTime \in [Inputs -> FrameTimes \cup {Indefinite, Invalid}]
  /\ locks \in [Inputs -> Int] /\ left \in [Inputs -> Nat]
  /\ stage \in Stages
  /\ applied \in 0 .. Len(ApplyOrder)
  /\ frame \in Frames /\ shown \in Frames
  /\ stage \in {"idle", "triangulate"} => applied = 0
  /\ skin \in Intensities /\ shape \in Intensities
  /\ faceFeatureMine \in Items /\ faceFeatureModel \in Items
  /\ morph \in [Groups -> MorphStates]
  /\ normalized \in 0 .. Len(NormalizeOrder)
  /\ maskImage \in Masks
  /\ preventRendering \in BOOLEAN

(* A framebuffer is only unlocked as often as it was locked (GPUImage      *)
(* recycles a framebuffer whose lock count reaches zero, and asserts that  *)
(* it never falls below).  With two pictures, and for a movie's frames,    *)
(* the pairing guarantees it; a still picture opposite a movie is unlocked *)
(* once per movie frame, so it is left out, as are inputs whose check is   *)
(* disabled.                                                               *)
Balanced(i) == CheckDisabled = {} /\ (MovieInputs = {} \/ i \in MovieInputs)

NoOverRelease ==
  \A i \in Inputs : Balanced(i) =>
    /\ locks[i] >= 0
    /\ stage = "draw" => locks[i] >= 1

(* The short circuit at the top of newFrameReadyAtTime drops a frame but   *)
(* keeps its lock; it is never taken, because both flags are reset         *)
(* before control leaves the filter.                                       *)
ShortCircuitUnused == stage = "idle" => ~(received[0] /\ received[1])

(* What the comment at the call of newFrameReadyAtTime1 is after: a frame  *)
(* made while some input has a definite time is stamped with a definite    *)
(* time, and always with the time of an input that had a frame.            *)
DefiniteTimeKept ==
  (stage \in {"triangulate", "apply", "draw"} /\ CheckDisabled = {}) =>
    /\ frame.time \in {frameTime[0], frameTime[1]} \ {Invalid}
    /\ frame.time = Indefinite => frameTime = [i \in Inputs |-> Indefinite]

=============================================================================
