-------------------------- MODULE AverageFaceProofs --------------------------
(***************************************************************************)
(* The filter on its own, for all intensities and frame times, any choice  *)
(* of movie inputs and disabled checks, and any bound on locks; then the   *)
(* invariants of the whole application, for any set of intensities, any    *)
(* image sizes and any number of slider movements.  Its inductive          *)
(* invariant joins those of the filter and of the detection service with   *)
(* the discipline of the video queue and with the order in which the       *)
(* completion blocks configure the filter.                                 *)
(***************************************************************************)
EXTENDS AverageFace, FaceDetectProofs, FiniteSetTheorems

-----------------------------------------------------------------------------
(* The filter.                                                             *)

(* What the pairing of the inputs maintains between frames: an input that  *)
(* waits has had a frame and holds its lock; an input has a time of its    *)
(* own kind; both flags are only set while a frame is built.               *)
HeldLocks ==
  \A i \in Inputs : Balanced(i) =>
    /\ locks[i] >= 0
    /\ received[i] /\ stage # "inform" => locks[i] >= 1
    /\ stage \in {"triangulate", "apply", "draw"} => locks[i] >= 1

OwnTimes ==
  /\ \A i \in Inputs : frameTime[i] \in Times(i) \cup {Invalid}
  /\ CheckDisabled = {} => \A i \in Inputs : received[i] => frameTime[i] # Invalid

ApplyingGroup == stage = "apply" => applied < Len(ApplyOrder)

FilterInv ==
  /\ FilterTypeOK
  /\ ApplyingGroup
  /\ OwnTimes
  /\ HeldLocks
  /\ ShortCircuitUnused
  /\ DefiniteTimeKept

-----------------------------------------------------------------------------

LEMMA ApplyOrderGroups ==
  /\ Len(ApplyOrder) = 8
  /\ \A k \in 1 .. 8 : ApplyOrder[k] \in Groups
BY DEF ApplyOrder, Groups

LEMMA NormalizeOrderGroups ==
  /\ Len(NormalizeOrder) = 8
  /\ \A k \in 1 .. 8 : NormalizeOrder[k] \in Groups
BY DEF NormalizeOrder, Groups

LEMMA NoFrameType == NoFrame \in Frames
BY FilterAssumption DEF NoFrame, Frames, Masks

LEMMA FilterInitInv == ReadyInit => FilterInv
<1>1. ASSUME ReadyInit PROVE FilterTypeOK
  <2>1. /\ received \in [Inputs -> BOOLEAN]
        /\ frameTime \in [Inputs -> FrameTimes \cup {Indefinite, Invalid}]
        /\ locks \in [Inputs -> Int] /\ left \in [Inputs -> Nat]
        /\ morph \in [Groups -> MorphStates]
    BY <1>1 DEF ReadyInit, MorphStates
  <2>2. applied \in 0 .. Len(ApplyOrder) /\ normalized \in 0 .. Len(NormalizeOrder)
    BY <1>1, ApplyOrderGroups, NormalizeOrderGroups DEF ReadyInit
  <2>3. /\ stage \in Stages /\ (stage \in {"idle", "triangulate"} => applied = 0)
        /\ faceFeatureMine \in Items /\ faceFeatureModel \in Items
        /\ maskImage \in Masks
    BY <1>1 DEF ReadyInit, Stages, Items, Masks
  <2>4. frame \in Frames /\ shown \in Frames /\ skin \in Intensities
        /\ shape \in Intensities /\ preventRendering \in BOOLEAN
    BY <1>1, NoFrameType, FilterAssumption DEF ReadyInit
  <2> QED BY <2>1, <2>2, <2>3, <2>4 DEF FilterTypeOK
<1>2. ASSUME ReadyInit PROVE ApplyingGroup /\ OwnTimes /\ HeldLocks /\ ShortCircuitUnused
                             /\ DefiniteTimeKept
  BY <1>2 DEF ReadyInit, ApplyingGroup, OwnTimes, HeldLocks, ShortCircuitUnused,
              DefiniteTimeKept, Inputs
<1> QED BY <1>1, <1>2 DEF FilterInv

(* A frame arrives.                                                        *)
LEMMA NewFrameReadyInv ==
  ASSUME FilterInv, NEW i \in Inputs, NEW t \in Times(i), NewFrameReady(t, i)
  PROVE  FilterInv'
<1> USE DEF FilterInv
<1>0. /\ i \in {0, 1} /\ 1 - i \in {0, 1} /\ Inputs = {0, 1}
      /\ t \in FrameTimes \cup {Indefinite} /\ t # Invalid
  BY FilterAssumption DEF Inputs, Times
<1>1. stage = "idle" /\ ~(received[0] /\ received[1])
  BY DEF NewFrameReady, ShortCircuitUnused
<1> DEFINE times == [frameTime EXCEPT ![i] = t]
           ready == (Marked(i)[0] /\ Marked(i)[1]) \/ MovieOppositeStill(t, i)
<1>2. /\ locks' = [locks EXCEPT ![i] = 1]
      /\ left' = [left EXCEPT ![i] = IF locks[i] > 0 THEN @ + locks[i] ELSE @]
      /\ received' = Marked(i)
      /\ frameTime' = times
      /\ stage' = IF ready THEN "triangulate" ELSE stage
      /\ frame' = IF ready THEN [NoFrame EXCEPT !.time = PassOnTime(times)] ELSE frame
      /\ UNCHANGED <<applied, shown, config>>
  BY <1>1 DEF NewFrameReady
<1>3. /\ times \in [Inputs -> FrameTimes \cup {Indefinite, Invalid}]
      /\ Marked(i) \in [Inputs -> BOOLEAN]
      /\ PassOnTime(times) \in FrameTimes \cup {Indefinite, Invalid}
  BY <1>0 DEF FilterTypeOK, Marked, PassOnTime
<1>4. FilterTypeOK'
  <2>1. frame' \in Frames
    BY <1>2, <1>3, NoFrameType DEF Frames, FilterTypeOK
  <2>2. stage' \in {"idle", "triangulate"} /\ applied' = 0
    BY <1>1, <1>2 DEF FilterTypeOK
  <2>3. locks' \in [Inputs -> Int] /\ left' \in [Inputs -> Nat]
    BY <1>2 DEF FilterTypeOK
  <2> QED BY <1>0, <1>2, <1>3, <2>1, <2>2, <2>3
          DEF FilterTypeOK, config, intensities, items, normalizing, Stages
<1>5. ApplyingGroup'
  BY <1>1, <1>2 DEF ApplyingGroup
<1>6. OwnTimes'
  BY <1>0, <1>2 DEF OwnTimes, Marked, FilterTypeOK
<1>7. HeldLocks'
  <2> SUFFICES ASSUME NEW j \in Inputs, Balanced(j)
               PROVE  /\ locks'[j] >= 0
                      /\ received'[j] /\ stage' # "inform" => locks'[j] >= 1
                      /\ stage' \in {"triangulate", "apply", "draw"} => locks'[j] >= 1
    BY DEF HeldLocks, Balanced
  <2>1. locks[j] \in Int /\ locks[j] >= 0
    BY DEF HeldLocks, FilterTypeOK
  <2>2. CASE j = i
    BY <1>0, <1>2, <2>1, <2>2 DEF FilterTypeOK
  <2>3. CASE j # i
    <3>1. locks'[j] = locks[j] /\ j = 1 - i
      BY <1>0, <1>2, <2>3 DEF FilterTypeOK
    <3>2. received'[j] = received[j]
      BY <1>0, <1>2, <3>1 DEF Marked, Balanced, FilterTypeOK
    <3>3. received[j] => locks[j] >= 1
      BY <1>1 DEF HeldLocks
    <3>4. ~MovieOppositeStill(t, i)
      <4> SUFFICES ASSUME t # Indefinite, frameTime[1 - i] = Indefinite PROVE FALSE
        BY DEF MovieOppositeStill
      <4>1. i \in MovieInputs
        BY DEF Times
      <4>2. j \in MovieInputs
        BY <4>1 DEF Balanced
      <4> QED BY <3>1, <4>2, FilterAssumption DEF OwnTimes, Times
    <3>5. ready => received'[j]
      BY <1>0, <1>2, <3>1, <3>4
    <3> QED BY <1>1, <1>2, <2>1, <3>1, <3>2, <3>3, <3>5
  <2> QED BY <2>2, <2>3
<1>8. ShortCircuitUnused'
  BY <1>2 DEF ShortCircuitUnused
<1>9. DefiniteTimeKept'
  <2> SUFFICES ASSUME CheckDisabled = {}, ready
               PROVE  /\ frame'.time \in {frameTime'[0], frameTime'[1]} \ {Invalid}
                      /\ frame'.time = Indefinite => frameTime' = [k \in Inputs |-> Indefinite]
    BY <1>1, <1>2 DEF DefiniteTimeKept
  <2>1. frame'.time = PassOnTime(times)
    BY <1>2, NoFrameType DEF Frames
  <2>2. times[i] = t /\ times[1 - i] = frameTime[1 - i]
    BY <1>0 DEF FilterTypeOK
  <2>3. CASE Marked(i)[0] /\ Marked(i)[1]
    <3>1. received[1 - i]
      BY <1>0, <2>3 DEF Marked, FilterTypeOK
    <3>2. times[0] # Invalid /\ times[1] # Invalid
      BY <1>0, <2>2, <3>1 DEF OwnTimes
    <3> QED BY <1>0, <1>2, <1>3, <2>1, <3>2 DEF PassOnTime
  <2>4. CASE MovieOppositeStill(t, i)
    BY <1>0, <1>2, <2>1, <2>2, <2>4, FilterAssumption DEF PassOnTime, MovieOppositeStill
  <2> QED BY <2>3, <2>4
<1> QED BY <1>4, <1>5, <1>6, <1>7, <1>8, <1>9

(* The steps of building a frame.                                          *)
LEMMA BuildFrameInv == FilterInv /\ BuildFrame => FilterInv'
<1> SUFFICES ASSUME FilterInv, BuildFrame PROVE FilterInv'
  OBVIOUS
<1> USE DEF FilterInv
<1>1. CASE Triangulate
  <2>1. FilterTypeOK'
    BY <1>1 DEF Triangulate, FilterTypeOK, pairing, config, intensities, items, normalizing, Stages
  <2>2. ApplyingGroup'
    BY <1>1, ApplyOrderGroups DEF Triangulate, ApplyingGroup, FilterTypeOK
  <2>3. OwnTimes' /\ HeldLocks' /\ ShortCircuitUnused' /\ DefiniteTimeKept'
    BY <1>1 DEF Triangulate, OwnTimes, HeldLocks, Balanced, ShortCircuitUnused,
                DefiniteTimeKept, pairing
  <2> QED BY <2>1, <2>2, <2>3
<1>2. CASE ApplyFeatures
  <2> DEFINE g == ApplyOrder[applied + 1]
             m == IF faceFeatureModel = "tiny" THEN "unmoved" ELSE morph[g]
  <2>1. /\ stage = "apply"
        /\ frame' = [frame EXCEPT !.shapes = @ \cup {shape}, !.morphs = @ \cup {m}]
        /\ applied' = applied + 1
        /\ stage' = IF applied' = Len(ApplyOrder) THEN "draw" ELSE stage
        /\ UNCHANGED <<pairing, shown, config>>
    BY <1>2 DEF ApplyFeatures
  <2>2. applied \in 0 .. 7 /\ g \in Groups
    BY <2>1, ApplyOrderGroups DEF ApplyingGroup, FilterTypeOK
  <2>3. m \in MorphStates \cup {"unmoved"} /\ shape \in Intensities
    BY <2>2 DEF FilterTypeOK
  <2>4. frame' \in Frames /\ frame'.time = frame.time
    BY <2>1, <2>3 DEF FilterTypeOK, Frames
  <2>5. FilterTypeOK' /\ ApplyingGroup'
    BY <2>1, <2>2, <2>4, ApplyOrderGroups
       DEF FilterTypeOK, ApplyingGroup, pairing, config, intensities, items, normalizing, Stages
  <2>6. OwnTimes' /\ HeldLocks' /\ ShortCircuitUnused' /\ DefiniteTimeKept'
    BY <2>1, <2>4 DEF OwnTimes, HeldLocks, Balanced, ShortCircuitUnused,
                DefiniteTimeKept, pairing
  <2> QED BY <2>5, <2>6
<1>3. CASE RenderToTexture
  <2>1. FilterTypeOK'
    <3>1. frame' \in Frames
      BY <1>3 DEF RenderToTexture, FilterTypeOK, Frames
    <3>2. locks' \in [Inputs -> Int]
      BY <1>3 DEF RenderToTexture, FilterTypeOK, Unlocked
    <3> QED BY <1>3, <3>1, <3>2
            DEF RenderToTexture, FilterTypeOK, config, intensities, items, normalizing, Stages
  <2>2. HeldLocks'
    BY <1>3 DEF RenderToTexture, HeldLocks, Balanced, Unlocked, FilterTypeOK
  <2>3. ApplyingGroup' /\ OwnTimes' /\ ShortCircuitUnused' /\ DefiniteTimeKept'
    BY <1>3 DEF RenderToTexture, ApplyingGroup, OwnTimes, ShortCircuitUnused,
                DefiniteTimeKept
  <2> QED BY <2>1, <2>2, <2>3
<1>4. CASE SkipRendering
  <2>1. FilterTypeOK'
    <3>1. frame' \in Frames
      BY <1>4 DEF SkipRendering, FilterTypeOK, Frames
    <3>2. locks' \in [Inputs -> Int]
      BY <1>4 DEF SkipRendering, FilterTypeOK, Unlocked, Inputs
    <3> QED BY <1>4, <3>1, <3>2
            DEF SkipRendering, FilterTypeOK, config, intensities, items, normalizing, Stages
  <2>2. HeldLocks'
    BY <1>4 DEF SkipRendering, HeldLocks, Balanced, Unlocked, FilterTypeOK
  <2>3. ApplyingGroup' /\ OwnTimes' /\ ShortCircuitUnused' /\ DefiniteTimeKept'
    BY <1>4 DEF SkipRendering, ApplyingGroup, OwnTimes, ShortCircuitUnused,
                DefiniteTimeKept
  <2> QED BY <2>1, <2>2, <2>3
<1>5. CASE InformTargets
  <2>1. FilterTypeOK'
    BY <1>5, NoFrameType, ApplyOrderGroups
       DEF InformTargets, Inform, NoFlags, FilterTypeOK, config, intensities, items, normalizing, Stages
  <2>2. HeldLocks' /\ OwnTimes'
    BY <1>5 DEF InformTargets, Inform, NoFlags, HeldLocks, Balanced, OwnTimes
  <2>3. ApplyingGroup' /\ ShortCircuitUnused' /\ DefiniteTimeKept'
    BY <1>5 DEF InformTargets, Inform, NoFlags, ApplyingGroup, ShortCircuitUnused, DefiniteTimeKept, Inputs
  <2> QED BY <2>1, <2>2, <2>3
<1> QED BY <1>1, <1>2, <1>3, <1>4, <1>5 DEF BuildFrame

(* The setters touch nothing the pairing depends on.                       *)
LEMMA SettersInv ==
  ASSUME FilterInv,
         \/ \E v \in Intensities : SetSkinIntensity(v) \/ SetShapeIntensity(v)
         \/ \E b \in BOOLEAN : SetPreventRendering(b)
         \/ UNCHANGED filterVars
  PROVE  FilterInv'
<1>1. UNCHANGED <<pairing, building, items, normalizing, maskImage>>
  BY DEF SetSkinIntensity, SetShapeIntensity, SetPreventRendering, filterVars, config
<1>2. skin' \in Intensities /\ shape' \in Intensities /\ preventRendering' \in BOOLEAN
  BY DEF SetSkinIntensity, SetShapeIntensity, SetPreventRendering, filterVars, config, intensities,
         FilterInv, FilterTypeOK
<1>3. FilterTypeOK'
  BY <1>1, <1>2 DEF FilterInv, FilterTypeOK, pairing, building, items, normalizing
<1>4. ApplyingGroup' /\ OwnTimes' /\ HeldLocks' /\ ShortCircuitUnused' /\ DefiniteTimeKept'
  BY <1>1 DEF FilterInv, ApplyingGroup, OwnTimes, HeldLocks, Balanced, ShortCircuitUnused,
              DefiniteTimeKept, pairing, building
<1> QED BY <1>3, <1>4 DEF FilterInv

LEMMA FilterStepInv == FilterInv /\ [FilterNext]_filterVars => FilterInv'
<1> SUFFICES ASSUME FilterInv, [FilterNext]_filterVars PROVE FilterInv'
  OBVIOUS
<1>1. CASE \E i \in Inputs : \E t \in Times(i) : NewFrameReady(t, i)
  BY <1>1, NewFrameReadyInv
<1>2. CASE BuildFrame
  BY <1>2, BuildFrameInv
<1>3. CASE \/ \E v \in Intensities : SetSkinIntensity(v) \/ SetShapeIntensity(v)
           \/ \E b \in BOOLEAN : SetPreventRendering(b)
           \/ UNCHANGED filterVars
  BY <1>3, SettersInv
<1> QED BY <1>1, <1>2, <1>3 DEF FilterNext

-----------------------------------------------------------------------------
(* Theorems.                                                               *)

LEMMA FilterInvariant == FilterSpec => []FilterInv
BY FilterInitInv, FilterStepInv, PTL DEF FilterSpec

(* Every variable of the filter keeps its type, whatever order the frames  *)
(* and the setters come in.                                                *)
THEOREM FilterTypeCorrect == FilterSpec => []FilterTypeOK
<1>1. FilterInv => FilterTypeOK
  BY DEF FilterInv
<1> QED BY <1>1, FilterInvariant, PTL

(* A framebuffer of a balanced input is never unlocked more often than it  *)
(* was locked, however many frames come and however they interleave.       *)
THEOREM NeverOverReleased == FilterSpec => []NoOverRelease
<1>1. FilterInv => NoOverRelease
  BY DEF FilterInv, HeldLocks, NoOverRelease
<1> QED BY <1>1, FilterInvariant, PTL

(* newFrameReadyAtTime never drops a frame by its short circuit.           *)
THEOREM ShortCircuitNeverTaken == FilterSpec => []ShortCircuitUnused
<1>1. FilterInv => ShortCircuitUnused
  BY DEF FilterInv
<1> QED BY <1>1, FilterInvariant, PTL

(* A frame is stamped with a definite time when an input has one.          *)
THEOREM FrameTimeKept == FilterSpec => []DefiniteTimeKept
<1>1. FilterInv => DefiniteTimeKept
  BY DEF FilterInv
<1> QED BY <1>1, FilterInvariant, PTL

-----------------------------------------------------------------------------
(* The application.                                                        *)

AppTypes ==
  /\ mainPC \in {"viewWillAppear", "idle"} \cup {RenderPC[p] : p \in Pictures}
                \cup {QueuePC[p] : p \in Pictures}
  /\ moves \in 0 .. MaxMoves
  /\ completionPC \in {"none", "requestModel", "requested", "normalize"}
  /\ missed \in BOOLEAN /\ discarded \in BOOLEAN

VideoInv == VideoTypeOK /\ SemaphoreDiscipline

(* A frame is only under construction while a delivery waits for it.       *)
StageInDelivery ==
  /\ stage # "idle" => videoPC = "signal"
  /\ stage = "idle" => frame = NoFrame
  /\ ~preventRendering

(* In the application no input is a movie and no check is disabled: a      *)
(* frame is built when both inputs wait, with one lock each.               *)
PairedLocks ==
  /\ stage # "inform" => \A i \in Inputs : locks[i] = IF received[i] THEN 1 ELSE 0
  /\ stage = "inform" => \A i \in Inputs : locks[i] = 0
  /\ stage \in {"triangulate", "apply", "draw"} => received[0] /\ received[1]

(* The completion blocks: the first item is in place before the second     *)
(* request is made, both and all the groups before the mask is dispatched. *)
MaskComing == Queued("mask") \/ videoBlock = "mask" \/ maskImage # "none"

ConfigurationOrder ==
  /\ completionPC \in {"requestModel", "requested"} => detectPC["mine"] = "completion"
  /\ completionPC \in {"requestModel", "requested"} \/ detectPC["mine"] = "done"
       => faceFeatureMine = answer["mine"]
  /\ completionPC = "requestModel" => detectPC["model"] = "new"
  /\ detectPC["model"] # "new" => completionPC = "requested" \/ detectPC["mine"] = "done"
  /\ completionPC = "normalize" => detectPC["model"] = "completion"
  /\ completionPC = "normalize" \/ detectPC["model"] = "done"
       => faceFeatureModel = answer["model"]
  /\ detectPC["model"] = "done" => normalized = Len(NormalizeOrder)
  /\ MaskComing => detectPC["model"] = "done"

(* What normalizePhotos leaves in a group, and how far it has come.        *)
Target == IF faceFeatureMine = "face" THEN "scaled" ELSE "zero"

NormalizedPrefix ==
  /\ completionPC = "normalize" \/ detectPC["model"] = "done"
       => \A k \in 1 .. normalized : morph[NormalizeOrder[k]] = Target
  /\ \A g \in Groups :
       morph[g] = "raw" => completionPC = "normalize" /\ faceFeatureMine = "face"

(* With the mask installed all the groups of a frame are blended alike.    *)
Blend == IF faceFeatureModel = "tiny" THEN "unmoved" ELSE Target

UniformFrames ==
  /\ stage \in {"draw", "inform"} => applied > 0
  /\ maskImage # "none" => /\ frame.morphs \subseteq {Blend}
                           /\ applied > 0 => frame.morphs # {}
  /\ frame.mask # "none" => maskImage # "none" /\ applied > 0
  /\ shown.mask # "none" => maskImage # "none" /\ shown.morphs = {Blend}

AppInv ==
  /\ FilterInv /\ DetectInv /\ VideoInv /\ AppTypes
  /\ StageInDelivery
  /\ PairedLocks
  /\ ConfigurationOrder
  /\ NormalizedPrefix
  /\ UniformFrames

LEMMA RequestIds == Requests = {"mine", "model"} /\ "mine" \in Requests /\ "model" \in Requests
BY AverageFaceAssumption DEF Pictures

-----------------------------------------------------------------------------
(* The video queue alone.                                                  *)

LEMMA AppendedQueue ==
  ASSUME VideoTypeOK, NEW b \in Blocks, videoQueue' = Append(videoQueue, b)
  PROVE  /\ Len(videoQueue) \in Nat /\ Len(videoQueue') = Len(videoQueue) + 1
         /\ \A k \in 1 .. Len(videoQueue) : videoQueue'[k] = videoQueue[k]
         /\ videoQueue'[Len(videoQueue) + 1] = b
         /\ videoQueue' \in Seq(Blocks)
         /\ \A c : Queued(c)' <=> Queued(c) \/ c = b
<1>1. /\ Len(videoQueue) \in Nat /\ Len(videoQueue') = Len(videoQueue) + 1
      /\ \A k \in 1 .. Len(videoQueue) : videoQueue'[k] = videoQueue[k]
      /\ videoQueue'[Len(videoQueue) + 1] = b
      /\ videoQueue' \in Seq(Blocks)
  BY DEF VideoTypeOK
<1> QED BY <1>1 DEF Queued

(* Steps that leave the video queue alone, and do not begin or end handing *)
(* over a block.                                                           *)
SameHanding == \A p \in Pictures : Handing(p)' <=> Handing(p)

LEMMA OneHanding ==
  ASSUME NEW p \in Pictures, NEW q \in Pictures, Handing(p), Handing(q)
  PROVE  p = q
BY DEF Handing, QueuePC, Pictures

(* The semaphore is taken, then the block is queued.                       *)
LEMMA RenderPictureVideo ==
  ASSUME VideoInv, NEW p \in Pictures, RenderPicture(p)
  PROVE  VideoInv'
<1> USE DEF VideoInv
<1>1. /\ mainPC = RenderPC[p] /\ mainPC' = QueuePC[p] /\ imageFree[p]
      /\ imageFree' = [imageFree EXCEPT ![p] = FALSE]
      /\ UNCHANGED <<videoQueue, videoBlock, videoPC, delivering>>
  BY DEF RenderPicture, TakeSemaphore
<1>2. \A q \in Pictures : ~Handing(q) /\ (Handing(q)' <=> q = p)
  BY <1>1 DEF Handing, RenderPC, QueuePC, Pictures
<1>3. \A c : Queued(c)' <=> Queued(c)
  BY <1>1 DEF Queued
<1>4. VideoTypeOK'
  BY <1>1 DEF VideoTypeOK
<1>5. ~Queued(p) /\ delivering # p
  BY <1>1 DEF SemaphoreDiscipline
<1>6. \A q \in Pictures : imageFree'[q] <=> ~Queued(q)' /\ delivering' # q /\ ~Handing(q)'
  BY <1>1, <1>2, <1>3, <1>5 DEF SemaphoreDiscipline, VideoTypeOK
<1>7. \A q \in Pictures : Handing(q)' => ~Queued(q)' /\ delivering' # q
  BY <1>1, <1>2, <1>3, <1>5
<1>8. /\ \A j, k \in 1 .. Len(videoQueue') : videoQueue'[j] = videoQueue'[k] => j = k
      /\ delivering' # "none" => ~Queued(delivering)'
  BY <1>1, <1>3 DEF SemaphoreDiscipline
<1> QED BY <1>4, <1>6, <1>7, <1>8 DEF SemaphoreDiscipline

LEMMA QueuePictureVideo ==
  ASSUME VideoInv, NEW p \in Pictures, QueuePicture(p)
  PROVE  VideoInv' /\ (Queued("mask")' <=> Queued("mask"))
<1> USE DEF VideoInv
<1>1. /\ videoQueue' = Append(videoQueue, p)
      /\ UNCHANGED <<videoBlock, videoPC, delivering, imageFree>>
      /\ mainPC = QueuePC[p] /\ mainPC' = AfterRender(p)
  BY DEF QueuePicture, RunOnVideoQueue
<1>2. p \in Blocks /\ p # "mask"
  BY DEF Blocks, Pictures
<1>3. \A q \in Pictures : ~Handing(q)' /\ (Handing(q) <=> q = p)
  BY <1>1 DEF Handing, QueuePC, AfterRender, Pictures
<1>4. ~Queued(p) /\ delivering # p /\ ~imageFree[p]
  BY <1>3 DEF SemaphoreDiscipline
<1>5. VideoTypeOK'
  BY <1>1, <1>2, AppendedQueue DEF VideoTypeOK
<1>6. \A q \in Pictures : imageFree'[q] <=> ~Queued(q)' /\ delivering' # q /\ ~Handing(q)'
  BY <1>1, <1>2, <1>3, <1>4, AppendedQueue DEF SemaphoreDiscipline
<1>7. \A j, k \in 1 .. Len(videoQueue') : videoQueue'[j] = videoQueue'[k] => j = k
  BY <1>1, <1>2, <1>4, AppendedQueue DEF SemaphoreDiscipline, Queued
<1>8. delivering' # "none" => ~Queued(delivering)'
  BY <1>1, <1>2, <1>4, AppendedQueue DEF SemaphoreDiscipline
<1>9. Queued("mask")' <=> Queued("mask")
  BY <1>1, <1>2, AppendedQueue
<1> QED BY <1>3, <1>5, <1>6, <1>7, <1>8, <1>9 DEF SemaphoreDiscipline

LEMMA EnqueueMaskVideo ==
  ASSUME VideoInv, ~Queued("mask"), RunOnVideoQueue("mask"), UNCHANGED <<imageFree, mainPC>>
  PROVE  VideoInv'
<1> USE DEF VideoInv
<1>1. /\ videoQueue' = Append(videoQueue, "mask")
      /\ UNCHANGED <<videoBlock, videoPC, delivering, imageFree>>
      /\ "mask" \in Blocks /\ "mask" \notin Pictures /\ "mask" # "none"
  BY DEF RunOnVideoQueue, Blocks, Pictures
<1>0. SameHanding
  BY DEF SameHanding, Handing
<1>2. VideoTypeOK'
  BY <1>1, AppendedQueue DEF VideoTypeOK
<1>3. \A q \in Pictures :
        /\ imageFree'[q] <=> ~Queued(q)' /\ delivering' # q /\ ~Handing(q)'
        /\ Handing(q)' => ~Queued(q)' /\ delivering' # q
  BY <1>0, <1>1, AppendedQueue DEF SemaphoreDiscipline, SameHanding
<1>4. \A j, k \in 1 .. Len(videoQueue') : videoQueue'[j] = videoQueue'[k] => j = k
  BY <1>1, AppendedQueue DEF SemaphoreDiscipline, Queued
<1>5. delivering' # "none" => ~Queued(delivering)'
  BY <1>1, AppendedQueue DEF SemaphoreDiscipline, VideoTypeOK
<1> QED BY <1>2, <1>3, <1>4, <1>5 DEF SemaphoreDiscipline

LEMMA StartBlockVideo ==
  ASSUME VideoInv, StartBlock, SameHanding
  PROVE  /\ VideoInv'
         /\ Queued("mask")' \/ videoBlock' = "mask" <=> Queued("mask") \/ videoBlock = "mask"
<1> USE DEF VideoInv
<1>1. PICK b \in Blocks : b = Head(videoQueue)
  BY DEF StartBlock, VideoTypeOK
<1>2. /\ videoQueue' = Tail(videoQueue) /\ videoBlock' = b
      /\ videoPC' = IF b = "mask" THEN "setMask" ELSE "deliver"
      /\ delivering' = IF b = "mask" THEN "none" ELSE b
      /\ videoPC = "wait" /\ videoBlock = "none" /\ delivering = "none"
      /\ UNCHANGED imageFree
  BY <1>1 DEF StartBlock, VideoTypeOK
<1>3. /\ Len(videoQueue) \in Nat \ {0} /\ Len(videoQueue') = Len(videoQueue) - 1
      /\ \A k \in 1 .. Len(videoQueue) - 1 : videoQueue'[k] = videoQueue[k + 1]
      /\ videoQueue[1] = b
      /\ videoQueue' \in Seq(Blocks)
  BY <1>1 DEF StartBlock, VideoTypeOK
<1>4. ~Queued(b)'
  BY <1>3 DEF SemaphoreDiscipline, Queued
<1>5. ASSUME NEW c, c # b PROVE Queued(c)' <=> Queued(c)
  <2>1. ASSUME NEW k \in 1 .. Len(videoQueue), videoQueue[k] = c
        PROVE  k - 1 \in 1 .. Len(videoQueue') /\ videoQueue'[k - 1] = c
    BY <1>3, <1>5, <2>1
  <2>2. ASSUME NEW k \in 1 .. Len(videoQueue'), videoQueue'[k] = c
        PROVE  k + 1 \in 1 .. Len(videoQueue) /\ videoQueue[k + 1] = c
    BY <1>3, <2>2
  <2> QED BY <2>1, <2>2 DEF Queued
<1>6. Queued(b)
  BY <1>3 DEF Queued
<1>7. VideoTypeOK'
  BY <1>2, <1>3 DEF VideoTypeOK, Blocks, Pictures
<1>8. \A q \in Pictures :
        /\ imageFree'[q] <=> ~Queued(q)' /\ delivering' # q /\ ~Handing(q)'
        /\ Handing(q)' => ~Queued(q)' /\ delivering' # q
  BY <1>2, <1>4, <1>5, <1>6 DEF SemaphoreDiscipline, SameHanding, Pictures
<1>9. \A j, k \in 1 .. Len(videoQueue') : videoQueue'[j] = videoQueue'[k] => j = k
  BY <1>3 DEF SemaphoreDiscipline
<1>10. delivering' # "none" => ~Queued(delivering)'
  BY <1>2, <1>4
<1>11. Queued("mask")' \/ videoBlock' = "mask" <=> Queued("mask") \/ videoBlock = "mask"
  BY <1>2, <1>4, <1>5, <1>6
<1> QED BY <1>7, <1>8, <1>9, <1>10, <1>11 DEF SemaphoreDiscipline

(* The steps that leave the queue alone.                                   *)
LEMMA InBlockVideo ==
  ASSUME VideoInv, SameHanding,
         \/ \E p \in Pictures : ProcessPictureInline(p)
         \/ DeliverPicture
         \/ SignalPicture
         \/ /\ videoPC = "setMask" /\ videoPC' = "processMine"
            /\ UNCHANGED <<videoQueue, videoBlock, delivering, imageFree>>
         \/ UNCHANGED videoVars
  PROVE  /\ VideoInv'
         /\ UNCHANGED videoQueue
         /\ videoBlock' = "mask" => videoBlock = "mask"
<1> USE DEF VideoInv
<1>1. UNCHANGED videoQueue
  BY DEF ProcessPictureInline, DeliverPicture, SignalPicture, videoVars
<1>2. \A c : Queued(c)' <=> Queued(c)
  BY <1>1 DEF Queued
<1>3. CASE \E p \in Pictures : ProcessPictureInline(p)
  <2>1. PICK p \in Pictures : ProcessPictureInline(p)
    BY <1>3
  <2>2. VideoTypeOK'
    BY <2>1 DEF ProcessPictureInline, TakeSemaphore, Proceed, AfterPicture, VideoTypeOK,
                Pictures
  <2>3. /\ \A q \in Pictures :
             /\ imageFree'[q] <=> ~Queued(q) /\ delivering' # q /\ ~Handing(q)
             /\ Handing(q) => ~Queued(q) /\ delivering' # q
        /\ delivering' # "none" => ~Queued(delivering')
    BY <2>1 DEF ProcessPictureInline, TakeSemaphore, Proceed, VideoTypeOK,
                SemaphoreDiscipline, Pictures
  <2> QED BY <1>1, <1>2, <2>1, <2>2, <2>3
          DEF SemaphoreDiscipline, SameHanding, ProcessPictureInline, Proceed, Queued
<1>4. CASE DeliverPicture
  BY <1>1, <1>2, <1>4 DEF DeliverPicture, VideoTypeOK, SemaphoreDiscipline, SameHanding, Queued
<1>5. CASE SignalPicture
  <2>1. delivering \in Pictures
    BY <1>5 DEF SignalPicture, VideoTypeOK
  <2>2. VideoTypeOK'
    BY <1>5, <2>1 DEF SignalPicture, Proceed, AfterPicture, VideoTypeOK, Pictures
  <2>3. /\ \A q \in Pictures :
             /\ imageFree'[q] <=> ~Queued(q) /\ delivering' # q /\ ~Handing(q)
             /\ Handing(q) => ~Queued(q) /\ delivering' # q
        /\ delivering' = "none"
    BY <1>5, <2>1 DEF SignalPicture, Proceed, VideoTypeOK, SemaphoreDiscipline, Pictures
  <2> QED BY <1>1, <1>2, <1>5, <2>2, <2>3
          DEF SemaphoreDiscipline, SameHanding, SignalPicture, Proceed, Queued
<1>6. CASE \/ /\ videoPC = "setMask" /\ videoPC' = "processMine"
              /\ UNCHANGED <<videoQueue, videoBlock, delivering, imageFree>>
           \/ UNCHANGED videoVars
  BY <1>6 DEF videoVars, VideoTypeOK, SemaphoreDiscipline, SameHanding, Queued
<1> QED BY <1>3, <1>4, <1>5, <1>6

-----------------------------------------------------------------------------
(* The filter's setters.                                                   *)

LEMMA ConfigureFilterInv ==
  ASSUME FilterInv,
         UNCHANGED <<pairing, building, preventRendering>>,
         skin' \in Intensities, shape' \in Intensities,
         faceFeatureMine' \in Items, faceFeatureModel' \in Items,
         morph' \in [Groups -> MorphStates], normalized' \in 0 .. Len(NormalizeOrder),
         maskImage' \in Masks
  PROVE  FilterInv'
<1>1. FilterTypeOK'
  BY DEF FilterInv, FilterTypeOK, pairing, building
<1>2. ApplyingGroup' /\ OwnTimes' /\ HeldLocks' /\ ShortCircuitUnused' /\ DefiniteTimeKept'
  BY DEF FilterInv, ApplyingGroup, OwnTimes, HeldLocks, Balanced, ShortCircuitUnused,
         DefiniteTimeKept, pairing, building
<1> QED BY <1>1, <1>2 DEF FilterInv

LEMMA MarkedAlone ==
  ASSUME FilterTypeOK, CheckDisabled = {}, NEW i \in Inputs
  PROVE  Marked(i) = [received EXCEPT ![i] = TRUE]
<1>1. PICK o \in Inputs : o = 1 - i /\ o # i
  BY DEF Inputs
<1>2. received \in [Inputs -> BOOLEAN] /\ (received[o] \/ o \in CheckDisabled) = received[o]
  BY DEF FilterTypeOK
<1>3. Marked(i) = [received EXCEPT ![i] = TRUE, ![o] = received[o] \/ o \in CheckDisabled]
  BY <1>1, <1>2 DEF Marked
<1> QED BY <1>1, <1>2, <1>3

LEMMA FilterUnchangedInv == FilterInv /\ UNCHANGED filterVars => FilterInv'
BY SettersInv

-----------------------------------------------------------------------------
(* The initial state and the steps of the main thread.                     *)

LEMMA AppInitInv == Init => AppInv
<1> SUFFICES ASSUME Init PROVE AppInv
  OBVIOUS
<1> USE DEF Init
<1>1. FilterTypeOK
  <2>1. /\ received \in [Inputs -> BOOLEAN]
        /\ frameTime \in [Inputs -> FrameTimes \cup {Indefinite, Invalid}]
        /\ locks \in [Inputs -> Int] /\ left \in [Inputs -> Nat]
        /\ morph \in [Groups -> MorphStates]
    BY DEF FilterInit, MorphStates
  <2>2. applied \in 0 .. Len(ApplyOrder) /\ normalized \in 0 .. Len(NormalizeOrder)
    BY ApplyOrderGroups, NormalizeOrderGroups DEF FilterInit
  <2>3. /\ stage \in Stages /\ (stage \in {"idle", "triangulate"} => applied = 0)
        /\ faceFeatureMine \in Items /\ faceFeatureModel \in Items
        /\ maskImage \in Masks
    BY DEF FilterInit, Stages, Items, Masks
  <2>4. frame \in Frames /\ shown \in Frames /\ skin \in Intensities
        /\ shape \in Intensities /\ preventRendering \in BOOLEAN
    BY NoFrameType, FilterAssumption DEF FilterInit
  <2> QED BY <2>1, <2>2, <2>3, <2>4 DEF FilterTypeOK
<1>2. FilterInv
  BY <1>1 DEF FilterInv, FilterInit, ApplyingGroup, OwnTimes, HeldLocks, ShortCircuitUnused,
              DefiniteTimeKept, Inputs
<1>3. DetectInv
  BY DetectInitInv
<1>4. VideoInv
  BY DEF VideoInit, VideoInv, VideoTypeOK, SemaphoreDiscipline, Queued, Handing,
         QueuePC, Blocks, Pictures
<1>5. AppTypes
  <2>1. moves \in 0 .. MaxMoves
    BY AverageFaceAssumption
  <2>2. missed \in BOOLEAN /\ discarded \in BOOLEAN
    OBVIOUS
  <2> QED BY <2>1, <2>2 DEF AppTypes
<1>6. StageInDelivery /\ PairedLocks /\ ConfigurationOrder
  BY RequestIds DEF FilterInit, VideoInit, DetectInit, StageInDelivery, PairedLocks,
                    ConfigurationOrder,
         MaskComing, Queued
<1>7. NormalizedPrefix
  BY RequestIds DEF FilterInit, DetectInit, NormalizedPrefix
<1>8. UniformFrames
  BY DEF FilterInit, UniformFrames, NoFrame
<1> QED BY <1>2, <1>3, <1>4, <1>5, <1>6, <1>7, <1>8 DEF AppInv

LEMMA ViewWillAppearInv == AppInv /\ ViewWillAppear => AppInv'
<1> SUFFICES ASSUME AppInv, ViewWillAppear PROVE AppInv'
  OBVIOUS
<1> USE DEF AppInv
<1>1. /\ ProcessImage("mine") /\ mainPC = "viewWillAppear" /\ mainPC' = "idle"
      /\ UNCHANGED <<filterVars, videoVars, moves, completionPC, missed, discarded>>
  BY DEF ViewWillAppear
<1>2. DetectInv'
  BY <1>1, RequestIds, ProcessImageInv
<1>3. FilterInv' /\ VideoInv' /\ AppTypes'
  BY <1>1, FilterUnchangedInv, InBlockVideo DEF AppTypes, SameHanding, Handing, QueuePC,
                                                Pictures
<1>4. /\ detectPC["mine"] = "new" /\ detectPC'["mine"] \in {"ignored", "queued"}
      /\ detectPC'["model"] = detectPC["model"] /\ answer' = answer
  BY <1>1, RequestIds DEF ProcessImage, At, DetectInv, DetectTypeOK
<1>5. Queued("mask")' <=> Queued("mask")
  BY <1>1 DEF Queued, videoVars
<1>6. StageInDelivery' /\ PairedLocks' /\ UniformFrames'
  BY <1>1 DEF StageInDelivery, PairedLocks, pairing, UniformFrames, Blend, Target,
              filterVars, config, videoVars, building,
              items, normalizing
<1>7. ConfigurationOrder' /\ NormalizedPrefix'
  BY <1>1, <1>4, <1>5 DEF ConfigurationOrder, MaskComing, NormalizedPrefix, Target, filterVars,
              config, videoVars, items, normalizing
<1> QED BY <1>2, <1>3, <1>6, <1>7

LEMMA MoveSliderInv == AppInv /\ MoveSlider => AppInv'
<1> SUFFICES ASSUME AppInv, MoveSlider PROVE AppInv'
  OBVIOUS
<1> USE DEF AppInv
<1>1. /\ UNCHANGED <<pairing, building, items, normalizing, maskImage, preventRendering>>
      /\ skin' \in Intensities /\ shape' \in Intensities /\ mainPC = "idle"
      /\ UNCHANGED <<videoVars, detectVars, completionPC, discarded>>
      /\ mainPC' = "renderMine" /\ moves' = moves + 1 /\ moves < MaxMoves /\ missed' = FALSE
  BY DEF MoveSlider, SetSkinIntensity, SetShapeIntensity, FilterInv, FilterTypeOK
<1>2. FilterInv'
  BY <1>1, ConfigureFilterInv DEF FilterInv, FilterTypeOK, items, normalizing
<1>3. DetectInv' /\ VideoInv'
  BY <1>1, DetectStutterInv, InBlockVideo DEF SameHanding, Handing, QueuePC, Pictures
<1>4. AppTypes'
  <2>1. missed' \in BOOLEAN /\ discarded' \in BOOLEAN
    BY <1>1 DEF AppTypes
  <2>2. moves' \in 0 .. MaxMoves
    BY <1>1, AverageFaceAssumption DEF AppTypes
  <2>3. mainPC' = RenderPC["mine"] /\ completionPC' = completionPC /\ "mine" \in Pictures
    BY <1>1 DEF RenderPC, Pictures
  <2> QED BY <2>1, <2>2, <2>3 DEF AppTypes
<1>5. Queued("mask")' <=> Queued("mask")
  BY <1>1 DEF Queued, videoVars
<1>6. StageInDelivery' /\ PairedLocks' /\ UniformFrames'
  BY <1>1 DEF StageInDelivery, PairedLocks, pairing, UniformFrames, Blend, Target,
              videoVars, building,
              items, normalizing
<1>7. ConfigurationOrder' /\ NormalizedPrefix'
  BY <1>1, <1>5 DEF ConfigurationOrder, MaskComing, NormalizedPrefix, Target,
              videoVars, detectVars, items, normalizing
<1> QED BY <1>2, <1>3, <1>4, <1>6, <1>7

LEMMA RenderInv == AppInv /\ Render => AppInv'
<1> SUFFICES ASSUME AppInv, NEW p \in Pictures,
                    RenderPicture(p) \/ QueuePicture(p) \/ DiscardPicture(p)
             PROVE  AppInv'
  BY DEF Render
<1> USE DEF AppInv
<1>1. /\ UNCHANGED <<filterVars, detectVars, moves, completionPC, videoPC, videoBlock, delivering>>
      /\ mainPC' \in {QueuePC[p], AfterRender(p)}
  BY DEF RenderPicture, QueuePicture, DiscardPicture, RunOnVideoQueue, videoVars
<1>2. FilterInv' /\ DetectInv'
  BY <1>1, FilterUnchangedInv, DetectStutterInv
<1>3. VideoInv' /\ (Queued("mask")' <=> Queued("mask"))
  <2>1. CASE RenderPicture(p)
    BY <2>1, RenderPictureVideo DEF RenderPicture, Queued
  <2>2. CASE QueuePicture(p)
    BY <2>2, QueuePictureVideo
  <2>3. CASE DiscardPicture(p)
    <3>1. UNCHANGED videoVars /\ mainPC = RenderPC[p] /\ mainPC' = AfterRender(p)
      BY <2>3 DEF DiscardPicture
    <3>2. SameHanding
      BY <3>1 DEF SameHanding, Handing, RenderPC, QueuePC, AfterRender, Pictures
    <3> QED BY <3>1, <3>2, InBlockVideo DEF Queued
  <2> QED BY <2>1, <2>2, <2>3
<1>4. AppTypes'
  <2>1. missed' \in BOOLEAN /\ discarded' \in BOOLEAN
    BY DEF RenderPicture, QueuePicture, DiscardPicture, AppTypes
  <2>2. mainPC' \in {"viewWillAppear", "idle"} \cup {RenderPC[q] : q \in Pictures}
                     \cup {QueuePC[q] : q \in Pictures}
    BY <1>1 DEF AfterRender, RenderPC, QueuePC, Pictures
  <2>3. moves' \in 0 .. MaxMoves
    BY <1>1 DEF AppTypes
  <2>4. completionPC' \in {"none", "requestModel", "requested", "normalize"}
    BY <1>1 DEF AppTypes
  <2> QED BY <2>1, <2>2, <2>3, <2>4 DEF AppTypes
<1>5. StageInDelivery' /\ PairedLocks' /\ UniformFrames'
  BY <1>1, <1>3 DEF StageInDelivery, PairedLocks, UniformFrames, Blend, Target, filterVars,
              pairing, building, items, normalizing, config
<1>6. ConfigurationOrder' /\ NormalizedPrefix'
  BY <1>1, <1>3 DEF ConfigurationOrder, MaskComing, NormalizedPrefix, Target, filterVars,
              detectVars, items, normalizing, config
<1> QED BY <1>2, <1>3, <1>4, <1>5, <1>6

-----------------------------------------------------------------------------
(* The steps of the detection thread.                                      *)

LEMMA RunDetectionInv == AppInv /\ RunDetection => AppInv'
<1> SUFFICES ASSUME AppInv, RunDetection PROVE AppInv'
  OBVIOUS
<1> USE DEF AppInv
<1>1. /\ StartDetection \/ \E r \in Requests : Detect(r)
      /\ UNCHANGED <<filterVars, videoVars, appVars>>
  BY DEF RunDetection
<1>2. DetectInv'
  BY <1>1, StartDetectionInv, RunningStepInv
<1>3. FilterInv' /\ VideoInv' /\ AppTypes'
  BY <1>1, FilterUnchangedInv, InBlockVideo DEF AppTypes, SameHanding, Handing, appVars
<1>4. \A r \in Requests :
        /\ detectPC[r] \in {"completion", "done"} =>
             detectPC'[r] = detectPC[r] /\ answer'[r] = answer[r]
        /\ detectPC[r] = "new" <=> detectPC'[r] = "new"
        /\ detectPC'[r] = "done" => detectPC[r] = "done"
  <2>1. CASE StartDetection
    BY <2>1 DEF StartDetection, TakeRequest, At, DetectInv, DetectTypeOK
  <2>2. CASE \E r \in Requests : Detect(r)
    BY <2>2 DEF Detect, ResizeBuffer, CopyPixels, FindNoFace, FindFace, PredictLandmarks, At,
                DetectInv, DetectTypeOK
  <2> QED BY <1>1, <2>1, <2>2
<1>5. Queued("mask")' <=> Queued("mask")
  BY <1>1 DEF Queued, videoVars
<1>6. StageInDelivery' /\ PairedLocks' /\ UniformFrames'
  BY <1>1 DEF StageInDelivery, PairedLocks, pairing, UniformFrames, Blend, Target,
              filterVars, config, videoVars, building,
              items, normalizing
<1>7. ConfigurationOrder'
  BY <1>1, <1>4, <1>5, RequestIds
     DEF ConfigurationOrder, MaskComing, filterVars, config, videoVars, appVars, items,
         normalizing
<1>8. NormalizedPrefix'
  BY <1>1, <1>4, RequestIds DEF NormalizedPrefix, Target, filterVars, config, appVars,
                                items, normalizing
<1> QED BY <1>2, <1>3, <1>6, <1>7, <1>8

LEMMA MineDetectedInv == AppInv /\ MineDetected => AppInv'
<1> SUFFICES ASSUME AppInv, MineDetected PROVE AppInv'
  OBVIOUS
<1> USE DEF AppInv
<1>1. /\ detectPC["mine"] = "completion" /\ completionPC = "none"
      /\ faceFeatureMine' = answer["mine"] /\ completionPC' = "requestModel"
      /\ UNCHANGED <<pairing, building, intensities, faceFeatureModel, normalizing, maskImage,
                     preventRendering>>
      /\ UNCHANGED <<videoVars, detectVars, mainPC, moves, missed, discarded>>
  BY DEF MineDetected, SetFaceFeatureMine
<1>2. answer["mine"] \in Items
  BY <1>1, RequestIds DEF DetectInv, DetectTypeOK, Answers, Items
<1>3. FilterInv'
  BY <1>1, <1>2, ConfigureFilterInv
     DEF FilterInv, FilterTypeOK, intensities, normalizing
<1>4. DetectInv' /\ VideoInv' /\ AppTypes'
  BY <1>1, DetectStutterInv, InBlockVideo DEF AppTypes, SameHanding, Handing
<1>5. Queued("mask")' <=> Queued("mask")
  BY <1>1 DEF Queued, videoVars
<1>6. detectPC["model"] = "new" /\ ~MaskComing
  BY <1>1 DEF ConfigurationOrder
<1>7. StageInDelivery' /\ PairedLocks'
  BY <1>1 DEF StageInDelivery, PairedLocks, pairing, videoVars, building
<1>8. UniformFrames'
  BY <1>1, <1>6 DEF UniformFrames, MaskComing, building
<1>9. ConfigurationOrder'
  BY <1>1, <1>5, <1>6 DEF ConfigurationOrder, MaskComing, videoVars, detectVars, normalizing
<1>10. NormalizedPrefix'
  BY <1>1, <1>6 DEF NormalizedPrefix, normalizing, detectVars
<1> QED BY <1>3, <1>4, <1>7, <1>8, <1>9, <1>10

LEMMA RequestModelInv == AppInv /\ RequestModel => AppInv'
<1> SUFFICES ASSUME AppInv, RequestModel PROVE AppInv'
  OBVIOUS
<1> USE DEF AppInv
<1>1. /\ completionPC = "requestModel" /\ completionPC' = "requested"
      /\ ProcessImage("model")
      /\ UNCHANGED <<filterVars, videoVars, mainPC, moves, missed, discarded>>
  BY DEF RequestModel
<1>2. DetectInv'
  BY <1>1, RequestIds, ProcessImageInv
<1>3. FilterInv' /\ VideoInv' /\ AppTypes'
  BY <1>1, FilterUnchangedInv, InBlockVideo DEF AppTypes, SameHanding, Handing
<1>4. /\ detectPC["model"] = "new" /\ detectPC'["model"] \in {"ignored", "queued"}
      /\ detectPC'["mine"] = detectPC["mine"] /\ answer' = answer
  BY <1>1, RequestIds DEF ProcessImage, At, DetectInv, DetectTypeOK
<1>5. Queued("mask")' <=> Queued("mask")
  BY <1>1 DEF Queued, videoVars
<1>6. StageInDelivery' /\ PairedLocks' /\ UniformFrames'
  BY <1>1 DEF StageInDelivery, PairedLocks, pairing, UniformFrames, Blend, Target,
              filterVars, config, videoVars, building,
              items, normalizing
<1>7. ConfigurationOrder' /\ NormalizedPrefix'
  BY <1>1, <1>4, <1>5 DEF ConfigurationOrder, MaskComing, NormalizedPrefix, Target, filterVars,
              config, videoVars, items, normalizing
<1> QED BY <1>2, <1>3, <1>6, <1>7

LEMMA CompleteMineInv == AppInv /\ CompleteMine => AppInv'
<1> SUFFICES ASSUME AppInv, CompleteMine PROVE AppInv'
  OBVIOUS
<1> USE DEF AppInv
<1>1. /\ completionPC = "requested" /\ completionPC' = "none"
      /\ Complete("mine")
      /\ UNCHANGED <<filterVars, videoVars, mainPC, moves, missed, discarded>>
  BY DEF CompleteMine
<1>2. DetectInv'
  BY <1>1, RequestIds, RunningStepInv
<1>3. FilterInv' /\ VideoInv' /\ AppTypes'
  BY <1>1, FilterUnchangedInv, InBlockVideo DEF AppTypes, SameHanding, Handing
<1>4. /\ detectPC'["mine"] = "done" /\ detectPC'["model"] = detectPC["model"]
      /\ answer' = answer
  BY <1>1, RequestIds DEF Complete, At, DetectInv, DetectTypeOK
<1>5. Queued("mask")' <=> Queued("mask")
  BY <1>1 DEF Queued, videoVars
<1>6. StageInDelivery' /\ PairedLocks' /\ UniformFrames'
  BY <1>1 DEF StageInDelivery, PairedLocks, pairing, UniformFrames, Blend, Target,
              filterVars, config, videoVars, building,
              items, normalizing
<1>7. ConfigurationOrder' /\ NormalizedPrefix'
  BY <1>1, <1>4, <1>5 DEF ConfigurationOrder, MaskComing, NormalizedPrefix, Target, filterVars,
              config, videoVars, items, normalizing
<1> QED BY <1>2, <1>3, <1>6, <1>7

LEMMA ModelDetectedInv == AppInv /\ ModelDetected => AppInv'
<1> SUFFICES ASSUME AppInv, ModelDetected PROVE AppInv'
  OBVIOUS
<1> USE DEF AppInv
<1>1. /\ detectPC["model"] = "completion" /\ completionPC = "none"
      /\ faceFeatureModel' = answer["model"] /\ normalized' = 0
      /\ completionPC' = "normalize"
      /\ UNCHANGED <<pairing, building, intensities, faceFeatureMine, morph, maskImage,
                     preventRendering>>
      /\ UNCHANGED <<videoVars, detectVars, mainPC, moves, missed, discarded>>
  BY DEF ModelDetected, SetFaceFeatureModel
<1>2. answer["model"] \in Items
  BY <1>1, RequestIds DEF DetectInv, DetectTypeOK, Answers, Items
<1>3. FilterInv'
  BY <1>1, <1>2, ConfigureFilterInv, NormalizeOrderGroups
     DEF FilterInv, FilterTypeOK, intensities
<1>4. DetectInv' /\ VideoInv' /\ AppTypes'
  BY <1>1, DetectStutterInv, InBlockVideo DEF AppTypes, SameHanding, Handing
<1>5. Queued("mask")' <=> Queued("mask")
  BY <1>1 DEF Queued, videoVars
<1>6. ~MaskComing
  BY <1>1 DEF ConfigurationOrder
<1>7. StageInDelivery' /\ PairedLocks'
  BY <1>1 DEF StageInDelivery, PairedLocks, pairing, videoVars, building
<1>8. UniformFrames'
  BY <1>1, <1>6 DEF UniformFrames, MaskComing, building
<1>9. ConfigurationOrder'
  BY <1>1, <1>5, <1>6 DEF ConfigurationOrder, MaskComing, videoVars, detectVars
<1>10. NormalizedPrefix'
  BY <1>1 DEF NormalizedPrefix, detectVars
<1> QED BY <1>3, <1>4, <1>7, <1>8, <1>9, <1>10

LEMMA NormalizeInv == AppInv /\ Normalize => AppInv'
<1> SUFFICES ASSUME AppInv, Normalize PROVE AppInv'
  OBVIOUS
<1> USE DEF AppInv
<1> DEFINE g == NormalizeOrder[normalized + 1]
<1>1. /\ completionPC = "normalize" /\ NormalizePhotos
      /\ UNCHANGED <<pairing, building, intensities, items, maskImage, preventRendering>>
      /\ UNCHANGED <<videoVars, detectVars, appVars>>
  BY DEF Normalize, NormalizePhotos, CopyFeatures, NormalizeFeature
<1>2. normalized \in 0 .. 7 /\ g \in Groups /\ normalized + 1 \in 1 .. 8
  BY <1>1, NormalizeOrderGroups DEF NormalizePhotos, CopyFeatures, NormalizeFeature,
     FilterInv, FilterTypeOK
<1>3. \/ /\ faceFeatureMine = "face" /\ normalized' = normalized
         /\ morph' = [morph EXCEPT ![g] = "raw"]
      \/ /\ morph' = [morph EXCEPT ![g] = Target] /\ normalized' = normalized + 1
  BY <1>1, <1>2 DEF NormalizePhotos, CopyFeatures, NormalizeFeature, Target, NormalizedPrefix
<1>4. FilterInv'
  <2>1. morph' \in [Groups -> MorphStates] /\ normalized' \in 0 .. Len(NormalizeOrder)
    <3>1. morph \in [Groups -> MorphStates]
      BY DEF FilterInv, FilterTypeOK
    <3>2. morph' \in [Groups -> MorphStates]
      BY <1>2, <1>3, <3>1 DEF MorphStates, Target
    <3> QED BY <1>2, <1>3, <3>2, NormalizeOrderGroups
  <2> QED BY <1>1, <2>1, ConfigureFilterInv DEF FilterInv, FilterTypeOK, intensities, items,
                                                config
<1>5. DetectInv' /\ VideoInv' /\ AppTypes'
  BY <1>1, DetectStutterInv, InBlockVideo DEF AppTypes, SameHanding, Handing, appVars
<1>6. Queued("mask")' <=> Queued("mask")
  BY <1>1 DEF Queued, videoVars
<1>7. StageInDelivery' /\ PairedLocks' /\ UniformFrames'
  BY <1>1 DEF StageInDelivery, PairedLocks, pairing, UniformFrames, Blend, Target,
              videoVars, building, items
<1>8. ConfigurationOrder'
  BY <1>1, <1>6 DEF ConfigurationOrder, MaskComing, videoVars, detectVars, appVars, items
<1>9. NormalizedPrefix'
  <2>1. \A k \in 1 .. 8 : NormalizeOrder[k] = g => k = normalized + 1
    BY <1>2 DEF NormalizeOrder
  <2>2. \A k \in 1 .. normalized' : morph'[NormalizeOrder[k]] = Target'
    <3> SUFFICES ASSUME NEW k \in 1 .. normalized' PROVE morph'[NormalizeOrder[k]] = Target
      BY <1>1 DEF Target, items
    <3>1. k \in 1 .. 8 /\ NormalizeOrder[k] \in Groups
      BY <1>2, <1>3, NormalizeOrderGroups
    <3>2. CASE NormalizeOrder[k] = g
      BY <1>2, <1>3, <2>1, <3>1, <3>2 DEF FilterInv, FilterTypeOK
    <3>3. CASE NormalizeOrder[k] # g
      <4>1. k \in 1 .. normalized
        BY <1>2, <1>3, <3>3
      <4>2. morph'[NormalizeOrder[k]] = morph[NormalizeOrder[k]]
        BY <1>3, <3>1, <3>3 DEF FilterInv, FilterTypeOK
      <4> QED BY <1>1, <4>1, <4>2 DEF NormalizedPrefix
    <3> QED BY <3>2, <3>3
  <2>3. \A h \in Groups : morph'[h] = "raw" => faceFeatureMine = "face"
    BY <1>2, <1>3 DEF NormalizedPrefix, Target, FilterInv, FilterTypeOK
  <2> QED BY <1>1, <2>2, <2>3 DEF NormalizedPrefix, appVars, items
<1> QED BY <1>4, <1>5, <1>7, <1>8, <1>9

LEMMA DispatchMaskInv == AppInv /\ DispatchMask => AppInv'
<1> SUFFICES ASSUME AppInv, DispatchMask PROVE AppInv'
  OBVIOUS
<1> USE DEF AppInv
<1>1. /\ completionPC = "normalize" /\ completionPC' = "none"
      /\ normalized = Len(NormalizeOrder)
      /\ RunOnVideoQueue("mask") /\ UNCHANGED imageFree
      /\ Complete("model")
      /\ UNCHANGED <<filterVars, mainPC, moves, missed, discarded>>
  BY DEF DispatchMask
<1>2. FilterInv' /\ DetectInv'
  BY <1>1, FilterUnchangedInv, RequestIds, RunningStepInv
<1>3. ~MaskComing
  BY <1>1 DEF ConfigurationOrder
<1>4. VideoInv' /\ UNCHANGED <<videoPC, videoBlock>>
  BY <1>1, <1>3, EnqueueMaskVideo DEF MaskComing, RunOnVideoQueue
<1>5. AppTypes'
  BY <1>1 DEF AppTypes
<1>6. /\ detectPC'["model"] = "done" /\ detectPC'["mine"] = detectPC["mine"]
      /\ answer' = answer
  BY <1>1, RequestIds DEF Complete, At, DetectInv, DetectTypeOK
<1>7. StageInDelivery' /\ PairedLocks' /\ UniformFrames'
  BY <1>1, <1>4 DEF StageInDelivery, PairedLocks, pairing, UniformFrames, Blend, Target,
                    filterVars, config, building,
              items, normalizing
<1>8. ConfigurationOrder'
  BY <1>1, <1>6 DEF ConfigurationOrder, filterVars, config, items, normalizing
<1>9. NormalizedPrefix'
  <2>1. \A g \in Groups : \E k \in 1 .. 8 : NormalizeOrder[k] = g
    BY DEF Groups, NormalizeOrder
  <2>2. \A g \in Groups : morph[g] = Target
    BY <1>1, <2>1, NormalizeOrderGroups DEF NormalizedPrefix
  <2>3. Target # "raw"
    BY DEF Target
  <2> QED BY <1>1, <2>2, <2>3 DEF NormalizedPrefix, Target, filterVars, config, items,
                                  normalizing
<1> QED BY <1>2, <1>4, <1>5, <1>7, <1>8, <1>9

-----------------------------------------------------------------------------
(* The steps of the video queue's thread.                                  *)

LEMMA RunBlockInv == AppInv /\ RunBlock => AppInv'
<1> SUFFICES ASSUME AppInv, RunBlock PROVE AppInv'
  OBVIOUS
<1> USE DEF AppInv
<1>1. StartBlock /\ UNCHANGED <<filterVars, detectVars, appVars>>
  BY DEF RunBlock
<1>2. FilterInv' /\ DetectInv' /\ AppTypes'
  BY <1>1, FilterUnchangedInv, DetectStutterInv DEF AppTypes, appVars
<1>3. VideoInv'
  BY <1>1, StartBlockVideo DEF SameHanding, Handing, appVars
<1>4. MaskComing' <=> MaskComing
  BY <1>1, StartBlockVideo DEF MaskComing, filterVars, config, SameHanding, Handing, appVars
<1>5. StageInDelivery' /\ PairedLocks'
  BY <1>1 DEF StartBlock, StageInDelivery, PairedLocks, pairing, filterVars, config, building
<1>6. UniformFrames' /\ ConfigurationOrder' /\ NormalizedPrefix'
  BY <1>1, <1>4 DEF UniformFrames, ConfigurationOrder, NormalizedPrefix, Blend, Target,
              filterVars, config, detectVars, appVars, building, items, normalizing
<1> QED BY <1>2, <1>3, <1>5, <1>6

LEMMA InstallMaskInv == AppInv /\ InstallMask => AppInv'
<1> SUFFICES ASSUME AppInv, InstallMask PROVE AppInv'
  OBVIOUS
<1> USE DEF AppInv
<1>1. /\ videoPC = "setMask" /\ videoPC' = "processMine"
      /\ maskImage' = IF answer["model"] = "nil" THEN "empty" ELSE "built"
      /\ UNCHANGED <<pairing, building, intensities, items, normalizing, preventRendering>>
      /\ UNCHANGED <<videoQueue, videoBlock, delivering, imageFree, detectVars, appVars>>
  BY DEF InstallMask, SetMaskImage
<1>2. FilterInv'
  BY <1>1, ConfigureFilterInv
     DEF FilterInv, FilterTypeOK, intensities, items, normalizing, Masks
<1>3. DetectInv' /\ VideoInv' /\ AppTypes'
  BY <1>1, DetectStutterInv, InBlockVideo DEF AppTypes, SameHanding, Handing, appVars
<1>4. videoBlock = "mask" /\ stage = "idle" /\ frame = NoFrame
  BY <1>1 DEF VideoInv, VideoTypeOK, StageInDelivery
<1>5. StageInDelivery' /\ PairedLocks'
  BY <1>1, <1>4 DEF StageInDelivery, PairedLocks, pairing, building
<1>6. ConfigurationOrder' /\ NormalizedPrefix'
  BY <1>1, <1>4 DEF ConfigurationOrder, MaskComing, NormalizedPrefix, Target, detectVars,
              appVars, items, normalizing
<1>7. UniformFrames'
  <2>1. applied = 0
    BY <1>4 DEF FilterInv, FilterTypeOK
  <2>2. maskImage' # "none"
    BY <1>1
  <2> QED BY <1>1, <1>4, <2>1, <2>2
          DEF UniformFrames, Blend, Target, building, items, normalizing, NoFrame
<1> QED BY <1>2, <1>3, <1>5, <1>6, <1>7

(* The steps that change only the thread's place in its block.             *)
LEMMA InlineInv == AppInv /\ (RenderInline \/ Signal) => AppInv'
<1> SUFFICES ASSUME AppInv, RenderInline \/ Signal PROVE AppInv'
  OBVIOUS
<1> USE DEF AppInv
<1>1. /\ UNCHANGED <<filterVars, detectVars, mainPC, moves, completionPC, missed>>
      /\ (\E p \in Pictures : ProcessPictureInline(p)) \/ SignalPicture
  BY DEF RenderInline, Signal, appVars
<1>2. FilterInv' /\ DetectInv'
  BY <1>1, FilterUnchangedInv, DetectStutterInv
<1>3. /\ VideoInv' /\ UNCHANGED videoQueue
      /\ videoBlock' = "mask" => videoBlock = "mask"
  BY <1>1, InBlockVideo DEF SameHanding, Handing, appVars
<1>4. AppTypes'
  <2>1. discarded' \in BOOLEAN
    BY DEF RenderInline, Signal, appVars, AppTypes
  <2>2. missed' \in BOOLEAN
    BY <1>1 DEF AppTypes
  <2>3. moves' \in 0 .. MaxMoves
    BY <1>1 DEF AppTypes
  <2> QED BY <1>1, <2>1, <2>2, <2>3 DEF AppTypes
<1>5. MaskComing' => MaskComing
  BY <1>1, <1>3 DEF MaskComing, Queued, filterVars, config
<1>6. stage = "idle"
  BY DEF RenderInline, Signal, ProcessPictureInline, StageInDelivery
<1>7. StageInDelivery' /\ PairedLocks'
  BY <1>1, <1>6 DEF StageInDelivery, PairedLocks, pairing, filterVars, config, building
<1>8. UniformFrames' /\ ConfigurationOrder' /\ NormalizedPrefix'
  BY <1>1, <1>5 DEF UniformFrames, ConfigurationOrder, NormalizedPrefix, Blend, Target,
              filterVars, config, detectVars, building, items, normalizing
<1> QED BY <1>2, <1>3, <1>4, <1>7, <1>8

LEMMA DeliverInv == AppInv /\ Deliver => AppInv'
<1> SUFFICES ASSUME AppInv, Deliver PROVE AppInv'
  OBVIOUS
<1> USE DEF AppInv
<1> DEFINE i == TextureLocation(delivering)
<1>1. /\ DeliverPicture /\ NewFrameReady(Indefinite, i)
      /\ UNCHANGED <<detectVars, appVars>>
  BY DEF Deliver
<1>2. i \in Inputs /\ Indefinite \in Times(i)
  BY AverageFaceAssumption DEF TextureLocation, Inputs, Times
<1>3. FilterInv'
  BY <1>1, <1>2, NewFrameReadyInv
<1>4. DetectInv' /\ AppTypes'
  BY <1>1, DetectStutterInv DEF AppTypes, appVars
<1>5. VideoInv' /\ UNCHANGED videoQueue /\ (videoBlock' = "mask" => videoBlock = "mask")
  BY <1>1, InBlockVideo DEF SameHanding, Handing, appVars
<1>6. /\ stage = "idle" /\ stage' \in {"idle", "triangulate"} /\ videoPC' = "signal"
      /\ \/ frame' = frame /\ stage' = "idle"
         \/ /\ frame' = [NoFrame EXCEPT !.time = PassOnTime([frameTime EXCEPT ![i] = Indefinite])]
            /\ stage' = "triangulate"
      /\ UNCHANGED <<applied, shown, config>>
  BY <1>1 DEF NewFrameReady, DeliverPicture
<1>7. frame = NoFrame /\ applied = 0
  BY <1>6 DEF StageInDelivery, PairedLocks, pairing, FilterInv, FilterTypeOK
<1>8. frame'.morphs = {} /\ frame'.mask = "none"
  BY <1>6, <1>7 DEF NoFrame
<1>9. StageInDelivery' /\ PairedLocks'
  <2>1. StageInDelivery'
    BY <1>6, <1>7 DEF StageInDelivery, config
  <2>2. /\ locks' = [locks EXCEPT ![i] = 1] /\ received' = [received EXCEPT ![i] = TRUE]
        /\ stage' = "triangulate" => received'[0] /\ received'[1]
    <3>1. Marked(i) = [received EXCEPT ![i] = TRUE] /\ ~MovieOppositeStill(Indefinite, i)
      BY <1>2, AverageFaceAssumption, MarkedAlone DEF MovieOppositeStill, FilterInv
    <3>2. ~(received[0] /\ received[1])
      BY <1>6 DEF FilterInv, ShortCircuitUnused
    <3> QED BY <1>1, <1>6, <3>1, <3>2 DEF NewFrameReady
  <2>3. PairedLocks'
    BY <1>2, <1>6, <2>2 DEF PairedLocks, FilterInv, FilterTypeOK
  <2> QED BY <2>1, <2>3
<1>10. UniformFrames'
  BY <1>6, <1>7, <1>8 DEF UniformFrames, Blend, Target, items, normalizing, config
<1>11. ConfigurationOrder' /\ NormalizedPrefix'
  BY <1>1, <1>5, <1>6 DEF ConfigurationOrder, MaskComing, Queued, NormalizedPrefix, Target,
              detectVars, appVars, items, normalizing, config
<1> QED BY <1>3, <1>4, <1>5, <1>9, <1>10, <1>11

LEMMA BuildInv == AppInv /\ Build => AppInv'
<1> SUFFICES ASSUME AppInv, Build PROVE AppInv'
  OBVIOUS
<1> USE DEF AppInv
<1>1. BuildFrame /\ UNCHANGED <<videoVars, detectVars, appVars>>
  BY DEF Build
<1>2. FilterInv'
  BY <1>1, BuildFrameInv
<1>3. DetectInv' /\ VideoInv' /\ AppTypes'
  BY <1>1, DetectStutterInv, InBlockVideo DEF AppTypes, SameHanding, Handing, appVars
<1>4. /\ stage # "idle" /\ videoPC = "signal"
      /\ UNCHANGED <<intensities, items, normalizing, maskImage, preventRendering>>
  BY <1>1 DEF BuildFrame, Triangulate, ApplyFeatures, RenderToTexture, SkipRendering,
              InformTargets, Inform, StageInDelivery, config
<1>5. StageInDelivery' /\ PairedLocks'
  <2>1. StageInDelivery'
    BY <1>1, <1>4 DEF BuildFrame, Triangulate, ApplyFeatures, RenderToTexture, SkipRendering,
                InformTargets, Inform, StageInDelivery, videoVars
  <2>2. PairedLocks'
    <3>1. CASE Triangulate \/ ApplyFeatures
      BY <3>1 DEF Triangulate, ApplyFeatures, PairedLocks, pairing
    <3>2. CASE RenderToTexture
      <4>1. \A i \in Inputs : locks[i] = 1
        BY <3>2 DEF RenderToTexture, PairedLocks, Inputs
      <4>2. \A i \in Inputs : frameTime[i] # Invalid
        BY <3>2, AverageFaceAssumption DEF RenderToTexture, PairedLocks, FilterInv,
                                           OwnTimes, Inputs
      <4>3. \A i \in Inputs : locks'[i] = 0
        BY <3>2, <4>1, <4>2 DEF RenderToTexture, Unlocked
      <4> QED BY <3>2, <4>3 DEF RenderToTexture, PairedLocks
    <3>3. CASE SkipRendering
      BY <3>3 DEF SkipRendering, StageInDelivery
    <3>4. CASE InformTargets
      BY <3>4 DEF InformTargets, Inform, NoFlags, PairedLocks
    <3> QED BY <1>1, <3>1, <3>2, <3>3, <3>4 DEF BuildFrame
  <2> QED BY <2>1, <2>2
<1>6. ConfigurationOrder' /\ NormalizedPrefix'
  BY <1>1, <1>4 DEF ConfigurationOrder, MaskComing, Queued, NormalizedPrefix, Target,
              videoVars, detectVars, appVars, items, normalizing
<1>7. UniformFrames'
  <2>1. CASE Triangulate
    BY <1>4, <2>1 DEF Triangulate, UniformFrames, Blend, Target, items, normalizing
  <2>2. CASE ApplyFeatures
    <3> DEFINE g == ApplyOrder[applied + 1]
               m == IF faceFeatureModel = "tiny" THEN "unmoved" ELSE morph[g]
    <3>1. /\ frame' = [frame EXCEPT !.shapes = @ \cup {shape}, !.morphs = @ \cup {m}]
          /\ applied' = applied + 1 /\ applied \in 0 .. 7 /\ g \in Groups
          /\ shown' = shown /\ stage = "apply"
      BY <2>2, ApplyOrderGroups DEF ApplyFeatures, FilterInv, FilterTypeOK, ApplyingGroup
    <3>2. frame'.morphs = frame.morphs \cup {m} /\ frame'.mask = frame.mask
      BY <3>1 DEF FilterInv, FilterTypeOK, Frames
    <3>3. maskImage # "none" => m = Blend
      <4> SUFFICES ASSUME maskImage # "none" PROVE morph[g] = Target
        BY DEF Blend
      <4>1. detectPC["model"] = "done" /\ normalized = Len(NormalizeOrder)
        BY DEF ConfigurationOrder, MaskComing
      <4>2. \E k \in 1 .. 8 : NormalizeOrder[k] = g
        BY <3>1 DEF Groups, NormalizeOrder
      <4> QED BY <4>1, <4>2, NormalizeOrderGroups DEF NormalizedPrefix
    <3> QED BY <1>4, <3>1, <3>2, <3>3 DEF UniformFrames, Blend, Target, items, normalizing
  <2>3. CASE RenderToTexture
    <3>1. /\ frame'.morphs = frame.morphs /\ frame'.mask = maskImage /\ applied > 0
          /\ shown' = shown /\ applied' = applied /\ stage' = "inform"
      BY <2>3 DEF RenderToTexture, FilterInv, FilterTypeOK, Frames, UniformFrames
    <3> QED BY <1>4, <3>1 DEF UniformFrames, Blend, Target, items, normalizing
  <2>4. CASE SkipRendering
    BY <2>4 DEF SkipRendering, StageInDelivery
  <2>5. CASE InformTargets
    <3>1. /\ shown' = frame /\ frame' = NoFrame /\ applied' = 0 /\ stage' = "idle"
          /\ applied > 0
      BY <2>5 DEF InformTargets, Inform, UniformFrames
    <3>2. frame'.morphs = {} /\ frame'.mask = "none"
      BY <3>1 DEF NoFrame
    <3>3. frame.mask # "none" => frame.morphs = {Blend}
      BY <3>1 DEF UniformFrames
    <3> QED BY <1>4, <3>1, <3>2, <3>3 DEF UniformFrames, Blend, Target, items, normalizing
  <2> QED BY <1>1, <2>1, <2>2, <2>3, <2>4, <2>5 DEF BuildFrame
<1> QED BY <1>2, <1>3, <1>5, <1>6, <1>7

-----------------------------------------------------------------------------
(* Theorems.                                                               *)

LEMMA AppStutterInv == AppInv /\ UNCHANGED vars => AppInv'
<1> SUFFICES ASSUME AppInv, UNCHANGED vars PROVE AppInv'
  OBVIOUS
<1> USE DEF AppInv
<1>1. FilterInv' /\ DetectInv' /\ VideoInv' /\ AppTypes'
  BY FilterUnchangedInv, DetectStutterInv, InBlockVideo DEF vars, AppTypes, SameHanding,
                                                            Handing, appVars
<1>2. StageInDelivery' /\ PairedLocks' /\ ConfigurationOrder' /\ NormalizedPrefix' /\ UniformFrames'
  BY DEF vars, filterVars, config, videoVars, detectVars, appVars, building, items, normalizing,
         StageInDelivery, PairedLocks, pairing, ConfigurationOrder, MaskComing, Queued, NormalizedPrefix,
         UniformFrames, Blend, Target
<1> QED BY <1>1, <1>2

LEMMA AppStepInv == AppInv /\ [Next]_vars => AppInv'
<1> SUFFICES ASSUME AppInv, [Next]_vars PROVE AppInv'
  OBVIOUS
<1>1. CASE MainThread \/ MoveSlider
  BY <1>1, ViewWillAppearInv, MoveSliderInv, RenderInv DEF MainThread
<1>2. CASE DetectionThread
  BY <1>2, RunDetectionInv, MineDetectedInv, RequestModelInv, CompleteMineInv,
     ModelDetectedInv, NormalizeInv, DispatchMaskInv DEF DetectionThread
<1>3. CASE VideoThread
  BY <1>3, RunBlockInv, InstallMaskInv, InlineInv, DeliverInv, BuildInv DEF VideoThread
<1>4. CASE UNCHANGED vars
  BY <1>4, AppStutterInv
<1> QED BY <1>1, <1>2, <1>3, <1>4 DEF Next

LEMMA AppInvariant == Spec => []AppInv
BY AppInitInv, AppStepInv, PTL DEF Spec

(* Every variable of the application keeps its type.                       *)
THEOREM TypeCorrect == Spec => []TypeOK
<1>1. AppInv => TypeOK
  BY DEF AppInv, FilterInv, DetectInv, VideoInv, AppTypes, TypeOK
<1> QED BY <1>1, AppInvariant, PTL

(* A picture's semaphore is taken exactly while its delivery is queued or  *)
(* in progress, and no block is queued twice.                              *)
THEOREM SemaphoresDisciplined == Spec => []SemaphoreDiscipline
<1>1. AppInv => SemaphoreDiscipline
  BY DEF AppInv, VideoInv
<1> QED BY <1>1, AppInvariant, PTL

(* Between two frames an input holds one lock while it waits, none         *)
(* otherwise.                                                              *)
THEOREM LocksArePaired == Spec => []LocksPaired
<1>1. AppInv => LocksPaired
  BY DEF AppInv, PairedLocks, LocksPaired
<1> QED BY <1>1, AppInvariant, PTL

(* A frame with the mask is never made from half normalised features: the  *)
(* mask comes after both items and all eight groups.                       *)
THEOREM MaskedFramesAreNormalized == Spec => []MaskedFramesNormalized
<1>1. ASSUME AppInv PROVE MaskedFramesNormalized
  <2>1. ASSUME maskImage # "none"
        PROVE  /\ faceFeatureMine = answer["mine"] /\ faceFeatureModel = answer["model"]
               /\ normalized = Len(NormalizeOrder)
    BY <1>1, <2>1 DEF AppInv, ConfigurationOrder, MaskComing
  <2>2. Blend # "raw" /\ Cardinality({Blend}) = 1
    BY FS_Singleton DEF Blend, Target
  <2>3. frame.mask # "none" => frame.morphs = {Blend}
    BY <1>1 DEF AppInv, UniformFrames
  <2>4. shown.mask # "none" => shown.morphs = {Blend}
    BY <1>1 DEF AppInv, UniformFrames
  <2>5. ASSUME NEW f \in {frame, shown}, f.mask # "none"
        PROVE  "raw" \notin f.morphs /\ Cardinality(f.morphs) = 1
    <3>1. f.morphs = {Blend}
      BY <2>3, <2>4, <2>5
    <3> QED BY <3>1, <2>2
  <2> QED BY <2>1, <2>5 DEF MaskedFramesNormalized
<1> QED BY <1>1, AppInvariant, PTL

(* No input framebuffer is unlocked more often than it was locked.         *)
THEOREM AppNeverOverReleases == Spec => []NoOverRelease
<1>1. AppInv => NoOverRelease
  BY DEF AppInv, FilterInv, HeldLocks, NoOverRelease
<1> QED BY <1>1, AppInvariant, PTL

-----------------------------------------------------------------------------
(* What the view shows once everything has settled.  A picture is coming   *)
(* when a delivery of it is still to be made: the main thread has yet to   *)
(* render it, the mask block has yet to, or its block is handed over,      *)
(* queued or about to deliver.                                             *)

ToRender(p) ==
  mainPC \in (IF p = "mine" THEN {"renderMine"} ELSE {"renderMine", "queueMine", "renderModel"})

ToRenderInline(p) ==
  /\ videoBlock = "mask"
  /\ \/ videoPC = "processMine"
     \/ p = "model" /\ (videoPC = "processModel" \/ delivering = "mine")

Underway(p) == Queued(p) \/ Handing(p) \/ (delivering = p /\ videoPC = "deliver")
Coming(p) == ToRender(p) \/ ToRenderInline(p) \/ Underway(p)
Awaited(p) == Coming(p) \/ received[TextureLocation(p)]

(* A frame without the installed mask is not the last: both pictures are   *)
(* still to come, or one of them waits in the filter for the other.        *)
MaskOnItsWay ==
  maskImage # "none" /\ stage # "crashed" =>
    /\ stage = "inform" => frame.mask = maskImage
    /\ stage = "idle" /\ shown.mask # maskImage => \A p \in Pictures : Awaited(p)
    /\ stage = "idle" /\ videoPC = "signal" /\ ~received[TextureLocation(delivering)]
         => shown.mask = maskImage

(* Nor is a frame with outdated intensities, be it shown or being built.   *)
Latest == shown.skin = skin /\ shown.shapes = {shape}

OnTrack ==
  /\ frame.shapes \subseteq {shape}
  /\ applied > 0 => frame.shapes # {}
  /\ stage = "inform" => frame.skin = skin

LatestOnItsWay ==
  maskImage # "none" /\ ~missed /\ stage # "crashed" =>
    /\ stage = "idle" => Latest \/ \A p \in Pictures : Awaited(p)
    /\ stage # "idle" => OnTrack \/ \A p \in Pictures : Coming(p)

Current == MaskOnItsWay /\ LatestOnItsWay

(* Steps outside the filter that take no delivery away.                    *)
LEMMA NothingTakenAway ==
  ASSUME Current,
         UNCHANGED <<received, building, skin, shape, maskImage, missed>>,
         videoPC' = "signal" => videoPC = "signal" /\ delivering' = delivering,
         \A p \in Pictures : Coming(p) => Coming(p)'
  PROVE  Current'
<1>1. \A p \in Pictures : Awaited(p) => Awaited(p)'
  BY DEF Awaited
<1>2. MaskOnItsWay'
  BY <1>1 DEF Current, MaskOnItsWay, building
<1>3. LatestOnItsWay'
  BY <1>1 DEF Current, LatestOnItsWay, Latest, OnTrack, building
<1> QED BY <1>2, <1>3 DEF Current

(* What is queued while a block is added, or taken from the queue.         *)
LEMMA StillComing ==
  ASSUME NEW p \in Pictures, Coming(p),
         UNCHANGED <<mainPC, videoBlock, videoPC, delivering>>,
         Queued(p) => Queued(p)'
  PROVE  Coming(p)'
BY DEF Coming, ToRender, ToRenderInline, Underway, Handing

LEMMA TakenFromQueue ==
  ASSUME VideoTypeOK, StartBlock, NEW p \in Pictures, Queued(p)
  PROVE  Queued(p)' \/ (delivering' = p /\ videoPC' = "deliver")
<1>1. PICK k \in 1 .. Len(videoQueue) : videoQueue[k] = p
  BY DEF Queued
<1>2. /\ videoQueue \in Seq(Blocks) /\ videoQueue # <<>> /\ videoQueue' = Tail(videoQueue)
      /\ p # "mask"
  BY DEF VideoTypeOK, StartBlock, Pictures
<1>3. CASE k = 1
  <2>1. Head(videoQueue) = p
    BY <1>1, <1>2, <1>3
  <2> QED BY <1>2, <2>1 DEF StartBlock
<1>4. CASE k # 1
  <2>1. k - 1 \in 1 .. Len(videoQueue') /\ videoQueue'[k - 1] = p
    BY <1>1, <1>2, <1>4
  <2> QED BY <2>1 DEF Queued
<1> QED BY <1>3, <1>4

(* A picture whose semaphore is taken is underway, or past being delivered. *)
LEMMA SemaphoreTaken ==
  ASSUME VideoInv, NEW p \in Pictures, ~imageFree[p]
  PROVE  Underway(p) \/ (delivering = p /\ videoPC = "signal")
<1>1. Queued(p) \/ delivering = p \/ Handing(p)
  BY DEF VideoInv, SemaphoreDiscipline
<1>2. delivering = p => videoPC \in {"deliver", "signal"}
  BY DEF VideoInv, VideoTypeOK, Pictures
<1> QED BY <1>1, <1>2 DEF Underway

LEMMA CurrentInit == Init => Current
BY DEF Init, FilterInit, Current, MaskOnItsWay, LatestOnItsWay

LEMMA MainThreadCurrent ==
  ASSUME AppInv, Current, MainThread \/ MoveSlider PROVE Current'
<1>1. CASE ViewWillAppear
  <2>1. /\ UNCHANGED <<filterVars, videoVars, missed>>
        /\ mainPC = "viewWillAppear"
    BY <1>1 DEF ViewWillAppear
  <2>2. \A p \in Pictures : Coming(p) => Coming(p)'
    BY <2>1 DEF Coming, ToRender, ToRenderInline, Underway, Handing, QueuePC, Queued, videoVars,
                Pictures
  <2> QED BY <2>1, <2>2, NothingTakenAway DEF filterVars, pairing, config, intensities, videoVars
<1>2. CASE MoveSlider
  <2>1. /\ UNCHANGED <<pairing, building, maskImage, videoVars>> /\ mainPC' = "renderMine"
    BY <1>2 DEF MoveSlider, SetSkinIntensity, SetShapeIntensity
  <2>2. \A p \in Pictures : Coming(p)' /\ Awaited(p)'
    BY <2>1 DEF Awaited, Coming, ToRender
  <2> QED BY <2>1, <2>2 DEF Current, MaskOnItsWay, LatestOnItsWay, pairing, building, videoVars
<1>3. ASSUME NEW q \in Pictures, RenderPicture(q) \/ QueuePicture(q) PROVE Current'
  <2>1. /\ UNCHANGED <<filterVars, missed, videoPC, videoBlock, delivering>>
        /\ mainPC \in {RenderPC[q], QueuePC[q]}
        /\ mainPC' \in {QueuePC[q], AfterRender(q)}
    BY <1>3 DEF RenderPicture, QueuePicture, RunOnVideoQueue
  <2>2. \A p \in Pictures : Queued(p) => Queued(p)'
    <3>1. CASE RenderPicture(q)
      BY <3>1 DEF RenderPicture, Queued
    <3>2. CASE QueuePicture(q)
      <4>1. videoQueue' = Append(videoQueue, q) /\ q \in Blocks
        BY <3>2 DEF QueuePicture, RunOnVideoQueue, Blocks
      <4> QED BY <4>1, AppendedQueue DEF AppInv, VideoInv
    <3> QED BY <1>3, <3>1, <3>2
  <2>3. QueuePicture(q) => Queued(q)'
    <3> SUFFICES ASSUME QueuePicture(q) PROVE Queued(q)'
      OBVIOUS
    <3>1. videoQueue' = Append(videoQueue, q) /\ q \in Blocks
      BY DEF QueuePicture, RunOnVideoQueue, Blocks
    <3> QED BY <3>1, AppendedQueue DEF AppInv, VideoInv
  <2>4. ASSUME NEW p \in Pictures, Coming(p) PROVE Coming(p)'
    <3>1. CASE RenderPicture(q)
      <4>1. mainPC = RenderPC[q] /\ mainPC' = QueuePC[q]
        BY <3>1 DEF RenderPicture
      <4> QED BY <2>1, <2>2, <2>4, <4>1
              DEF Coming, ToRender, ToRenderInline, Underway, Handing, RenderPC, QueuePC, Pictures
    <3>2. CASE QueuePicture(q)
      <4>1. mainPC = QueuePC[q] /\ mainPC' = AfterRender(q) /\ Queued(q)'
        BY <2>3, <3>2 DEF QueuePicture
      <4> QED BY <2>1, <2>2, <2>4, <4>1
              DEF Coming, ToRender, ToRenderInline, Underway, Handing, AfterRender, QueuePC, Pictures
    <3> QED BY <1>3, <3>1, <3>2
  <2> QED BY <2>1, <2>4, NothingTakenAway DEF filterVars, pairing, config, intensities
<1>4. ASSUME NEW q \in Pictures, DiscardPicture(q) PROVE Current'
  <2>1. /\ UNCHANGED <<filterVars, videoVars>>
        /\ mainPC = RenderPC[q] /\ mainPC' = AfterRender(q) /\ ~imageFree[q]
        /\ missed' = (missed \/ Delivered(q))
    BY <1>4 DEF DiscardPicture
  <2>2. Underway(q) \/ (delivering = q /\ videoPC = "signal")
    BY <2>1, SemaphoreTaken DEF AppInv
  <2>3. ASSUME NEW p \in Pictures, Coming(p), p # q \/ Underway(q) PROVE Coming(p)'
    BY <2>1, <2>3 DEF Coming, ToRender, ToRenderInline, Underway, Handing, Queued, AfterRender,
                      RenderPC, QueuePC, videoVars, Pictures
  <2>4. Coming(q)
    BY <2>1 DEF Coming, ToRender, RenderPC, Pictures
  <2>5. ASSUME NEW p \in Pictures, Coming(p), ~Delivered(q) PROVE Awaited(p)' /\ (stage # "idle" => Coming(p)')
    <3>1. CASE p # q \/ Underway(q)
      BY <2>3, <2>5, <3>1 DEF Awaited
    <3>2. CASE p = q /\ ~Underway(q)
      BY <2>1, <2>2, <2>5, <3>2 DEF Awaited, Delivered, filterVars, pairing
    <3> QED BY <3>1, <3>2
  <2>6. ASSUME NEW p \in Pictures, Awaited(p), ~Delivered(q) PROVE Awaited(p)'
    BY <2>1, <2>5, <2>6 DEF Awaited, filterVars, pairing
  <2>7. LatestOnItsWay'
    BY <2>1, <2>5, <2>6 DEF Current, LatestOnItsWay, Latest, OnTrack, filterVars, building,
                            config, intensities
  <2>8. MaskOnItsWay'
    <3>1. stage = "idle" /\ shown.mask # maskImage /\ maskImage # "none" => ~Delivered(q)
      BY <2>1 DEF Current, MaskOnItsWay, Delivered
    <3> QED BY <2>1, <2>6, <3>1 DEF Current, MaskOnItsWay, filterVars, pairing, building,
                                    config, videoVars
  <2> QED BY <2>7, <2>8 DEF Current
<1> QED BY <1>1, <1>2, <1>3, <1>4 DEF MainThread, Render

LEMMA DetectionThreadCurrent ==
  ASSUME AppInv, Current, DetectionThread PROVE Current'
<1>1. /\ UNCHANGED <<pairing, building, intensities, maskImage, missed, mainPC>>
      /\ UNCHANGED <<videoPC, videoBlock, delivering>>
  BY DEF DetectionThread, RunDetection, MineDetected, RequestModel, CompleteMine, ModelDetected,
         Normalize, DispatchMask, SetFaceFeatureMine, SetFaceFeatureModel, NormalizePhotos,
         CopyFeatures, NormalizeFeature, RunOnVideoQueue, filterVars, videoVars, appVars, config
<1>2. \A p \in Pictures : Queued(p) => Queued(p)'
  <2>1. CASE DispatchMask
    <3>1. videoQueue' = Append(videoQueue, "mask") /\ "mask" \in Blocks
      BY <2>1 DEF DispatchMask, RunOnVideoQueue, Blocks
    <3> QED BY <3>1, AppendedQueue DEF AppInv, VideoInv
  <2>2. CASE ~DispatchMask
    <3>1. UNCHANGED videoQueue
      BY <2>2 DEF DetectionThread, RunDetection, MineDetected, RequestModel, CompleteMine,
                  ModelDetected, Normalize, videoVars
    <3> QED BY <3>1 DEF Queued
  <2> QED BY <2>1, <2>2
<1>3. \A p \in Pictures : Coming(p) => Coming(p)'
  BY <1>1, <1>2, StillComing
<1> QED BY <1>1, <1>3, NothingTakenAway DEF pairing, intensities

LEMMA BlockStepsCurrent ==
  ASSUME AppInv, Current, RunBlock \/ InstallMask \/ RenderInline \/ Signal PROVE Current'
<1>1. CASE RunBlock
  <2>1. StartBlock /\ UNCHANGED <<filterVars, mainPC, missed>>
    BY <1>1 DEF RunBlock, appVars
  <2>2. ASSUME NEW p \in Pictures, Coming(p) PROVE Coming(p)'
    <3>1. videoPC = "wait" /\ videoBlock = "none" /\ delivering = "none"
      BY <2>1 DEF StartBlock, AppInv, VideoInv, VideoTypeOK
    <3>2. ToRender(p) \/ Queued(p) \/ Handing(p)
      BY <2>2, <3>1 DEF Coming, ToRenderInline, Underway
    <3>3. Queued(p) => Queued(p)' \/ (delivering' = p /\ videoPC' = "deliver")
      BY <2>1, TakenFromQueue DEF AppInv, VideoInv
    <3> QED BY <2>1, <3>2, <3>3 DEF Coming, ToRender, Underway, Handing
  <2>3. videoPC' # "signal"
    BY <2>1 DEF StartBlock
  <2> QED BY <2>1, <2>2, <2>3, NothingTakenAway DEF filterVars, pairing, config, intensities
<1>2. CASE InstallMask
  <2>1. /\ videoPC = "setMask" /\ videoPC' = "processMine" /\ videoBlock' = videoBlock
        /\ UNCHANGED <<pairing, building, intensities>>
    BY <1>2 DEF InstallMask, SetMaskImage
  <2>2. videoBlock = "mask" /\ stage = "idle"
    BY <2>1 DEF AppInv, VideoInv, VideoTypeOK, StageInDelivery
  <2>3. \A p \in Pictures : Awaited(p)'
    BY <2>1, <2>2 DEF Awaited, Coming, ToRenderInline
  <2> QED BY <2>1, <2>2, <2>3 DEF Current, MaskOnItsWay, LatestOnItsWay, building
<1>3. CASE RenderInline
  <2>1. PICK q \in Pictures : ProcessPictureInline(q)
    BY <1>3 DEF RenderInline
  <2>2. UNCHANGED <<filterVars, mainPC, missed, videoQueue>>
    BY <1>3, <2>1 DEF RenderInline, ProcessPictureInline
  <2>3. /\ videoPC = IF q = "mine" THEN "processMine" ELSE "processModel"
        /\ videoBlock = "mask" /\ delivering = "none"
    BY <2>1 DEF ProcessPictureInline, AppInv, VideoInv, VideoTypeOK
  <2>4. \A p \in Pictures : ToRender(p)' = ToRender(p) /\ Queued(p)' = Queued(p) /\ Handing(p)' = Handing(p)
    BY <2>2 DEF ToRender, Queued, Handing
  <2>5. CASE imageFree[q]
    <3>1. videoPC' = "deliver" /\ delivering' = q /\ videoBlock' = "mask"
      BY <2>1, <2>3, <2>5 DEF ProcessPictureInline
    <3>2. \A p \in Pictures : Coming(p) => Coming(p)'
      BY <2>3, <2>4, <3>1 DEF Coming, ToRenderInline, Underway, Pictures
    <3> QED BY <2>2, <3>1, <3>2, NothingTakenAway DEF filterVars, pairing, config, intensities
  <2>6. CASE ~imageFree[q]
    <3>1. Queued(q) \/ Handing(q)
      BY <2>3, <2>6, SemaphoreTaken DEF Underway, AppInv
    <3>2. /\ videoPC' = AfterPicture(q) /\ delivering' = "none"
          /\ videoBlock' = IF AfterPicture(q) = "wait" THEN "none" ELSE videoBlock
      BY <2>1, <2>6 DEF ProcessPictureInline, Proceed
    <3>3. \A p \in Pictures : Coming(p) => Coming(p)'
      BY <2>3, <2>4, <3>1, <3>2 DEF Coming, ToRenderInline, Underway, AfterPicture, Pictures
    <3>4. videoPC' # "signal"
      BY <3>2 DEF AfterPicture
    <3> QED BY <2>2, <3>3, <3>4, NothingTakenAway DEF filterVars, pairing, config, intensities
  <2> QED BY <2>5, <2>6
<1>4. CASE Signal
  <2>1. /\ UNCHANGED <<filterVars, mainPC, missed, videoQueue>>
        /\ videoPC = "signal" /\ delivering \in Pictures /\ Proceed(delivering)
    BY <1>4 DEF Signal, SignalPicture, appVars, AppInv, VideoInv, VideoTypeOK
  <2>2. \A p \in Pictures : Coming(p) => Coming(p)'
    BY <2>1 DEF Proceed, AfterPicture, Coming, ToRender, ToRenderInline, Underway, Queued,
                Handing, Pictures
  <2>3. videoPC' # "signal"
    BY <2>1 DEF Proceed, AfterPicture
  <2> QED BY <2>1, <2>2, <2>3, NothingTakenAway DEF filterVars, pairing, config, intensities
<1> QED BY <1>1, <1>2, <1>3, <1>4

(* What a delivery does in the application.                                *)
LEMMA DeliveredFrame ==
  ASSUME AppInv, Deliver
  PROVE  /\ delivering \in Pictures /\ videoPC = "deliver" /\ videoPC' = "signal"
         /\ stage = "idle"
         /\ received' = [received EXCEPT ![TextureLocation(delivering)] = TRUE]
         /\ locks' = [locks EXCEPT ![TextureLocation(delivering)] = 1]
         /\ left' = [left EXCEPT ![TextureLocation(delivering)] =
                       IF locks[TextureLocation(delivering)] > 0
                       THEN @ + locks[TextureLocation(delivering)] ELSE @]
         /\ stage' = IF received'[0] /\ received'[1] THEN "triangulate" ELSE "idle"
         /\ stage' = "triangulate" => frame'.shapes = {}
         /\ UNCHANGED <<applied, shown, config, videoQueue, videoBlock, delivering, imageFree,
                        detectVars, appVars>>
<1> DEFINE i == TextureLocation(delivering)
<1>1. /\ DeliverPicture /\ NewFrameReady(Indefinite, i)
      /\ UNCHANGED <<detectVars, appVars>>
  BY DEF Deliver
<1>2. i \in Inputs /\ delivering \in Pictures
  BY <1>1 DEF TextureLocation, Inputs, DeliverPicture, AppInv, VideoInv, VideoTypeOK
<1>3. Marked(i) = [received EXCEPT ![i] = TRUE] /\ ~MovieOppositeStill(Indefinite, i)
  BY <1>2, AverageFaceAssumption, MarkedAlone DEF MovieOppositeStill, AppInv, FilterInv
<1>4. ~(received[0] /\ received[1]) /\ stage = "idle"
  BY <1>1 DEF AppInv, FilterInv, ShortCircuitUnused, NewFrameReady
<1>5. stage' = "triangulate" => frame'.shapes = {}
  BY <1>1, <1>4 DEF NewFrameReady, NoFrame
<1> QED BY <1>1, <1>2, <1>3, <1>4, <1>5 DEF NewFrameReady, DeliverPicture

LEMMA DeliverCurrent ==
  ASSUME AppInv, Current, Deliver PROVE Current'
<1>1. /\ delivering \in Pictures /\ videoPC' = "signal" /\ stage = "idle"
      /\ received' = [received EXCEPT ![TextureLocation(delivering)] = TRUE]
      /\ stage' \in {"triangulate", "idle"}
      /\ stage' = "triangulate" => frame'.shapes = {}
      /\ UNCHANGED <<applied, shown, skin, shape, maskImage, missed, mainPC>>
      /\ UNCHANGED <<videoQueue, videoBlock, delivering>>
  BY DeliveredFrame DEF config, intensities, appVars
<1>2. received \in [Inputs -> BOOLEAN] /\ applied = 0
  BY <1>1 DEF AppInv, FilterInv, FilterTypeOK
<1>3. /\ received'[TextureLocation(delivering)]
      /\ \A i \in Inputs : received[i] => received'[i]
  BY <1>1, <1>2 DEF TextureLocation, Inputs
<1>4. ASSUME NEW p \in Pictures, Awaited(p) PROVE Awaited(p)'
  <2>1. CASE p = delivering
    BY <1>1, <1>3, <2>1 DEF Awaited
  <2>2. CASE p # delivering
    <3>1. Coming(p) => Coming(p)'
      BY <1>1, <2>2, DeliveredFrame DEF Coming, ToRender, ToRenderInline, Underway, Queued, Handing
    <3>2. TextureLocation(p) \in Inputs
      BY DEF TextureLocation, Inputs
    <3> QED BY <1>3, <1>4, <3>1, <3>2 DEF Awaited
  <2> QED BY <2>1, <2>2
<1>5. MaskOnItsWay'
  BY <1>1, <1>3, <1>4 DEF Current, MaskOnItsWay
<1>6. LatestOnItsWay'
  <2>1. stage' = "triangulate" => OnTrack'
    BY <1>1, <1>2 DEF OnTrack
  <2> QED BY <1>1, <1>4, <2>1 DEF Current, LatestOnItsWay, Latest
<1> QED BY <1>5, <1>6 DEF Current

LEMMA BuildCurrent ==
  ASSUME AppInv, Current, Build PROVE Current'
<1>1. BuildFrame /\ UNCHANGED <<videoVars, mainPC, missed>>
  BY DEF Build, appVars
<1>2. UNCHANGED <<skin, shape, maskImage>> /\ stage # "idle" /\ ~preventRendering
  BY <1>1 DEF BuildFrame, Triangulate, ApplyFeatures, RenderToTexture, SkipRendering,
              InformTargets, Inform, config, intensities, AppInv, StageInDelivery
<1>3. \A p \in Pictures : Coming(p) => Coming(p)'
  BY <1>1, StillComing DEF videoVars, Queued
<1>4. frame \in Frames /\ shown \in Frames /\ applied \in Nat
  BY DEF AppInv, FilterInv, FilterTypeOK
<1>5. CASE Triangulate
  <2>1. stage = "triangulate" /\ stage' \in {"apply", "crashed"} /\ UNCHANGED <<frame, applied>>
    BY <1>5 DEF Triangulate
  <2> QED BY <1>1, <1>2, <1>3, <2>1 DEF Current, MaskOnItsWay, LatestOnItsWay, OnTrack
<1>6. CASE ApplyFeatures
  <2>1. stage = "apply" /\ stage' \in {"apply", "draw"} /\ frame'.shapes = frame.shapes \cup {shape}
    BY <1>4, <1>6 DEF ApplyFeatures, Frames
  <2> QED BY <1>1, <1>2, <1>3, <2>1 DEF Current, MaskOnItsWay, LatestOnItsWay, OnTrack
<1>7. CASE RenderToTexture
  <2>1. /\ stage = "draw" /\ stage' = "inform" /\ applied' = applied
        /\ frame'.shapes = frame.shapes /\ frame'.skin = skin /\ frame'.mask = maskImage
    BY <1>4, <1>7 DEF RenderToTexture, Frames
  <2> QED BY <1>1, <1>2, <1>3, <2>1 DEF Current, MaskOnItsWay, LatestOnItsWay, OnTrack
<1>8. CASE SkipRendering
  BY <1>2, <1>8 DEF SkipRendering
<1>9. CASE InformTargets
  <2>1. /\ stage = "inform" /\ stage' = "idle" /\ shown' = frame
        /\ applied > 0
    BY <1>9 DEF InformTargets, Inform, AppInv, UniformFrames
  <2>2. OnTrack => Latest'
    BY <1>2, <2>1 DEF OnTrack, Latest
  <2>3. MaskOnItsWay'
    BY <1>2, <2>1 DEF Current, MaskOnItsWay
  <2>4. LatestOnItsWay'
    BY <1>1, <1>2, <1>3, <2>1, <2>2 DEF Current, LatestOnItsWay, Awaited
  <2> QED BY <2>3, <2>4 DEF Current
<1> QED BY <1>1, <1>5, <1>6, <1>7, <1>8, <1>9 DEF BuildFrame

LEMMA CurrentStep == AppInv /\ Current /\ [Next]_vars => Current'
<1> SUFFICES ASSUME AppInv, Current, [Next]_vars PROVE Current'
  OBVIOUS
<1>1. CASE VideoThread
  BY <1>1, BlockStepsCurrent, DeliverCurrent, BuildCurrent DEF VideoThread
<1>2. CASE UNCHANGED vars
  <2>1. \A p \in Pictures : Coming(p) => Coming(p)'
    BY <1>2, StillComing DEF vars, videoVars, appVars, Queued
  <2> QED BY <1>2, <2>1, NothingTakenAway DEF vars, filterVars, videoVars, appVars, pairing,
                                              config, intensities
<1> QED BY <1>1, <1>2, MainThreadCurrent, DetectionThreadCurrent DEF Next

(* Once everything has settled, the view shows a frame with the installed  *)
(* mask and, unless a processImage call was missed, the current            *)
(* intensities: no frame with older ones is the last.                      *)
THEOREM SettledFramesAreCurrent == Spec => []SettledFrameCurrent
<1>1. ASSUME AppInv, Current PROVE SettledFrameCurrent
  <2> SUFFICES ASSUME Settled, maskImage # "none", stage # "crashed"
               PROVE  /\ shown.mask = maskImage
                      /\ ~missed => shown.skin = skin /\ shown.shapes = {shape}
    BY DEF SettledFrameCurrent
  <2>1. videoBlock = "none" /\ delivering = "none" /\ videoQueue = <<>> /\ mainPC = "idle"
    BY <1>1 DEF Settled, AppInv, VideoInv, VideoTypeOK
  <2>2. stage = "idle" /\ ~(received[0] /\ received[1])
    BY <1>1 DEF Settled, AppInv, StageInDelivery, FilterInv, ShortCircuitUnused
  <2>3. \A p \in Pictures : ~Coming(p)
    BY <2>1 DEF Coming, ToRender, ToRenderInline, Underway, Queued, Handing, QueuePC, Pictures
  <2>4. ~ \A p \in Pictures : Awaited(p)
    BY <2>2, <2>3 DEF Awaited, TextureLocation, Pictures
  <2> QED BY <1>1, <2>2, <2>4 DEF Current, MaskOnItsWay, LatestOnItsWay, Latest
<1> QED BY <1>1, AppInvariant, CurrentInit, CurrentStep, PTL DEF Spec

-----------------------------------------------------------------------------
(* Locks left behind.  As long as no processImage call is discarded, the   *)
(* main thread renders the two pictures in turn, and they are delivered in *)
(* that order; only the mask block delivers on its own.                    *)

Other(p) == IF p = "mine" THEN "model" ELSE "mine"

(* The picture the main thread will queue next, and the pictures it queued *)
(* that have not been delivered.                                           *)
NextQueued == IF mainPC \in {"renderModel", "queueModel"} THEN "model" ELSE "mine"
InBlock(p) == videoPC = "deliver" /\ videoBlock = p
Undelivered(p) == Queued(p) \/ InBlock(p)

Ahead(p, q) ==
  \A j, k \in 1 .. Len(videoQueue) : videoQueue[j] = p /\ videoQueue[k] = q => j < k

InTurn ==
  /\ \A p \in Pictures : Undelivered(p) => Undelivered(Other(NextQueued))
  /\ Undelivered(NextQueued) =>
       \/ InBlock(NextQueued)
       \/ ~InBlock(Other(NextQueued)) /\ Ahead(NextQueued, Other(NextQueued))

(* The picture of the main thread that is delivered next.                  *)
NextServed ==
  IF Undelivered(Other(NextQueued)) /\ ~Undelivered(NextQueued)
  THEN Other(NextQueued) ELSE NextQueued

WaitsAlone(p) == received[TextureLocation(p)] /\ ~received[TextureLocation(Other(p))]
NoneWaits == ~WaitsAlone("mine") /\ ~WaitsAlone("model")

(* The mask block has delivered its first picture, not yet its second.     *)
Between ==
  /\ videoBlock = "mask"
  /\ \/ delivering = "mine" /\ videoPC = "signal"
     \/ videoPC = "processModel"
     \/ delivering = "model" /\ videoPC = "deliver"

(* The mask block has made both deliveries.                                *)
MaskOver == maskImage # "none" /\ (videoBlock = "mask" => delivering = "model" /\ videoPC = "signal")

(* The filter is in step with the main thread, or one picture ahead.       *)
InStep == IF NextServed = "mine" THEN NoneWaits ELSE WaitsAlone("mine")
OneAhead == IF NextServed = "model" THEN NoneWaits ELSE WaitsAlone("model")

Lost == left[0] + left[1]

(* The mask block catches the filter in step.  When it comes between the   *)
(* two calls of a slider callback its first delivery leaves a lock behind, *)
(* and from then on the filter is one picture ahead.                       *)
LossesCounted ==
  /\ Between => WaitsAlone("mine") /\ Lost = (IF NextServed = "mine" THEN 0 ELSE 1)
  /\ ~Between => \/ InStep /\ Lost = 0
                 \/ OneAhead /\ MaskOver /\ Lost = 1

MaskOnce ==
  /\ Queued("mask") => maskImage = "none" /\ videoBlock # "mask"
  /\ videoBlock = "mask" => (videoPC = "setMask" <=> maskImage = "none")

BothWhileBuilding == stage # "idle" => received[0] /\ received[1]

TurnInv == MaskOnce /\ BothWhileBuilding /\ (~discarded => InTurn /\ LossesCounted)

LEMMA PictureNames ==
  ASSUME NEW p \in Pictures
  PROVE  /\ Other(p) \in Pictures /\ Other(Other(p)) = p /\ Other(p) # p
         /\ p = "mine" \/ p = "model"
         /\ TextureLocation(p) \in Inputs
         /\ TextureLocation(Other(p)) \in Inputs
         /\ TextureLocation(Other(p)) # TextureLocation(p)
BY DEF Other, TextureLocation, Inputs, Pictures

LEMMA NextInPictures == NextQueued \in Pictures /\ NextServed \in Pictures
BY DEF NextQueued, NextServed, Other, Pictures

(* The deliveries depend on the queue only through who is undelivered.     *)
LEMMA TurnStutter ==
  ASSUME TurnInv, UNCHANGED <<received, left, stage, maskImage, mainPC>>,
         UNCHANGED <<videoQueue, videoBlock, videoPC, delivering>>,
         discarded => discarded'
  PROVE  TurnInv'
<1>1. UNCHANGED <<NextServed, NextQueued>> /\ \A p : Queued(p)' = Queued(p) /\ InBlock(p)' = InBlock(p)
  BY DEF NextServed, NextQueued, Undelivered, InBlock, Queued
<1>2. MaskOnce' /\ BothWhileBuilding'
  BY <1>1 DEF TurnInv, MaskOnce, BothWhileBuilding
<1>3. InTurn => InTurn'
  BY <1>1 DEF InTurn, Undelivered, Ahead
<1>4. LossesCounted => LossesCounted'
  BY <1>1 DEF LossesCounted, Between, MaskOver, InStep, OneAhead, NoneWaits, WaitsAlone, Lost
<1> QED BY <1>2, <1>3, <1>4 DEF TurnInv

LEMMA TurnInit == Init => TurnInv
<1> SUFFICES ASSUME Init PROVE TurnInv
  OBVIOUS
<1>1. videoQueue = <<>> /\ videoBlock = "none" /\ videoPC = "wait" /\ mainPC = "viewWillAppear"
      /\ received = [i \in Inputs |-> FALSE] /\ stage = "idle" /\ left = [i \in Inputs |-> 0]
  BY DEF Init, VideoInit, FilterInit
<1>2. ~Queued("mask") /\ \A p \in Pictures : ~Undelivered(p)
  BY <1>1 DEF Undelivered, Queued, InBlock
<1>3. NextQueued = "mine" /\ NextServed = "mine" /\ Lost = 0 /\ ~Between
  BY <1>1, <1>2 DEF NextQueued, NextServed, Other, Pictures, Lost, Inputs, Between
<1>4. NoneWaits
  BY <1>1 DEF NoneWaits, WaitsAlone, TextureLocation, Other, Inputs
<1>5. InTurn
  BY <1>2, <1>3 DEF InTurn, Other, Pictures
<1>6. MaskOnce /\ BothWhileBuilding
  BY <1>1, <1>2 DEF MaskOnce, BothWhileBuilding
<1>7. LossesCounted
  BY <1>3, <1>4 DEF LossesCounted, InStep
<1> QED BY <1>5, <1>6, <1>7 DEF TurnInv

(* The main thread.                                                        *)
LEMMA MainThreadTurn ==
  ASSUME AppInv, TurnInv, MainThread \/ MoveSlider PROVE TurnInv'
<1>1. CASE ViewWillAppear \/ MoveSlider \/ \E p \in Pictures : RenderPicture(p)
  <2>1. /\ UNCHANGED <<received, left, stage, maskImage>> /\ discarded' = discarded
        /\ UNCHANGED <<videoQueue, videoBlock, videoPC, delivering>>
    BY <1>1 DEF ViewWillAppear, MoveSlider, RenderPicture, SetSkinIntensity, SetShapeIntensity,
                filterVars, videoVars, pairing, building, config
  <2>2. NextQueued' = NextQueued
    BY <1>1 DEF ViewWillAppear, MoveSlider, RenderPicture, NextQueued, RenderPC, QueuePC, Pictures
  <2>3. NextServed' = NextServed /\ \A p : Queued(p)' = Queued(p) /\ InBlock(p)' = InBlock(p)
    BY <2>1, <2>2 DEF NextServed, Undelivered, InBlock, Queued
  <2>4. MaskOnce' /\ BothWhileBuilding'
    BY <2>1, <2>3 DEF TurnInv, MaskOnce, BothWhileBuilding
  <2>5. InTurn => InTurn'
    BY <2>1, <2>2, <2>3 DEF InTurn, Undelivered, Ahead
  <2>6. LossesCounted => LossesCounted'
    BY <2>1, <2>3 DEF LossesCounted, Between, MaskOver, InStep, OneAhead, NoneWaits, WaitsAlone, Lost
  <2> QED BY <2>1, <2>4, <2>5, <2>6 DEF TurnInv
<1>2. ASSUME NEW p \in Pictures, QueuePicture(p) PROVE TurnInv'
  <2>1. /\ videoQueue' = Append(videoQueue, p) /\ mainPC = QueuePC[p] /\ mainPC' = AfterRender(p)
        /\ UNCHANGED <<received, left, stage, maskImage, discarded>>
        /\ UNCHANGED <<videoBlock, videoPC, delivering>>
    BY <1>2 DEF QueuePicture, RunOnVideoQueue, filterVars, pairing, building, config
  <2>2. p \in Blocks /\ p # "mask"
    BY DEF Blocks, Pictures
  <2>3. /\ Len(videoQueue) \in Nat /\ Len(videoQueue') = Len(videoQueue) + 1
        /\ \A k \in 1 .. Len(videoQueue) : videoQueue'[k] = videoQueue[k]
        /\ videoQueue'[Len(videoQueue) + 1] = p
        /\ \A c : Queued(c)' <=> Queued(c) \/ c = p
    BY <2>1, <2>2, AppendedQueue DEF AppInv, VideoInv
  <2>4. NextQueued = p /\ NextQueued' = Other(p) /\ Other(Other(p)) = p /\ Other(p) # p
    BY <2>1 DEF NextQueued, QueuePC, AfterRender, Other, Pictures
  <2>5. ~Undelivered(p)
    <3>1. ~Queued(p) /\ delivering # p
      BY <2>1 DEF AppInv, VideoInv, SemaphoreDiscipline, Handing
    <3>2. InBlock(p) => delivering = p
      BY <2>2 DEF InBlock, AppInv, VideoInv, VideoTypeOK
    <3> QED BY <3>1, <3>2 DEF Undelivered
  <2>6. \A c : InBlock(c)' <=> InBlock(c)
    BY <2>1 DEF InBlock
  <2>7. Undelivered(p)' /\ (Undelivered(Other(p))' <=> Undelivered(Other(p)))
    BY <2>3, <2>4, <2>6 DEF Undelivered
  <2>8. NextServed' = NextServed
    BY <2>4, <2>5, <2>7 DEF NextServed
  <2>9. InTurn => InTurn'
    <3>1. Ahead(Other(p), p)'
      <4>1. ASSUME NEW j \in 1 .. Len(videoQueue'), NEW k \in 1 .. Len(videoQueue'),
                   videoQueue'[j] = Other(p), videoQueue'[k] = p
            PROVE  j < k
        <5>1. k = Len(videoQueue) + 1
          BY <2>3, <2>5, <4>1 DEF Undelivered, Queued
        <5>2. j # k
          BY <2>4, <4>1
        <5> QED BY <2>3, <5>1, <5>2
      <4> QED BY <4>1 DEF Ahead
    <3>2. ~InBlock(p)'
      BY <2>5, <2>6 DEF Undelivered
    <3> QED BY <2>4, <2>7, <3>1, <3>2 DEF InTurn
  <2>10. MaskOnce' /\ BothWhileBuilding'
    BY <2>1, <2>2, <2>3 DEF TurnInv, MaskOnce, BothWhileBuilding
  <2>11. LossesCounted => LossesCounted'
    BY <2>1, <2>8 DEF LossesCounted, Between, MaskOver, InStep, OneAhead, NoneWaits, WaitsAlone, Lost
  <2> QED BY <2>1, <2>9, <2>10, <2>11 DEF TurnInv
<1>3. ASSUME NEW p \in Pictures, DiscardPicture(p) PROVE TurnInv'
  BY <1>3 DEF DiscardPicture, TurnInv, MaskOnce, BothWhileBuilding, Queued, filterVars, videoVars,
              pairing, building, config
<1> QED BY <1>1, <1>2, <1>3 DEF MainThread, Render

LEMMA DetectionThreadTurn ==
  ASSUME AppInv, TurnInv, DetectionThread PROVE TurnInv'
<1>1. /\ UNCHANGED <<received, left, stage, maskImage, mainPC, discarded>>
      /\ UNCHANGED <<videoPC, videoBlock, delivering>>
  BY DEF DetectionThread, RunDetection, MineDetected, RequestModel, CompleteMine, ModelDetected,
         Normalize, DispatchMask, SetFaceFeatureMine, SetFaceFeatureModel, NormalizePhotos,
         CopyFeatures, NormalizeFeature, RunOnVideoQueue, filterVars, videoVars, appVars, config,
         pairing, building
<1>2. CASE DispatchMask
  <2>1. /\ videoQueue' = Append(videoQueue, "mask") /\ "mask" \in Blocks
        /\ "mask" \notin Pictures
    BY <1>2 DEF DispatchMask, RunOnVideoQueue, Blocks, Pictures
  <2>2. /\ Len(videoQueue) \in Nat /\ Len(videoQueue') = Len(videoQueue) + 1
        /\ \A k \in 1 .. Len(videoQueue) : videoQueue'[k] = videoQueue[k]
        /\ videoQueue'[Len(videoQueue) + 1] = "mask"
        /\ \A c : Queued(c)' <=> Queued(c) \/ c = "mask"
    BY <2>1, AppendedQueue DEF AppInv, VideoInv
  <2>3. ~MaskComing
    BY <1>2 DEF DispatchMask, AppInv, ConfigurationOrder
  <2>4. NextQueued' = NextQueued /\ NextQueued \in Pictures /\ Other(NextQueued) \in Pictures
    BY <1>1, NextInPictures, PictureNames DEF NextQueued
  <2>5. \A p \in Pictures : (Undelivered(p)' <=> Undelivered(p)) /\ (InBlock(p)' <=> InBlock(p))
    BY <1>1, <2>1, <2>2 DEF Undelivered, InBlock
  <2>6. NextServed' = NextServed
    BY <2>4, <2>5 DEF NextServed
  <2>7. \A p, q \in Pictures : Ahead(p, q) => Ahead(p, q)'
    BY <2>1, <2>2 DEF Ahead
  <2>8. InTurn => InTurn'
    BY <2>4, <2>5, <2>7 DEF InTurn
  <2>9. MaskOnce' /\ BothWhileBuilding'
    BY <1>1, <2>3 DEF TurnInv, MaskOnce, BothWhileBuilding, MaskComing
  <2>10. LossesCounted => LossesCounted'
    BY <1>1, <2>6 DEF LossesCounted, Between, MaskOver, InStep, OneAhead, NoneWaits, WaitsAlone, Lost
  <2> QED BY <1>1, <2>8, <2>9, <2>10 DEF TurnInv
<1>3. CASE ~DispatchMask
  <2>1. UNCHANGED videoQueue
    BY <1>3 DEF DetectionThread, RunDetection, MineDetected, RequestModel, CompleteMine,
                ModelDetected, Normalize, videoVars
  <2> QED BY <1>1, <2>1, TurnStutter
<1> QED BY <1>2, <1>3

(* The video queue.                                                        *)
LEMMA RunBlockTurn ==
  ASSUME AppInv, TurnInv, RunBlock PROVE TurnInv'
<1>1. PICK b \in Blocks : b = Head(videoQueue)
  BY DEF RunBlock, StartBlock, AppInv, VideoInv, VideoTypeOK
<1>2. /\ videoQueue' = Tail(videoQueue) /\ videoBlock' = b
      /\ videoPC' = IF b = "mask" THEN "setMask" ELSE "deliver"
      /\ videoPC = "wait" /\ videoBlock = "none" /\ delivering = "none"
      /\ UNCHANGED <<received, left, stage, maskImage, mainPC, discarded>>
  BY <1>1 DEF RunBlock, StartBlock, filterVars, pairing, building, config, appVars,
              AppInv, VideoInv, VideoTypeOK
<1>3. /\ Len(videoQueue) \in Nat \ {0} /\ Len(videoQueue') = Len(videoQueue) - 1
      /\ \A k \in 1 .. Len(videoQueue) - 1 : videoQueue'[k] = videoQueue[k + 1]
      /\ videoQueue[1] = b
  BY <1>1 DEF RunBlock, StartBlock, AppInv, VideoInv, VideoTypeOK
<1>4. ~Queued(b)' /\ Queued(b)
  BY <1>3 DEF AppInv, VideoInv, SemaphoreDiscipline, Queued
<1>5. ASSUME NEW c, c # b PROVE Queued(c)' <=> Queued(c)
  <2>1. ASSUME NEW k \in 1 .. Len(videoQueue), videoQueue[k] = c
        PROVE  k - 1 \in 1 .. Len(videoQueue') /\ videoQueue'[k - 1] = c
    BY <1>3, <1>5, <2>1
  <2>2. ASSUME NEW k \in 1 .. Len(videoQueue'), videoQueue'[k] = c
        PROVE  k + 1 \in 1 .. Len(videoQueue) /\ videoQueue[k + 1] = c
    BY <1>3, <2>2
  <2> QED BY <2>1, <2>2 DEF Queued
<1>6. \A p \in Pictures : p # "mask" /\ p # "none"
  BY DEF Pictures
<1>7. \A p \in Pictures : ~InBlock(p) /\ (InBlock(p)' <=> p = b)
  BY <1>2, <1>6 DEF InBlock
<1>8. \A p \in Pictures : Undelivered(p)' <=> Undelivered(p)
  BY <1>4, <1>5, <1>7 DEF Undelivered
<1>9. NextQueued' = NextQueued /\ NextQueued \in Pictures /\ Other(NextQueued) \in Pictures
      /\ Other(NextQueued) # NextQueued
  BY <1>2, NextInPictures, PictureNames DEF NextQueued
<1>10. NextServed' = NextServed
  BY <1>8, <1>9 DEF NextServed
<1>11. \A p, q \in Pictures : Ahead(p, q) => Ahead(p, q)'
  <2> SUFFICES ASSUME NEW p \in Pictures, NEW q \in Pictures, Ahead(p, q),
                      NEW j \in 1 .. Len(videoQueue'), NEW k \in 1 .. Len(videoQueue'),
                      videoQueue'[j] = p, videoQueue'[k] = q
               PROVE  j < k
    BY DEF Ahead
  <2>1. /\ j + 1 \in 1 .. Len(videoQueue) /\ k + 1 \in 1 .. Len(videoQueue)
        /\ videoQueue[j + 1] = p /\ videoQueue[k + 1] = q
    BY <1>3
  <2>2. j + 1 < k + 1
    BY <2>1 DEF Ahead
  <2> QED BY <2>2
<1>12. InTurn => InTurn'
  <2> SUFFICES ASSUME InTurn, Undelivered(NextQueued), ~InBlock(NextQueued)'
               PROVE  ~InBlock(Other(NextQueued))' /\ Ahead(NextQueued, Other(NextQueued))'
    BY <1>8, <1>9 DEF InTurn
  <2>1. Ahead(NextQueued, Other(NextQueued)) /\ Queued(NextQueued)
    BY <1>7, <1>9 DEF InTurn, Undelivered
  <2>2. b # Other(NextQueued)
    <3>1. PICK k \in 1 .. Len(videoQueue) : videoQueue[k] = NextQueued
      BY <2>1 DEF Queued
    <3>2. 1 \in 1 .. Len(videoQueue) /\ ~(k < 1)
      BY <1>3
    <3> QED BY <1>3, <2>1, <3>1, <3>2 DEF Ahead
  <2> QED BY <1>7, <1>9, <1>11, <2>1, <2>2
<1>13. MaskOnce' /\ BothWhileBuilding'
  <2>1. Queued("mask")' => b # "mask" /\ Queued("mask")
    BY <1>4, <1>5
  <2>2. b = "mask" => maskImage = "none"
    BY <1>4 DEF TurnInv, MaskOnce
  <2> QED BY <1>2, <2>1, <2>2 DEF TurnInv, MaskOnce, BothWhileBuilding
<1>14. LossesCounted => LossesCounted'
  <2>1. ~Between
    BY <1>2 DEF Between
  <2>2. ~Between'
    BY <1>2 DEF Between
  <2>3. MaskOver => MaskOver'
    BY <1>2, <1>4 DEF MaskOver, TurnInv, MaskOnce
  <2> QED BY <1>2, <1>10, <2>1, <2>2, <2>3
          DEF LossesCounted, InStep, OneAhead, NoneWaits, WaitsAlone, Lost
<1> QED BY <1>2, <1>12, <1>13, <1>14 DEF TurnInv

LEMMA InBlockTurn ==
  ASSUME AppInv, TurnInv, InstallMask \/ RenderInline \/ Signal PROVE TurnInv'
<1>1. /\ UNCHANGED <<received, left, stage, mainPC, videoQueue>>
      /\ discarded => discarded'
  <2>1. CASE InstallMask
    BY <2>1 DEF InstallMask, SetMaskImage, pairing, building, appVars
  <2>2. CASE RenderInline
    BY <2>2 DEF RenderInline, ProcessPictureInline, filterVars, pairing, building
  <2>3. CASE Signal
    BY <2>3 DEF Signal, SignalPicture, filterVars, pairing, building, appVars
  <2> QED BY <2>1, <2>2, <2>3
<1>2. \A p : Queued(p)' <=> Queued(p)
  BY <1>1 DEF Queued
<1>3. \A p \in Pictures : ~InBlock(p) /\ ~InBlock(p)'
  <2>1. CASE InstallMask
    BY <2>1 DEF InBlock, InstallMask
  <2>2. CASE RenderInline
    <3>1. videoBlock = "mask" /\ videoBlock' \in {"mask", "none"}
      BY <2>2 DEF RenderInline, ProcessPictureInline, Proceed, AppInv, VideoInv, VideoTypeOK
    <3> QED BY <3>1 DEF InBlock, Pictures
  <2>3. CASE Signal
    BY <2>3 DEF Signal, SignalPicture, Proceed, AfterPicture, InBlock
  <2> QED BY <2>1, <2>2, <2>3
<1>4. NextQueued' = NextQueued /\ NextQueued \in Pictures /\ Other(NextQueued) \in Pictures
  BY <1>1, NextInPictures, PictureNames DEF NextQueued
<1>5. NextServed' = NextServed /\ \A p \in Pictures : Undelivered(p)' <=> Undelivered(p)
  BY <1>2, <1>3, <1>4 DEF NextServed, Undelivered
<1>6. InTurn => InTurn'
  BY <1>1, <1>3, <1>4, <1>5 DEF InTurn, Ahead
<1>7. BothWhileBuilding'
  BY <1>1 DEF TurnInv, BothWhileBuilding
<1>8. LossesCounted /\ (Between' <=> Between) /\ (MaskOver => MaskOver') => LossesCounted'
  BY <1>1, <1>5 DEF LossesCounted, InStep, OneAhead, NoneWaits, WaitsAlone, Lost
<1>9. CASE InstallMask
  <2>1. /\ videoPC = "setMask" /\ videoPC' = "processMine" /\ maskImage' # "none"
        /\ videoBlock' = "mask" /\ videoBlock = "mask" /\ discarded' = discarded
        /\ delivering = "none" /\ delivering' = "none"
    BY <1>9 DEF InstallMask, SetMaskImage, AppInv, VideoInv, VideoTypeOK, appVars
  <2>2. MaskOnce'
    BY <1>2, <2>1 DEF TurnInv, MaskOnce
  <2>3. ~Between /\ ~Between' /\ ~MaskOver
    BY <2>1 DEF Between, MaskOver
  <2> QED BY <1>6, <1>7, <1>8, <2>1, <2>2, <2>3 DEF TurnInv
<1>10. CASE RenderInline
  <2>1. PICK p \in Pictures : ProcessPictureInline(p) /\ discarded' = (discarded \/ ~imageFree[p])
    BY <1>10 DEF RenderInline
  <2>2. /\ videoPC = IF p = "mine" THEN "processMine" ELSE "processModel"
        /\ videoBlock = "mask" /\ delivering = "none" /\ maskImage' = maskImage
    BY <1>10, <2>1 DEF RenderInline, ProcessPictureInline, AppInv, VideoInv, VideoTypeOK,
                       filterVars, config
  <2>3. maskImage # "none"
    BY <2>2 DEF TurnInv, MaskOnce
  <2>4. MaskOnce'
    BY <1>2, <2>1, <2>2, <2>3 DEF TurnInv, MaskOnce, ProcessPictureInline, Proceed, AfterPicture
  <2>5. ASSUME ~discarded' PROVE (Between' <=> Between) /\ ~MaskOver
    <3>1. videoPC' = "deliver" /\ delivering' = p /\ videoBlock' = "mask"
      BY <2>1, <2>2, <2>5 DEF ProcessPictureInline
    <3> QED BY <2>2, <3>1 DEF Between, MaskOver, Pictures
  <2> QED BY <1>1, <1>6, <1>7, <1>8, <2>4, <2>5 DEF TurnInv
<1>11. CASE Signal
  <2>1. /\ videoPC = "signal" /\ delivering \in Pictures /\ videoPC' = AfterPicture(delivering)
        /\ delivering' = "none" /\ maskImage' = maskImage /\ discarded' = discarded
        /\ videoBlock' = IF AfterPicture(delivering) = "wait" THEN "none" ELSE videoBlock
    BY <1>11 DEF Signal, SignalPicture, Proceed, AppInv, VideoInv, VideoTypeOK, filterVars, config,
                 appVars
  <2>2. videoBlock = "mask" => maskImage # "none"
    BY <2>1 DEF TurnInv, MaskOnce
  <2>3. MaskOnce'
    BY <1>2, <2>1, <2>2 DEF TurnInv, MaskOnce, AfterPicture
  <2>4. Between' <=> Between
    BY <2>1 DEF Between, AfterPicture, Pictures
  <2>5. MaskOver => MaskOver'
    BY <2>1 DEF MaskOver, AfterPicture
  <2> QED BY <1>6, <1>7, <1>8, <2>1, <2>3, <2>4, <2>5 DEF TurnInv
<1> QED BY <1>9, <1>10, <1>11

(* A delivery loses a lock exactly when its input already waits.           *)
LEMMA DeliverLoses ==
  ASSUME AppInv, Deliver
  PROVE  /\ left' = [left EXCEPT ![TextureLocation(delivering)] =
                       IF received[TextureLocation(delivering)] THEN @ + 1 ELSE @]
         /\ left[0] \in Nat /\ left[1] \in Nat
         /\ Lost' = IF received[TextureLocation(delivering)] THEN Lost + 1 ELSE Lost
<1>1. TextureLocation(delivering) \in Inputs /\ 0 \in Inputs /\ 1 \in Inputs
  BY DeliveredFrame, PictureNames DEF Inputs
<1>2. left \in [Inputs -> Nat] /\ received \in [Inputs -> BOOLEAN]
  BY DEF AppInv, FilterInv, FilterTypeOK
<1>3. \A i \in Inputs : locks[i] = IF received[i] THEN 1 ELSE 0
  BY DeliveredFrame DEF AppInv, PairedLocks
<1>4. left' = [left EXCEPT ![TextureLocation(delivering)] =
                 IF received[TextureLocation(delivering)] THEN @ + 1 ELSE @]
  BY <1>1, <1>2, <1>3, DeliveredFrame
<1> QED BY <1>1, <1>2, <1>4 DEF Lost, Inputs

LEMMA DeliverTurn ==
  ASSUME AppInv, TurnInv, Deliver PROVE TurnInv'
<1>0. PICK p \in Pictures : p = delivering
  BY DeliveredFrame
<1>1. /\ delivering = p /\ delivering' = p /\ videoPC = "deliver" /\ videoPC' = "signal" /\ stage = "idle"
      /\ received' = [received EXCEPT ![TextureLocation(p)] = TRUE]
      /\ stage' = IF received'[0] /\ received'[1] THEN "triangulate" ELSE "idle"
      /\ UNCHANGED <<maskImage, mainPC, discarded, videoQueue, videoBlock>>
  BY <1>0, DeliveredFrame DEF config, appVars
<1>2. /\ Other(p) \in Pictures /\ Other(Other(p)) = p /\ Other(p) # p
      /\ p = "mine" \/ p = "model"
  BY PictureNames
<1>3. Lost' = (IF received[TextureLocation(p)] THEN Lost + 1 ELSE Lost) /\ Lost \in Nat
  BY <1>1, DeliverLoses DEF Lost
<1>4. /\ received[TextureLocation(p)] <=> WaitsAlone(p)
      /\ received[TextureLocation(Other(p))] <=> WaitsAlone(Other(p))
      /\ ~(WaitsAlone(p) /\ WaitsAlone(Other(p)))
  <2>1. ~(received[0] /\ received[1])
    BY <1>1 DEF AppInv, FilterInv, ShortCircuitUnused
  <2> QED BY <1>1, <2>1 DEF WaitsAlone, TextureLocation, Other, Pictures
<1>5. /\ received'[TextureLocation(p)]
      /\ received'[TextureLocation(Other(p))] = received[TextureLocation(Other(p))]
  BY <1>1, PictureNames DEF AppInv, FilterInv, FilterTypeOK
<1>6. /\ WaitsAlone(p)' <=> ~WaitsAlone(Other(p))
      /\ ~WaitsAlone(Other(p))'
  BY <1>1, <1>2, <1>4, <1>5 DEF WaitsAlone
<1>7. MaskOnce' /\ BothWhileBuilding'
  BY <1>1 DEF TurnInv, MaskOnce, BothWhileBuilding, Queued
<1>8. \A c : Queued(c)' <=> Queued(c)
  BY <1>1 DEF Queued
<1>9. NextQueued' = NextQueued /\ NextQueued \in Pictures /\ NextQueued \in {p, Other(p)}
  BY <1>1, <1>2, NextInPictures DEF NextQueued, Pictures, Other
<1>10. ~Queued(p) /\ (videoBlock = p \/ videoBlock = "mask")
  BY <1>1 DEF AppInv, VideoInv, SemaphoreDiscipline, VideoTypeOK, Pictures
<1>11. \A c : ~InBlock(c)'
  BY <1>1 DEF InBlock
<1>12. CASE videoBlock = p
  <2>1. InBlock(p) /\ ~InBlock(Other(p)) /\ Undelivered(p) /\ ~Undelivered(p)'
        /\ (Undelivered(Other(p))' <=> Undelivered(Other(p)))
    BY <1>1, <1>2, <1>8, <1>10, <1>11, <1>12 DEF InBlock, Undelivered
  <2>2. ~Between /\ ~Between' /\ (MaskOver => MaskOver')
    BY <1>1, <1>12 DEF Between, MaskOver, Pictures
  <2>3. ASSUME InTurn PROVE NextServed = p /\ NextServed' = Other(p) /\ InTurn'
    <3>1. CASE NextQueued = p
      <4>1. Undelivered(Other(p))
        BY <2>1, <2>3, <3>1 DEF InTurn
      <4>2. NextServed = p /\ NextServed' = Other(p)
        BY <1>9, <2>1, <3>1, <4>1 DEF NextServed
      <4>3. InTurn'
        BY <1>2, <1>9, <2>1, <3>1, <4>1 DEF InTurn, Pictures
      <4> QED BY <4>2, <4>3
    <3>2. CASE NextQueued = Other(p)
      <4>1. ~Undelivered(Other(p))
        BY <1>2, <2>1, <2>3, <3>2 DEF InTurn
      <4>2. NextServed = p /\ NextServed' = Other(p)
        BY <1>2, <1>9, <2>1, <3>2, <4>1 DEF NextServed
      <4>3. \A c \in Pictures : ~Undelivered(c)'
        BY <1>1, <1>2, <2>1, <4>1 DEF Pictures, Other
      <4>4. InTurn'
        BY <1>9, <4>3 DEF InTurn
      <4> QED BY <4>2, <4>4
    <3> QED BY <1>9, <3>1, <3>2
  <2>4. ASSUME InTurn, LossesCounted PROVE LossesCounted'
    <3>1. CASE InStep /\ Lost = 0
      <4>1. ~WaitsAlone(p) /\ (p = "model" => WaitsAlone("mine")) /\ (p = "mine" => ~WaitsAlone("model"))
        BY <1>2, <1>4, <2>3, <2>4, <3>1 DEF InStep, NoneWaits, Other
      <4>2. InStep' /\ Lost' = 0
        BY <1>2, <1>3, <1>4, <1>6, <2>3, <2>4, <3>1, <4>1 DEF InStep, NoneWaits, Other
      <4> QED BY <2>2, <4>2 DEF LossesCounted
    <3>2. CASE OneAhead /\ MaskOver /\ Lost = 1
      <4>1. ~WaitsAlone(p) /\ (p = "mine" => WaitsAlone("model")) /\ (p = "model" => ~WaitsAlone("mine"))
        BY <1>2, <1>4, <2>3, <2>4, <3>2 DEF OneAhead, NoneWaits, Other
      <4>2. OneAhead' /\ Lost' = 1
        BY <1>2, <1>3, <1>4, <1>6, <2>3, <2>4, <3>2, <4>1 DEF OneAhead, NoneWaits, Other
      <4> QED BY <2>2, <3>2, <4>2 DEF LossesCounted
    <3> QED BY <2>2, <2>4, <3>1, <3>2 DEF LossesCounted
  <2> QED BY <1>1, <1>7, <2>3, <2>4 DEF TurnInv
<1>13. CASE videoBlock = "mask"
  <2>1. \A c \in Pictures : ~InBlock(c)
    BY <1>13 DEF InBlock, Pictures
  <2>2. \A c \in Pictures : Undelivered(c)' <=> Undelivered(c)
    BY <1>8, <1>11, <2>1 DEF Undelivered
  <2>3. NextServed' = NextServed /\ Other(NextQueued) \in Pictures
    BY <1>2, <1>9, <2>2 DEF NextServed
  <2>4. InTurn => InTurn'
    BY <1>1, <1>9, <1>11, <2>1, <2>2, <2>3 DEF InTurn, Ahead
  <2>5. NextServed = "mine" \/ NextServed = "model"
    BY NextInPictures DEF Pictures
  <2>6. ASSUME LossesCounted PROVE LossesCounted'
    <3>1. CASE p = "mine"
      <4>1. ~Between /\ Between' /\ ~MaskOver
        BY <1>1, <1>13, <3>1 DEF Between, MaskOver
      <4>2. InStep /\ Lost = 0
        BY <2>6, <4>1 DEF LossesCounted
      <4>3. ~WaitsAlone("model") /\ (NextServed = "mine" <=> ~WaitsAlone("mine"))
        BY <1>4, <2>5, <3>1, <4>2 DEF InStep, NoneWaits, Other
      <4>4. WaitsAlone("mine")' /\ Lost' = IF NextServed = "mine" THEN 0 ELSE 1
        BY <1>3, <1>4, <1>6, <3>1, <4>2, <4>3 DEF Other
      <4> QED BY <2>3, <4>1, <4>4 DEF LossesCounted
    <3>2. CASE p = "model"
      <4>1. Between /\ ~Between' /\ (maskImage # "none" => MaskOver')
        BY <1>1, <1>13, <3>2 DEF Between, MaskOver
      <4>2. maskImage # "none"
        BY <1>1, <1>13 DEF TurnInv, MaskOnce
      <4>3. WaitsAlone("mine") /\ Lost = IF NextServed = "mine" THEN 0 ELSE 1
        BY <2>6, <4>1 DEF LossesCounted
      <4>4. ~WaitsAlone("mine")' /\ ~WaitsAlone("model")' /\ Lost' = Lost
        BY <1>3, <1>4, <1>6, <3>2, <4>3 DEF Other
      <4>5. IF NextServed = "mine" THEN InStep' /\ Lost' = 0 ELSE OneAhead' /\ Lost' = 1
        BY <2>3, <2>5, <4>3, <4>4 DEF InStep, OneAhead, NoneWaits
      <4> QED BY <4>1, <4>2, <4>5 DEF LossesCounted
    <3> QED BY <1>2, <3>1, <3>2
  <2> QED BY <1>1, <1>7, <2>4, <2>6 DEF TurnInv
<1> QED BY <1>10, <1>12, <1>13

LEMMA BuildTurn ==
  ASSUME AppInv, TurnInv, Build PROVE TurnInv'
<1>1. /\ BuildFrame /\ stage # "idle"
      /\ UNCHANGED <<left, maskImage, mainPC, discarded, videoQueue, videoBlock, videoPC, delivering>>
  BY DEF Build, BuildFrame, Triangulate, ApplyFeatures, RenderToTexture, SkipRendering,
         InformTargets, Inform, pairing, config, videoVars, appVars
<1>2. CASE received' = received
  <2>1. TurnInv /\ BothWhileBuilding'
    BY <1>1, <1>2 DEF TurnInv, BothWhileBuilding
  <2>2. UNCHANGED <<NextServed, NextQueued>> /\ \A c : Queued(c)' = Queued(c) /\ InBlock(c)' = InBlock(c)
    BY <1>1 DEF NextServed, NextQueued, Undelivered, InBlock, Queued
  <2>3. MaskOnce' /\ (InTurn => InTurn')
    BY <1>1, <2>2 DEF TurnInv, MaskOnce, InTurn, Undelivered, Ahead
  <2>4. LossesCounted => LossesCounted'
    BY <1>1, <1>2, <2>2
       DEF LossesCounted, Between, MaskOver, InStep, OneAhead, NoneWaits, WaitsAlone, Lost
  <2> QED BY <1>1, <2>1, <2>3, <2>4 DEF TurnInv
<1>3. CASE received' # received
  <2>1. InformTargets
    BY <1>1, <1>3 DEF BuildFrame, Triangulate, ApplyFeatures, RenderToTexture, SkipRendering, pairing
  <2>2. stage' = "idle" /\ \A i \in Inputs : ~received'[i]
    BY <2>1 DEF InformTargets, Inform, NoFlags
  <2>3. received[0] /\ received[1]
    BY <1>1 DEF TurnInv, BothWhileBuilding
  <2>4. NoneWaits /\ NoneWaits' /\ ~WaitsAlone("mine") /\ ~WaitsAlone("mine")' /\ ~WaitsAlone("model")
        /\ ~WaitsAlone("model")'
    BY <2>2, <2>3 DEF NoneWaits, WaitsAlone, TextureLocation, Other, Inputs
  <2>5. UNCHANGED <<NextServed, NextQueued>> /\ \A c : Queued(c)' = Queued(c) /\ InBlock(c)' = InBlock(c)
    BY <1>1 DEF NextServed, NextQueued, Undelivered, InBlock, Queued
  <2>6. MaskOnce' /\ (InTurn => InTurn') /\ BothWhileBuilding'
    BY <1>1, <2>2, <2>5 DEF TurnInv, MaskOnce, InTurn, Undelivered, Ahead, BothWhileBuilding
  <2>7. (Between' <=> Between) /\ (MaskOver' <=> MaskOver) /\ Lost' = Lost
    BY <1>1 DEF Between, MaskOver, Lost
  <2>8. (InStep' <=> InStep) /\ (OneAhead' <=> OneAhead)
    BY <2>4, <2>5 DEF InStep, OneAhead
  <2>9. LossesCounted => LossesCounted'
    BY <2>4, <2>5, <2>7, <2>8 DEF LossesCounted
  <2> QED BY <1>1, <2>6, <2>9 DEF TurnInv
<1> QED BY <1>2, <1>3

LEMMA TurnStep == AppInv /\ TurnInv /\ [Next]_vars => TurnInv'
<1> SUFFICES ASSUME AppInv, TurnInv, [Next]_vars PROVE TurnInv'
  OBVIOUS
<1>1. CASE VideoThread
  BY <1>1, RunBlockTurn, InBlockTurn, DeliverTurn, BuildTurn DEF VideoThread
<1>2. CASE UNCHANGED vars
  BY <1>2, TurnStutter DEF vars, filterVars, videoVars, appVars, pairing, building, config
<1> QED BY <1>1, <1>2, MainThreadTurn, DetectionThreadTurn DEF Next

(* Renders by the two threads leave at most one lock behind as long as no  *)
(* processImage call is discarded.                                         *)
THEOREM OneLockLeftBehind == Spec => []LocksLeftBehind
<1>1. ASSUME AppInv, TurnInv PROVE LocksLeftBehind
  BY <1>1 DEF TurnInv, LossesCounted, Lost, LocksLeftBehind
<1> QED BY <1>1, AppInvariant, TurnInit, TurnStep, PTL DEF Spec

=============================================================================
