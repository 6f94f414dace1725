---------------------------- MODULE AverageFace ----------------------------
(***************************************************************************)
(* The application: ViewController builds the filter graph, has the two    *)
(* faces detected one after the other, configures the filter from the      *)
(* completion blocks, installs the mask and renders; afterwards, or at the *)
(* same time, the user moves the two sliders.                              *)
(*                                                                         *)
(* Three threads run: the main thread (viewWillAppear and the sliders), the*)
(* detection thread (face detection and its completion blocks) and the     *)
(* video processing queue (mask block, deliveries, frames).                *)
(***************************************************************************)
EXTENDS FaceMorphFilter, VideoQueue, FaceDetect

CONSTANT MaxMoves   \* bound of the model: slider movements

ASSUME AverageFaceAssumption ==
  /\ Requests = Pictures
  /\ NilImages = {} /\ NilCompletions = {}     \* both images are in the bundle
  /\ MovieInputs = {} /\ CheckDisabled = {}    \* two still pictures
  /\ MaxMoves \in Nat

VARIABLES
  mainPC,        \* where the main thread is
  moves,         \* slider movements so far
  completionPC,  \* where the detection thread is in a completion block
  missed,        \* history: a processImage made for the newest slider value was
                 \* discarded when its picture was in, or past, a frame
  discarded      \* history: some processImage was discarded

appVars == <<mainPC, moves, completionPC, missed, discarded>>
vars == <<filterVars, videoVars, detectVars, appVars>>

(* pictureTrump is the filter's first input, pictureClinton its second.    *)
TextureLocation(p) == IF p = "model" THEN 0 ELSE 1

Init ==
  /\ FilterInit /\ VideoInit /\ DetectInit
  /\ mainPC = "viewWillAppear"
  /\ moves = 0
  /\ completionPC = "none"
  /\ missed = FALSE
  /\ discarded = FALSE

-----------------------------------------------------------------------------
(* The main thread.                                                        *)

ViewWillAppear ==
  /\ mainPC = "viewWillAppear"
  /\ mainPC' = "idle"
  /\ ProcessImage("mine")
  /\ UNCHANGED <<filterVars, videoVars, moves, completionPC, missed, discarded>>

(* A slider callback sets its intensity, then renders both pictures.       *)
MoveSlider ==
  /\ mainPC = "idle"
  /\ moves < MaxMoves
  /\ \E v \in Intensities : SetSkinIntensity(v) \/ SetShapeIntensity(v)
  /\ moves' = moves + 1
  /\ mainPC' = "renderMine"
  /\ missed' = FALSE
  /\ UNCHANGED <<videoVars, detectVars, completionPC, discarded>>

RenderPC == [mine |-> "renderMine", model |-> "renderModel"]
QueuePC == [mine |-> "queueMine", model |-> "queueModel"]

RenderMineOnly(p) == "idle"           \* mutant of AfterRender
AfterRender(p) == IF p = "mine" THEN "renderModel" ELSE "idle"

(* processImage takes the semaphore of its picture, ...                    *)
RenderPicture(p) ==
  /\ mainPC = RenderPC[p]
  /\ imageFree[p]
  /\ TakeSemaphore(p)
  /\ mainPC' = QueuePC[p]
  /\ UNCHANGED <<filterVars, detectVars, videoQueue, videoBlock, videoPC, delivering,
                 moves, completionPC, missed, discarded>>

(* ... and hands its block to the video queue.                             *)
QueuePicture(p) ==
  /\ mainPC = QueuePC[p]
  /\ RunOnVideoQueue(p)
  /\ mainPC' = AfterRender(p)
  /\ UNCHANGED <<imageFree, filterVars, detectVars, moves, completionPC, missed, discarded>>

(* It is discarded when the semaphore is taken.  That is harmless when the *)
(* delivery is still to come, or waits in the filter for the other input.  *)
Delivered(p) ==
  delivering = p /\ videoPC = "signal" /\ (stage # "idle" \/ ~received[TextureLocation(p)])

DiscardPicture(p) ==
  /\ mainPC = RenderPC[p]
  /\ ~imageFree[p]
  /\ mainPC' = AfterRender(p)
  /\ missed' = (missed \/ Delivered(p))
  /\ discarded' = TRUE
  /\ UNCHANGED <<filterVars, videoVars, detectVars, moves, completionPC>>

Render == \E p \in Pictures : RenderPicture(p) \/ QueuePicture(p) \/ DiscardPicture(p)

-----------------------------------------------------------------------------
(* The detection thread.                                                   *)

(* An item whose face rectangle is below 10x10 ("tiny") has no features:   *)
(* extractFaceFeatures, called on an item nobody else has, returns early.  *)
RunDetection ==
  /\ StartDetection \/ \E r \in Requests : Detect(r)
  /\ UNCHANGED <<filterVars, videoVars, appVars>>

(* The completion block of the first image.                                *)
MineDetected ==
  /\ detectPC["mine"] = "completion"
  /\ completionPC = "none"
  /\ SetFaceFeatureMine(answer["mine"])
  /\ completionPC' = "requestModel"
  /\ UNCHANGED <<videoVars, detectVars, mainPC, moves, missed, discarded>>

RequestModel ==
  /\ completionPC = "requestModel"
  /\ completionPC' = "requested"
  /\ ProcessImage("model")
  /\ UNCHANGED <<filterVars, videoVars, mainPC, moves, missed, discarded>>

CompleteMine ==
  /\ completionPC = "requested"
  /\ completionPC' = "none"
  /\ Complete("mine")
  /\ UNCHANGED <<filterVars, videoVars, mainPC, moves, missed, discarded>>

(* The completion block of the second image.                               *)
ModelDetected ==
  /\ detectPC["model"] = "completion"
  /\ completionPC = "none"
  /\ SetFaceFeatureModel(answer["model"])
  /\ completionPC' = "normalize"
  /\ UNCHANGED <<videoVars, detectVars, mainPC, moves, missed, discarded>>

Normalize ==
  /\ completionPC = "normalize"
  /\ NormalizePhotos
  /\ UNCHANGED <<videoVars, detectVars, appVars>>

(* Mutant of DispatchMask: the mask is dispatched before normalizePhotos   *)
(* has finished.                                                           *)
DispatchMaskEarly ==
  /\ completionPC = "normalize"
  /\ completionPC' = "none"
  /\ RunOnVideoQueue("mask") /\ UNCHANGED imageFree
  /\ Complete("model")
  /\ UNCHANGED <<filterVars, mainPC, moves, missed, discarded>>

(* makeFaceShape draws into an image of its own; then the block that       *)
(* installs the mask is handed to the video queue.                         *)
DispatchMask ==
  /\ completionPC = "normalize"
  /\ normalized = Len(NormalizeOrder)
  /\ completionPC' = "none"
  /\ RunOnVideoQueue("mask") /\ UNCHANGED imageFree
  /\ Complete("model")
  /\ UNCHANGED <<filterVars, mainPC, moves, missed, discarded>>

DetectionThread ==
  \/ RunDetection \/ MineDetected \/ RequestModel \/ CompleteMine
  \/ ModelDetected \/ Normalize \/ DispatchMask

-----------------------------------------------------------------------------
(* The video processing queue.                                             *)

RunBlock == StartBlock /\ UNCHANGED <<filterVars, detectVars, appVars>>

(* The block of viewWillAppear: the mask, made from the shape of the model *)
(* face or from nil, then both pictures.                                   *)
InstallMask ==
  /\ videoPC = "setMask"
  /\ SetMaskImage(IF answer["model"] = "nil" THEN "empty" ELSE "built")
  /\ videoPC' = "processMine"
  /\ UNCHANGED <<videoQueue, videoBlock, delivering, imageFree, detectVars, appVars>>

RenderInline ==
  /\ \E p \in Pictures :
       ProcessPictureInline(p) /\ discarded' = (discarded \/ ~imageFree[p])
  /\ UNCHANGED <<filterVars, detectVars, mainPC, moves, completionPC, missed>>

Deliver ==
  /\ DeliverPicture
  /\ NewFrameReady(Indefinite, TextureLocation(delivering))
  /\ UNCHANGED <<detectVars, appVars>>

(* A frame is built inside newFrameReadyAtTime, before the block goes on.  *)
Build == BuildFrame /\ UNCHANGED <<videoVars, detectVars, appVars>>

Signal ==
  /\ stage = "idle"
  /\ SignalPicture
  /\ UNCHANGED <<filterVars, detectVars, appVars>>

VideoThread == RunBlock \/ InstallMask \/ RenderInline \/ Deliver \/ Build \/ Signal

-----------------------------------------------------------------------------
(* Dereferencing NULL ends the process.                                    *)
MainThread == ViewWillAppear \/ Render
Next == stage # "crashed" /\ (MainThread \/ MoveSlider \/ DetectionThread \/ VideoThread)

(* The threads and the queues keep running; the user need not do anything. *)
Fairness ==
  /\ WF_vars(stage # "crashed" /\ MainThread)
  /\ WF_vars(stage # "crashed" /\ DetectionThread)
  /\ WF_vars(stage # "crashed" /\ VideoThread)

Spec == Init /\ [][Next]_vars /\ Fairness

-----------------------------------------------------------------------------
(* Properties.                                                             *)

(* Every variable keeps its type, in the application's modules and here.   *)
TypeOK ==
  /\ FilterTypeOK /\ VideoTypeOK /\ DetectTypeOK
  /\ mainPC \in {"viewWillAppear", "idle"} \cup {RenderPC[p] : p \in Pictures}
                \cup {QueuePC[p] : p \in Pictures}
  /\ moves \in 0 .. MaxMoves
  /\ completionPC \in {"none", "requestModel", "requested", "normalize"}
  /\ missed \in BOOLEAN /\ discarded \in BOOLEAN

Handing(p) == mainPC = QueuePC[p]
Queued(b) == \E k \in 1 .. Len(videoQueue) : videoQueue[k] = b

(* A picture's semaphore is taken exactly while its block is about to be   *)
(* queued, is queued, or delivers; and no block is queued twice: the       *)
(* deliveries of a picture never pile up, and the queue holds at most      *)
(* three blocks.                                                           *)
SemaphoreDiscipline ==
  /\ \A p \in Pictures :
       imageFree[p] <=> ~Queued(p) /\ delivering # p /\ ~Handing(p)
  /\ \A p \in Pictures : Handing(p) => ~Queued(p) /\ delivering # p
  /\ \A j, k \in 1 .. Len(videoQueue) : videoQueue[j] = videoQueue[k] => j = k
  /\ delivering # "none" => ~Queued(delivering)

(* The mask is only installed when normalizePhotos has finished with all   *)
(* groups and the items are in place: a frame drawn with the mask is never *)
(* made from half normalised features.                                     *)
MaskedFramesNormalized ==
  /\ maskImage # "none" => /\ faceFeatureMine = answer["mine"]
                           /\ faceFeatureModel = answer["model"]
                           /\ normalized = Len(NormalizeOrder)
  /\ \A f \in {frame, shown} :
       f.mask # "none" => "raw" \notin f.morphs /\ Cardinality(f.morphs) = 1

(* Between two frames an input holds a lock exactly while it waits for the *)
(* other one: every lock of a frame has been given back.                   *)
LocksPaired ==
  stage = "idle" => \A i \in Inputs : locks[i] = IF received[i] THEN 1 ELSE 0

(* A delivery on an input that already waits leaves the earlier lock       *)
(* behind for good.  Renders by the two threads can overlap that way once, *)
(* when the mask block runs between the two calls of a slider callback;    *)
(* otherwise locks are only left behind when some processImage call is     *)
(* discarded.                                                              *)
LocksLeftBehind == ~discarded => left[0] + left[1] <= 1

(* Once the mask is installed and everything has settled, the view shows a *)
(* frame with that mask; and, unless a processImage for the newest value   *)
(* came while its picture was past being delivered, one made with the      *)
(* current intensities, all eight groups alike.                            *)
Settled == mainPC = "idle" /\ videoPC = "wait" /\ videoQueue = <<>>

SettledFrameCurrent ==
  Settled /\ maskImage # "none" /\ stage # "crashed" =>
    /\ shown.mask = maskImage
    /\ ~missed => shown.skin = skin /\ shown.shapes = {shape}

(* The first masked frame is shown, whatever the user does meanwhile,      *)
(* unless the process dies.                                                *)
MaskedFrameComes == <>(stage = "crashed" \/ shown.mask # "none")

(* A slider movement reaches the view, unless one of its processImage      *)
(* calls came while the picture was past being delivered.                  *)
MovementShown ==
  mainPC = "renderMine" ~>
    (stage = "crashed" \/ missed \/ (shown.skin = skin /\ shown.shapes = {shape}))

(* The nullability annotations of FaceMorphFilter.h say that the filter's  *)
(* two feature items are never nil; here, when a frame reads them.         *)
FeaturesNonnull ==
  stage = "triangulate" => faceFeatureMine # "nil" /\ faceFeatureModel # "nil"

=============================================================================
