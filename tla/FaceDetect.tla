----------------------------- MODULE FaceDetect -----------------------------
(***************************************************************************)
(* DLibFaceFeatureProcess: face detection requests run one after the other *)
(* on a serial queue and share one pixel buffer, image_buffer.  The        *)
(* completion block of a request runs on that queue's thread.              *)
(***************************************************************************)
EXTENDS Integers, Sequences, FiniteSets

CONSTANTS
  Requests,       \* processImage calls
  Size,           \* the size of a request's image; 0: an empty side
  NilImages,      \* requests with image == nil
  NilCompletions  \* requests with completion == NULL

ASSUME DetectAssumption ==
  /\ IsFiniteSet(Requests)
  /\ Size \in [Requests -> Nat]
  /\ NilImages \subseteq Requests
  /\ NilCompletions \subseteq Requests

(* "none": not answered yet.  The items are those of FaceMorphFilter.      *)
Answers == {"none", "nil", "tiny", "face"}

NoPixels == "empty"

VARIABLES
  detectQueue,    \* requests waiting on face_detect_queue
  detectPC,       \* where each request is
  imageBuffer,    \* image_buffer: its size and whose pixels it holds
  rawPixels,      \* requests whose rawImagePixels and context are allocated
  facePixels,     \* whose pixels the landmarks of a request were found in
  answer          \* what the completion block gets

detectVars == <<detectQueue, detectPC, imageBuffer, rawPixels, facePixels, answer>>

Steps == {"new", "ignored", "queued", "resize", "copy", "detect", "landmarks",
          "completion", "done"}
Running(r) == detectPC[r] \in {"resize", "copy", "detect", "landmarks", "completion"}

Pixels == Requests \cup {NoPixels}

DetectInit ==
  /\ detectQueue = <<>>
  /\ detectPC = [r \in Requests |-> "new"]
  /\ imageBuffer = [size |-> 0, pixels |-> NoPixels]
  /\ rawPixels = {}
  /\ facePixels = [r \in Requests |-> NoPixels]
  /\ answer = [r \in Requests |-> "none"]

At(r, from, to) == detectPC[r] = from /\ detectPC' = [detectPC EXCEPT ![r] = to]

(* Called from any thread.                                                 *)
ProcessImage(r) ==
  LET ignored == r \in NilImages \cup NilCompletions
  IN  /\ At(r, "new", IF ignored THEN "ignored" ELSE "queued")
      /\ detectQueue' = IF ignored THEN detectQueue ELSE Append(detectQueue, r)
      /\ UNCHANGED <<imageBuffer, rawPixels, facePixels, answer>>

(* A thread takes the next request.  An empty image is answered with nil   *)
(* at once.                                                                *)
TakeRequest ==
  LET r == Head(detectQueue)
  IN  /\ detectQueue # <<>>
      /\ detectQueue' = Tail(detectQueue)
      /\ At(r, "queued", IF Size[r] = 0 THEN "completion" ELSE "resize")
      /\ answer' = [answer EXCEPT ![r] = IF Size[r] = 0 THEN "nil" ELSE @]
      /\ UNCHANGED <<imageBuffer, rawPixels, facePixels>>

(* The queue is serial: a request starts when no other one runs.  (Without *)
(* that guard, TakeRequest alone is a concurrent queue: a mutant.)         *)
StartDetection == (\A r \in Requests : ~Running(r)) /\ TakeRequest

(* Mutant of ResizeBuffer: the buffer is only ever enlarged.               *)
GrowBuffer(r) ==
  /\ At(r, "resize", "copy")
  /\ imageBuffer' = IF imageBuffer.size >= Size[r] THEN imageBuffer
                    ELSE [size |-> Size[r], pixels |-> NoPixels]
  /\ UNCHANGED <<detectQueue, rawPixels, facePixels, answer>>

ResizeBuffer(r) ==
  /\ At(r, "resize", "copy")
  /\ imageBuffer' = IF imageBuffer.size = Size[r] THEN imageBuffer
                    ELSE [size |-> Size[r], pixels |-> NoPixels]
  /\ UNCHANGED <<detectQueue, rawPixels, facePixels, answer>>

(* The image is drawn into a new bitmap, which is copied to the buffer.    *)
CopyPixels(r) ==
  /\ At(r, "copy", "detect")
  /\ rawPixels' = rawPixels \cup {r}
  /\ imageBuffer' = [imageBuffer EXCEPT !.pixels = r]
  /\ UNCHANGED <<detectQueue, facePixels, answer>>

(* No face: nil is answered and the bitmap is never freed.                 *)
FindNoFace(r) ==
  /\ At(r, "detect", "completion")
  /\ answer' = [answer EXCEPT ![r] = "nil"]
  /\ UNCHANGED <<detectQueue, imageBuffer, rawPixels, facePixels>>

FindFace(r, size) ==
  /\ At(r, "detect", "landmarks")
  /\ answer' = [answer EXCEPT ![r] = size]
  /\ UNCHANGED <<detectQueue, imageBuffer, rawPixels, facePixels>>

(* Mutant of PredictLandmarks: the bitmap is kept.                         *)
KeepBitmap(r) ==
  /\ At(r, "landmarks", "completion")
  /\ facePixels' = [facePixels EXCEPT ![r] = imageBuffer.pixels]
  /\ UNCHANGED <<detectQueue, imageBuffer, rawPixels, answer>>

(* The shape predictor reads the buffer again; then the bitmap is freed.   *)
PredictLandmarks(r) ==
  /\ At(r, "landmarks", "completion")
  /\ facePixels' = [facePixels EXCEPT ![r] = imageBuffer.pixels]
  /\ rawPixels' = rawPixels \ {r}
  /\ UNCHANGED <<detectQueue, imageBuffer, answer>>

(* The completion block has returned.                                      *)
Complete(r) ==
  /\ At(r, "completion", "done")
  /\ UNCHANGED <<detectQueue, imageBuffer, rawPixels, facePixels, answer>>

Detect(r) ==
  \/ ResizeBuffer(r) \/ CopyPixels(r)
  \/ FindNoFace(r) \/ FindFace(r, "tiny") \/ FindFace(r, "face")
  \/ PredictLandmarks(r)

DetectThread == StartDetection \/ \E r \in Requests : Detect(r) \/ Complete(r)

(* Any thread may issue any request at any time.                           *)
DetectNext == (\E r \in Requests : ProcessImage(r)) \/ DetectThread

DetectSpec == DetectInit /\ [][DetectNext]_detectVars /\ WF_detectVars(DetectThread)

-----------------------------------------------------------------------------
(* The service FaceDetect implements: the request that runs is the oldest  *)
(* pending one.                                                            *)
Pending ==
  IF \E r \in Requests : Running(r)
  THEN <<CHOOSE r \in Requests : Running(r)>> \o detectQueue
  ELSE detectQueue

Outcome ==
  [r \in Requests |->
    CASE detectPC[r] # "done"  -> "none"
      [] detectPC[r] = "done" /\ answer[r] = "nil" -> "nil"
      [] detectPC[r] = "done" /\ answer[r] # "nil" ->
           IF facePixels[r] = r THEN "own" ELSE "another"]

Service == INSTANCE DetectService WITH pending <- Pending, outcome <- Outcome

(* Requests are answered once each, in order, with nil or with what was    *)
(* found in their own image.                                               *)
ImplementsService == Service!ServiceSpec

-----------------------------------------------------------------------------
(* Properties.                                                             *)

(* Every variable keeps its type; a queued request is waiting to start,    *)
(* and an answer is there once the completion block runs.                  *)
DetectTypeOK ==
  /\ detectQueue \in Seq(Requests)
  /\ detectPC \in [Requests -> Steps]
  /\ imageBuffer \in [size : Nat, pixels : Pixels]
  /\ rawPixels \in SUBSET Requests
  /\ facePixels \in [Requests -> Pixels]
  /\ answer \in [Requests -> Answers]
  /\ \A r \in Requests :
       answer[r] # "none" <=> detectPC[r] \in {"landmarks", "completion", "done"}

(* While a request uses image_buffer, the buffer has the size of its image *)
(* (the copy stays inside it), and from the copy on it holds its pixels.   *)
OwnBuffer ==
  \A r \in Requests :
    /\ detectPC[r] \in {"copy", "detect", "landmarks"} => imageBuffer.size = Size[r]
    /\ detectPC[r] \in {"detect", "landmarks"} => imageBuffer.pixels = r

(* The bitmap of a finished request is only left allocated when a          *)
(* non-empty image had no face: that early return frees nothing.           *)
LeakOnlyWithoutFace ==
  \A r \in rawPixels : detectPC[r] \in {"completion", "done"} => answer[r] = "nil"

(* The nullability annotations of DLibFaceFeatureProcess.h say that the    *)
(* completion block never gets nil.                                        *)
CompletionNonnull == \A r \in Requests : detectPC[r] = "completion" => answer[r] # "nil"

=============================================================================
