-------------------------- MODULE FaceDetectProofs --------------------------
(***************************************************************************)
(* The face detection service, for any set of requests and any image      *)
(* sizes: what its queue, its buffer and its bitmaps maintain, and that    *)
(* every step of it is a step of DetectService or a stuttering step.       *)
(***************************************************************************)
EXTENDS FaceDetect, TLAPS

-----------------------------------------------------------------------------
(* The detection service.                                                  *)

(* The queue holds exactly the queued requests, each once.                 *)
QueueExact ==
  /\ \A r \in Requests :
       detectPC[r] = "queued" <=> \E k \in 1 .. Len(detectQueue) : detectQueue[k] = r
  /\ \A j, k \in 1 .. Len(detectQueue) : detectQueue[j] = detectQueue[k] => j = k

(* The queue is serial.                                                    *)
OneRuns == \A q, r \in Requests : Running(q) /\ Running(r) => q = r

(* Bitmaps belong to requests that got as far as drawing into them.        *)
BitmapsDrawn ==
  \A r \in rawPixels : detectPC[r] \in {"detect", "landmarks", "completion", "done"}

(* Requests that are being answered with a face have found it in their own *)
(* image.                                                                  *)
OwnLandmarks ==
  \A r \in Requests :
    detectPC[r] \in {"completion", "done"} => answer[r] = "nil" \/ facePixels[r] = r

DetectInv ==
  /\ DetectTypeOK
  /\ QueueExact
  /\ OneRuns
  /\ BitmapsDrawn
  /\ OwnBuffer
  /\ OwnLandmarks
  /\ LeakOnlyWithoutFace

-----------------------------------------------------------------------------

LEMMA DetectInitInv == DetectInit => DetectInv
BY DEF DetectInit, DetectInv, DetectTypeOK, QueueExact, OneRuns, BitmapsDrawn, OwnBuffer,
       OwnLandmarks, LeakOnlyWithoutFace, Running, Steps, Answers, Pixels, NoPixels

(* A request is made: ignored, or appended to the queue.                   *)
LEMMA ProcessImageInv ==
  ASSUME DetectInv, NEW r \in Requests, ProcessImage(r)
  PROVE  DetectInv'
<1> USE DEF DetectInv
<1>1. /\ detectPC[r] = "new"
      /\ \E s \in {"ignored", "queued"} :
           /\ detectPC' = [detectPC EXCEPT ![r] = s]
           /\ detectQueue' = IF s = "ignored" THEN detectQueue ELSE Append(detectQueue, r)
      /\ UNCHANGED <<imageBuffer, rawPixels, facePixels, answer>>
  BY DEF ProcessImage, At
<1>2. PICK s \in {"ignored", "queued"} :
           /\ detectPC' = [detectPC EXCEPT ![r] = s]
           /\ detectQueue' = IF s = "ignored" THEN detectQueue ELSE Append(detectQueue, r)
  BY <1>1
<1>3. DetectTypeOK'
  BY <1>1, <1>2 DEF DetectTypeOK, Steps
<1>4. QueueExact'
  <2>1. \A k \in 1 .. Len(detectQueue) : detectQueue[k] # r
    BY <1>1 DEF QueueExact
  <2>2. CASE s = "ignored"
    BY <1>1, <1>2, <2>2 DEF QueueExact, DetectTypeOK
  <2>3. CASE s = "queued"
    <3>1. /\ Len(detectQueue') = Len(detectQueue) + 1
          /\ \A k \in 1 .. Len(detectQueue) : detectQueue'[k] = detectQueue[k]
          /\ detectQueue'[Len(detectQueue) + 1] = r
          /\ Len(detectQueue) \in Nat
      BY <1>2, <2>3 DEF DetectTypeOK
    <3>2. \A q \in Requests : detectPC'[q] = IF q = r THEN "queued" ELSE detectPC[q]
      BY <1>2, <2>3 DEF DetectTypeOK
    <3> QED BY <2>1, <3>1, <3>2 DEF QueueExact
  <2> QED BY <2>2, <2>3
<1>5. OneRuns' /\ BitmapsDrawn' /\ OwnBuffer' /\ OwnLandmarks' /\ LeakOnlyWithoutFace'
  BY <1>1, <1>2 DEF DetectTypeOK, OneRuns, BitmapsDrawn, OwnBuffer, OwnLandmarks,
                    LeakOnlyWithoutFace, Running
<1> QED BY <1>3, <1>4, <1>5

(* The oldest request starts; no other one runs.                           *)
LEMMA StartDetectionInv ==
  ASSUME DetectInv, StartDetection
  PROVE  DetectInv'
<1> USE DEF DetectInv
<1> DEFINE r == Head(detectQueue)
           s == IF Size[r] = 0 THEN "completion" ELSE "resize"
<1>1. /\ \A q \in Requests : ~Running(q)
      /\ detectQueue # <<>>
      /\ detectQueue' = Tail(detectQueue)
      /\ detectPC[r] = "queued"
      /\ detectPC' = [detectPC EXCEPT ![r] = s]
      /\ answer' = [answer EXCEPT ![r] = IF Size[r] = 0 THEN "nil" ELSE @]
      /\ UNCHANGED <<imageBuffer, rawPixels, facePixels>>
  BY DEF StartDetection, TakeRequest, At
<1>2. r \in Requests /\ detectQueue \in Seq(Requests) /\ r = detectQueue[1]
  BY <1>1 DEF DetectTypeOK
<1>3. answer[r] = "none"
  BY <1>1, <1>2 DEF DetectTypeOK
<1>4. \A q \in Requests : /\ detectPC'[q] = IF q = r THEN s ELSE detectPC[q]
                          /\ q # r => answer'[q] = answer[q]
  BY <1>1, <1>2 DEF DetectTypeOK
<1>5. answer'[r] = IF Size[r] = 0 THEN "nil" ELSE "none"
  BY <1>1, <1>2, <1>3 DEF DetectTypeOK
<1>6. DetectTypeOK'
  <2>1. detectQueue' \in Seq(Requests)
    BY <1>1, <1>2
  <2>2. detectPC' \in [Requests -> Steps] /\ answer' \in [Requests -> Answers]
    BY <1>1 DEF DetectTypeOK, Steps, Answers
  <2>3. \A q \in Requests :
          answer'[q] # "none" <=> detectPC'[q] \in {"landmarks", "completion", "done"}
    BY <1>2, <1>4, <1>5 DEF DetectTypeOK
  <2> QED BY <1>1, <2>1, <2>2, <2>3 DEF DetectTypeOK
<1>7. QueueExact'
  <2>1. /\ Len(detectQueue') = Len(detectQueue) - 1
        /\ \A k \in 1 .. Len(detectQueue) - 1 : detectQueue'[k] = detectQueue[k + 1]
        /\ Len(detectQueue) \in Nat \ {0}
    BY <1>1, <1>2
  <2>2. \A j, k \in 1 .. Len(detectQueue') : detectQueue'[j] = detectQueue'[k] => j = k
    BY <2>1, SMTT(30) DEF QueueExact
  <2>3. ASSUME NEW q \in Requests
        PROVE  detectPC'[q] = "queued"
                 <=> \E k \in 1 .. Len(detectQueue') : detectQueue'[k] = q
    <3>1. CASE q = r
      <4>1. \A k \in 1 .. Len(detectQueue') : detectQueue'[k] # r
        BY <1>2, <2>1 DEF QueueExact
      <4> QED BY <1>4, <3>1, <4>1
    <3>2. CASE q # r
      <4>1. ASSUME NEW k \in 1 .. Len(detectQueue), detectQueue[k] = q
            PROVE  k - 1 \in 1 .. Len(detectQueue') /\ detectQueue'[k - 1] = q
        BY <1>2, <2>1, <3>2, <4>1
      <4>2. ASSUME NEW k \in 1 .. Len(detectQueue'), detectQueue'[k] = q
            PROVE  k + 1 \in 1 .. Len(detectQueue) /\ detectQueue[k + 1] = q
        BY <2>1, <4>2
      <4> QED BY <1>4, <3>2, <4>1, <4>2 DEF QueueExact
    <3> QED BY <3>1, <3>2
  <2> QED BY <2>2, <2>3 DEF QueueExact
<1>8. OneRuns' /\ BitmapsDrawn' /\ LeakOnlyWithoutFace'
  BY <1>1, <1>2, <1>4 DEF DetectTypeOK, OneRuns, BitmapsDrawn, LeakOnlyWithoutFace, Running
<1>9. OwnBuffer' /\ OwnLandmarks'
  BY <1>1, <1>2, <1>4, <1>5 DEF DetectTypeOK, OwnBuffer, OwnLandmarks
<1> QED BY <1>6, <1>7, <1>8, <1>9

(* A step of the running request.                                          *)
LEMMA RunningStepInv ==
  ASSUME DetectInv, NEW r \in Requests, Detect(r) \/ Complete(r)
  PROVE  DetectInv'
<1> USE DEF DetectInv
<1>1. /\ Running(r)
      /\ \E s \in {"copy", "detect", "landmarks", "completion", "done"} :
           detectPC' = [detectPC EXCEPT ![r] = s]
      /\ UNCHANGED detectQueue
  BY DEF Detect, Complete, ResizeBuffer, CopyPixels, FindNoFace, FindFace, PredictLandmarks,
         At, Running
<1>2. \A q \in Requests : q # r => ~Running(q)
  BY <1>1 DEF OneRuns
<1>3. \A q \in Requests : q # r => detectPC'[q] = detectPC[q]
  BY <1>1 DEF DetectTypeOK
<1>4. detectPC[r] # "queued" /\ detectPC'[r] # "queued"
  BY <1>1 DEF DetectTypeOK, Running
<1>5. QueueExact'
  BY <1>1, <1>3, <1>4 DEF QueueExact
<1>6. OneRuns'
  BY <1>2, <1>3 DEF OneRuns, Running
<1>7. DetectTypeOK'
  <2>1. CASE ResizeBuffer(r)
    BY <2>1, DetectAssumption DEF ResizeBuffer, At, DetectTypeOK, Steps, Pixels
  <2>2. CASE CopyPixels(r)
    BY <2>2 DEF CopyPixels, At, DetectTypeOK, Steps, Pixels
  <2>3. CASE FindNoFace(r)
    BY <2>3 DEF FindNoFace, At, DetectTypeOK, Steps, Answers
  <2>4. CASE FindFace(r, "tiny") \/ FindFace(r, "face")
    BY <2>4 DEF FindFace, At, DetectTypeOK, Steps, Answers
  <2>5. CASE PredictLandmarks(r)
    BY <2>5 DEF PredictLandmarks, At, DetectTypeOK, Steps, Pixels
  <2>6. CASE Complete(r)
    BY <2>6 DEF Complete, At, DetectTypeOK, Steps
  <2> QED BY <2>1, <2>2, <2>3, <2>4, <2>5, <2>6 DEF Detect
<1>8. BitmapsDrawn' /\ LeakOnlyWithoutFace'
  BY DEF Detect, Complete, ResizeBuffer, CopyPixels, FindNoFace, FindFace, PredictLandmarks,
         At, DetectTypeOK, BitmapsDrawn, LeakOnlyWithoutFace
<1>9. OwnBuffer'
  <2>1. \A q \in Requests : q # r => detectPC'[q] \notin {"copy", "detect", "landmarks"}
    BY <1>2, <1>3 DEF Running
  <2>2. /\ detectPC'[r] \in {"copy", "detect", "landmarks"} => imageBuffer'.size = Size[r]
        /\ detectPC'[r] \in {"detect", "landmarks"} => imageBuffer'.pixels = r
    BY DEF Detect, Complete, ResizeBuffer, CopyPixels, FindNoFace, FindFace,
           PredictLandmarks, At, DetectTypeOK, OwnBuffer
  <2> QED BY <2>1, <2>2 DEF OwnBuffer
<1>10. OwnLandmarks'
  <2>1. ASSUME NEW q \in Requests, q # r
        PROVE  answer'[q] = answer[q] /\ facePixels'[q] = facePixels[q]
    BY <2>1 DEF Detect, Complete, ResizeBuffer, CopyPixels, FindNoFace, FindFace,
           PredictLandmarks, DetectTypeOK
  <2>2. detectPC'[r] \in {"completion", "done"} => answer'[r] = "nil" \/ facePixels'[r] = r
    BY DEF Detect, Complete, ResizeBuffer, CopyPixels, FindNoFace, FindFace,
           PredictLandmarks, At, DetectTypeOK, OwnBuffer, OwnLandmarks
  <2> QED BY <1>3, <2>1, <2>2 DEF OwnLandmarks
<1> QED BY <1>5, <1>6, <1>7, <1>8, <1>9, <1>10

LEMMA DetectStutterInv == DetectInv /\ UNCHANGED detectVars => DetectInv'
BY DEF DetectInv, detectVars, DetectTypeOK, QueueExact, OneRuns, BitmapsDrawn, OwnBuffer,
       OwnLandmarks, LeakOnlyWithoutFace, Running

LEMMA DetectStepInv == DetectInv /\ [DetectNext]_detectVars => DetectInv'
BY ProcessImageInv, StartDetectionInv, RunningStepInv, DetectStutterInv
   DEF DetectNext, DetectThread

-----------------------------------------------------------------------------
(* Theorems: the invariants.                                               *)

LEMMA DetectInvariant == DetectSpec => []DetectInv
BY DetectInitInv, DetectStepInv, PTL DEF DetectSpec

(* Every variable of the service keeps its type, and an answer is there    *)
(* exactly when the completion block may run.                              *)
THEOREM DetectTypeCorrect == DetectSpec => []DetectTypeOK
<1>1. DetectInv => DetectTypeOK
  BY DEF DetectInv
<1> QED BY <1>1, DetectInvariant, PTL

(* The shared buffer has the size and, from the copy on, the pixels of the *)
(* request that uses it: no request reads another one's image.             *)
THEOREM BufferBelongsToRequest == DetectSpec => []OwnBuffer
<1>1. DetectInv => OwnBuffer
  BY DEF DetectInv
<1> QED BY <1>1, DetectInvariant, PTL

(* The only bitmaps left behind are those of images without a face.        *)
THEOREM OnlyFacelessBitmapsLeak == DetectSpec => []LeakOnlyWithoutFace
<1>1. DetectInv => LeakOnlyWithoutFace
  BY DEF DetectInv
<1> QED BY <1>1, DetectInvariant, PTL

-----------------------------------------------------------------------------
(* The refinement of DetectService, its safety part.  The request that     *)
(* runs is the head of the pending sequence.                               *)

LEMMA PendingWhenRunning ==
  ASSUME OneRuns, NEW r \in Requests, Running(r)
  PROVE  Pending = <<r>> \o detectQueue
<1>1. Running(CHOOSE q \in Requests : Running(q)) /\ (CHOOSE q \in Requests : Running(q)) \in Requests
  OBVIOUS
<1>2. (CHOOSE q \in Requests : Running(q)) = r
  BY <1>1 DEF OneRuns
<1> QED BY <1>2 DEF Pending

LEMMA PendingWhenIdle ==
  (\A q \in Requests : ~Running(q)) => Pending = detectQueue
BY DEF Pending

LEMMA ConcatHead ==
  ASSUME NEW S, NEW r \in S, NEW s \in Seq(S)
  PROVE  /\ <<r>> \o s \in Seq(S) /\ <<r>> \o s # <<>>
         /\ Head(<<r>> \o s) = r /\ Tail(<<r>> \o s) = s
         /\ Len(<<r>> \o s) = Len(s) + 1
         /\ \A k \in 1 .. Len(s) + 1 : (<<r>> \o s)[k] = IF k = 1 THEN r ELSE s[k - 1]
         /\ \A q : <<r>> \o Append(s, q) = Append(<<r>> \o s, q)
OBVIOUS

LEMMA ServiceInitRefined == DetectInit => Service!ServiceInit
<1> SUFFICES ASSUME DetectInit PROVE Service!ServiceInit
  OBVIOUS
<1>1. Pending = <<>>
  BY DEF DetectInit, Pending, Running
<1>2. Outcome = [r \in Requests |-> "none"]
  BY DEF DetectInit, Outcome
<1> QED BY <1>1, <1>2 DEF Service!ServiceInit

(* A request that is not ignored is appended to the pending ones.          *)
LEMMA ProcessImageRefined ==
  ASSUME DetectInv, NEW r \in Requests, ProcessImage(r)
  PROVE  Service!Request(r) \/ UNCHANGED <<Pending, Outcome>>
<1> USE DEF DetectInv
<1>1. /\ detectPC[r] = "new"
      /\ UNCHANGED <<answer, facePixels>>
  BY DEF ProcessImage, At
<1>2. \A q \in Requests : Running(q)' <=> Running(q)
  BY DEF ProcessImage, At, DetectTypeOK, Running
<1>3. Outcome' = Outcome /\ Outcome[r] = "none"
  BY DEF ProcessImage, At, DetectTypeOK, Outcome
<1>4. CASE detectQueue' = detectQueue
  BY <1>2, <1>3, <1>4 DEF Pending
<1>5. CASE detectQueue' = Append(detectQueue, r)
  <2>1. Pending' = Append(Pending, r)
    <3>1. CASE \A q \in Requests : ~Running(q)
      BY <1>2, <1>5, <3>1 DEF Pending
    <3>2. CASE \E q \in Requests : Running(q)
      <4>1. PICK q \in Requests : Running(q)
        BY <3>2
      <4>2. Pending = <<q>> \o detectQueue
        BY <4>1, PendingWhenRunning
      <4>3. (CHOOSE p \in Requests : Running(p)') = (CHOOSE p \in Requests : Running(p))
        BY <1>2
      <4>4. Pending' = <<q>> \o detectQueue'
        <5>1. (CHOOSE p \in Requests : Running(p)) = q
          BY <4>1 DEF OneRuns
        <5> QED BY <1>2, <4>1, <4>3, <5>1 DEF Pending
      <4>5. <<q>> \o Append(detectQueue, r) = Append(<<q>> \o detectQueue, r)
        <5>1. detectQueue \in Seq(Requests)
          BY DEF DetectTypeOK
        <5> QED BY <5>1, ConcatHead
      <4> QED BY <1>5, <4>2, <4>4, <4>5
    <3> QED BY <3>1, <3>2
  <2>2. \A k \in 1 .. Len(detectQueue) : detectQueue[k] # r
    BY <1>1 DEF QueueExact
  <2>3. \A k \in 1 .. Len(Pending) : Pending[k] # r
    <3>1. CASE \A q \in Requests : ~Running(q)
      BY <2>2, <3>1, PendingWhenIdle
    <3>2. CASE \E q \in Requests : Running(q)
      <4>1. PICK q \in Requests : Running(q)
        BY <3>2
      <4>2. q # r
        BY <1>1, <4>1 DEF Running
      <4>3. /\ Len(Pending) = Len(detectQueue) + 1
            /\ \A k \in 1 .. Len(detectQueue) + 1 :
                 Pending[k] = IF k = 1 THEN q ELSE detectQueue[k - 1]
        <5>1. Pending = <<q>> \o detectQueue /\ detectQueue \in Seq(Requests)
          BY <4>1, PendingWhenRunning DEF DetectTypeOK
        <5> QED BY <5>1, ConcatHead
      <4>4. Len(detectQueue) \in Nat
        BY DEF DetectTypeOK
      <4> QED BY <2>2, <4>2, <4>3, <4>4
    <3> QED BY <3>1, <3>2
  <2> QED BY <1>3, <2>1, <2>3 DEF Service!Request
<1> QED BY <1>4, <1>5 DEF ProcessImage

(* Taking a request off the queue changes nothing for the clients.         *)
LEMMA StartDetectionRefined ==
  ASSUME DetectInv, StartDetection
  PROVE  UNCHANGED <<Pending, Outcome>>
<1> USE DEF DetectInv
<1>1. /\ \A q \in Requests : ~Running(q)
      /\ detectQueue # <<>> /\ detectQueue' = Tail(detectQueue)
      /\ detectQueue \in Seq(Requests)
      /\ UNCHANGED facePixels
  BY DEF StartDetection, TakeRequest, DetectTypeOK
<1>2. PICK r \in Requests : r = Head(detectQueue)
  BY <1>1
<1>3. /\ detectPC[r] = "queued"
      /\ \E s \in {"resize", "completion"} : detectPC' = [detectPC EXCEPT ![r] = s]
      /\ \A q \in Requests : q # r => answer'[q] = answer[q]
  BY <1>2 DEF StartDetection, TakeRequest, At, DetectTypeOK
<1>4. Running(r)' /\ \A q \in Requests : Running(q)' => q = r
  BY <1>1, <1>3 DEF Running, DetectTypeOK
<1>5. Pending' = <<r>> \o detectQueue'
  <2> DEFINE oldest == CHOOSE q \in Requests : Running(q)
  <2>1. oldest' \in Requests /\ Running(oldest)'
    BY <1>4 DEF Running
  <2>2. oldest' = r
    BY <1>4, <2>1
  <2> QED BY <1>4, <2>2 DEF Pending
<1>6. <<r>> \o Tail(detectQueue) = detectQueue
  BY <1>1, <1>2
<1>7. Pending' = Pending
  BY <1>1, <1>5, <1>6, PendingWhenIdle
<1>8. Outcome' = Outcome
  BY <1>1, <1>3 DEF Outcome, DetectTypeOK
<1> QED BY <1>7, <1>8

(* Neither does any step of the running request before its completion.     *)
LEMMA DetectRefined ==
  ASSUME DetectInv, NEW r \in Requests, Detect(r)
  PROVE  UNCHANGED <<Pending, Outcome>>
<1> USE DEF DetectInv
<1>1. /\ \A q \in Requests : Running(q)' <=> Running(q)
      /\ \A q \in Requests : detectPC'[q] = "done" <=> detectPC[q] = "done"
      /\ \A q \in Requests :
           detectPC[q] = "done" => answer'[q] = answer[q] /\ facePixels'[q] = facePixels[q]
      /\ UNCHANGED detectQueue
  BY DEF Detect, ResizeBuffer, CopyPixels, FindNoFace, FindFace, PredictLandmarks, At,
         DetectTypeOK, Running
<1>2. Pending' = Pending
  BY <1>1 DEF Pending
<1>3. Outcome' = Outcome
  BY <1>1 DEF Outcome
<1> QED BY <1>2, <1>3

(* The end of the completion block is the answer to the oldest request.    *)
LEMMA CompleteRefined ==
  ASSUME DetectInv, NEW r \in Requests, Complete(r)
  PROVE  Service!Answer
<1> USE DEF DetectInv
<1>1. /\ Running(r) /\ detectPC[r] = "completion"
      /\ detectPC' = [detectPC EXCEPT ![r] = "done"]
      /\ UNCHANGED <<detectQueue, facePixels, answer>>
  BY DEF Complete, At, Running
<1>2. Pending = <<r>> \o detectQueue
  BY <1>1, PendingWhenRunning
<1>3. \A q \in Requests : ~Running(q)'
  BY <1>1 DEF OneRuns, Running, DetectTypeOK
<1>4. Pending' = detectQueue
  BY <1>1, <1>3 DEF Pending
<1>5. Pending # <<>> /\ Head(Pending) = r /\ Tail(Pending) = detectQueue
  BY <1>2, ConcatHead DEF DetectTypeOK
<1> DEFINE o == IF answer[r] = "nil" THEN "nil" ELSE "own"
<1>6. Outcome' = [Outcome EXCEPT ![r] = o]
  <2>1. answer[r] = "nil" \/ facePixels[r] = r
    BY <1>1 DEF OwnLandmarks
  <2> QED BY <1>1, <2>1 DEF Outcome, DetectTypeOK
<1>7. o \in {"nil", "own"}
  OBVIOUS
<1> QED BY <1>4, <1>5, <1>6, <1>7 DEF Service!Answer

LEMMA ServiceStepRefined ==
  DetectInv /\ [DetectNext]_detectVars => [Service!ServiceNext]_<<Pending, Outcome>>
<1> SUFFICES ASSUME DetectInv, [DetectNext]_detectVars
             PROVE  Service!ServiceNext \/ UNCHANGED <<Pending, Outcome>>
  OBVIOUS
<1>1. CASE \E r \in Requests : ProcessImage(r)
  BY <1>1, ProcessImageRefined DEF Service!ServiceNext
<1>2. CASE StartDetection
  BY <1>2, StartDetectionRefined
<1>3. CASE \E r \in Requests : Detect(r)
  BY <1>3, DetectRefined
<1>4. CASE \E r \in Requests : Complete(r)
  BY <1>4, CompleteRefined DEF Service!ServiceNext
<1>5. CASE UNCHANGED detectVars
  BY <1>5 DEF detectVars, Pending, Outcome, Running
<1> QED BY <1>1, <1>2, <1>3, <1>4, <1>5 DEF DetectNext, DetectThread

(* Requests are answered in the order they were made, each at most once,   *)
(* with nil or with what was found in their own image: every step of the   *)
(* service is a step of DetectService or leaves its variables alone.       *)
THEOREM ServiceImplemented ==
  DetectSpec => Service!ServiceInit /\ [][Service!ServiceNext]_<<Pending, Outcome>>
BY ServiceInitRefined, ServiceStepRefined, DetectInvariant, PTL DEF DetectSpec

=============================================================================
