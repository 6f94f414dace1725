----------------------------- MODULE VideoQueue -----------------------------
(***************************************************************************)
(* The part of GPUImage the application drives: the serial video           *)
(* processing queue and, for each GPUImagePicture, the semaphore that      *)
(* processImage takes and its block gives back.  GPUImage is not in the    *)
(* repository except for its headers; this is modelled from how            *)
(* ViewController uses it.                                                 *)
(*                                                                         *)
(* processImage never waits: when the picture's semaphore is taken the     *)
(* call is discarded.  Otherwise it takes the semaphore and then runs a    *)
(* block on the video queue, at once when the caller is on that queue      *)
(* already.  The block delivers the picture to its targets and signals the *)
(* semaphore.                                                              *)
(***************************************************************************)
EXTENDS Integers, Sequences

Pictures == {"mine", "model"}         \* pictureClinton, pictureTrump
Blocks == Pictures \cup {"mask"}      \* "mask": the block of viewWillAppear

VARIABLES
  videoQueue,   \* blocks waiting, in the order they will run
  videoBlock,   \* the block that runs, "none" when the thread waits
  videoPC,      \* the next step of that block
  delivering,   \* the picture whose delivery is in progress
  imageFree     \* whether the picture's semaphore is free

videoVars == <<videoQueue, videoBlock, videoPC, delivering, imageFree>>

VideoInit ==
  /\ videoQueue = <<>>
  /\ videoBlock = "none"
  /\ videoPC = "wait"
  /\ delivering = "none"
  /\ imageFree = [p \in Pictures |-> TRUE]

RunOnVideoQueue(b) ==
  /\ videoQueue' = Append(videoQueue, b)
  /\ UNCHANGED <<videoBlock, videoPC, delivering>>

(* Mutant of TakeSemaphore: the semaphore is not taken.                    *)
LeaveSemaphore(p) == UNCHANGED imageFree

TakeSemaphore(p) == imageFree' = [imageFree EXCEPT ![p] = FALSE]

(* Mutant of AfterPicture: the block of viewWillAppear renders one picture *)
(* only.                                                                   *)
NothingAfter(p) == "wait"

(* What follows the delivery of p: the block of viewWillAppear renders     *)
(* both pictures, a picture's own block is over.                           *)
AfterPicture(p) ==
  IF videoBlock = "mask" /\ p = "mine" THEN "processModel" ELSE "wait"

Proceed(p) ==
  /\ videoPC' = AfterPicture(p)
  /\ delivering' = "none"
  /\ videoBlock' = IF AfterPicture(p) = "wait" THEN "none" ELSE videoBlock

(* processImage from a block on the video queue: the delivery is part of   *)
(* the block that runs.                                                    *)
ProcessPictureInline(p) ==
  /\ videoPC = IF p = "mine" THEN "processMine" ELSE "processModel"
  /\ IF imageFree[p]
     THEN /\ TakeSemaphore(p)
          /\ videoPC' = "deliver"
          /\ delivering' = p
          /\ UNCHANGED videoBlock
     ELSE Proceed(p) /\ UNCHANGED imageFree
  /\ UNCHANGED videoQueue

StartBlock ==
  LET b == Head(videoQueue)
  IN  /\ videoPC = "wait"
      /\ videoQueue # <<>>
      /\ videoQueue' = Tail(videoQueue)
      /\ videoBlock' = b
      /\ videoPC' = IF b = "mask" THEN "setMask" ELSE "deliver"
      /\ delivering' = IF b = "mask" THEN "none" ELSE b
      /\ UNCHANGED imageFree

(* The targets get the picture's framebuffer and newFrameReadyAtTime.      *)
DeliverPicture ==
  /\ videoPC = "deliver"
  /\ videoPC' = "signal"
  /\ UNCHANGED <<videoQueue, videoBlock, delivering, imageFree>>

(* Mutant of SignalPicture: the semaphore is not given back.               *)
ForgetSignal ==
  /\ videoPC = "signal"
  /\ Proceed(delivering)
  /\ UNCHANGED <<videoQueue, imageFree>>

SignalPicture ==
  /\ videoPC = "signal"
  /\ imageFree' = [imageFree EXCEPT ![delivering] = TRUE]
  /\ Proceed(delivering)
  /\ UNCHANGED videoQueue

-----------------------------------------------------------------------------
(* Every variable keeps its type, and the thread waits exactly when no     *)
(* block runs; a delivery belongs to the block that runs.                  *)
VideoTypeOK ==
  /\ videoQueue \in Seq(Blocks)
  /\ videoBlock \in Blocks \cup {"none"}
  /\ videoPC \in {"wait", "setMask", "processMine", "processModel", "deliver", "signal"}
  /\ delivering \in Pictures \cup {"none"}
  /\ imageFree \in [Pictures -> BOOLEAN]
  /\ videoPC = "wait" <=> videoBlock = "none"
  /\ delivering # "none" <=> videoPC \in {"deliver", "signal"}
  /\ videoPC \in {"setMask", "processMine", "processModel"} => videoBlock = "mask"
  /\ delivering # "none" => videoBlock \in {delivering, "mask"}

=============================================================================
