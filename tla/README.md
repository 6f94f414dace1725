# AverageFace: verification project

TLA+ models of the AverageFace iOS application and of the concurrent part of the library
it carries, the TLC runs that check them, and TLAPS proofs of their main properties. The
application takes two photos, finds the face in each, triangulates the key points and draws
a blend of the two faces; two sliders control the blend. The repository also holds the whole
of dlib; the application only uses its detector and its image types, but dlib's threads are
where this tree has its most intricate code, so five of its components are modelled too.
Paths are relative to the repository root.

## 1. Inventory

| part | source | state | operations |
|---|---|---|---|
| ViewController | `src/AverageFace/ViewController.m`, `SettingView.m` | the two pictures, the filter, the view | `viewWillAppear:` with two nested completion blocks and a block for the video queue; `render`; two slider callbacks |
| FaceMorphFilter | `src/AverageFace/FaceMorphFilter.m` | which inputs have had a frame and when, input framebuffers, two feature items, eight normalised feature groups, mask, two intensities | `newFrameReadyAtTime:atIndex:`, `newFrameReadyAtTime1:`, `renderToTextureWithVertices:`, `normalizePhotos`, property setters |
| DLibFaceFeatureProcess | `src/AverageFace/DLibFaceFeatureProcess.mm` | serial queue, one shared pixel buffer (`image_buffer`), one bitmap per request | `processImage:completion:` |
| GPUImage (external) | headers in `src/AverageFace/GPUImage.framework` | video processing queue, one semaphore per `GPUImagePicture`, framebuffer lock counts | `processImage`, `runAsynchronouslyOnVideoProcessingQueue` |
| DLibFaceFeatureItem | `src/AverageFace/DLibFaceFeatureItem.m`, `DLibFaceFeatureStruct.h` | key points, eight feature lists, archive | `extractFaceFeatures`, `makeFaceShape`, `initWithCoder:` / `encodeWithCoder:` |
| Delaunay wrapper | `src/AverageFace/Delaunay/delaunay.c`, `istack.c` | points, triangles, neighbours, circles, the triangles around a point, search flags and stack | `delaunay_build`, `delaunay_destroy`, `delaunay_xytoi`, `delaunay_circles_find` |
| nn point utilities | `src/AverageFace/Delaunay/nncommon.c` | point arrays | thinning, range, scaling, generation, reading of points |
| dlib pipe | `src/Dlib/dlib/pipe/pipe_kernel_1.h` | ring of items, mutex, three signalers, three switches, three counters of waiting threads | `enqueue`, `dequeue`, with and without timeout; `wait_until_empty`, `wait_for_num_blocked_dequeues`; six switches; destructor |
| dlib read_write_mutex | `src/Dlib/dlib/threads/read_write_mutex_extension.h` | free locks, whether a writer collects or is inside, mutex, signaler | `lock`, `unlock`, `lock_readonly`, `unlock_readonly` |
| dlib thread_pool | `src/Dlib/dlib/threads/thread_pool_extension.cpp` | one slot per worker, worker ids, mutex, two signalers | `add_task`, `wait_for_task`, `wait_for_all_tasks`, destructor; the workers' `thread()` |
| dlib threaded_object | `src/Dlib/dlib/threads/threaded_object_extension.cpp` | four flags, mutex, signaler, at most one thread | `start`, `restart`, `set_respawn`, `pause`, `stop`, `wait`, `should_stop` |
| dlib timer | `src/Dlib/dlib/timer/timer.h`, `timer.cpp` | per timer a delay and a time, one global clock with a thread and a map of times | `start`, `stop`, `clear`, `set_delay_time`, `stop_and_wait`, destructor |
| SettingView, AppDelegate, main | same directory | widgets only | template code; `SettingView` forwards slider values |
| triangle.c, the rest of dlib | vendored | - | used through `triangulate()`, `shape_predictor` and `array2d` only |

### How the parts interact

    main thread              detection queue (serial)        video queue (serial)
    -----------              ------------------------        --------------------
    viewWillAppear --------> request "mine"
                             completion block 1:
                               faceFeatureMine := ...
                               request "model" (same queue)
                             completion block 2:
                               faceFeatureModel := ...
                               normalizePhotos
                               makeFaceShape --------------> mask block:
    slider callback                                            maskImage := ...
      intensity := v                                           processImage x 2 (inline)
      processImage x 2 ----------------------------------->  delivery of a picture:
                                                               newFrameReady -> frame -> view
                                                               signal the semaphore

All three threads share the filter. No lock protects its properties; the order of the steps
has to. `processImage` never waits: a picture whose semaphore is taken discards the call.

The dlib components are monitors: a mutex, signalers (condition variables) that belong to
it, and methods that any thread may call. `thread_pool` and `timer` hold tasks and timers;
a timer *is* a `threaded_object` whose `thread()` calls the action once, and the global
clock asks it to `restart()` whenever the time has come.

### What is hard here

- **Interleaving.** The main thread and the mask block both render two pictures with two
  calls; the filter pairs "a frame on each input", not "the two frames of one render".
- **Stale reads.** A frame is built in many steps, and `_shapeIntensity` is read once per
  feature group while the main thread writes it (`FaceMorphFilter.m:261-268`).
- **Discarded calls.** A slider's `processImage` may be dropped; a later frame has to make
  up for it.
- **Protocol.** Nothing stops the user from moving a slider before the faces are known.
- **Shared buffer.** Detection requests resize, fill and read one buffer in separate steps;
  only the seriality of the queue keeps them apart. That seriality comes from passing
  `DISPATCH_QUEUE_PRIORITY_DEFAULT` where a queue attribute is expected
  (`DLibFaceFeatureProcess.mm:50`): the constant is 0, which is `DISPATCH_QUEUE_SERIAL`.
- **Early returns.** No face, an empty image, a face below 10x10, `preventRendering`.
- **Geometry.** A circle search starts from what the search before has left (`first_id`,
  `t_out`, the flags); the walk of `delaunay_xytoi` has no bound; its seed test is off by
  one; a point on a circle is in it or not depending on rounding.
- **Shared indices.** The upper and the lower lip share points 48, 54, 60 and 64, so the
  order of the eight feature groups decides what is drawn.
- **Ends of loops.** `points_thinlin` writes a cluster only when something follows it;
  `points_read` has half written an entry when a line breaks off; a point on the side of a
  grid gets the index after the last one.
- **Monitors.** A signal wakes one sleeper, and the one it wakes may not be the one it was
  meant for; one signaler serves several conditions; a broadcast is saved where "nobody can
  be listening"; timeouts race with wakeups; destructors race with sleepers; a thread is
  asked to run again while it is ending; tasks wait for tasks they have added.

### What makes each part correct

- Filter: locks balanced; a frame for every pair; no short circuit; definite times kept.
- Detection: each accepted request answered once, in order, from its own pixels; no leak.
- Application: no masked frame from half configured features; the view finally shows the
  current values; the mask appears.
- Feature items: at intensity 0 a frame shows the model's face as it is, at full intensity
  the shape of mine in the size and place of the model's, and a photo of the same face at
  another size changes nothing.
- Point utilities: no write outside the arrays, means over what they should be means of,
  lines read completely or not at all.
- Pipe: a first-in first-out channel; nobody sleeps who could go on; the destructor ends
  and ends last.
- read_write_mutex: a writer alone, locks neither lost nor made, no sleeper forgotten.
- thread_pool: every task runs once, in one thread; waits return when, and only when, the
  tasks are done; no circle of waiting threads.
- threaded_object, timer: one thread, no lost restart, no run nobody asked for; a running
  timer fires and a stopped one is silent.
- Delaunay wrapper: the search terminates in a triangle that holds the point or
  outside the hull; the circle search finds all circles that hold the point and leaves its
  flags clean.

## 2. Modules

| module | what it is |
|---|---|
| `FaceMorphFilter` | the filter: pairing, building of a frame, locks, configuration; `FilterSpec` drives it alone |
| `VideoQueue` | the external part: video queue and picture semaphores; holds actions, no specification |
| `DetectService` | abstract: requests answered once each, in order, from their own image |
| `FaceDetect` | the detection service in steps; `Service` is its refinement mapping to `DetectService` |
| `AverageFace` | the application: EXTENDS the three components; `Spec` |
| `Delaunay` | the triangulation as built from the output of `triangulate()`, and its searches |
| `FaceFeatures` | extraction, normalisation and application of the eight feature groups, in numbers |
| `NNPoints` | the point utilities that fill an array of unknown length: `points_thinlin`, `points_read` |
| `NNGrid` | those on an array of known length: grids, ranges, scaling |
| `Channel` | abstract: a bounded first-in first-out queue between threads that exchange items |
| `Pipe` | dlib's pipe; `Promise` is its refinement mapping to `Channel` |
| `ReadWriteMutex` | dlib's read_write_mutex |
| `ThreadPool` | dlib's thread pool |
| `ThreadedObject` | dlib's threaded_object |
| `Timer` | EXTENDS `ThreadedObject`: dlib's timers and the global clock |
| `MC...` | constant values for TLC. Components that share no state and need no interleaving with one another are checked side by side in one run: `MCFaces`, `MCNNLibrary`, `MCThreads` and `MCTimers` add a variable `part` that says which of them a behaviour is about; the others stay as initialized |
| `...Proofs` | theorems and proofs: of the detection service (`FaceDetectProofs`), the filter and the application around it (`AverageFaceProofs`), the features of faces, the triangulation, the pipe, the point utilities and the library under `Delaunay/` altogether (`NNLibraryProofs`), the read_write_mutex and the thread pool (`ThreadsProofs`), the threaded_object and the timer (`TimerProofs`) |

Each module states its properties by named parts, and most of the parts as one
conjunction (`PipeSound`, `PoolSound`, `SearchExact`, ...), which is what a run checks.

An operator that stands directly before a definition and is called its *mutant* in its
comment is a faulty version of that definition. No specification uses it; it documents which
mistake each property detects.

### FaceMorphFilter

State: `received` (`hasReceivedFirstFrame`, `hasReceivedSecondFrame`), `frameTime`, `locks`
(locks held on the current framebuffer of each input), `left` (locks on framebuffers that
were replaced before they were unlocked: nothing can give them back), the two intensities, the two items, `morph`
(`_features_le` ... `_features_md`), `normalized` (progress of `normalizePhotos`),
`maskImage`, `preventRendering`. `stage`, `applied` and `frame` are the local state of the
thread that is inside the filter, and `shown` is the frame its targets were given last.

A frame is a record of *what it was made from*: the set of shape intensities and of group
states that were read, the skin intensity, the mask, the time. That is what the properties
tell apart; coordinates are not modelled.

| action | code |
|---|---|
| `NewFrameReady(t, i)` | `setInputFramebuffer` (the lock, external) and `newFrameReadyAtTime:atIndex:` up to the call of `newFrameReadyAtTime1` |
| `Triangulate` | `newFrameReadyAtTime1`, lines 213-259; a nil item is dereferenced through `[nil keyPointsRef]->` and ends the process |
| `ApplyFeatures` | one of the eight calls of lines 261-268 |
| `RenderToTexture`, `SkipRendering` | `renderToTextureWithVertices` and its early return |
| `InformTargets` (by `Inform`) | the rest of `newFrameReadyAtTime1`, and the flags reset in its caller |
| `Set...`, `CopyFeatures`, `NormalizeFeature` | setters; `normalizePhotos`, one copy or one rescaling at a time |

Items are `nil`, `tiny` (a face rectangle below 10x10: `extractFaceFeatures` returned early
and the lists are empty) or `face`. A group is `zero`, `raw` (copied, not yet rescaled) or
`scaled`. Feature items are read in one step in `Triangulate` although the code reads the
properties again for the feature groups: while a frame is being built an item can only go
from nil to its final value, and a nil item has crashed the frame by then.

### FaceDetect and DetectService

State: the queue, where each request is, `imageBuffer` (its size and whose pixels it holds),
the bitmaps that are allocated, whose pixels the landmarks were found in, the answers. The
pair (width, height) is one number: the code only compares both at once, and 0 stands for
"an empty side". What the detector finds is a free choice. The steps are those between
which the shared buffer can be touched: take, resize, copy, detect, predict landmarks,
complete. `FindNoFace` is the early return that releases neither bitmap nor context.

`DetectService` promises: each request is answered once, in the order made, with nil or
with features of its own image. The refinement mapping takes the running request and the
queue as `pending`, and `facePixels` as evidence of whose image was used.

### VideoQueue and AverageFace

`processImage` takes the picture's semaphore or gives up; then it runs its block on the
video queue, and inline when the caller is that queue (so in the mask block). On the main
thread, taking the semaphore (`RenderPicture`), queueing the block (`QueuePicture`) and
giving up (`DiscardPicture`) are three actions: between the first two the mask block may
run and find the semaphore taken although nothing is queued. The block delivers
to the filter and signals. `TextureLocation` follows `ViewController.m:71` and `:80`: the
model picture is input 0, mine is input 1.

`AverageFace` adds the program counters of the main thread (`mainPC`) and of a completion
block (`completionPC`), a count of slider movements, and two history variables: `discarded`
(some `processImage` was dropped) and `missed` (since the last slider movement, some
`processImage` was dropped while its picture was in a frame being built, or in a finished
frame with the semaphore not yet signalled; a picture that is still queued, or that waits
in the filter for the other one, is not missed, because the frame is yet to come). They only occur in properties.

### Delaunay

`delaunay.c` stands on its own. The filter only builds and destroys a triangulation; the
searches are the library's interface, and nothing in the application calls them. They are
modelled because the code keeps a lot of state from one search to the next.

`mesh` is the input with what `triangulate()` returns for it: triangles and neighbours. That
function is third-party; `IsMesh` and `EmptyCircles` say what the model takes from it
(triangles turn left, a neighbour shares the opposite side, the mesh is convex, no point
lies inside a circle). The meshes of `MCDelaunay` list the triangles in the order in which
the compiled `triangulate()` returned them; neighbours follow from them.

| action | code |
|---|---|
| `StoreTriangles`, `CountTriangles`, `AllocateLists`, `FillLists` | `tio2delaunay`: circles, then the three passes over the lists of triangles around a point |
| `CirclesFind`, `LinearSearch` | entry of `delaunay_circles_find`; the loop for few triangles |
| `ReuseSeed`, `Locate`, `Walk`, `Located` | the last seed, or `delaunay_xytoi`, one triangle per step |
| `SeedFromLast`, `SeedFromAll`, `NotFound` | the point is in no triangle: circles of the last result, all circles, failure |
| `Pop`, `PushAround`, `Return` | the main cycle, one list entry per step; `delaunay_resetflags` |
| `ReuseArray` | the caller writes into the array that `d->points` refers to |

Coordinates are integers and circles exact fractions (`Circle` is the formula of
`circle_build1` with the denominator cleared), so a point is inside, on or outside a circle.
For a point exactly on it, floating point may answer either way but always the same:
`touching` fixes an answer for every such pair. `realloc` growth of the stacks and of the
flag list, forced segments and holes (never passed by the filter) and the freeing of memory
are left out.

### FaceFeatures

What `FaceMorphFilter` keeps as "which groups were read" is computed here. State: for each
role (mine, model) the photo of its item and its groups, the filter's own copy of mine
(`blended`), and the points of the frame that is drawn. Actions: `DetectFeatures` (a new item),
`Decode` and `Extract` (an archived item comes back without groups until
`extractFaceFeatures`), `NormalizePhotos`, `DrawFrame`. `Vids` are the tables of
`DLibDefaultFaceStruct`, `KeyPoints` the 71 points of `processImage`, `ApplyOrder` the order
of the eight calls. Only x is followed: y takes the same statements with the heights.
Lengths are integers, in the run in units of 1/240 pixel, so fine that the divisions of the
code come out even (`ExactAssumption`); rounding of floats is left out. `Applied` has the
points after each of the eight calls.

### NNPoints and NNGrid

A point of `points_thinlin` is its place along a line, the sums over a cluster are the set
of indices summed, so that a mean tells what it was made of. `points_read` is modelled line
by line: which coordinates a line has written before it broke off (`Written`), and whether
it counts (`IsPoint`). `NNGrid` is a client that calls the functions on its array one after
another; coordinates are integers over a common denominator.

### Pipe and Channel

Each action is what one thread does while it holds `m` without a break: enter a method,
look at the condition and sleep, or leave. `Signal` wakes any one sleeper of a signaler and
`Broadcast` all; a woken thread takes part in the race for `m` (`Resume`); a timed wait may
end by itself (`TimeOut`). `Enqueue` .. `EnqueueDone` are the path of a pipe with memory;
`Offer` .. `OfferTaken` the one with `max_size()` 0, where an item lies in `data[0]` until a
dequeuer has taken it. `enqueue()` differs from `enqueue_or_timeout()` in the condition under
which it makes its offer (`MayMeet`). An item is the thread that made it: `exchange` swaps it
with what the slot holds.

`Channel` has a queue and the items of the threads, and four actions: prepare an item, put
it, take the oldest, withdraw the one just put; `Clear` is the method `empty()`. The mapping
takes the ring from `first` on, or the item on offer.

### ReadWriteMutex

`available_locks` counts free locks. A reader takes one; a writer waits for its turn
(`WaitTurn`, `TakeTurn`), collects all that are free, and goes on collecting as readers
leave (`CollectMore`) until it has `max_locks`. Threads give back what they hold, and nothing
else (see "Not checked by a run" for what a stray `unlock_readonly()` does).

### ThreadPool

`tasks` are the slots; `pc` and `sleeps_on` say where each thread is. A thread may be inside a
stack of tasks: its own, and those it runs on the spot because no slot was free
(`RunInline`). `made` is the history of all tasks, which the code does not keep. Tasks and
users call any method at any time; `MayEnd` lets a task's code return, with `orphans` FALSE
only when the tasks it has added are done; `orphans` is chosen once and for all.

### ThreadedObject and Timer

The flags of `ThreadedObject` are those of the code; `helper` is where `thread_helper` is,
`helpers` counts the threads that are in it (so that a second one would show). Every method
runs under `m_` and is one step, except that `wait()` and `should_stop()` sleep.
`credit` and `owed` are history: how often somebody has asked for a run, and whether a
restart has been asked for since the last one began.

`Timer` adds the clock: `in_clock` and `next` are the map of times, relative to now, so that
`Tick` counts them down; `clock` says whether the clock thread sleeps, is awake, or is going
through the due timers with `gc->m` (then no method can start). `gc->m` is locked before
`m_`, never the other way round. The clock's sleep of 100 seconds without timers is
longer than everything else (`Far`).

## 3. Runs

| run | what it checks | bounds |
|---|---|---|
| `filter_movie` | input 1 is a movie: definite time kept, its framebuffers not over-released | 2 intensities, 2 frame times, at most 2 locks left behind per input |
| `average_face` | safety and liveness of the application | 2 slider movements, 2 intensities |
| `features_nonnull` | a violation, see findings | 1 slider movement |
| `faces` | the detection service (shared buffer, leaks, refinement of `DetectService` with its liveness); the feature groups and frames of any sequence of detections and drawings | 5 requests: two of one size, one larger, one empty, one with a nil image; 5 photos, intensities 0, 1/2, 1 |
| `completion_nonnull` | a violation, see findings | 3 requests |
| `nn_library` | any sequence of searches in a triangulation; every row of points to thin and every file to read; grids, ranges and scaling | 3 meshes, 7 points, `N_SEARCH_TURNON` 20 as in the code; rows up to 5 points, files up to 3 lines, arrays that start with 1 entry; 2 and 3 points on a lattice of 12, 7 grid sizes, 2 calls |
| `all_circles`, `deep_copy` | violations, see findings | the same meshes and points |
| `pipe_queue` | a pipe with memory: every wait there is and what ends it, refinement of `Channel`, liveness | 3 threads, 2 items, 4 calls |
| `pipe_meeting` | a pipe without memory, with timeouts and all switches, refinement of `Channel` | 3 threads, 5 calls |
| `threads` | the mutex: exclusion, conservation, wakeups, liveness; the pool: safety with tasks that may leave tasks behind, liveness with tasks that wait for theirs | 4 threads, 2 locks, 6 entries; 2 workers, 1 user, 3 tasks |
| `timers` | the object and the timers, safety and liveness | 2 objects, 2 callers, 4 calls; 2 timers, one caller that waits, 2 delays, 3 calls |

Bounds and why they are enough:

- `MaxMoves`. Two movements give every overlap of a render with the mask block and with an
  earlier render, and fill every place of the queue (at most one block per picture and the
  mask block, `SemaphoreDiscipline`); a further one meets a queue that an earlier one met.
- `Intensities`: two values tell old from new. The properties only compare for equality.
- `MaxLocks`: in the filter's own run no delivery starts once an input has left
  `MaxLocks` locks behind, or owes as many (a still picture opposite a movie); both counts
  would otherwise grow for ever. The proofs hold for every `MaxLocks` and `MaxMoves`.
- Requests: the buffer is reused (equal size) or resized (other size), either after an
  early return or not; five requests in every order give each combination.
- Meshes: 21 triangles (just above `N_SEARCH_TURNON`) with a duplicate point, which has no
  triangle; a grid of 24, where four points share each circle and points lie on the sides of
  the hull, as some of the twelve points the filter adds do; 6 triangles for the linear
  search. The points searched for are inside, on a circle, a corner, and outside the hull:
  within and beyond the bounding box, in circles and in none. The number of searches is not
  bounded: what they leave behind takes finitely many values. Every mesh of the list is
  a start of its own; `IsMesh` and `EmptyCircles` are evaluated for it by TLC. Deadlock
  is not checked there: after `ReuseArray` nothing follows.
- Photos of `faces`: one face, the same at half its size, the same cut off by the
  edge of the picture, another one, and one below ten pixels; every pair of them, with
  detections repeated after normalising.
- Rows and files: five points give two clusters with a lost point between and behind them;
  an array of one entry doubles twice with three lines or three means.
- Pipe: three threads give two sleepers of a kind and one that wakes them, so that a wake can
  reach the wrong one; two items are the least ring that wraps around; the switches need one
  more call to be undone. The proofs hold for all of these numbers.
- read_write_mutex: two locks are the least number at which a writer can have some and wait
  for others; four threads are two writers and two readers, and each may be either.
- thread_pool: with two workers, a third task is the first that finds no slot; a worker adds
  it (it runs on the spot) or the user does (who waits). Every nesting of three tasks occurs.
- threaded_object: objects share nothing; four calls of two callers start it, and bring a
  restart, a pause or a stop to every place of `thread_helper` while the other one waits.
  The safety part is proved for any number of objects, callers and calls.
- timer: two timers of which either is first, and delays 1 and 2, so that one that is added
  or changed comes before, with or after the one the clock sleeps for. Three calls are two
  starts and whatever crosses them, or a start, a `stop_and_wait` and another start.
  The safety part is proved for any timers, delays and numbers of callers and calls.
- Bounds on calls (`MaxCalls`, `MaxTimerCalls`, `Entries`, `MaxTasks`) are in the guards of the
  actions that begin a call; they never stop a call that has begun.
- `CHECK_DEADLOCK FALSE` in the detection and application runs: when all requests are
  answered and the user has stopped moving sliders, nothing is left to do. The filter's run
  keeps deadlock checking on. In the library's runs the callers stop calling, so the system
  may stop; that nobody is stuck inside a call is what the liveness properties say.

### What the application runs show (`filter_movie`, `average_face`, `faces`)

- `SemaphoreDiscipline`: a semaphore is taken exactly while its delivery is queued or in
  progress, and no block is queued twice. Hence the queue holds at most three blocks.
- `MaskedFramesNormalized`: although `maskImage`, the items and `normalizePhotos` are
  written by other threads than the one that draws, no frame with a mask is made from a
  half normalised face. The code relies on dispatching the mask block last.
- `LocksPaired`: what a frame locked it gives back; between two frames an input holds one
  lock while it waits and none otherwise.
- `LocksLeftBehind`: pairing can slip. When the mask block runs between the two
  `processImage` calls of a slider callback, one input is delivered twice in a row and one
  lock is never given back. Without a discarded call this happens at most once; with
  discarded calls it may happen more often. It is never the other way round: no framebuffer
  is unlocked too often (`NoOverRelease`).
- `SettledFrameCurrent`, `MovementShown`: when a slider's `processImage` is discarded, the
  frame to come normally picks the new value up. It does not when the call was discarded
  while that picture's frame was being built, or was finished and not yet signalled: the
  value is then lost, or mixed with the older one, until the next movement. `missed` names
  that window, and both properties hold outside it.
- `MaskedFrameComes`: both calls of the mask block may be discarded, but never in a way
  that keeps the masked frame from appearing, unless the process has died.

### What `nn_library` shows of the triangulation

- `LocatedRight` (in `SearchExact`): from whatever triangle the walk starts, it ends in one that holds the
  point, or the point is outside the hull; `SearchReturns`: it does end.
- `SearchProgresses`: why it ends. A step of the walk leads to a triangle in whose circle the
  point lies deeper, or to one on the same circle (`WalkDescends`); depth is the power of the
  point, which `Excess` and `denom` give as a quotient. And in the main cycle a number that is
  never negative gets smaller with every step (`ExpansionEnds`, `StepsLeft`): each triangle is
  pushed once, so there are at most `ntriangles` pops with three lists each.
- `ResultsRight` (in `SearchExact`): the result of a search has no circle the point is
  outside of, and each of the others at most once; it has the circle the search started from and, with a
  triangle, all triangles around its corners whose circles have the point in their interior; a
  linear search leaves out none, and nothing is returned only if no circle has the point.
  Points on a circle may be in or out.
- `AllOfHull` (in `SearchReturns`): for a point of the hull the result holds *every* circle
  that has the point in its interior; it does not depend on the searches before. The one
  exception is a search that starts from a circle the point is exactly on: when many points
  lie on one circle, with the triangles between them in a zigzag, rounding can accept this
  circle for the triangle the last search has left and refuse it for the triangles around it, and
  the search stops there. (Found with twelve points of distance 5 from the origin and a
  search for (3, 4); the three meshes of the run are too regular for it.)
- `FlagsTracked` (in `SearchExact`), `ListsExact`: no flag outlives its search, no triangle is pushed twice;
  the second pass over the lists writes what the first one has counted.
- `DelaunayTypeOK` (in `TypesOK`): the seed test `id > d->ntriangles` lets `ntriangles` pass, but
  `first_id` is -1 or an existing triangle whenever it is used.

### What `faces` and `nn_library` show of features and points

- `FramesRight` (`NeutralFrame`, `ShapeTaken`), `NormalizedRight` (`GroupsCentred`,
  `SameFaceUnchanged`): the tables, means,
  rescaling and the order of the groups fit together. `ShapeTaken` leaves the upper half of
  the mouth out: its four corners are drawn again with the lower half.
- `ThinlinRight` (`WritesFit`, `ClustersBounded`, `LossesBounded`): no mean is over more than `rmax`; a point in no mean is
  one that closed a cluster, at most one per mean, or is in the last cluster.
- `ReadExact`: a line that breaks off leaves nothing behind although it has written to the
  entry of the next point. Lines longer than the buffer, which `fgets` splits, are not
  modelled.
- `CellsRight` (`CellsPartition`, `SumsRight`, `GridKept`): each point is in the cell whose rectangle holds it, also on
  the last sides; the running sums of a cell are the sums over its points; a generated grid comes through thinning with its own sizes unchanged.

### What the library runs show (`pipe_queue`, `pipe_meeting`, `threads`, `timers`)

- `ImplementsChannel`: whatever the interleaving, items come out of a pipe once, in order,
  and a call that fails leaves its item alone.
- `PipeSound`: the three counters are exact on every way out of a method (`CountersExact`),
  the ring is (`RingExact`), no item lies in the pipe while all dequeuers sleep
  (`ItemsFetched`), no enqueuer sleeps while there is room (`EnqueuersServed`), and the
  destructor returns last (`DestroyedAlone`).
- `EverybodyLetGo`: the destructor, `disable()` and a timeout do end the calls they are meant
  to end. With `max_size()` 0 a timeout does not always, see below.
- `MutexSound`: a writer is alone, locks add up, and the broadcasts that `unlock_readonly()`
  saves are not missed (`NobodyOverslept`). `EveryoneServed`: after the last newcomer
  everybody who waits is served.
- `PoolSound`: each task is in one place and has an id of its own; for each task that is ready
  there is a worker of its own on its way (`WorkersOnTheWay`), so a worker that waits inside a
  task is never the only one who could do what it waits for; no sleeper misses the end it
  waits for; the destructor waits for tasks that are added while it waits.
  `WaitsReturnRight` holds although slots are used again at once, because ids are fresh.
  `NobodyWaitsForEver`: if tasks wait for the tasks they add, nobody is stuck.
- `ObjectSound`, `RequestsServed`: one thread, no run that nobody asked for, and a restart is
  served, whenever it comes. The exception is an object that is paused.
- `TimerSound`, `TimersServed`: between clock, timer thread and methods no timer gets lost, the
  clock never sleeps past the next one, and every running timer fires. After
  `stop_and_wait()` nothing is pending, although after `stop()` something may be.

### Fairness

Weak fairness of each of the three threads, as a whole: GCD runs the blocks of a queue as
long as there are any, and the main loop runs to the end of a callback. Moving a slider is
not fair: the user need not do anything. The mask, the frames and the answers therefore
come from what the code dispatches, never from user input. A thread's next step depends
only on its own program counter, so weak fairness is enough for the application. In `FaceDetect`, weak fairness of the queue's thread; requests are not fair.
In `Delaunay`, weak fairness of a search that has begun (it is a sequential function); new
searches are not fair.

The library's threads: fairness of what a thread does *inside* a call, never of making one.
It is weak in `ReadWriteMutex`, `ThreadPool` and `ThreadedObject`: their mutexes are held within
one action, and the number of calls is bounded, so whoever can go on stays able to. It is strong
for the threads of `Pipe` and for the timers' threads, which must get a mutex that others take
and give back for ever (the clock fires as long as time passes): a mutex that does not starve
a woken thread. Mutexes of the platforms dlib runs on are not strictly fair, but do not
starve a thread for ever either. `PipeSpec` adds that a timeout passes, `ThreadPool` that the
code of a task returns, `ObjectSpec` that `thread()` returns unless it is paused, and
`TimerSpec` that time passes and that action functions return.

### Findings

- `CompletionNonnull`: `DLibFaceFeatureProcess.h` puts the completion block's parameter
  under `NS_ASSUME_NONNULL_BEGIN`; the code calls `completion(nil)` for an empty image and
  for a photo without a face. `ViewController` sends on messages to nil, which is harmless,
  until a frame reads the item.
- `FeaturesNonnull`: the header of the filter declares both feature items nonnull. A slider
  moved before detection has finished renders with nil items, and `newFrameReadyAtTime1`
  dereferences NULL. The same happens when a photo has no face.

- `AllCirclesFound`: `delaunay.c:420` says "Finds all tricircles specified point belongs
  to". For a point outside the hull the triangles whose circles hold it may form two groups
  that share no corner, and only the group of the seed is found: (16, 15) in the first mesh
  is in the circles of triangles 9 and 13, and the compiled code returns 9, or 13 when
  the search before was for (12, 1).
- `DeepCopy`: `delaunay.h:56` says that the structure contains a deep copy of the points;
  `delaunay_build` keeps the caller's pointer (as the revision note `delaunay.c:15` says).
  The filter overwrites and frees that array before `delaunay_destroy`, which is harmless
  as long as nobody searches.

### Not checked by a run

Seen while modelling, in the same code, and described here so that the bounds of what is
checked are clear:

- `points_thinlin` loses points: `nncommon.c:203` speaks of averaging the input data, but the
  point that closes a cluster (`nncommon.c:264`) and the last cluster are in no mean.
  `LossesBounded` says how many at most.
- A still picture opposite a movie is unlocked once per movie frame and so over-released.
  `NoOverRelease` leaves that input out; the application uses two still pictures.
- `wait_until_empty()` is to return when dequeueing is disabled; `disable_dequeue()` does not wake
  it. `wait_for_num_blocked_dequeues()` is to return when the pipe is empty and enough threads
  wait; the dequeue that empties the pipe does not wake it. So `PipeSound` does not speak of
  these two waits, and `EverybodyLetGo` only of what ends them for good.
- With `max_size()` 0, `enqueue_or_timeout()` first waits with its limit and then, when it has
  offered its item, without one. `EverybodyLetGo` is checked with `max_size()` 2.
- `unlock_readonly()` is documented to do nothing when the caller has no lock. Its test takes the
  locks a collecting writer already has for readonly locks; afterwards there is one lock too
  many. In the model threads give back only what they hold.
- The constructor of `threaded_object` leaves `should_respawn_` unset, so `should_respawn()` reads an
  indeterminate value until the first call that writes it; nothing else reads it before.
- `start()` after `stop()` of a timer can be followed by the action at once, when the clock had
  fired the timer before `stop()`.
- `wait_for_all_tasks()` compares threads, so that a task which a worker runs on the spot inside
  another one may wait for the outer one, that is for itself (`thread_pool_extension.cpp:117`).
- `points_thingrid` leaks its arrays on an early return (`nncommon.c:103-110`) and converts 0/0
  to an int for points on one line (`:135`, `:145`).

## 4. Proofs

Everything below is proved for all values of the constants that satisfy
`FilterAssumption`, `DetectAssumption`, `FeaturesAssumption`, `ExactAssumption`, `AverageFaceAssumption`, `DelaunayAssumption`,
`AllocationAssumption`, `InputAssumption`, `GridAssumption`, `PoolAssumption`, `SizeAssumption`, `ThreadsAssumption`, `LocksAssumption`, `BoundsAssumption`,
`CallsAssumption`, `DelayAssumption`, `LongestAssumption` and `NamesAssumption`: any sets of
intensities, times and images, any number of slider movements, any landmarks and sizes of faces, any meshes, any rows of points,
files, arrays, grids and zooms, any finite sets of
threads, sizes and numbers of locks, any number of calls, any set of delays with a longest.

| module | theorem | statement |
|---|---|---|
| `FaceDetectProofs` | `DetectTypeCorrect` | `DetectSpec => []DetectTypeOK` |
| | `BufferBelongsToRequest` | `DetectSpec => []OwnBuffer` |
| | `OnlyFacelessBitmapsLeak` | `DetectSpec => []LeakOnlyWithoutFace` |
| | `ServiceImplemented` | safety part of the refinement of `DetectService` |
| `AverageFaceProofs` | `FilterTypeCorrect` | `FilterSpec => []FilterTypeOK` |
| | `NeverOverReleased` | `FilterSpec => []NoOverRelease` |
| | `ShortCircuitNeverTaken` | the short circuit is never taken |
| | `FrameTimeKept` | `FilterSpec => []DefiniteTimeKept` |
| | `TypeCorrect` | `Spec => []TypeOK` |
| | `SemaphoresDisciplined` | `Spec => []SemaphoreDiscipline` |
| | `MaskedFramesAreNormalized` | `Spec => []MaskedFramesNormalized` |
| | `LocksArePaired` | `Spec => []LocksPaired` |
| | `AppNeverOverReleases` | `Spec => []NoOverRelease` |
| | `SettledFramesAreCurrent` | `Spec => []SettledFrameCurrent` |
| | `OneLockLeftBehind` | `Spec => []LocksLeftBehind` |
| `FaceFeaturesProofs` | `FeaturesTypeCorrect` | `FeaturesSpec => []FeaturesTypeOK` |
| | `FaceNormalizedRight` | `FeaturesSpec => []NormalizedRight` |
| | `IntensityFramesRight` | `FeaturesSpec => []FramesRight` |
| | `FacesTyped` | `MCSpec => []TypesOK`, of the service and the features together |
| `DelaunayProofs` | `DelaunayTypeCorrect` | `DelaunaySpec => []DelaunayTypeOK` |
| | `FlagsAreTracked` | `DelaunaySpec => []FlagsTracked` |
| | `ListsAreExact` | `DelaunaySpec => []ListsExact` |
| | `SearchesAreExact` | `DelaunaySpec => []SearchExact` |
| | `SearchesGetOn` | `DelaunaySpec => SearchProgresses` |
| `NNLibraryProofs` | `PointsTyped` | `PointsSpec => []PointsTypeOK` |
| | `MeansAreRight` | `PointsSpec => []ThinlinRight` |
| | `FilesAreRead` | `PointsSpec => []ReadExact` |
| | `RangesAreRight` | `GridSpec => []RangeRight` |
| | `SquaresGoBack` | `GridSpec => SquareAndBack` |
| | `CellsAreRight` | `GridSpec => []CellsRight` |
| | `GridTyped` | `GridSpec => []GridTypeOK` |
| | `LibraryTyped` | `MCSpec => []TypesOK`, of triangulation, points and grid together |
| `PipeProofs` | `PipeTypeCorrect` | `PipeSpec => []PipeTypeOK` |
| | `PipeCountsItsThreads` | `PipeSpec => []CountersExact` |
| | `PipeRingIsExact` | `PipeSpec => []RingExact` |
| | `NoItemLeft` | `PipeSpec => []ItemsFetched` |
| | `NoEnqueuerLeft` | `PipeSpec => []EnqueuersServed` |
| | `NobodyInsideDestroyed` | `PipeSpec => []DestroyedAlone` |
| | `PipeIsSound` | `PipeSpec => []PipeSound`, from the six above |
| | `PipeIsChannel` | `PipeSpec => ImplementsChannel` |
| `ThreadsProofs` | `RWTypeCorrect` | `RWSpec => []RWTypeOK` |
| | `LocksNeverLost` | `RWSpec => []LocksConserved` |
| | `WriterAlone` | `RWSpec => []Exclusion` |
| | `NoWakeupLost` | `RWSpec => []NobodyOverslept` |
| | `MutexIsSound` | `RWSpec => []MutexSound`, from the four above |
| | `PoolKeepsItsBooks` | `PoolSpec => []PoolSound` |
| | `WaitersFindTasksDone` | `PoolSpec => WaitsReturnRight` |
| `TimerProofs` | `ObjectTypeCorrect` | `ObjectSpec => []ObjectTypeOK` |
| | `ObjectHasOneThread` | `ObjectSpec => []OneThread` |
| | `NobodyLeftAsleep` | `ObjectSpec => []NobodyForgotten` |
| | `RunsWereAsked` | `ObjectSpec => []NoRunUnasked` |
| | `ObjectIsSound` | `ObjectSpec => []ObjectSound`, from the four above |
| | `TimerInvariant` | `TimerSpec => []TimerInv`, the inductive invariant |
| | `TimerIsSound` | `TimerSpec => []TimerSound` |
| | `TimerIsObject` | `TimerSpec => []ObjectSound` |

The argument, module by module:

- **Filter.** `FilterInv` adds to the type invariant how many locks each input holds:
  a received flag is worth one lock between frames, and one while a frame is being built
  (`HeldLocks`). Without it `NoOverRelease` is not inductive, because the unlock of
  `RenderToTexture` must be traced to the lock of the delivery that started the frame.
  `ShortCircuitUnused` needs the same tie between `stage` and the flags.
- **Detection.** `DetectInv` adds that at most one request runs and that a queued request
  occurs once in the queue and is in state "queued". From "one runs" follows that nobody
  touches the buffer between the steps of a request, which gives `OwnBuffer` and
  `OwnLandmarks`, and that `Pending` is the running request followed by the queue, so that
  `Complete` is `Answer` and `ProcessImage` is `Request`; every other step stutters.
- **Application.** `AppInv` conjoins the components' invariants with
  `StageInDelivery` (the filter is busy only during a delivery, so no second delivery
  enters it), `PairedLocks` (`LocksPaired` carried through the building of a frame), `ConfigurationOrder` (where the two completion blocks are determines which
  items are set and whether a mask block can exist), `NormalizedPrefix` (the groups
  before `normalized` have their final state, and nothing is raw after `normalizePhotos`)
  and `UniformFrames` (once the mask is there, every frame is built from final groups).
  `MaskedFramesNormalized` alone is not inductive: it says nothing of what a queued mask
  block will find. There is one lemma per action of the composed specification; the
  components' actions keep their invariants by the filter's lemmas above them and those of
  `FaceDetectProofs`.
  `SettledFramesAreCurrent` and `OneLockLeftBehind` each have an inductive invariant on top of
  `AppInv`. For the first, `Current`: as long as the last frame shown lacks the mask or the
  newest intensities, both pictures are `Awaited`, that is on their way to the filter or
  waiting in it for the other one; a frame being built is either `OnTrack` or to be followed
  by another one. For the second, `TurnInv`: while nothing is discarded the
  slider callbacks deliver in turn (`InTurn` follows the two pictures through queue and
  block), so the filter is in step with them or, after the mask block came between two
  calls, one picture ahead, and it has lost one lock exactly in the second case
  (`LossesCounted`); the mask block comes once (`MaskOnce`), so there is no third case.
- **Features of faces.** `FeaturesInv` says where everything comes from: the groups of a role are
  empty or those of its item, the filter's own are mine rescaled as long as `normalized`
  holds, and a complete frame is the last of nine lists of points, the model's and what each
  call of `ApplyFeatures` made of the one before (`Calls`). What follows is about one state. `GroupsListed` is about the
  tables: no landmark is twice in a group; `GroupsApart`: only the two halves of the mouth
  share some; so each landmark is where the last call that moves it put it (`GroupsDrawn`).
  `ValuesAre` is that place without divisions, which come out even. The means are treated by
  one lemma, `SumsCombined`: a linear equation between the entries of sequences holds between
  their sums. It gives that the mean of a similar face is the similar mean, and that a group is
  moved around its centre. For `FeaturesTypeCorrect` the points and the filter's own groups
  need an invariant of their own (`TypedInv`), as they are kept when the items change.
  `FacesTyped` is about the specification the run checks: a step is one of the service or one
  of the features, so the two invariants are kept side by side.
- **Delaunay.** `DelaunayTypeOK` is inductive as it stands, with `MeshShape` giving what
  the steps use of a mesh. `FlagsTracked` is inductive relative to it: a search begins
  without flags because the one before has reset exactly the ones it remembered, and
  `PushAround` only appends what is not flagged, so `AppendEntries` keeps `flagids` free of
  repetitions. `ListsInv` says what the passes have done so far: the first one has counted
  corners (`CountsAreRight` turns the code's count per corner into the cardinality of
  `CornersOf`), the second has put in the triangles below `tid`; as the corners of
  a triangle differ, a list never outgrows its count. `LocatedInv` and `SearchInv` make
  `SearchExact` inductive: the walk gives up at a side of the hull that separates the point from
  all triangles, because the mesh is convex (`BeyondTheHull`, `HullInBox` for the bounding
  box); the stack and the result are disjoint, flagged together, and whatever is around a
  finished corner is flagged (`Expanding`), so when the stack is empty the result is closed under
  common corners. The plane geometry is proved from the coordinates: a point of a
  triangle is a weighted mean of its corners (`WeightsOfCorners`, `WeightsInTriangle`), hence on the
  corners' side of a line (`TriangleOnOneSide`) and in the triangle's circle
  (`TriangleInCircle`). The last lemma is what justifies the code's flag
  `contains`, which takes the first circle without asking: the point is in it.
  `WalkDescends` is a polynomial identity (`PowersDiffer`): the difference of the powers of a
  point in the circles of two triangles with a common side is the product of two factors, on
  which side of that line the point is, and the power of the second triangle's third corner in
  the first one's circle. The walk makes the first negative, the empty circles of a Delaunay
  triangulation (`EmptyCircles`, which `DelaunayAssumption` asks of every mesh beside `IsMesh`)
  the second nonnegative; where it is zero, all corners are on one circle. `ExpansionEnds` needs the invariants proved
  before: flags are not repeated (`FlagsTracked`), so they are no more than triangles
  (`FlagsFew`), and no more are the entries of a list (`ListsExact`).
- **Point utilities.** `PointsInv` describes what the calls have done so far. For
  `points_thinlin`, every mean written is a `Chain` (neighbouring points), the means follow one
  another, the open cluster ends with the last point and comes with the lengths of its path,
  and a defined point is in a mean, in the open cluster or right behind a mean. That order
  gives what `LossesBounded` says: means that follow one another are disjoint, and the points
  lost are no more than the means they are behind. For `points_read`, a good line's point is in
  the place of its number among the good lines, the `Cardinality` of `GoodUpTo`; a line that
  fails writes behind the last point only, so it disturbs none of them. `GridInv` keeps the
  cells in closed form (`Thinning`: each point looked at is in the cell `Box` computes), their
  running sums as sums over the points looked at (`SumOver`, which changes for one cell and by one term in a step), a
  generated grid up to the factor it was stretched by (`HoldsGrid`), and how the array differs
  from the one before it was made square (`Squared`). That `Box` is the right cell is
  arithmetic of quotients (`Quotient`, `QuotientIs`, `CellFits`); that a grid keeps its points
  is `EvenCells`: the k-th of `count` coordinates that are (max-min)/(count-1) apart is in the
  k-th of `count` cells. That an array has least and greatest coordinates is an
  induction over its length; as induction over an operator is out of reach, `SetInduction` states it for sets and
  takes it from the least element of a set of naturals, which the well-foundedness of < gives.
- **Pipe.** `PipeInv` adds `Calling` (a sleeper is inside a call, on the signaler of that
  call, and the thread that holds `m` is awake), `FirstInside` and `ItemsOwn` (an enqueuer
  still has its item, the item on offer is the offerer's), and the two wakeup properties
  without their condition that `m` is free (`EnqueuersWake`, `ItemsWake`). The latter count:
  `ItemsFetched` is about the number of items and the number of dequeuers on their way, so
  lemmas give what each kind of step does to the cardinalities (`CallEnters`, ...). From the
  invariant, `Queue` after a step is `Append(Queue, ...)`, `Tail(Queue)` or the same, which
  gives the refinement; index arithmetic modulo `max_size` is one lemma (`ModSum`).
- **read_write_mutex.** `RWInv` is the conjunction of the properties with `Collected` (what
  a writer that collects has obtained); the induction is over sums written as the free
  locks, the number of readers and the one writer's locks.
- **thread_pool.** `PoolInv` describes the slots and the ids they have given (`SlotSound`,
  `TaskSound`: an id is a multiple of the number of slots plus the slot, so no two slots give
  the same one), the stacks of the threads (a task that runs is on exactly one of them), where
  each thread may be (`Place`, `Closing`, `Ending`), and the two properties about sleepers.
  There is one lemma per kind of change to the books (`TaskTaken`, `TaskFinished`, `TaskPut`,
  `TaskNested`, `TaskReturned`). `WorkersOnTheWay` compares the number of ready tasks with the
  number of workers on their way; `EnoughWorkers` counts them when nobody sleeps for want of a
  task: each worker inside a task has a busy slot of its own, so at least as many workers as
  ready slots are left. Nothing is assumed about how many workers there
  are, only that they are finitely many.
- **threaded_object.** `Sound(o)` ties `helper`, the flags and `credit` together: a thread
  that is about to begin, or will after the run it is in, has been asked for.
- **timer.** `TimerInv` takes over the invariant of threaded_object, whose lemmas give its
  preservation by every step of a timer's thread, and adds `DelaysBound` (a timer in the clock
  is due when its delay is over at the latest, so a deadline the clock thread takes from it is
  in range) and `ActingSound` (the action executes in `thread()` only). For `NeverLate`, an
  addition that does not wake the clock thread finds a timer there which is due no later, and
  the deadline is no later than that. `QuietAfterWait` follows from `NeverForgotten`: a wait
  ends when the object is not alive, and a stopped timer without a thread is not in the clock.

Only model-checked:

- All liveness (`ENABLED` and fairness are out of the prover's reach): the liveness half of
  `ImplementsService`, `MaskedFrameComes`, `MovementShown`, and what the threads of the
  pipe, the mutex, the pool, the threaded_object and the timer eventually do.
- `AllOfHull` in `SearchReturns`. It rests on the set of circles that hold a point of the hull
  being connected, a theorem on Delaunay triangulations whose triangles do not overlap;
  `IsMesh` does not say that they do not, and the prover has no topology.
- That the walk ends. `WalkDescends` leaves one way to go round for ever, through
  triangles all on one circle that holds the point at the same depth; there a triangle is passed at most once,
  as the walk crosses their sides in one direction only, but to say so of walks of any length
  is an induction over the walk. The main cycle's bound is proved; that the steps are taken
  at all is `SearchReturns`, which is liveness.

## 5. What is left out

- Coordinates, colours, blending and shaders; drawing by OpenGL ES.
- `usingNextFrameForImageCapture` (nothing in the application asks for a capture).
  `preventRendering` is only set in the filter's own specification.
- `GPUImagePicture` with a nil image may assert; here it gives the mask "empty". The model
  item is nil in that case, so the process ends in the next frame anyway.
- `viewWillAppear` runs once: the controller is the root and nothing is presented over it.
- The check-then-create of the static `colorSpace` in `processImage`: in the application
  the second call comes from the completion block of the first, so the two are ordered.
- The unused list sort at the end of `FaceMorphFilter.m`.
- Word tearing of the nonatomic float properties: a float is written in one piece on the
  supported processors.
- Drawing of `DLibFaceFeatureItem` (`makeFaceShape`, `extractFaceArea`, Bezier paths).
- `FaceFeatures`: a face below ten pixels has no groups; when it is mine, applying the groups
  collapses them onto their means, which the model computes and no property is about.
- `points_thingrid` with several columns for points on one line (undefined, see findings).
- The pool without threads, which runs every task in the caller; futures.
- Errors: `thread_error` thrown in the clock thread, out of memory. A thread that cannot be
  created is modelled for `threaded_object` (`NoThread`), as the code takes the flags back.
- Destruction of the global clock at the end of the program.
- `triangle.c` (16 000 lines, third-party) and the rest of dlib (some 300 000 lines of
  numerical, image, network and graphical code). They are by far the largest part of the
  repository by lines. What the application runs of them is a function from an image to
  landmarks and from points to triangles, which the models take as a free choice and as an
  input with the properties it has; the rest is not reached by the application.

## 6. Plan

Done: all modules of section 2, their runs and proofs. What could follow:

1. An abstract `Screen` (what the user sees: the newest values, after a finite time) which
   `AverageFace` implements when no call is missed.
2. More of dlib's monitors: `rmutex`, `rsignaler`, the pool of reused threads
   (`threads_kernel_shared`), futures.
3. `delaunay_destroy` and the ownership of the blocks a triangulation consists of.
