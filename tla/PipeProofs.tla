----------------------------- MODULE PipeProofs -----------------------------
(***************************************************************************)
(* Counters, ring, wakeups and destructor of dlib's pipe, and that it      *)
(* implements the queue its interface promises, for any number of threads, *)
(* any maximum size, any methods called and any number of calls.           *)
(***************************************************************************)
EXTENDS Pipe, TLAPS, FiniteSetTheorems, SequenceTheorems

Dequeuing == {"dequeue"}
Enqueuing == {"enqueue", "offering", "until_empty"}
Watching == {"num_blocked", "destroy"}

SignalerOf(o) ==
  IF o \in Dequeuing THEN "dequeue_sig" ELSE IF o \in Enqueuing THEN "enqueue_sig" ELSE "unblock_sig"

(* A sleeper is inside a call, on the signaler of its call, and its wait    *)
(* has not timed out; the mutex is held by a thread inside a call that is   *)
(* awake.  Only enqueue() and dequeue() time out.                           *)
Calling ==
  \A t \in Threads :
    /\ asleep[t] # "awake" => op[t] # "none" /\ m # t /\ ~expired[t] /\ asleep[t] = SignalerOf(op[t])
    /\ m = t => op[t] # "none"
    /\ op[t] \in {"offering", "until_empty", "num_blocked", "destroy"} => ~expired[t]

(* first is an index as soon as there is an item: with max_size 1 it starts *)
(* outside.                                                                 *)
FirstInside == pipe_size > 0 => first \in Slots

(* An enqueuer still has its item; the one on offer is the offerer's.       *)
ItemsOwn ==
  \A t \in Threads :
    /\ op[t] = "enqueue" => item[t] = t
    /\ op[t] = "offering" /\ last = 0 => data[0] = t

(* Nobody sleeps who could go on, also while the mutex is held.             *)
EnqueuersWake ==
  /\ \A t \in Sleepers({"enqueue"}) : EnqueueBlocked(t)
  /\ \A t \in Sleepers({"offering"}) : last = 0 /\ enabled /\ enqueue_enabled

Way == OnTheirWay(Dequeuing)

ItemsWake ==
  Sleepers(Dequeuing) # {} =>
    enabled /\ dequeue_enabled /\ Len(Queue) <= Cardinality(Way)

PipeInv ==
  /\ PipeTypeOK /\ CountersExact /\ Calling
  /\ RingExact /\ FirstInside /\ ItemsOwn
  /\ EnqueuersWake /\ ItemsWake
  /\ DestroyedAlone

-----------------------------------------------------------------------------
(* Numbers of threads inside calls *)

Count(S) == Cardinality(Within(S))

LEMMA CountFinite ==
  ASSUME NEW S
  PROVE  /\ IsFiniteSet(Within(S)) /\ Count(S) \in Nat
         /\ Count(S) > 0 <=> \E t \in Threads : op[t] \in S
<1>1. IsFiniteSet(Within(S))
  BY ThreadsAssumption, FS_Subset DEF Within
<1>2. Count(S) \in Nat /\ (Count(S) = 0 <=> Within(S) = {})
  BY <1>1, FS_CardinalityType, FS_EmptySet DEF Count
<1> QED BY <1>1, <1>2 DEF Within

LEMMA TwoWithin ==
  ASSUME NEW S, NEW t \in Threads, NEW u \in Threads, t # u, op[t] \in S, op[u] \in S
  PROVE  Count(S) > 1
<1>1. IsFiniteSet(Within(S)) /\ Count(S) \in Nat /\ Count(S) > 0
  BY CountFinite
<1>2. \A x : Within(S) # {x}
  BY DEF Within
<1>3. Cardinality(Within(S)) # 1
  BY <1>1, <1>2, FS_Singleton, Zenon
<1> QED BY <1>1, <1>3 DEF Count

Num(o, S) == IF o \in S THEN 1 ELSE 0

LEMMA CountAfter ==
  ASSUME PipeTypeOK, NEW t \in Threads, NEW o, op' = [op EXCEPT ![t] = o], NEW S
  PROVE  Count(S)' = Count(S) + Num(o, S) - Num(op[t], S)
<1>1. \A u \in Threads : op'[u] = IF u = t THEN o ELSE op[u]
  BY DEF PipeTypeOK
<1>2. Within(S)' = IF o \in S THEN Within(S) \cup {t} ELSE Within(S) \ {t}
  BY <1>1 DEF Within
<1>3. t \in Within(S) <=> op[t] \in S
  BY DEF Within
<1>4. IsFiniteSet(Within(S)) /\ Count(S) \in Nat
  BY CountFinite
<1>5. /\ Cardinality(Within(S) \cup {t}) =
            IF t \in Within(S) THEN Cardinality(Within(S)) ELSE Cardinality(Within(S)) + 1
      /\ Cardinality(Within(S) \ {t}) =
            IF t \in Within(S) THEN Cardinality(Within(S)) - 1 ELSE Cardinality(Within(S))
  BY <1>4, FS_AddElement, FS_RemoveElement, Zenon
<1>6. Count(S)' = IF o \in S THEN IF op[t] \in S THEN Count(S) ELSE Count(S) + 1
                  ELSE IF op[t] \in S THEN Count(S) - 1 ELSE Count(S)
  BY <1>2, <1>3, <1>5 DEF Count
<1> QED BY <1>4, <1>6 DEF Num

(* A thread goes from one call to another, or in or out, and the counters  *)
(* with it.                                                                *)
CountersFollow(t, o) ==
  /\ op' = [op EXCEPT ![t] = o]
  /\ dequeue_waiters' = dequeue_waiters + Num(o, Dequeuing) - Num(op[t], Dequeuing)
  /\ enqueue_waiters' = enqueue_waiters + Num(o, Enqueuing) - Num(op[t], Enqueuing)
  /\ unblock_sig_waiters' = unblock_sig_waiters + Num(o, Watching) - Num(op[t], Watching)

LEMMA CountersAfter ==
  ASSUME PipeTypeOK, CountersExact, NEW t \in Threads, NEW o \in Methods \cup {"none"},
         CountersFollow(t, o)
  PROVE  /\ CountersExact'
         /\ op' \in [Threads -> Methods \cup {"none"}]
         /\ \A u \in Threads : op'[u] = IF u = t THEN o ELSE op[u]
         /\ dequeue_waiters' \in Nat /\ enqueue_waiters' \in Nat /\ unblock_sig_waiters' \in Nat
<1>1. /\ Count(Dequeuing)' = Count(Dequeuing) + Num(o, Dequeuing) - Num(op[t], Dequeuing)
      /\ Count(Enqueuing)' = Count(Enqueuing) + Num(o, Enqueuing) - Num(op[t], Enqueuing)
      /\ Count(Watching)' = Count(Watching) + Num(o, Watching) - Num(op[t], Watching)
  BY CountAfter DEF CountersFollow
<1>2. CountersExact'
  BY <1>1 DEF CountersExact, CountersFollow, Count, Dequeuing, Enqueuing, Watching
<1>3. /\ op' \in [Threads -> Methods \cup {"none"}]
      /\ \A u \in Threads : op'[u] = IF u = t THEN o ELSE op[u]
  BY DEF CountersFollow, PipeTypeOK
<1>4. (Count(Dequeuing) \in Nat /\ Count(Enqueuing) \in Nat /\ Count(Watching) \in Nat)'
  <2>1. IsFiniteSet(Within(Dequeuing)') /\ IsFiniteSet(Within(Enqueuing)') /\ IsFiniteSet(Within(Watching)')
    BY ThreadsAssumption, FS_Subset DEF Within
  <2> QED BY <2>1, FS_CardinalityType DEF Count
<1> QED BY <1>2, <1>3, <1>4 DEF CountersExact, Count, Dequeuing, Enqueuing, Watching

(* A counter is above 0 when a thread is inside one of its calls.          *)
LEMMA Counted ==
  ASSUME CountersExact, NEW t \in Threads
  PROVE  /\ op[t] \in Dequeuing => dequeue_waiters > 0
         /\ op[t] \in Enqueuing => enqueue_waiters > 0
         /\ op[t] \in Watching => unblock_sig_waiters > 0
BY CountFinite DEF CountersExact, Count, Dequeuing, Enqueuing, Watching

-----------------------------------------------------------------------------
(* Who sleeps *)

SleepTypes == [Threads -> Signalers \cup {"awake"}]

OnlyWakes ==
  /\ asleep' \in SleepTypes
  /\ \A u \in Threads : asleep'[u] \in {asleep[u], "awake"}

LEMMA Wakers ==
  ASSUME PipeTypeOK
  PROVE  /\ UNCHANGED asleep => OnlyWakes
         /\ \A S : Broadcast(S) => OnlyWakes /\ \A u \in Threads : asleep[u] \in S => asleep'[u] = "awake"
         /\ \A sig : Signal(sig) => OnlyWakes
BY DEF PipeTypeOK, OnlyWakes, SleepTypes, Broadcast, Woken, Signal

(* A step of t that does not put it to sleep.                              *)
Moves(t) ==
  /\ OnlyWakes /\ asleep'[t] = "awake"
  /\ \A u \in Threads : u # t => op'[u] = op[u] /\ expired'[u] = expired[u] /\ limit'[u] = limit[u]

(* Who sleeps after it slept before, in the same call.                     *)
LEMMA StillAsleep ==
  ASSUME NEW t \in Threads, Moves(t), NEW S, NEW u \in Sleepers(S)'
  PROVE  u \in Sleepers(S) /\ u \in Threads /\ u # t
BY DEF Moves, OnlyWakes, Sleepers, Within, SleepTypes

(* A broadcast of their signaler leaves none of them asleep.               *)
LEMMA AllWoken ==
  ASSUME PipeTypeOK, Calling, NEW t \in Threads, Moves(t), NEW S, Broadcast(S)
  PROVE  /\ "enqueue_sig" \in S => Sleepers({"enqueue"})' = {} /\ Sleepers({"offering"})' = {}
         /\ "dequeue_sig" \in S => Sleepers(Dequeuing)' = {}
<1>1. \A u \in Threads : asleep[u] \in S => asleep'[u] = "awake"
  BY Wakers
<1>2. ASSUME NEW o \in {"enqueue", "offering", "dequeue"}, SignalerOf(o) \in S
      PROVE  Sleepers({o})' = {}
  <2> SUFFICES ASSUME NEW u \in Sleepers({o})' PROVE FALSE
    OBVIOUS
  <2>1. u \in Sleepers({o}) /\ u \in Threads
    BY StillAsleep
  <2>2. asleep[u] = SignalerOf(o)
    BY <2>1 DEF Calling, Sleepers, Within
  <2> QED BY <1>1, <1>2, <2>1, <2>2 DEF Sleepers
<1> QED BY <1>2 DEF SignalerOf, Dequeuing, Enqueuing

-----------------------------------------------------------------------------
(* Types, counters and sleepers, by the kind of step *)

RingTypes ==
  /\ item \in [Threads -> Threads \cup {Junk}] /\ data \in [Slots -> Threads \cup {Junk}]
  /\ pipe_size \in 0..max_size /\ first \in Slots \cup {1} /\ last \in Slots \cup {1}

FlagTypes ==
  enabled \in BOOLEAN /\ enqueue_enabled \in BOOLEAN /\ dequeue_enabled \in BOOLEAN /\ destroyed \in BOOLEAN

CallTypes ==
  /\ m \in Threads \cup {"free"}
  /\ op \in [Threads -> Methods \cup {"none"}]
  /\ limit \in [Threads -> {"never", "now", "later"}]
  /\ expired \in [Threads -> BOOLEAN] /\ num \in [Threads -> Nums \cup {0}]
  /\ asleep \in SleepTypes
  /\ dequeue_waiters \in Nat /\ enqueue_waiters \in Nat /\ unblock_sig_waiters \in Nat
  /\ calls \in Nat

LEMMA TypeParts == PipeTypeOK <=> RingTypes /\ FlagTypes /\ CallTypes
BY Zenon DEF PipeTypeOK, RingTypes, FlagTypes, CallTypes, SleepTypes

Basics == CallTypes /\ CountersExact /\ Calling

LEMMA InitBasics == PipeInit => Basics /\ RingTypes /\ FlagTypes
<1> SUFFICES ASSUME PipeInit PROVE Basics /\ RingTypes /\ FlagTypes
  OBVIOUS
<1>1. \A S : "none" \notin S => Count(S) = 0
  <2> TAKE S
  <2> HAVE "none" \notin S
  <2>1. Within(S) = {}
    BY DEF PipeInit, Within
  <2> QED BY <2>1, FS_EmptySet DEF Count
<1>2. CountersExact
  BY <1>1, SMT DEF PipeInit, CountersExact, Count
<1>3. CallTypes
  <2>1. expired \in [Threads -> BOOLEAN]
    BY Zenon DEF PipeInit
  <2> QED BY <2>1 DEF PipeInit, CallTypes, SleepTypes, Methods
<1>4. Calling
  BY ThreadsAssumption DEF PipeInit, Calling
<1>5. RingTypes
  BY SizeAssumption DEF PipeInit, RingTypes, Slots
<1>6. FlagTypes
  BY Zenon DEF PipeInit, FlagTypes
<1> QED BY <1>2, <1>3, <1>4, <1>5, <1>6 DEF Basics

LEMMA EnterBasics ==
  ASSUME PipeTypeOK, CountersExact, Calling,
         NEW t \in Threads, NEW o \in Methods, NEW l \in {"never", "now", "later"},
         NEW k \in Nums \cup {0}, Enter(t, o, l, k), CountersFollow(t, o), OnlyWakes
  PROVE  Basics'
<1>1. /\ m = "free" /\ m' = t /\ calls' = calls + 1 /\ op[t] = "none"
      /\ limit' = [limit EXCEPT ![t] = l] /\ num' = [num EXCEPT ![t] = k]
      /\ expired' = [expired EXCEPT ![t] = FALSE]
  BY DEF Enter, Call
<1>2. /\ CountersExact'
      /\ op' \in [Threads -> Methods \cup {"none"}]
      /\ \A u \in Threads : op'[u] = IF u = t THEN o ELSE op[u]
      /\ dequeue_waiters' \in Nat /\ enqueue_waiters' \in Nat /\ unblock_sig_waiters' \in Nat
  BY CountersAfter
<1>3. expired' \in [Threads -> BOOLEAN] /\ ~expired'[t] /\ \A u \in Threads : u # t => expired'[u] = expired[u]
  BY <1>1, Zenon DEF PipeTypeOK
<1>4. CallTypes'
  BY <1>1, <1>2, <1>3 DEF CallTypes, PipeTypeOK, OnlyWakes
<1>5. asleep'[t] = "awake"
  BY <1>1 DEF Calling, OnlyWakes
<1>6. Calling'
  BY <1>1, <1>2, <1>3, <1>5, ThreadsAssumption DEF Calling, OnlyWakes, Methods, PipeTypeOK
<1> QED BY <1>2, <1>4, <1>6 DEF Basics

LEMMA SleepBasics ==
  ASSUME PipeTypeOK, CountersExact, Calling,
         NEW t \in Threads, m = t, ~expired[t], Sleep(t, SignalerOf(op[t]))
  PROVE  Basics'
<1>1. m' = "free" /\ asleep' = [asleep EXCEPT ![t] = SignalerOf(op[t])] /\ UNCHANGED <<thread, waiters, calls>>
  BY DEF Sleep
<1>2. CountersExact'
  BY <1>1 DEF CountersExact, Within, thread, waiters
<1>3. asleep' \in SleepTypes /\ \A u \in Threads : asleep'[u] = IF u = t THEN SignalerOf(op[t]) ELSE asleep[u]
  BY <1>1 DEF PipeTypeOK, SleepTypes, SignalerOf, Signalers
<1>4. CallTypes'
  BY <1>1, <1>3 DEF CallTypes, PipeTypeOK, thread, waiters
<1>5. Calling'
  BY <1>1, <1>3, ThreadsAssumption DEF Calling, thread
<1> QED BY <1>2, <1>4, <1>5 DEF Basics

LEMMA ReturnBasics ==
  ASSUME PipeTypeOK, CountersExact, Calling,
         NEW t \in Threads, m = t, m' = "free", UNCHANGED <<limit, expired, num, calls>>,
         CountersFollow(t, "none"), OnlyWakes
  PROVE  Basics'
<1>1. /\ CountersExact'
      /\ op' \in [Threads -> Methods \cup {"none"}]
      /\ \A u \in Threads : op'[u] = IF u = t THEN "none" ELSE op[u]
      /\ dequeue_waiters' \in Nat /\ enqueue_waiters' \in Nat /\ unblock_sig_waiters' \in Nat
  BY CountersAfter
<1>2. CallTypes'
  BY <1>1 DEF CallTypes, PipeTypeOK, OnlyWakes
<1>3. Calling'
  BY <1>1, ThreadsAssumption DEF Calling, OnlyWakes, PipeTypeOK
<1> QED BY <1>1, <1>2, <1>3 DEF Basics

LEMMA OfferBasics ==
  ASSUME PipeTypeOK, CountersExact, Calling,
         NEW t \in Threads, m = t, op[t] = "enqueue", ~expired[t],
         op' = [op EXCEPT ![t] = "offering"], OnlyWakes,
         UNCHANGED <<m, limit, expired, num, waiters, calls>>
  PROVE  Basics'
<1>1. CountersFollow(t, "offering")
  BY DEF CountersFollow, Num, Dequeuing, Enqueuing, Watching, waiters, PipeTypeOK
<1>2. /\ CountersExact'
      /\ op' \in [Threads -> Methods \cup {"none"}]
      /\ \A u \in Threads : op'[u] = IF u = t THEN "offering" ELSE op[u]
  BY <1>1, CountersAfter DEF Methods
<1>3. CallTypes'
  BY <1>2 DEF CallTypes, PipeTypeOK, OnlyWakes, waiters
<1>4. asleep'[t] = "awake"
  BY DEF Calling, OnlyWakes
<1>5. Calling'
  BY <1>2, <1>4, ThreadsAssumption DEF Calling, OnlyWakes
<1> QED BY <1>2, <1>3, <1>5 DEF Basics

LEMMA BriefBasics ==
  ASSUME PipeTypeOK, CountersExact, Calling,
         NEW t \in Threads, NEW o, Brief(t, o), OnlyWakes
  PROVE  Basics'
<1>1. m = "free" /\ calls' = calls + 1 /\ UNCHANGED <<m, thread, waiters>>
  BY DEF Brief, Call
<1>2. CountersExact'
  BY <1>1 DEF CountersExact, Within, thread, waiters
<1>3. CallTypes'
  BY <1>1 DEF CallTypes, PipeTypeOK, OnlyWakes, thread, waiters
<1>4. Calling'
  BY <1>1 DEF Calling, OnlyWakes, thread
<1> QED BY <1>2, <1>3, <1>4 DEF Basics

LEMMA ResumeBasics ==
  ASSUME PipeTypeOK, CountersExact, Calling, NEW t \in Threads, Resume(t)
  PROVE  Basics'
<1>1. m' = t /\ op[t] # "none" /\ asleep[t] = "awake" /\ UNCHANGED <<thread, asleep, waiters, calls>>
  BY DEF Resume
<1>2. CountersExact'
  BY <1>1 DEF CountersExact, Within, thread, waiters
<1>3. CallTypes'
  BY <1>1 DEF CallTypes, PipeTypeOK, SleepTypes, thread, waiters
<1>4. Calling'
  BY <1>1 DEF Calling, thread
<1> QED BY <1>2, <1>3, <1>4 DEF Basics

LEMMA TimeOutBasics ==
  ASSUME PipeTypeOK, CountersExact, Calling, NEW t \in Threads, TimeOut(t)
  PROVE  Basics'
<1>1. /\ op[t] \in {"enqueue", "dequeue"}
      /\ asleep' = [asleep EXCEPT ![t] = "awake"] /\ expired' = [expired EXCEPT ![t] = TRUE]
      /\ UNCHANGED <<m, op, limit, num, waiters, calls>>
  BY DEF TimeOut
<1>2. CountersExact'
  BY <1>1 DEF CountersExact, Within, waiters
<1>3. expired' \in [Threads -> BOOLEAN] /\ \A u \in Threads : u # t => expired'[u] = expired[u]
  BY <1>1, Zenon DEF PipeTypeOK
<1>4. asleep' \in SleepTypes /\ \A u \in Threads : asleep'[u] = IF u = t THEN "awake" ELSE asleep[u]
  BY <1>1 DEF PipeTypeOK, SleepTypes
<1>5. CallTypes'
  BY <1>1, <1>3, <1>4 DEF CallTypes, PipeTypeOK, waiters
<1>6. Calling'
  BY <1>1, <1>3, <1>4 DEF Calling
<1> QED BY <1>2, <1>5, <1>6 DEF Basics

-----------------------------------------------------------------------------
(* The ring *)

(* Indices of the pth item from f on, and of the slot after f.             *)
LEMMA ModSum ==
  ASSUME NEW n \in Nat \ {0}, NEW f \in 0..(n - 1), NEW p \in 1..n
  PROVE  /\ (f + p - 1) % n = IF f + p - 1 < n THEN f + p - 1 ELSE f + p - 1 - n
         /\ (f + 1) % n = IF f + 1 < n THEN f + 1 ELSE 0
BY SMT

RingOK == RingTypes /\ RingExact /\ FirstInside /\ ItemsOwn

LEMMA InitRing == PipeInit => RingOK
<1> SUFFICES ASSUME PipeInit PROVE RingOK
  OBVIOUS
<1>1. Within({"offering"}) = {}
  BY DEF PipeInit, Within
<1>2. RingExact /\ FirstInside /\ ItemsOwn
  BY <1>1, SizeAssumption DEF PipeInit, RingExact, FirstInside, ItemsOwn
<1> QED BY <1>2, InitBasics DEF RingOK

LEMMA RingStays ==
  ASSUME PipeTypeOK, RingExact, FirstInside, ItemsOwn, UNCHANGED ring,
         item' \in [Threads -> Threads \cup {Junk}],
         \A u \in Threads : op'[u] = "offering" <=> op[u] = "offering",
         \A u \in Threads : op'[u] = "enqueue" => item'[u] = u
  PROVE  RingOK'
<1>1. Within({"offering"})' = Within({"offering"})
  BY DEF Within
<1>2. RingTypes'
  BY DEF PipeTypeOK, RingTypes, ring
<1>3. RingExact' /\ FirstInside' /\ ItemsOwn'
  BY <1>1 DEF RingExact, FirstInside, ItemsOwn, ring
<1> QED BY <1>2, <1>3 DEF RingOK

(* Where enqueue() puts an item.                                           *)
LEMMA SlotFor ==
  ASSUME PipeTypeOK, RingExact, FirstInside, max_size > 0, pipe_size < max_size
  PROVE  /\ NextSlot \in Slots
         /\ pipe_size = 0 => NextSlot = 0
         /\ pipe_size > 0 =>
              NextSlot = IF first + pipe_size < max_size THEN first + pipe_size ELSE first + pipe_size - max_size
<1>1. max_size \in Nat \ {0} /\ pipe_size \in Nat /\ Slots = 0..(max_size - 1)
  BY SizeAssumption DEF PipeTypeOK, Slots
<1>2. CASE pipe_size = 0
  BY <1>1, <1>2 DEF NextSlot
<1>3. CASE pipe_size > 0
  <2>1. first \in 0..(max_size - 1)
    BY <1>1, <1>3 DEF FirstInside
  <2>2. last = IF first + pipe_size - 1 < max_size THEN first + pipe_size - 1 ELSE first + pipe_size - 1 - max_size
    <3>1. last = (first + pipe_size - 1) % max_size
      BY <1>3 DEF RingExact
    <3>2. pipe_size \in 1..max_size
      BY <1>1, <1>3
    <3> QED BY <1>1, <2>1, <3>1, <3>2, ModSum
  <2>3. NextSlot = (last + 1) % max_size /\ last \in 0..(max_size - 1)
    BY <1>1, <1>3, <2>1, <2>2 DEF NextSlot
  <2>4. NextSlot = IF last + 1 < max_size THEN last + 1 ELSE 0
    BY <1>1, <2>3, ModSum
  <2> QED BY <1>1, <1>3, <2>1, <2>2, <2>4
<1> QED BY <1>1, <1>2, <1>3

LEMMA ExchangeTypes ==
  ASSUME PipeTypeOK, NEW t \in Threads, NEW s \in Slots, Exchange(t, s)
  PROVE  /\ item' \in [Threads -> Threads \cup {Junk}] /\ data' \in [Slots -> Threads \cup {Junk}]
         /\ \A u \in Threads : item'[u] = IF u = t THEN data[s] ELSE item[u]
         /\ \A r \in Slots : data'[r] = IF r = s THEN item[t] ELSE data[r]
BY DEF Exchange, PipeTypeOK

(* With a maximum above 0 nobody offers.                                   *)
LEMMA EnqueueDoneRing ==
  ASSUME PipeTypeOK, RingExact, FirstInside, ItemsOwn, NEW t \in Threads, EnqueueDone(t)
  PROVE  RingOK' /\ pipe_size < max_size /\ pipe_size' = pipe_size + 1
<1>1. /\ max_size > 0 /\ pipe_size' = pipe_size + 1
      /\ enabled /\ enqueue_enabled /\ ~EnqueueBlocked(t)
      /\ last' = NextSlot /\ Exchange(t, NextSlot)
      /\ first' = IF pipe_size = 0 THEN 0 ELSE first
      /\ op' = [op EXCEPT ![t] = "none"]
  BY DEF EnqueueDone, PutIn, Return
<1>2. max_size \in Nat \ {0} /\ pipe_size \in Nat /\ pipe_size < max_size /\ Slots = 0..(max_size - 1)
  BY <1>1, SizeAssumption DEF PipeTypeOK, EnqueueBlocked, MayMeet, Slots
<1>3. /\ NextSlot \in Slots
      /\ pipe_size = 0 => NextSlot = 0
      /\ pipe_size > 0 =>
           NextSlot = IF first + pipe_size < max_size THEN first + pipe_size ELSE first + pipe_size - max_size
  BY <1>1, <1>2, SlotFor
<1>4. first' \in Slots
  <2>1. CASE pipe_size = 0
    BY <1>1, <1>2, <2>1
  <2>2. CASE pipe_size # 0
    BY <1>1, <1>2, <2>2 DEF FirstInside
  <2> QED BY <2>1, <2>2
<1>5. RingTypes'
  BY <1>1, <1>2, <1>3, <1>4, ExchangeTypes DEF RingTypes
<1>6. last' = (first' + pipe_size' - 1) % max_size
  <2>1. first' \in 0..(max_size - 1) /\ pipe_size' \in 1..max_size
    <3>1. pipe_size' = pipe_size + 1
      BY <1>1
    <3>2. pipe_size' \in 1..max_size
      BY <1>2, <3>1
    <3> QED BY <1>2, <1>4, <3>2
  <2>2. (first' + pipe_size' - 1) % max_size =
          IF first' + pipe_size' - 1 < max_size THEN first' + pipe_size' - 1 ELSE first' + pipe_size' - 1 - max_size
    BY <1>2, <2>1, ModSum
  <2> QED BY <1>1, <1>2, <1>3, <1>4, <2>2
<1>7. \A u \in Threads : op[u] # "offering" /\ op'[u] # "offering" /\ (op'[u] = "enqueue" => u # t /\ op[u] = "enqueue")
  BY <1>1 DEF RingExact, Within, PipeTypeOK
<1>8. Within({"offering"})' = {}
  BY <1>7 DEF Within
<1>9. RingExact'
  BY <1>1, <1>6, <1>8 DEF RingExact
<1>10. ItemsOwn'
  BY <1>1, <1>3, <1>7, ExchangeTypes DEF ItemsOwn
<1> QED BY <1>1, <1>2, <1>4, <1>5, <1>9, <1>10 DEF RingOK, FirstInside

LEMMA OfferRing ==
  ASSUME PipeTypeOK, RingExact, ItemsOwn, NEW t \in Threads, Offer(t)
  PROVE  RingOK' /\ first = 1 /\ first' = 0 /\ last' = 0 /\ Exchange(t, 0)
<1>1. /\ max_size = 0 /\ pipe_size' = pipe_size /\ pipe_size = 0
      /\ enabled /\ enqueue_enabled /\ ~EnqueueBlocked(t) /\ op[t] = "enqueue"
      /\ last' = 0 /\ Exchange(t, 0) /\ first' = 0
      /\ op' = [op EXCEPT ![t] = "offering"]
  BY SizeAssumption DEF Offer, PutIn, NextSlot, PipeTypeOK, Holds
<1>2. first = 1 /\ Slots = {0}
  BY <1>1 DEF EnqueueBlocked, MayMeet, Slots
<1>3. \A u \in Threads : op[u] # "offering" /\ (op'[u] = "offering" <=> u = t) /\ (op'[u] = "enqueue" => u # t /\ op[u] = "enqueue")
  BY <1>1, <1>2 DEF RingExact, Within, PipeTypeOK
<1>4. Within({"offering"})' = {t}
  BY <1>3 DEF Within
<1>5. RingTypes'
  BY <1>1, <1>2, ExchangeTypes DEF RingTypes
<1>6. RingExact' /\ FirstInside'
  BY <1>1, <1>4 DEF RingExact, FirstInside
<1>7. ItemsOwn'
  BY <1>1, <1>2, <1>3, ExchangeTypes DEF ItemsOwn
<1> QED BY <1>1, <1>2, <1>5, <1>6, <1>7 DEF RingOK

LEMMA EndOfferRing ==
  ASSUME PipeTypeOK, RingExact, ItemsOwn, NEW t \in Threads, m = t, op[t] = "offering", EndOffer(t),
         UNCHANGED <<item, data>> \/ Exchange(t, 0)
  PROVE  RingOK'
<1>1. first' = 1 /\ last' = 1 /\ op' = [op EXCEPT ![t] = "none"] /\ pipe_size' = pipe_size
  BY DEF EndOffer, Return
<1>2. t \in Within({"offering"})
  BY DEF Within
<1>3. max_size = 0 /\ pipe_size = 0 /\ Slots = {0} /\ \A u \in Threads : op[u] = "offering" => u = t
  BY <1>2, SizeAssumption DEF RingExact, Within, PipeTypeOK, Slots
<1>4. \A u \in Threads : op'[u] # "offering" /\ (op'[u] = "enqueue" => u # t /\ op[u] = "enqueue")
  BY <1>1, <1>3 DEF PipeTypeOK
<1>5. Within({"offering"})' = {}
  BY <1>4 DEF Within
<1>6. /\ item' \in [Threads -> Threads \cup {Junk}] /\ data' \in [Slots -> Threads \cup {Junk}]
      /\ \A u \in Threads : u # t => item'[u] = item[u]
  BY <1>3, ExchangeTypes DEF PipeTypeOK
<1>7. RingTypes'
  BY <1>1, <1>3, <1>6 DEF RingTypes
<1>8. RingExact' /\ FirstInside'
  BY <1>1, <1>3, <1>5 DEF RingExact, FirstInside
<1>9. ItemsOwn'
  BY <1>1, <1>4, <1>6 DEF ItemsOwn
<1> QED BY <1>7, <1>8, <1>9 DEF RingOK

LEMMA DequeueDoneRing ==
  ASSUME PipeTypeOK, RingExact, FirstInside, ItemsOwn, NEW t \in Threads, DequeueDone(t)
  PROVE  /\ RingOK'
         /\ max_size > 0 => /\ pipe_size > 0 /\ pipe_size' = pipe_size - 1
                            /\ first' = IF first + 1 < max_size THEN first + 1 ELSE 0
         /\ max_size = 0 => first = 0 /\ last = 0 /\ last' = 1
<1>1. /\ enabled /\ dequeue_enabled /\ ~DequeueBlocked /\ op[t] = "dequeue"
      /\ Exchange(t, first) /\ op' = [op EXCEPT ![t] = "none"]
  BY DEF DequeueDone, Return, Holds
<1>2. max_size \in Nat /\ pipe_size \in 0..max_size
  BY SizeAssumption DEF PipeTypeOK
<1>3. \A u \in Threads : (op'[u] = "offering" <=> op[u] = "offering") /\ (op'[u] = "enqueue" => u # t /\ op[u] = "enqueue")
  BY <1>1 DEF PipeTypeOK
<1>4. Within({"offering"})' = Within({"offering"})
  BY <1>3 DEF Within
<1>5. CASE max_size > 0
  <2>1. pipe_size > 0 /\ pipe_size' = pipe_size - 1 /\ first' = (first + 1) % max_size /\ last' = last
    BY <1>1, <1>2, <1>5 DEF DequeueDone, DequeueBlocked
  <2>2. Slots = 0..(max_size - 1) /\ first \in 0..(max_size - 1) /\ max_size \in Nat \ {0}
    BY <1>2, <1>5, <2>1 DEF Slots, FirstInside
  <2>3. first' = IF first + 1 < max_size THEN first + 1 ELSE 0
    <3>1. 1 \in 1..max_size
      BY <2>2
    <3>2. (first + 1) % max_size = IF first + 1 < max_size THEN first + 1 ELSE 0
      BY <2>2, <3>1, ModSum
    <3> QED BY <2>1, <3>2
  <2>4. pipe_size' > 0 => last' = (first' + pipe_size' - 1) % max_size
    <3> SUFFICES ASSUME pipe_size' > 0 PROVE last' = (first' + pipe_size' - 1) % max_size
      OBVIOUS
    <3>1. pipe_size \in 1..max_size /\ first' \in 0..(max_size - 1) /\ pipe_size' \in 1..max_size
      BY <1>2, <2>1, <2>2, <2>3
    <3>2. last = (first + pipe_size - 1) % max_size
      BY <2>1 DEF RingExact
    <3>3. last = IF first + pipe_size - 1 < max_size THEN first + pipe_size - 1 ELSE first + pipe_size - 1 - max_size
      BY <2>2, <3>1, <3>2, ModSum
    <3>4. (first' + pipe_size' - 1) % max_size =
            IF first' + pipe_size' - 1 < max_size THEN first' + pipe_size' - 1 ELSE first' + pipe_size' - 1 - max_size
      BY <2>2, <3>1, ModSum
    <3> QED BY <1>2, <2>1, <2>2, <2>3, <3>3, <3>4
  <2>5. first' \in Slots
    BY <2>2, <2>3
  <2>6. \A u \in Threads : op[u] # "offering"
    BY <1>5 DEF RingExact, Within
  <2>7. RingTypes'
    BY <1>1, <1>2, <2>1, <2>2, <2>5, ExchangeTypes DEF RingTypes, PipeTypeOK
  <2>8. RingExact' /\ FirstInside'
    BY <1>4, <1>5, <2>4, <2>5 DEF RingExact, FirstInside
  <2>9. ItemsOwn'
    BY <1>1, <1>3, <2>2, <2>6, ExchangeTypes DEF ItemsOwn
  <2> QED BY <1>5, <2>1, <2>3, <2>7, <2>8, <2>9 DEF RingOK
<1>6. CASE max_size = 0
  <2>1. pipe_size = 0 /\ first = 0 /\ last = 0 /\ last' = 1 /\ first' = first /\ pipe_size' = pipe_size
    BY <1>1, <1>2, <1>6 DEF DequeueDone, DequeueBlocked
  <2>2. Slots = {0}
    BY <1>6 DEF Slots
  <2>3. RingTypes'
    BY <1>1, <1>2, <2>1, <2>2, ExchangeTypes DEF RingTypes
  <2>4. RingExact' /\ FirstInside'
    BY <1>4, <1>6, <2>1 DEF RingExact, FirstInside
  <2>5. ItemsOwn'
    BY <1>1, <1>3, <2>1, <2>2, ExchangeTypes DEF ItemsOwn
  <2> QED BY <1>6, <2>1, <2>3, <2>4, <2>5 DEF RingOK
<1> QED BY <1>2, <1>5, <1>6

LEMMA EmptyRing ==
  ASSUME PipeTypeOK, RingExact, ItemsOwn, NEW t \in Threads, Empty(t)
  PROVE  RingOK'
<1>1. pipe_size' = 0 /\ UNCHANGED <<data, first, last, op, item>>
  BY DEF Empty, Brief, thread
<1>2. Within({"offering"})' = Within({"offering"})
  BY <1>1 DEF Within
<1>3. RingTypes'
  BY <1>1, SizeAssumption DEF RingTypes, PipeTypeOK
<1>4. RingExact' /\ FirstInside' /\ ItemsOwn'
  BY <1>1, <1>2 DEF RingExact, FirstInside, ItemsOwn
<1> QED BY <1>3, <1>4 DEF RingOK

-----------------------------------------------------------------------------
(* The steps that do not put the thread to sleep *)

LEMMA BeginMoves ==
  ASSUME PipeTypeOK, Calling, NEW t \in Threads, Begin(t)
  PROVE  Moves(t) /\ op[t] = "none"
<1>1. op[t] = "none" /\ asleep[t] = "awake"
  BY DEF Begin, Enqueue, Dequeue, UntilEmpty, NumBlocked, Destroy, Empty, Enable, Disable, EnableEnqueue,
         DisableEnqueue, EnableDequeue, DisableDequeue, Brief, Enter, Call, Calling
<1>2. \A S : Broadcast(S) => OnlyWakes
  BY Wakers
<1>3. UNCHANGED asleep => OnlyWakes
  BY Wakers
<1>4. OnlyWakes
  BY <1>2, <1>3, Zenon
     DEF Begin, Enqueue, Dequeue, UntilEmpty, NumBlocked, Destroy, Empty, Enable, Disable, EnableEnqueue,
         DisableEnqueue, EnableDequeue, DisableDequeue
<1>5. \A u \in Threads : u # t => op'[u] = op[u] /\ expired'[u] = expired[u] /\ limit'[u] = limit[u]
  <2>1. CASE \E o, l, k : Enter(t, o, l, k)
    BY <2>1 DEF Enter, PipeTypeOK
  <2>2. CASE \E o : Brief(t, o)
    BY <2>2 DEF Brief, thread
  <2> QED BY <2>1, <2>2
          DEF Begin, Enqueue, Dequeue, UntilEmpty, NumBlocked, Destroy, Empty, Enable, Disable, EnableEnqueue,
              DisableEnqueue, EnableDequeue, DisableDequeue
<1> QED BY <1>1, <1>4, <1>5 DEF Moves, OnlyWakes

(* The steps with which a call returns, and the one that offers an item.   *)
Ends(t) ==
  \/ EnqueueRefused(t) \/ EnqueueDone(t) \/ OfferWithdrawn(t) \/ OfferTaken(t)
  \/ DequeueRefused(t) \/ DequeueDone(t) \/ UntilEmptyDone(t) \/ NumBlockedDone(t) \/ Destroyed(t)

LEMMA EndsMoves ==
  ASSUME PipeTypeOK, Calling, NEW t \in Threads, Ends(t) \/ Offer(t)
  PROVE  /\ Moves(t) /\ m = t /\ op[t] # "none" /\ calls' = calls
         /\ Ends(t) => m' = "free" /\ op' = [op EXCEPT ![t] = "none"] /\ UNCHANGED <<limit, expired, num>>
<1>1. m = t /\ op[t] # "none" /\ asleep[t] = "awake"
  BY DEF Ends, EnqueueRefused, EnqueueDone, Offer, PutIn, OfferWithdrawn, OfferTaken, DequeueRefused,
         DequeueDone, UntilEmptyDone, NumBlockedDone, Destroyed, Holds, Calling
<1>2. \A S : Broadcast(S) => OnlyWakes
  BY Wakers
<1>3. UNCHANGED asleep => OnlyWakes
  BY Wakers
<1>4. Announce => OnlyWakes
  BY <1>3, Wakers, Zenon DEF Announce
<1>5. OnlyWakes
  BY <1>2, <1>3, <1>4, Zenon
     DEF Ends, EnqueueRefused, EnqueueDone, Offer, PutIn, OfferWithdrawn, OfferTaken, DequeueRefused,
         DequeueDone, UntilEmptyDone, NumBlockedDone, Destroyed
<1>6. /\ Ends(t) => m' = "free" /\ op' = [op EXCEPT ![t] = "none"]
      /\ Offer(t) => op' = [op EXCEPT ![t] = "offering"]
      /\ UNCHANGED <<limit, expired, num, calls>>
  BY DEF Ends, EnqueueRefused, EnqueueDone, Offer, OfferWithdrawn, OfferTaken, EndOffer, DequeueRefused,
         DequeueDone, UntilEmptyDone, NumBlockedDone, Destroyed, Return
<1> QED BY <1>1, <1>5, <1>6 DEF Moves, OnlyWakes, PipeTypeOK

LEMMA ResumeMoves ==
  ASSUME PipeTypeOK, Calling, NEW t \in Threads, Resume(t) \/ TimeOut(t)
  PROVE  Moves(t) /\ op[t] # "none" /\ op' = op
BY DEF Resume, TimeOut, Moves, OnlyWakes, SleepTypes, PipeTypeOK, thread, Calling

-----------------------------------------------------------------------------
(* Enqueuers that could go on are woken *)

(* Who sleeps in enqueue() or waits for its item to be taken.              *)
LEMMA EnqueuersStay ==
  ASSUME EnqueuersWake, NEW t \in Threads, Moves(t),
         \A u \in Sleepers({"enqueue"}) : u # t => EnqueueBlocked(u)',
         Sleepers({"offering"}) # {} => last' = last /\ enabled' = enabled /\ enqueue_enabled' = enqueue_enabled
  PROVE  EnqueuersWake'
<1>1. ASSUME NEW u \in Sleepers({"enqueue"})'
      PROVE  EnqueueBlocked(u)'
  BY StillAsleep
<1>2. ASSUME NEW u \in Sleepers({"offering"})'
      PROVE  (last = 0 /\ enabled /\ enqueue_enabled)'
  <2>1. u \in Sleepers({"offering"})
    BY <1>2, StillAsleep
  <2> QED BY <2>1 DEF EnqueuersWake
<1> QED BY <1>1, <1>2 DEF EnqueuersWake

(* Nothing they wait for changes.                                          *)
LEMMA EnqueuersUnmoved ==
  ASSUME PipeTypeOK, EnqueuersWake, NEW t \in Threads, Moves(t),
         UNCHANGED <<pipe_size, first, last>>,
         enabled' = enabled \/ enabled' = TRUE, enqueue_enabled' = enqueue_enabled \/ enqueue_enabled' = TRUE,
         max_size > 0 \/ dequeue_waiters' = dequeue_waiters \/ dequeue_waiters' = dequeue_waiters - 1
  PROVE  EnqueuersWake'
<1>1. ASSUME NEW u \in Sleepers({"enqueue"}), u # t
      PROVE  EnqueueBlocked(u)'
  <2>1. EnqueueBlocked(u) /\ u \in Threads /\ limit'[u] = limit[u]
    BY <1>1 DEF EnqueuersWake, Sleepers, Within, Moves
  <2>2. ~MayMeet(u)
    BY <2>1 DEF EnqueueBlocked
  <2>3. ~MayMeet(u)'
    BY <2>1, <2>2 DEF MayMeet, PipeTypeOK
  <2>4. pipe_size' = max_size /\ enabled' /\ enqueue_enabled'
    BY <2>1 DEF EnqueueBlocked
  <2> QED BY <2>3, <2>4 DEF EnqueueBlocked
<1>2. Sleepers({"offering"}) # {} => last' = last /\ enabled' = enabled /\ enqueue_enabled' = enqueue_enabled
  BY DEF EnqueuersWake, PipeTypeOK
<1> QED BY <1>1, <1>2, EnqueuersStay

LEMMA EnqueuersAllWoken ==
  ASSUME PipeTypeOK, CountersExact, Calling, NEW t \in Threads, Moves(t),
         NEW S, Broadcast(S), WakeEnqueuers \subseteq S
  PROVE  EnqueuersWake'
<1>1. CASE enqueue_waiters > 0
  <2>1. Sleepers({"enqueue"})' = {} /\ Sleepers({"offering"})' = {}
    BY <1>1, AllWoken DEF WakeEnqueuers, When
  <2> QED BY <2>1 DEF EnqueuersWake
<1>2. CASE ~(enqueue_waiters > 0)
  <2>1. Sleepers({"enqueue"}) = {} /\ Sleepers({"offering"}) = {}
    BY <1>2, Counted DEF Sleepers, Within, Enqueuing
  <2>2. Sleepers({"enqueue"})' = {} /\ Sleepers({"offering"})' = {}
    BY <2>1, StillAsleep
  <2> QED BY <2>2 DEF EnqueuersWake
<1> QED BY <1>1, <1>2

LEMMA BeginEnqueuers ==
  ASSUME PipeTypeOK, CountersExact, Calling, EnqueuersWake, NEW t \in Threads, Begin(t)
  PROVE  EnqueuersWake'
<1>1. Moves(t)
  BY BeginMoves
<1>2. CASE Destroy(t) \/ Disable(t) \/ DisableEnqueue(t)
  <2>1. Broadcast(Signalers) \/ Broadcast({"enqueue_sig"})
    BY <1>2 DEF Destroy, Disable, DisableEnqueue
  <2>2. Sleepers({"enqueue"})' = {} /\ Sleepers({"offering"})' = {}
    BY <1>1, <2>1, AllWoken DEF Signalers
  <2> QED BY <2>2 DEF EnqueuersWake
<1>3. CASE Empty(t)
  BY <1>1, <1>3, EnqueuersAllWoken DEF Empty
<1>4. ASSUME NEW l, Dequeue(t, l)
      PROVE  EnqueuersWake'
  <2>1. UNCHANGED <<pipe_size, first, last, enabled, enqueue_enabled>>
    BY <1>4 DEF Dequeue, Enter, ring, flags
  <2>2. CASE max_size > 0
    BY <1>1, <2>1, <2>2, EnqueuersUnmoved
  <2>3. CASE max_size = 0
    <3>1. pipe_size = 0
      BY <2>3 DEF PipeTypeOK
    <3>2. \E S : Broadcast(S) /\ WakeEnqueuers \subseteq S
      BY <1>4, <3>1 DEF Dequeue, When
    <3> QED BY <1>1, <3>2, EnqueuersAllWoken
  <2> QED BY <2>2, <2>3, SizeAssumption
<1>5. CASE \/ \E l : Enqueue(t, l) \/ \E k : NumBlocked(t, k)
           \/ UntilEmpty(t) \/ Enable(t) \/ EnableEnqueue(t) \/ EnableDequeue(t) \/ DisableDequeue(t)
  <2>1. /\ UNCHANGED <<pipe_size, first, last, dequeue_waiters>>
        /\ enabled' = enabled \/ enabled' = TRUE
        /\ enqueue_enabled' = enqueue_enabled \/ enqueue_enabled' = TRUE
    BY <1>5 DEF Enqueue, NumBlocked, UntilEmpty, Enable, EnableEnqueue, EnableDequeue, DisableDequeue, Enter, Brief,
                ring, flags, waiters
  <2> QED BY <1>1, <2>1, EnqueuersUnmoved
<1> QED BY <1>2, <1>3, <1>4, <1>5 DEF Begin

LEMMA EndsEnqueuers ==
  ASSUME PipeTypeOK, CountersExact, Calling, RingExact, EnqueuersWake, NEW t \in Threads, Ends(t)
  PROVE  EnqueuersWake'
<1>1. Moves(t)
  BY EndsMoves
<1>2. CASE EnqueueRefused(t) \/ DequeueRefused(t) \/ UntilEmptyDone(t) \/ NumBlockedDone(t) \/ Destroyed(t)
  <2>1. /\ UNCHANGED <<pipe_size, first, last, enabled, enqueue_enabled>>
        /\ dequeue_waiters' = dequeue_waiters \/ dequeue_waiters' = dequeue_waiters - 1
    BY <1>2 DEF EnqueueRefused, DequeueRefused, UntilEmptyDone, NumBlockedDone, Destroyed, Return, ring, flags
  <2> QED BY <1>1, <2>1, EnqueuersUnmoved
<1>3. CASE EnqueueDone(t)
  <2>1. max_size > 0 /\ pipe_size # max_size
    BY <1>3 DEF EnqueueDone, PutIn, EnqueueBlocked, MayMeet
  <2>2. Sleepers({"enqueue"}) = {}
    BY <2>1 DEF EnqueuersWake, EnqueueBlocked
  <2>3. Sleepers({"offering"}) = {}
    BY <2>1 DEF RingExact, Sleepers
  <2> QED BY <1>1, <2>2, <2>3, EnqueuersStay
<1>4. CASE OfferWithdrawn(t) \/ OfferTaken(t)
  <2>1. op[t] = "offering"
    BY <1>4 DEF OfferWithdrawn, OfferTaken, Holds
  <2>2. \A u \in Sleepers({"offering"}) : u = t
    BY <2>1 DEF RingExact, Sleepers, Within
  <2>3. Sleepers({"offering"})' = {}
    BY <1>1, <2>2, StillAsleep
  <2>4. CASE OfferWithdrawn(t)
    <3>1. Sleepers({"enqueue"}) = {}
      BY <2>4 DEF OfferWithdrawn, EnqueuersWake, EnqueueBlocked
    <3>2. Sleepers({"enqueue"})' = {}
      BY <1>1, <3>1, StillAsleep
    <3> QED BY <2>3, <3>2 DEF EnqueuersWake
  <2>5. CASE OfferTaken(t)
    <3>1. CASE enqueue_waiters > 1
      <4>1. \E S : Broadcast(S) /\ "enqueue_sig" \in S
        BY <2>5, <3>1 DEF OfferTaken, When
      <4>2. Sleepers({"enqueue"})' = {}
        BY <1>1, <4>1, AllWoken
      <4> QED BY <2>3, <4>2 DEF EnqueuersWake
    <3>2. CASE ~(enqueue_waiters > 1)
      <4>1. Sleepers({"enqueue"}) = {}
        BY <2>1, <3>2, TwoWithin DEF Sleepers, Within, CountersExact, Count, Enqueuing
      <4>2. Sleepers({"enqueue"})' = {}
        BY <1>1, <4>1, StillAsleep
      <4> QED BY <2>3, <4>2 DEF EnqueuersWake
    <3> QED BY <3>1, <3>2
  <2> QED BY <1>4, <2>4, <2>5
<1>5. CASE DequeueDone(t)
  BY <1>1, <1>5, EnqueuersAllWoken DEF DequeueDone
<1> QED BY <1>2, <1>3, <1>4, <1>5 DEF Ends

LEMMA OfferEnqueuers ==
  ASSUME PipeTypeOK, CountersExact, Calling, RingExact, ItemsOwn, EnqueuersWake, NEW t \in Threads, Offer(t)
  PROVE  EnqueuersWake'
<1>1. Moves(t)
  BY EndsMoves
<1>2. first = 1 /\ first' = 0 /\ pipe_size' = pipe_size /\ UNCHANGED <<enabled, enqueue_enabled>>
  BY OfferRing DEF Offer, flags
<1>3. Sleepers({"offering"}) = {}
  BY <1>2 DEF RingExact, Sleepers
<1>4. ASSUME NEW u \in Sleepers({"enqueue"})
      PROVE  EnqueueBlocked(u)'
  BY <1>2, <1>4 DEF EnqueuersWake, EnqueueBlocked, MayMeet
<1> QED BY <1>1, <1>3, <1>4, EnqueuersStay

LEMMA ResumeEnqueuers ==
  ASSUME PipeTypeOK, CountersExact, Calling, EnqueuersWake, NEW t \in Threads, Resume(t) \/ TimeOut(t)
  PROVE  EnqueuersWake'
<1>1. Moves(t)
  BY ResumeMoves
<1>2. UNCHANGED <<pipe_size, first, last, enabled, enqueue_enabled, dequeue_waiters>>
  BY DEF Resume, TimeOut, ring, flags, waiters
<1> QED BY <1>1, <1>2, EnqueuersUnmoved

(* A thread goes to sleep because it has to wait.                          *)
Waits(t) ==
  \/ EnqueueWait(t) \/ OfferWait(t) \/ DequeueWait(t) \/ UntilEmptyWait(t) \/ NumBlockedWait(t) \/ DestroyWait(t)

LEMMA WaitsSleep ==
  ASSUME Calling, NEW t \in Threads, Waits(t)
  PROVE  m = t /\ op[t] # "none" /\ ~expired[t] /\ Sleep(t, SignalerOf(op[t]))
BY DEF Waits, EnqueueWait, OfferWait, DequeueWait, UntilEmptyWait, NumBlockedWait, DestroyWait, Holds, GivenUp,
       SignalerOf, Dequeuing, Enqueuing, Calling

LEMMA WaitsEnqueuers ==
  ASSUME PipeTypeOK, Calling, EnqueuersWake, NEW t \in Threads, Waits(t)
  PROVE  EnqueuersWake'
<1>1. Sleep(t, SignalerOf(op[t]))
  BY WaitsSleep
<1>2. /\ \A u \in Threads : u # t => asleep'[u] = asleep[u]
      /\ UNCHANGED <<op, limit, ring, enabled, enqueue_enabled, dequeue_waiters>>
  BY <1>1 DEF Sleep, PipeTypeOK, thread, flags, waiters
<1>3. \A u \in Threads : EnqueueBlocked(u)' <=> EnqueueBlocked(u)
  BY <1>2 DEF EnqueueBlocked, MayMeet, ring
<1>4. op[t] = "enqueue" => EnqueueBlocked(t)
  BY DEF Waits, EnqueueWait, OfferWait, DequeueWait, UntilEmptyWait, NumBlockedWait, DestroyWait, Holds
<1>5. op[t] = "offering" => last = 0 /\ enabled /\ enqueue_enabled
  BY DEF Waits, EnqueueWait, OfferWait, DequeueWait, UntilEmptyWait, NumBlockedWait, DestroyWait, Holds
<1>6. ASSUME NEW u \in Sleepers({"enqueue"})'
      PROVE  EnqueueBlocked(u)'
  BY <1>2, <1>3, <1>4 DEF EnqueuersWake, Sleepers, Within
<1>7. ASSUME NEW u \in Sleepers({"offering"})'
      PROVE  (last = 0 /\ enabled /\ enqueue_enabled)'
  <2>1. u \in Threads /\ op[u] = "offering" /\ (u # t => u \in Sleepers({"offering"}))
    BY <1>2 DEF Sleepers, Within
  <2>2. last = 0 /\ enabled /\ enqueue_enabled
    BY <1>5, <2>1 DEF EnqueuersWake
  <2> QED BY <1>2, <2>2 DEF ring
<1> QED BY <1>6, <1>7 DEF EnqueuersWake

-----------------------------------------------------------------------------
(* An item for every dequeuer that sleeps is on its way to another *)

LEMMA QueueLength ==
  ASSUME PipeTypeOK
  PROVE  /\ Len(Queue) \in Nat
         /\ max_size > 0 => Len(Queue) = pipe_size
         /\ max_size = 0 => Len(Queue) = IF first = 0 /\ last = 0 THEN 1 ELSE 0
<1>1. pipe_size \in Nat /\ max_size \in Nat
  BY SizeAssumption DEF PipeTypeOK
<1>2. CASE max_size > 0
  BY <1>1, <1>2 DEF Queue
<1>3. CASE max_size = 0
  BY <1>3 DEF Queue
<1> QED BY <1>1, <1>2, <1>3

LEMMA WayFinite == IsFiniteSet(Way) /\ Cardinality(Way) \in Nat
<1>1. IsFiniteSet(Way)
  BY ThreadsAssumption, FS_Subset DEF Way, OnTheirWay, Within
<1> QED BY <1>1, FS_CardinalityType

(* Other threads that are on their way stay so.                            *)
LEMMA WayStays ==
  ASSUME NEW t \in Threads, Moves(t)
  PROVE  Way \ {t} \subseteq Way'
BY DEF Moves, OnlyWakes, Way, OnTheirWay, Within, SleepTypes

LEMMA ItemsStay ==
  ASSUME PipeTypeOK, PipeTypeOK', ItemsWake, NEW t \in Threads, Moves(t),
         Sleepers(Dequeuing) # {} /\ enabled /\ dequeue_enabled =>
           /\ enabled' /\ dequeue_enabled'
           /\ (Len(Queue)' <= Len(Queue) /\ t \notin Way) \/ Len(Queue)' = 0
  PROVE  ItemsWake'
<1> SUFFICES ASSUME Sleepers(Dequeuing)' # {}
             PROVE  enabled' /\ dequeue_enabled' /\ Len(Queue)' <= Cardinality(Way')
  BY DEF ItemsWake
<1>1. Sleepers(Dequeuing) # {}
  BY StillAsleep
<1>2. enabled /\ dequeue_enabled /\ Len(Queue) <= Cardinality(Way)
  BY <1>1 DEF ItemsWake
<1>3. IsFiniteSet(Way') /\ Cardinality(Way') \in Nat
  <2>1. IsFiniteSet(Way')
    BY ThreadsAssumption, FS_Subset DEF Way, OnTheirWay, Within
  <2> QED BY <2>1, FS_CardinalityType
<1>4. CASE Len(Queue)' = 0
  BY <1>1, <1>2, <1>3, <1>4
<1>5. CASE Len(Queue)' # 0
  <2>1. t \notin Way /\ Len(Queue)' <= Len(Queue)
    BY <1>1, <1>2, <1>5
  <2>2. Way \subseteq Way'
    BY <2>1, WayStays
  <2>3. Cardinality(Way) <= Cardinality(Way') /\ Cardinality(Way) \in Nat
    BY <1>3, <2>2, FS_Subset, WayFinite
  <2>4. Len(Queue) \in Nat /\ Len(Queue)' \in Nat
    <3>1. Len(Queue)' \in Nat
      <4>1. (pipe_size \in Nat /\ max_size \in Nat)'
        BY SizeAssumption DEF PipeTypeOK
      <4>2. CASE max_size > 0
        BY <4>1, <4>2 DEF Queue
      <4>3. CASE max_size = 0
        BY <4>3 DEF Queue
      <4> QED BY <4>1, <4>2, <4>3
    <3> QED BY <3>1, QueueLength
  <2>5. Len(Queue)' <= Cardinality(Way')
    BY <1>2, <1>3, <2>1, <2>3, <2>4
  <2> QED BY <1>1, <1>2, <2>5
<1> QED BY <1>4, <1>5

LEMMA SameQueue ==
  ASSUME UNCHANGED ring
  PROVE  Queue' = Queue
BY DEF ring, Queue

LEMMA BeginItems ==
  ASSUME PipeTypeOK, PipeTypeOK', Calling, ItemsWake, NEW t \in Threads, Begin(t)
  PROVE  ItemsWake'
<1>1. Moves(t) /\ t \notin Way
  BY BeginMoves DEF Way, OnTheirWay, Within, Dequeuing
<1>2. CASE Destroy(t) \/ Disable(t) \/ DisableDequeue(t)
  <2>1. Broadcast(Signalers) \/ Broadcast({"dequeue_sig"})
    BY <1>2 DEF Destroy, Disable, DisableDequeue
  <2>2. Sleepers(Dequeuing)' = {}
    BY <1>1, <2>1, AllWoken DEF Signalers
  <2> QED BY <2>2 DEF ItemsWake
<1>3. CASE Empty(t)
  <2>1. pipe_size' = 0 /\ UNCHANGED <<first, last, data, enabled, dequeue_enabled>>
    BY <1>3 DEF Empty, flags
  <2>2. Len(Queue)' <= Len(Queue)
    <3>1. CASE max_size > 0
      <4>1. Len(Queue)' = 0
        BY <2>1, <3>1 DEF Queue
      <4> QED BY <4>1, QueueLength
    <3>2. CASE max_size = 0
      <4>1. Queue' = Queue
        BY <2>1, <3>2 DEF Queue
      <4> QED BY <4>1, QueueLength
    <3> QED BY <3>1, <3>2, SizeAssumption
  <2> QED BY <1>1, <2>1, <2>2, ItemsStay
<1>4. CASE \/ \E l : Enqueue(t, l) \/ Dequeue(t, l)
           \/ \E k : NumBlocked(t, k)
           \/ UntilEmpty(t) \/ Enable(t) \/ EnableEnqueue(t) \/ DisableEnqueue(t) \/ EnableDequeue(t)
  <2>1. /\ UNCHANGED ring
        /\ enabled' = enabled \/ enabled' = TRUE
        /\ dequeue_enabled' = dequeue_enabled \/ dequeue_enabled' = TRUE
    BY <1>4 DEF Enqueue, Dequeue, NumBlocked, UntilEmpty, Enable, EnableEnqueue, DisableEnqueue, EnableDequeue,
                Enter, Brief, flags
  <2>2. Len(Queue)' <= Len(Queue)
    BY <2>1, SameQueue, QueueLength
  <2> QED BY <1>1, <2>1, <2>2, ItemsStay
<1> QED BY <1>2, <1>3, <1>4 DEF Begin

(* A dequeuer that goes without an item has timed out, was told to go, or  *)
(* found the pipe empty.                                                   *)
LEMMA DequeueRefusedItems ==
  ASSUME PipeTypeOK, PipeTypeOK', Calling, ItemsWake, NEW t \in Threads, DequeueRefused(t)
  PROVE  ItemsWake'
<1>1. Moves(t) /\ UNCHANGED <<ring, enabled, dequeue_enabled>>
  BY EndsMoves DEF Ends, DequeueRefused, Return, flags
<1>2. Len(Queue)' = Len(Queue) /\ Len(Queue) \in Nat
  BY <1>1, SameQueue, QueueLength
<1>3. ASSUME enabled, dequeue_enabled
      PROVE  t \notin Way \/ Len(Queue) = 0
  <2>1. expired[t] \/ DequeueBlocked
    BY <1>3 DEF DequeueRefused
  <2>2. CASE expired[t]
    BY <2>2 DEF Way, OnTheirWay
  <2>3. CASE DequeueBlocked
    BY <2>3, QueueLength, SizeAssumption DEF DequeueBlocked, PipeTypeOK
  <2> QED BY <2>1, <2>2, <2>3
<1> QED BY <1>1, <1>2, <1>3, ItemsStay

(* One item and one dequeuer fewer.                                        *)
LEMMA DequeueDoneItems ==
  ASSUME PipeTypeOK, PipeTypeOK', Calling, RingExact, FirstInside, ItemsOwn, ItemsWake,
         NEW t \in Threads, DequeueDone(t)
  PROVE  ItemsWake'
<1>1. Moves(t) /\ UNCHANGED <<enabled, dequeue_enabled>>
  BY EndsMoves DEF Ends, DequeueDone, Return, flags
<1> SUFFICES ASSUME Sleepers(Dequeuing)' # {}
             PROVE  enabled' /\ dequeue_enabled' /\ Len(Queue)' <= Cardinality(Way')
  BY DEF ItemsWake
<1>2. Sleepers(Dequeuing) # {}
  BY <1>1, StillAsleep
<1>3. enabled /\ dequeue_enabled /\ Len(Queue) <= Cardinality(Way)
  BY <1>2 DEF ItemsWake
<1>4. Len(Queue) \in Nat /\ Len(Queue)' = Len(Queue) - 1
  <2>1. CASE max_size > 0
    <3>1. pipe_size' = pipe_size - 1 /\ pipe_size' \in Nat
      BY <2>1, DequeueDoneRing DEF PipeTypeOK
    <3>2. Len(Queue)' = pipe_size'
      BY <2>1, <3>1 DEF Queue
    <3> QED BY <2>1, <3>1, <3>2, QueueLength
  <2>2. CASE max_size = 0
    <3>1. first = 0 /\ last = 0 /\ last' = 1
      BY <2>2, DequeueDoneRing
    <3>2. Len(Queue)' = 0
      BY <2>2, <3>1 DEF Queue
    <3> QED BY <2>2, <3>1, <3>2, QueueLength
  <2> QED BY <2>1, <2>2, SizeAssumption
<1>5. IsFiniteSet(Way') /\ Cardinality(Way') \in Nat
  <2>1. IsFiniteSet(Way')
    BY ThreadsAssumption, FS_Subset DEF Way, OnTheirWay, Within
  <2> QED BY <2>1, FS_CardinalityType
<1>6. Cardinality(Way \ {t}) >= Cardinality(Way) - 1 /\ Cardinality(Way \ {t}) \in Nat /\ IsFiniteSet(Way \ {t})
  <2>1. /\ IsFiniteSet(Way \ {t})
        /\ Cardinality(Way \ {t}) = IF t \in Way THEN Cardinality(Way) - 1 ELSE Cardinality(Way)
    BY WayFinite, FS_RemoveElement
  <2>2. Cardinality(Way \ {t}) \in Nat
    BY <2>1, FS_CardinalityType
  <2> QED BY <2>1, <2>2, WayFinite
<1>7. Way \ {t} \subseteq Way'
  BY <1>1, WayStays
<1>8. Cardinality(Way \ {t}) <= Cardinality(Way')
  BY <1>5, <1>7, FS_Subset
<1>9. Len(Queue)' <= Cardinality(Way')
  BY <1>3, <1>4, <1>5, <1>6, <1>8, WayFinite
<1> QED BY <1>1, <1>3, <1>9

(* One item more, and one sleeper is woken for it.                         *)
LEMMA PutItems ==
  ASSUME PipeTypeOK, PipeTypeOK', CountersExact, Calling, RingExact, FirstInside, ItemsOwn, ItemsWake,
         NEW t \in Threads, EnqueueDone(t) \/ Offer(t)
  PROVE  ItemsWake'
<1>1. Moves(t) /\ op[t] = "enqueue" /\ Announce /\ UNCHANGED <<enabled, dequeue_enabled>>
  BY EndsMoves DEF Ends, EnqueueDone, Offer, PutIn, Holds, Return, flags
<1> SUFFICES ASSUME Sleepers(Dequeuing)' # {}
             PROVE  enabled' /\ dequeue_enabled' /\ Len(Queue)' <= Cardinality(Way')
  BY DEF ItemsWake
<1>2. Sleepers(Dequeuing) # {}
  BY <1>1, StillAsleep
<1>3. enabled /\ dequeue_enabled /\ Len(Queue) <= Cardinality(Way)
  BY <1>2 DEF ItemsWake
<1>4. Len(Queue) \in Nat /\ Len(Queue)' = Len(Queue) + 1
  <2>1. CASE EnqueueDone(t)
    <3>1. max_size > 0 /\ pipe_size' = pipe_size + 1 /\ pipe_size' \in Nat
      BY <2>1, EnqueueDoneRing DEF EnqueueDone, PipeTypeOK
    <3>2. Len(Queue)' = pipe_size'
      BY <3>1 DEF Queue
    <3> QED BY <3>1, <3>2, QueueLength
  <2>2. CASE Offer(t)
    <3>1. max_size = 0 /\ first = 1 /\ first' = 0 /\ last' = 0
      BY <2>2, OfferRing DEF Offer
    <3>2. Len(Queue)' = 1
      BY <3>1 DEF Queue
    <3> QED BY <3>1, <3>2, QueueLength
  <2> QED BY <1>1, <2>1, <2>2
<1>5. PICK v \in Threads : /\ asleep[v] = "dequeue_sig" /\ op[v] = "dequeue" /\ ~expired[v]
                           /\ asleep' = [asleep EXCEPT ![v] = "awake"]
  <2>1. PICK u \in Threads : u \in Sleepers(Dequeuing)
    BY <1>2 DEF Sleepers, Within
  <2>2. asleep[u] = "dequeue_sig" /\ dequeue_waiters > 0
    BY <2>1, Counted DEF Calling, Sleepers, Within, SignalerOf
  <2>3. Signal("dequeue_sig")
    BY <1>1, <2>2 DEF Announce
  <2>4. PICK v \in Threads : asleep[v] = "dequeue_sig" /\ asleep' = [asleep EXCEPT ![v] = "awake"]
    BY <2>2, <2>3 DEF Signal
  <2>5. op[v] = "dequeue" /\ ~expired[v]
    BY <2>4 DEF Calling, SignalerOf, Dequeuing, Enqueuing
  <2> QED BY <2>4, <2>5
<1>6. v \notin Way /\ v # t
  BY <1>1, <1>5 DEF Way, OnTheirWay
<1>7. v \in Way'
  <2>1. op'[v] = "dequeue" /\ ~expired'[v]
    BY <1>1, <1>5, <1>6 DEF Moves
  <2>2. asleep'[v] = "awake"
    BY <1>5 DEF PipeTypeOK
  <2> QED BY <2>1, <2>2 DEF Way, OnTheirWay, Within, Dequeuing
<1>8. Way \cup {v} \subseteq Way'
  BY <1>1, <1>7, WayStays DEF Way, OnTheirWay, Within, Dequeuing
<1>9. IsFiniteSet(Way') /\ Cardinality(Way') \in Nat
  <2>1. IsFiniteSet(Way')
    BY ThreadsAssumption, FS_Subset DEF Way, OnTheirWay, Within
  <2> QED BY <2>1, FS_CardinalityType
<1>10. Cardinality(Way \cup {v}) = Cardinality(Way) + 1
  BY <1>6, WayFinite, FS_AddElement
<1>11. Cardinality(Way \cup {v}) <= Cardinality(Way')
  BY <1>8, <1>9, FS_Subset
<1>12. Len(Queue)' <= Cardinality(Way')
  BY <1>3, <1>4, <1>9, <1>10, <1>11, WayFinite
<1> QED BY <1>1, <1>3, <1>12

LEMMA OtherEndsItems ==
  ASSUME PipeTypeOK, PipeTypeOK', Calling, RingExact, ItemsWake, NEW t \in Threads, Ends(t),
         ~EnqueueDone(t), ~DequeueDone(t), ~DequeueRefused(t)
  PROVE  ItemsWake'
<1>1. Moves(t) /\ op[t] # "dequeue" /\ UNCHANGED <<enabled, dequeue_enabled>>
  BY EndsMoves DEF Ends, EnqueueRefused, OfferWithdrawn, OfferTaken, UntilEmptyDone, NumBlockedDone, Destroyed,
                   Holds, EndOffer, Return, flags
<1>2. t \notin Way
  BY <1>1 DEF Way, OnTheirWay, Within, Dequeuing
<1>3. CASE OfferWithdrawn(t) \/ OfferTaken(t)
  <2>1. first' = 1 /\ op[t] = "offering"
    BY <1>3 DEF OfferWithdrawn, OfferTaken, EndOffer, Holds
  <2>2. max_size = 0
    BY <2>1 DEF RingExact, Within
  <2>3. Len(Queue)' = 0
    BY <2>1, <2>2 DEF Queue
  <2> QED BY <1>1, <2>3, ItemsStay
<1>4. CASE EnqueueRefused(t) \/ UntilEmptyDone(t) \/ NumBlockedDone(t) \/ Destroyed(t)
  <2>1. UNCHANGED ring
    BY <1>4 DEF EnqueueRefused, UntilEmptyDone, NumBlockedDone, Destroyed
  <2>2. Len(Queue)' <= Len(Queue)
    BY <2>1, SameQueue, QueueLength
  <2> QED BY <1>1, <1>2, <2>2, ItemsStay
<1> QED BY <1>3, <1>4 DEF Ends

(* A sleeper that times out was not on its way, and is not.                *)
LEMMA ResumeItems ==
  ASSUME PipeTypeOK, PipeTypeOK', Calling, ItemsWake, NEW t \in Threads, Resume(t) \/ TimeOut(t)
  PROVE  ItemsWake'
<1>1. UNCHANGED <<ring, enabled, dequeue_enabled, op>>
  BY DEF Resume, TimeOut, flags, thread
<1>2. Queue' = Queue
  BY <1>1, SameQueue
<1>3. Len(Queue)' = Len(Queue) /\ Len(Queue) \in Nat
  BY <1>2, QueueLength
<1>4. CASE Resume(t)
  BY <1>1, <1>2, <1>4 DEF Resume, thread, ItemsWake, Sleepers, Way, OnTheirWay, Within
<1>5. CASE TimeOut(t)
  <2>1. Moves(t)
    BY <1>5, ResumeMoves
  <2>2. t \notin Way
    BY <1>5 DEF TimeOut, Way, OnTheirWay
  <2> QED BY <1>1, <1>3, <2>1, <2>2, ItemsStay
<1> QED BY <1>4, <1>5

(* A dequeuer goes to sleep when there is no item.                         *)
LEMMA WaitsItems ==
  ASSUME PipeTypeOK, Calling, ItemsWake, NEW t \in Threads, Waits(t)
  PROVE  ItemsWake'
<1>1. Sleep(t, SignalerOf(op[t])) /\ op[t] # "none"
  BY WaitsSleep
<1>2. /\ \A u \in Threads : asleep'[u] = IF u = t THEN SignalerOf(op[t]) ELSE asleep[u]
      /\ UNCHANGED <<op, expired, ring, enabled, dequeue_enabled>>
  BY <1>1 DEF Sleep, PipeTypeOK, thread, flags
<1>3. Queue' = Queue
  BY <1>2, SameQueue
<1>4. CASE op[t] = "dequeue"
  <2>1. DequeueBlocked
    BY <1>4 DEF Waits, EnqueueWait, OfferWait, DequeueWait, UntilEmptyWait, NumBlockedWait, DestroyWait, Holds
  <2>2. Len(Queue) = 0
    BY <2>1, QueueLength, SizeAssumption DEF DequeueBlocked, PipeTypeOK
  <2>3. Len(Queue)' = 0 /\ enabled' /\ dequeue_enabled'
    BY <1>2, <1>3, <2>1, <2>2 DEF DequeueBlocked
  <2>4. Cardinality(Way') \in Nat
    <3>1. IsFiniteSet(Way')
      BY ThreadsAssumption, FS_Subset DEF Way, OnTheirWay, Within
    <3> QED BY <3>1, FS_CardinalityType
  <2> QED BY <2>3, <2>4 DEF ItemsWake
<1>5. CASE op[t] # "dequeue"
  <2>1. Sleepers(Dequeuing)' = Sleepers(Dequeuing) /\ Way' = Way
    BY <1>2, <1>5 DEF Sleepers, Way, OnTheirWay, Within, Dequeuing
  <2> QED BY <1>2, <1>3, <2>1 DEF ItemsWake
<1> QED BY <1>4, <1>5

-----------------------------------------------------------------------------
(* All parts together *)

LEMMA Parts ==
  ASSUME RingOK', FlagTypes', Basics', EnqueuersWake', DestroyedAlone', PipeTypeOK' => ItemsWake'
  PROVE  PipeInv'
<1>1. PipeTypeOK'
  BY Zenon DEF PipeTypeOK, RingTypes, FlagTypes, CallTypes, SleepTypes, RingOK, Basics
<1> QED BY <1>1 DEF PipeInv, RingOK, Basics

LEMMA InitInv == PipeInit => PipeInv
<1> SUFFICES ASSUME PipeInit PROVE PipeInv
  OBVIOUS
<1>1. PipeTypeOK /\ CountersExact /\ Calling
  BY InitBasics, TypeParts DEF Basics
<1>2. RingExact /\ FirstInside /\ ItemsOwn
  BY InitRing DEF RingOK
<1>3. \A S : Sleepers(S) = {}
  BY DEF PipeInit, Sleepers, Within
<1>4. EnqueuersWake /\ ItemsWake
  BY <1>3 DEF EnqueuersWake, ItemsWake
<1>5. DestroyedAlone
  BY DEF PipeInit, DestroyedAlone
<1> QED BY <1>1, <1>2, <1>4, <1>5 DEF PipeInv

LEMMA EnterParts ==
  ASSUME PipeInv, NEW t \in Threads, NEW o \in Methods \ {"offering"}, NEW l \in {"never", "now", "later"},
         NEW k \in Nums \cup {0}, Enter(t, o, l, k), OnlyWakes,
         UNCHANGED item \/ item' = [item EXCEPT ![t] = t], o = "enqueue" => item' = [item EXCEPT ![t] = t],
         dequeue_waiters' = dequeue_waiters + Num(o, Dequeuing),
         enqueue_waiters' = enqueue_waiters + Num(o, Enqueuing),
         unblock_sig_waiters' = unblock_sig_waiters + Num(o, Watching)
  PROVE  Basics' /\ RingOK' /\ destroyed' = FALSE
<1> USE DEF PipeInv
<1>1. op[t] = "none" /\ op' = [op EXCEPT ![t] = o] /\ UNCHANGED <<ring, destroyed>> /\ ~destroyed
  BY DEF Enter, Call
<1>2. CountersFollow(t, o)
  BY <1>1 DEF CountersFollow, Num, Dequeuing, Enqueuing, Watching, PipeTypeOK
<1>3. Basics'
  BY <1>2, EnterBasics
<1>4. /\ item' \in [Threads -> Threads \cup {Junk}]
      /\ \A u \in Threads : op'[u] = "offering" <=> op[u] = "offering"
      /\ \A u \in Threads : op'[u] = "enqueue" => item'[u] = u
  BY <1>1 DEF PipeTypeOK, ItemsOwn
<1>5. RingOK'
  BY <1>1, <1>4, RingStays
<1> QED BY <1>1, <1>3, <1>5 DEF PipeTypeOK

LEMMA BriefParts ==
  ASSUME PipeInv, NEW t \in Threads, NEW o, Brief(t, o), OnlyWakes, UNCHANGED ring
  PROVE  Basics' /\ RingOK' /\ destroyed' = FALSE
<1> USE DEF PipeInv
<1>1. UNCHANGED <<op, item, destroyed>> /\ ~destroyed
  BY DEF Brief, Call, thread
<1>2. RingOK'
  BY <1>1, RingStays DEF PipeTypeOK, ItemsOwn
<1> QED BY <1>1, <1>2, BriefBasics DEF PipeTypeOK

LEMMA BeginFlags ==
  ASSUME PipeTypeOK, NEW t \in Threads, Begin(t), destroyed' = FALSE
  PROVE  FlagTypes'
<1>1. /\ enabled' \in {enabled, TRUE, FALSE}
      /\ enqueue_enabled' \in {enqueue_enabled, TRUE, FALSE}
      /\ dequeue_enabled' \in {dequeue_enabled, TRUE, FALSE}
  BY Zenon DEF Begin, Enqueue, Dequeue, UntilEmpty, NumBlocked, Destroy, Empty, Enable, Disable, EnableEnqueue,
               DisableEnqueue, EnableDequeue, DisableDequeue, flags
<1> QED BY <1>1, Zenon DEF FlagTypes, PipeTypeOK

LEMMA BeginInv ==
  ASSUME PipeInv, NEW t \in Threads, Begin(t)
  PROVE  PipeInv'
<1> USE DEF PipeInv
<1>1. OnlyWakes /\ EnqueuersWake'
  BY BeginMoves, BeginEnqueuers DEF Moves
<1>2. Basics' /\ RingOK' /\ destroyed' = FALSE
  <2>1. Limits \subseteq {"never", "now", "later"}
    BY DEF Limits
  <2>2. ASSUME NEW l \in Limits, Enqueue(t, l)
        PROVE  Basics' /\ RingOK' /\ destroyed' = FALSE
    <3>1. /\ Enter(t, "enqueue", l, 0) /\ item' = [item EXCEPT ![t] = t]
          /\ dequeue_waiters' = dequeue_waiters + Num("enqueue", Dequeuing)
          /\ enqueue_waiters' = enqueue_waiters + Num("enqueue", Enqueuing)
          /\ unblock_sig_waiters' = unblock_sig_waiters + Num("enqueue", Watching)
      BY <2>2 DEF Enqueue, Num, Dequeuing, Enqueuing, Watching, PipeTypeOK
    <3> QED BY <1>1, <2>1, <3>1, EnterParts DEF Methods
  <2>3. ASSUME NEW l \in Limits, Dequeue(t, l)
        PROVE  Basics' /\ RingOK' /\ destroyed' = FALSE
    <3>1. /\ Enter(t, "dequeue", l, 0) /\ UNCHANGED item
          /\ dequeue_waiters' = dequeue_waiters + Num("dequeue", Dequeuing)
          /\ enqueue_waiters' = enqueue_waiters + Num("dequeue", Enqueuing)
          /\ unblock_sig_waiters' = unblock_sig_waiters + Num("dequeue", Watching)
      BY <2>3 DEF Dequeue, Num, Dequeuing, Enqueuing, Watching, PipeTypeOK
    <3> QED BY <1>1, <2>1, <3>1, EnterParts DEF Methods
  <2>4. CASE UntilEmpty(t)
    <3>1. /\ Enter(t, "until_empty", "never", 0) /\ UNCHANGED item
          /\ dequeue_waiters' = dequeue_waiters + Num("until_empty", Dequeuing)
          /\ enqueue_waiters' = enqueue_waiters + Num("until_empty", Enqueuing)
          /\ unblock_sig_waiters' = unblock_sig_waiters + Num("until_empty", Watching)
      BY <2>4 DEF UntilEmpty, Num, Dequeuing, Enqueuing, Watching, PipeTypeOK
    <3> QED BY <1>1, <3>1, EnterParts DEF Methods
  <2>5. ASSUME NEW k \in Nums, NumBlocked(t, k)
        PROVE  Basics' /\ RingOK' /\ destroyed' = FALSE
    <3>1. /\ Enter(t, "num_blocked", "never", k) /\ UNCHANGED item
          /\ dequeue_waiters' = dequeue_waiters + Num("num_blocked", Dequeuing)
          /\ enqueue_waiters' = enqueue_waiters + Num("num_blocked", Enqueuing)
          /\ unblock_sig_waiters' = unblock_sig_waiters + Num("num_blocked", Watching)
      BY <2>5 DEF NumBlocked, Num, Dequeuing, Enqueuing, Watching, PipeTypeOK
    <3> QED BY <1>1, <3>1, EnterParts DEF Methods
  <2>6. CASE Destroy(t)
    <3>1. /\ Enter(t, "destroy", "never", 0) /\ UNCHANGED item
          /\ dequeue_waiters' = dequeue_waiters + Num("destroy", Dequeuing)
          /\ enqueue_waiters' = enqueue_waiters + Num("destroy", Enqueuing)
          /\ unblock_sig_waiters' = unblock_sig_waiters + Num("destroy", Watching)
      BY <2>6 DEF Destroy, Num, Dequeuing, Enqueuing, Watching, PipeTypeOK
    <3> QED BY <1>1, <3>1, EnterParts DEF Methods
  <2>7. CASE Empty(t)
    <3>1. destroyed' = FALSE
      BY <2>7 DEF Empty, Brief, Call, PipeTypeOK
    <3>2. Basics'
      BY <1>1, <2>7, BriefBasics DEF Empty
    <3> QED BY <2>7, <3>1, <3>2, EmptyRing
  <2>8. CASE Enable(t) \/ Disable(t) \/ EnableEnqueue(t) \/ DisableEnqueue(t) \/ EnableDequeue(t) \/ DisableDequeue(t)
    <3>1. \E o : Brief(t, o) /\ UNCHANGED ring
      BY <2>8 DEF Enable, Disable, EnableEnqueue, DisableEnqueue, EnableDequeue, DisableDequeue
    <3> QED BY <1>1, <3>1, BriefParts
  <2> QED BY <2>2, <2>3, <2>4, <2>5, <2>6, <2>7, <2>8 DEF Begin
<1>3. FlagTypes'
  BY <1>2, BeginFlags
<1>4. DestroyedAlone'
  BY <1>2 DEF DestroyedAlone
<1>5. PipeTypeOK' => ItemsWake'
  BY BeginItems
<1> QED BY <1>1, <1>2, <1>3, <1>4, <1>5, Parts

LEMMA WaitsInv ==
  ASSUME PipeInv, NEW t \in Threads, Waits(t)
  PROVE  PipeInv'
<1> USE DEF PipeInv
<1>1. m = t /\ op[t] # "none" /\ ~expired[t] /\ Sleep(t, SignalerOf(op[t]))
  BY WaitsSleep
<1>2. Basics'
  BY <1>1, SleepBasics
<1>3. UNCHANGED <<op, item, ring, flags, destroyed>>
  BY <1>1 DEF Sleep, thread
<1>4. RingOK'
  BY <1>3, RingStays DEF PipeTypeOK, ItemsOwn
<1>5. FlagTypes' /\ DestroyedAlone'
  BY <1>3, Zenon DEF FlagTypes, PipeTypeOK, flags, DestroyedAlone
<1>6. EnqueuersWake' /\ ItemsWake'
  BY WaitsEnqueuers, WaitsItems
<1> QED BY <1>2, <1>4, <1>5, <1>6, Parts

LEMMA ResumeInv ==
  ASSUME PipeInv, NEW t \in Threads, Resume(t) \/ TimeOut(t)
  PROVE  PipeInv'
<1> USE DEF PipeInv
<1>1. Basics'
  BY ResumeBasics, TimeOutBasics
<1>2. UNCHANGED <<op, item, ring, flags, destroyed>>
  BY DEF Resume, TimeOut, thread
<1>3. RingOK'
  BY <1>2, RingStays DEF PipeTypeOK, ItemsOwn
<1>4. FlagTypes' /\ DestroyedAlone'
  BY <1>2, Zenon DEF FlagTypes, PipeTypeOK, flags, DestroyedAlone
<1>5. EnqueuersWake' /\ (PipeTypeOK' => ItemsWake')
  BY ResumeEnqueuers, ResumeItems
<1> QED BY <1>1, <1>3, <1>4, <1>5, Parts

LEMMA OfferInv ==
  ASSUME PipeInv, NEW t \in Threads, Offer(t)
  PROVE  PipeInv'
<1> USE DEF PipeInv
<1>1. /\ m = t /\ op[t] = "enqueue" /\ ~expired[t] /\ op' = [op EXCEPT ![t] = "offering"]
      /\ UNCHANGED <<m, limit, expired, num, waiters, calls, flags, destroyed>>
  BY DEF Offer, PutIn, Holds
<1>2. Basics'
  BY <1>1, EndsMoves, OfferBasics DEF Moves
<1>3. RingOK' /\ EnqueuersWake' /\ (PipeTypeOK' => ItemsWake')
  BY OfferRing, OfferEnqueuers, PutItems
<1>4. FlagTypes'
  BY <1>1, Zenon DEF FlagTypes, PipeTypeOK, flags
<1>5. DestroyedAlone'
  BY <1>1 DEF DestroyedAlone
<1> QED BY <1>2, <1>3, <1>4, <1>5, Parts

(* Which counter a call that returns leaves.                               *)
LEMMA EndsCounters ==
  ASSUME PipeTypeOK, NEW t \in Threads, Ends(t)
  PROVE  CountersFollow(t, "none")
<1>1. op' = [op EXCEPT ![t] = "none"]
  BY DEF Ends, EnqueueRefused, EnqueueDone, OfferWithdrawn, OfferTaken, EndOffer, DequeueRefused, DequeueDone,
         UntilEmptyDone, NumBlockedDone, Destroyed, Return
<1>2. /\ Num("none", Dequeuing) = 0 /\ Num("none", Enqueuing) = 0 /\ Num("none", Watching) = 0
  BY DEF Num, Dequeuing, Enqueuing, Watching
<1>3. CASE EnqueueRefused(t) \/ EnqueueDone(t) \/ OfferWithdrawn(t) \/ OfferTaken(t) \/ UntilEmptyDone(t)
  <2>1. /\ op[t] \in {"enqueue", "offering", "until_empty"}
        /\ enqueue_waiters' = enqueue_waiters - 1 /\ UNCHANGED <<dequeue_waiters, unblock_sig_waiters>>
    BY <1>3 DEF EnqueueRefused, EnqueueDone, PutIn, OfferWithdrawn, OfferTaken, EndOffer, UntilEmptyDone, Holds
  <2>2. Num(op[t], Dequeuing) = 0 /\ Num(op[t], Enqueuing) = 1 /\ Num(op[t], Watching) = 0
    BY <2>1 DEF Num, Dequeuing, Enqueuing, Watching
  <2> QED BY <1>1, <1>2, <2>1, <2>2 DEF CountersFollow, PipeTypeOK
<1>4. CASE DequeueRefused(t) \/ DequeueDone(t)
  <2>1. op[t] = "dequeue" /\ dequeue_waiters' = dequeue_waiters - 1 /\ UNCHANGED <<enqueue_waiters, unblock_sig_waiters>>
    BY <1>4 DEF DequeueRefused, DequeueDone, Holds
  <2>2. Num(op[t], Dequeuing) = 1 /\ Num(op[t], Enqueuing) = 0 /\ Num(op[t], Watching) = 0
    BY <2>1 DEF Num, Dequeuing, Enqueuing, Watching
  <2> QED BY <1>1, <1>2, <2>1, <2>2 DEF CountersFollow, PipeTypeOK
<1>5. CASE NumBlockedDone(t) \/ Destroyed(t)
  <2>1. /\ op[t] \in {"num_blocked", "destroy"}
        /\ unblock_sig_waiters' = unblock_sig_waiters - 1 /\ UNCHANGED <<dequeue_waiters, enqueue_waiters>>
    BY <1>5 DEF NumBlockedDone, Destroyed, Holds
  <2>2. Num(op[t], Dequeuing) = 0 /\ Num(op[t], Enqueuing) = 0 /\ Num(op[t], Watching) = 1
    BY <2>1 DEF Num, Dequeuing, Enqueuing, Watching
  <2> QED BY <1>1, <1>2, <2>1, <2>2 DEF CountersFollow, PipeTypeOK
<1> QED BY <1>3, <1>4, <1>5 DEF Ends

LEMMA EndsRing ==
  ASSUME PipeInv, NEW t \in Threads, Ends(t)
  PROVE  RingOK'
<1> USE DEF PipeInv
<1>1. CASE EnqueueDone(t)
  BY <1>1, EnqueueDoneRing
<1>2. CASE DequeueDone(t)
  BY <1>2, DequeueDoneRing
<1>3. CASE OfferWithdrawn(t) \/ OfferTaken(t)
  <2>1. m = t /\ op[t] = "offering" /\ EndOffer(t) /\ (UNCHANGED <<item, data>> \/ Exchange(t, 0))
    BY <1>3 DEF OfferWithdrawn, OfferTaken, Holds
  <2> QED BY <2>1, EndOfferRing
<1>4. CASE EnqueueRefused(t) \/ DequeueRefused(t) \/ UntilEmptyDone(t) \/ NumBlockedDone(t) \/ Destroyed(t)
  <2>1. /\ UNCHANGED <<item, ring>> /\ op' = [op EXCEPT ![t] = "none"] /\ op[t] # "offering"
    BY <1>4 DEF EnqueueRefused, DequeueRefused, UntilEmptyDone, NumBlockedDone, Destroyed, Holds, Return
  <2>2. /\ \A u \in Threads : op'[u] = "offering" <=> op[u] = "offering"
        /\ \A u \in Threads : op'[u] = "enqueue" => item'[u] = u
    BY <2>1 DEF PipeTypeOK, ItemsOwn
  <2> QED BY <2>1, <2>2, RingStays DEF PipeTypeOK
<1> QED BY <1>1, <1>2, <1>3, <1>4 DEF Ends

(* The destructor's test, counter by counter, leaves no thread but its own *)
(* in a call.                                                              *)
LEMMA EndsDestroyed ==
  ASSUME PipeInv, NEW t \in Threads, Ends(t)
  PROVE  DestroyedAlone'
<1> USE DEF PipeInv
<1>1. op[t] # "none" /\ op' = [op EXCEPT ![t] = "none"]
  BY EndsMoves
<1>2. CASE Destroyed(t)
  <2>1. op[t] = "destroy" /\ ~(dequeue_waiters > 0) /\ ~(enqueue_waiters > 0) /\ ~(unblock_sig_waiters > 1)
    BY <1>2 DEF Destroyed, Holds, InUse
  <2>2. ASSUME NEW u \in Threads, u # t
        PROVE  op[u] = "none"
    <3>1. op[u] \notin Dequeuing /\ op[u] \notin Enqueuing
      BY <2>1, Counted
    <3>2. op[u] \notin Watching
      BY <2>1, <2>2, TwoWithin DEF CountersExact, Count, Watching
    <3> QED BY <3>1, <3>2 DEF PipeTypeOK, Methods, Dequeuing, Enqueuing, Watching
  <2> QED BY <1>1, <2>2 DEF DestroyedAlone, PipeTypeOK
<1>3. CASE ~Destroyed(t)
  <2>1. destroyed' = destroyed
    BY <1>3 DEF Ends, EnqueueRefused, EnqueueDone, OfferWithdrawn, OfferTaken, EndOffer, DequeueRefused, DequeueDone,
                UntilEmptyDone, NumBlockedDone, Return
  <2> QED BY <1>1, <2>1 DEF DestroyedAlone
<1> QED BY <1>2, <1>3

LEMMA EndsInv ==
  ASSUME PipeInv, NEW t \in Threads, Ends(t)
  PROVE  PipeInv'
<1> USE DEF PipeInv
<1>1. Basics'
  BY EndsMoves, EndsCounters, ReturnBasics DEF Moves
<1>2. RingOK' /\ EnqueuersWake' /\ DestroyedAlone'
  BY EndsRing, EndsEnqueuers, EndsDestroyed
<1>3. UNCHANGED flags /\ (destroyed' = destroyed \/ destroyed' = TRUE)
  BY DEF Ends, EnqueueRefused, EnqueueDone, OfferWithdrawn, OfferTaken, EndOffer, DequeueRefused, DequeueDone,
         UntilEmptyDone, NumBlockedDone, Destroyed, Return
<1>4. FlagTypes'
  BY <1>3, Zenon DEF FlagTypes, PipeTypeOK, flags
<1>5. PipeTypeOK' => ItemsWake'
  BY PutItems, DequeueDoneItems, DequeueRefusedItems, OtherEndsItems
<1> QED BY <1>1, <1>2, <1>4, <1>5, Parts

LEMMA NextInv ==
  ASSUME PipeInv, [PipeNext]_pipeVars
  PROVE  PipeInv'
<1>1. CASE UNCHANGED pipeVars
  <2>1. UNCHANGED <<m, op, limit, expired, num, asleep, item, data, pipe_size, first, last, enabled, enqueue_enabled,
                    dequeue_enabled, dequeue_waiters, enqueue_waiters, unblock_sig_waiters, destroyed, calls>>
    BY <1>1 DEF pipeVars, thread, ring, flags, waiters
  <2>2. (PipeTypeOK /\ Calling /\ FirstInside /\ ItemsOwn /\ DestroyedAlone)'
    BY <2>1 DEF PipeInv, PipeTypeOK, Calling, FirstInside, ItemsOwn, DestroyedAlone
  <2>3. \A S : Within(S)' = Within(S) /\ Sleepers(S)' = Sleepers(S) /\ OnTheirWay(S)' = OnTheirWay(S)
    BY <2>1 DEF Within, Sleepers, OnTheirWay
  <2>4. (CountersExact /\ RingExact)'
    BY <2>1, <2>3 DEF PipeInv, CountersExact, RingExact
  <2>5. EnqueuersWake'
    BY <2>1, <2>3 DEF PipeInv, EnqueuersWake, EnqueueBlocked, MayMeet
  <2>6. ItemsWake'
    BY <2>1, <2>3 DEF PipeInv, ItemsWake, Way, Queue
  <2> QED BY <2>2, <2>4, <2>5, <2>6 DEF PipeInv
<1>2. ASSUME NEW t \in Threads, Proceed(t)
      PROVE  PipeInv'
  BY <1>2, ResumeInv, WaitsInv, OfferInv, EndsInv DEF Proceed, Waits, Ends
<1> QED BY <1>1, <1>2, ResumeInv, BeginInv DEF PipeNext

(* The strengthened invariant of the pipe.                                 *)
THEOREM PipeInvariant == PipeSpec => []PipeInv
<1>1. PipeInit => PipeInv
  BY InitInv
<1>2. PipeInv /\ [PipeNext]_pipeVars => PipeInv'
  BY NextInv
<1> QED BY <1>1, <1>2, PTL DEF PipeSpec

(* Every variable keeps its type: the pipe never holds more than its        *)
(* maximum, and no counter goes below 0.                                    *)
THEOREM PipeTypeCorrect == PipeSpec => []PipeTypeOK
<1>1. PipeInv => PipeTypeOK
  BY DEF PipeInv
<1> QED BY <1>1, PipeInvariant, PTL

(* The counters that decide whom to wake count the threads inside the calls.*)
THEOREM PipeCountsItsThreads == PipeSpec => []CountersExact
<1>1. PipeInv => CountersExact
  BY DEF PipeInv
<1> QED BY <1>1, PipeInvariant, PTL

(* first and last delimit the items around the end of the array; at most   *)
(* one item is on offer when the maximum is 0.                             *)
THEOREM PipeRingIsExact == PipeSpec => []RingExact
<1>1. PipeInv => RingExact
  BY DEF PipeInv
<1> QED BY <1>1, PipeInvariant, PTL

(* As long as a dequeuer sleeps, others are on their way for all the items. *)
THEOREM NoItemLeft == PipeSpec => []ItemsFetched
<1>1. PipeInv => ItemsFetched
  BY DEF PipeInv, ItemsWake, ItemsFetched, Way, Dequeuing
<1> QED BY <1>1, PipeInvariant, PTL

(* No enqueuer sleeps that could go on.                                    *)
THEOREM NoEnqueuerLeft == PipeSpec => []EnqueuersServed
<1>1. PipeInv => EnqueuersServed
  BY DEF PipeInv, EnqueuersWake, EnqueuersServed
<1> QED BY <1>1, PipeInvariant, PTL

(* The destructor deletes the array when no thread is inside a call.       *)
THEOREM NobodyInsideDestroyed == PipeSpec => []DestroyedAlone
<1>1. PipeInv => DestroyedAlone
  BY DEF PipeInv
<1> QED BY <1>1, PipeInvariant, PTL

(* All of it together: the pipe's CONVENTION holds whenever nobody has its  *)
(* mutex, for any threads, any max_size and any use of the switches.        *)
THEOREM PipeIsSound == PipeSpec => []PipeSound
BY PipeTypeCorrect, PipeCountsItsThreads, PipeRingIsExact, NoItemLeft, NoEnqueuerLeft,
   NobodyInsideDestroyed, PTL DEF PipeSound

-----------------------------------------------------------------------------
(* The pipe is a queue *)

(* What a function on 1..n says of the sequence it is.                      *)
LEMMA IsSequence ==
  ASSUME NEW V, NEW n \in Nat, NEW s \in [1..n -> V]
  PROVE  s \in Seq(V) /\ Len(s) = n
BY SeqDef

LEMMA IsAppend ==
  ASSUME NEW V, NEW n \in Nat, NEW s \in [1..n -> V], NEW e \in V, NEW u \in [1..(n + 1) -> V],
         \A k \in 1..(n + 1) : u[k] = IF k = n + 1 THEN e ELSE s[k]
  PROVE  u = Append(s, e)
<1>1. s \in Seq(V) /\ Len(s) = n /\ u \in Seq(V) /\ Len(u) = n + 1
  BY IsSequence
<1>2. Append(s, e) \in Seq(V) /\ Len(Append(s, e)) = n + 1
  BY <1>1, AppendProperties
<1>3. \A k \in 1..(n + 1) : Append(s, e)[k] = IF k = n + 1 THEN e ELSE s[k]
  BY <1>1, AppendProperties
<1> QED BY <1>1, <1>2, <1>3, SeqEqual

LEMMA IsTail ==
  ASSUME NEW V, NEW n \in Nat, NEW s \in [1..(n + 1) -> V], NEW u \in [1..n -> V],
         \A k \in 1..n : u[k] = s[k + 1]
  PROVE  s # <<>> /\ Head(s) = s[1] /\ u = Tail(s)
<1>1. s \in Seq(V) /\ Len(s) = n + 1 /\ u \in Seq(V) /\ Len(u) = n
  BY IsSequence
<1>2. s # <<>> /\ Head(s) = s[1]
  BY <1>1
<1>3. Tail(s) \in Seq(V) /\ Len(Tail(s)) = n /\ \A k \in 1..n : Tail(s)[k] = s[k + 1]
  BY <1>1, <1>2, HeadTailProperties
<1> QED BY <1>1, <1>2, <1>3, SeqEqual

(* The items of the ring are a sequence of items.                          *)
LEMMA QueueItems ==
  ASSUME PipeTypeOK, FirstInside, max_size > 0
  PROVE  Queue \in [1..pipe_size -> Threads \cup {Junk}]
<1>1. /\ max_size \in Nat \ {0} /\ pipe_size \in 0..max_size /\ Slots = 0..(max_size - 1)
      /\ data \in [Slots -> Threads \cup {Junk}]
  BY SizeAssumption DEF PipeTypeOK, Slots
<1>2. ASSUME NEW k \in 1..pipe_size
      PROVE  data[(first + k - 1) % max_size] \in Threads \cup {Junk}
  <2>1. first \in 0..(max_size - 1) /\ k \in 1..max_size
    BY <1>1, <1>2 DEF FirstInside
  <2>2. (first + k - 1) % max_size = IF first + k - 1 < max_size THEN first + k - 1 ELSE first + k - 1 - max_size
    BY <1>1, <2>1, ModSum
  <2>3. (first + k - 1) % max_size \in Slots
    BY <1>1, <2>1, <2>2
  <2> QED BY <1>1, <2>3
<1> QED BY <1>2 DEF Queue

LEMMA PutQueue ==
  ASSUME PipeInv, NEW t \in Threads, EnqueueDone(t) \/ Offer(t)
  PROVE  Promise!Put(t)
<1> USE DEF PipeInv
<1>1. op[t] = "enqueue" /\ item[t] = t
  BY DEF EnqueueDone, Offer, PutIn, Holds, ItemsOwn
<1>2. CASE EnqueueDone(t)
  <2>1. /\ max_size > 0 /\ pipe_size < max_size /\ pipe_size' = pipe_size + 1 /\ Exchange(t, NextSlot)
        /\ first' = IF pipe_size = 0 THEN 0 ELSE first
    BY <1>2, EnqueueDoneRing DEF EnqueueDone, PutIn
  <2>2. max_size \in Nat \ {0} /\ pipe_size \in Nat /\ Slots = 0..(max_size - 1)
    BY <2>1, SizeAssumption DEF PipeTypeOK, Slots
  <2>3. /\ NextSlot \in Slots
        /\ pipe_size = 0 => NextSlot = 0
        /\ pipe_size > 0 =>
             NextSlot = IF first + pipe_size < max_size THEN first + pipe_size ELSE first + pipe_size - max_size
    BY <2>1, SlotFor
  <2>4. /\ item' = [item EXCEPT ![t] = data[NextSlot]] /\ data[NextSlot] \in Threads \cup {Junk}
        /\ \A r \in Slots : data'[r] = IF r = NextSlot THEN t ELSE data[r]
    BY <1>1, <2>1, <2>3, ExchangeTypes DEF Exchange, PipeTypeOK
  <2>5. /\ Queue = [k \in 1..pipe_size |-> data[(first + k - 1) % max_size]]
        /\ Queue' = [k \in 1..(pipe_size + 1) |-> data'[(first' + k - 1) % max_size]]
    BY <2>1 DEF Queue
  <2>6. ASSUME NEW k \in 1..(pipe_size + 1)
        PROVE  Queue'[k] = IF k = pipe_size + 1 THEN t ELSE Queue[k]
    <3>1. CASE pipe_size = 0
      <4>1. (0 + 1 - 1) % max_size = 0
        BY <2>2
      <4> QED BY <2>1, <2>2, <2>3, <2>4, <2>5, <3>1, <4>1
    <3>2. CASE pipe_size > 0
      <4>1. first' = first /\ first \in 0..(max_size - 1) /\ k \in 1..max_size
        BY <2>1, <2>2, <3>2 DEF FirstInside
      <4>2. (first + k - 1) % max_size = IF first + k - 1 < max_size THEN first + k - 1 ELSE first + k - 1 - max_size
        BY <2>2, <4>1, ModSum
      <4>3. (first + k - 1) % max_size \in Slots
        BY <2>2, <4>1, <4>2
      <4>4. (first + k - 1) % max_size = NextSlot <=> k = pipe_size + 1
        BY <2>1, <2>2, <2>3, <3>2, <4>1, <4>2
      <4>5. Queue'[k] = data'[(first + k - 1) % max_size]
        BY <2>5, <4>1
      <4>6. k # pipe_size + 1 => Queue[k] = data[(first + k - 1) % max_size]
        BY <2>2, <2>5
      <4> QED BY <2>4, <4>3, <4>4, <4>5, <4>6
    <3> QED BY <2>2, <3>1, <3>2
  <2>7. Queue' = Append(Queue, t)
    <3>1. Queue \in [1..pipe_size -> Threads \cup {Junk}]
      <4>1. CASE pipe_size = 0
        BY <2>5, <4>1
      <4>2. CASE pipe_size > 0
        BY <2>1, <4>2, QueueItems
      <4> QED BY <2>2, <4>1, <4>2
    <3>2. Queue' \in [1..(pipe_size + 1) -> Threads \cup {Junk}]
      <4>1. \A k \in 1..(pipe_size + 1) : Queue'[k] \in Threads \cup {Junk}
        BY <2>2, <2>6, <3>1
      <4>2. Queue' = [k \in 1..(pipe_size + 1) |-> Queue'[k]]
        BY <2>5
      <4> QED BY <4>1, <4>2
    <3>3. pipe_size \in Nat /\ t \in Threads \cup {Junk}
      BY <2>2
    <3> QED BY <2>6, <3>1, <3>2, <3>3, IsAppend
  <2> QED BY <1>1, <2>1, <2>4, <2>7, QueueLength DEF Promise!Put
<1>3. CASE Offer(t)
  <2>1. max_size = 0 /\ first = 1 /\ first' = 0 /\ last' = 0 /\ Exchange(t, 0) /\ Slots = {0}
    <3>1. first = 1 /\ first' = 0 /\ last' = 0 /\ Exchange(t, 0)
      BY <1>3, OfferRing
    <3>2. max_size = 0
      BY <1>3 DEF Offer
    <3>3. Slots = {0}
      BY <3>2 DEF Slots
    <3> QED BY <3>1, <3>2, <3>3
  <2>2. Queue = <<>> /\ Queue' = <<data'[0]>>
    BY <2>1 DEF Queue
  <2>3. /\ item' = [item EXCEPT ![t] = data[0]] /\ data[0] \in Threads \cup {Junk} /\ data'[0] = t
    BY <1>1, <2>1, ExchangeTypes DEF Exchange, PipeTypeOK
  <2>4. Queue' = Append(Queue, t)
    BY <2>2, <2>3
  <2> QED BY <1>1, <2>1, <2>2, <2>3, <2>4 DEF Promise!Put
<1> QED BY <1>2, <1>3

LEMMA TakeQueue ==
  ASSUME PipeInv, NEW t \in Threads, DequeueDone(t)
  PROVE  Promise!Take(t)
<1> USE DEF PipeInv
<1>1. CASE max_size > 0
  <2>1. /\ pipe_size > 0 /\ pipe_size' = pipe_size - 1 /\ Exchange(t, first)
        /\ first' = IF first + 1 < max_size THEN first + 1 ELSE 0
    BY <1>1, DequeueDoneRing DEF DequeueDone
  <2>2. /\ max_size \in Nat \ {0} /\ pipe_size \in 1..max_size /\ Slots = 0..(max_size - 1)
        /\ first \in 0..(max_size - 1)
    BY <1>1, <2>1, SizeAssumption DEF PipeTypeOK, Slots, FirstInside
  <2>3. /\ item' = [item EXCEPT ![t] = data[first]]
        /\ \A r \in Slots : data'[r] = IF r = first THEN item[t] ELSE data[r]
    BY <2>1, <2>2, ExchangeTypes DEF Exchange
  <2>4. /\ Queue = [k \in 1..pipe_size |-> data[(first + k - 1) % max_size]]
        /\ Queue' = [k \in 1..(pipe_size - 1) |-> data'[(first' + k - 1) % max_size]]
    BY <1>1, <2>1 DEF Queue
  <2>5. Queue[1] = data[first]
    <3>1. first + 1 - 1 = first /\ first % max_size = first /\ 1 \in 1..pipe_size
      BY <2>2
    <3>2. Queue[1] = data[(first + 1 - 1) % max_size]
      BY <2>4, <3>1
    <3> QED BY <3>1, <3>2
  <2>6. ASSUME NEW k \in 1..(pipe_size - 1)
        PROVE  Queue'[k] = Queue[k + 1]
    <3>1. k \in 1..max_size /\ k + 1 \in 1..max_size /\ first' \in 0..(max_size - 1)
      BY <2>1, <2>2
    <3>2. (first' + k - 1) % max_size = IF first' + k - 1 < max_size THEN first' + k - 1 ELSE first' + k - 1 - max_size
      BY <2>2, <3>1, ModSum
    <3>3. (first + (k + 1) - 1) % max_size =
            IF first + (k + 1) - 1 < max_size THEN first + (k + 1) - 1 ELSE first + (k + 1) - 1 - max_size
      <4>1. \A p \in 1..max_size :
              (first + p - 1) % max_size = IF first + p - 1 < max_size THEN first + p - 1 ELSE first + p - 1 - max_size
        BY <2>2, ModSum
      <4> QED BY <3>1, <4>1, Zenon
    <3>4. (first' + k - 1) % max_size = (first + (k + 1) - 1) % max_size
      BY <2>1, <2>2, <3>1, <3>2, <3>3
    <3>5. (first' + k - 1) % max_size \in Slots /\ (first' + k - 1) % max_size # first
      BY <2>1, <2>2, <3>1, <3>2
    <3>6. Queue'[k] = data[(first' + k - 1) % max_size]
      BY <2>3, <2>4, <3>5
    <3>7. Queue[k + 1] = data[(first + (k + 1) - 1) % max_size]
      BY <2>2, <2>4
    <3> QED BY <3>4, <3>6, <3>7
  <2>7. Queue # <<>> /\ Head(Queue) = data[first] /\ Queue' = Tail(Queue)
    <3>1. Queue \in [1..((pipe_size - 1) + 1) -> Threads \cup {Junk}]
      BY <1>1, <2>2, QueueItems
    <3>2. Queue' \in [1..(pipe_size - 1) -> Threads \cup {Junk}]
      <4>1. \A k \in 1..(pipe_size - 1) : Queue'[k] \in Threads \cup {Junk}
        BY <2>2, <2>6, <3>1
      <4>2. Queue' = [k \in 1..(pipe_size - 1) |-> Queue'[k]]
        BY <2>4
      <4> QED BY <4>1, <4>2
    <3>3. pipe_size - 1 \in Nat
      BY <2>2
    <3>4. Queue # <<>> /\ Head(Queue) = Queue[1] /\ Queue' = Tail(Queue)
      BY <2>6, <3>1, <3>2, <3>3, IsTail
    <3> QED BY <2>5, <3>4
  <2> QED BY <2>3, <2>7 DEF Promise!Take
<1>2. CASE max_size = 0
  <2>1. first = 0 /\ last = 0 /\ last' = 1 /\ Exchange(t, 0)
    BY <1>2, DequeueDoneRing DEF DequeueDone
  <2>2. Queue = <<data[0]>> /\ Queue' = <<>>
    BY <1>2, <2>1 DEF Queue
  <2>3. item' = [item EXCEPT ![t] = data[0]]
    BY <2>1 DEF Exchange
  <2> QED BY <2>2, <2>3 DEF Promise!Take
<1> QED BY <1>1, <1>2, SizeAssumption

(* A withdrawn offer is out of the pipe and back with its thread; one that *)
(* was taken is out already.                                               *)
LEMMA OfferQueue ==
  ASSUME PipeInv, NEW t \in Threads, OfferWithdrawn(t) \/ OfferTaken(t)
  PROVE  Promise!Withdraw(t) \/ (Queue' = Queue /\ item' = item)
<1> USE DEF PipeInv
<1>1. op[t] = "offering" /\ first' = 1
  BY DEF OfferWithdrawn, OfferTaken, EndOffer, Holds
<1>2. max_size = 0 /\ first = 0 /\ Queue' = <<>>
  BY <1>1 DEF RingExact, Within, Queue
<1>3. CASE OfferWithdrawn(t)
  <2>1. last = 0 /\ data[0] = t /\ item' = [item EXCEPT ![t] = data[0]]
    BY <1>1, <1>3 DEF OfferWithdrawn, Exchange, ItemsOwn
  <2>2. Queue = <<t>>
    BY <1>2, <2>1 DEF Queue
  <2> QED BY <1>2, <2>1, <2>2 DEF Promise!Withdraw
<1>4. CASE OfferTaken(t)
  BY <1>2, <1>4 DEF OfferTaken, Queue
<1> QED BY <1>3, <1>4

LEMMA EmptyQueue ==
  ASSUME PipeInv, NEW t \in Threads, Empty(t)
  PROVE  Promise!Clear \/ (Queue' = Queue /\ item' = item)
<1>1. pipe_size' = 0 /\ UNCHANGED <<first, last, data, item>>
  BY DEF Empty, Brief
<1>2. CASE max_size > 0
  BY <1>1, <1>2 DEF Queue, Promise!Clear
<1>3. CASE max_size = 0
  BY <1>1, <1>3 DEF Queue
<1> QED BY <1>2, <1>3, SizeAssumption

(* Every other step leaves queue and items alone, but that a thread brings *)
(* its item along.                                                         *)
LEMMA OtherQueue ==
  ASSUME NEW t \in Threads, (Begin(t) /\ ~Empty(t)) \/ TimeOut(t) \/ Resume(t) \/ Waits(t) \/ EnqueueRefused(t)
           \/ DequeueRefused(t) \/ UntilEmptyDone(t) \/ NumBlockedDone(t) \/ Destroyed(t)
  PROVE  Promise!Prepare(t) \/ (Queue' = Queue /\ item' = item)
<1>1. UNCHANGED ring
  BY DEF Begin, Enqueue, Dequeue, UntilEmpty, NumBlocked, Destroy, Enable, Disable, EnableEnqueue, DisableEnqueue,
         EnableDequeue, DisableDequeue, Enter, TimeOut, Resume, Waits, EnqueueWait, OfferWait, DequeueWait,
         UntilEmptyWait, NumBlockedWait, DestroyWait, Sleep, EnqueueRefused, DequeueRefused, UntilEmptyDone,
         NumBlockedDone, Destroyed
<1>2. item' = item \/ item' = [item EXCEPT ![t] = t]
  BY DEF Begin, Enqueue, Dequeue, UntilEmpty, NumBlocked, Destroy, Enable, Disable, EnableEnqueue, DisableEnqueue,
         EnableDequeue, DisableDequeue, Brief, TimeOut, Resume, Waits, EnqueueWait, OfferWait, DequeueWait,
         UntilEmptyWait, NumBlockedWait, DestroyWait, Sleep, EnqueueRefused, DequeueRefused, UntilEmptyDone,
         NumBlockedDone, Destroyed
<1> QED BY <1>1, <1>2, SameQueue DEF Promise!Prepare

(* Every behaviour of the pipe is one of the queue its interface promises:  *)
(* items pass in order, each once, and failed calls change nothing.        *)
THEOREM PipeIsChannel == PipeSpec => ImplementsChannel
<1>1. PipeInit => Promise!ChannelInit
  BY SizeAssumption DEF PipeInit, Queue, Promise!ChannelInit
<1>2. ASSUME PipeInv, [PipeNext]_pipeVars
      PROVE  [Promise!ChannelNext]_(Promise!channelVars)
  <2>1. CASE UNCHANGED pipeVars
    <3>1. UNCHANGED <<ring, item>>
      BY <2>1 DEF pipeVars, ring
    <3> QED BY <3>1, SameQueue DEF Promise!channelVars
  <2>2. ASSUME NEW t \in Threads, Proceed(t) \/ TimeOut(t) \/ Begin(t)
        PROVE  [Promise!ChannelNext]_(Promise!channelVars)
    <3>1. CASE EnqueueDone(t) \/ Offer(t)
      BY <1>2, <3>1, PutQueue DEF Promise!ChannelNext
    <3>2. CASE DequeueDone(t)
      BY <1>2, <3>2, TakeQueue DEF Promise!ChannelNext
    <3>3. CASE OfferWithdrawn(t) \/ OfferTaken(t)
      BY <1>2, <3>3, OfferQueue DEF Promise!ChannelNext, Promise!channelVars
    <3>4. CASE Empty(t)
      BY <1>2, <3>4, EmptyQueue DEF Promise!ChannelNext, Promise!channelVars
    <3>5. CASE (Begin(t) /\ ~Empty(t)) \/ TimeOut(t) \/ Resume(t) \/ Waits(t) \/ EnqueueRefused(t)
                 \/ DequeueRefused(t) \/ UntilEmptyDone(t) \/ NumBlockedDone(t) \/ Destroyed(t)
      BY <3>5, OtherQueue DEF Promise!ChannelNext, Promise!channelVars
    <3> QED BY <2>2, <3>1, <3>2, <3>3, <3>4, <3>5 DEF Proceed, Waits
  <2> QED BY <1>2, <2>1, <2>2 DEF PipeNext
<1> QED BY <1>1, <1>2, PipeInvariant, PTL DEF PipeSpec, ImplementsChannel, Promise!ChannelSpec
=============================================================================
