-------------------------------- MODULE Pipe --------------------------------
(* dlib's pipe (pipe_kernel_1.h): a queue between threads as a monitor, one *)
(* mutex m and three signalers.  A thread that calls a method holds m from  *)
(* the first step of the call to its return, except while it sleeps on a    *)
(* signaler; a signal wakes one sleeper of it, a broadcast all, and a       *)
(* sleeper takes m again before it looks at its condition again.            *)
EXTENDS Integers, FiniteSets, Sequences

CONSTANTS
  Threads,
  Junk,       \* the value of an item nobody enqueued
  max_size,   \* pipe_max_size
  Nums,       \* arguments of wait_for_num_blocked_dequeues
  Ops,        \* methods the threads call
  MaxCalls    \* bound: calls of all threads

ASSUME SizeAssumption == max_size \in Nat
ASSUME ThreadsAssumption == IsFiniteSet(Threads) /\ "free" \notin Threads

VARIABLES
  m,                     \* the thread that holds the mutex, or "free"
  op,                    \* the call a thread is in, "none" outside
  limit,                 \* its timeout: "never" for calls without, "now" for 0, "later"
  expired,               \* its wait has timed out
  num,                   \* its argument num
  asleep,                \* the signaler it sleeps on, or "awake"
  item,                  \* its argument item
  data, pipe_size, first, last,
  enabled, enqueue_enabled, dequeue_enabled,
  dequeue_waiters, enqueue_waiters, unblock_sig_waiters,
  destroyed,             \* data is deleted
  calls                  \* calls made

ring == <<data, pipe_size, first, last>>
flags == <<enabled, enqueue_enabled, dequeue_enabled>>
waiters == <<dequeue_waiters, enqueue_waiters, unblock_sig_waiters>>
thread == <<op, limit, expired, num>>
pipeVars == <<m, thread, asleep, item, ring, flags, waiters, destroyed, calls>>

Slots == 0..(IF max_size > 0 THEN max_size - 1 ELSE 0)
Signalers == {"dequeue_sig", "enqueue_sig", "unblock_sig"}

PipeInit ==
  /\ m = "free"
  /\ op = [t \in Threads |-> "none"] /\ limit = [t \in Threads |-> "never"]
  /\ expired = [t \in Threads |-> FALSE] /\ num = [t \in Threads |-> 0]
  /\ asleep = [t \in Threads |-> "awake"]
  /\ item = [t \in Threads |-> Junk]
  /\ data = [s \in Slots |-> Junk] /\ pipe_size = 0 /\ first = 1 /\ last = 1
  /\ enabled = TRUE /\ enqueue_enabled = TRUE /\ dequeue_enabled = TRUE
  /\ dequeue_waiters = 0 /\ enqueue_waiters = 0 /\ unblock_sig_waiters = 0
  /\ destroyed = FALSE /\ calls = 0

-----------------------------------------------------------------------------
(* The monitor *)

Woken(S) == [t \in Threads |-> IF asleep[t] \in S THEN "awake" ELSE asleep[t]]

Broadcast(S) == asleep' = Woken(S)

Signal(sig) ==
  LET sleepers == {t \in Threads : asleep[t] = sig}
  IN  IF sleepers = {} THEN UNCHANGED asleep
      ELSE \E t \in sleepers : asleep' = [asleep EXCEPT ![t] = "awake"]

When(c, S) == IF c THEN S ELSE {}

(* Those that wait in enqueue() and wait_until_empty(), if there are any.   *)
WakeEnqueuers == When(enqueue_waiters > 0, {"enqueue_sig"})

(* The destructor, or another call that waits with it.                      *)
TellNobody == {}  \* mutant: the destructor is not told
TellDestructor == When(~enabled, {"unblock_sig"})

(* The first step of a call: auto_mutex M(m).  Nobody calls a method of an  *)
(* object under destruction.                                                *)
Call(t, o) ==
  /\ o \in Ops /\ calls < MaxCalls /\ calls' = calls + 1
  /\ m = "free" /\ op[t] = "none" /\ ~destroyed
  /\ \A u \in Threads : op[u] # "destroy"

Enter(t, o, l, k) ==
  /\ Call(t, o)
  /\ m' = t
  /\ op' = [op EXCEPT ![t] = o] /\ limit' = [limit EXCEPT ![t] = l]
  /\ expired' = [expired EXCEPT ![t] = FALSE] /\ num' = [num EXCEPT ![t] = k]
  /\ UNCHANGED <<ring, destroyed>>

Holds(t, o) == m = t /\ op[t] = o

Return(t) ==
  /\ m' = "free"
  /\ op' = [op EXCEPT ![t] = "none"]
  /\ UNCHANGED <<limit, expired, num, flags, destroyed, calls>>

Sleep(t, sig) ==
  /\ m' = "free"
  /\ asleep' = [asleep EXCEPT ![t] = sig]
  /\ UNCHANGED <<thread, item, ring, flags, waiters, destroyed, calls>>

(* A woken thread returns from signaler::wait() with m locked.              *)
Resume(t) ==
  /\ m = "free" /\ op[t] # "none" /\ asleep[t] = "awake"
  /\ m' = t
  /\ UNCHANGED <<thread, asleep, item, ring, flags, waiters, destroyed, calls>>

(* wait_or_timeout() returns false; only the loops of the timed calls wait  *)
(* with a limit.                                                            *)
TimeOut(t) ==
  /\ op[t] \in {"enqueue", "dequeue"} /\ limit[t] = "later" /\ asleep[t] # "awake"
  /\ asleep' = [asleep EXCEPT ![t] = "awake"]
  /\ expired' = [expired EXCEPT ![t] = TRUE]
  /\ UNCHANGED <<m, op, limit, num, item, ring, flags, waiters, destroyed, calls>>

-----------------------------------------------------------------------------
(* enqueue and enqueue_or_timeout *)

Enqueue(t, l) ==
  /\ Enter(t, "enqueue", l, 0)
  /\ item' = [item EXCEPT ![t] = t]
  /\ enqueue_waiters' = enqueue_waiters + 1
  /\ UNCHANGED <<asleep, flags, dequeue_waiters, unblock_sig_waiters>>

MayMeetAnyway(t) == max_size = 0 /\ (limit[t] # "never" => dequeue_waiters > 0)  \* mutant
MayMeet(t) == max_size = 0 /\ first = 1 /\ (limit[t] # "never" => dequeue_waiters > 0)
EnqueueBlockedLate(t) == pipe_size > max_size /\ enabled /\ enqueue_enabled  \* mutant: one item too many
EnqueueBlocked(t) == pipe_size = max_size /\ enabled /\ enqueue_enabled /\ ~MayMeet(t)
GivenUp(t) == expired[t] \/ limit[t] = "now"

EnqueueWait(t) ==
  /\ Holds(t, "enqueue")
  /\ EnqueueBlocked(t) /\ ~GivenUp(t)
  /\ Sleep(t, "enqueue_sig")

EnqueueRefused(t) ==
  /\ Holds(t, "enqueue")
  /\ ~enabled \/ ~enqueue_enabled \/ expired[t] \/ (EnqueueBlocked(t) /\ limit[t] = "now")
  /\ enqueue_waiters' = enqueue_waiters - 1
  /\ Broadcast({"unblock_sig"})
  /\ Return(t)
  /\ UNCHANGED <<item, ring, dequeue_waiters, unblock_sig_waiters>>

(* exchange(item, data[last]), behind the last item or at 0 if there is none*)
Exchange(t, s) ==
  /\ data' = [data EXCEPT ![s] = item[t]]
  /\ item' = [item EXCEPT ![t] = data[s]]

NextSlot == IF pipe_size = 0 THEN 0 ELSE (last + 1) % max_size

AnnounceFirst ==  \* mutant: only the item that ends emptiness
  IF dequeue_waiters > 0 /\ pipe_size = 0 THEN Signal("dequeue_sig") ELSE UNCHANGED asleep
AnnounceWrongly == Signal("enqueue_sig")  \* mutant: to the enqueuers
Announce == IF dequeue_waiters > 0 THEN Signal("dequeue_sig") ELSE UNCHANGED asleep

PutIn(t) ==
  /\ Holds(t, "enqueue")
  /\ enabled /\ enqueue_enabled /\ ~EnqueueBlocked(t) /\ ~expired[t]
  /\ last' = NextSlot /\ Exchange(t, NextSlot)
  /\ first' = IF pipe_size = 0 THEN 0 ELSE first
  /\ Announce

EnqueueDone(t) ==
  /\ max_size > 0
  /\ PutIn(t)
  /\ pipe_size' = pipe_size + 1
  /\ enqueue_waiters' = enqueue_waiters - 1
  /\ Return(t)
  /\ UNCHANGED <<dequeue_waiters, unblock_sig_waiters>>

(* With maximum size 0 the thread stays until its item is taken.            *)
Offer(t) ==
  /\ max_size = 0
  /\ PutIn(t)
  /\ op' = [op EXCEPT ![t] = "offering"]
  /\ UNCHANGED <<m, limit, expired, num, pipe_size, flags, waiters, destroyed, calls>>

OfferWait(t) ==
  /\ Holds(t, "offering")
  /\ last = 0 /\ enabled /\ enqueue_enabled
  /\ Sleep(t, "enqueue_sig")

EndOffer(t) ==
  /\ first' = 1 /\ last' = 1
  /\ enqueue_waiters' = enqueue_waiters - 1
  /\ Return(t)
  /\ UNCHANGED <<pipe_size, dequeue_waiters, unblock_sig_waiters>>

OfferWithdrawn(t) ==
  /\ Holds(t, "offering")
  /\ last = 0 /\ ~(enabled /\ enqueue_enabled)
  /\ Exchange(t, 0)
  /\ Broadcast(When(unblock_sig_waiters > 0, {"unblock_sig"}))
  /\ EndOffer(t)

OfferTaken(t) ==
  /\ Holds(t, "offering")
  /\ last # 0
  /\ Broadcast(When(enqueue_waiters > 1, {"enqueue_sig"})
                 \cup When(~enabled /\ unblock_sig_waiters > 0, {"unblock_sig"}))
  /\ EndOffer(t)
  /\ UNCHANGED <<item, data>>

-----------------------------------------------------------------------------
(* dequeue and dequeue_or_timeout *)

Dequeue(t, l) ==
  /\ Enter(t, "dequeue", l, 0)
  /\ dequeue_waiters' = dequeue_waiters + 1
  /\ Broadcast(When(pipe_size = 0, When(unblock_sig_waiters > 0, {"unblock_sig"})
                                     \cup WakeEnqueuers))
  /\ UNCHANGED <<item, flags, enqueue_waiters, unblock_sig_waiters>>

DequeueBlocked ==
  pipe_size = 0 /\ enabled /\ dequeue_enabled /\ ~(max_size = 0 /\ first = 0 /\ last = 0)

DequeueWait(t) ==
  /\ Holds(t, "dequeue")
  /\ DequeueBlocked /\ ~GivenUp(t)
  /\ Sleep(t, "dequeue_sig")

DequeueRefused(t) ==
  /\ Holds(t, "dequeue")
  /\ ~enabled \/ ~dequeue_enabled \/ expired[t] \/ (DequeueBlocked /\ limit[t] = "now")
  /\ dequeue_waiters' = dequeue_waiters - 1
  /\ Broadcast({"unblock_sig"})
  /\ Return(t)
  /\ UNCHANGED <<item, ring, enqueue_waiters, unblock_sig_waiters>>

DequeueDone(t) ==
  /\ Holds(t, "dequeue")
  /\ enabled /\ dequeue_enabled /\ ~DequeueBlocked /\ ~expired[t]
  /\ Exchange(t, first)
  /\ \/ /\ max_size > 0
        /\ first' = (first + 1) % max_size /\ pipe_size' = pipe_size - 1
        /\ UNCHANGED last
     \/ /\ max_size = 0
        /\ last' = 1
        /\ UNCHANGED <<first, pipe_size>>
  /\ Broadcast(WakeEnqueuers)
  /\ dequeue_waiters' = dequeue_waiters - 1
  /\ Return(t)
  /\ UNCHANGED <<enqueue_waiters, unblock_sig_waiters>>

-----------------------------------------------------------------------------
(* wait_until_empty *)

UntilEmpty(t) ==
  /\ Enter(t, "until_empty", "never", 0)
  /\ enqueue_waiters' = enqueue_waiters + 1
  /\ UNCHANGED <<asleep, item, flags, dequeue_waiters, unblock_sig_waiters>>

UntilEmptyBlocked == pipe_size > 0 /\ enabled /\ dequeue_enabled

UntilEmptyWait(t) ==
  /\ Holds(t, "until_empty")
  /\ UntilEmptyBlocked
  /\ Sleep(t, "enqueue_sig")

UntilEmptyDone(t) ==
  /\ Holds(t, "until_empty")
  /\ ~UntilEmptyBlocked
  /\ Broadcast(TellDestructor)
  /\ enqueue_waiters' = enqueue_waiters - 1
  /\ Return(t)
  /\ UNCHANGED <<item, ring, dequeue_waiters, unblock_sig_waiters>>

(* wait_for_num_blocked_dequeues *)

NumBlocked(t, k) ==
  /\ Enter(t, "num_blocked", "never", k)
  /\ unblock_sig_waiters' = unblock_sig_waiters + 1
  /\ UNCHANGED <<asleep, item, flags, dequeue_waiters, enqueue_waiters>>

NumBlockedBlocked(t) == (dequeue_waiters < num[t] \/ pipe_size # 0) /\ enabled /\ dequeue_enabled

NumBlockedWait(t) ==
  /\ Holds(t, "num_blocked")
  /\ NumBlockedBlocked(t)
  /\ Sleep(t, "unblock_sig")

NumBlockedDone(t) ==
  /\ Holds(t, "num_blocked")
  /\ ~NumBlockedBlocked(t)
  /\ Broadcast(TellDestructor)
  /\ unblock_sig_waiters' = unblock_sig_waiters - 1
  /\ Return(t)
  /\ UNCHANGED <<item, ring, dequeue_waiters, enqueue_waiters>>

-----------------------------------------------------------------------------
(* The calls that never sleep: one step, m locked and unlocked in it.       *)

Brief(t, o) == Call(t, o) /\ UNCHANGED <<m, thread, item, waiters, destroyed>>

Empty(t) ==
  /\ Brief(t, "empty")
  /\ pipe_size' = 0
  /\ Broadcast(WakeEnqueuers)
  /\ UNCHANGED <<data, first, last, flags>>

Enable(t) ==
  /\ Brief(t, "enable")
  /\ enabled' = TRUE
  /\ UNCHANGED <<asleep, ring, enqueue_enabled, dequeue_enabled>>

Disable(t) ==
  /\ Brief(t, "disable")
  /\ enabled' = FALSE
  /\ Broadcast(Signalers)
  /\ UNCHANGED <<ring, enqueue_enabled, dequeue_enabled>>

EnableEnqueue(t) ==
  /\ Brief(t, "enable_enqueue")
  /\ enqueue_enabled' = TRUE
  /\ UNCHANGED <<asleep, ring, enabled, dequeue_enabled>>

DisableEnqueue(t) ==
  /\ Brief(t, "disable_enqueue")
  /\ enqueue_enabled' = FALSE
  /\ Broadcast({"enqueue_sig"})
  /\ UNCHANGED <<ring, enabled, dequeue_enabled>>

EnableDequeue(t) ==
  /\ Brief(t, "enable_dequeue")
  /\ dequeue_enabled' = TRUE
  /\ UNCHANGED <<asleep, ring, enabled, enqueue_enabled>>

DisableDequeue(t) ==
  /\ Brief(t, "disable_dequeue")
  /\ dequeue_enabled' = FALSE
  /\ Broadcast({"dequeue_sig"})
  /\ UNCHANGED <<ring, enabled, enqueue_enabled>>

-----------------------------------------------------------------------------
(* ~pipe *)

Destroy(t) ==
  /\ Enter(t, "destroy", "never", 0)
  /\ unblock_sig_waiters' = unblock_sig_waiters + 1
  /\ enabled' = FALSE
  /\ Broadcast(Signalers)
  /\ UNCHANGED <<item, enqueue_enabled, dequeue_enabled, dequeue_waiters, enqueue_waiters>>

InUse == dequeue_waiters > 0 \/ enqueue_waiters > 0 \/ unblock_sig_waiters > 1

DestroyWait(t) == Holds(t, "destroy") /\ InUse /\ Sleep(t, "unblock_sig")

Destroyed(t) ==
  /\ Holds(t, "destroy") /\ ~InUse
  /\ destroyed' = TRUE
  /\ unblock_sig_waiters' = unblock_sig_waiters - 1
  /\ m' = "free" /\ op' = [op EXCEPT ![t] = "none"]
  /\ UNCHANGED <<limit, expired, num, asleep, item, ring, flags, dequeue_waiters, enqueue_waiters, calls>>

-----------------------------------------------------------------------------
(* What a thread does inside a call, and what it may call.                  *)
Proceed(t) ==
  \/ Resume(t)
  \/ EnqueueWait(t) \/ EnqueueRefused(t) \/ EnqueueDone(t)
  \/ Offer(t) \/ OfferWait(t) \/ OfferWithdrawn(t) \/ OfferTaken(t)
  \/ DequeueWait(t) \/ DequeueRefused(t) \/ DequeueDone(t)
  \/ UntilEmptyWait(t) \/ UntilEmptyDone(t)
  \/ NumBlockedWait(t) \/ NumBlockedDone(t)
  \/ DestroyWait(t) \/ Destroyed(t)

Limits == {"never"} \cup (IF "timeouts" \in Ops THEN {"now", "later"} ELSE {})

Begin(t) ==
  \/ \E l \in Limits : Enqueue(t, l) \/ Dequeue(t, l)
  \/ UntilEmpty(t)
  \/ \E k \in Nums : NumBlocked(t, k)
  \/ Empty(t) \/ Enable(t) \/ Disable(t)
  \/ EnableEnqueue(t) \/ DisableEnqueue(t) \/ EnableDequeue(t) \/ DisableDequeue(t)
  \/ Destroy(t)

PipeNext == \E t \in Threads : Proceed(t) \/ TimeOut(t) \/ Begin(t)

(* A thread inside a call goes on whenever it can, and the mutex is not kept*)
(* from a woken thread for ever although others come and go; a timeout      *)
(* passes.  No thread has to call anything.                                 *)
PipeFairness == \A t \in Threads : SF_pipeVars(Proceed(t)) /\ WF_pipeVars(TimeOut(t))

PipeSpec == PipeInit /\ [][PipeNext]_pipeVars /\ PipeFairness

-----------------------------------------------------------------------------
(* Properties *)

Methods == {"enqueue", "offering", "dequeue", "until_empty", "num_blocked", "destroy"}

PipeTypeOK ==
  /\ m \in Threads \cup {"free"}
  /\ op \in [Threads -> Methods \cup {"none"}]
  /\ limit \in [Threads -> {"never", "now", "later"}]
  /\ expired \in [Threads -> BOOLEAN] /\ num \in [Threads -> Nums \cup {0}]
  /\ asleep \in [Threads -> Signalers \cup {"awake"}]
  /\ item \in [Threads -> Threads \cup {Junk}] /\ data \in [Slots -> Threads \cup {Junk}]
  /\ pipe_size \in 0..max_size /\ first \in Slots \cup {1} /\ last \in Slots \cup {1}
  /\ enabled \in BOOLEAN /\ enqueue_enabled \in BOOLEAN /\ dequeue_enabled \in BOOLEAN
  /\ dequeue_waiters \in Nat /\ enqueue_waiters \in Nat /\ unblock_sig_waiters \in Nat
  /\ destroyed \in BOOLEAN /\ calls \in Nat

(* The three counters, which decide whom a call wakes and how long the      *)
(* destructor waits, are the numbers of threads inside the calls the        *)
(* CONVENTION names (pipe_kernel_1.h:38-43), whichever way those calls end. *)
Within(ops) == {t \in Threads : op[t] \in ops}
CountersExact ==
  /\ dequeue_waiters = Cardinality(Within({"dequeue"}))
  /\ enqueue_waiters = Cardinality(Within({"enqueue", "offering", "until_empty"}))
  /\ unblock_sig_waiters = Cardinality(Within({"num_blocked", "destroy"}))

(* data[first] is the next item to dequeue and data[last] the last one, all *)
(* around the end of the array, also after the pipe ran empty and started   *)
(* at 0 again; with maximum size 0 an item is offered by one thread only.   *)
RingExact ==
  /\ pipe_size > 0 => last = (first + pipe_size - 1) % max_size
  /\ \A t, u \in Within({"offering"}) : t = u
  /\ Within({"offering"}) # {} <=> (max_size = 0 /\ first = 0)

(* The items the pipe holds, the oldest first.                              *)
Queue ==
  IF max_size > 0 THEN [k \in 1..pipe_size |-> data[(first + k - 1) % max_size]]
  ELSE IF first = 0 /\ last = 0 THEN <<data[0]>> ELSE <<>>

(* The pipe implements the queue its interface promises: items come out in  *)
(* the order they went in, none is lost, doubled or overwritten, the maximum*)
(* is kept, and a call that fails leaves pipe and item as they were.        *)
Promise == INSTANCE Channel WITH queue <- Queue
ImplementsChannel == Promise!ChannelSpec

(* No wakeup is lost.  While the mutex is free, as many dequeuers are on    *)
(* their way as there are items, or all are: enqueue() signals one only.    *)
Sleepers(ops) == {t \in Within(ops) : asleep[t] # "awake"}
OnTheirWay(ops) == {t \in Within(ops) : asleep[t] = "awake" /\ ~expired[t]}
ItemsFetched ==
  (m = "free" /\ Sleepers({"dequeue"}) # {}) =>
    /\ enabled /\ dequeue_enabled
    /\ Len(Queue) <= Cardinality(OnTheirWay({"dequeue"}))

(* And while it is free no enqueuer sleeps that could go on, before it has  *)
(* put its item in or, with maximum size 0, after somebody took it.         *)
EnqueuersServed ==
  m = "free" =>
    /\ \A t \in Sleepers({"enqueue"}) : EnqueueBlocked(t)
    /\ \A t \in Sleepers({"offering"}) : last = 0 /\ enabled /\ enqueue_enabled

(* ~pipe deletes the array only when no thread is inside a call any more.   *)
DestroyedAlone == destroyed => \A t \in Threads : op[t] = "none"

(* The destructor always finishes: every thread it waits for wakes up, goes *)
(* and tells it.                                                            *)
DestructorFinishes == (\E t \in Threads : op[t] = "destroy") ~> destroyed

(* disable() makes every call return, unless somebody enables again.        *)
DisableReleases == ~enabled ~> enabled \/ \A t \in Threads : op[t] = "none"

(* pipe_kernel_abstract.h:227-235 "this call to enqueue_or_timeout() blocks *)
(* until ... timeout milliseconds passes": a call with a timeout returns.   *)
TimedCallReturns ==
  \A t \in Threads :
    (op[t] # "none" /\ limit[t] # "never") ~> (op[t] = "none" \/ limit[t] = "never")

(* The pipe's CONVENTION altogether, whenever its mutex is free: counters   *)
(* and ring tell the truth, nobody sleeps on over a wakeup that was spent on*)
(* somebody else, and nobody is inside what is destroyed.                   *)
PipeSound ==
  /\ PipeTypeOK /\ CountersExact /\ RingExact
  /\ ItemsFetched /\ EnqueuersServed /\ DestroyedAlone

(* Whatever ends a call does end it: the destructor, disable(), a timeout.  *)
EverybodyLetGo == DestructorFinishes /\ DisableReleases /\ TimedCallReturns
=============================================================================
