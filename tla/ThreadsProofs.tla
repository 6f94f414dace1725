--------------------------- MODULE ThreadsProofs ----------------------------
(***************************************************************************)
(* dlib's read_write_mutex and thread_pool.  The classes share no state.   *)
(*                                                                         *)
(* First the mutex: exclusion, conservation of the locks and wakeups, for  *)
(* any number of threads and of locks, without calls of unlock_readonly()  *)
(* that have no lock to give back.                                         *)
(*                                                                         *)
(* Then the pool: it loses no task, runs none twice, gives no id twice and *)
(* forgets no sleeper, for any number of worker threads, users and tasks.  *)
(* The inductive invariant has two halves.  TaskInv is about the tasks: the*)
(* slots, the history of tasks made and the stacks they run on agree.      *)
(* ThreadInv is about the threads: what a thread does in its place, and how*)
(* the pool ends.                                                          *)
(***************************************************************************)
EXTENDS ReadWriteMutex, ThreadPool, FiniteSetTheorems, SequenceTheorems, WellFoundedInduction, TLAPS

Stages == {"out", "turn", "collect", "read", "writing", "reading"}

Readers == Cardinality(In("reading"))

(* Collected locks are counted from 0, and a writer leaves none to collect. *)
Collected ==
  \A t \in In("collect") :
    /\ locks_obtained[t] \in 0..(max_locks - 1)
    /\ write_lock_active => locks_obtained[t] = 0

(* Only a thread in a call sleeps.                                         *)
AsleepInCall == \A t \in blocked : stage[t] \in {"turn", "collect", "read"}

RWInv ==
  /\ RWTypeOK
  /\ LocksConserved
  /\ Collected
  /\ AsleepInCall
  /\ NobodyOverslept

-----------------------------------------------------------------------------

(* The threads at a place after one thread moved.                          *)
LEMMA InAfter ==
  ASSUME RWTypeOK, NEW t \in Lockers, NEW place \in Stages, MoveTo(t, place)
  PROVE  /\ stage' \in [Lockers -> Stages]
         /\ \A u \in Lockers : stage'[u] = IF u = t THEN place ELSE stage[u]
         /\ \A x : In(x)' = IF x = place THEN In(x) \cup {t} ELSE In(x) \ {t}
<1>1. /\ stage' \in [Lockers -> Stages]
      /\ \A u \in Lockers : stage'[u] = IF u = t THEN place ELSE stage[u]
  BY DEF RWTypeOK, MoveTo, Stages
<1>2. ASSUME NEW x
      PROVE  In(x)' = IF x = place THEN In(x) \cup {t} ELSE In(x) \ {t}
  BY <1>1, SMT DEF In
<1> QED BY <1>1, <1>2

(* The readers are finitely many.                                          *)
LEMMA ReadersFinite ==
  /\ IsFiniteSet(In("reading"))
  /\ Readers \in Nat
  /\ Readers = 0 <=> In("reading") = {}
<1>1. IsFiniteSet(In("reading"))
  BY BoundsAssumption, FS_Subset DEF In
<1> QED BY <1>1, FS_CardinalityType, FS_EmptySet DEF Readers

(* Their number after one thread moved.                                    *)
LEMMA ReadersAfter ==
  ASSUME RWTypeOK, NEW t \in Lockers, NEW place \in Stages, MoveTo(t, place)
  PROVE  Readers' = IF place = "reading"
                    THEN IF stage[t] = "reading" THEN Readers ELSE Readers + 1
                    ELSE IF stage[t] = "reading" THEN Readers - 1 ELSE Readers
<1>1. In("reading")' = IF place = "reading" THEN In("reading") \cup {t} ELSE In("reading") \ {t}
  BY InAfter
<1>2. t \in In("reading") <=> stage[t] = "reading"
  BY DEF In
<1>3. IsFiniteSet(In("reading"))
  BY ReadersFinite
<1>4. CASE place = "reading"
  BY <1>1, <1>2, <1>3, <1>4, FS_AddElement DEF Readers
<1>5. CASE place # "reading"
  BY <1>1, <1>2, <1>3, <1>5, FS_RemoveElement DEF Readers
<1> QED BY <1>4, <1>5

LEMMA RWInitInv == RWInit => RWInv
<1> SUFFICES ASSUME RWInit PROVE RWInv
  OBVIOUS
<1>1. \A x : x # "out" => In(x) = {}
  BY DEF RWInit, In
<1>2. Readers = 0
  BY <1>1, FS_EmptySet DEF Readers
<1>3. RWTypeOK
  <2>1. write_lock_in_progress \in BOOLEAN /\ write_lock_active \in BOOLEAN
    BY Zenon DEF RWInit
  <2> QED BY <2>1, LocksAssumption, BoundsAssumption DEF RWInit, RWTypeOK
<1>4. ~write_lock_in_progress /\ ~write_lock_active
  BY Zenon DEF RWInit
<1>5. available_locks + Readers = max_locks
  BY <1>2, LocksAssumption DEF RWInit
<1>6. LocksConserved
  <2>1. In("collect") = {} /\ In("writing") = {} /\ In("reading") = {}
    BY <1>1
  <2> QED BY <2>1, <1>4, <1>5, Zenon DEF LocksConserved, Readers
<1>7. Collected /\ AsleepInCall /\ NobodyOverslept
  BY <1>1 DEF RWInit, Collected, AsleepInCall, NobodyOverslept
<1> QED BY <1>3, <1>6, <1>7 DEF RWInv

-----------------------------------------------------------------------------
(* A thread goes to sleep: nothing but its place changes.                  *)
LEMMA SleepInv ==
  ASSUME RWInv, NEW t \in Lockers, NEW place \in {"turn", "read"},
         stage[t] \in {"out", place},
         place = "turn" => write_lock_in_progress,
         place = "read" => available_locks = 0,
         WaitAt(t, place),
         UNCHANGED <<locks_obtained, available_locks, write_lock_in_progress, write_lock_active>>
  PROVE  RWInv'
<1> USE DEF RWInv
<1>1. /\ stage' \in [Lockers -> Stages]
      /\ \A u \in Lockers : stage'[u] = IF u = t THEN place ELSE stage[u]
      /\ \A x : In(x)' = IF x = place THEN In(x) \cup {t} ELSE In(x) \ {t}
  BY InAfter DEF WaitAt, Stages
<1>2. Readers' = Readers
  BY ReadersAfter DEF WaitAt, Stages
<1>3. \A x \in {"collect", "writing", "reading"} : In(x)' = In(x)
  BY <1>1 DEF In
<1>4. blocked' = blocked \cup {t}
  BY DEF WaitAt
<1>5. RWTypeOK'
  BY <1>1, <1>4 DEF RWTypeOK, Stages
<1>6. LocksConserved' /\ Collected'
  BY <1>2, <1>3 DEF LocksConserved, Collected, Readers
<1>7. AsleepInCall' /\ NobodyOverslept'
  BY <1>1, <1>4 DEF AsleepInCall, NobodyOverslept, RWTypeOK
<1> QED BY <1>5, <1>6, <1>7

(* A writer collects: it takes what is free beside what it has.            *)
LEMMA CollectInv ==
  ASSUME RWInv, NEW t \in Lockers, NEW obtained,
         t \notin blocked,
         \/ stage[t] \in {"out", "turn"} /\ ~write_lock_in_progress /\ obtained = available_locks
         \/ stage[t] = "collect" /\ obtained = locks_obtained[t] + available_locks,
         Collect(t, obtained)
  PROVE  RWInv'
<1> USE DEF RWInv
<1>1. /\ locks_obtained' = [locks_obtained EXCEPT ![t] = obtained]
      /\ available_locks' = 0
  BY DEF Collect
<1>2. \A u \in In("collect") : u = t
  BY DEF LocksConserved, In
<1>3. In("reading") = {} <=> Readers = 0
  BY ReadersFinite
<1>4. Readers \in Nat /\ available_locks \in 0..max_locks /\ max_locks \in Nat \ {0}
  BY ReadersFinite, LocksAssumption DEF RWTypeOK
<1>5. /\ obtained \in 0..max_locks
      /\ ~write_lock_active => obtained + Readers = max_locks
      /\ write_lock_active => obtained = 0 /\ In("writing") # {}
  <2>1. CASE stage[t] \in {"out", "turn"} /\ ~write_lock_in_progress /\ obtained = available_locks
    BY <2>1, <1>4 DEF LocksConserved, RWTypeOK, Readers
  <2>2. CASE stage[t] = "collect" /\ obtained = locks_obtained[t] + available_locks
    <3>1. t \in In("collect")
      BY <2>2 DEF In
    <3> QED BY <2>2, <3>1, <1>4 DEF LocksConserved, Collected, RWTypeOK, Readers
  <2> QED BY <2>1, <2>2
<1>6. stage[t] \notin {"writing", "reading"}
  OBVIOUS
<1>7. CASE obtained = max_locks
  <2>1. ~write_lock_active /\ In("reading") = {} /\ In("writing") = {}
    BY <1>3, <1>4, <1>5, <1>7 DEF LocksConserved
  <2>2. MoveTo(t, "writing") /\ write_lock_in_progress' = FALSE /\ write_lock_active' = TRUE /\ blocked' = blocked
    BY <1>7 DEF Collect
  <2>3. /\ stage' \in [Lockers -> Stages]
        /\ \A u \in Lockers : stage'[u] = IF u = t THEN "writing" ELSE stage[u]
        /\ \A x : In(x)' = IF x = "writing" THEN In(x) \cup {t} ELSE In(x) \ {t}
    BY <2>2, InAfter DEF Stages
  <2>4. In("collect")' = {} /\ In("reading")' = {} /\ In("writing")' = {t}
    BY <1>2, <2>1, <2>3
  <2>5. RWTypeOK'
    <3>1. write_lock_in_progress' \in BOOLEAN /\ write_lock_active' \in BOOLEAN
      BY <2>2, Zenon
    <3>2. locks_obtained' \in [Lockers -> Int]
      BY <1>1, <1>4, <1>5 DEF RWTypeOK
    <3> QED BY <1>1, <1>4, <2>2, <2>3, <3>1, <3>2 DEF RWTypeOK, Stages
  <2>6. LocksConserved' /\ Collected'
    BY <1>1, <2>2, <2>4 DEF LocksConserved, Collected
  <2>7. AsleepInCall' /\ NobodyOverslept'
    <3>1. write_lock_active'
      BY <2>2, Zenon
    <3> QED BY <1>1, <2>2, <2>3, <3>1 DEF AsleepInCall, NobodyOverslept, RWTypeOK
  <2> QED BY <2>5, <2>6, <2>7
<1>8. CASE obtained # max_locks
  <2>1. WaitAt(t, "collect") /\ write_lock_in_progress' = TRUE /\ write_lock_active' = write_lock_active
    BY <1>8 DEF Collect
  <2>2. /\ stage' \in [Lockers -> Stages]
        /\ \A u \in Lockers : stage'[u] = IF u = t THEN "collect" ELSE stage[u]
        /\ \A x : In(x)' = IF x = "collect" THEN In(x) \cup {t} ELSE In(x) \ {t}
    BY <2>1, InAfter DEF Stages, WaitAt
  <2>3. /\ In("collect")' = {t}
        /\ In("reading")' = In("reading") /\ In("writing")' = In("writing")
    BY <1>2, <1>6, <2>2 DEF In
  <2>4. locks_obtained'[t] = obtained
    BY <1>1 DEF RWTypeOK
  <2>5. blocked' = blocked \cup {t}
    BY <2>1 DEF WaitAt
  <2>6. RWTypeOK'
    <3>1. write_lock_in_progress' \in BOOLEAN /\ write_lock_active' \in BOOLEAN
      BY <2>1, Zenon DEF RWTypeOK
    <3>2. locks_obtained' \in [Lockers -> Int]
      BY <1>1, <1>4, <1>5 DEF RWTypeOK
    <3> QED BY <1>1, <1>4, <2>2, <2>5, <3>1, <3>2 DEF RWTypeOK, Stages
  <2>7. Readers' = Readers
    BY <2>3 DEF Readers
  <2>8. LocksConserved'
    BY <1>1, <1>4, <1>5, <2>1, <2>3, <2>4, <2>7 DEF LocksConserved, Readers
  <2>9. Collected'
    BY <1>4, <1>5, <1>8, <2>1, <2>3, <2>4 DEF Collected
  <2>10. AsleepInCall' /\ NobodyOverslept'
    BY <1>1, <2>1, <2>2, <2>5 DEF AsleepInCall, NobodyOverslept, RWTypeOK
  <2> QED BY <2>6, <2>8, <2>9, <2>10
<1> QED BY <1>7, <1>8

(* The writer gives all locks back and wakes everybody.                    *)
LEMMA UnlockInv ==
  ASSUME RWInv, NEW t \in Lockers, Unlock(t)
  PROVE  RWInv'
<1> USE DEF RWInv
<1>1. t \in In("writing")
  BY DEF Unlock, In
<1>2. write_lock_active /\ In("writing") = {t} /\ In("reading") = {}
  BY <1>1 DEF LocksConserved
<1>3. /\ MoveTo(t, "out") /\ available_locks' = max_locks /\ write_lock_active' = FALSE /\ blocked' = {}
      /\ UNCHANGED <<locks_obtained, write_lock_in_progress>>
  BY <1>2 DEF Unlock
<1>4. /\ stage' \in [Lockers -> Stages]
      /\ \A x : In(x)' = IF x = "out" THEN In(x) \cup {t} ELSE In(x) \ {t}
  BY <1>3, InAfter DEF Stages
<1>5. In("collect")' = In("collect") /\ In("reading")' = {} /\ In("writing")' = {}
  BY <1>1, <1>2, <1>4 DEF In
<1>6. Readers' = 0
  BY <1>5, FS_EmptySet DEF Readers
<1>7. RWTypeOK'
  <2>1. write_lock_in_progress' \in BOOLEAN /\ write_lock_active' \in BOOLEAN
    BY <1>3, Zenon DEF RWTypeOK
  <2> QED BY <1>3, <1>4, <2>1, LocksAssumption DEF RWTypeOK, Stages
<1>8. LocksConserved'
  BY <1>2, <1>3, <1>5, <1>6, LocksAssumption DEF LocksConserved, Collected, Readers
<1>9. Collected'
  BY <1>3, <1>5 DEF Collected
<1>10. AsleepInCall' /\ NobodyOverslept'
  BY <1>3 DEF AsleepInCall, NobodyOverslept
<1> QED BY <1>7, <1>8, <1>9, <1>10

(* A reader takes a lock; with one there, no reader and no writer sleeps.  *)
LEMMA LockReadonlyInv ==
  ASSUME RWInv, NEW t \in Lockers, LockReadonly(t)
  PROVE  RWInv'
<1> USE DEF RWInv
<1>1. /\ stage[t] \in {"out", "read"} /\ available_locks # 0
      /\ available_locks' = available_locks - 1 /\ MoveTo(t, "reading")
      /\ UNCHANGED <<blocked, locks_obtained, write_lock_in_progress, write_lock_active>>
  BY DEF LockReadonly, Enters
<1>2. ~write_lock_active /\ In("writing") = {}
  BY <1>1 DEF LocksConserved
<1>3. /\ stage' \in [Lockers -> Stages]
      /\ \A u \in Lockers : stage'[u] = IF u = t THEN "reading" ELSE stage[u]
      /\ \A x : In(x)' = IF x = "reading" THEN In(x) \cup {t} ELSE In(x) \ {t}
  BY <1>1, InAfter DEF Stages
<1>4. Readers' = Readers + 1 /\ Readers \in Nat
  BY <1>1, ReadersAfter, ReadersFinite DEF Stages
<1>5. In("collect")' = In("collect") /\ In("writing")' = {}
  BY <1>1, <1>2, <1>3 DEF In
<1>6. RWTypeOK'
  BY <1>1, <1>3, LocksAssumption DEF RWTypeOK, Stages
<1>7. LocksConserved'
  <2>1. \A u \in In("collect") : locks_obtained[u] + available_locks' + Readers' = max_locks
    BY <1>1, <1>2, <1>4 DEF LocksConserved, Readers, RWTypeOK, In
  <2>2. In("collect") = {} => available_locks' + Readers' = max_locks
    BY <1>1, <1>2, <1>4 DEF LocksConserved, Readers, RWTypeOK
  <2> QED BY <1>1, <1>2, <1>5, <2>1, <2>2, Zenon DEF LocksConserved, Readers
<1>8. Collected'
  BY <1>1, <1>5 DEF Collected
<1>9. AsleepInCall' /\ NobodyOverslept'
  <2>1. t \notin blocked
    BY <1>1 DEF NobodyOverslept, AsleepInCall
  <2> QED BY <1>1, <1>2, <1>3, <2>1 DEF AsleepInCall, NobodyOverslept, RWTypeOK
<1> QED BY <1>6, <1>7, <1>8, <1>9

(* A reader gives its lock back.  It wakes everybody when nobody could go  *)
(* on for want of a lock.                                                  *)
LEMMA UnlockReadonlyInv ==
  ASSUME RWInv, NEW t \in Lockers, UnlockReadonly(t)
  PROVE  RWInv'
<1> USE DEF RWInv
<1>1. /\ stage[t] = "reading" /\ Release /\ MoveTo(t, "out")
      /\ UNCHANGED <<locks_obtained, write_lock_in_progress, write_lock_active>>
  BY DEF UnlockReadonly
<1>2. t \in In("reading")
  BY <1>1 DEF In
<1>3. ~write_lock_active /\ In("writing") = {}
  BY <1>2 DEF LocksConserved
<1>4. Readers \in Nat \ {0}
  BY <1>2, ReadersFinite
<1>5. available_locks < max_locks
  BY <1>3, <1>4, LocksAssumption DEF LocksConserved, Collected, RWTypeOK, Readers, In
<1>6. /\ available_locks' = available_locks + 1
      /\ blocked' = IF available_locks + 1 = 1 \/ write_lock_in_progress THEN {} ELSE blocked
  BY <1>1, <1>3, <1>5 DEF Release, RWTypeOK
<1>7. /\ stage' \in [Lockers -> Stages]
      /\ \A u \in Lockers : stage'[u] = IF u = t THEN "out" ELSE stage[u]
      /\ \A x : In(x)' = IF x = "out" THEN In(x) \cup {t} ELSE In(x) \ {t}
  BY <1>1, InAfter DEF Stages
<1>8. Readers' = Readers - 1
  BY <1>1, ReadersAfter DEF Stages
<1>9. In("collect")' = In("collect") /\ In("writing")' = {}
  BY <1>1, <1>3, <1>7 DEF In
<1>10. RWTypeOK'
  BY <1>1, <1>5, <1>6, <1>7, LocksAssumption DEF RWTypeOK, Stages
<1>11. LocksConserved'
  <2>1. \A u \in In("collect") : locks_obtained[u] + available_locks' + Readers' = max_locks
    BY <1>3, <1>4, <1>6, <1>8 DEF LocksConserved, Readers, RWTypeOK, In
  <2>2. In("collect") = {} => available_locks' + Readers' = max_locks
    BY <1>3, <1>4, <1>6, <1>8 DEF LocksConserved, Readers, RWTypeOK
  <2> QED BY <1>1, <1>3, <1>9, <2>1, <2>2, Zenon DEF LocksConserved, Readers
<1>12. Collected'
  BY <1>1, <1>9 DEF Collected
<1>13. AsleepInCall' /\ NobodyOverslept'
  <2>1. CASE available_locks = 0 \/ write_lock_in_progress
    BY <1>6, <2>1 DEF AsleepInCall, NobodyOverslept, RWTypeOK
  <2>2. CASE available_locks # 0 /\ ~write_lock_in_progress
    <3>1. blocked = {}
      BY <1>3, <2>2 DEF AsleepInCall, NobodyOverslept
    <3> QED BY <1>6, <3>1 DEF AsleepInCall, NobodyOverslept, RWTypeOK
  <2> QED BY <2>1, <2>2
<1> QED BY <1>10, <1>11, <1>12, <1>13
-----------------------------------------------------------------------------

LEMMA RWNextInv ==
  ASSUME RWInv, [RWNext]_rwVars
  PROVE  RWInv'
<1>1. CASE UNCHANGED rwVars
  BY <1>1 DEF rwVars, RWInv, RWTypeOK, LocksConserved, Collected, AsleepInCall, NobodyOverslept, In
<1>2. ASSUME NEW t \in Lockers, WaitTurn(t)
      PROVE  RWInv'
  BY <1>2, SleepInv DEF WaitTurn, Enters
<1>3. ASSUME NEW t \in Lockers, TakeTurn(t)
      PROVE  RWInv'
  <2>1. /\ t \notin blocked /\ stage[t] \in {"out", "turn"} /\ ~write_lock_in_progress
        /\ Collect(t, available_locks)
    BY <1>3 DEF TakeTurn, Enters, RWInv, AsleepInCall
  <2> QED BY <2>1, CollectInv
<1>4. ASSUME NEW t \in Lockers, CollectMore(t)
      PROVE  RWInv'
  BY <1>4, CollectInv DEF CollectMore
<1>5. ASSUME NEW t \in Lockers, WaitRead(t)
      PROVE  RWInv'
  BY <1>5, SleepInv DEF WaitRead, Enters
<1>6. ASSUME NEW t \in Lockers, LockReadonly(t)
      PROVE  RWInv'
  BY <1>6, LockReadonlyInv
<1>7. ASSUME NEW t \in Lockers, Leave(t)
      PROVE  RWInv'
  BY <1>7, UnlockInv, UnlockReadonlyInv DEF Leave
<1> QED BY <1>1, <1>2, <1>3, <1>4, <1>5, <1>6, <1>7 DEF RWNext, Proceed

(* The strengthened invariant of the mutex.                                *)
THEOREM RWInvariant ==
  RWSpec => []RWInv
<1>1. RWInit => RWInv
  BY RWInitInv
<1>2. RWInv /\ [RWNext]_rwVars => RWInv'
  BY RWNextInv
<1> QED BY <1>1, <1>2, PTL DEF RWSpec

(* The variables keep their types: in particular, the free locks are never  *)
(* fewer than none or more than all.                                       *)
THEOREM RWTypeCorrect ==
  RWSpec => []RWTypeOK
<1>1. RWInv => RWTypeOK
  BY DEF RWInv
<1> QED BY <1>1, RWInvariant, PTL

(* Locks are neither lost nor doubled, whoever comes and goes: free,       *)
(* reading, collected and writing always add up to max_locks.              *)
THEOREM LocksNeverLost ==
  RWSpec => []LocksConserved
<1>1. RWInv => LocksConserved
  BY DEF RWInv
<1> QED BY <1>1, RWInvariant, PTL

(* A writer is alone in the section read_write_mutex guards.               *)
THEOREM WriterAlone ==
  RWSpec => []Exclusion
<1>1. RWInv => Exclusion
  BY DEF RWInv, LocksConserved, Exclusion
<1> QED BY <1>1, RWInvariant, PTL

(* The broadcasts unlock_readonly() saves are not missed: no sleeper could *)
(* go on.                                                                  *)
THEOREM NoWakeupLost ==
  RWSpec => []NobodyOverslept
<1>1. RWInv => NobodyOverslept
  BY DEF RWInv
<1> QED BY <1>1, RWInvariant, PTL

(* All of it together: what the mutex promises at every moment, for any     *)
(* number of threads and locks.                                             *)
THEOREM MutexIsSound == RWSpec => []MutexSound
BY RWTypeCorrect, WriterAlone, LocksNeverLost, NoWakeupLost, PTL DEF MutexSound

-----------------------------------------------------------------------------
(* thread_pool: the records of slots and tasks.                            *)

SlotRecords == [task_id : Nat, thread_id : Threads \cup {"none"}, busy : BOOLEAN,
                next_task_id : Nat, job : Nat]
TaskRecords == [id : Nat, by : Threads, parent : Threads \cup Nat,
                state : {"ready", "running", "done"}]

Types ==
  /\ tasks \in [Slots -> SlotRecords]
  /\ made \in Seq(TaskRecords) /\ Len(made) <= MaxTasks
  /\ stack \in [Threads -> Seq(Nat)]
  /\ worker_thread_ids \subseteq Workers /\ we_are_destructing \in BOOLEAN /\ orphans \in BOOLEAN
  /\ pc \in [Threads -> {"start", "look", "run", "add", "wait_task", "wait_all", "drain", "join", "gone"}]
  /\ sleeps_on \in [Threads -> {"awake", "ready", "done"}] /\ argument \in [Threads -> Nat]
  /\ \A k \in DOMAIN made : made[k].parent \in Threads \cup DOMAIN made

(* A slot and the task it holds: the id is one of those the slot has given  *)
(* so far, and the next one is larger.                                      *)
SlotSound(i) ==
  /\ tasks[i].next_task_id >= 2
  /\ IsEmpty(i) => ~tasks[i].busy /\ tasks[i].job = 0
  /\ ~IsEmpty(i) =>
       /\ tasks[i].job \in DOMAIN made
       /\ made[tasks[i].job].id = tasks[i].task_id
       /\ made[tasks[i].job].by = tasks[i].thread_id
       /\ made[tasks[i].job].state = IF tasks[i].busy THEN "running" ELSE "ready"
       /\ \E n \in 2 .. tasks[i].next_task_id - 1 : tasks[i].task_id = n * N + i

GivenBy(id, i) == \E n \in 2 .. tasks[i].next_task_id - 1 : id = n * N + i

(* A task whose id is not 1 got it from a slot, and is there until done.    *)
TaskSound(k) ==
  /\ made[k].id # 1 => \E i \in Slots : GivenBy(made[k].id, i)
  /\ made[k].id # 1 /\ ~Done(k) => \E i \in Slots : ~IsEmpty(i) /\ tasks[i].job = k
  /\ made[k].id = 1 => made[k].state # "ready"
  /\ made[k].state = "running" => \E t \in Threads : \E n \in DOMAIN stack[t] : stack[t][n] = k

OwnIds == \A k, l \in DOMAIN made : made[k].id # 1 /\ made[l].id = made[k].id => k = l

(* What is on a stack runs: a worker's first task came from a slot, all the *)
(* others are run at once.                                                  *)
FromSlot(t, n) == t \in Workers /\ n = 1
StackSound(t) ==
  \A n \in DOMAIN stack[t] :
    /\ stack[t][n] \in DOMAIN made
    /\ made[stack[t][n]].state = "running"
    /\ made[stack[t][n]].id # 1 <=> FromSlot(t, n)

OnOneStack ==
  \A t, u \in Threads : \A m \in DOMAIN stack[t], n \in DOMAIN stack[u] :
     stack[t][m] = stack[u][n] => t = u /\ m = n

TaskInv ==
  /\ \A i \in Slots : SlotSound(i)
  /\ \A k \in DOMAIN made : TaskSound(k)
  /\ OwnIds
  /\ \A t \in Threads : StackSound(t)
  /\ OnOneStack

(* The threads.  A worker outside the tasks is in none, and a user waits in *)
(* the destructor only when the other users are out of the pool for good.   *)
Outside == {"start", "look", "gone"}

Place(t) ==
  /\ sleeps_on[t] = "ready" => pc[t] = "look"
  /\ sleeps_on[t] = "done" => pc[t] \in {"add", "wait_task", "wait_all", "drain"}
  /\ pc[t] = "wait_task" => argument[t] >= 1
  /\ t \in Workers =>
       /\ pc[t] \in Outside \cup {"run", "wait_task", "wait_all"}
       /\ pc[t] # "start" => t \in worker_thread_ids
       /\ stack[t] = <<>> <=> pc[t] \in Outside
       /\ pc[t] = "gone" => we_are_destructing
       /\ we_are_destructing => sleeps_on[t] # "ready"
  /\ t \in Users => pc[t] \notin {"start", "look"}

Closing ==
  \A u \in Users : pc[u] \in {"drain", "join", "gone"} =>
    \A v \in Users : stack[v] = <<>> /\ (v # u => pc[v] = "run")

Ending ==
  we_are_destructing =>
    /\ FreeSlots = Slots
    /\ \E u \in Users : pc[u] \in {"join", "gone"}

ThreadInv == (\A t \in Threads : Place(t)) /\ Closing /\ Ending

PoolInv == Types /\ TaskInv /\ ThreadInv /\ NobodyMissesTheEnd /\ WorkersOnTheWay

-----------------------------------------------------------------------------
(* Slots and the ids they give.                                            *)

LEMMA SlotNumbers ==
  /\ N \in Nat /\ IsFiniteSet(Slots) /\ Cardinality(Slots) = N
  /\ \A i \in Slots : i \in Nat /\ i < N /\ N >= 1
<1>1. N \in Nat
  BY PoolAssumption, FS_CardinalityType DEF N
<1>2. IsFiniteSet(0 .. N - 1) /\ Cardinality(0 .. N - 1) = N
  BY <1>1, FS_Interval
<1> QED BY <1>1, <1>2 DEF Slots

LEMMA Multiples ==
  ASSUME NEW n \in Nat, NEW m \in Nat, NEW K \in Nat
  PROVE  n * K \in Nat /\ (n < m => n * K + K <= m * K)
<1>1. n * K \in Nat
  OBVIOUS
<1>2. ASSUME n < m PROVE n * K + K <= m * K
  <2>1. PICK d \in Nat : m = n + 1 + d
    <3>1. m - n - 1 \in Nat /\ m = n + 1 + (m - n - 1)
      BY <1>2
    <3> QED BY <3>1
  <2>2. m * K = n * K + K + d * K
    BY <2>1
  <2>3. d * K \in Nat
    OBVIOUS
  <2> QED BY <1>1, <2>2, <2>3
<1> QED BY <1>1, <1>2

(* No two slots give the same id, and none gives one twice.                *)
LEMMA IdsDiffer ==
  ASSUME NEW n \in Nat, NEW m \in Nat, NEW i \in Slots, NEW j \in Slots,
         n * N + i = m * N + j
  PROVE  n = m /\ i = j
<1>1. i \in Nat /\ i < N /\ j \in Nat /\ j < N /\ N \in Nat /\ n * N \in Nat /\ m * N \in Nat
  BY SlotNumbers, Multiples
<1>2. ~(n < m)
  <2>1. n < m => n * N + N <= m * N
    BY <1>1, Multiples
  <2> QED BY <1>1, <2>1
<1>3. ~(m < n)
  <2>1. m < n => m * N + N <= n * N
    BY <1>1, Multiples
  <2> QED BY <1>1, <2>1
<1>4. n = m
  BY <1>2, <1>3
<1> QED BY <1>1, <1>4

LEMMA IdsAboveOne ==
  ASSUME NEW n \in Nat, n >= 2, NEW i \in Slots
  PROVE  n * N + i \in Nat /\ n * N + i > 1
<1>1. i \in Nat /\ N \in Nat /\ N >= 1 /\ n * N \in Nat
  BY SlotNumbers, Multiples
<1>2. 1 * N + N <= n * N
  BY <1>1, Multiples
<1> QED BY <1>1, <1>2

LEMMA IdModN ==
  ASSUME NEW n \in Nat, NEW i \in Slots
  PROVE  (n * N + i) % N = i
<1>1. i \in Nat /\ i < N /\ N \in Nat \ {0} /\ n * N \in Nat
  BY SlotNumbers, Multiples
<1> DEFINE id == n * N + i
<1>2. id \in Nat /\ id % N \in 0 .. N - 1 /\ id = (id \div N) * N + (id % N) /\ id \div N \in Nat
  BY <1>1
<1>3. id % N \in Slots
  BY <1>2 DEF Slots
<1> QED BY <1>2, <1>3, IdsDiffer

-----------------------------------------------------------------------------
(* What the invariant says of a task, wherever it is.                      *)

LEMMA MadeTypes ==
  ASSUME Types
  PROVE  /\ Len(made) \in Nat /\ DOMAIN made = 1 .. Len(made)
         /\ \A k \in DOMAIN made :
              /\ k \in Nat /\ k >= 1 /\ k <= MaxTasks /\ made[k] \in TaskRecords
              /\ made[k].id \in Nat /\ made[k].by \in Threads
              /\ made[k].parent \in Threads \cup DOMAIN made
              /\ made[k].state \in {"ready", "running", "done"}
         /\ \A i \in Slots :
              /\ tasks[i] \in SlotRecords
              /\ tasks[i].task_id \in Nat /\ tasks[i].busy \in BOOLEAN
              /\ tasks[i].next_task_id \in Nat /\ tasks[i].job \in Nat
              /\ tasks[i].thread_id \in Threads \cup {"none"}
<1>1. /\ Len(made) \in Nat /\ DOMAIN made = 1 .. Len(made)
      /\ \A k \in DOMAIN made : made[k] \in TaskRecords
  BY DEF Types
<1>2. \A i \in Slots : tasks[i] \in SlotRecords
  BY DEF Types
<1>3. MaxTasks \in Nat
  BY PoolAssumption
<1> QED BY <1>1, <1>2, <1>3 DEF Types, TaskRecords, SlotRecords

LEMMA HeldIds ==
  ASSUME Types, TaskInv, NEW i \in Slots, ~IsEmpty(i)
  PROVE  /\ tasks[i].job \in DOMAIN made /\ made[tasks[i].job].id > 1
         /\ tasks[i].task_id > 1 /\ tasks[i].task_id % N = i
<1>1. PICK n \in 2 .. tasks[i].next_task_id - 1 : tasks[i].task_id = n * N + i
  BY DEF TaskInv, SlotSound
<1>2. n \in Nat /\ n >= 2
  BY MadeTypes
<1>3. n * N + i > 1 /\ (n * N + i) % N = i
  BY <1>2, IdsAboveOne, IdModN
<1> QED BY <1>1, <1>3 DEF TaskInv, SlotSound

LEMMA JobsDiffer ==
  ASSUME Types, TaskInv, NEW i \in Slots, NEW j \in Slots, ~IsEmpty(i), ~IsEmpty(j),
         tasks[i].job = tasks[j].job
  PROVE  i = j
<1>1. tasks[i].task_id = tasks[j].task_id
  BY DEF TaskInv, SlotSound
<1> QED BY <1>1, HeldIds

(* The slot a worker's first task came from.                               *)
LEMMA WorkersSlot ==
  ASSUME Types, TaskInv, NEW w \in Workers, stack[w] # <<>>
  PROVE  /\ stack[w][1] \in DOMAIN made
         /\ \E i \in Slots : /\ ~IsEmpty(i) /\ tasks[i].busy /\ tasks[i].job = stack[w][1]
<1>1. w \in Threads /\ 1 \in DOMAIN stack[w]
  BY DEF Types, Threads
<1>2. /\ stack[w][1] \in DOMAIN made /\ made[stack[w][1]].state = "running"
      /\ made[stack[w][1]].id # 1
  BY <1>1 DEF TaskInv, StackSound, FromSlot
<1>3. PICK i \in Slots : ~IsEmpty(i) /\ tasks[i].job = stack[w][1]
  BY <1>2 DEF TaskInv, TaskSound, Done
<1>4. made[stack[w][1]].state = IF tasks[i].busy THEN "running" ELSE "ready"
  BY <1>3 DEF TaskInv, SlotSound
<1> QED BY <1>2, <1>3, <1>4

LEMMA BusySlotsWorker ==
  ASSUME Types, TaskInv, NEW i \in Slots, tasks[i].busy
  PROVE  \E w \in Workers : stack[w] # <<>> /\ stack[w][1] = tasks[i].job
<1>1. /\ ~IsEmpty(i) /\ tasks[i].job \in DOMAIN made /\ made[tasks[i].job].id # 1
      /\ made[tasks[i].job].state = "running"
  BY HeldIds DEF TaskInv, SlotSound
<1>2. PICK t \in Threads : \E n \in DOMAIN stack[t] : stack[t][n] = tasks[i].job
  BY <1>1 DEF TaskInv, TaskSound
<1> PICK n \in DOMAIN stack[t] : stack[t][n] = tasks[i].job
  BY <1>2
<1>3. t \in Workers /\ n = 1
  BY <1>1 DEF TaskInv, StackSound, FromSlot
<1>4. stack[t] # <<>>
  OBVIOUS
<1> QED BY <1>3, <1>4

-----------------------------------------------------------------------------
(* The steps that move a task.                                             *)

LEMMA TasksStay ==
  ASSUME TaskInv, UNCHANGED <<tasks, made, stack>> PROVE TaskInv'
BY DEF TaskInv, SlotSound, TaskSound, GivenBy, OwnIds, StackSound, OnOneStack, IsEmpty, Done

(* A task keeps its id, its slot's ids stay given.                         *)
LEMMA GivenStays ==
  ASSUME Types, Types', NEW id, NEW i \in Slots, GivenBy(id, i),
         tasks'[i].next_task_id >= tasks[i].next_task_id
  PROVE  GivenBy(id, i)'
BY MadeTypes DEF GivenBy, Types, SlotRecords

LEMMA StateSet ==
  ASSUME Types, NEW k \in DOMAIN made, NEW v \in {"ready", "running", "done"},
         made' = [made EXCEPT ![k].state = v]
  PROVE  /\ made' \in Seq(TaskRecords) /\ Len(made') = Len(made) /\ DOMAIN made' = DOMAIN made
         /\ \A l \in DOMAIN made :
              /\ made'[l].id = made[l].id /\ made'[l].by = made[l].by /\ made'[l].parent = made[l].parent
              /\ l # k => made'[l].state = made[l].state
         /\ made'[k].state = v
<1> DEFINE r == [made[k] EXCEPT !.state = v]
<1>1. made \in Seq(TaskRecords) /\ k \in 1 .. Len(made) /\ made[k] \in TaskRecords
  BY MadeTypes DEF Types
<1>2. /\ r \in TaskRecords /\ r.id = made[k].id /\ r.by = made[k].by /\ r.parent = made[k].parent
      /\ r.state = v
  BY <1>1 DEF TaskRecords
<1>3. made' = [made EXCEPT ![k] = r]
  OBVIOUS
<1> HIDE DEF r
<1>4. /\ made' \in Seq(TaskRecords) /\ Len(made') = Len(made)
      /\ \A l \in 1 .. Len(made) : made'[l] = IF l = k THEN r ELSE made[l]
  BY <1>1, <1>2, <1>3, ExceptSeq
<1> QED BY <1>1, <1>2, <1>4

LEMMA StackSet ==
  ASSUME Types, NEW t \in Threads, NEW s \in Seq(Nat), stack' = [stack EXCEPT ![t] = s]
  PROVE  /\ stack' \in [Threads -> Seq(Nat)] /\ stack'[t] = s
         /\ \A u \in Threads : u # t => stack'[u] = stack[u]
BY DEF Types

(* A ready task goes from its slot to the stack of a worker.               *)
TaskTaken(w, idx, k) ==
  /\ w \in Workers /\ stack[w] = <<>> /\ idx \in Slots /\ IsReady(idx) /\ k = tasks[idx].job
  /\ tasks' = [tasks EXCEPT ![idx].busy = TRUE]
  /\ stack' = [stack EXCEPT ![w] = <<k>>]
  /\ made' = [made EXCEPT ![k].state = "running"]

LEMMA TaskTakenInv ==
  ASSUME Types, TaskInv, NEW w, NEW idx, NEW k, TaskTaken(w, idx, k)
  PROVE  /\ tasks' \in [Slots -> SlotRecords] /\ made' \in Seq(TaskRecords)
         /\ Len(made') = Len(made) /\ stack' \in [Threads -> Seq(Nat)]
         /\ \A l \in DOMAIN made' : made'[l].parent = made[l].parent
         /\ TaskInv'
         /\ \A i \in Slots : (IsEmpty(i)' <=> IsEmpty(i)) /\ tasks'[i].task_id = tasks[i].task_id
                             /\ tasks'[i].thread_id = tasks[i].thread_id
         /\ \A i \in Slots : IsReady(i)' <=> IsReady(i) /\ i # idx
         /\ \A t \in Threads : t # w => stack'[t] = stack[t]
         /\ stack'[w] # <<>>
<1> USE DEF TaskTaken
<1>1. /\ w \in Threads /\ idx \in Slots /\ ~IsEmpty(idx) /\ ~tasks[idx].busy /\ k = tasks[idx].job
      /\ k \in DOMAIN made /\ made[k].state = "ready" /\ made[k].id > 1 /\ k \in Nat
  BY HeldIds, MadeTypes DEF IsReady, TaskInv, SlotSound, Threads
<1>2. /\ tasks' \in [Slots -> SlotRecords]
      /\ \A i \in Slots :
           /\ tasks'[i].task_id = tasks[i].task_id /\ tasks'[i].job = tasks[i].job
           /\ tasks'[i].next_task_id = tasks[i].next_task_id /\ tasks'[i].thread_id = tasks[i].thread_id
           /\ i # idx => tasks'[i].busy = tasks[i].busy
      /\ tasks'[idx].busy = TRUE
  BY <1>1, ZenonT(60) DEF Types, SlotRecords
<1>3. /\ made' \in Seq(TaskRecords) /\ Len(made') = Len(made) /\ DOMAIN made' = DOMAIN made
      /\ \A l \in DOMAIN made :
           /\ made'[l].id = made[l].id /\ made'[l].by = made[l].by /\ made'[l].parent = made[l].parent
           /\ l # k => made'[l].state = made[l].state
      /\ made'[k].state = "running"
  BY <1>1, StateSet
<1>4. /\ stack' \in [Threads -> Seq(Nat)] /\ stack'[w] = <<k>> /\ DOMAIN stack'[w] = {1} /\ stack'[w][1] = k
      /\ DOMAIN stack[w] = {}
      /\ \A t \in Threads : t # w => stack'[t] = stack[t]
  BY <1>1 DEF Types
<1>5. \A i \in Slots : (IsEmpty(i)' <=> IsEmpty(i)) /\ (IsReady(i)' <=> IsReady(i) /\ i # idx)
  BY <1>2 DEF IsEmpty, IsReady
<1>6. \A t \in Threads : \A n \in DOMAIN stack[t] : stack[t][n] # k
  BY <1>1 DEF TaskInv, StackSound
<1>7. ASSUME NEW i \in Slots PROVE SlotSound(i)'
  <2>1. ~IsEmpty(i) /\ i # idx => tasks[i].job # k
    BY <1>1, JobsDiffer
  <2> QED BY <1>1, <1>2, <1>3, <1>5, <2>1 DEF TaskInv, SlotSound
<1>8. ASSUME NEW l \in DOMAIN made' PROVE TaskSound(l)'
  <2>1. made'[l].id # 1 => \E i \in Slots : \E n \in 2 .. tasks'[i].next_task_id - 1 : made'[l].id = n * N + i
    BY <1>2, <1>3, <1>8 DEF TaskInv, TaskSound, GivenBy
  <2>2. made'[l].id # 1 /\ ~Done(l)' => \E i \in Slots : ~IsEmpty(i)' /\ tasks'[i].job = l
    BY <1>1, <1>2, <1>3, <1>5, <1>8 DEF TaskInv, TaskSound, Done
  <2>3. made'[l].id = 1 => made'[l].state # "ready"
    BY <1>1, <1>3, <1>8 DEF TaskInv, TaskSound
  <2>4. ASSUME made'[l].state = "running"
        PROVE  \E t \in Threads : \E n \in DOMAIN stack'[t] : stack'[t][n] = l
    <3>1. CASE l = k
      BY <1>1, <1>4, <3>1
    <3>2. CASE l # k
      <4>1. PICK t \in Threads : \E n \in DOMAIN stack[t] : stack[t][n] = l
        BY <1>3, <1>8, <2>4, <3>2 DEF TaskInv, TaskSound
      <4>2. stack'[t] = stack[t]
        BY <1>4, <4>1
      <4> QED BY <4>1, <4>2
    <3> QED BY <3>1, <3>2
  <2> QED BY <2>1, <2>2, <2>3, <2>4 DEF TaskSound, GivenBy
<1>9. OwnIds'
  BY <1>3 DEF TaskInv, OwnIds
<1>10. ASSUME NEW t \in Threads PROVE StackSound(t)'
  <2>1. CASE t = w
    BY <1>1, <1>3, <1>4, <2>1 DEF StackSound, FromSlot
  <2>2. CASE t # w
    BY <1>1, <1>3, <1>4, <1>6, <2>2 DEF TaskInv, StackSound
  <2> QED BY <2>1, <2>2
<1>11. OnOneStack'
  BY <1>4, <1>6 DEF TaskInv, OnOneStack
<1> QED BY <1>2, <1>3, <1>4, <1>5, <1>7, <1>8, <1>9, <1>10, <1>11 DEF TaskInv

(* A worker's task ends and its slot is emptied.                           *)
TaskFinished(w, idx, k) ==
  /\ w \in Workers /\ stack[w] = <<k>> /\ idx \in Slots /\ tasks[idx].busy /\ tasks[idx].job = k
  /\ tasks' = [tasks EXCEPT ![idx].busy = FALSE, ![idx].task_id = 0, ![idx].job = 0]
  /\ stack' = [stack EXCEPT ![w] = <<>>]
  /\ made' = [made EXCEPT ![k].state = "done"]

LEMMA TaskFinishedInv ==
  ASSUME Types, TaskInv, NEW w, NEW idx, NEW k, TaskFinished(w, idx, k)
  PROVE  /\ tasks' \in [Slots -> SlotRecords] /\ made' \in Seq(TaskRecords)
         /\ Len(made') = Len(made) /\ stack' \in [Threads -> Seq(Nat)]
         /\ \A l \in DOMAIN made' : made'[l].parent = made[l].parent
         /\ TaskInv'
         /\ \A i \in Slots : IsEmpty(i) => IsEmpty(i)'
         /\ \A i \in Slots : IsReady(i)' <=> IsReady(i)
         /\ \A t \in Threads : t # w => stack'[t] = stack[t]
         /\ stack'[w] = <<>>
<1> USE DEF TaskFinished
<1>1. /\ w \in Threads /\ idx \in Slots /\ ~IsEmpty(idx) /\ tasks[idx].busy /\ tasks[idx].job = k
      /\ k \in DOMAIN made /\ made[k].state = "running" /\ made[k].id > 1
      /\ DOMAIN stack[w] = {1} /\ stack[w][1] = k
  BY HeldIds, MadeTypes DEF TaskInv, SlotSound, Threads
<1>2. /\ tasks' \in [Slots -> SlotRecords]
      /\ \A i \in Slots : i # idx => tasks'[i] = tasks[i]
      /\ tasks'[idx].task_id = 0 /\ tasks'[idx].job = 0 /\ tasks'[idx].busy = FALSE
      /\ tasks'[idx].next_task_id = tasks[idx].next_task_id
  BY <1>1 DEF Types, SlotRecords
<1>3. /\ made' \in Seq(TaskRecords) /\ Len(made') = Len(made) /\ DOMAIN made' = DOMAIN made
      /\ \A l \in DOMAIN made :
           /\ made'[l].id = made[l].id /\ made'[l].by = made[l].by /\ made'[l].parent = made[l].parent
           /\ l # k => made'[l].state = made[l].state
      /\ made'[k].state = "done"
  BY <1>1, StateSet
<1>4. /\ stack' \in [Threads -> Seq(Nat)] /\ stack'[w] = <<>> /\ DOMAIN stack'[w] = {}
      /\ \A t \in Threads : t # w => stack'[t] = stack[t]
  BY <1>1 DEF Types
<1>5. \A i \in Slots : (IsEmpty(i)' <=> IsEmpty(i) \/ i = idx) /\ (IsReady(i)' <=> IsReady(i))
  BY <1>1, <1>2 DEF IsEmpty, IsReady
<1>6. \A t \in Threads : t # w => \A n \in DOMAIN stack[t] : stack[t][n] # k
  BY <1>1 DEF TaskInv, OnOneStack
<1>7. ASSUME NEW i \in Slots PROVE SlotSound(i)'
  <2>1. CASE i = idx
    BY <1>2, <1>5, <2>1 DEF TaskInv, SlotSound
  <2>2. CASE i # idx
    <3>1. ~IsEmpty(i) => tasks[i].job # k
      BY <1>1, <2>2, JobsDiffer
    <3> QED BY <1>1, <1>2, <1>3, <1>5, <2>2, <3>1 DEF TaskInv, SlotSound
  <2> QED BY <2>1, <2>2
<1>8. ASSUME NEW l \in DOMAIN made' PROVE TaskSound(l)'
  <2>1. made'[l].id # 1 => \E i \in Slots : \E n \in 2 .. tasks'[i].next_task_id - 1 : made'[l].id = n * N + i
    BY <1>2, <1>3, <1>8 DEF TaskInv, TaskSound, GivenBy
  <2>2. made'[l].id # 1 /\ ~Done(l)' => \E i \in Slots : ~IsEmpty(i)' /\ tasks'[i].job = l
    <3> SUFFICES ASSUME made'[l].id # 1, ~Done(l)' PROVE \E i \in Slots : ~IsEmpty(i)' /\ tasks'[i].job = l
      OBVIOUS
    <3>1. l # k /\ l \in DOMAIN made /\ made[l].id # 1 /\ ~Done(l)
      BY <1>3 DEF Done
    <3>2. PICK i \in Slots : ~IsEmpty(i) /\ tasks[i].job = l
      BY <3>1 DEF TaskInv, TaskSound
    <3> QED BY <1>1, <1>2, <1>5, <3>1, <3>2
  <2>3. made'[l].id = 1 => made'[l].state # "ready"
    BY <1>1, <1>3, <1>8 DEF TaskInv, TaskSound
  <2>4. ASSUME made'[l].state = "running"
        PROVE  \E t \in Threads : \E n \in DOMAIN stack'[t] : stack'[t][n] = l
    <3>1. l # k
      BY <1>3, <2>4
    <3>2. PICK t \in Threads : \E n \in DOMAIN stack[t] : stack[t][n] = l
      BY <1>3, <1>8, <2>4, <3>1 DEF TaskInv, TaskSound
    <3>3. t # w
      BY <1>1, <3>1, <3>2
    <3>4. stack'[t] = stack[t]
      BY <1>4, <3>3
    <3> QED BY <3>2, <3>4
  <2> QED BY <2>1, <2>2, <2>3, <2>4 DEF TaskSound, GivenBy
<1>9. OwnIds'
  BY <1>3 DEF TaskInv, OwnIds
<1>10. ASSUME NEW t \in Threads PROVE StackSound(t)'
  <2>1. CASE t = w
    BY <1>4, <2>1 DEF StackSound
  <2>2. CASE t # w
    BY <1>1, <1>3, <1>4, <1>6, <2>2 DEF TaskInv, StackSound
  <2> QED BY <2>1, <2>2
<1>11. OnOneStack'
  BY <1>4 DEF TaskInv, OnOneStack
<1> QED BY <1>2, <1>3, <1>4, <1>5, <1>7, <1>8, <1>9, <1>10, <1>11 DEF TaskInv

(* A new task in an empty slot.                                            *)
TaskPut(t, idx, task) ==
  /\ t \in Threads /\ idx \in Slots /\ IsEmpty(idx) /\ Len(made) < MaxTasks
  /\ task \in TaskRecords /\ task.id = MakeNextTaskId(idx) /\ task.by = t /\ task.state = "ready"
  /\ task.parent \in Threads \cup DOMAIN made
  /\ tasks' = [tasks EXCEPT ![idx].task_id = task.id, ![idx].thread_id = t,
                 ![idx].next_task_id = @ + 1, ![idx].job = Len(made) + 1]
  /\ made' = Append(made, task)
  /\ stack' = stack

LEMMA TaskPutInv ==
  ASSUME Types, TaskInv, NEW t, NEW idx, NEW task, TaskPut(t, idx, task)
  PROVE  /\ tasks' \in [Slots -> SlotRecords] /\ made' \in Seq(TaskRecords)
         /\ Len(made') = Len(made) + 1 /\ Len(made') <= MaxTasks /\ stack' \in [Threads -> Seq(Nat)]
         /\ \A l \in DOMAIN made' : made'[l].parent \in Threads \cup DOMAIN made'
         /\ TaskInv'
         /\ \A i \in Slots : i # idx => tasks'[i] = tasks[i]
         /\ ~IsEmpty(idx)' /\ IsReady(idx)' /\ tasks'[idx].thread_id = t
         /\ DOMAIN made \subseteq DOMAIN made'
<1> USE DEF TaskPut
<1> DEFINE k == Len(made) + 1
           next == tasks[idx].next_task_id
<1>1. /\ idx \in Slots /\ tasks[idx].task_id = 0 /\ ~tasks[idx].busy /\ next \in Nat /\ next >= 2
      /\ Len(made) \in Nat /\ MaxTasks \in Nat /\ k \in Nat
      /\ task.id = next * N + idx /\ task.id \in Nat /\ task.id > 1
  <2>1. next \in Nat /\ next >= 2 /\ Len(made) \in Nat /\ tasks[idx].task_id = 0
    BY MadeTypes DEF IsEmpty, TaskInv, SlotSound
  <2>2. task.id = next * N + idx
    BY DEF MakeNextTaskId
  <2> QED BY <2>1, <2>2, IdsAboveOne, PoolAssumption DEF TaskInv, SlotSound, IsEmpty
<1>2. /\ tasks' \in [Slots -> SlotRecords]
      /\ \A i \in Slots : i # idx => tasks'[i] = tasks[i]
      /\ tasks'[idx].task_id = task.id /\ tasks'[idx].job = k /\ ~tasks'[idx].busy
      /\ tasks'[idx].next_task_id = next + 1 /\ tasks'[idx].thread_id = t
  <2> DEFINE f1 == [tasks EXCEPT ![idx].task_id = task.id]
             f2 == [f1 EXCEPT ![idx].thread_id = t]
             f3 == [f2 EXCEPT ![idx].next_task_id = tasks[idx].next_task_id + 1]
             f4 == [f3 EXCEPT ![idx].job = Len(made) + 1]
  <2>1. tasks' = f4
    OBVIOUS
  <2>2. tasks \in [Slots -> SlotRecords] /\ t \in Threads \cup {"none"}
    BY DEF Types
  <2>3. /\ f1 \in [Slots -> SlotRecords] /\ \A i \in Slots : i # idx => f1[i] = tasks[i]
        /\ f1[idx] = [tasks[idx] EXCEPT !.task_id = task.id]
    BY <1>1, <2>2 DEF SlotRecords
  <2> HIDE DEF f1
  <2>4. /\ f2 \in [Slots -> SlotRecords] /\ \A i \in Slots : i # idx => f2[i] = f1[i]
        /\ f2[idx] = [f1[idx] EXCEPT !.thread_id = t]
    BY <1>1, <2>2, <2>3 DEF SlotRecords
  <2> HIDE DEF f2
  <2>5. /\ f3 \in [Slots -> SlotRecords] /\ \A i \in Slots : i # idx => f3[i] = f2[i]
        /\ f3[idx] = [f2[idx] EXCEPT !.next_task_id = next + 1]
    <3>1. f2 \in [Slots -> SlotRecords] /\ next + 1 \in Nat /\ idx \in Slots
      BY <1>1, <2>4
    <3> HIDE DEF next, TaskPut
    <3> QED BY ONLY <3>1 DEF SlotRecords, f3, next
  <2> HIDE DEF f3
  <2>6. /\ f4 \in [Slots -> SlotRecords] /\ \A i \in Slots : i # idx => f4[i] = f3[i]
        /\ f4[idx] = [f3[idx] EXCEPT !.job = k]
    <3>1. f3 \in [Slots -> SlotRecords] /\ k \in Nat /\ idx \in Slots
      BY <1>1, <2>5
    <3> QED BY ONLY <3>1 DEF SlotRecords, f4
  <2> HIDE DEF f4
  <2>7. /\ tasks[idx] \in SlotRecords /\ f1[idx] \in SlotRecords
        /\ f2[idx] \in SlotRecords /\ f3[idx] \in SlotRecords
    BY <1>1, <2>2, <2>3, <2>4, <2>5
  <2>8. /\ f4[idx].task_id = task.id /\ f4[idx].job = k /\ f4[idx].busy = tasks[idx].busy
        /\ f4[idx].next_task_id = next + 1 /\ f4[idx].thread_id = t
    BY <2>3, <2>4, <2>5, <2>6, <2>7 DEF SlotRecords
  <2>9. \A i \in Slots : i # idx => f4[i] = tasks[i]
    BY <2>3, <2>4, <2>5, <2>6
  <2> QED BY <1>1, <2>1, <2>6, <2>8, <2>9
<1>3. /\ made' \in Seq(TaskRecords) /\ Len(made') = k /\ DOMAIN made' = DOMAIN made \cup {k}
      /\ \A l \in DOMAIN made : made'[l] = made[l] /\ l # k
      /\ made'[k] = task /\ k \notin DOMAIN made
  BY <1>1 DEF Types
<1>4. \A u \in Threads : \A n \in DOMAIN stack[u] : stack[u][n] \in DOMAIN made
  BY DEF TaskInv, StackSound
<1>5. /\ \A i \in Slots : IsEmpty(i)' <=> IsEmpty(i) /\ i # idx
      /\ \A i \in Slots : ~IsEmpty(i) => i # idx
  BY <1>1, <1>2 DEF IsEmpty
<1>6. \E n \in 2 .. tasks'[idx].next_task_id - 1 : task.id = n * N + idx
  <2>1. next \in 2 .. (next + 1) - 1
    BY <1>1
  <2>2. task.id = next * N + idx
    BY <1>1
  <2> HIDE DEF next
  <2> QED BY <1>2, <2>1, <2>2
<1>7. ASSUME NEW i \in Slots, NEW id, GivenBy(id, i)
      PROVE  GivenBy(id, i)' /\ id # task.id
  <2>1. PICK n \in 2 .. tasks[i].next_task_id - 1 : id = n * N + i
    BY <1>7 DEF GivenBy
  <2>2. tasks[i].next_task_id \in Nat /\ n \in Nat /\ tasks'[i].next_task_id \in {tasks[i].next_task_id, tasks[i].next_task_id + 1}
    BY <1>2, MadeTypes
  <2>3. n \in 2 .. tasks'[i].next_task_id - 1
    BY <2>2
  <2>4. id # task.id
    <3>1. i = idx => n # next
      BY <2>2
    <3> QED BY <1>1, <2>1, <2>2, <3>1, IdsDiffer
  <2> QED BY <2>1, <2>3, <2>4 DEF GivenBy
<1>8. ASSUME NEW i \in Slots PROVE SlotSound(i)'
  <2>1. CASE i = idx
    BY <1>1, <1>2, <1>3, <1>5, <1>6, <2>1 DEF SlotSound
  <2>2. CASE i # idx
    BY <1>2, <1>3, <1>5, <2>2, SMTT(60) DEF TaskInv, SlotSound
  <2> QED BY <2>1, <2>2
<1>9. ASSUME NEW l \in DOMAIN made' PROVE TaskSound(l)'
  <2>1. CASE l = k
    BY <1>1, <1>2, <1>3, <1>5, <1>6, <2>1, SMTT(60) DEF TaskSound, Done, GivenBy
  <2>2. CASE l # k
    <3>1. l \in DOMAIN made /\ made'[l] = made[l]
      BY <1>3, <1>9, <2>2
    <3>2. made'[l].id # 1 => \E i \in Slots : \E n \in 2 .. tasks'[i].next_task_id - 1 : made'[l].id = n * N + i
      <4> SUFFICES ASSUME made[l].id # 1
                   PROVE  \E i \in Slots : \E n \in 2 .. tasks'[i].next_task_id - 1 : made[l].id = n * N + i
        BY <3>1
      <4>1. PICK i \in Slots : GivenBy(made[l].id, i)
        BY <3>1 DEF TaskInv, TaskSound
      <4>2. ASSUME NEW id, id = made[l].id PROVE GivenBy(id, i)'
        BY <1>7, <4>1, <4>2
      <4> QED BY <4>2 DEF GivenBy
    <3>3. made'[l].id # 1 /\ ~Done(l)' => \E i \in Slots : ~IsEmpty(i)' /\ tasks'[i].job = l
      BY <1>2, <1>5, <3>1 DEF TaskInv, TaskSound, Done
    <3> QED BY <3>1, <3>2, <3>3, ZenonT(40) DEF TaskInv, TaskSound, GivenBy
  <2> QED BY <2>1, <2>2
<1>10. OwnIds'
  <2>1. \A l \in DOMAIN made : made[l].id # task.id
    BY <1>1, <1>7 DEF TaskInv, TaskSound
  <2> QED BY <1>3, <2>1 DEF TaskInv, OwnIds
<1>11. \A u \in Threads : StackSound(u)'
  BY <1>3, <1>4 DEF TaskInv, StackSound
<1>12. OnOneStack'
  BY DEF TaskInv, OnOneStack
<1>13. IsReady(idx)'
  BY <1>2, <1>5 DEF IsReady
<1>14. stack' \in [Threads -> Seq(Nat)] /\ Len(made') <= MaxTasks
  BY <1>1, <1>3 DEF Types
<1>15. \A l \in DOMAIN made' : made'[l].parent \in Threads \cup DOMAIN made'
  BY <1>3 DEF Types
<1> QED BY <1>2, <1>3, <1>5, <1>8, <1>9, <1>10, <1>11, <1>12, <1>13, <1>14, <1>15 DEF TaskInv

(* A task that is run at once, and its end.                                *)
TaskNested(t, task) ==
  /\ t \in Threads /\ (t \in Workers => stack[t] # <<>>) /\ Len(made) < MaxTasks
  /\ task \in TaskRecords /\ task.id = 1 /\ task.state = "running"
  /\ task.parent \in Threads \cup DOMAIN made
  /\ made' = Append(made, task)
  /\ stack' = [stack EXCEPT ![t] = Append(@, Len(made) + 1)]
  /\ tasks' = tasks

LEMMA TaskNestedInv ==
  ASSUME Types, TaskInv, NEW t, NEW task, TaskNested(t, task)
  PROVE  /\ made' \in Seq(TaskRecords)
         /\ Len(made') = Len(made) + 1 /\ Len(made') <= MaxTasks /\ stack' \in [Threads -> Seq(Nat)]
         /\ \A l \in DOMAIN made' : made'[l].parent \in Threads \cup DOMAIN made'
         /\ TaskInv'
         /\ \A u \in Threads : u # t => stack'[u] = stack[u]
         /\ stack'[t] # <<>>
<1> USE DEF TaskNested
<1> DEFINE k == Len(made) + 1
           s == stack[t]
<1>1. Len(made) \in Nat /\ MaxTasks \in Nat /\ s \in Seq(Nat) /\ Len(s) \in Nat /\ t \in Threads
  BY MadeTypes, PoolAssumption DEF Types
<1>2. /\ made' \in Seq(TaskRecords) /\ Len(made') = k /\ DOMAIN made' = DOMAIN made \cup {k}
      /\ \A l \in DOMAIN made : made'[l] = made[l]
      /\ made'[k] = task /\ k \notin DOMAIN made /\ k \in Nat
  BY <1>1 DEF Types
<1>3. /\ stack' \in [Threads -> Seq(Nat)]
      /\ \A u \in Threads : u # t => stack'[u] = stack[u]
      /\ DOMAIN stack'[t] = DOMAIN s \cup {Len(s) + 1} /\ stack'[t][Len(s) + 1] = k
      /\ Len(s) + 1 \notin DOMAIN s
      /\ \A n \in DOMAIN s : stack'[t][n] = s[n]
      /\ stack'[t] # <<>>
  <2>1. stack'[t] = Append(s, k)
    BY <1>1 DEF Types
  <2>2. stack' = [stack EXCEPT ![t] = Append(s, k)] /\ Append(s, k) \in Seq(Nat)
    BY <1>1, <1>2
  <2>4. stack' \in [Threads -> Seq(Nat)] /\ \A u \in Threads : u # t => stack'[u] = stack[u]
    BY <2>2, StackSet
  <2>3. DOMAIN Append(s, k) = 1 .. Len(s) + 1 /\ DOMAIN s = 1 .. Len(s) /\ Append(s, k)[Len(s) + 1] = k
        /\ \A n \in 1 .. Len(s) : Append(s, k)[n] = s[n]
    BY <1>1, <1>2
  <2> QED BY <1>1, <2>1, <2>3, <2>4
<1>4. \A u \in Threads : \A n \in DOMAIN stack[u] : stack[u][n] \in DOMAIN made
  BY DEF TaskInv, StackSound
<1>5. ~FromSlot(t, Len(s) + 1)
  BY <1>1 DEF FromSlot
<1>6. \A i \in Slots : SlotSound(i)'
  BY <1>2 DEF TaskInv, SlotSound, IsEmpty
<1>7. ASSUME NEW l \in DOMAIN made' PROVE TaskSound(l)'
  <2>1. CASE l = k
    <3>1. \E u \in Threads : \E n \in DOMAIN stack'[u] : stack'[u][n] = k
      BY <1>1, <1>3
    <3> QED BY <1>2, <2>1, <3>1 DEF TaskSound
  <2>2. CASE l # k
    <3>1. l \in DOMAIN made /\ made'[l] = made[l]
      BY <1>2, <1>7, <2>2
    <3>2. ASSUME made[l].state = "running"
          PROVE  \E u \in Threads : \E n \in DOMAIN stack'[u] : stack'[u][n] = l
      <4>1. PICK u \in Threads : \E n \in DOMAIN stack[u] : stack[u][n] = l
        BY <3>1, <3>2 DEF TaskInv, TaskSound
      <4> QED BY <1>3, <4>1
    <3> QED BY <3>1, <3>2 DEF TaskInv, TaskSound, GivenBy, IsEmpty, Done
  <2> QED BY <2>1, <2>2
<1>8. OwnIds'
  BY <1>2 DEF TaskInv, OwnIds
<1>9. ASSUME NEW u \in Threads PROVE StackSound(u)'
  <2>1. CASE u = t
    BY <1>2, <1>3, <1>4, <1>5, <2>1 DEF TaskInv, StackSound, FromSlot
  <2>2. CASE u # t
    BY <1>2, <1>3, <1>4, <2>2 DEF TaskInv, StackSound
  <2> QED BY <2>1, <2>2
<1>10. OnOneStack'
  <2> SUFFICES ASSUME NEW u \in Threads, NEW v \in Threads,
                      NEW m \in DOMAIN stack'[u], NEW n \in DOMAIN stack'[v],
                      stack'[u][m] = stack'[v][n]
               PROVE  u = v /\ m = n
    BY DEF OnOneStack
  <2>1. stack'[u][m] = k => u = t /\ m = Len(s) + 1
    BY <1>2, <1>3, <1>4
  <2>2. stack'[v][n] = k => v = t /\ n = Len(s) + 1
    BY <1>2, <1>3, <1>4
  <2>3. stack'[u][m] # k => m \in DOMAIN stack[u] /\ stack'[u][m] = stack[u][m]
    BY <1>3
  <2>4. stack'[v][n] # k => n \in DOMAIN stack[v] /\ stack'[v][n] = stack[v][n]
    BY <1>3
  <2> QED BY <2>1, <2>2, <2>3, <2>4 DEF TaskInv, OnOneStack
<1>11. Len(made') <= MaxTasks /\ \A l \in DOMAIN made' : made'[l].parent \in Threads \cup DOMAIN made'
  BY <1>1, <1>2 DEF Types
<1> QED BY <1>2, <1>3, <1>6, <1>7, <1>8, <1>9, <1>10, <1>11 DEF TaskInv

TaskReturned(t, k) ==
  /\ t \in Threads /\ Len(stack[t]) > (IF t \in Workers THEN 1 ELSE 0)
  /\ k = stack[t][Len(stack[t])]
  /\ made' = [made EXCEPT ![k].state = "done"]
  /\ stack' = [stack EXCEPT ![t] = SubSeq(@, 1, Len(@) - 1)]
  /\ tasks' = tasks

LEMMA TaskReturnedInv ==
  ASSUME Types, TaskInv, NEW t, NEW k, TaskReturned(t, k)
  PROVE  /\ made' \in Seq(TaskRecords)
         /\ Len(made') = Len(made) /\ stack' \in [Threads -> Seq(Nat)]
         /\ \A l \in DOMAIN made' : made'[l].parent = made[l].parent
         /\ TaskInv'
         /\ \A u \in Threads : u # t => stack'[u] = stack[u]
         /\ t \in Workers => stack'[t] # <<>>
<1> USE DEF TaskReturned
<1> DEFINE s == stack[t]
<1>1. s \in Seq(Nat) /\ Len(s) \in Nat /\ t \in Threads /\ DOMAIN s = 1 .. Len(s) /\ Len(s) >= 1
      /\ Len(s) \in DOMAIN s /\ ~FromSlot(t, Len(s))
  BY DEF Types, FromSlot
<1>2. k \in DOMAIN made /\ made[k].state = "running" /\ made[k].id = 1
  BY <1>1 DEF TaskInv, StackSound
<1>3. /\ made' \in Seq(TaskRecords) /\ Len(made') = Len(made) /\ DOMAIN made' = DOMAIN made
      /\ \A l \in DOMAIN made :
           /\ made'[l].id = made[l].id /\ made'[l].by = made[l].by /\ made'[l].parent = made[l].parent
           /\ l # k => made'[l].state = made[l].state
      /\ made'[k].state = "done"
  BY <1>2, StateSet
<1>4. /\ stack' \in [Threads -> Seq(Nat)]
      /\ \A u \in Threads : u # t => stack'[u] = stack[u]
      /\ DOMAIN stack'[t] = 1 .. Len(s) - 1
      /\ \A n \in 1 .. Len(s) - 1 : stack'[t][n] = s[n]
      /\ t \in Workers => stack'[t] # <<>>
  <2>1. /\ SubSeq(s, 1, Len(s) - 1) \in Seq(Nat) /\ Len(SubSeq(s, 1, Len(s) - 1)) = Len(s) - 1
        /\ \A n \in 1 .. Len(s) - 1 : SubSeq(s, 1, Len(s) - 1)[n] = s[n]
    BY <1>1
  <2>2. stack'[t] = SubSeq(s, 1, Len(s) - 1) /\ stack' = [stack EXCEPT ![t] = SubSeq(s, 1, Len(s) - 1)]
    BY <1>1 DEF Types
  <2>3. t \in Workers => stack'[t] # <<>>
    <3>1. t \in Workers => Len(s) - 1 > 0
      BY <1>1
    <3>2. Len(stack'[t]) = Len(s) - 1 /\ Len(<<>>) = 0
      BY <2>1, <2>2
    <3>3. stack'[t] = <<>> => Len(s) - 1 = 0
      BY <3>2
    <3> QED BY <1>1, <3>1, <3>3
  <2>4. stack' \in [Threads -> Seq(Nat)] /\ \A u \in Threads : u # t => stack'[u] = stack[u]
    BY <2>1, <2>2, StackSet
  <2>5. DOMAIN stack'[t] = 1 .. Len(s) - 1
    <3> DEFINE p == SubSeq(s, 1, Len(s) - 1)
    <3>1. p \in Seq(Nat) /\ Len(p) = Len(s) - 1 /\ stack'[t] = p
      BY <2>1, <2>2
    <3> HIDE DEF p
    <3> QED BY <3>1
  <2> QED BY <2>1, <2>2, <2>3, <2>4, <2>5
<1>5. \A u \in Threads : \A n \in DOMAIN stack'[u] :
        n \in DOMAIN stack[u] /\ stack'[u][n] = stack[u][n] /\ stack[u][n] # k
  BY <1>1, <1>4 DEF TaskInv, OnOneStack
<1>6. ASSUME NEW i \in Slots PROVE SlotSound(i)'
  <2>1. ~IsEmpty(i) => tasks[i].job # k /\ tasks[i].job \in DOMAIN made
    BY <1>2, HeldIds
  <2> QED BY <1>3, <2>1 DEF TaskInv, SlotSound, IsEmpty
<1>7. ASSUME NEW l \in DOMAIN made' PROVE TaskSound(l)'
  <2>1. l \in DOMAIN made /\ TaskSound(l)
    BY <1>3, <1>7 DEF TaskInv
  <2>2. ASSUME made'[l].state = "running"
        PROVE  \E u \in Threads : \E n \in DOMAIN stack'[u] : stack'[u][n] = l
    <3>1. l # k
      BY <1>3, <2>2
    <3>2. PICK u \in Threads : \E n \in DOMAIN stack[u] : stack[u][n] = l
      BY <1>3, <2>1, <2>2, <3>1 DEF TaskSound
    <3>3. PICK n \in DOMAIN stack[u] : stack[u][n] = l
      BY <3>2
    <3>4. n \in DOMAIN stack'[u] /\ stack'[u][n] = l
      BY <1>1, <1>4, <3>1, <3>3
    <3> QED BY <3>4
  <2>3. made'[l].id # 1 => l # k /\ made'[l].state = made[l].state
    BY <1>2, <1>3, <2>1
  <2> QED BY <1>3, <2>1, <2>2, <2>3 DEF TaskSound, GivenBy, IsEmpty, Done
<1>8. OwnIds'
  BY <1>3 DEF TaskInv, OwnIds
<1>9. \A u \in Threads : StackSound(u)'
  BY <1>3, <1>5 DEF TaskInv, StackSound
<1>10. OnOneStack'
  BY <1>5 DEF TaskInv, OnOneStack
<1> QED BY <1>3, <1>4, <1>6, <1>7, <1>8, <1>9, <1>10 DEF TaskInv


-----------------------------------------------------------------------------
(* The operations, as steps that move a task.                              *)

(* The first of some slots is one of them: there is a least number in every *)
(* set of natural numbers that is not empty.                                *)
Below == {ss \in Nat \X Nat : ss[1] < ss[2]}

LEMMA FirstIn ==
  ASSUME NEW S \in SUBSET Slots, S # {} PROVE First(S) \in S
<1>1. IsWellFoundedOn(Below, Nat)
  BY NatLessThanWellFounded DEF OpToRel, Below
<1>2. S \in SUBSET Nat
  BY SlotNumbers
<1>3. PICK x \in S : \A y \in S : ~(<<y, x>> \in Below)
  BY <1>1, <1>2, WFMin
<1>4. ASSUME NEW y \in S PROVE x <= y
  <2>1. ~(<<y, x>> \in Below)
    BY <1>3
  <2>2. x \in Nat /\ y \in Nat
    BY <1>2
  <2> QED BY <2>1, <2>2 DEF Below
<1> QED BY <1>4 DEF First

LEMMA FrameTypes ==
  ASSUME Types, TaskInv, NEW t \in Threads PROVE Frame(t) \in Threads \cup DOMAIN made
<1>1. CASE stack[t] = <<>>
  BY <1>1 DEF Frame
<1>2. CASE stack[t] # <<>>
  <2>1. Len(stack[t]) \in DOMAIN stack[t]
    BY <1>2 DEF Types
  <2> QED BY <1>2, <2>1 DEF Frame, TaskInv, StackSound
<1> QED BY <1>1, <1>2

LEMMA NewTask ==
  ASSUME Types, TaskInv, NEW t \in Threads, NEW id \in Nat, NEW v \in {"ready", "running", "done"}
  PROVE  /\ Task(id, t, v) \in TaskRecords /\ Task(id, t, v).parent \in Threads \cup DOMAIN made
         /\ Task(id, t, v).id = id /\ Task(id, t, v).by = t /\ Task(id, t, v).state = v
<1>1. Frame(t) \in Threads \cup DOMAIN made /\ Frame(t) \in Threads \cup Nat
  BY FrameTypes, MadeTypes
<1> DEFINE f == Frame(t)
<1>2. Task(id, t, v) = [id |-> id, by |-> t, parent |-> f, state |-> v]
  BY DEF Task
<1>3. f \in Threads \cup Nat /\ f \in Threads \cup DOMAIN made
  BY <1>1
<1> HIDE DEF f
<1> QED BY <1>2, <1>3 DEF TaskRecords

LEMMA TakeTaskMoves ==
  ASSUME PoolInv, NEW w \in Workers, TakeTask(w)
  PROVE  TaskTaken(w, First(Ready), tasks[First(Ready)].job)
<1>1. First(Ready) \in Slots /\ IsReady(First(Ready))
  <2>1. Ready \in SUBSET Slots /\ Ready # {}
    BY DEF Ready, TakeTask
  <2>2. First(Ready) \in Ready
    BY <2>1, FirstIn
  <2> QED BY <2>2 DEF Ready
<1>2. w \in Threads /\ pc[w] = "look" /\ stack[w] = <<>>
  BY DEF PoolInv, ThreadInv, Place, Outside, TakeTask, Looks, Threads
<1> QED BY <1>1, <1>2 DEF TakeTask, TaskTaken

LEMMA FinishTaskMoves ==
  ASSUME PoolInv, NEW w \in Workers, FinishTask(w)
  PROVE  \E idx \in Slots : TaskFinished(w, idx, Frame(w))
<1>1. w \in Threads /\ stack[w] \in Seq(Nat) /\ Len(stack[w]) = 1
  BY DEF PoolInv, Types, FinishTask, Threads
<1>2. stack[w] # <<>> /\ stack[w] = <<stack[w][1]>> /\ Frame(w) = stack[w][1]
  <2>1. stack[w] # <<>>
    <3>1. stack[w] = <<>> => Len(stack[w]) = 0
      OBVIOUS
    <3> QED BY <1>1, <3>1
  <2>2. stack[w] = <<stack[w][1]>>
    <3> DEFINE s == stack[w]
               r == <<s[1]>>
    <3>1. s \in Seq(Nat) /\ Len(s) = 1 /\ s[1] \in Nat
      BY <1>1
    <3> HIDE DEF s
    <3>2. r \in Seq(Nat) /\ Len(r) = 1 /\ r[1] = s[1]
      BY <3>1
    <3> HIDE DEF r
    <3>3. s = r
      BY <3>1, <3>2, SeqEqual
    <3> QED BY <3>3 DEF s, r
  <2> QED BY <1>1, <2>1, <2>2 DEF Frame
<1>3. \E i \in Slots : tasks[i].busy /\ tasks[i].job = Frame(w)
  BY <1>2, WorkersSlot DEF PoolInv
<1> DEFINE idx == CHOOSE i \in Slots : tasks[i].busy /\ tasks[i].job = Frame(w)
<1>4. idx \in Slots /\ tasks[idx].busy /\ tasks[idx].job = Frame(w)
  BY <1>3
<1>5. tasks' = [tasks EXCEPT ![idx].busy = FALSE, ![idx].task_id = 0, ![idx].job = 0]
  BY DEF FinishTask
<1> HIDE DEF idx
<1>6. TaskFinished(w, idx, Frame(w))
  BY <1>2, <1>4, <1>5 DEF FinishTask, TaskFinished
<1> QED BY <1>4, <1>6

LEMMA AddTaskMoves ==
  ASSUME PoolInv, NEW t \in Threads, AddTask(t)
  PROVE  /\ First(FreeSlots) \in FreeSlots
         /\ TaskPut(t, First(FreeSlots), Task(MakeNextTaskId(First(FreeSlots)), t, "ready"))
<1> DEFINE idx == First(FreeSlots)
<1>1. idx \in Slots /\ IsEmpty(idx) /\ idx \in FreeSlots
  <2>1. FreeSlots \in SUBSET Slots /\ FreeSlots # {}
    BY DEF FreeSlots, AddTask
  <2>2. First(FreeSlots) \in FreeSlots
    BY <2>1, FirstIn
  <2> QED BY <2>2 DEF FreeSlots
<1>2. MakeNextTaskId(idx) \in Nat
  <2>1. tasks[idx].next_task_id \in Nat /\ tasks[idx].next_task_id >= 2
    BY <1>1, MadeTypes DEF PoolInv, TaskInv, SlotSound
  <2> QED BY <1>1, <2>1, IdsAboveOne DEF MakeNextTaskId
<1> DEFINE task == Task(MakeNextTaskId(idx), t, "ready")
<1>3. /\ task \in TaskRecords /\ task.parent \in Threads \cup DOMAIN made
      /\ task.id = MakeNextTaskId(idx) /\ task.by = t /\ task.state = "ready"
  BY <1>2, NewTask DEF PoolInv
<1>4. /\ tasks' = [tasks EXCEPT ![idx].task_id = MakeNextTaskId(idx), ![idx].thread_id = t,
                     ![idx].next_task_id = @ + 1, ![idx].job = Len(made) + 1]
      /\ made' = Append(made, task) /\ stack' = stack /\ Len(made) < MaxTasks
  BY DEF AddTask
<1> HIDE DEF idx, task
<1>5. TaskPut(t, idx, task)
  BY <1>1, <1>3, <1>4 DEF TaskPut
<1> QED BY <1>1, <1>5 DEF idx, task

LEMMA RunInlineMoves ==
  ASSUME PoolInv, NEW t \in Threads, RunInline(t)
  PROVE  TaskNested(t, Task(1, t, "running"))
<1>1. t \in Workers => stack[t] # <<>>
  BY DEF PoolInv, ThreadInv, Place, Outside, RunInline, MayCall
<1> DEFINE task == Task(1, t, "running")
<1>2. /\ task \in TaskRecords /\ task.parent \in Threads \cup DOMAIN made
      /\ task.id = 1 /\ task.state = "running"
  BY NewTask DEF PoolInv
<1>3. made' = Append(made, task)
  BY DEF RunInline
<1> HIDE DEF task
<1>4. TaskNested(t, task)
  BY <1>1, <1>2, <1>3 DEF RunInline, TaskNested
<1> QED BY <1>4 DEF task

LEMMA FinishInlineMoves ==
  ASSUME PoolInv, NEW t \in Threads, FinishInline(t)
  PROVE  TaskReturned(t, Frame(t))
<1>1. stack[t] # <<>>
  <2>1. stack[t] \in Seq(Nat) /\ Len(stack[t]) > 0
    BY DEF PoolInv, Types, FinishInline
  <2> QED BY <2>1
<1>2. Frame(t) = stack[t][Len(stack[t])]
  BY <1>1 DEF Frame
<1> QED BY <1>2 DEF FinishInline, TaskReturned

-----------------------------------------------------------------------------
(* Each operation keeps the types and what the tasks agree on.             *)

LEMMA QuietStep ==
  ASSUME PoolInv, NEW t \in Threads,
         \/ t \in Workers /\ (Register(t) \/ WaitReady(t) \/ Quit(t))
         \/ WaitSlot(t) \/ WaitForTask(t) \/ WaitForAllTasks(t) \/ Drain(t) \/ Joined(t)
  PROVE  Types' /\ TaskInv' /\ UNCHANGED <<tasks, made, stack, orphans>>
<1> USE DEF PoolInv
<1>1. UNCHANGED <<tasks, made, stack, orphans>>
  BY DEF Register, WaitReady, Quit, WaitSlot, WaitForTask, WaitForAllTasks, Drain, Joined, flags
<1>2. TaskInv'
  BY <1>1, TasksStay
<1> DEFINE Places == {"start", "look", "run", "add", "wait_task", "wait_all", "drain", "join", "gone"}
           Sleeps == {"awake", "ready", "done"}
<1>3. /\ pc' \in [Threads -> Places] /\ sleeps_on' \in [Threads -> Sleeps]
      /\ argument' \in [Threads -> Nat] /\ we_are_destructing' \in BOOLEAN
      /\ worker_thread_ids' \subseteq Workers
  <2>1. /\ pc \in [Threads -> Places] /\ sleeps_on \in [Threads -> Sleeps]
        /\ argument \in [Threads -> Nat] /\ we_are_destructing \in BOOLEAN
        /\ worker_thread_ids \subseteq Workers
    BY DEF Types
  <2>2. CASE t \in Workers /\ (Register(t) \/ WaitReady(t) \/ Quit(t))
    BY <2>1, <2>2 DEF Register, WaitReady, Quit, Goto, Sleep, flags
  <2>3. CASE WaitSlot(t) \/ WaitForAllTasks(t) \/ Joined(t)
    BY <2>1, <2>3 DEF WaitSlot, WaitForAllTasks, Joined, Goto, Sleep, flags
  <2>4. CASE Drain(t)
    <3>1. Awoken("ready") \in [Threads -> Sleeps]
      BY <2>1 DEF Awoken
    <3> QED BY <2>1, <2>4, <3>1 DEF Drain, Goto, Sleep
  <2>5. CASE WaitForTask(t)
    <3>1. argument' \in [Threads -> Nat]
      <4>1. \A k \in Children(Frame(t)) : made[k].id \in Nat
        BY MadeTypes DEF Children
      <4> QED BY <2>1, <2>5, <4>1 DEF WaitForTask
    <3>2. pc' \in [Threads -> Places] /\ sleeps_on' \in [Threads -> Sleeps]
      BY <2>1, <2>5 DEF WaitForTask, Goto, Sleep
    <3>3. UNCHANGED flags
      BY <2>5 DEF WaitForTask
    <3> QED BY <2>1, <3>1, <3>2, <3>3 DEF flags
  <2> QED BY <2>2, <2>3, <2>4, <2>5
<1> QED BY <1>1, <1>2, <1>3 DEF Types

LEMMA TakeTaskTypes ==
  ASSUME PoolInv, NEW w \in Workers, TakeTask(w)
  PROVE  Types' /\ TaskInv'
<1>1. PICK idx \in Slots, k \in Nat : TaskTaken(w, idx, k)
  <2>1. TaskTaken(w, First(Ready), tasks[First(Ready)].job)
    BY TakeTaskMoves
  <2>2. First(Ready) \in Slots
    BY <2>1 DEF TaskTaken
  <2> QED BY <2>1, <2>2, MadeTypes DEF PoolInv
<1>2. /\ tasks' \in [Slots -> SlotRecords] /\ made' \in Seq(TaskRecords)
      /\ Len(made') = Len(made) /\ stack' \in [Threads -> Seq(Nat)] /\ TaskInv'
      /\ \A l \in DOMAIN made' : made'[l].parent = made[l].parent
  BY <1>1, TaskTakenInv DEF PoolInv
<1>3. /\ DOMAIN made' = DOMAIN made
      /\ \A l \in DOMAIN made' : made'[l].parent \in Threads \cup DOMAIN made'
  <2>1. DOMAIN made' = DOMAIN made
    BY <1>2 DEF PoolInv, Types
  <2> QED BY <1>2, <2>1 DEF PoolInv, Types
<1>4. pc' = [pc EXCEPT ![w] = "run"] /\ UNCHANGED <<flags, sleeps_on, argument>>
  BY DEF TakeTask, Goto
<1> QED BY <1>2, <1>3, <1>4 DEF PoolInv, Types, flags

LEMMA FinishTaskTypes ==
  ASSUME PoolInv, NEW w \in Workers, FinishTask(w)
  PROVE  Types' /\ TaskInv'
<1>1. PICK idx \in Slots : TaskFinished(w, idx, Frame(w))
  BY FinishTaskMoves
<1>2. /\ tasks' \in [Slots -> SlotRecords] /\ made' \in Seq(TaskRecords)
      /\ Len(made') = Len(made) /\ stack' \in [Threads -> Seq(Nat)] /\ TaskInv'
      /\ \A l \in DOMAIN made' : made'[l].parent = made[l].parent
  BY <1>1, TaskFinishedInv DEF PoolInv
<1>3. /\ DOMAIN made' = DOMAIN made
      /\ \A l \in DOMAIN made' : made'[l].parent \in Threads \cup DOMAIN made'
  <2>1. DOMAIN made' = DOMAIN made
    BY <1>2 DEF PoolInv, Types
  <2> QED BY <1>2, <2>1 DEF PoolInv, Types
<1>4. /\ pc' = [pc EXCEPT ![w] = "look"] /\ UNCHANGED <<flags, argument>>
      /\ sleeps_on' = Awoken("done")
  BY DEF FinishTask, Goto
<1>5. Awoken("done") \in [Threads -> {"awake", "ready", "done"}]
  BY DEF PoolInv, Types, Awoken
<1> QED BY <1>2, <1>3, <1>4, <1>5 DEF PoolInv, Types, flags

LEMMA AddTaskTypes ==
  ASSUME PoolInv, NEW t \in Threads, AddTask(t)
  PROVE  Types' /\ TaskInv'
<1>1. PICK idx, task : TaskPut(t, idx, task)
  BY AddTaskMoves
<1>2. /\ tasks' \in [Slots -> SlotRecords] /\ made' \in Seq(TaskRecords)
      /\ Len(made') <= MaxTasks /\ stack' \in [Threads -> Seq(Nat)] /\ TaskInv'
      /\ \A l \in DOMAIN made' : made'[l].parent \in Threads \cup DOMAIN made'
  BY <1>1, TaskPutInv DEF PoolInv
<1>3. pc' = [pc EXCEPT ![t] = "run"] /\ UNCHANGED <<flags, argument>>
  BY DEF AddTask, Goto
<1>4. sleeps_on' \in [Threads -> {"awake", "ready", "done"}]
  BY DEF AddTask, Signal, PoolInv, Types
<1> QED BY <1>2, <1>3, <1>4 DEF PoolInv, Types, flags

LEMMA InlineTypes ==
  ASSUME PoolInv, NEW t \in Threads, RunInline(t) \/ FinishInline(t)
  PROVE  Types' /\ TaskInv'
<1>1. UNCHANGED <<tasks, flags, pc, sleeps_on, argument>>
  BY DEF RunInline, FinishInline
<1>2. /\ made' \in Seq(TaskRecords) /\ Len(made') <= MaxTasks /\ stack' \in [Threads -> Seq(Nat)]
      /\ TaskInv'
      /\ \A l \in DOMAIN made' : made'[l].parent \in Threads \cup DOMAIN made'
  <2>1. CASE RunInline(t)
    <3>1. PICK task : TaskNested(t, task)
      BY <2>1, RunInlineMoves
    <3> QED BY <3>1, TaskNestedInv DEF PoolInv
  <2>2. CASE FinishInline(t)
    <3>1. TaskReturned(t, Frame(t))
      BY <2>2, FinishInlineMoves
    <3>2. /\ made' \in Seq(TaskRecords) /\ Len(made') = Len(made) /\ stack' \in [Threads -> Seq(Nat)]
          /\ TaskInv' /\ \A l \in DOMAIN made' : made'[l].parent = made[l].parent
      BY <3>1, TaskReturnedInv DEF PoolInv
    <3>3. DOMAIN made' = DOMAIN made
      BY <3>2 DEF PoolInv, Types
    <3> QED BY <3>2, <3>3 DEF PoolInv, Types
  <2> QED BY <2>1, <2>2
<1> QED BY <1>1, <1>2 DEF PoolInv, Types, flags

-----------------------------------------------------------------------------
(* The threads.  A step moves one thread; it may wake others, no more.     *)
MovesOn(t, place) ==
  /\ t \in Threads
  /\ pc' = [pc EXCEPT ![t] = place]
  /\ \A u \in Threads : u # t =>
       /\ sleeps_on'[u] \in {sleeps_on[u], "awake"} /\ argument'[u] = argument[u]
       /\ stack'[u] = stack[u]
  /\ worker_thread_ids \subseteq worker_thread_ids'

LEMMA OthersStay ==
  ASSUME Types, ThreadInv, NEW t, NEW place, MovesOn(t, place),
         we_are_destructing' <=> we_are_destructing
  PROVE  /\ pc'[t] = place
         /\ \A u \in Threads : u # t => pc'[u] = pc[u] /\ Place(u)'
<1>1. t \in Threads /\ pc'[t] = place /\ \A u \in Threads : u # t => pc'[u] = pc[u]
  BY DEF MovesOn, Types
<1>2. ASSUME NEW u \in Threads, u # t PROVE Place(u)'
  <2>1. /\ pc'[u] = pc[u] /\ sleeps_on'[u] \in {sleeps_on[u], "awake"}
        /\ argument'[u] = argument[u] /\ stack'[u] = stack[u]
        /\ worker_thread_ids \subseteq worker_thread_ids'
    BY <1>1, <1>2 DEF MovesOn
  <2>2. Place(u)
    BY DEF ThreadInv
  <2> QED BY <2>1, <2>2 DEF Place
<1> QED BY <1>1, <1>2

(* A user may go into the pool only while nobody is in the destructor.     *)
NobodyEnds == \A u \in Users : pc[u] \notin {"drain", "join", "gone"}

LEMMA ClosingStays ==
  ASSUME Types, ThreadInv, NEW t, NEW place, MovesOn(t, place),
         t \in Users => NobodyEnds /\ place \notin {"drain", "join", "gone"}
  PROVE  Closing'
<1>1. /\ t \in Threads /\ pc'[t] = place
      /\ \A u \in Threads : u # t => pc'[u] = pc[u] /\ stack'[u] = stack[u]
  BY DEF MovesOn, Types
<1>2. \A u \in Users : u \in Threads
  BY DEF Threads
<1> QED BY <1>1, <1>2 DEF ThreadInv, Closing, NobodyEnds

(* When the pool ends, no thread can add or run a task.                    *)
LEMMA EndedPool ==
  ASSUME PoolInv, we_are_destructing
  PROVE  /\ Ready = {}
         /\ \A i \in Slots : IsEmpty(i) /\ ~tasks[i].busy
         /\ \A w \in Workers : stack[w] = <<>> /\ pc[w] \in Outside
         /\ \A u \in Users : stack[u] = <<>> /\ pc[u] \in {"run", "drain", "join", "gone"}
         /\ ~NobodyEnds
<1>1. PICK u \in Users : pc[u] \in {"join", "gone"}
  BY DEF PoolInv, ThreadInv, Ending
<1>2. \A i \in Slots : IsEmpty(i) /\ ~tasks[i].busy
  BY DEF PoolInv, ThreadInv, Ending, FreeSlots, TaskInv, SlotSound
<1>3. ASSUME NEW w \in Workers PROVE stack[w] = <<>> /\ pc[w] \in Outside
  <2>1. stack[w] = <<>>
    BY <1>2, WorkersSlot DEF PoolInv
  <2> QED BY <2>1 DEF PoolInv, ThreadInv, Place, Threads
<1>4. \A v \in Users : stack[v] = <<>> /\ (v # u => pc[v] = "run")
  BY <1>1 DEF PoolInv, ThreadInv, Closing
<1> QED BY <1>1, <1>2, <1>3, <1>4 DEF Ready, IsReady, NobodyEnds

(* A thread that calls the pool, or goes on inside a call.                 *)
LEMMA InsideTheCall ==
  ASSUME PoolInv, NEW t \in Threads, NEW place \in {"add", "wait_task", "wait_all"},
         MayCall(t) \/ pc[t] = place
  PROVE  /\ ~we_are_destructing
         /\ t \in Users => NobodyEnds
         /\ pc[t] \in {"run", "add", "wait_task", "wait_all"}
         /\ t \in Workers => pc[t] # "add" /\ stack[t] # <<>> /\ t \in worker_thread_ids
<1>1. t \in Users => NobodyEnds
  <2>1. CASE MayCall(t)
    BY <2>1 DEF MayCall, NobodyEnds
  <2>2. CASE pc[t] = place
    BY <2>2 DEF PoolInv, ThreadInv, Closing, NobodyEnds
  <2> QED BY <2>1, <2>2
<1>2. pc[t] \in {"run", "add", "wait_task", "wait_all"}
  BY DEF MayCall
<1>3. t \in Workers => pc[t] # "add" /\ stack[t] # <<>> /\ t \in worker_thread_ids
  BY <1>2 DEF PoolInv, ThreadInv, Place, Outside
<1>4. ~we_are_destructing
  <2>1. t \in Workers => ~we_are_destructing
    BY <1>2, EndedPool DEF Outside
  <2>2. t \in Users => ~we_are_destructing
    BY <1>1, EndedPool
  <2> QED BY <2>1, <2>2 DEF Threads
<1> QED BY <1>1, <1>2, <1>3, <1>4

(* What a thread waits for that sleeps until a task is done.               *)
HasToWait(t) ==
  /\ pc[t] = "add" => FreeSlots = {}
  /\ pc[t] = "wait_task" => Unfinished(argument[t])
  /\ pc[t] = "wait_all" => OwnTasks(t) # {}
  /\ pc[t] = "drain" => FreeSlots # Slots

LEMMA SleepersStay ==
  ASSUME Types, NobodyMissesTheEnd, NEW t, NEW place, MovesOn(t, place),
         \A i \in Slots : /\ tasks'[i].task_id = tasks[i].task_id
                          /\ tasks'[i].thread_id = tasks[i].thread_id,
         sleeps_on'[t] = "done" => HasToWait(t)'
  PROVE  NobodyMissesTheEnd'
<1> SUFFICES ASSUME NEW u \in Threads, sleeps_on'[u] = "done" PROVE HasToWait(u)'
  BY DEF NobodyMissesTheEnd, HasToWait
<1>1. CASE u = t
  BY <1>1
<1>2. CASE u # t
  <2>1. /\ pc'[u] = pc[u] /\ argument'[u] = argument[u] /\ sleeps_on[u] = "done"
    BY <1>2 DEF MovesOn, Types
  <2>2. HasToWait(u)
    BY <2>1 DEF NobodyMissesTheEnd, HasToWait
  <2>3. \A i \in Slots : IsEmpty(i)' <=> IsEmpty(i)
    BY DEF IsEmpty
  <2>4. FreeSlots' = FreeSlots /\ OwnTasks(u)' = OwnTasks(u)
    BY <2>3 DEF FreeSlots, OwnTasks
  <2>5. Unfinished(argument[u]) => Unfinished(argument[u])'
    BY <2>1 DEF Unfinished
  <2> QED BY <2>1, <2>2, <2>4, <2>5 DEF HasToWait
<1> QED BY <1>1, <1>2

LEMMA EndingStays ==
  ASSUME Types, Ending, NEW t, NEW place, MovesOn(t, place), we_are_destructing' <=> we_are_destructing,
         \A i \in Slots : IsEmpty(i) => IsEmpty(i)',
         t \in Users /\ pc[t] \in {"join", "gone"} => place \in {"join", "gone"}
  PROVE  Ending'
<1> SUFFICES ASSUME we_are_destructing PROVE FreeSlots' = Slots /\ \E u \in Users : pc'[u] \in {"join", "gone"}
  BY DEF Ending
<1>1. FreeSlots' = Slots
  BY DEF Ending, FreeSlots
<1>2. PICK u \in Users : pc[u] \in {"join", "gone"}
  BY DEF Ending
<1>3. pc'[u] \in {"join", "gone"}
  BY <1>2 DEF MovesOn, Types, Threads
<1> QED BY <1>1, <1>3

LEMMA OnTheWayStay ==
  ASSUME WorkersOnTheWay, Ready' \subseteq Ready, \A w \in Workers : OnTheWay(w) => OnTheWay(w)'
  PROVE  WorkersOnTheWay'
<1> DEFINE A == {w \in Workers : OnTheWay(w)}
           B == {w \in Workers : OnTheWay(w)'}
<1>1. A \subseteq B /\ B \subseteq Workers /\ Ready \subseteq Slots
  BY DEF Ready
<1>2. IsFiniteSet(B) /\ IsFiniteSet(A) /\ IsFiniteSet(Ready) /\ IsFiniteSet(Ready')
  BY <1>1, PoolAssumption, SlotNumbers, FS_Subset
<1>3. Cardinality(A) <= Cardinality(B) /\ Cardinality(Ready') <= Cardinality(Ready)
  BY <1>1, <1>2, FS_Subset
<1>4. /\ Cardinality(A) \in Nat /\ Cardinality(B) \in Nat /\ Cardinality(Ready) \in Nat
      /\ Cardinality(Ready') \in Nat /\ Cardinality(Ready) <= Cardinality(A)
  BY <1>2, FS_CardinalityType DEF WorkersOnTheWay
<1>5. Cardinality(Ready') <= Cardinality(B)
  BY <1>3, <1>4
<1> QED BY <1>5 DEF WorkersOnTheWay

LEMMA NoneReady ==
  ASSUME Ready' = {} PROVE WorkersOnTheWay'
<1> DEFINE B == {w \in Workers : OnTheWay(w)'}
<1>1. IsFiniteSet(B)
  BY PoolAssumption, FS_Subset
<1>2. Cardinality(B) \in Nat /\ Cardinality(Ready') = 0
  BY <1>1, FS_CardinalityType, FS_EmptySet
<1>3. Cardinality(Ready') <= Cardinality(B)
  BY <1>2
<1> QED BY <1>3 DEF WorkersOnTheWay

(* There are as many slots as workers, and a worker in a task has one of   *)
(* them: the others are enough for the slots that are not busy.            *)
LEMMA EnoughWorkers ==
  ASSUME PoolInv, ~we_are_destructing, \A t \in Threads : sleeps_on[t] # "ready",
         NEW R \in SUBSET Slots, \A i \in R : ~tasks[i].busy
  PROVE  Cardinality(R) <= Cardinality({w \in Workers : OnTheWay(w)})
<1> DEFINE A == {w \in Workers : OnTheWay(w)}
           F == {w \in Workers : stack[w] # <<>>}
           SlotOf(w) == CHOOSE i \in Slots : tasks[i].busy /\ tasks[i].job = stack[w][1]
           f == [w \in F |-> SlotOf(w)]
           S == Slots \ R
<1>1. ASSUME NEW w \in F
      PROVE  /\ SlotOf(w) \in Slots /\ tasks[SlotOf(w)].busy /\ tasks[SlotOf(w)].job = stack[w][1]
             /\ w \in Threads /\ 1 \in DOMAIN stack[w]
  <2>1. \E i \in Slots : tasks[i].busy /\ tasks[i].job = stack[w][1]
    BY WorkersSlot DEF PoolInv
  <2>2. w \in Threads /\ stack[w] \in Seq(Nat) /\ stack[w] # <<>>
    BY DEF Threads, PoolInv, Types
  <2>3. 1 \in DOMAIN stack[w]
    BY <2>2
  <2> QED BY <2>1, <2>2, <2>3
<1> HIDE DEF SlotOf
<1>2. f \in Injection(F, S)
  <2>1. f \in [F -> S]
    BY <1>1
  <2>2. ASSUME NEW v \in F, NEW w \in F, f[v] = f[w] PROVE v = w
    <3>1. stack[v][1] = stack[w][1]
      BY <1>1, <2>2
    <3> QED BY <1>1, <3>1 DEF PoolInv, TaskInv, OnOneStack
  <2> HIDE DEF f
  <2> QED BY <2>1, <2>2 DEF Injection, IsInjective
<1>3. /\ IsFiniteSet(S) /\ IsFiniteSet(R) /\ Cardinality(S) = N - Cardinality(R)
      /\ Cardinality(R) \in Nat /\ N \in Nat
  <2>1. IsFiniteSet(Slots) /\ Cardinality(Slots) = N /\ N \in Nat
    BY SlotNumbers
  <2>2. IsFiniteSet(R) /\ Slots \cap R = R
    BY <2>1, FS_Subset
  <2>3. IsFiniteSet(S) /\ Cardinality(S) = Cardinality(Slots) - Cardinality(Slots \cap R)
    BY <2>1, <2>2, FS_Difference
  <2> QED BY <2>1, <2>2, <2>3, FS_CardinalityType
<1>4. IsFiniteSet(F) /\ Cardinality(F) <= Cardinality(S) /\ Cardinality(F) \in Nat
  BY <1>2, <1>3, FS_Injection, FS_CardinalityType
<1>5. Workers \ F \subseteq A
  <2> SUFFICES ASSUME NEW w \in Workers, stack[w] = <<>> PROVE OnTheWay(w)
    OBVIOUS
  <2>1. w \in Threads /\ Place(w) /\ pc[w] \in Outside /\ pc[w] # "gone"
    BY DEF Threads, PoolInv, ThreadInv, Place
  <2>2. sleeps_on[w] = "awake"
    BY <2>1 DEF Place, Outside, PoolInv, Types
  <2> QED BY <2>1, <2>2 DEF OnTheWay, Outside
<1>6. Cardinality(Workers \ F) = N - Cardinality(F) /\ IsFiniteSet(Workers \ F)
  <2>1. Workers \cap F = F
    OBVIOUS
  <2> QED BY <1>4, <2>1, PoolAssumption, FS_Difference, ZenonT(40) DEF N
<1>7. IsFiniteSet(A) /\ Cardinality(Workers \ F) <= Cardinality(A) /\ Cardinality(A) \in Nat
  <2>1. IsFiniteSet(A)
    BY PoolAssumption, FS_Subset
  <2> HIDE DEF A, F
  <2> QED BY <1>5, <2>1, FS_Subset, FS_CardinalityType
<1> HIDE DEF A, F, S
<1>8. Cardinality(R) <= Cardinality(A)
  BY <1>3, <1>4, <1>6, <1>7
<1> QED BY <1>8 DEF A

-----------------------------------------------------------------------------
(* Operation by operation.                                                 *)
RestOfPool == ThreadInv /\ NobodyMissesTheEnd /\ WorkersOnTheWay

LEMMA WorkersNoUsers == \A w \in Workers : w \in Threads /\ w \notin Users
BY PoolAssumption DEF Threads

LEMMA RegisterRest ==
  ASSUME PoolInv, NEW w \in Workers, Register(w) PROVE RestOfPool'
<1> USE DEF PoolInv
<1>1. /\ MovesOn(w, "look") /\ (we_are_destructing' <=> we_are_destructing)
      /\ pc[w] = "start" /\ w \in Threads /\ w \notin Users
      /\ worker_thread_ids' = worker_thread_ids \cup {w}
      /\ UNCHANGED <<tasks, sleeps_on, stack, argument>>
  BY WorkersNoUsers DEF Register, MovesOn, Goto
<1>2. /\ pc'[w] = "look" /\ \A u \in Threads : u # w => pc'[u] = pc[u] /\ Place(u)'
  BY <1>1, OthersStay
<1>3. Place(w) /\ sleeps_on[w] = "awake"
  BY <1>1 DEF ThreadInv, Place, Types
<1>4. Place(w)'
  BY <1>1, <1>2, <1>3 DEF Place, Outside
<1>5. Closing' /\ Ending'
  BY <1>1, ClosingStays, EndingStays DEF ThreadInv, IsEmpty
<1>6. NobodyMissesTheEnd'
  BY <1>1, <1>3, SleepersStay
<1>7. Ready' = Ready
  BY <1>1 DEF Ready, IsReady, IsEmpty
<1>8. \A v \in Workers : OnTheWay(v) => OnTheWay(v)'
  BY <1>1, <1>2, <1>3, WorkersNoUsers DEF OnTheWay
<1>9. WorkersOnTheWay'
  BY <1>7, <1>8, OnTheWayStay
<1> QED BY <1>2, <1>4, <1>5, <1>6, <1>9 DEF RestOfPool, ThreadInv

LEMMA WaitReadyRest ==
  ASSUME PoolInv, NEW w \in Workers, WaitReady(w) PROVE RestOfPool'
<1> USE DEF PoolInv
<1>1. /\ MovesOn(w, "look") /\ (we_are_destructing' <=> we_are_destructing)
      /\ pc[w] = "look" /\ w \in Threads /\ w \notin Users
      /\ ~we_are_destructing /\ Ready = {} /\ sleeps_on'[w] = "ready"
      /\ UNCHANGED <<tasks, flags, stack, argument>>
  BY WorkersNoUsers DEF WaitReady, Looks, MovesOn, Goto, Sleep, flags, Types
<1>2. /\ pc'[w] = "look" /\ \A u \in Threads : u # w => pc'[u] = pc[u] /\ Place(u)'
  BY <1>1, OthersStay
<1>3. Place(w)'
  BY <1>1, <1>2 DEF Place, Outside, ThreadInv, flags
<1>4. Closing' /\ Ending'
  BY <1>1, ClosingStays, EndingStays DEF ThreadInv, IsEmpty
<1>5. NobodyMissesTheEnd'
  BY <1>1, SleepersStay
<1>6. Ready' = {}
  BY <1>1 DEF Ready, IsReady, IsEmpty
<1> QED BY <1>2, <1>3, <1>4, <1>5, <1>6, NoneReady DEF RestOfPool, ThreadInv

LEMMA QuitRest ==
  ASSUME PoolInv, NEW w \in Workers, Quit(w) PROVE RestOfPool'
<1> USE DEF PoolInv
<1>1. /\ MovesOn(w, "gone") /\ (we_are_destructing' <=> we_are_destructing)
      /\ pc[w] = "look" /\ w \in Threads /\ w \notin Users
      /\ we_are_destructing /\ sleeps_on[w] = "awake"
      /\ UNCHANGED <<tasks, flags, stack, argument, sleeps_on>>
  BY WorkersNoUsers DEF Quit, Looks, MovesOn, Goto, flags
<1>2. /\ pc'[w] = "gone" /\ \A u \in Threads : u # w => pc'[u] = pc[u] /\ Place(u)'
  BY <1>1, OthersStay
<1>3. Place(w)'
  BY <1>1, <1>2 DEF Place, Outside, ThreadInv, flags
<1>4. Closing' /\ Ending'
  BY <1>1, ClosingStays, EndingStays DEF ThreadInv, IsEmpty
<1>5. NobodyMissesTheEnd'
  BY <1>1, SleepersStay
<1>6. Ready' = {}
  <2>1. Ready = {}
    BY <1>1, EndedPool
  <2> QED BY <1>1, <2>1 DEF Ready, IsReady, IsEmpty
<1> QED BY <1>2, <1>3, <1>4, <1>5, <1>6, NoneReady DEF RestOfPool, ThreadInv

LEMMA TakeTaskRest ==
  ASSUME PoolInv, NEW w \in Workers, TakeTask(w) PROVE RestOfPool'
<1> USE DEF PoolInv
<1> DEFINE idx == First(Ready)
<1>1. TaskTaken(w, idx, tasks[idx].job)
  BY TakeTaskMoves
<1>2. /\ \A i \in Slots : (IsEmpty(i)' <=> IsEmpty(i)) /\ tasks'[i].task_id = tasks[i].task_id
                          /\ tasks'[i].thread_id = tasks[i].thread_id
      /\ \A i \in Slots : IsReady(i)' <=> IsReady(i) /\ i # idx
      /\ \A t \in Threads : t # w => stack'[t] = stack[t]
      /\ stack'[w] # <<>>
      /\ idx \in Slots /\ IsReady(idx)
  <2> HIDE DEF idx
  <2> QED BY <1>1, TaskTakenInv DEF TaskTaken
<1> HIDE DEF idx
<1>3. /\ MovesOn(w, "run") /\ (we_are_destructing' <=> we_are_destructing)
      /\ pc[w] = "look" /\ w \in Threads /\ w \notin Users /\ ~we_are_destructing
      /\ sleeps_on[w] = "awake" /\ UNCHANGED <<flags, argument, sleeps_on>>
  BY <1>2, WorkersNoUsers DEF TakeTask, Looks, MovesOn, Goto, flags
<1>4. /\ pc'[w] = "run" /\ \A u \in Threads : u # w => pc'[u] = pc[u] /\ Place(u)'
  BY <1>3, OthersStay
<1>5. Place(w)'
  BY <1>2, <1>3, <1>4 DEF Place, Outside, ThreadInv, flags
<1>6. Closing' /\ Ending'
  BY <1>2, <1>3, ClosingStays, EndingStays DEF ThreadInv
<1>7. NobodyMissesTheEnd'
  BY <1>2, <1>3, SleepersStay
<1>8. WorkersOnTheWay'
  <2> DEFINE A == {v \in Workers : OnTheWay(v)}
             B == {v \in Workers : OnTheWay(v)'}
  <2>1. Ready' = Ready \ {idx} /\ idx \in Ready
    BY <1>2 DEF Ready
  <2>2. A \ {w} \subseteq B /\ w \in A
    BY <1>3, <1>4, WorkersNoUsers DEF OnTheWay
  <2>3. IsFiniteSet(A) /\ IsFiniteSet(B) /\ IsFiniteSet(Ready) /\ Ready \subseteq Slots
    BY PoolAssumption, SlotNumbers, FS_Subset DEF Ready
  <2>4. Cardinality(Ready) <= Cardinality(A)
    BY DEF WorkersOnTheWay
  <2> HIDE DEF A, B
  <2>5. /\ Cardinality(Ready') = Cardinality(Ready) - 1 /\ Cardinality(A \ {w}) = Cardinality(A) - 1
        /\ IsFiniteSet(A \ {w})
    BY <2>1, <2>2, <2>3, FS_RemoveElement
  <2>6. Cardinality(A \ {w}) <= Cardinality(B)
    BY <2>2, <2>3, FS_Subset
  <2>7. Cardinality(A) \in Nat /\ Cardinality(B) \in Nat /\ Cardinality(Ready) \in Nat
    BY <2>3, FS_CardinalityType
  <2>8. Cardinality(Ready') <= Cardinality(B)
    BY <2>4, <2>5, <2>6, <2>7
  <2> QED BY <2>8 DEF B, WorkersOnTheWay
<1> QED BY <1>4, <1>5, <1>6, <1>7, <1>8 DEF RestOfPool, ThreadInv

LEMMA FinishTaskRest ==
  ASSUME PoolInv, NEW w \in Workers, FinishTask(w) PROVE RestOfPool'
<1> USE DEF PoolInv
<1>1. PICK idx \in Slots : TaskFinished(w, idx, Frame(w))
  BY FinishTaskMoves
<1>2. /\ \A i \in Slots : IsEmpty(i) => IsEmpty(i)'
      /\ \A i \in Slots : IsReady(i)' <=> IsReady(i)
      /\ \A t \in Threads : t # w => stack'[t] = stack[t]
      /\ stack'[w] = <<>>
  BY <1>1, TaskFinishedInv
<1>3. /\ MovesOn(w, "look") /\ (we_are_destructing' <=> we_are_destructing)
      /\ pc[w] = "run" /\ w \in Threads /\ w \notin Users
      /\ UNCHANGED <<flags, argument>>
      /\ \A t \in Threads : sleeps_on'[t] = IF sleeps_on[t] = "done" THEN "awake" ELSE sleeps_on[t]
  BY <1>2, WorkersNoUsers DEF FinishTask, MayEnd, MovesOn, Goto, flags, Awoken
<1>4. /\ pc'[w] = "look" /\ \A u \in Threads : u # w => pc'[u] = pc[u] /\ Place(u)'
  BY <1>3, OthersStay
<1>5. Place(w)'
  BY <1>2, <1>3, <1>4 DEF Place, Outside, ThreadInv, flags, Types
<1>6. Closing' /\ Ending'
  BY <1>2, <1>3, ClosingStays, EndingStays DEF ThreadInv
<1>7. NobodyMissesTheEnd'
  BY <1>3 DEF NobodyMissesTheEnd
<1>8. Ready' = Ready
  BY <1>2 DEF Ready
<1>9. \A v \in Workers : OnTheWay(v) => OnTheWay(v)'
  BY <1>3, <1>4, WorkersNoUsers DEF OnTheWay
<1>10. WorkersOnTheWay'
  BY <1>8, <1>9, OnTheWayStay
<1> QED BY <1>4, <1>5, <1>6, <1>7, <1>10 DEF RestOfPool, ThreadInv

LEMMA AddTaskRest ==
  ASSUME PoolInv, NEW t \in Threads, AddTask(t) PROVE RestOfPool'
<1> USE DEF PoolInv
<1> DEFINE sleepers == {u \in Threads : sleeps_on[u] = "ready"}
<1>1. PICK idx, task : TaskPut(t, idx, task) /\ IsEmpty(idx) /\ idx \in Slots
  <2>1. PICK idx \in FreeSlots : \E task : TaskPut(t, idx, task)
    BY AddTaskMoves
  <2> QED BY <2>1 DEF FreeSlots
<1>2. /\ \A i \in Slots : i # idx => tasks'[i] = tasks[i]
      /\ ~IsEmpty(idx)' /\ IsReady(idx)' /\ stack' = stack
  <2>1. stack' = stack
    BY <1>1 DEF TaskPut
  <2> QED BY <1>1, <2>1, TaskPutInv
<1>3. /\ ~we_are_destructing /\ (t \in Users => NobodyEnds)
      /\ pc[t] \in {"run", "add", "wait_task", "wait_all"} /\ sleeps_on[t] = "awake"
      /\ t \in Workers => pc[t] # "add" /\ stack[t] # <<>> /\ t \in worker_thread_ids
  <2>1. MayCall(t) \/ (pc[t] = "add" /\ sleeps_on[t] = "awake")
    BY DEF AddTask, At
  <2>2. MayCall(t) => sleeps_on[t] = "awake"
    BY DEF MayCall, ThreadInv, Place, Types
  <2> QED BY <2>1, <2>2, InsideTheCall
<1>4. /\ \A u \in Threads : sleeps_on'[u] \in {sleeps_on[u], "awake"}
      /\ sleepers = {} => sleeps_on' = sleeps_on
      /\ sleepers # {} => \E u \in sleepers : sleeps_on'[u] = "awake"
  BY DEF AddTask, Signal, Types
<1>5. /\ MovesOn(t, "run") /\ (we_are_destructing' <=> we_are_destructing)
      /\ UNCHANGED <<flags, argument>>
  BY <1>2, <1>4 DEF AddTask, MovesOn, Goto, flags
<1>6. /\ pc'[t] = "run" /\ \A u \in Threads : u # t => pc'[u] = pc[u] /\ Place(u)'
  BY <1>5, OthersStay
<1>7. Place(t)'
  BY <1>2, <1>3, <1>4, <1>5, <1>6 DEF Place, Outside, ThreadInv, flags
<1>8. Closing' /\ Ending'
  BY <1>3, <1>5, ClosingStays DEF Ending
<1>9. NobodyMissesTheEnd'
  <2> SUFFICES ASSUME NEW u \in Threads, sleeps_on'[u] = "done" PROVE HasToWait(u)'
    BY DEF NobodyMissesTheEnd, HasToWait
  <2>1. u # t /\ pc'[u] = pc[u] /\ argument'[u] = argument[u] /\ sleeps_on[u] = "done"
    BY <1>3, <1>4, <1>5, <1>6
  <2>2. HasToWait(u)
    BY <2>1 DEF NobodyMissesTheEnd, HasToWait
  <2>3. \A i \in Slots : ~IsEmpty(i) => i # idx /\ tasks'[i] = tasks[i] /\ ~IsEmpty(i)'
    BY <1>1, <1>2 DEF IsEmpty
  <2>4. pc[u] # "add"
    BY <1>1, <2>2 DEF HasToWait, FreeSlots
  <2>5. OwnTasks(u) # {} => OwnTasks(u)' # {}
    BY <2>3 DEF OwnTasks
  <2>6. pc[u] = "wait_task" /\ Unfinished(argument[u]) => Unfinished(argument[u])'
    <3> SUFFICES ASSUME pc[u] = "wait_task", Unfinished(argument[u]) PROVE Unfinished(argument[u])'
      OBVIOUS
    <3>1. argument[u] >= 1
      BY DEF ThreadInv, Place
    <3>2. PICK i \in Slots : i = argument[u] % N /\ tasks[i].task_id = argument[u]
      BY DEF Unfinished
    <3>3. ~IsEmpty(i)
      BY <3>1, <3>2 DEF IsEmpty
    <3> QED BY <2>1, <2>3, <3>2, <3>3 DEF Unfinished
  <2>7. FreeSlots' # Slots
    BY <1>1, <1>2 DEF FreeSlots
  <2> QED BY <2>1, <2>2, <2>4, <2>5, <2>6, <2>7 DEF HasToWait
<1>10. WorkersOnTheWay'
  <2> DEFINE A == {v \in Workers : OnTheWay(v)}
             B == {v \in Workers : OnTheWay(v)'}
  <2>1. Ready' = Ready \cup {idx} /\ idx \notin Ready
    <3>1. \A i \in Slots : IsReady(i)' <=> IsReady(i) \/ i = idx
      BY <1>1, <1>2 DEF IsReady, IsEmpty
    <3> QED BY <1>1, <3>1 DEF Ready, IsReady
  <2>2. A \subseteq B
    <3> SUFFICES ASSUME NEW v \in Workers, OnTheWay(v) PROVE OnTheWay(v)'
      OBVIOUS
    <3>1. v \in Threads /\ v # t
      BY <1>3 DEF OnTheWay, Threads
    <3>2. sleeps_on[v] = "awake" => sleeps_on'[v] = "awake"
      BY <1>4, <3>1
    <3> QED BY <1>6, <3>1, <3>2 DEF OnTheWay
  <2>3. /\ IsFiniteSet(A) /\ IsFiniteSet(B) /\ IsFiniteSet(Ready) /\ Ready \subseteq Slots
        /\ IsFiniteSet(Ready')
    BY PoolAssumption, SlotNumbers, FS_Subset DEF Ready
  <2>4. /\ Cardinality(A) \in Nat /\ Cardinality(B) \in Nat /\ Cardinality(Ready) \in Nat
        /\ Cardinality(Ready') = Cardinality(Ready) + 1
    <3> HIDE DEF A, B
    <3> QED BY <2>1, <2>3, FS_CardinalityType, FS_AddElement
  <2>5. Cardinality(Ready') <= Cardinality(B)
    <3>1. CASE sleepers # {}
      <4>1. PICK u \in sleepers : sleeps_on'[u] = "awake"
        BY <1>4, <3>1
      <4>2. u \in Threads /\ sleeps_on[u] = "ready" /\ pc[u] = "look" /\ u \in Workers /\ u # t
        BY <1>3 DEF ThreadInv, Place, Threads
      <4>3. u \in B /\ u \notin A
        BY <1>6, <4>1, <4>2 DEF OnTheWay
      <4>4. Cardinality(A \cup {u}) = Cardinality(A) + 1 /\ A \cup {u} \subseteq B
        <5> HIDE DEF A, B
        <5> QED BY <2>2, <2>3, <4>3, FS_AddElement
      <4>5. Cardinality(A \cup {u}) <= Cardinality(B)
        <5> HIDE DEF A, B
        <5> QED BY <2>3, <4>4, FS_Subset
      <4>6. Cardinality(Ready) <= Cardinality(A)
        BY DEF WorkersOnTheWay
      <4> HIDE DEF A, B
      <4> QED BY <2>4, <4>4, <4>5, <4>6
    <3>2. CASE sleepers = {}
      <4>1. Ready' \in SUBSET Slots
        BY <1>1, <2>1, <2>3
      <4>2. \A i \in Ready' : ~tasks[i].busy
        BY <1>1, <2>1 DEF Ready, IsReady, TaskInv, SlotSound
      <4>3. Cardinality(Ready') <= Cardinality(A)
        <5>1. \A u \in Threads : sleeps_on[u] # "ready"
          BY <3>2
        <5> DEFINE R == Ready'
        <5>2. R \in SUBSET Slots /\ \A i \in R : ~tasks[i].busy
          BY <4>1, <4>2
        <5> HIDE DEF R
        <5>3. Cardinality(R) <= Cardinality(A)
          BY <1>3, <5>1, <5>2, EnoughWorkers
        <5> QED BY <5>3 DEF R
      <4>4. Cardinality(A) <= Cardinality(B)
        <5> HIDE DEF A, B
        <5> QED BY <2>2, <2>3, FS_Subset
      <4> HIDE DEF A, B
      <4> QED BY <2>4, <4>3, <4>4
    <3> QED BY <3>1, <3>2
  <2> QED BY <2>5 DEF WorkersOnTheWay
<1> QED BY <1>6, <1>7, <1>8, <1>9, <1>10 DEF RestOfPool, ThreadInv

LEMMA WaitSlotRest ==
  ASSUME PoolInv, NEW t \in Threads, WaitSlot(t) PROVE RestOfPool'
<1> USE DEF PoolInv
<1>1. /\ ~we_are_destructing /\ (t \in Users => NobodyEnds)
      /\ pc[t] \in {"run", "add", "wait_task", "wait_all"}
      /\ t \in Workers => t \in worker_thread_ids
  BY InsideTheCall DEF WaitSlot, At
<1>2. t \in Users /\ t \notin Workers
  BY <1>1, WorkersNoUsers DEF WaitSlot, IsWorkerThread, Threads
<1>3. /\ MovesOn(t, "add") /\ (we_are_destructing' <=> we_are_destructing)
      /\ sleeps_on'[t] = "done" /\ FreeSlots = {}
      /\ UNCHANGED <<tasks, flags, argument, stack>>
  BY DEF WaitSlot, Sleep, MovesOn, Goto, flags, Types
<1>4. /\ pc'[t] = "add" /\ \A u \in Threads : u # t => pc'[u] = pc[u] /\ Place(u)'
  BY <1>3, OthersStay
<1>5. Place(t)'
  BY <1>2, <1>3, <1>4 DEF Place
<1>6. Closing' /\ Ending'
  BY <1>1, <1>3, ClosingStays DEF Ending
<1>7. NobodyMissesTheEnd'
  <2>1. HasToWait(t)'
    BY <1>3, <1>4 DEF HasToWait, FreeSlots, IsEmpty
  <2> QED BY <1>3, <2>1, SleepersStay
<1>8. Ready' = Ready
  BY <1>3 DEF Ready, IsReady, IsEmpty
<1>9. \A v \in Workers : OnTheWay(v) => OnTheWay(v)'
  BY <1>2, <1>3, <1>4, WorkersNoUsers DEF OnTheWay, MovesOn
<1>10. WorkersOnTheWay'
  BY <1>8, <1>9, OnTheWayStay
<1> QED BY <1>4, <1>5, <1>6, <1>7, <1>10 DEF RestOfPool, ThreadInv

(* A thread that runs a task at once stays where it is.                    *)
LEMMA InlineRest ==
  ASSUME PoolInv, NEW t \in Threads, RunInline(t) \/ FinishInline(t) PROVE RestOfPool'
<1> USE DEF PoolInv
<1>1. /\ pc[t] = "run" /\ UNCHANGED <<tasks, flags, pc, sleeps_on, argument>>
      /\ RunInline(t) /\ t \in Users => NobodyEnds
  BY DEF RunInline, FinishInline, MayCall, MayEnd, NobodyEnds
<1>2. /\ \A u \in Threads : u # t => stack'[u] = stack[u]
      /\ t \in Workers => stack[t] # <<>> /\ stack'[t] # <<>>
  <2>1. t \in Workers => stack[t] # <<>>
    BY <1>1 DEF ThreadInv, Place, Outside
  <2>2. CASE RunInline(t)
    <3>1. PICK task : TaskNested(t, task)
      BY <2>2, RunInlineMoves
    <3> QED BY <2>1, <3>1, TaskNestedInv
  <2>3. CASE FinishInline(t)
    <3>1. TaskReturned(t, Frame(t))
      BY <2>3, FinishInlineMoves
    <3> QED BY <2>1, <3>1, TaskReturnedInv
  <2> QED BY <2>2, <2>3
<1>3. ASSUME NEW u \in Threads PROVE Place(u)'
  <2>1. Place(u)
    BY DEF ThreadInv
  <2>2. CASE u = t
    BY <1>1, <1>2, <2>1, <2>2 DEF Place, Outside, flags
  <2>3. CASE u # t
    BY <1>1, <1>2, <2>1, <2>3 DEF Place, Outside, flags
  <2> QED BY <2>2, <2>3
<1>4. Closing'
  <2>1. CASE t \in Users
    <3>1. NobodyEnds
      <4>1. ASSUME FinishInline(t) PROVE stack[t] # <<>>
        <5>1. stack[t] \in Seq(Nat) /\ Len(stack[t]) > 0
          BY <4>1 DEF Types, FinishInline
        <5>2. stack[t] = <<>> => Len(stack[t]) = 0
          OBVIOUS
        <5> QED BY <5>1, <5>2
      <4> QED BY <1>1, <2>1, <4>1 DEF ThreadInv, Closing, NobodyEnds
    <3> QED BY <1>1, <3>1 DEF Closing, NobodyEnds
  <2>2. CASE t \notin Users
    <3>1. \A u \in Users : u \in Threads /\ u # t
      BY <2>2 DEF Threads
    <3> QED BY <1>1, <1>2, <3>1 DEF ThreadInv, Closing
  <2> QED BY <2>1, <2>2
<1>5. Ending' /\ NobodyMissesTheEnd' /\ WorkersOnTheWay'
  BY <1>1 DEF ThreadInv, Ending, FreeSlots, IsEmpty, flags, NobodyMissesTheEnd, Unfinished, OwnTasks,
              WorkersOnTheWay, Ready, IsReady, OnTheWay
<1> QED BY <1>3, <1>4, <1>5 DEF RestOfPool, ThreadInv

(* The task a thread waits for has an id.                                  *)
LEMMA WaitedIds ==
  ASSUME Types, TaskInv, NEW k \in DOMAIN made PROVE made[k].id \in Nat /\ made[k].id >= 1
<1>1. made[k].id \in Nat
  BY MadeTypes
<1>2. CASE made[k].id # 1
  <2>1. PICK i \in Slots : \E n \in 2 .. tasks[i].next_task_id - 1 : made[k].id = n * N + i
    BY <1>2 DEF TaskInv, TaskSound, GivenBy
  <2>2. PICK n \in 2 .. tasks[i].next_task_id - 1 : made[k].id = n * N + i
    BY <2>1
  <2>3. n \in Nat /\ n >= 2
    BY MadeTypes
  <2> QED BY <2>2, <2>3, IdsAboveOne
<1> QED BY <1>1, <1>2

LEMMA WaitForTaskRest ==
  ASSUME PoolInv, NEW t \in Threads, WaitForTask(t) PROVE RestOfPool'
<1> USE DEF PoolInv
<1>1. /\ ~we_are_destructing /\ (t \in Users => NobodyEnds)
      /\ pc[t] \in {"run", "add", "wait_task", "wait_all"} /\ sleeps_on[t] = "awake"
      /\ t \in Workers => pc[t] # "add" /\ stack[t] # <<>> /\ t \in worker_thread_ids
  <2>1. MayCall(t) \/ (pc[t] = "wait_task" /\ sleeps_on[t] = "awake")
    BY DEF WaitForTask
  <2>2. MayCall(t) => sleeps_on[t] = "awake"
    BY DEF MayCall, ThreadInv, Place, Types
  <2> QED BY <2>1, <2>2, InsideTheCall
<1>2. PICK place \in {"run", "wait_task"} : pc' = [pc EXCEPT ![t] = place]
  BY DEF WaitForTask, Sleep, Goto
<1>3. /\ \A u \in Threads : u # t => argument'[u] = argument[u]
      /\ argument'[t] >= 1
  <2>1. \A k \in Children(Frame(t)) : made[k].id \in Nat /\ made[k].id >= 1
    BY WaitedIds DEF Children
  <2>2. pc[t] = "wait_task" => argument[t] >= 1
    BY DEF ThreadInv, Place
  <2> QED BY <2>1, <2>2 DEF WaitForTask, Types
<1>4. /\ \A u \in Threads : u # t => sleeps_on'[u] = sleeps_on[u]
      /\ place = "wait_task" => sleeps_on'[t] = "done" /\ Unfinished(argument'[t])
      /\ place = "run" => sleeps_on'[t] = "awake"
  <2>1. pc'[t] = place
    BY <1>2 DEF Types
  <2> QED BY <1>1, <2>1 DEF WaitForTask, Sleep, Goto, Types
<1>5. /\ MovesOn(t, place) /\ (we_are_destructing' <=> we_are_destructing)
      /\ UNCHANGED <<tasks, flags, stack>>
  BY <1>2, <1>3, <1>4 DEF WaitForTask, MovesOn, flags
<1>6. /\ pc'[t] = place /\ \A u \in Threads : u # t => pc'[u] = pc[u] /\ Place(u)'
  BY <1>5, OthersStay
<1>7. Place(t)'
  BY <1>1, <1>3, <1>4, <1>5, <1>6 DEF Place, Outside, flags
<1>8. Closing' /\ Ending'
  BY <1>1, <1>5, ClosingStays DEF Ending
<1>9. NobodyMissesTheEnd'
  <2>1. Unfinished(argument'[t]) => \E i \in Slots : i = argument'[t] % N /\ tasks'[i].task_id = argument'[t]
    BY <1>5 DEF Unfinished
  <2>2. sleeps_on'[t] = "done" => HasToWait(t)'
    BY <1>4, <1>6, <2>1 DEF HasToWait, Unfinished
  <2> QED BY <1>5, <2>2, SleepersStay
<1>10. Ready' = Ready
  BY <1>5 DEF Ready, IsReady, IsEmpty
<1>11. \A v \in Workers : OnTheWay(v) => OnTheWay(v)'
  BY <1>1, <1>4, <1>6, WorkersNoUsers DEF OnTheWay
<1>12. WorkersOnTheWay'
  BY <1>10, <1>11, OnTheWayStay
<1> QED BY <1>6, <1>7, <1>8, <1>9, <1>12 DEF RestOfPool, ThreadInv

LEMMA WaitForAllTasksRest ==
  ASSUME PoolInv, NEW t \in Threads, WaitForAllTasks(t) PROVE RestOfPool'
<1> USE DEF PoolInv
<1>1. /\ ~we_are_destructing /\ (t \in Users => NobodyEnds)
      /\ pc[t] \in {"run", "add", "wait_task", "wait_all"} /\ sleeps_on[t] = "awake"
      /\ t \in Workers => pc[t] # "add" /\ stack[t] # <<>> /\ t \in worker_thread_ids
  <2>1. MayCall(t) \/ (pc[t] = "wait_all" /\ sleeps_on[t] = "awake")
    BY DEF WaitForAllTasks, At
  <2>2. MayCall(t) => sleeps_on[t] = "awake"
    BY DEF MayCall, ThreadInv, Place, Types
  <2> QED BY <2>1, <2>2, InsideTheCall
<1>2. PICK place \in {"run", "wait_all"} : pc' = [pc EXCEPT ![t] = place]
  BY DEF WaitForAllTasks, Sleep, Goto
<1>3. /\ \A u \in Threads : u # t => sleeps_on'[u] = sleeps_on[u]
      /\ place = "wait_all" => sleeps_on'[t] = "done" /\ OwnTasks(t) # {}
      /\ place = "run" => sleeps_on'[t] = "awake"
  <2>1. pc'[t] = place
    BY <1>2 DEF Types
  <2> QED BY <1>1, <2>1 DEF WaitForAllTasks, Sleep, Goto, Types
<1>4. /\ MovesOn(t, place) /\ (we_are_destructing' <=> we_are_destructing)
      /\ UNCHANGED <<tasks, flags, stack, argument>>
  BY <1>2, <1>3 DEF WaitForAllTasks, MovesOn, flags
<1>5. /\ pc'[t] = place /\ \A u \in Threads : u # t => pc'[u] = pc[u] /\ Place(u)'
  BY <1>4, OthersStay
<1>6. Place(t)'
  BY <1>1, <1>3, <1>4, <1>5 DEF Place, Outside, flags
<1>7. Closing' /\ Ending'
  BY <1>1, <1>4, ClosingStays DEF Ending
<1>8. NobodyMissesTheEnd'
  <2>1. OwnTasks(t)' = OwnTasks(t)
    BY <1>4 DEF OwnTasks, IsEmpty
  <2>2. sleeps_on'[t] = "done" => HasToWait(t)'
    BY <1>3, <1>5, <2>1 DEF HasToWait
  <2> QED BY <1>4, <2>2, SleepersStay
<1>9. Ready' = Ready
  BY <1>4 DEF Ready, IsReady, IsEmpty
<1>10. \A v \in Workers : OnTheWay(v) => OnTheWay(v)'
  BY <1>1, <1>3, <1>5, WorkersNoUsers DEF OnTheWay
<1>11. WorkersOnTheWay'
  BY <1>9, <1>10, OnTheWayStay
<1> QED BY <1>5, <1>6, <1>7, <1>8, <1>11 DEF RestOfPool, ThreadInv

LEMMA DrainRest ==
  ASSUME PoolInv, NEW t \in Threads, Drain(t) PROVE RestOfPool'
<1> USE DEF PoolInv
<1>1. /\ t \in Users /\ t \notin Workers /\ sleeps_on[t] = "awake" /\ pc[t] \in {"run", "drain"}
      /\ \A u \in Users : stack[u] = <<>> /\ (u # t => pc[u] = "run")
      /\ UNCHANGED <<tasks, stack, argument, worker_thread_ids>>
  <2>1. CASE t \in Users /\ MayCall(t) /\ \A u \in Users : pc[u] = "run" /\ stack[u] = <<>>
    BY <2>1, WorkersNoUsers DEF Drain, MayCall, ThreadInv, Place, Types
  <2>2. CASE pc[t] = "drain" /\ sleeps_on[t] = "awake"
    <3>1. t \in Users /\ t \notin Workers
      BY <2>2, WorkersNoUsers DEF ThreadInv, Place, Outside, Threads
    <3>2. \A u \in Users : stack[u] = <<>> /\ (u # t => pc[u] = "run")
      BY <2>2, <3>1 DEF ThreadInv, Closing
    <3> QED BY <2>2, <3>1, <3>2 DEF Drain
  <2> QED BY <2>1, <2>2 DEF Drain
<1>2. /\ FreeSlots' = FreeSlots /\ Ready' = Ready
  BY <1>1 DEF FreeSlots, Ready, IsReady, IsEmpty
<1>3. CASE FreeSlots # Slots
  <2>1. /\ MovesOn(t, "drain") /\ (we_are_destructing' <=> we_are_destructing)
        /\ sleeps_on'[t] = "done" /\ \A u \in Threads : u # t => sleeps_on'[u] = sleeps_on[u]
    BY <1>1, <1>3 DEF Drain, Sleep, MovesOn, Goto, Types
  <2>2. /\ pc'[t] = "drain" /\ \A u \in Threads : u # t => pc'[u] = pc[u] /\ Place(u)'
    BY <2>1, OthersStay
  <2>3. Place(t)'
    BY <1>1, <2>1, <2>2 DEF Place
  <2>4. Closing'
    BY <1>1, <2>2 DEF Closing, Threads
  <2>5. Ending'
    BY <1>3, <2>1 DEF ThreadInv, Ending
  <2>6. NobodyMissesTheEnd'
    <3>1. sleeps_on'[t] = "done" => HasToWait(t)'
      BY <1>2, <1>3, <2>2 DEF HasToWait
    <3> QED BY <1>1, <2>1, <3>1, SleepersStay
  <2>7. \A v \in Workers : OnTheWay(v) => OnTheWay(v)'
    BY <1>1, <2>1, <2>2, WorkersNoUsers DEF OnTheWay
  <2>8. WorkersOnTheWay'
    BY <1>2, <2>7, OnTheWayStay
  <2> QED BY <2>2, <2>3, <2>4, <2>5, <2>6, <2>8 DEF RestOfPool, ThreadInv
<1>4. CASE FreeSlots = Slots
  <2>1. /\ we_are_destructing' = TRUE
        /\ \A u \in Threads : sleeps_on'[u] = IF sleeps_on[u] = "ready" THEN "awake" ELSE sleeps_on[u]
        /\ pc'[t] = "join" /\ \A u \in Threads : u # t => pc'[u] = pc[u]
        /\ MovesOn(t, "join")
    BY <1>1, <1>4 DEF Drain, Goto, MovesOn, Types, Awoken
  <2>2. ASSUME NEW u \in Threads PROVE Place(u)'
    <3>1. Place(u)
      BY DEF ThreadInv
    <3>2. CASE u = t
      BY <1>1, <2>1, <3>1, <3>2 DEF Place
    <3>3. CASE u # t
      BY <1>1, <2>1, <3>1, <3>3 DEF Place
    <3> QED BY <3>2, <3>3
  <2>3. Closing'
    BY <1>1, <2>1 DEF Closing, Threads
  <2>4. Ending'
    BY <1>1, <1>2, <1>4, <2>1 DEF Ending
  <2>5. NobodyMissesTheEnd'
    <3>1. sleeps_on'[t] # "done"
      BY <1>1, <2>1
    <3> QED BY <1>1, <2>1, <3>1, SleepersStay
  <2>6. Ready' = {}
    BY <1>2, <1>4 DEF FreeSlots, Ready, IsReady
  <2>7. WorkersOnTheWay'
    BY <2>6, NoneReady
  <2> QED BY <2>2, <2>3, <2>4, <2>5, <2>7 DEF RestOfPool, ThreadInv
<1> QED BY <1>3, <1>4

LEMMA JoinedRest ==
  ASSUME PoolInv, NEW t \in Threads, Joined(t) PROVE RestOfPool'
<1> USE DEF PoolInv
<1>1. /\ t \in Users /\ t \notin Workers /\ sleeps_on[t] = "awake" /\ pc[t] = "join"
      /\ UNCHANGED <<tasks, stack, argument, flags, sleeps_on>>
  BY WorkersNoUsers DEF Joined, ThreadInv, Place, Outside, Threads, Types
<1>2. /\ MovesOn(t, "gone") /\ (we_are_destructing' <=> we_are_destructing)
  BY <1>1 DEF Joined, MovesOn, Goto, flags
<1>3. /\ pc'[t] = "gone" /\ \A u \in Threads : u # t => pc'[u] = pc[u] /\ Place(u)'
  BY <1>2, OthersStay
<1>4. Place(t)'
  BY <1>1, <1>3 DEF Place
<1>5. Closing'
  BY <1>1, <1>3 DEF ThreadInv, Closing, Threads
<1>6. Ending'
  BY <1>1, <1>2, EndingStays DEF ThreadInv, IsEmpty
<1>7. NobodyMissesTheEnd'
  BY <1>1, <1>2, SleepersStay
<1>8. Ready' = Ready
  BY <1>1 DEF Ready, IsReady, IsEmpty
<1>9. \A v \in Workers : OnTheWay(v) => OnTheWay(v)'
  BY <1>1, <1>3, WorkersNoUsers DEF OnTheWay
<1>10. WorkersOnTheWay'
  BY <1>8, <1>9, OnTheWayStay
<1> QED BY <1>3, <1>4, <1>5, <1>6, <1>7, <1>10 DEF RestOfPool, ThreadInv

-----------------------------------------------------------------------------
(* The invariant, and what it says.                                        *)

LEMMA InitPool == PoolInit => PoolInv
<1> SUFFICES ASSUME PoolInit PROVE PoolInv
  OBVIOUS
<1> USE DEF PoolInit
<1>1. Types
  <2>1. EmptySlot \in SlotRecords
    BY DEF EmptySlot, SlotRecords
  <2>2. made \in Seq(TaskRecords) /\ Len(made) = 0 /\ DOMAIN made = {}
    OBVIOUS
  <2>3. stack \in [Threads -> Seq(Nat)]
    <3>1. <<>> \in Seq(Nat)
      OBVIOUS
    <3> QED BY <3>1
  <2>4. /\ tasks \in [Slots -> SlotRecords] /\ we_are_destructing \in BOOLEAN
        /\ sleeps_on \in [Threads -> {"awake", "ready", "done"}] /\ argument \in [Threads -> Nat]
    BY <2>1
  <2>5. pc \in [Threads -> {"start", "look", "run", "add", "wait_task", "wait_all", "drain", "join", "gone"}]
    OBVIOUS
  <2> HIDE DEF PoolInit
  <2>6. worker_thread_ids \subseteq Workers /\ orphans \in BOOLEAN
    BY DEF PoolInit
  <2> QED BY <2>2, <2>3, <2>4, <2>5, <2>6, PoolAssumption DEF Types
<1>2. /\ DOMAIN made = {} /\ \A t \in Threads : stack[t] = <<>> /\ DOMAIN stack[t] = {}
      /\ \A i \in Slots : IsEmpty(i) /\ ~tasks[i].busy /\ tasks[i].job = 0 /\ tasks[i].next_task_id = 2
  BY DEF EmptySlot, IsEmpty
<1>3. TaskInv
  BY <1>2 DEF TaskInv, SlotSound, TaskSound, OwnIds, StackSound, OnOneStack
<1>4. ThreadInv
  <2>1. \A t \in Threads : Place(t)
    BY <1>2, WorkersNoUsers DEF Place, Outside
  <2>2. \A u \in Users : u \in Threads /\ pc[u] = "run"
    BY WorkersNoUsers DEF Threads
  <2> QED BY <2>1, <2>2 DEF ThreadInv, Closing, Ending
<1>5. NobodyMissesTheEnd
  BY DEF NobodyMissesTheEnd
<1>6. WorkersOnTheWay
  <2>1. Ready = {}
    BY <1>2 DEF Ready, IsReady
  <2>2. IsFiniteSet({w \in Workers : OnTheWay(w)})
    BY PoolAssumption, FS_Subset
  <2>3. Cardinality({w \in Workers : OnTheWay(w)}) \in Nat /\ Cardinality(Ready) = 0
    BY <2>1, <2>2, FS_CardinalityType, FS_EmptySet
  <2>4. Cardinality(Ready) <= Cardinality({w \in Workers : OnTheWay(w)})
    BY <2>3
  <2> QED BY <2>4 DEF WorkersOnTheWay
<1> QED BY <1>1, <1>3, <1>4, <1>5, <1>6 DEF PoolInv

LEMMA PoolStep == PoolInv /\ [PoolNext]_poolVars => PoolInv'
<1> SUFFICES ASSUME PoolInv, [PoolNext]_poolVars PROVE Types' /\ TaskInv' /\ RestOfPool'
  BY DEF PoolInv, RestOfPool
<1>1. ASSUME NEW w \in Workers, Work(w) PROVE Types' /\ TaskInv' /\ RestOfPool'
  <2>1. w \in Threads
    BY DEF Threads
  <2>2. CASE Register(w)
    BY <2>1, <2>2, QuietStep, RegisterRest
  <2>3. CASE WaitReady(w)
    BY <2>1, <2>3, QuietStep, WaitReadyRest
  <2>4. CASE Quit(w)
    BY <2>1, <2>4, QuietStep, QuitRest
  <2>5. CASE TakeTask(w)
    BY <2>5, TakeTaskTypes, TakeTaskRest
  <2>6. CASE FinishTask(w)
    BY <2>6, FinishTaskTypes, FinishTaskRest
  <2> QED BY <1>1, <2>2, <2>3, <2>4, <2>5, <2>6 DEF Work
<1>2. ASSUME NEW t \in Threads, GoOn(t) \/ Call(t) PROVE Types' /\ TaskInv' /\ RestOfPool'
  <2>1. CASE AddTask(t)
    BY <2>1, AddTaskTypes, AddTaskRest
  <2>2. CASE WaitSlot(t)
    BY <2>2, QuietStep, WaitSlotRest
  <2>3. CASE WaitForTask(t)
    BY <2>3, QuietStep, WaitForTaskRest
  <2>4. CASE WaitForAllTasks(t)
    BY <2>4, QuietStep, WaitForAllTasksRest
  <2>5. CASE Drain(t)
    BY <2>5, QuietStep, DrainRest
  <2>6. CASE Joined(t)
    BY <2>6, QuietStep, JoinedRest
  <2>7. CASE RunInline(t) \/ FinishInline(t)
    BY <2>7, InlineTypes, InlineRest
  <2> QED BY <1>2, <2>1, <2>2, <2>3, <2>4, <2>5, <2>6, <2>7 DEF GoOn, Call
<1>3. CASE UNCHANGED poolVars
  <2> USE <1>3 DEF poolVars, PoolInv
  <2>1. UNCHANGED <<tasks, flags, pc, sleeps_on, argument, stack, made>>
    OBVIOUS
  <2>2. Types' /\ TaskInv'
    BY <2>1, TasksStay DEF Types, flags
  <2>3. (\A t \in Threads : Place(t)') /\ Closing' /\ Ending'
    BY <2>1 DEF ThreadInv, Place, Closing, Ending, FreeSlots, IsEmpty, flags
  <2>4. NobodyMissesTheEnd' /\ WorkersOnTheWay'
    BY <2>1 DEF NobodyMissesTheEnd, FreeSlots, IsEmpty, Unfinished, OwnTasks,
                WorkersOnTheWay, Ready, IsReady, OnTheWay
  <2> QED BY <2>2, <2>3, <2>4 DEF RestOfPool, ThreadInv
<1> QED BY <1>1, <1>2, <1>3 DEF PoolNext

LEMMA PoolInvariant == PoolSpec => []PoolInv
BY InitPool, PoolStep, PTL DEF PoolSpec

LEMMA TypesHold == PoolInv => PoolTypeOK
<1> SUFFICES ASSUME PoolInv PROVE PoolTypeOK
  OBVIOUS
<1> USE DEF PoolInv
<1>1. ASSUME NEW i \in Slots PROVE tasks[i].job \in 0 .. MaxTasks
  <2>1. CASE IsEmpty(i)
    BY <2>1, PoolAssumption DEF TaskInv, SlotSound
  <2>2. CASE ~IsEmpty(i)
    BY <2>2, HeldIds, MadeTypes, PoolAssumption
  <2> QED BY <2>1, <2>2
<1>2. \A i \in Slots :
        /\ tasks[i].task_id \in Nat /\ tasks[i].busy \in BOOLEAN /\ tasks[i].next_task_id \in Nat
        /\ tasks[i].thread_id \in Threads \cup {"none"}
  BY MadeTypes
<1>3. \A t \in Threads : \A n \in DOMAIN stack[t] : stack[t][n] \in DOMAIN made
  BY DEF TaskInv, StackSound
<1>4. \A k \in DOMAIN made :
        /\ made[k].id \in Nat /\ made[k].by \in Threads /\ made[k].parent \in Threads \cup DOMAIN made
        /\ made[k].state \in {"ready", "running", "done"}
  BY MadeTypes
<1> QED BY <1>1, <1>2, <1>3, <1>4 DEF Types, PoolTypeOK

LEMMA OneSlotEach ==
  ASSUME PoolInv, NEW k \in DOMAIN made
  PROVE  Cardinality({i \in Slots : ~IsEmpty(i) /\ tasks[i].job = k /\ tasks[i].task_id = made[k].id})
           = IF made[k].id # 1 /\ ~Done(k) THEN 1 ELSE 0
<1> DEFINE S == {i \in Slots : ~IsEmpty(i) /\ tasks[i].job = k /\ tasks[i].task_id = made[k].id}
<1> USE DEF PoolInv
<1>1. CASE made[k].id # 1 /\ ~Done(k)
  <2>1. PICK i \in Slots : ~IsEmpty(i) /\ tasks[i].job = k
    BY <1>1 DEF TaskInv, TaskSound
  <2>2. tasks[i].task_id = made[k].id
    BY <2>1 DEF TaskInv, SlotSound
  <2>3. S = {i}
    BY <2>1, <2>2, JobsDiffer
  <2>4. Cardinality(S) = 1
    BY <2>3, FS_Singleton
  <2> QED BY <1>1, <2>4
<1>2. CASE ~(made[k].id # 1 /\ ~Done(k))
  <2>1. ASSUME NEW i \in S PROVE FALSE
    <3>1. ~IsEmpty(i) /\ tasks[i].job = k
      OBVIOUS
    <3>2. made[k].id > 1
      BY <3>1, HeldIds
    <3>3. made[k].state = IF tasks[i].busy THEN "running" ELSE "ready"
      BY <3>1 DEF TaskInv, SlotSound
    <3>4. ~Done(k)
      BY <3>3 DEF Done
    <3> QED BY <1>2, <3>2, <3>4
  <2>2. S = {}
    BY <2>1
  <2>3. Cardinality(S) = 0
    BY <2>2, FS_EmptySet
  <2> QED BY <1>2, <2>3
<1> QED BY <1>1, <1>2

LEMMA OneThreadEach ==
  ASSUME PoolInv, NEW k \in DOMAIN made
  PROVE  Cardinality({t \in Busy : \E n \in DOMAIN stack[t] : stack[t][n] = k})
           = IF made[k].state = "running" THEN 1 ELSE 0
<1> DEFINE S == {t \in Busy : \E n \in DOMAIN stack[t] : stack[t][n] = k}
<1> USE DEF PoolInv
<1>1. CASE made[k].state = "running"
  <2>1. PICK t \in Threads : \E n \in DOMAIN stack[t] : stack[t][n] = k
    BY <1>1 DEF TaskInv, TaskSound
  <2>2. stack[t] # <<>>
    BY <2>1
  <2>3. ASSUME NEW u \in S PROVE u = t
    BY <2>1 DEF Busy, TaskInv, OnOneStack
  <2>4. S = {t}
    BY <2>1, <2>2, <2>3 DEF Busy
  <2>5. Cardinality(S) = 1
    BY <2>4, FS_Singleton
  <2> QED BY <1>1, <2>5
<1>2. CASE made[k].state # "running"
  <2>1. S = {}
    BY <1>2 DEF Busy, TaskInv, StackSound
  <2>2. Cardinality(S) = 0
    BY <2>1, FS_EmptySet
  <2> QED BY <1>2, <2>2
<1> QED BY <1>1, <1>2

LEMMA OnePlaceHolds == PoolInv => OnePlace
<1> SUFFICES ASSUME PoolInv PROVE OnePlace
  OBVIOUS
<1> USE DEF PoolInv
<1>1. ASSUME NEW k \in DOMAIN made
      PROVE  made[k].state = "ready" <=> \E i \in Slots : IsReady(i) /\ tasks[i].job = k
  <2>1. ASSUME made[k].state = "ready" PROVE \E i \in Slots : IsReady(i) /\ tasks[i].job = k
    <3>1. PICK i \in Slots : ~IsEmpty(i) /\ tasks[i].job = k
      BY <2>1 DEF TaskInv, TaskSound, Done
    <3>2. made[k].state = IF tasks[i].busy THEN "running" ELSE "ready"
      BY <3>1 DEF TaskInv, SlotSound
    <3> QED BY <2>1, <3>1, <3>2 DEF IsReady
  <2>2. ASSUME NEW i \in Slots, IsReady(i), tasks[i].job = k PROVE made[k].state = "ready"
    BY <2>2 DEF IsReady, TaskInv, SlotSound
  <2> QED BY <2>1, <2>2
<1>2. ASSUME NEW i \in Slots
      PROVE  tasks[i].busy <=> \E w \in Workers \cap Busy : stack[w][1] = tasks[i].job
  <2>1. ASSUME tasks[i].busy PROVE \E w \in Workers \cap Busy : stack[w][1] = tasks[i].job
    BY <2>1, BusySlotsWorker, WorkersNoUsers DEF Busy
  <2>2. ASSUME NEW w \in Workers \cap Busy, stack[w][1] = tasks[i].job PROVE tasks[i].busy
    <3>1. PICK j \in Slots : ~IsEmpty(j) /\ tasks[j].busy /\ tasks[j].job = stack[w][1]
      BY WorkersSlot DEF Busy
    <3>2. tasks[j].job >= 1
      BY <3>1, HeldIds, MadeTypes
    <3>3. ~IsEmpty(i)
      BY <2>2, <3>1, <3>2 DEF TaskInv, SlotSound
    <3> QED BY <2>2, <3>1, <3>3, JobsDiffer
  <2> QED BY <2>1, <2>2
<1> QED BY <1>1, <1>2, OneSlotEach, OneThreadEach DEF OnePlace

LEMMA IdsFreshHolds == PoolInv => IdsFresh
<1> SUFFICES ASSUME PoolInv, NEW k \in DOMAIN made, NEW l \in DOMAIN made, made[k].id # 1
             PROVE  made[k].id > 1 /\ (k # l => made[k].id # made[l].id)
  BY DEF IdsFresh
<1>1. made[k].id > 1
  BY WaitedIds DEF PoolInv
<1> QED BY <1>1 DEF PoolInv, TaskInv, OwnIds

LEMMA DrainedHolds == PoolInv => DrainedBeforeEnd
<1> SUFFICES ASSUME PoolInv, we_are_destructing, NEW k \in DOMAIN made, ~Done(k) PROVE FALSE
  BY DEF DrainedBeforeEnd
<1>1. /\ \A i \in Slots : IsEmpty(i)
      /\ \A t \in Threads : stack[t] = <<>>
  BY EndedPool DEF Threads
<1>2. made[k].state = "ready" \/ made[k].state = "running"
  BY MadeTypes DEF Done, PoolInv
<1>3. made[k].state # "running"
  BY <1>1 DEF PoolInv, TaskInv, TaskSound
<1> QED BY <1>1, <1>2, <1>3 DEF PoolInv, TaskInv, TaskSound

(* The pool's bookkeeping (thread_pool_extension.cpp): no task is lost or  *)
(* run twice, no id is given twice, there is a worker on the way to every  *)
(* task that is ready, nobody sleeps over an end, and all tasks have ended *)
(* before the pool does.                                                   *)
THEOREM PoolKeepsItsBooks == PoolSpec => []PoolSound
<1>1. PoolInv => PoolSound
  BY TypesHold, OnePlaceHolds, IdsFreshHolds, DrainedHolds DEF PoolSound, PoolInv
<1> QED BY <1>1, PoolInvariant, PTL

-----------------------------------------------------------------------------
(* wait_for_task() and wait_for_all_tasks().                               *)

LEMMA WaitReturns ==
  ASSUME PoolInv, NEW t \in Threads, WaitForTask(t), pc'[t] = "run",
         NEW k \in DOMAIN made, made[k].id = argument'[t], made[k].id # 1
  PROVE  Done(k)
<1> USE DEF PoolInv
<1>1. ~(N # 0 /\ Unfinished(argument'[t]))
  <2>1. pc' = [pc EXCEPT ![t] = "wait_task"] => pc'[t] = "wait_task"
    BY DEF Types
  <2> QED BY <2>1 DEF WaitForTask, Sleep, Goto
<1>2. ASSUME ~Done(k) PROVE FALSE
  <2>1. PICK i \in Slots : ~IsEmpty(i) /\ tasks[i].job = k
    BY <1>2 DEF TaskInv, TaskSound
  <2>2. tasks[i].task_id = made[k].id /\ tasks[i].task_id % N = i
    BY <2>1, HeldIds DEF TaskInv, SlotSound
  <2>3. N # 0
    BY SlotNumbers
  <2> QED BY <1>1, <2>2, <2>3 DEF Unfinished
<1> QED BY <1>2

LEMMA WaitForAllReturns ==
  ASSUME PoolInv, NEW t \in Threads, WaitForAllTasks(t), pc'[t] = "run",
         NEW k \in DOMAIN made, made[k].by = t, made[k].id # 1
  PROVE  Done(k)
<1> USE DEF PoolInv
<1>1. OwnTasks(t) = {}
  <2>1. pc' = [pc EXCEPT ![t] = "wait_all"] => pc'[t] = "wait_all"
    BY DEF Types
  <2> QED BY <2>1 DEF WaitForAllTasks, Sleep, Goto
<1>2. ASSUME ~Done(k) PROVE FALSE
  <2>1. PICK i \in Slots : ~IsEmpty(i) /\ tasks[i].job = k
    BY <1>2 DEF TaskInv, TaskSound
  <2>2. tasks[i].thread_id = t
    BY <2>1 DEF TaskInv, SlotSound
  <2> QED BY <1>1, <2>1, <2>2 DEF OwnTasks
<1> QED BY <1>2

(* A thread that comes back from wait_for_task() or wait_for_all_tasks()   *)
(* finds the task, or all the tasks it has given the pool, done.           *)
THEOREM WaitersFindTasksDone == PoolSpec => WaitsReturnRight
<1> DEFINE Returns(t) ==
       /\ WaitForTask(t) /\ pc'[t] = "run" =>
            \A k \in DOMAIN made : made[k].id = argument'[t] /\ made[k].id # 1 => Done(k)
       /\ WaitForAllTasks(t) /\ pc'[t] = "run" =>
            \A k \in DOMAIN made : made[k].by = t /\ made[k].id # 1 => Done(k)
<1>1. ASSUME PoolInv PROVE \A t \in Threads : Returns(t)
  BY <1>1, WaitReturns, WaitForAllReturns
<1>2. PoolInv /\ [PoolNext]_poolVars => [\A t \in Threads : Returns(t)]_poolVars
  BY <1>1
<1> QED BY <1>2, PoolInvariant, PTL DEF PoolSpec, WaitsReturnRight
=============================================================================
