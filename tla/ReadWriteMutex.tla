--------------------------- MODULE ReadWriteMutex ---------------------------
(* dlib's read_write_mutex (read_write_mutex_extension.h): a reader takes   *)
(* one of max_locks locks, a writer all of them, collecting those that      *)
(* readers give back.  Each action is what a thread does while it holds the *)
(* inner mutex m: it comes in with a call or out of s.wait(), and goes when *)
(* it returns or waits again.                                               *)
EXTENDS Integers, FiniteSets

CONSTANTS
  Lockers,
  max_locks,
  Entries    \* bound: calls of lock() and lock_readonly()

ASSUME LocksAssumption == max_locks \in Nat \ {0}
ASSUME BoundsAssumption == IsFiniteSet(Lockers)

VARIABLES
  stage,                     \* "out", "turn" and "collect" in lock(), "read" in lock_readonly(),
                          \* "writing" and "reading" after them
  blocked,                 \* the threads in s.wait()
  locks_obtained,         \* lock()'s local variable
  available_locks, write_lock_in_progress, write_lock_active,
  entries                 \* calls made

rwVars == <<stage, blocked, locks_obtained, available_locks, write_lock_in_progress, write_lock_active, entries>>

RWInit ==
  /\ stage = [t \in Lockers |-> "out"]
  /\ blocked = {}
  /\ locks_obtained = [t \in Lockers |-> 0]
  /\ available_locks = max_locks
  /\ write_lock_in_progress = FALSE /\ write_lock_active = FALSE
  /\ entries = 0

MoveTo(t, place) == stage' = [stage EXCEPT ![t] = place]
WaitAt(t, place) == blocked' = blocked \cup {t} /\ MoveTo(t, place)

(* A thread outside calls, or one that was woken goes on.                   *)
Enters(t, place) ==
  \/ stage[t] = "out" /\ entries < Entries /\ entries' = entries + 1
  \/ stage[t] = place /\ t \notin blocked /\ UNCHANGED entries

-----------------------------------------------------------------------------
(* lock *)

WaitTurn(t) ==
  /\ Enters(t, "turn")
  /\ write_lock_in_progress
  /\ WaitAt(t, "turn")
  /\ UNCHANGED <<locks_obtained, available_locks, write_lock_in_progress, write_lock_active>>

(* Enough locks make a writer; with fewer it waits for more.                *)
Collect(t, obtained) ==
  /\ locks_obtained' = [locks_obtained EXCEPT ![t] = obtained]
  /\ available_locks' = 0
  /\ \/ /\ obtained = max_locks
        /\ write_lock_in_progress' = FALSE /\ write_lock_active' = TRUE
        /\ MoveTo(t, "writing")
        /\ UNCHANGED blocked
     \/ /\ obtained # max_locks
        /\ write_lock_in_progress' = TRUE
        /\ WaitAt(t, "collect")
        /\ UNCHANGED write_lock_active

TakeTurnAnyway(t) ==  \* mutant: beside another writer
  /\ Enters(t, "turn")
  /\ Collect(t, available_locks)

TakeTurn(t) ==
  /\ Enters(t, "turn")
  /\ ~write_lock_in_progress
  /\ Collect(t, available_locks)

CollectMore(t) ==
  /\ stage[t] = "collect" /\ t \notin blocked
  /\ UNCHANGED entries
  /\ Collect(t, locks_obtained[t] + available_locks)

(* unlock: only if there really is a write lock.                            *)
Unlock(t) ==
  /\ stage[t] = "writing"
  /\ MoveTo(t, "out")
  /\ IF write_lock_active
     THEN available_locks' = max_locks /\ write_lock_active' = FALSE /\ blocked' = {}
     ELSE UNCHANGED <<available_locks, write_lock_active, blocked>>
  /\ UNCHANGED <<entries, locks_obtained, write_lock_in_progress>>

-----------------------------------------------------------------------------
(* lock_readonly *)

WaitRead(t) ==
  /\ Enters(t, "read")
  /\ available_locks = 0
  /\ WaitAt(t, "read")
  /\ UNCHANGED <<locks_obtained, available_locks, write_lock_in_progress, write_lock_active>>

LockReadonly(t) ==
  /\ Enters(t, "read")
  /\ available_locks # 0
  /\ available_locks' = available_locks - 1
  /\ MoveTo(t, "reading")
  /\ UNCHANGED <<blocked, locks_obtained, write_lock_in_progress, write_lock_active>>

ReleaseToWriters ==  \* mutant: readers are not woken
  IF available_locks # max_locks /\ ~write_lock_active
  THEN /\ available_locks' = available_locks + 1
       /\ blocked' = IF write_lock_in_progress THEN {} ELSE blocked
  ELSE UNCHANGED <<available_locks, blocked>>

(* unlock_readonly: nothing to free if all locks are there or a writer is;  *)
(* only the first free lock or a collecting writer is worth a broadcast.    *)
Release ==
  IF available_locks # max_locks /\ ~write_lock_active
  THEN /\ available_locks' = available_locks + 1
       /\ blocked' = IF available_locks + 1 = 1 \/ write_lock_in_progress THEN {} ELSE blocked
  ELSE UNCHANGED <<available_locks, blocked>>

UnlockReadonly(t) ==
  /\ stage[t] = "reading"
  /\ Release
  /\ MoveTo(t, "out")
  /\ UNCHANGED <<entries, locks_obtained, write_lock_in_progress, write_lock_active>>

-----------------------------------------------------------------------------
Proceed(t) == WaitTurn(t) \/ TakeTurn(t) \/ CollectMore(t) \/ WaitRead(t) \/ LockReadonly(t)
Leave(t) == Unlock(t) \/ UnlockReadonly(t)

RWNext == \E t \in Lockers : Proceed(t) \/ Leave(t)

(* A thread inside a call goes on whenever it can, and whoever has a lock   *)
(* gives it back; no thread has to come in.                                 *)
RWFairness == \A t \in Lockers :
  /\ WF_rwVars(stage[t] # "out" /\ Proceed(t))
  /\ WF_rwVars(Leave(t))

RWSpec == RWInit /\ [][RWNext]_rwVars /\ RWFairness

-----------------------------------------------------------------------------
(* Properties *)

RWTypeOK ==
  /\ stage \in [Lockers -> {"out", "turn", "collect", "read", "writing", "reading"}]
  /\ blocked \subseteq Lockers
  /\ locks_obtained \in [Lockers -> Int]
  /\ available_locks \in 0..max_locks
  /\ write_lock_in_progress \in BOOLEAN /\ write_lock_active \in BOOLEAN

In(place) == {t \in Lockers : stage[t] = place}

(* "allow many threads to obtain simultaneous readonly locks but will only  *)
(* allow a single thread to obtain a write lock": a writer is alone.        *)
Exclusion ==
  /\ \A t, u \in In("writing") : t = u
  /\ In("writing") # {} => In("reading") = {}

(* Every lock is in one place: free, with a reader, collected by the one    *)
(* writer under way, or all with the writer.  What exclusion rests on, and  *)
(* what lock() needs to ever count to max_locks.                            *)
LocksConserved ==
  /\ \A t, u \in In("collect") : t = u
  /\ write_lock_in_progress <=> In("collect") # {}
  /\ write_lock_active <=> In("writing") # {}
  /\ \A t \in In("writing") : available_locks = 0 /\ In("reading") = {} /\ In("writing") = {t}
  /\ \A t \in In("collect") : ~write_lock_active =>
       locks_obtained[t] + available_locks + Cardinality(In("reading")) = max_locks
  /\ In("collect") = {} /\ ~write_lock_active =>
       available_locks + Cardinality(In("reading")) = max_locks

(* Nobody sleeps who could go on: the broadcasts unlock_readonly() saves    *)
(* are never missed.                                                        *)
NobodyOverslept ==
  \A t \in blocked :
    /\ stage[t] = "read" => available_locks = 0
    /\ stage[t] = "collect" => available_locks = 0
    /\ stage[t] = "turn" => write_lock_in_progress \/ write_lock_active

(* Who waits for a lock gets it, once no more threads come in than Entries: *)
(* woken threads may lose a lock to a newcomer, but none sleeps for ever.   *)
EveryoneServed ==
  \A t \in Lockers :
    stage[t] \in {"turn", "collect", "read"} ~> stage[t] \in {"writing", "reading"}

(* The mutex at every moment: a writer alone, no lock lost, nobody asleep   *)
(* who could go on.                                                         *)
MutexSound == RWTypeOK /\ Exclusion /\ LocksConserved /\ NobodyOverslept
=============================================================================
