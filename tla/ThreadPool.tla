----------------------------- MODULE ThreadPool -----------------------------
(* dlib's thread pool (thread_pool_extension.cpp): as many slots as worker  *)
(* threads, one mutex, a signaler for tasks that are ready and one for tasks*)
(* that are done.  Each action is what a thread does while it holds m, from *)
(* the beginning of a call or the end of a wait to the return or the next   *)
(* wait.  A task may call the pool again; when no slot is empty its own     *)
(* thread runs the new task at once, inside the one that adds it.           *)
EXTENDS Integers, FiniteSets, Sequences

CONSTANTS
  Workers, Users,  \* the pool's threads, and the others
  MaxTasks         \* bound: tasks added

ASSUME PoolAssumption == Workers \cap Users = {} /\ IsFiniteSet(Workers) /\ MaxTasks \in Nat

VARIABLES
  tasks,              \* per slot: task_id, thread_id, is_being_processed, next_task_id, job
  worker_thread_ids, we_are_destructing,
  pc,                 \* "start", "look" and "gone" of workers; "run" outside the pool, in a task or
                      \* not; in the calls "add", "wait_task", "wait_all", "drain" and "join"
  sleeps_on,          \* the signaler a thread sleeps on, or "awake"
  argument,           \* the task_id a thread waits for
  stack,              \* the tasks a thread is in, the innermost last
  orphans,            \* the client lets tasks end before the tasks they have added
  made                \* history: the tasks added, [id, by, parent, state]

flags == <<worker_thread_ids, we_are_destructing, orphans>>
poolVars == <<tasks, flags, pc, sleeps_on, argument, stack, made>>

Threads == Workers \cup Users
N == Cardinality(Workers)
Slots == 0..(N - 1)
EmptySlot == [task_id |-> 0, thread_id |-> "none", busy |-> FALSE, next_task_id |-> 2, job |-> 0]

PoolInit ==
  /\ tasks = [i \in Slots |-> EmptySlot]
  /\ worker_thread_ids = {} /\ we_are_destructing = FALSE
  /\ pc = [t \in Threads |-> IF t \in Workers THEN "start" ELSE "run"]
  /\ sleeps_on = [t \in Threads |-> "awake"]
  /\ argument = [t \in Threads |-> 0]
  /\ stack = [t \in Threads |-> <<>>] /\ made = <<>>
  /\ orphans \in BOOLEAN

-----------------------------------------------------------------------------
Goto(t, place) == pc' = [pc EXCEPT ![t] = place]

Sleep(t, sig, place) == Goto(t, place) /\ sleeps_on' = [sleeps_on EXCEPT ![t] = sig]

Awoken(sig) == [t \in Threads |-> IF sleeps_on[t] = sig THEN "awake" ELSE sleeps_on[t]]

Signal(sig) ==
  LET sleepers == {t \in Threads : sleeps_on[t] = sig}
  IN  IF sleepers = {} THEN UNCHANGED sleeps_on
      ELSE \E t \in sleepers : sleeps_on' = [sleeps_on EXCEPT ![t] = "awake"]

IsEmpty(i) == tasks[i].task_id = 0
IsReady(i) == ~tasks[i].busy /\ ~IsEmpty(i)
NobodyIsWorker(t) == N = 0                                     \* mutant of IsWorkerThread
IsWorkerThread(t) == t \in worker_thread_ids \/ N = 0

First(S) == CHOOSE i \in S : \A j \in S : i <= j

(* The task a thread is in; a user's own code counts as one.                *)
Frame(t) == IF stack[t] = <<>> THEN t ELSE stack[t][Len(stack[t])]
MayCall(t) ==
  /\ pc[t] = "run"
  /\ t \in Users => \A u \in Users : pc[u] \notin {"drain", "join", "gone"}
At(t, place) == \/ MayCall(t)
                \/ pc[t] = place /\ sleeps_on[t] = "awake"

-----------------------------------------------------------------------------
(* The worker threads *)

Register(w) ==
  /\ pc[w] = "start"
  /\ worker_thread_ids' = worker_thread_ids \cup {w}
  /\ Goto(w, "look")
  /\ UNCHANGED <<tasks, we_are_destructing, orphans, sleeps_on, argument, stack, made>>

Ready == {i \in Slots : IsReady(i)}
Looks(w) == pc[w] = "look" /\ sleeps_on[w] = "awake"

WaitReady(w) ==
  /\ Looks(w)
  /\ Ready = {} /\ ~we_are_destructing
  /\ Sleep(w, "ready", "look")
  /\ UNCHANGED <<tasks, flags, argument, stack, made>>

Quit(w) ==
  /\ Looks(w)
  /\ we_are_destructing
  /\ Goto(w, "gone")
  /\ UNCHANGED <<tasks, flags, sleeps_on, argument, stack, made>>

(* Mutant of TakeTask: the slot stays ready.                                *)
TakeUnmarked(w) ==
  /\ Looks(w)
  /\ Ready # {} /\ ~we_are_destructing
  /\ LET idx == First(Ready)
     IN  /\ stack' = [stack EXCEPT ![w] = <<tasks[idx].job>>]
         /\ made' = [made EXCEPT ![tasks[idx].job].state = "running"]
  /\ Goto(w, "run")
  /\ UNCHANGED <<tasks, flags, sleeps_on, argument>>

TakeTask(w) ==
  /\ Looks(w)
  /\ Ready # {} /\ ~we_are_destructing
  /\ LET idx == First(Ready)
     IN  /\ tasks' = [tasks EXCEPT ![idx].busy = TRUE]
         /\ stack' = [stack EXCEPT ![w] = <<tasks[idx].job>>]
         /\ made' = [made EXCEPT ![tasks[idx].job].state = "running"]
  /\ Goto(w, "run")
  /\ UNCHANGED <<flags, sleeps_on, argument>>

Done(k) == made[k].state = "done"
Children(f) == {k \in DOMAIN made : made[k].parent = f}
MayEnd(w) == pc[w] = "run" /\ (orphans \/ \A k \in Children(Frame(w)) : Done(k))

(* The slot is emptied and everybody who waits for a task looks again.      *)
FinishTask(w) ==
  /\ MayEnd(w) /\ Len(stack[w]) = 1
  /\ LET idx == CHOOSE i \in Slots : tasks[i].busy /\ tasks[i].job = Frame(w)
     IN  tasks' = [tasks EXCEPT ![idx].busy = FALSE, ![idx].task_id = 0, ![idx].job = 0]
  /\ sleeps_on' = Awoken("done")
  /\ stack' = [stack EXCEPT ![w] = <<>>]
  /\ made' = [made EXCEPT ![Frame(w)].state = "done"]
  /\ Goto(w, "look")
  /\ UNCHANGED <<flags, argument>>

-----------------------------------------------------------------------------
(* add_task *)

FreeSlots == {i \in Slots : IsEmpty(i)}
Task(id, t, state) == [id |-> id, by |-> t, parent |-> Frame(t), state |-> state]

MakeNextTaskId(idx) == tasks[idx].next_task_id * N + idx

AddTask(t) ==
  /\ At(t, "add") /\ Len(made) < MaxTasks
  /\ FreeSlots # {}
  /\ LET idx == First(FreeSlots)
         id == MakeNextTaskId(idx)
     IN  /\ tasks' = [tasks EXCEPT ![idx].task_id = id, ![idx].thread_id = t,
                        ![idx].next_task_id = @ + 1, ![idx].job = Len(made) + 1]
         /\ made' = Append(made, Task(id, t, "ready"))
  /\ Signal("ready")
  /\ Goto(t, "run")
  /\ UNCHANGED <<flags, argument, stack>>

WaitSlot(t) ==
  /\ At(t, "add") /\ Len(made) < MaxTasks
  /\ FreeSlots = {} /\ ~IsWorkerThread(t)
  /\ Sleep(t, "done", "add")
  /\ UNCHANGED <<tasks, flags, argument, stack, made>>

(* No slot for a task that a worker adds: it runs here, with task id 1.     *)
RunInline(t) ==
  /\ MayCall(t) /\ Len(made) < MaxTasks
  /\ FreeSlots = {} /\ IsWorkerThread(t)
  /\ made' = Append(made, Task(1, t, "running"))
  /\ stack' = [stack EXCEPT ![t] = Append(@, Len(made) + 1)]
  /\ UNCHANGED <<tasks, flags, pc, sleeps_on, argument>>

FinishInline(t) ==
  /\ MayEnd(t) /\ Len(stack[t]) > (IF t \in Workers THEN 1 ELSE 0)
  /\ made' = [made EXCEPT ![Frame(t)].state = "done"]
  /\ stack' = [stack EXCEPT ![t] = SubSeq(@, 1, Len(@) - 1)]
  /\ UNCHANGED <<tasks, flags, pc, sleeps_on, argument>>

-----------------------------------------------------------------------------
(* wait_for_task, for a task the caller has added, and wait_for_all_tasks   *)

BusyOnly(id) == \E i \in Slots : i = id % N /\ tasks[i].task_id = id /\ tasks[i].busy  \* mutant of Unfinished
Unfinished(id) == \E i \in Slots : i = id % N /\ tasks[i].task_id = id

WaitForTask(t) ==
  /\ \/ MayCall(t) /\ \E k \in Children(Frame(t)) : argument' = [argument EXCEPT ![t] = made[k].id]
     \/ pc[t] = "wait_task" /\ sleeps_on[t] = "awake" /\ UNCHANGED argument
  /\ IF N # 0 /\ Unfinished(argument'[t])
     THEN Sleep(t, "done", "wait_task")
     ELSE Goto(t, "run") /\ UNCHANGED sleeps_on
  /\ UNCHANGED <<tasks, flags, stack, made>>

OwnTasks(t) == {i \in Slots : ~IsEmpty(i) /\ tasks[i].thread_id = t}

WaitForAllTasks(t) ==
  /\ At(t, "wait_all")
  /\ IF OwnTasks(t) # {}
     THEN Sleep(t, "done", "wait_all")
     ELSE Goto(t, "run") /\ UNCHANGED sleeps_on
  /\ UNCHANGED <<tasks, flags, argument, stack, made>>

-----------------------------------------------------------------------------
(* shutdown_pool, in the destructor: no other user is inside the pool.      *)

Drain(t) ==
  /\ \/ t \in Users /\ MayCall(t) /\ \A u \in Users : pc[u] = "run" /\ stack[u] = <<>>
     \/ pc[t] = "drain" /\ sleeps_on[t] = "awake"
  /\ IF FreeSlots # Slots
     THEN Sleep(t, "done", "drain") /\ UNCHANGED we_are_destructing
     ELSE /\ we_are_destructing' = TRUE
          /\ sleeps_on' = Awoken("ready")
          /\ Goto(t, "join")
  /\ UNCHANGED <<tasks, worker_thread_ids, orphans, argument, stack, made>>

Joined(t) ==
  /\ pc[t] = "join"
  /\ \A w \in Workers : pc[w] = "gone"
  /\ Goto(t, "gone")
  /\ UNCHANGED <<tasks, flags, sleeps_on, argument, stack, made>>

-----------------------------------------------------------------------------
Work(w) == Register(w) \/ WaitReady(w) \/ Quit(w) \/ TakeTask(w) \/ FinishTask(w)

(* What a thread goes on with that is inside a call, or ends.               *)
GoOn(t) ==
  \/ pc[t] # "run" /\ (AddTask(t) \/ WaitSlot(t) \/ WaitForTask(t) \/ WaitForAllTasks(t) \/ Drain(t))
  \/ Joined(t) \/ FinishInline(t)

Call(t) ==
  /\ pc[t] = "run"
  /\ AddTask(t) \/ WaitSlot(t) \/ RunInline(t) \/ WaitForTask(t) \/ WaitForAllTasks(t) \/ Drain(t)

PoolNext == (\E w \in Workers : Work(w)) \/ (\E t \in Threads : GoOn(t) \/ Call(t))

(* Threads go on, and tasks end; nobody has to call the pool.               *)
PoolFairness ==
  /\ \A w \in Workers : WF_poolVars(Work(w))
  /\ \A t \in Threads : WF_poolVars(GoOn(t))

PoolSpec == PoolInit /\ [][PoolNext]_poolVars /\ PoolFairness

-----------------------------------------------------------------------------
(* Properties *)

PoolTypeOK ==
  /\ \A i \in Slots :
       /\ tasks[i].task_id \in Nat /\ tasks[i].busy \in BOOLEAN /\ tasks[i].next_task_id \in Nat
       /\ tasks[i].thread_id \in Threads \cup {"none"} /\ tasks[i].job \in 0..MaxTasks
  /\ worker_thread_ids \subseteq Workers /\ we_are_destructing \in BOOLEAN /\ orphans \in BOOLEAN
  /\ pc \in [Threads -> {"start", "look", "run", "add", "wait_task", "wait_all", "drain", "join", "gone"}]
  /\ sleeps_on \in [Threads -> {"awake", "ready", "done"}] /\ argument \in [Threads -> Nat]
  /\ \A t \in Threads : \A n \in DOMAIN stack[t] : stack[t][n] \in DOMAIN made
  /\ \A k \in DOMAIN made :
       /\ made[k].id \in Nat /\ made[k].by \in Threads /\ made[k].parent \in Threads \cup DOMAIN made
       /\ made[k].state \in {"ready", "running", "done"}

(* Every task is in one place: a slot that is ready, a slot that one worker *)
(* is busy with, or the stack of the thread that runs it at once; when it is*)
(* done, nowhere.  So no task is lost, run twice or run by two threads.     *)
Busy == {t \in Threads : stack[t] # <<>>}
OnePlace ==
  /\ \A k \in DOMAIN made :
       /\ Cardinality({i \in Slots : ~IsEmpty(i) /\ tasks[i].job = k /\ tasks[i].task_id = made[k].id})
            = IF made[k].id # 1 /\ ~Done(k) THEN 1 ELSE 0
       /\ Cardinality({t \in Busy : \E n \in DOMAIN stack[t] : stack[t][n] = k})
            = IF made[k].state = "running" THEN 1 ELSE 0
       /\ made[k].state = "ready" <=> \E i \in Slots : IsReady(i) /\ tasks[i].job = k
  /\ \A i \in Slots : tasks[i].busy <=> \E w \in Workers \cap Busy : stack[w][1] = tasks[i].job

(* No two tasks ever get the same id, so that a late wait_for_task() never  *)
(* waits for another task; 0 means empty and 1 a task run at once.          *)
IdsFresh ==
  \A k, l \in DOMAIN made : made[k].id # 1 =>
    made[k].id > 1 /\ (k # l => made[k].id # made[l].id)

(* Every ready task has a worker of its own on the way to it: signal() wakes*)
(* one only, and a worker that waits inside a task takes no other.  This is *)
(* what lets a task wait for the tasks it has added.                        *)
OnTheWay(w) == pc[w] = "start" \/ (pc[w] = "look" /\ sleeps_on[w] = "awake")
WorkersOnTheWay == Cardinality(Ready) <= Cardinality({w \in Workers : OnTheWay(w)})

(* Nobody sleeps who could go on.                                           *)
NobodyMissesTheEnd ==
  \A t \in Threads : sleeps_on[t] = "done" =>
    /\ pc[t] = "add" => FreeSlots = {}
    /\ pc[t] = "wait_task" => Unfinished(argument[t])
    /\ pc[t] = "wait_all" => OwnTasks(t) # {}
    /\ pc[t] = "drain" => FreeSlots # Slots

(* A wait returns only when what it waits for is done: the task, or all     *)
(* tasks the thread has handed to the pool.                                 *)
WaitsReturnRight ==
  [][\A t \in Threads :
       /\ WaitForTask(t) /\ pc'[t] = "run" =>
            \A k \in DOMAIN made : made[k].id = argument'[t] /\ made[k].id # 1 => Done(k)
       /\ WaitForAllTasks(t) /\ pc'[t] = "run" =>
            \A k \in DOMAIN made : made[k].by = t /\ made[k].id # 1 => Done(k)]_poolVars

(* ~thread_pool "blocks until all tasks in the pool have finished", those   *)
(* that tasks add meanwhile included.                                       *)
DrainedBeforeEnd == we_are_destructing => \A k \in DOMAIN made : Done(k)

(* If every task waits for the tasks it adds, every task ends, every wait   *)
(* returns, and so does the destructor: threads never wait in a circle.     *)
Calls == {"wait_task", "wait_all", "drain", "join"}
EverybodyReturns == \A t \in Threads : (~orphans /\ pc[t] \in Calls) ~> pc[t] \notin Calls
TasksEnd == \A k \in 1..MaxTasks : (~orphans /\ k \in DOMAIN made) ~> (k \in DOMAIN made /\ Done(k))
SlotsComeFree == \A t \in Threads : (~orphans /\ pc[t] = "add") ~> (pc[t] # "add" \/ Len(made) = MaxTasks)

(* The pool's bookkeeping altogether: each task in one place and under an   *)
(* id of its own, a worker on the way to each, nobody asleep over an end    *)
(* that has come, and no end of the pool before that of its tasks.          *)
PoolSound ==
  /\ PoolTypeOK /\ OnePlace /\ IdsFresh
  /\ WorkersOnTheWay /\ NobodyMissesTheEnd /\ DrainedBeforeEnd

(* And nobody waits for ever, in any method.                                *)
NobodyWaitsForEver == EverybodyReturns /\ TasksEnd /\ SlotsComeFree
=============================================================================
