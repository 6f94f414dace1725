--------------------------- MODULE ThreadedObject ---------------------------
(* dlib's threaded_object (threaded_object_extension.cpp): an object with at*)
(* most one thread, which other threads start, restart, pause, stop and wait*)
(* for.  Every method is one step under m_, except the waits.               *)
EXTENDS Integers, FiniteSets

CONSTANTS
  Objects,
  Callers,    \* the threads that call the methods
  MaxCalls    \* bound: calls

ASSUME CallsAssumption == MaxCalls \in Nat

VARIABLES
  is_alive, is_running, should_stop, should_respawn,
  helper,     \* where thread_helper is: "none", "begin", "thread", "paused" in should_stop(), "end"
  helpers,    \* how many threads run it
  waits,      \* the object a caller waits for in wait(), or "nothing"
  asleep,     \* the callers in s.wait()
  calls,
  credit,     \* history: runs of thread() that were asked for and have not begun
  owed        \* history: a restart() that no run has followed yet

switches == <<is_alive, is_running, should_stop, should_respawn>>
threads == <<helper, helpers>>
history == <<credit, owed>>
objectVars == <<switches, threads, waits, asleep, calls, history>>

(* The constructor does not initialise should_respawn_.                     *)
ObjectInit ==
  /\ is_alive = [o \in Objects |-> FALSE] /\ is_running = [o \in Objects |-> FALSE]
  /\ should_stop = [o \in Objects |-> FALSE]
  /\ should_respawn \in [Objects -> BOOLEAN]
  /\ helper = [o \in Objects |-> "none"] /\ helpers = [o \in Objects |-> 0]
  /\ waits = [c \in Callers |-> "nothing"] /\ asleep = {} /\ calls = 0
  /\ credit = [o \in Objects |-> 0]
  /\ owed = [o \in Objects |-> FALSE]

-----------------------------------------------------------------------------
Set(f, o, v) == [f EXCEPT ![o] = v]

Broadcast(o) ==
  /\ asleep' = {c \in asleep : waits[c] # o}
  /\ helper' = IF helper[o] = "paused" THEN Set(helper, o, "thread") ELSE helper

(* start and restart on an object without a thread: a new one, unless the   *)
(* system has none left, and thread_error is thrown.                        *)
(* Mutant of NewThread: the object is not marked alive.                     *)
NewUnmarked(o) ==
  /\ ~is_alive[o]
  /\ helper' = Set(helper, o, "begin") /\ helpers' = [helpers EXCEPT ![o] = @ + 1]
  /\ is_running' = Set(is_running, o, TRUE)
  /\ should_stop' = Set(should_stop, o, FALSE)
  /\ asleep' = {c \in asleep : waits[c] # o}
  /\ UNCHANGED is_alive

NewThread(o) ==
  /\ ~is_alive[o]
  /\ helper' = Set(helper, o, "begin") /\ helpers' = [helpers EXCEPT ![o] = @ + 1]
  /\ is_alive' = Set(is_alive, o, TRUE) /\ is_running' = Set(is_running, o, TRUE)
  /\ should_stop' = Set(should_stop, o, FALSE)
  /\ asleep' = {c \in asleep : waits[c] # o}

NoThread(o) ==
  /\ ~is_alive[o]
  /\ is_running' = Set(is_running, o, FALSE)
  /\ UNCHANGED <<is_alive, should_stop, should_respawn, threads, asleep, history>>

(* The same on an object that has one: it goes on, or is asked to.          *)
KeepThread(o) ==
  /\ is_alive[o]
  /\ is_running' = Set(is_running, o, TRUE)
  /\ should_stop' = Set(should_stop, o, FALSE)
  /\ Broadcast(o)
  /\ UNCHANGED <<is_alive, helpers>>

(* One that has not begun, and one after it: a third call asks for no more. *)
Asked(o) == credit' = [credit EXCEPT ![o] = IF @ < 2 THEN @ + 1 ELSE 2]

Start(o) ==
  \/ (NewThread(o) \/ KeepThread(o)) /\ Asked(o) /\ UNCHANGED <<should_respawn, owed>>
  \/ NoThread(o)

(* Mutant of DoRestart: start() under another name.                         *)
RestartAsStart(o) ==
  /\ NewThread(o) \/ KeepThread(o)
  /\ Asked(o) /\ owed' = Set(owed, o, TRUE)
  /\ UNCHANGED should_respawn

(* The thread, if there is one, is to run once more.                        *)
DoRestart(o) ==
  /\ NewThread(o) \/ KeepThread(o)
  /\ should_respawn' = Set(should_respawn, o, is_alive[o])
  /\ Asked(o) /\ owed' = Set(owed, o, TRUE)

Restart(o) == DoRestart(o) \/ NoThread(o)

SetRespawn(o) ==
  /\ should_respawn' = Set(should_respawn, o, TRUE)
  /\ Asked(o)
  /\ UNCHANGED <<is_alive, is_running, should_stop, threads, asleep, owed>>

Pause(o) ==
  /\ is_running' = Set(is_running, o, FALSE)
  /\ UNCHANGED <<is_alive, should_stop, should_respawn, threads, asleep, history>>

Stop(o) ==
  /\ should_stop' = Set(should_stop, o, TRUE)
  /\ is_running' = Set(is_running, o, FALSE)
  /\ should_respawn' = Set(should_respawn, o, FALSE)
  /\ Broadcast(o)
  /\ owed' = Set(owed, o, FALSE)
  /\ UNCHANGED <<is_alive, helpers, credit>>

(* wait: from its call, or out of s.wait() again.                           *)
WaitStep(c, o) ==
  /\ IF is_alive[o]
     THEN waits' = Set(waits, c, o) /\ asleep' = asleep \cup {c}
     ELSE waits' = Set(waits, c, "nothing") /\ asleep' = asleep \ {c}
  /\ UNCHANGED <<switches, threads, history>>

Wait(c, o) == waits[c] = "nothing" /\ is_alive[o] /\ WaitStep(c, o)
WaitOn(c) == waits[c] # "nothing" /\ c \notin asleep /\ WaitStep(c, waits[c]) /\ UNCHANGED calls

-----------------------------------------------------------------------------
(* thread_helper *)

ThreadBegin(o) ==
  /\ helper[o] = "begin"
  /\ helper' = Set(helper, o, "thread")
  /\ should_respawn' = Set(should_respawn, o, FALSE)
  /\ credit' = [credit EXCEPT ![o] = @ - 1] /\ owed' = Set(owed, o, FALSE)
  /\ UNCHANGED <<is_alive, is_running, should_stop, helpers, waits, asleep, calls>>

(* should_stop, called by thread(), waits while the object is paused.       *)
ShouldStopWaits(o) ==
  /\ helper[o] = "thread"
  /\ ~is_running[o] /\ ~should_stop[o]
  /\ helper' = Set(helper, o, "paused")
  /\ UNCHANGED <<switches, helpers, waits, asleep, calls, history>>

ThreadReturns(o) ==
  /\ helper[o] = "thread"
  /\ helper' = Set(helper, o, "end")
  /\ UNCHANGED <<switches, helpers, waits, asleep, calls, history>>

(* Mutant of ThreadEnd: nobody is told.                                     *)
EndSilently(o) ==
  /\ helper[o] = "end"
  /\ IF should_respawn[o]
     THEN /\ helper' = Set(helper, o, "begin")
          /\ UNCHANGED <<switches, helpers>>
     ELSE /\ helper' = Set(helper, o, "none") /\ helpers' = [helpers EXCEPT ![o] = @ - 1]
          /\ is_alive' = Set(is_alive, o, FALSE) /\ is_running' = Set(is_running, o, FALSE)
          /\ should_stop' = Set(should_stop, o, FALSE)
          /\ UNCHANGED should_respawn
  /\ UNCHANGED <<waits, asleep, calls, history>>

ThreadEnd(o) ==
  /\ helper[o] = "end"
  /\ IF should_respawn[o]
     THEN /\ helper' = Set(helper, o, "begin")
          /\ UNCHANGED <<switches, helpers, asleep>>
     ELSE /\ helper' = Set(helper, o, "none") /\ helpers' = [helpers EXCEPT ![o] = @ - 1]
          /\ is_alive' = Set(is_alive, o, FALSE) /\ is_running' = Set(is_running, o, FALSE)
          /\ should_stop' = Set(should_stop, o, FALSE)
          /\ asleep' = {c \in asleep : waits[c] # o}
          /\ UNCHANGED should_respawn
  /\ UNCHANGED <<waits, calls, history>>

-----------------------------------------------------------------------------
ThreadStep(o) == ThreadBegin(o) \/ ShouldStopWaits(o) \/ ThreadReturns(o) \/ ThreadEnd(o)

ObjectCall ==
  /\ calls < MaxCalls /\ calls' = calls + 1
  /\ \E c \in Callers, o \in Objects :
       \/ Wait(c, o)
       \/ /\ waits[c] = "nothing"
          /\ Start(o) \/ Restart(o) \/ SetRespawn(o) \/ Pause(o) \/ Stop(o)
          /\ UNCHANGED waits

ObjectNext == (\E o \in Objects : ThreadStep(o)) \/ (\E c \in Callers : WaitOn(c)) \/ ObjectCall

(* Threads run, and thread() returns some time unless it is paused.         *)
ObjectFairness ==
  /\ \A o \in Objects : WF_objectVars(ThreadStep(o))
  /\ \A c \in Callers : WF_objectVars(WaitOn(c))

ObjectSpec == ObjectInit /\ [][ObjectNext]_objectVars /\ ObjectFairness

-----------------------------------------------------------------------------
(* Properties *)

ObjectTypeOK ==
  /\ is_alive \in [Objects -> BOOLEAN] /\ is_running \in [Objects -> BOOLEAN]
  /\ should_stop \in [Objects -> BOOLEAN] /\ should_respawn \in [Objects -> BOOLEAN]
  /\ owed \in [Objects -> BOOLEAN]
  /\ helper \in [Objects -> {"none", "begin", "thread", "paused", "end"}]
  /\ helpers \in [Objects -> Nat] /\ credit \in [Objects -> Int]
  /\ waits \in [Callers -> Objects \cup {"nothing"}] /\ asleep \subseteq Callers /\ calls \in 0..MaxCalls

(* "is only executed in one thread at a time", whenever start() and         *)
(* restart() come, and is_alive() says whether there is one.                *)
OneThread ==
  \A o \in Objects : helpers[o] = (IF is_alive[o] THEN 1 ELSE 0) /\ (is_alive[o] <=> helper[o] # "none")

(* Nobody sleeps on who could go on: a caller whose thread has ended, or a  *)
(* thread that was started or stopped while it was paused.                  *)
NobodyForgotten ==
  /\ \A c \in asleep : is_alive[waits[c]]
  /\ \A o \in Objects : helper[o] = "paused" => ~is_running[o] /\ ~should_stop[o]

(* "a single call to set_respawn() can cause at most one respawn to occur": *)
(* thread() never runs more often than somebody asked.                      *)
NoRunUnasked == \A o \in Objects : credit[o] >= 0

(* A restart() is never lost, also when it meets a thread that is ending or *)
(* has not begun: thread() begins once more unless somebody says stop(), or *)
(* it stays paused.                                                         *)
RestartRuns == \A o \in Objects : owed[o] ~> (~owed[o] \/ helper[o] = "paused")

(* A stopped thread ends, and who waits for a thread that ends returns.     *)
StopEnds == \A o \in Objects : (should_stop[o] /\ is_alive[o]) ~> ~(should_stop[o] /\ is_alive[o])
WaitReturns ==
  \A c \in Callers, o \in Objects : waits[c] = o ~> (waits[c] # o \/ helper[o] = "paused")

(* The object's promises at every moment: one thread, of which its switches *)
(* tell the truth, nobody asleep over what has happened, no run for nothing.*)
ObjectSound == ObjectTypeOK /\ OneThread /\ NobodyForgotten /\ NoRunUnasked
=============================================================================
