---------------------------- MODULE TimerProofs -----------------------------
(***************************************************************************)
(* A threaded_object has one thread, forgets no sleeper and never runs     *)
(* thread() unasked, for any objects, callers and number of calls.  A timer*)
(* is a threaded_object: no timer is forgotten or late, and a timer        *)
(* somebody has waited for is silent, for any timers and delays.           *)
(***************************************************************************)
EXTENDS Timer, TLAPS

(* One object: is_alive_ counts its thread, a thread that is to begin, now  *)
(* or after the run it is in, was asked for.                                *)
Sound(o) ==
  /\ helpers[o] = (IF is_alive[o] THEN 1 ELSE 0) /\ (is_alive[o] <=> helper[o] # "none")
  /\ helper[o] = "paused" => ~is_running[o] /\ ~should_stop[o]
  /\ credit[o] \in 0..2
  /\ helper[o] = "begin" => credit[o] >= 1
  /\ helper[o] \in {"thread", "paused", "end"} /\ should_respawn[o] => credit[o] >= 1

SleepersSound == \A c \in asleep : waits[c] \in Objects /\ is_alive[waits[c]]

ObjectInv == ObjectTypeOK /\ (\A o \in Objects : Sound(o)) /\ SleepersSound

-----------------------------------------------------------------------------
LEMMA ObjectInitInv == ObjectInit => ObjectInv
<1> SUFFICES ASSUME ObjectInit PROVE ObjectInv
  OBVIOUS
<1>1. ObjectTypeOK
  BY CallsAssumption DEF ObjectInit, ObjectTypeOK
<1>2. \A o \in Objects : Sound(o)
  BY DEF ObjectInit, Sound
<1> QED BY <1>1, <1>2 DEF ObjectInit, ObjectInv, SleepersSound

(* What start() and restart() do to the object and those that wait.        *)
LEMMA Started ==
  ASSUME ObjectInv, NEW o \in Objects, NewThread(o) \/ KeepThread(o), Asked(o),
         waits' = waits,
         \/ UNCHANGED should_respawn
         \/ should_respawn' = [should_respawn EXCEPT ![o] = is_alive[o]]
  PROVE  /\ \A u \in Objects : Sound(u)'
         /\ SleepersSound'
         /\ is_alive' \in [Objects -> BOOLEAN] /\ is_running' \in [Objects -> BOOLEAN]
         /\ should_stop' \in [Objects -> BOOLEAN] /\ should_respawn' \in [Objects -> BOOLEAN]
         /\ helper' \in [Objects -> {"none", "begin", "thread", "paused", "end"}] /\ helpers' \in [Objects -> Nat] /\ credit' \in [Objects -> Int]
         /\ asleep' \subseteq Callers
<1> USE DEF ObjectInv, ObjectTypeOK
<1>1. credit' \in [Objects -> Int] /\ (\A u \in Objects : u # o => credit'[u] = credit[u])
      /\ credit'[o] \in 1..2
  BY DEF Asked, Sound
<1>2. should_respawn' \in [Objects -> BOOLEAN] /\ (\A u \in Objects : u # o => should_respawn'[u] = should_respawn[u])
  OBVIOUS
<1>3. CASE NewThread(o)
  BY <1>1, <1>2, <1>3 DEF NewThread, Sound, SleepersSound, Set
<1>4. CASE KeepThread(o)
  BY <1>1, <1>2, <1>4 DEF KeepThread, Broadcast, Sound, SleepersSound, Set
<1> QED BY <1>3, <1>4

LEMMA CallKeeps == ASSUME ObjectInv, ObjectCall PROVE ObjectInv'
<1> USE DEF ObjectInv, ObjectTypeOK
<1>1. calls' \in 0..MaxCalls
  BY CallsAssumption DEF ObjectCall
<1>2. PICK c \in Callers, o \in Objects :
        \/ Wait(c, o)
        \/ waits' = waits /\ (Start(o) \/ Restart(o) \/ SetRespawn(o) \/ Pause(o) \/ Stop(o))
  BY DEF ObjectCall
<1>3. CASE Wait(c, o)
  <2>1. ObjectTypeOK'
    BY <1>1, <1>3 DEF Wait, WaitStep, Set, switches, threads, history, Sound, SleepersSound
  <2>2. \A u \in Objects : Sound(u)'
    BY <1>1, <1>3 DEF Wait, WaitStep, Set, switches, threads, history, Sound, SleepersSound
  <2>3. SleepersSound'
    BY <1>1, <1>3 DEF Wait, WaitStep, Set, switches, threads, history, Sound, SleepersSound
  <2> QED BY <2>1, <2>2, <2>3
<1>4. CASE waits' = waits /\ NoThread(o)
  <2>1. ObjectTypeOK'
    BY <1>1, <1>4 DEF NoThread, Set, threads, history, Sound, SleepersSound
  <2>2. \A u \in Objects : Sound(u)'
    BY <1>1, <1>4 DEF NoThread, Set, threads, history, Sound, SleepersSound
  <2>3. SleepersSound'
    BY <1>1, <1>4 DEF NoThread, Set, threads, history, Sound, SleepersSound
  <2> QED BY <2>1, <2>2, <2>3
<1>5. CASE waits' = waits /\ (NewThread(o) \/ KeepThread(o)) /\ Asked(o) /\ UNCHANGED <<should_respawn, owed>>
  <2>1. ObjectTypeOK'
    BY <1>1, <1>5, Started
  <2>2. \A u \in Objects : Sound(u)'
    BY <1>1, <1>5, Started
  <2>3. SleepersSound'
    BY <1>1, <1>5, Started
  <2> QED BY <2>1, <2>2, <2>3
<1>6. CASE waits' = waits /\ DoRestart(o)
  <2>1. ObjectTypeOK'
    BY <1>1, <1>6, Started DEF DoRestart, Set
  <2>2. \A u \in Objects : Sound(u)'
    BY <1>1, <1>6, Started DEF DoRestart, Set
  <2>3. SleepersSound'
    BY <1>1, <1>6, Started DEF DoRestart, Set
  <2> QED BY <2>1, <2>2, <2>3
<1>7. CASE waits' = waits /\ SetRespawn(o)
  <2>1. ObjectTypeOK'
    BY <1>1, <1>7 DEF SetRespawn, Asked, Set, threads, Sound, SleepersSound
  <2>2. \A u \in Objects : Sound(u)'
    BY <1>1, <1>7 DEF SetRespawn, Asked, Set, threads, Sound, SleepersSound
  <2>3. SleepersSound'
    BY <1>1, <1>7 DEF SetRespawn, Asked, Set, threads, Sound, SleepersSound
  <2> QED BY <2>1, <2>2, <2>3
<1>8. CASE waits' = waits /\ Pause(o)
  <2>1. ObjectTypeOK'
    BY <1>1, <1>8 DEF Pause, Set, threads, history, Sound, SleepersSound
  <2>2. \A u \in Objects : Sound(u)'
    BY <1>1, <1>8 DEF Pause, Set, threads, history, Sound, SleepersSound
  <2>3. SleepersSound'
    BY <1>1, <1>8 DEF Pause, Set, threads, history, Sound, SleepersSound
  <2> QED BY <2>1, <2>2, <2>3
<1>9. CASE waits' = waits /\ Stop(o)
  <2>1. ObjectTypeOK'
    BY <1>1, <1>9 DEF Stop, Broadcast, Set, Sound, SleepersSound
  <2>2. \A u \in Objects : Sound(u)'
    BY <1>1, <1>9 DEF Stop, Broadcast, Set, Sound, SleepersSound
  <2>3. SleepersSound'
    BY <1>1, <1>9 DEF Stop, Broadcast, Set, Sound, SleepersSound
  <2> QED BY <2>1, <2>2, <2>3
<1> QED BY <1>2, <1>3, <1>4, <1>5, <1>6, <1>7, <1>8, <1>9 DEF Start, Restart

LEMMA ThreadKeeps == ASSUME ObjectInv, NEW o \in Objects, ThreadStep(o) PROVE ObjectInv'
<1> USE DEF ObjectInv, ObjectTypeOK, Sound, SleepersSound, Set
<1>1. CASE ThreadBegin(o)
  <2>1. ObjectTypeOK'
    BY <1>1 DEF ThreadBegin
  <2>2. \A u \in Objects : Sound(u)'
    BY <1>1 DEF ThreadBegin
  <2>3. SleepersSound'
    BY <1>1 DEF ThreadBegin
  <2> QED BY <2>1, <2>2, <2>3
<1>2. CASE ShouldStopWaits(o)
  <2>1. ObjectTypeOK'
    BY <1>2 DEF ShouldStopWaits, switches, history
  <2>2. \A u \in Objects : Sound(u)'
    BY <1>2 DEF ShouldStopWaits, switches, history
  <2>3. SleepersSound'
    BY <1>2 DEF ShouldStopWaits, switches, history
  <2> QED BY <2>1, <2>2, <2>3
<1>3. CASE ThreadReturns(o)
  <2>1. ObjectTypeOK'
    BY <1>3 DEF ThreadReturns, switches, history
  <2>2. \A u \in Objects : Sound(u)'
    BY <1>3 DEF ThreadReturns, switches, history
  <2>3. SleepersSound'
    BY <1>3 DEF ThreadReturns, switches, history
  <2> QED BY <2>1, <2>2, <2>3
<1>4. CASE ThreadEnd(o) /\ should_respawn[o]
  <2>1. ObjectTypeOK'
    BY <1>4 DEF ThreadEnd, switches, history
  <2>2. \A u \in Objects : Sound(u)'
    BY <1>4 DEF ThreadEnd, switches, history
  <2>3. SleepersSound'
    BY <1>4 DEF ThreadEnd, switches, history
  <2> QED BY <2>1, <2>2, <2>3
<1>5. CASE ThreadEnd(o) /\ ~should_respawn[o]
  <2>1. ObjectTypeOK'
    <3>1. helpers[o] = 1 /\ helpers' = [helpers EXCEPT ![o] = @ - 1]
      BY <1>5 DEF ThreadEnd
    <3>2. helpers' \in [Objects -> Nat]
      BY <3>1
    <3> QED BY <1>5, <3>2, ZenonT(40) DEF ThreadEnd, history
  <2>2. \A u \in Objects : Sound(u)'
    <3>1. /\ helper' = [helper EXCEPT ![o] = "none"] /\ helpers' = [helpers EXCEPT ![o] = @ - 1]
          /\ is_alive' = [is_alive EXCEPT ![o] = FALSE] /\ is_running' = [is_running EXCEPT ![o] = FALSE]
          /\ should_stop' = [should_stop EXCEPT ![o] = FALSE]
          /\ UNCHANGED <<should_respawn, credit>> /\ helper[o] = "end"
      BY <1>5 DEF ThreadEnd, history
    <3>2. helpers[o] = 1
      BY <3>1
    <3>3. Sound(o)'
      BY <3>1, <3>2
    <3>4. ASSUME NEW u \in Objects, u # o PROVE Sound(u)'
      BY <3>1, <3>4
    <3> QED BY <3>3, <3>4
  <2>3. SleepersSound'
    BY <1>5 DEF ThreadEnd, history
  <2> QED BY <2>1, <2>2, <2>3
<1> QED BY <1>1, <1>2, <1>3, <1>4, <1>5 DEF ThreadStep

LEMMA WaitKeeps == ASSUME ObjectInv, NEW c \in Callers, WaitOn(c) PROVE ObjectInv'
BY DEF ObjectInv, ObjectTypeOK, WaitOn, WaitStep, Set, switches, threads, history, Sound, SleepersSound

(* The inductive invariant holds in every state.                           *)
THEOREM ObjectInvariant == ObjectSpec => []ObjectInv
<1>1. ASSUME ObjectInv, [ObjectNext]_objectVars PROVE ObjectInv'
  <2>1. CASE UNCHANGED objectVars
    BY <1>1, <2>1 DEF ObjectInv, ObjectTypeOK, Sound, SleepersSound, objectVars, switches, threads, history
  <2>2. CASE ObjectNext
    BY <1>1, <2>2, CallKeeps, ThreadKeeps, WaitKeeps DEF ObjectNext
  <2> QED BY <1>1, <2>1, <2>2
<1> QED BY <1>1, ObjectInitInv, PTL DEF ObjectSpec

(* Type correctness of the threaded object.                                *)
THEOREM ObjectTypeCorrect == ObjectSpec => []ObjectTypeOK
<1>1. ObjectInv => ObjectTypeOK
  BY DEF ObjectInv
<1> QED BY <1>1, ObjectInvariant, PTL

(* start() and restart() never give the object a second thread, and        *)
(* is_alive() says whether it has one.                                     *)
THEOREM ObjectHasOneThread == ObjectSpec => []OneThread
<1>1. ObjectInv => OneThread
  BY DEF ObjectInv, Sound, OneThread
<1> QED BY <1>1, ObjectInvariant, PTL

(* Nobody sleeps in wait() for a thread that ended, nor paused after a     *)
(* start() or stop().                                                      *)
THEOREM NobodyLeftAsleep == ObjectSpec => []NobodyForgotten
<1>1. ObjectInv => NobodyForgotten
  BY DEF ObjectInv, Sound, SleepersSound, NobodyForgotten
<1> QED BY <1>1, ObjectInvariant, PTL

(* thread() begins at most once for each call that asks for it, whatever   *)
(* should_respawn_ was before the first of them.                           *)
THEOREM RunsWereAsked == ObjectSpec => []NoRunUnasked
<1>1. ObjectInv => NoRunUnasked
  BY DEF ObjectInv, Sound, NoRunUnasked
<1> QED BY <1>1, ObjectInvariant, PTL

(* All of it together: what a threaded_object promises at every moment.     *)
THEOREM ObjectIsSound == ObjectSpec => []ObjectSound
BY ObjectTypeCorrect, ObjectHasOneThread, NobodyLeftAsleep, RunsWereAsked, PTL DEF ObjectSound

-----------------------------------------------------------------------------
(* The timers.                                                             *)
(* A timer in the clock is due at the latest when its delay is over, an     *)
(* action executes in thread() only, and nobody pauses a timer's thread.    *)
DelaysBound == \A o \in in_clock : next[o] <= delay[o]
ActingSound == \A o \in Objects : helper[o] # "paused" /\ (o \in acting => helper[o] = "thread")

Timed == NeverForgotten /\ NeverLate /\ QuietAfterWait /\ DelaysBound /\ ActingSound
TimerInv == ObjectInv /\ TimerTypeOK /\ Timed

-----------------------------------------------------------------------------
LEMMA LongestDelay ==
  Longest \in Delays /\ Longest \in Nat /\ Far \in Nat /\ Far = Longest + 1 /\ (\A d \in Delays : d \in Nat /\ d <= Longest)
<1>1. Longest \in Delays /\ \A d \in Delays : d <= Longest
  BY LongestAssumption DEF Longest
<1> QED BY <1>1, DelayAssumption DEF Far

LEMMA InClock ==
  ASSUME TimerTypeOK, DelaysBound, NEW o \in in_clock
  PROVE  o \in Objects /\ next[o] \in Int /\ delay[o] \in Nat /\ next[o] <= delay[o] /\ next[o] <= Longest
<1>1. o \in Objects /\ next[o] \in Int /\ delay[o] \in Delays /\ next[o] <= delay[o]
  BY DEF TimerTypeOK, DelaysBound
<1>2. delay[o] \in Nat /\ delay[o] <= Longest /\ Longest \in Nat
  BY <1>1, LongestDelay
<1> QED BY <1>1, <1>2

(* Steps that leave the threaded_objects alone, but for the waits.          *)
LEMMA ObjectStays == ASSUME ObjectInv, UNCHANGED objectVars PROVE ObjectInv'
BY DEF ObjectInv, ObjectTypeOK, Sound, SleepersSound, objectVars, switches, threads, history

LEMMA ObjectWaits ==
  ASSUME ObjectInv, UNCHANGED <<switches, threads, asleep, history>>, calls' \in 0..MaxCalls,
         waits' = waits \/ \E c \in Callers, o \in Objects : Awaiting(c, o)
  PROVE  ObjectInv'
<1>1. CASE waits' = waits
  BY <1>1 DEF ObjectInv, ObjectTypeOK, Sound, SleepersSound, switches, threads, history
<1>2. ASSUME NEW c \in Callers, NEW o \in Objects, Awaiting(c, o) PROVE ObjectInv'
  <2>1. c \notin asleep
    BY <1>2, NamesAssumption DEF ObjectInv, SleepersSound, Awaiting
  <2>2. waits' \in [Callers -> Objects \cup {"nothing"}] /\ \A d \in asleep : waits'[d] = waits[d]
    BY <1>2, <2>1 DEF ObjectInv, ObjectTypeOK, Awaiting, Set
  <2> QED BY <2>1, <2>2 DEF ObjectInv, ObjectTypeOK, Sound, SleepersSound, switches, threads, history
<1> QED BY <1>1, <1>2

LEMMA ObjectRestarts ==
  ASSUME ObjectInv, NEW o \in Objects, DoRestart(o), UNCHANGED <<waits, calls>>
  PROVE  ObjectInv'
<1>1. \A u \in Objects : Sound(u)'
  BY Started DEF DoRestart, Set, ObjectInv, ObjectTypeOK
<1>2. ObjectTypeOK'
  BY Started DEF DoRestart, Set, ObjectInv, ObjectTypeOK
<1>3. SleepersSound'
  BY Started DEF DoRestart, Set, ObjectInv, ObjectTypeOK
<1> QED BY <1>1, <1>2, <1>3 DEF ObjectInv

LEMMA TimerInitInv == TimerInit => TimerInv
<1> SUFFICES ASSUME TimerInit PROVE TimerInv
  OBVIOUS
<1>1. ObjectInv
  BY ObjectInitInv DEF TimerInit
<1>2. TimerTypeOK
  BY LongestDelay, DelayAssumption DEF TimerInit, TimerTypeOK
<1>3. Timed
  BY DEF TimerInit, ObjectInit, Timed, NeverForgotten, NeverLate, QuietAfterWait, DelaysBound, ActingSound
<1> QED BY <1>1, <1>2, <1>3 DEF TimerInv

-----------------------------------------------------------------------------
(* Time and the clock thread                                                *)

LEMMA TickKeeps == ASSUME TimerInv, Tick PROVE TimerInv'
<1> USE DEF TimerInv
<1>1. ObjectInv'
  BY ObjectStays DEF Tick
<1>2. TimerTypeOK'
  BY LongestDelay DEF Tick, TimerTypeOK, ghosts
<1>3. UNCHANGED <<helper, should_respawn, running, delay, in_clock, clock, acting, quiet>>
  BY DEF Tick, objectVars, switches, threads, ghosts
<1>4. \A o \in Objects : /\ next[o] \in Int /\ next'[o] \in Int /\ next'[o] <= next[o]
                         /\ next'[o] >= next[o] - 1
                         /\ next[o] <= -Longest => next'[o] = next[o]
  BY LongestDelay DEF Tick, TimerTypeOK
<1>5. DelaysBound'
  <2> SUFFICES ASSUME NEW o \in in_clock PROVE next'[o] <= delay[o]
    BY <1>3 DEF DelaysBound
  <2>1. next[o] <= delay[o] /\ delay[o] \in Nat /\ o \in Objects
    BY InClock DEF Timed
  <2> QED BY <1>4, <2>1
<1>6. NeverLate'
  <2> SUFFICES ASSUME clock \in {"off", "asleep"}, NEW o \in in_clock
               PROVE  clock = "asleep" /\ (deadline' <= next'[o] \/ deadline' = 0)
    BY <1>3 DEF NeverLate
  <2>1. clock = "asleep" /\ (deadline <= next[o] \/ deadline = 0) /\ o \in Objects
    BY DEF Timed, NeverLate, TimerTypeOK
  <2>2. next[o] \in Int /\ next[o] <= Longest /\ deadline \in 0..Far
    BY InClock DEF Timed, TimerTypeOK
  <2>3. deadline' = IF deadline \in 1..Longest THEN deadline - 1 ELSE deadline
    BY <2>1 DEF Tick
  <2>4. next'[o] \in Int /\ next'[o] <= next[o] /\ next'[o] >= next[o] - 1
        /\ (next[o] <= -Longest => next'[o] = next[o])
    BY <1>4, <2>1
  <2>5. Longest \in Nat /\ Far = Longest + 1
    BY LongestDelay
  <2>6. deadline' <= next'[o] \/ deadline' = 0
    BY <2>1, <2>2, <2>3, <2>4, <2>5
  <2> QED BY <2>1, <2>6
<1>7. NeverForgotten' /\ QuietAfterWait' /\ ActingSound'
  BY <1>3 DEF Timed, NeverForgotten, QuietAfterWait, ActingSound
<1> QED BY <1>1, <1>2, <1>5, <1>6, <1>7 DEF Timed

(* The clock thread restarts a timer that is due, and takes it out.         *)
LEMMA FireKeeps == ASSUME TimerInv, NEW o \in Objects, Fire(o) PROVE TimerInv'
<1> USE DEF TimerInv
<1>1. ObjectInv'
  BY ObjectRestarts, ObjectStays DEF Fire, objectVars
<1>2. /\ in_clock' = in_clock \ {o} /\ clock' = "firing" /\ o \in in_clock
      /\ UNCHANGED <<running, delay, next, deadline, acting, ended, quiet>>
  BY DEF Fire, Remove, Due, ghosts
<1>3. TimerTypeOK'
  BY <1>2 DEF TimerTypeOK
<1>4. running[o]
  BY <1>2 DEF Timed, NeverForgotten
<1>5. /\ helper' \in [Objects -> {"none", "begin", "thread", "paused", "end"}]
      /\ \A u \in Objects : u # o => helper'[u] = helper[u] /\ (should_respawn'[u] <=> should_respawn[u])
      /\ \/ helper'[o] = "begin" /\ helper[o] = "none"
         \/ helper'[o] = helper[o] /\ helper[o] # "none" /\ should_respawn'[o]
  <2>1. DoRestart(o)
    BY <1>4 DEF Fire
  <2>2. /\ helper \in [Objects -> {"none", "begin", "thread", "paused", "end"}]
        /\ should_respawn \in [Objects -> BOOLEAN] /\ is_alive \in [Objects -> BOOLEAN]
        /\ is_alive[o] <=> helper[o] # "none"
        /\ helper[o] # "paused"
    BY DEF ObjectInv, ObjectTypeOK, Sound, Timed, ActingSound
  <2>3. CASE is_alive[o]
    <3>1. helper' = helper /\ should_respawn' = [should_respawn EXCEPT ![o] = is_alive[o]]
      BY <2>1, <2>2, <2>3 DEF DoRestart, NewThread, KeepThread, Broadcast, Set
    <3> QED BY <2>2, <2>3, <3>1
  <2>4. CASE ~is_alive[o]
    <3>1. helper' = [helper EXCEPT ![o] = "begin"] /\ should_respawn' = [should_respawn EXCEPT ![o] = is_alive[o]]
      BY <2>1, <2>4 DEF DoRestart, NewThread, KeepThread, Set
    <3> QED BY <2>2, <2>4, <3>1
  <2> QED BY <2>3, <2>4
<1>6. ActingSound'
  BY <1>2, <1>5 DEF Timed, ActingSound
<1>7. NeverForgotten'
  BY <1>2, <1>4, <1>5 DEF Timed, NeverForgotten, ActingSound
<1>8. NeverLate' /\ DelaysBound'
  BY <1>2 DEF Timed, NeverLate, DelaysBound
<1>9. QuietAfterWait'
  BY <1>2, <1>5 DEF Timed, QuietAfterWait, TimerTypeOK
<1> QED BY <1>1, <1>3, <1>6, <1>7, <1>8, <1>9 DEF Timed

(* It sleeps to the first timer in the clock, which is not due.             *)
LEMMA SleepKeeps == ASSUME TimerInv, ClockSleeps \/ ClockWakes PROVE TimerInv'
<1> USE DEF TimerInv
<1>1. ObjectInv'
  BY ObjectStays DEF ClockSleeps, ClockWakes
<1>2. UNCHANGED <<helper, should_respawn, running, delay, next, in_clock, acting, ended, quiet>>
  BY DEF ClockSleeps, ClockWakes, objectVars, switches, threads, timerState, ghosts
<1>3. TimerTypeOK' /\ NeverLate'
  <2>1. CASE ClockSleeps
    <3>1. PICK t : t = deadline' /\ t \in 0..Far /\ \A o \in in_clock : t <= next[o]
      <4>1. CASE in_clock = {} /\ deadline' = Far
        BY <4>1, LongestDelay
      <4>2. ASSUME NEW o \in in_clock, \A p \in in_clock : next[o] <= next[p], deadline' = next[o]
            PROVE  deadline' \in 0..Far
        <5>1. next[o] \in Int /\ ~(next[o] <= 0) /\ next[o] <= Longest
          BY <2>1, InClock DEF ClockSleeps, Due, Timed
        <5> QED BY <4>2, <5>1, LongestDelay
      <4> QED BY <2>1, <4>1, <4>2 DEF ClockSleeps
    <3> QED BY <1>2, <2>1, <3>1 DEF ClockSleeps, TimerTypeOK, NeverLate
  <2>2. CASE ClockWakes
    BY <1>2, <2>2 DEF ClockWakes, TimerTypeOK, NeverLate
  <2> QED BY <2>1, <2>2
<1>4. NeverForgotten' /\ QuietAfterWait' /\ DelaysBound' /\ ActingSound'
  BY <1>2 DEF Timed, NeverForgotten, QuietAfterWait, DelaysBound, ActingSound
<1> QED BY <1>1, <1>3, <1>4 DEF Timed

-----------------------------------------------------------------------------
(* The thread of a timer                                                    *)

LEMMA BeginsKeeps == ASSUME TimerInv, NEW o \in Objects, Begins(o) PROVE TimerInv'
<1> USE DEF TimerInv
<1>1. ObjectInv'
  BY ThreadKeeps DEF Begins, ThreadStep
<1>2. /\ helper[o] = "begin" /\ helper' = [helper EXCEPT ![o] = "thread"]
      /\ should_respawn' = [should_respawn EXCEPT ![o] = FALSE]
      /\ acting' = acting \cup {o}
      /\ UNCHANGED <<running, delay, next, in_clock, clock, deadline, ended, quiet>>
  BY DEF Begins, ThreadBegin, Set, timerState, clockState, ghosts
<1>3. helper \in [Objects -> {"none", "begin", "thread", "paused", "end"}]
      /\ should_respawn \in [Objects -> BOOLEAN]
  BY DEF ObjectInv, ObjectTypeOK
<1>4. TimerTypeOK' /\ NeverLate' /\ DelaysBound'
  BY <1>2 DEF Timed, TimerTypeOK, NeverLate, DelaysBound
<1>5. ActingSound' /\ QuietAfterWait'
  BY <1>2, <1>3 DEF Timed, ActingSound, QuietAfterWait, TimerTypeOK
<1>6. NeverForgotten'
  BY <1>2, <1>3 DEF Timed, NeverForgotten
<1> QED BY <1>1, <1>4, <1>5, <1>6 DEF Timed

LEMMA ActionReturnsKeeps == ASSUME TimerInv, NEW o \in Objects, ActionReturns(o) PROVE TimerInv'
<1> USE DEF TimerInv
<1>1. ObjectInv'
  BY ObjectStays DEF ActionReturns
<1>2. /\ UNCHANGED <<helper, should_respawn, running, delay, next, in_clock, clock, deadline, ended, quiet>>
      /\ acting' = acting \ {o}
  BY DEF ActionReturns, objectVars, switches, threads, timerState, clockState, ghosts
<1>3. TimerTypeOK' /\ Timed'
  BY <1>2 DEF Timed, TimerTypeOK, NeverForgotten, NeverLate, QuietAfterWait, DelaysBound, ActingSound
<1> QED BY <1>1, <1>3

(* An addition to the clock.                                                *)
LEMMA Added ==
  ASSUME TimerTypeOK, NEW o \in Objects, NEW S, Add(o, S)
  PROVE  next' \in [Objects -> Int] /\ in_clock' = S \cup {o} /\ clock' \in {clock, "awake"}
<1>1. next \in [Objects -> Int] /\ delay[o] \in Int
  <2>1. delay[o] \in Delays
    BY DEF TimerTypeOK
  <2>2. delay[o] \in Nat
    BY <2>1, DelayAssumption
  <2> QED BY <2>2 DEF TimerTypeOK
<1>2. next' \in [Objects -> Int]
  BY <1>1 DEF Add
<1>3. clock' \in {clock, "awake"}
  BY DEF Add, Awaken
<1> QED BY <1>2, <1>3 DEF Add

(* The clock thread wakes up for the timer that is added, unless another    *)
(* that it does not sleep past comes first.                                 *)
LEMMA AddedLate ==
  ASSUME TimerTypeOK, DelaysBound, NeverLate, NEW o \in Objects, NEW S, S = in_clock \ {o},
         Add(o, S), UNCHANGED <<delay, deadline>>
  PROVE  NeverLate' /\ DelaysBound'
<1>1. next' = [next EXCEPT ![o] = delay[o]] /\ in_clock' = S \cup {o} /\ S \subseteq Objects
      /\ next \in [Objects -> Int] /\ delay \in [Objects -> Delays] /\ delay[o] \in Nat
      /\ clock' \in {clock, "awake"}
  BY DelayAssumption DEF Add, Awaken, TimerTypeOK
<1>3. DelaysBound'
  BY <1>1 DEF DelaysBound
<1>4. CASE \A p \in S : delay[o] < next[p]
  <2>1. clock' = "awake"
    BY <1>4 DEF Add, Awaken
  <2> QED BY <1>3, <2>1 DEF NeverLate
<1>5. ASSUME NEW p \in S, ~(delay[o] < next[p]) PROVE NeverLate'
  <2>1. clock' = clock
    BY <1>5 DEF Add, Awaken
  <2>2. next[p] \in Int /\ next[p] <= delay[o] /\ next'[o] = delay[o] /\ deadline \in 0..Far /\ p # o
    BY <1>1, <1>5 DEF TimerTypeOK
  <2>3. \A q \in S : next'[q] = next[q] /\ q \in in_clock
    BY <1>1
  <2>4. clock \in {"off", "asleep"} => clock = "asleep" /\ (deadline <= next[p] \/ deadline = 0)
    BY <1>5 DEF NeverLate
  <2>5. clock \in {"off", "asleep"} => deadline <= next'[o] \/ deadline = 0
    BY <1>1, <2>2, <2>4, LongestDelay
  <2> QED BY <1>1, <2>1, <2>3, <2>4, <2>5 DEF NeverLate
<1> QED BY <1>3, <1>4, <1>5

LEMMA RescheduleKeeps == ASSUME TimerInv, NEW o \in Objects, Reschedule(o) PROVE TimerInv'
<1> USE DEF TimerInv
<1>1. ObjectInv'
  BY ThreadKeeps DEF Reschedule, ThreadStep
<1>2. /\ helper[o] = "thread" /\ o \notin acting /\ helper' = [helper EXCEPT ![o] = "end"]
      /\ UNCHANGED <<should_respawn, running, delay, deadline, acting, ended, quiet>>
  BY DEF Reschedule, ThreadReturns, Set, switches, ghosts
<1>3. helper \in [Objects -> {"none", "begin", "thread", "paused", "end"}]
  BY DEF ObjectInv, ObjectTypeOK
<1>4. TimerTypeOK' /\ NeverLate' /\ DelaysBound'
  <2>1. CASE running[o] /\ Add(o, in_clock \ {o})
    <3>1. next' \in [Objects -> Int] /\ in_clock' \subseteq Objects /\ clock' \in {clock, "awake"}
      BY <2>1, Added DEF TimerTypeOK
    <3>2. TimerTypeOK'
      BY <1>2, <3>1 DEF TimerTypeOK
    <3> QED BY <1>2, <2>1, <3>2, AddedLate DEF Timed
  <2>2. CASE UNCHANGED <<clock, next, in_clock>>
    BY <1>2, <2>2 DEF Timed, TimerTypeOK, NeverLate, DelaysBound
  <2> QED BY <2>1, <2>2 DEF Reschedule
<1>5. in_clock' = (IF running[o] THEN in_clock \cup {o} ELSE in_clock)
  BY DEF Reschedule, Add
<1>6. ActingSound'
  BY <1>2, <1>3 DEF Timed, ActingSound
<1>7. NeverForgotten'
  BY <1>2, <1>3, <1>5 DEF Timed, NeverForgotten
<1>8. QuietAfterWait'
  BY <1>2, <1>3, <1>5 DEF Timed, QuietAfterWait, TimerTypeOK
<1> QED BY <1>1, <1>4, <1>6, <1>7, <1>8 DEF Timed

LEMMA EndsKeeps == ASSUME TimerInv, NEW o \in Objects, Ends(o) PROVE TimerInv'
<1> USE DEF TimerInv
<1>1. ObjectInv'
  BY ThreadKeeps DEF Ends, ThreadStep
<1>2. /\ helper[o] = "end" /\ helper' = [helper EXCEPT ![o] = IF should_respawn[o] THEN "begin" ELSE "none"]
      /\ UNCHANGED <<should_respawn, running, delay, next, in_clock, clock, deadline, acting, ended, quiet>>
  BY DEF Ends, ThreadEnd, Set, switches, timerState, clockState, ghosts
<1>3. helper \in [Objects -> {"none", "begin", "thread", "paused", "end"}]
  BY DEF ObjectInv, ObjectTypeOK
<1>4. TimerTypeOK' /\ NeverLate' /\ DelaysBound'
  BY <1>2 DEF Timed, TimerTypeOK, NeverLate, DelaysBound
<1>5. ActingSound' /\ QuietAfterWait'
  BY <1>2, <1>3 DEF Timed, ActingSound, QuietAfterWait, TimerTypeOK
<1>6. NeverForgotten'
  BY <1>2, <1>3 DEF Timed, NeverForgotten
<1> QED BY <1>1, <1>4, <1>5, <1>6 DEF Timed

-----------------------------------------------------------------------------
(* The methods                                                              *)

LEMMA Counted == ASSUME TimerInv, NEW o \in Objects, Locked(o) PROVE calls' \in 0..MaxCalls
BY CallsAssumption DEF TimerInv, ObjectInv, ObjectTypeOK, Locked

LEMMA StartKeeps == ASSUME TimerInv, NEW o \in Objects, StartTimer(o) PROVE TimerInv'
<1> USE DEF TimerInv
<1>1. ObjectInv'
  BY ObjectWaits, Counted DEF StartTimer
<1>2. /\ UNCHANGED <<helper, should_respawn, delay, deadline, acting, ended>>
      /\ running' = [running EXCEPT ![o] = TRUE] /\ quiet' = quiet \ {o}
  BY DEF StartTimer, Set, switches, threads
<1>3. TimerTypeOK' /\ NeverLate' /\ DelaysBound' /\ in_clock \subseteq in_clock' /\ in_clock' \subseteq in_clock \cup {o}
      /\ (~running[o] => o \in in_clock')
  <2>1. CASE running[o]
    BY <1>2, <2>1 DEF StartTimer, Timed, TimerTypeOK, NeverLate, DelaysBound
  <2>2. CASE ~running[o]
    <3>1. o \notin in_clock /\ in_clock = in_clock \ {o}
      BY <2>2 DEF Timed, NeverForgotten
    <3>2. Add(o, in_clock)
      BY <2>2 DEF StartTimer
    <3>3. next' \in [Objects -> Int] /\ in_clock' = in_clock \cup {o}
          /\ running' \in [Objects -> BOOLEAN] /\ clock' \in {clock, "awake"}
      BY <1>2, <3>2, Added DEF TimerTypeOK
    <3>4. TimerTypeOK'
      BY <1>2, <3>3 DEF TimerTypeOK
    <3>5. NeverLate' /\ DelaysBound'
      BY <1>2, <3>1, <3>2, AddedLate DEF Timed, TimerTypeOK
    <3> QED BY <3>3, <3>4, <3>5
  <2> QED BY <2>1, <2>2
<1>4. ActingSound' /\ QuietAfterWait'
  BY <1>2, <1>3 DEF Timed, ActingSound, QuietAfterWait, TimerTypeOK
<1>5. NeverForgotten'
  BY <1>2, <1>3 DEF Timed, NeverForgotten, TimerTypeOK
<1> QED BY <1>1, <1>3, <1>4, <1>5 DEF Timed

(* stop(), clear(), stop_and_wait() and the destructor take the timer out.  *)
LEMMA HaltKeeps ==
  ASSUME TimerInv, NEW o \in Objects, Halt(o), Reset(o) \/ UNCHANGED <<delay, next>>, ended' \subseteq Objects,
         waits' = waits \/ \E c \in Callers, u \in Objects : Awaiting(c, u)
  PROVE  TimerInv'
<1> USE DEF TimerInv
<1>1. ObjectInv'
  BY ObjectWaits, Counted DEF Halt
<1>2. /\ UNCHANGED <<helper, should_respawn, clock, deadline, acting, quiet>>
      /\ running' = [running EXCEPT ![o] = FALSE] /\ in_clock' = in_clock \ {o}
  BY DEF Halt, Remove, Set, switches, threads, clockState
<1>3. /\ delay' \in [Objects -> Delays] /\ next' \in [Objects -> Int]
      /\ \A u \in Objects : u # o => delay'[u] = delay[u] /\ next'[u] = next[u]
  BY DelayAssumption DEF Reset, Set, TimerTypeOK
<1>4. TimerTypeOK'
  BY <1>2, <1>3 DEF TimerTypeOK
<1>5. NeverLate' /\ DelaysBound'
  BY <1>2, <1>3 DEF Timed, NeverLate, DelaysBound, TimerTypeOK
<1>6. ActingSound' /\ QuietAfterWait'
  BY <1>2 DEF Timed, ActingSound, QuietAfterWait
<1>7. NeverForgotten'
  BY <1>2 DEF Timed, NeverForgotten, TimerTypeOK
<1> QED BY <1>1, <1>4, <1>5, <1>6, <1>7 DEF Timed

(* A new delay moves the timer in the clock, to no earlier than the clock   *)
(* thread knows of.                                                         *)
LEMMA SetDelayKeeps ==
  ASSUME TimerInv, NEW o \in Objects, NEW d \in Delays, SetDelayTime(o, d) PROVE TimerInv'
<1> USE DEF TimerInv
<1>1. ObjectInv'
  BY ObjectWaits, Counted DEF SetDelayTime
<1>2. /\ UNCHANGED <<helper, should_respawn, running, in_clock, deadline, acting, ended, quiet>>
      /\ delay' = [delay EXCEPT ![o] = d] /\ d \in Nat /\ d <= Longest
  BY LongestDelay DEF SetDelayTime, Set, switches, threads, ghosts
<1>3. TimerTypeOK' /\ NeverLate' /\ DelaysBound'
  <2>1. CASE o \notin in_clock
    BY <1>2, <2>1 DEF SetDelayTime, AdjustDelay, Timed, TimerTypeOK, NeverLate, DelaysBound
  <2>2. CASE o \in in_clock
    <3> DEFINE t == next[o] - delay[o] + d
               at == IF t < -Longest THEN -Longest ELSE t
    <3>1. t \in Int /\ at \in Int /\ t <= at /\ at <= d
      BY <1>2, <2>2, InClock, LongestDelay DEF Timed
    <3>2. Awaken(t, in_clock \ {o}) /\ next' = [next EXCEPT ![o] = at]
      BY <2>2 DEF SetDelayTime, AdjustDelay
    <3> HIDE DEF t, at
    <3>3. clock' \in {clock, "awake"} /\ next \in [Objects -> Int] /\ delay \in [Objects -> Delays]
      BY <3>2 DEF Awaken, TimerTypeOK
    <3>4. TimerTypeOK'
      BY <1>2, <3>1, <3>2, <3>3 DEF TimerTypeOK
    <3>5. DelaysBound'
      BY <1>2, <3>1, <3>2, <3>3 DEF Timed, DelaysBound, TimerTypeOK
    <3>6. CASE \A p \in in_clock \ {o} : t < next[p]
      <4>1. clock' = "awake"
        BY <3>2, <3>6 DEF Awaken
      <4> QED BY <3>4, <3>5, <4>1 DEF NeverLate
    <3>7. ASSUME NEW p \in in_clock \ {o}, ~(t < next[p]) PROVE NeverLate'
      <4>1. clock' = clock
        BY <3>2, <3>7 DEF Awaken
      <4>2. next[p] \in Int /\ deadline \in 0..Far /\ next'[o] = at
        BY <3>2, <3>3 DEF TimerTypeOK
      <4>3. clock \in {"off", "asleep"} => clock = "asleep" /\ (deadline <= next[p] \/ deadline = 0)
        BY DEF Timed, NeverLate
      <4>4. clock \in {"off", "asleep"} => deadline <= next'[o] \/ deadline = 0
        BY <3>1, <3>7, <4>2, <4>3, LongestDelay
      <4>5. \A q \in in_clock : q # o => next'[q] = next[q]
        BY <3>2, <3>3 DEF TimerTypeOK
      <4> QED BY <1>2, <4>1, <4>3, <4>4, <4>5 DEF Timed, NeverLate
    <3> QED BY <3>4, <3>5, <3>6, <3>7
  <2> QED BY <2>1, <2>2
<1>4. ActingSound' /\ QuietAfterWait' /\ NeverForgotten'
  BY <1>2 DEF Timed, ActingSound, QuietAfterWait, NeverForgotten
<1> QED BY <1>1, <1>3, <1>4 DEF Timed

LEMMA WaitGoesOnKeeps == ASSUME TimerInv, NEW c \in Callers, WaitGoesOn(c) PROVE TimerInv'
<1> USE DEF TimerInv
<1>1. ObjectInv'
  BY WaitKeeps DEF WaitGoesOn
<1>2. UNCHANGED <<helper, should_respawn, running, delay, next, in_clock, clock, deadline, acting, ended>>
  BY DEF WaitGoesOn, WaitOn, WaitStep, switches, threads, timerState, clockState
<1>3. waits[c] \in Objects /\ waits \in [Callers -> Objects \cup {"nothing"}]
  BY DEF WaitGoesOn, WaitOn, ObjectInv, ObjectTypeOK
<1>4. QuietAfterWait' /\ quiet' \subseteq Objects
  <2>1. CASE quiet' = quiet
    BY <1>2, <2>1 DEF Timed, QuietAfterWait, TimerTypeOK
  <2>2. CASE waits'[c] = "nothing" /\ ~running[waits[c]] /\ quiet' = quiet \cup {waits[c]}
    <3>1. ~is_alive[waits[c]]
      BY <1>3, <2>2, NamesAssumption DEF WaitGoesOn, WaitOn, WaitStep, Set
    <3>2. helper[waits[c]] = "none"
      BY <1>3, <3>1 DEF ObjectInv, Sound
    <3>3. waits[c] \notin in_clock /\ waits[c] \notin acting
      BY <1>3, <2>2, <3>2 DEF Timed, NeverForgotten, ActingSound
    <3> QED BY <1>2, <1>3, <2>2, <3>2, <3>3 DEF Timed, QuietAfterWait, TimerTypeOK
  <2> QED BY <2>1, <2>2 DEF WaitGoesOn
<1>5. TimerTypeOK'
  BY <1>2, <1>4 DEF TimerTypeOK
<1>6. ActingSound' /\ NeverForgotten' /\ NeverLate' /\ DelaysBound'
  BY <1>2 DEF Timed, ActingSound, NeverForgotten, NeverLate, DelaysBound
<1> QED BY <1>1, <1>4, <1>5, <1>6 DEF Timed

-----------------------------------------------------------------------------
LEMMA MethodKeeps == ASSUME TimerInv, Method PROVE TimerInv'
<1>1. ended \subseteq Objects
  BY DEF TimerInv, TimerTypeOK
<1>2. ASSUME NEW o \in Objects, StopTimer(o) \/ Clear(o) PROVE TimerInv'
  BY <1>1, <1>2, HaltKeeps DEF StopTimer, Clear
<1>3. ASSUME NEW o \in Objects, NEW c \in Callers, StopAndWait(c, o) \/ Destroy(c, o) PROVE TimerInv'
  <2>1. ended' \subseteq Objects
    BY <1>1, <1>3 DEF StopAndWait, Destroy
  <2> QED BY <1>3, <2>1, HaltKeeps DEF StopAndWait, Destroy
<1> QED BY <1>2, <1>3, StartKeeps, SetDelayKeeps DEF Method

(* The inductive invariant holds in every state.                            *)
THEOREM TimerInvariant == TimerSpec => []TimerInv
<1>1. ASSUME TimerInv, [TimerNext]_timerVars PROVE TimerInv'
  <2>1. CASE UNCHANGED timerVars
    <3>1. ObjectInv'
      BY <1>1, <2>1, ObjectStays DEF TimerInv, timerVars
    <3>2. UNCHANGED <<helper, should_respawn, timerState, clockState, acting, ghosts>>
      BY <2>1 DEF timerVars, objectVars, switches, threads
    <3>3. TimerTypeOK' /\ Timed'
      BY <1>1, <3>2 DEF TimerInv, TimerTypeOK, Timed, NeverForgotten, NeverLate, QuietAfterWait,
                        DelaysBound, ActingSound, timerState, clockState, ghosts
    <3> QED BY <3>1, <3>3 DEF TimerInv
  <2>2. CASE Tick \/ ClockStep
    BY <1>1, <2>2, TickKeeps, FireKeeps, SleepKeeps DEF ClockStep
  <2>3. ASSUME NEW o \in Objects, TimerThread(o) PROVE TimerInv'
    BY <1>1, <2>3, BeginsKeeps, ActionReturnsKeeps, RescheduleKeeps, EndsKeeps DEF TimerThread
  <2> QED BY <1>1, <2>1, <2>2, <2>3, MethodKeeps, WaitGoesOnKeeps DEF TimerNext
<1> QED BY <1>1, TimerInitInv, PTL DEF TimerSpec

(* No running timer is forgotten, the clock never sleeps past one, and      *)
(* after stop_and_wait() there is silence until the next start().           *)
THEOREM TimerIsSound == TimerSpec => []TimerSound
<1>1. TimerInv => TimerSound
  BY DEF TimerInv, Timed, TimerSound
<1> QED BY <1>1, TimerInvariant, PTL

(* A timer keeps what a threaded_object promises: it has one thread, and    *)
(* its action is never called without a reason.                             *)
THEOREM TimerIsObject == TimerSpec => []ObjectSound
<1>1. TimerInv => ObjectSound
  BY DEF TimerInv, ObjectInv, Sound, SleepersSound, ObjectSound, OneThread, NobodyForgotten, NoRunUnasked
<1> QED BY <1>1, TimerInvariant, PTL

=============================================================================
