------------------------------- MODULE Timer --------------------------------
(* dlib's timer (timer.h, timer.cpp): a timer is a threaded_object whose    *)
(* thread() runs the action once; one global clock thread starts them when  *)
(* they are due.  Everything but the action is done under the clock's mutex *)
(* gc->m; the clock thread keeps it from one timer it fires to the next,    *)
(* and gives it up only while it sleeps.  Times count from now, and time    *)
(* passes whatever the threads do.                                          *)
EXTENDS ThreadedObject

CONSTANTS
  Delays,         \* delay_time()s, in ticks
  DefaultDelay    \* 1000 ms

ASSUME DelayAssumption == DefaultDelay \in Delays /\ Delays \subseteq Nat
ASSUME LongestAssumption == \E d \in Delays : \A e \in Delays : e <= d
ASSUME NamesAssumption == "nothing" \notin Objects

VARIABLES
  running, delay, next,   \* next_time_to_run, from now on
  in_clock,               \* the timers in tm
  clock,                  \* "off", "asleep", "awake", or "firing" with gc->m
  deadline,               \* when its wait_or_timeout ends, from now on
  acting,                 \* the action function is executing
  ended,                  \* destroyed timers
  quiet                   \* history: timers that somebody has waited for

timerState == <<running, delay, next, in_clock>>
clockState == <<clock, deadline>>
ghosts == <<ended, quiet>>
timerVars == <<objectVars, timerState, clockState, acting, ghosts>>

Longest == CHOOSE d \in Delays : \A e \in Delays : e <= d
Far == Longest + 1        \* 100 s: the sleep without a timer, left out

TimerInit ==
  /\ ObjectInit
  /\ running = [o \in Objects |-> FALSE] /\ delay = [o \in Objects |-> DefaultDelay]
  /\ next = [o \in Objects |-> 0] /\ in_clock = {}
  /\ clock = "off" /\ deadline = Far
  /\ acting = {} /\ ended = {} /\ quiet = {}

Tick ==
  /\ next' = [o \in Objects |-> IF o \in in_clock /\ next[o] > -Longest THEN next[o] - 1 ELSE next[o]]
  /\ deadline' = IF clock = "asleep" /\ deadline \in 1..Longest THEN deadline - 1 ELSE deadline
  /\ UNCHANGED <<objectVars, running, delay, in_clock, clock, acting, ghosts>>

-----------------------------------------------------------------------------
(* add, remove and adjust_delay of the clock; m is locked.                  *)

(* An earlier event than all others wakes the clock thread.                 *)
AwakenFirst(t, others) == clock' = IF others = {} THEN "awake" ELSE clock   \* mutant of Awaken
Awaken(t, others) ==
  clock' = IF \A p \in others : t < next[p] THEN "awake" ELSE clock

Add(o, others) ==
  /\ Awaken(delay[o], others)
  /\ in_clock' = others \cup {o}
  /\ next' = [next EXCEPT ![o] = delay[o]]

Remove(o) == in_clock' = in_clock \ {o}

AdjustDelay(o, d) ==
  LET t == next[o] - delay[o] + d
  IN  IF o \in in_clock
      THEN /\ Awaken(t, in_clock \ {o})
           /\ next' = [next EXCEPT ![o] = IF t < -Longest THEN -Longest ELSE t]
      ELSE UNCHANGED <<clock, next>>

-----------------------------------------------------------------------------
(* thread of the clock *)

Due == {o \in in_clock : next[o] <= 0}
HasMutex == clock \in {"awake", "firing"}

Fire(o) ==
  /\ HasMutex
  /\ o \in Due /\ \A p \in Due : next[o] <= next[p]
  /\ clock' = "firing"
  /\ Remove(o)
  /\ IF running[o] THEN DoRestart(o) ELSE UNCHANGED <<switches, threads, asleep, history>>
  /\ UNCHANGED <<waits, calls, running, delay, next, deadline, acting, ghosts>>

ClockSleeps ==
  /\ HasMutex /\ Due = {}
  /\ clock' = "asleep"
  /\ \/ in_clock = {} /\ deadline' = Far
     \/ \E o \in in_clock : (\A p \in in_clock : next[o] <= next[p]) /\ deadline' = next[o]
  /\ UNCHANGED <<objectVars, timerState, acting, ghosts>>

ClockWakes ==
  /\ clock = "asleep" /\ deadline = 0
  /\ clock' = "awake"
  /\ UNCHANGED <<objectVars, timerState, deadline, acting, ghosts>>

-----------------------------------------------------------------------------
(* thread of a timer: the action function, then the next turn.              *)

Begins(o) ==
  /\ ThreadBegin(o)
  /\ acting' = acting \cup {o}
  /\ UNCHANGED <<timerState, clockState, ghosts>>

ActionReturns(o) ==
  /\ o \in acting
  /\ acting' = acting \ {o}
  /\ UNCHANGED <<objectVars, timerState, clockState, ghosts>>

Reschedule(o) ==
  /\ o \notin acting /\ clock # "firing"
  /\ ThreadReturns(o)
  /\ IF running[o] THEN Add(o, in_clock \ {o}) ELSE UNCHANGED <<clock, next, in_clock>>
  /\ UNCHANGED <<running, delay, deadline, acting, ghosts>>

Ends(o) == ThreadEnd(o) /\ UNCHANGED <<timerState, clockState, acting, ghosts>>

-----------------------------------------------------------------------------
(* The methods *)

Locked(o) == clock # "firing" /\ o \notin ended /\ calls < MaxCalls /\ calls' = calls + 1

StartTimer(o) ==
  /\ Locked(o)
  /\ IF running[o] THEN UNCHANGED <<clock, next, in_clock>> ELSE Add(o, in_clock)
  /\ running' = Set(running, o, TRUE)
  /\ quiet' = quiet \ {o}
  /\ UNCHANGED <<switches, threads, waits, asleep, history, delay, deadline, acting, ended>>

Halt(o) ==
  /\ Locked(o)
  /\ running' = Set(running, o, FALSE)
  /\ Remove(o)
  /\ UNCHANGED <<switches, threads, asleep, history, clockState, acting, quiet>>

StopTimer(o) == Halt(o) /\ UNCHANGED <<waits, delay, next, ended>>

Reset(o) == delay' = Set(delay, o, DefaultDelay) /\ next' = Set(next, o, 0)

Clear(o) == Halt(o) /\ Reset(o) /\ UNCHANGED <<waits, ended>>

SetDelayTime(o, d) ==
  /\ Locked(o)
  /\ AdjustDelay(o, d) /\ delay' = Set(delay, o, d)
  /\ UNCHANGED <<switches, threads, waits, asleep, history, running, in_clock, deadline, acting, ghosts>>

(* stop_and_wait and the destructor go on with wait() after the mutex is    *)
(* given up; a timer is destroyed when nobody else uses it.                 *)
Awaiting(c, o) == waits[c] = "nothing" /\ waits' = Set(waits, c, o)

StopAndWait(c, o) == Halt(o) /\ Awaiting(c, o) /\ UNCHANGED <<delay, next, ended>>

Destroy(c, o) ==
  /\ \A d \in Callers : waits[d] # o
  /\ Halt(o) /\ Reset(o) /\ Awaiting(c, o)
  /\ ended' = ended \cup {o}

WaitGoesOn(c) ==
  /\ WaitOn(c)
  /\ quiet' = IF waits'[c] = "nothing" /\ ~running[waits[c]] THEN quiet \cup {waits[c]} ELSE quiet
  /\ UNCHANGED <<timerState, clockState, acting, ended>>

-----------------------------------------------------------------------------
ClockStep == (\E o \in Objects : Fire(o)) \/ ClockSleeps \/ ClockWakes
TimerThread(o) == Begins(o) \/ ActionReturns(o) \/ Reschedule(o) \/ Ends(o)
Method ==
  \E o \in Objects :
    \/ StartTimer(o) \/ StopTimer(o) \/ Clear(o)
    \/ \E d \in Delays : SetDelayTime(o, d)
    \/ \E c \in Callers : StopAndWait(c, o) \/ Destroy(c, o)

TimerNext ==
  \/ Tick \/ ClockStep \/ Method
  \/ \E o \in Objects : TimerThread(o)
  \/ \E c \in Callers : WaitGoesOn(c)

(* Time passes, the clock thread and the timers' threads run and get the    *)
(* mutex, and action functions return.                                      *)
TimerFairness ==
  /\ WF_timerVars(Tick) /\ WF_timerVars(ClockStep)
  /\ \A o \in Objects : SF_timerVars(TimerThread(o))
  /\ \A c \in Callers : WF_timerVars(WaitGoesOn(c))

TimerSpec == TimerInit /\ [][TimerNext]_timerVars /\ TimerFairness

-----------------------------------------------------------------------------
(* Properties *)

TimerTypeOK ==
  /\ running \in [Objects -> BOOLEAN] /\ delay \in [Objects -> Delays] /\ next \in [Objects -> Int]
  /\ clock \in {"off", "asleep", "awake", "firing"} /\ deadline \in 0..Far
  /\ in_clock \subseteq Objects /\ acting \subseteq Objects
  /\ ended \subseteq Objects /\ quiet \subseteq Objects

(* A running timer is never forgotten: it is in the clock, or its thread is *)
(* on the way to put it there (timer.h CONVENTION); a stopped one is not in *)
(* the clock.                                                               *)
NeverForgotten ==
  \A o \in Objects :
    IF running[o]
    THEN \/ o \in in_clock \/ helper[o] \in {"begin", "thread"}
         \/ helper[o] = "end" /\ should_respawn[o]
    ELSE o \notin in_clock

(* The clock thread does not sleep past the next timer, whoever was added,  *)
(* removed or given another delay while it slept.                           *)
NeverLate ==
  clock \in {"off", "asleep"} =>
    \A o \in in_clock : clock = "asleep" /\ (deadline <= next[o] \/ deadline = 0)

(* When stop_and_wait() has returned, or a destructor, the action is not    *)
(* executing and does not begin until start(), although the clock may have  *)
(* fired before and the thread may have been about to run once more.        *)
QuietAfterWait == \A o \in quiet : helper[o] = "none" /\ o \notin in_clock /\ o \notin acting

(* Every running timer calls its action again and again, and stop_and_wait  *)
(* and the destructor return, unless somebody starts the timer meanwhile.   *)
TimerFires == \A o \in Objects : running[o] ~> (o \in acting \/ ~running[o])
StopAndWaitReturns ==
  \A c \in Callers, o \in Objects : waits[c] = o ~> (waits[c] # o \/ running[o])

(* The timers' promises at every moment: none forgotten, none late, and     *)
(* silence after stop_and_wait() and the destructor.                        *)
TimerSound == TimerTypeOK /\ NeverForgotten /\ NeverLate /\ QuietAfterWait
=============================================================================
