------------------------------ MODULE MCTimers ------------------------------
(* Instances of ThreadedObject and Timer for TLC.  A behaviour is one of    *)
(* threaded_objects, or one of timers, which are threaded_objects that only *)
(* the timer's own methods and the clock use.                               *)
EXTENDS Timer

CONSTANTS
  o1, o2, c1, c2,
  MaxTimerCalls  \* bound: calls of timers' methods, where only c1 waits

VARIABLE part    \* the class

TwoObjects == {o1, o2}
TwoCallers == {c1, c2}
ShortAndLong == {1, 2}

MCInit == TimerInit /\ part \in {"object", "timer"}

MCNext ==
  /\ UNCHANGED part
  /\ \/ part = "object" /\ ObjectNext /\ UNCHANGED <<timerState, clockState, acting, ghosts>>
     \/ part = "timer" /\ TimerNext /\ calls' <= MaxTimerCalls /\ waits'[c2] = "nothing"

(* ObjectFairness and TimerFairness, each in its part.                      *)
MCFairness ==
  /\ \A o \in Objects :
       /\ WF_objectVars(part = "object" /\ ThreadStep(o))
       /\ SF_timerVars(part = "timer" /\ TimerThread(o))
  /\ \A c \in Callers :
       /\ WF_objectVars(part = "object" /\ WaitOn(c))
       /\ WF_timerVars(part = "timer" /\ WaitGoesOn(c))
  /\ WF_timerVars(part = "timer" /\ Tick) /\ WF_timerVars(part = "timer" /\ ClockStep)

MCSpec == MCInit /\ [][MCNext]_<<timerVars, part>> /\ MCFairness

(* What each class promises to happen some time.  A threaded_object may be  *)
(* paused, a timer be started again while somebody waits for its end: so    *)
(* wait() is promised to return for each class in its own words.            *)
RequestsServed == part = "object" => RestartRuns /\ StopEnds /\ WaitReturns
TimersServed == part = "timer" => TimerFires /\ StopAndWaitReturns
=============================================================================
