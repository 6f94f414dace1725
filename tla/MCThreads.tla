----------------------------- MODULE MCThreads ------------------------------
(* Instances of ReadWriteMutex and ThreadPool for TLC.  The classes share no*)
(* state: a behaviour is one of one class, the other stays as constructed.  *)
EXTENDS ReadWriteMutex, ThreadPool

CONSTANTS t1, t2, t3, t4, w1, w2, u1

VARIABLE part    \* the class

FourLockers == {t1, t2, t3, t4}
TwoWorkers == {w1, w2}
OneUser == {u1}

MCInit == RWInit /\ PoolInit /\ part \in {"mutex", "pool"} /\ (part = "mutex" => orphans)

MCNext ==
  /\ UNCHANGED part
  /\ \/ part = "mutex" /\ RWNext /\ UNCHANGED poolVars
     \/ part = "pool" /\ PoolNext /\ UNCHANGED rwVars

(* RWFairness and PoolFairness, each in its part.                           *)
MCFairness ==
  /\ \A t \in Lockers :
       /\ WF_rwVars(part = "mutex" /\ stage[t] # "out" /\ Proceed(t))
       /\ WF_rwVars(part = "mutex" /\ Leave(t))
  /\ \A w \in Workers : WF_poolVars(part = "pool" /\ Work(w))
  /\ \A t \in Threads : WF_poolVars(part = "pool" /\ GoOn(t))

MCSpec == MCInit /\ [][MCNext]_<<rwVars, poolVars, part>> /\ MCFairness
=============================================================================
