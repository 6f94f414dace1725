------------------------------- MODULE MCPipe -------------------------------
(* Instances of Pipe for TLC: three threads, which methods they call.       *)
EXTENDS Pipe

CONSTANTS t1, t2, t3

Three == {t1, t2, t3}

Timed == {"enqueue", "dequeue", "timeouts"}

(* Every wait there is, and what ends all of them.                          *)
Ending == Timed \cup {"until_empty", "num_blocked", "disable", "destroy"}

(* All switches.                                                            *)
Meeting == Timed \cup {"empty", "disable", "enable", "disable_enqueue", "enable_enqueue",
                       "disable_dequeue", "enable_dequeue"}

NoNums == {}
SomeNums == {0, 1, 2}
=============================================================================
