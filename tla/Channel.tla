------------------------------ MODULE Channel -------------------------------
(* What dlib's pipe promises (pipe_kernel_abstract.h): "a first in first    *)
(* out queue with a fixed maximum size", or with maximum size 0 a meeting   *)
(* point where an item passes from one thread to another.                   *)
EXTENDS Naturals, Sequences

CONSTANTS Threads, Junk, max_size

VARIABLES
  queue,  \* the items of the pipe, the oldest first
  item    \* the item each thread passes, or has received

channelVars == <<queue, item>>

ChannelInit == queue = <<>> /\ item = [t \in Threads |-> Junk]

(* A thread prepares an item of its own.                                    *)
Prepare(t) == item' = [item EXCEPT ![t] = t] /\ UNCHANGED queue

Put(t) ==
  /\ item[t] = t
  /\ Len(queue) < max_size \/ (max_size = 0 /\ queue = <<>>)
  /\ queue' = Append(queue, t)
  /\ \E j \in Threads \cup {Junk} : item' = [item EXCEPT ![t] = j]

(* "the oldest item that was enqueued into this pipe"                       *)
Take(t) ==
  /\ queue # <<>>
  /\ item' = [item EXCEPT ![t] = Head(queue)]
  /\ queue' = Tail(queue)

(* "item was NOT added into the pipe, the value of item is unchanged": only *)
(* the thread that offered the item may take it back.                       *)
Withdraw(t) ==
  /\ max_size = 0 /\ queue = <<t>>
  /\ queue' = <<>>
  /\ item' = [item EXCEPT ![t] = t]

Clear == queue' = <<>> /\ UNCHANGED item

ChannelNext == (\E t \in Threads : Prepare(t) \/ Put(t) \/ Take(t) \/ Withdraw(t)) \/ Clear

ChannelSpec == ChannelInit /\ [][ChannelNext]_channelVars
=============================================================================
