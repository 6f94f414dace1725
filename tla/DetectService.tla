--------------------------- MODULE DetectService ---------------------------
(***************************************************************************)
(* What the face detection service promises: requests are answered in the  *)
(* order they were made, each exactly once, with nil or with features of   *)
(* the request's own image.                                                *)
(***************************************************************************)
EXTENDS Naturals, Sequences

CONSTANT Requests

VARIABLES
  pending,   \* requests made and not answered, oldest first
  outcome    \* what each request was answered

serviceVars == <<pending, outcome>>

ServiceInit ==
  /\ pending = <<>>
  /\ outcome = [r \in Requests |-> "none"]

Request(r) ==
  /\ outcome[r] = "none"
  /\ \A k \in 1 .. Len(pending) : pending[k] # r
  /\ pending' = Append(pending, r)
  /\ UNCHANGED outcome

Answer ==
  /\ pending # <<>>
  /\ pending' = Tail(pending)
  /\ \E o \in {"nil", "own"} : outcome' = [outcome EXCEPT ![Head(pending)] = o]

ServiceNext == (\E r \in Requests : Request(r)) \/ Answer

ServiceSpec ==
  ServiceInit /\ [][ServiceNext]_serviceVars /\ WF_serviceVars(Answer)

=============================================================================
