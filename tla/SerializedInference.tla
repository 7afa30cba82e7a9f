------------------------- MODULE SerializedInference -------------------------
(***************************************************************************)
(* What both HTTP services promise of inference: GPU work is serialized, so *)
(* no two requests ever execute a model at the same time, a request's       *)
(* inference is not repeated, and nobody is answered while the inference on *)
(* its behalf is still going on.  ChatServer keeps the promise by turning a *)
(* second request away, CollectiveService by queueing it.                   *)
(***************************************************************************)
CONSTANT Requests

VARIABLE phase      \* phase[r] is how far request r is

Phases == {"open", "inferring", "inferred", "closed"}

Init == phase = [r \in Requests |-> "open"]

Moves(r, from, to) ==
    /\ phase[r] \in from
    /\ phase' = [phase EXCEPT ![r] = to]

Begin(r) ==
    /\ \A s \in Requests : phase[s] # "inferring"
    /\ Moves(r, {"open"}, "inferring")

Finish(r) == Moves(r, {"inferring"}, "inferred")

\* The request is over, whether a model was executed for it or not.
Close(r) == Moves(r, {"open", "inferred"}, "closed")

\* The same client sends its next request.
Reopen(r) == Moves(r, {"closed"}, "open")

Next == \E r \in Requests : Begin(r) \/ Finish(r) \/ Close(r) \/ Reopen(r)

Spec == Init /\ [][Next]_phase
=============================================================================
