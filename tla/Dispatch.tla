------------------------------- MODULE Dispatch -------------------------------
(***************************************************************************)
(* What DollOS promises about work dispatched to the background, without   *)
(* the agents, the processes and the time limits that do it: a request is  *)
(* answered at most once, never after the runners have stopped, and none   *)
(* is forgotten while they have not.                                       *)
(***************************************************************************)
CONSTANT Requests

VARIABLES
    request,    \* where each request stands
    open        \* the runners still take and answer requests

Stands == {"unasked", "out", "answered", "dropped"}

Init == request = [r \in Requests |-> "unasked"] /\ open = TRUE

Ask(r) ==
    /\ open /\ request[r] = "unasked"
    /\ request' = [request EXCEPT ![r] = "out"]
    /\ UNCHANGED open

Settle(r, stand) ==
    /\ open /\ request[r] = "out"
    /\ request' = [request EXCEPT ![r] = stand]
    /\ UNCHANGED open

Answer(r) == Settle(r, "answered")

\* The shutdown cut it off, or its answer could not be put on record.
Drop(r) == Settle(r, "dropped")

\* The runners stop once nothing is out.
Close ==
    /\ \A r \in Requests : request[r] # "out"
    /\ open' = FALSE
    /\ UNCHANGED request

Next == \/ \E r \in Requests : Ask(r) \/ Answer(r) \/ Drop(r)
        \/ Close

vars == <<request, open>>

\* At most one answer, and none after the runners have stopped.
Safety == Init /\ [][Next]_vars

\* And always one: nothing stays out for ever.
Spec == Safety /\ \A r \in Requests : WF_vars(Answer(r) \/ Drop(r))
=============================================================================
