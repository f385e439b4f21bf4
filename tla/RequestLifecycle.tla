-------------------------- MODULE RequestLifecycle --------------------------
(***************************************************************************)
(* What the api promises about a Process Request: the status diagram of    *)
(* docs/diagrams/02-failure-scenarios.md, with the attempts that only grow *)
(* and the Process Result that comes and goes with a terminal status.  No  *)
(* queue, no consumer, no database call.                                   *)
(***************************************************************************)
EXTENDS ProcessRequest

CONSTANTS Requests, Attempts

VARIABLES request, result

vars == <<request, result>>

Init ==
    /\ request = [r \in Requests |-> NewRow]
    /\ result = [r \in Requests |-> "none"]

Open(r) == request[r].status \in {"PENDING", "PROCESSING"}

Become(r, status, attempts, outcome) ==
    /\ request' = [request EXCEPT ![r] = [status |-> status, attempts |-> attempts]]
    /\ result' = [result EXCEPT ![r] = outcome]

(* An Attempt starts or is going to be retried. *)
Progress(r) ==
    /\ Open(r)
    /\ \E n \in Attempts : /\ n >= request[r].attempts
                           /\ Become(r, "PROCESSING", n, "none")

Complete(r) ==
    /\ Open(r)
    /\ Become(r, "COMPLETED", request[r].attempts, "zip")

Fail(r) ==
    /\ Open(r)
    /\ \E n \in Attempts : /\ n >= request[r].attempts
                           /\ Become(r, "FAILED", n, "reason")

Next == \E r \in Requests : Progress(r) \/ Complete(r) \/ Fail(r)

Spec == Init /\ [][Next]_vars
=============================================================================
