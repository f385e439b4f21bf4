------------------------- MODULE MCProcessTracking -------------------------
(* Small instances of ProcessTracking for TLC. *)
EXTENDS ProcessTracking

Ev(id, type, r, retryable, attempt) ==
    [event |-> id, type |-> type, request |-> r, retryable |-> retryable, attempt |-> attempt]

(* Everything the worker may say of one request in two Attempts, a body    *)
(* and a payload that cannot be decoded, and a request that is not there.  *)
Mixed ==
    {Ev("s1", "Started", "r1", FALSE, 1),
     Ev("f1", "Failed", "r1", TRUE, 1),
     Ev("s2", "Started", "r1", FALSE, 2),
     Ev("f2", "Failed", "r1", FALSE, 2),
     Ev("c2", "Completed", "r1", FALSE, 0),
     Ev("x", "Malformed", "r1", FALSE, 0),
     Ev("y", "BadPayload", "r1", FALSE, 0),
     Ev("c9", "Completed", "r9", FALSE, 0)}

(* A request that the worker completes at the second Attempt. *)
OneOutcome ==
    {Ev("s1", "Started", "r1", FALSE, 1),
     Ev("f1", "Failed", "r1", TRUE, 1),
     Ev("c2", "Completed", "r1", FALSE, 0)}
=============================================================================
