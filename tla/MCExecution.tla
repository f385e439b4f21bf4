---------------------------- MODULE MCExecution ----------------------------
(* Small instances of Execution for TLC. *)
EXTENDS Execution, TLC

CONSTANTS m1, m2, m3, r1

(* One message for the request, and a malformed one. *)
OnePerRequest == m1 :> r1 @@ m3 :> "malformed"

(* The outbox published the event of one request twice. *)
Duplicated == m1 :> r1 @@ m2 :> r1

OneMessage == m1 :> r1

SymmetricWorkers == Permutations(Workers)
=============================================================================
