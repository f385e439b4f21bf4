----------------------------- MODULE MCPipeline -----------------------------
(* A small instance of Pipeline for TLC. *)
EXTENDS Pipeline, TLC

CONSTANTS m1, r1

Once == m1 :> r1

SymmetricPods == Permutations(Consumers)
=============================================================================
