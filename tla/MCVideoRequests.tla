-------------------------- MODULE MCVideoRequests --------------------------
(* Small instances of VideoRequests for TLC. *)
EXTENDS VideoRequests, TLC

Symmetric == Permutations(Users) \cup Permutations(Videos) \cup Permutations(Calls)
=============================================================================
