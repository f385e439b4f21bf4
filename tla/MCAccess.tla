------------------------------ MODULE MCAccess ------------------------------
(* Small instances of Access for TLC. *)
EXTENDS Access, TLC

Addresses == "ana@x" :> "ana@x" @@ "Ana@X " :> "ana@x" @@ "bia" :> "invalid"

Symmetric == Permutations(Calls)
=============================================================================
