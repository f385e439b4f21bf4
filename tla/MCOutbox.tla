------------------------------ MODULE MCOutbox ------------------------------
(* Small instances of Outbox for TLC: the constants are given by the cfg. *)
EXTENDS Outbox, TLC
=============================================================================
