----------------------------- MODULE MCWebPage -----------------------------
(* A small instance of WebPage for TLC. *)
EXTENDS WebPage
=============================================================================
