---------------------------- MODULE MCAccountPages ----------------------------
(* TLC instances of AccountPages *)
EXTENDS AccountPages
=============================================================================
