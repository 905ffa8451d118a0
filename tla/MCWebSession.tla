---------------------------- MODULE MCWebSession ----------------------------
(* TLC instances of WebSession: users and calls are interchangeable. *)
EXTENDS WebSession, TLC

Symmetry == Permutations(User) \cup Permutations(Call)
=============================================================================
