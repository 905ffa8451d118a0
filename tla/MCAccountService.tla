-------------------------- MODULE MCAccountService --------------------------
(* TLC instances of AccountService: requests, names, emails and passwords are
   interchangeable model values. *)
EXTENDS AccountService, TLC

CONSTANTS short, good, other

MCPassword == {short, good, other}
MCStrong == {good, other}
OnePassword == {good}
NoFaults == {}
AllFaults == {"db", "jwt", "crash"}
StoreFaults == {"db", "jwt"}

(* What is too long for its column is not interchangeable with what is not *)
Symmetry ==
    Permutations(Request) \cup Permutations(AccountName \ TooLong)
    \cup Permutations(Email \ TooLong) \cup Permutations(MCStrong)
=============================================================================
