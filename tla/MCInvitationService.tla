------------------------- MODULE MCInvitationService -------------------------
(* TLC instances of InvitationService: two accounts, the first with an ADMIN and
   a USER, the second with an ADMIN *)
EXTENDS InvitationService, TLC

CONSTANTS admin, user, other, a1, a2

MCAccountOf == admin :> a1 @@ user :> a1 @@ other :> a2
MCRoleOf == admin :> "ADMIN" @@ user :> "USER" @@ other :> "ADMIN"
AllFaults == {"db", "crash"}

Symmetry == Permutations(Request)
=============================================================================
