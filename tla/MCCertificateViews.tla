-------------------------- MODULE MCCertificateViews --------------------------
(* TLC instances of CertificateViews: an account with two authorities, whose user
   is an ADMIN, and one with a certificate, whose user is not. *)
EXTENDS CertificateViews, TLC

CONSTANTS a, b, root, intermediate, leaf, p, q

MCCertificate == {root, intermediate, leaf}
MCAuthority == {root, intermediate}
MCAccountOf == root :> a @@ intermediate :> a @@ leaf :> b
MCPasswordOf == root :> p @@ intermediate :> p @@ leaf :> p

Symmetry == Permutations(Call)
=============================================================================
