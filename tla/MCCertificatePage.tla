-------------------------- MODULE MCCertificatePage --------------------------
(* TLC instances of CertificatePage: a root, an authority and a certificate in
   a chain, of which any beginning may be stored already. *)
EXTENDS CertificatePage, TLC

CONSTANTS root, intermediate, leaf

MCCertificate == {root, intermediate, leaf}
MCAuthority == {root, intermediate}
MCSignatoryOf == root :> None @@ intermediate :> root @@ leaf :> intermediate
=============================================================================
