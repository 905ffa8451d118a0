------------------------ MODULE MCCertificateService ------------------------
(* TLC instances of CertificateService: two accounts, the first with an ADMIN
   and a USER, the second with an ADMIN, and a token whose user is not stored.
   Every request has its part: which creates race and which reads follow is
   said by Sends. *)
EXTENDS CertificateService, TLC

CONSTANTS r1, r2, r3, r4, admin, user, other, ghost, a1, a2, n1, n2, n3, n4, short, good, secret

MCUser == {admin, user, other, ghost}
MCAccount == {a1, a2}
MCAccountOf == admin :> a1 @@ user :> a1 @@ other :> a2 @@ ghost :> None
MCRoleOf == admin :> "ADMIN" @@ user :> "USER" @@ other :> "ADMIN" @@ ghost :> "USER"
MCPassword == {short, good, secret}
MCStrong == {good, secret}
MCName == {n1, n2, n3, n4}
NoFaults == {}
OnlyCrash == {"crash"}
AllFaults == {"db", "crash"}

Creates(users, names, types, signatories, secrets) ==
    [op: {"create"}, user: users, name: names, type: types, algorithm: {"RSA"},
     keySize: {"sound"}, expiry: {"date"},
     password: {good}, signatory: signatories, secret: secrets]

Short(creates) == {[b EXCEPT !.keySize = "short"] : b \in creates}

Reads(ops, users, certs) == [op: ops, user: users, cert: certs]

Keys(users, certs, secrets) ==
    [op: {"privateKey"}, user: users, cert: certs, secret: secrets]

Lists(users, accounts, types) == [op: {"list"}, user: users, account: accounts, types: types]

Roots(users, names) == Creates(users, names, {"ROOT_CA"}, {None}, {None})

(* Creates that are refused before anything is looked up *)
Refused ==
    {[b EXCEPT !.password = short] : b \in Roots({admin}, {n2})}
    \cup {[b EXCEPT !.algorithm = "other"] : b \in Roots({admin}, {n2})}
    \cup {[b EXCEPT !.keySize = "unusable"] : b \in Roots({admin}, {n2})}
    \cup {[b EXCEPT !.expiry = "beyond"] : b \in Roots({admin}, {n2})}
    \cup Short(Roots({admin}, {n2}))
    \cup Roots({ghost}, {n2})
    \cup Creates({admin}, {n2}, {"CERTIFICATE"}, {None}, {secret})

(* A chain of up to three certificates, then a read of it *)
ChainSends ==
    r1 :> Roots({admin}, {n1})
    @@ r2 :> Creates({admin}, {n2}, {"INTERMEDIATE_CA"}, {r1}, {good})
             \cup Creates({admin}, {n2}, {"CERTIFICATE"}, {r1}, {good})
    @@ r3 :> Creates({user}, {n3}, {"CERTIFICATE"}, {r1, r2}, {good})
             \cup Creates({other}, {n3}, {"CERTIFICATE"}, {r1}, {good})
    @@ r4 :> Reads({"fullchain"}, {user}, {r1, r2, r3, Unknown})
             \cup Reads({"fullchain"}, {other}, {r3})
             \cup Reads({"get"}, {user, ghost}, {r3}) \cup Reads({"body"}, {user}, {r1})
             \cup Keys({admin}, {r2}, {good, secret, None}) \cup Keys({user, other}, {r2}, {good})
             \cup Lists({user}, {a1}, {{"CERTIFICATE", "ROOT_CA"}})
             \cup Lists({user, ghost}, {a2}, {{}})

(* Creates that race for names and signatories and wait for each other's lock,
   and reads of what they stored *)
RaceSends ==
    r1 :> Roots({admin, other}, {n1})
    @@ r2 :> Roots({user}, {n1, n4}) \cup Refused
             \cup Creates({admin}, {n2}, {"ROOT_CA"}, {Unknown}, {None})
             \cup Creates({user}, {n1}, {"INTERMEDIATE_CA"}, {r1}, {good})
             \cup Creates({user}, {n2}, {"INTERMEDIATE_CA"}, {r1}, {good, secret})
             \cup Short(Creates({user}, {n2}, {"INTERMEDIATE_CA"}, {r1}, {good}))
             \cup {[b EXCEPT !.expiry = "beyond"] :
                      b \in Creates({user}, {n2}, {"INTERMEDIATE_CA"}, {r1}, {good})}
    @@ r3 :> Creates({user}, {n3}, {"CERTIFICATE"}, {r2}, {good})
             \cup Short(Creates({user}, {n3}, {"CERTIFICATE"}, {r1}, {good}))
    @@ r4 :> Lists({user}, {a1}, {{"ROOT_CA", "CERTIFICATE"}}) \cup Reads({"fullchain"}, {user}, {r3})

(* A root, or another certificate, below a root, and a certificate below that *)
SignatorySends ==
    r1 :> Roots({admin}, {n1})
    @@ r2 :> Creates({admin}, {n2}, {"ROOT_CA"}, {r1}, {None})
             \cup Creates({admin}, {n2}, {"INTERMEDIATE_CA"}, {r1}, {good})
    @@ r3 :> Creates({user}, {n3}, {"CERTIFICATE"}, {r2}, {good})

SignatoryRequest == {r1, r2, r3}
ChainRequest == {r1, r2, r3, r4}
=============================================================================
