--------------------------- MODULE CertificateTree --------------------------
(***************************************************************************)
(* What certificate management promises, with no requests, transactions or *)
(* failures: certificates are issued one at a time and never change; a     *)
(* name is used once in an account; a root certificate has no parent, and  *)
(* every other one hangs below a certificate authority that its account    *)
(* already has.  CertificateService implements it.                         *)
(***************************************************************************)
CONSTANTS
    Id,            \* the identities a certificate may get
    Account,
    CertName,
    None

VARIABLE issued    \* issued[i]: the certificate with identity i, or None

CA == {"ROOT_CA", "INTERMEDIATE_CA"}

Certificate ==
    [name: CertName, account: Account, type: CA \cup {"CERTIFICATE"}, parent: Id \cup {None}]

Init == issued = [i \in Id |-> None]

(* A parent is a certificate authority of the same account *)
MayHangBelow(c, p) ==
    /\ issued[p] # None
    /\ issued[p].type \in CA
    /\ issued[p].account = c.account

NameFree(c) ==
    \A i \in Id : issued[i] # None =>
        <<issued[i].name, issued[i].account>> # <<c.name, c.account>>

(* A new certificate, the one issued'[i], appears under the identity i *)
Issue(i) ==
    LET c == issued'[i]
    IN  /\ issued[i] = None
        /\ c \in Certificate
        /\ NameFree(c)
        /\ IF c.type = "ROOT_CA" THEN c.parent = None
                                 ELSE c.parent \in Id /\ MayHangBelow(c, c.parent)
        /\ issued' = [issued EXCEPT ![i] = c]

Next == \E i \in Id : Issue(i)

Spec == Init /\ [][Next]_issued
=============================================================================
