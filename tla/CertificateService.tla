------------------------- MODULE CertificateService -------------------------
(***************************************************************************)
(* The certificate routes of the api-server: creating a certificate and    *)
(* its key pair below a signatory, and the reads (one certificate, a list, *)
(* a body, a full chain, a private key).  Requests are handled by          *)
(* goroutines of several replicas over one MySQL database; a step is one   *)
(* statement with the local computation up to the next one.                *)
(*                                                                         *)
(* Ids are UUIDs the handlers draw, at most one row per table and request, *)
(* so a request stands for the ids it draws: certificate[r] and key_pair[r]*)
(* are the rows that create request r inserted.  Both tables hold committed*)
(* rows only; what an open transaction has inserted follows from pc.       *)
(*                                                                         *)
(* Users and accounts are those of AccountService, where a stored user     *)
(* never changes: here they are constants.                                 *)
(***************************************************************************)
EXTENDS Naturals, Sequences, SequencesExt

CONSTANTS
    Request,       \* HTTP requests, each handled once
    User,          \* the subjects of valid tokens
    Account,
    AccountOf,     \* the account of the stored user; None when it is not stored
    RoleOf,        \* the role in the user's token
    CertName,
    Password,
    Strong,        \* the passwords the policy's MinLength admits
    TooLong,       \* the names that exceed VARCHAR(100), or come with a subject beyond TEXT
    Unknown,       \* a certificate id that no handler ever drew
    None,          \* no row, no value
    Sends,         \* the bodies that each request may carry
    Faults         \* what may fail: "db", "crash"

CertType == {"ROOT_CA", "INTERMEDIATE_CA", "CERTIFICATE"}
SigningType == {"ROOT_CA", "INTERMEDIATE_CA"}

(* Options.keySize, which Validate leaves alone: "unusable" is missing, no number or
   too small to generate a key of; a "short" key exists but can sign nothing, as a
   SHA-256 signature does not fit in it. *)
KeySize == {"unusable", "short", "sound"}

(* ExpiresInDays, unbounded too: "beyond" ends after the year 9999 *)
Expiry == {"date", "beyond"}

(* A parsed request with the subject of its token; secret is the password  *)
(* given for the signatory's key, or for the private key asked for.        *)
Body ==
    [op: {"create"}, user: User, name: CertName, type: CertType, algorithm: {"RSA", "other"},
     keySize: KeySize, expiry: Expiry,
     password: Password, signatory: Request \cup {Unknown, None}, secret: Password \cup {None}]
    \cup [op: {"get", "body", "fullchain"}, user: User, cert: Request \cup {Unknown}]
    \cup [op: {"privateKey"}, user: User, cert: Request \cup {Unknown}, secret: Password \cup {None}]
    \cup [op: {"list"}, user: User, account: Account, types: SUBSET CertType]

ASSUME RequestAssumption == IsFiniteSet(Request)
ASSUME UserAssumption ==
    /\ AccountOf \in [User -> Account \cup {None}]
    /\ RoleOf \in [User -> {"ADMIN", "USER"}]
ASSUME StrongAssumption == Strong \subseteq Password
ASSUME SendsAssumption == Sends \in [Request -> SUBSET Body]
ASSUME FaultsAssumption == Faults \subseteq {"db", "crash"}

(* A row of certificate.  Of the body only who is named issuer, whose key signed
   it and whether it is marked as that of an authority are kept. *)
Certificate ==
    [name: CertName, type: CertType, account: Account, keyPair: Request,
     signatory: Request \cup {Unknown, None}, issuer: Request, signedBy: Request, isCA: BOOLEAN]

(* A row of key_pair; the password is the one its private key is encrypted with *)
KeyPair == [account: Account, password: Password, size: KeySize]

Response == [status: {200}, certs: Seq(Request)]
            \cup [status: {400, 401, 403, 404, 428, 500}]

Event == [id: Request, userId: User, activity: {"CREATE", "READ"},
          resource: {"certificate", "body", "key-pair", "private-key"} \X Request]

ASSUME NoneAssumption ==
    /\ {None, Unknown} \cap Request = {}
    /\ None \notin {Unknown} \cup Account \cup Password
                   \cup Body \cup Certificate \cup KeyPair \cup Response

VARIABLES
    certificate,   \* certificate[c]: the committed row with id c, or None
    key_pair,      \* key_pair[k]: the committed row with id k, or None
    audit_log,     \* the stored audit events
    pc,            \* pc[r]: the statement request r executes next
    body,          \* body[r]: the parsed request, or None before it arrives
    signer,        \* signer[r]: the key pair create request r signs with
    read,          \* read[r]: the certificates r has read, in order
    logged,        \* logged[r]: how many of them it has written events about
    response       \* response[r]: what r was answered, or None

vars == <<certificate, key_pair, audit_log, pc, body, signer, read, logged, response>>
tables == <<certificate, key_pair>>

Statement == {"findUser", "findSignatory", "findSigningKeys", "insertKeyPair",
              "insertCertificate", "commit", "logCertificate", "logKeyPair",
              "findCertificate", "findKeyPair", "findCertificates", "logRead", "logListed"}

TypeOK ==
    /\ certificate \in [Request -> Certificate \cup {None}]
    /\ key_pair \in [Request -> KeyPair \cup {None}]
    /\ audit_log \subseteq Event
    /\ pc \in [Request -> Statement \cup {"idle", "done", "crashed"}]
    /\ body \in [Request -> Body \cup {None}]
    /\ signer \in [Request -> Request \cup {None}]
    /\ read \in [Request -> Seq(Request)]
    /\ logged \in [Request -> Nat]
    /\ response \in [Request -> Response \cup {None}]

Init ==
    /\ certificate = [r \in Request |-> None]
    /\ key_pair = [r \in Request |-> None]
    /\ audit_log = {}
    /\ pc = [r \in Request |-> "idle"]
    /\ body = [r \in Request |-> None]
    /\ signer = [r \in Request |-> None]
    /\ read = [r \in Request |-> <<>>]
    /\ logged = [r \in Request |-> 0]
    /\ response = [r \in Request |-> None]

-----------------------------------------------------------------------------
(* Control *)

Goto(r, next) ==
    /\ pc' = [pc EXCEPT ![r] = next]
    /\ UNCHANGED response

Answer(r, res) ==
    /\ pc' = [pc EXCEPT ![r] = "done"]
    /\ response' = [response EXCEPT ![r] = res]

Fail(r, status) == Answer(r, [status |-> status])

Success(certs) == [status |-> 200, certs |-> certs]

(* audit.Logger: a failed Save of the event is logged and otherwise ignored *)
Audit(r, activity, resource) ==
    \/ audit_log' = audit_log \cup
          {[id |-> r, userId |-> body[r].user, activity |-> activity, resource |-> resource]}
    \/ "db" \in Faults /\ UNCHANGED audit_log

(* AssertAccountAccess: the status it refuses with, 200 if it does not *)
AccountAccess(u, a) ==
    IF AccountOf[u] = None THEN 401 ELSE IF AccountOf[u] # a THEN 403 ELSE 200

AccountOfRequest(r) == AccountOf[body[r].user]

(* CertificateRequest.Validate *)
Valid(b) == b.type # "ROOT_CA" => b.signatory # None /\ b.secret # None

(* The ids a client can name: those of committed certificates, or made up ones *)
Mentions(b) ==
    CASE b.op = "create" -> {b.signatory} \ {None}
      [] b.op = "list" -> {}
      [] OTHER -> {b.cert}

(* The checks before the service: the role middleware, the parsing and
   validation of the request, the password header *)
Receive(r) ==
    /\ pc[r] = "idle"
    /\ \E b \in Sends[r] :
        /\ \A c \in Mentions(b) \cap Request : certificate[c] # None
        /\ body' = [body EXCEPT ![r] = b]
        /\ \/ /\ b.op = "create"
              /\ IF Valid(b) THEN Goto(r, "findUser") ELSE Fail(r, 400)
           \/ /\ b.op = "privateKey"
              /\ IF RoleOf[b.user] # "ADMIN" THEN Fail(r, 403)
                 ELSE IF b.secret = None THEN Fail(r, 400)
                 ELSE Goto(r, "findCertificate")
           \/ b.op \in {"get", "body", "fullchain"} /\ Goto(r, "findCertificate")
           \/ b.op = "list" /\ Goto(r, "findCertificates")
    /\ UNCHANGED <<tables, audit_log, signer, read, logged>>

-----------------------------------------------------------------------------
(* Create *)

(* x509.CreateCertificate: it needs a key that can sign, and a date it can write *)
SigningFails(r, size) == size = "short" \/ body[r].expiry = "beyond"

(* What Create fails with before it asks for a signatory, 200 if it does not: Allowed,
   findUser, createKeys, and signCertificate for a root, which signs itself *)
CreateStatus(r) ==
    IF body[r].password \notin Strong THEN 400
    ELSE IF AccountOfRequest(r) = None THEN 401
    ELSE IF body[r].algorithm # "RSA" THEN 400
    ELSE IF body[r].keySize = "unusable" THEN 500
    ELSE IF body[r].type = "ROOT_CA" /\ SigningFails(r, body[r].keySize) THEN 500
    ELSE 200

FindUser(r) ==
    /\ pc[r] = "findUser"
    /\ \/ /\ CreateStatus(r) # 200
          /\ Fail(r, CreateStatus(r))
          /\ UNCHANGED signer
       \/ /\ CreateStatus(r) = 200 /\ body[r].type # "ROOT_CA"
          /\ Goto(r, "findSignatory")
          /\ UNCHANGED signer
       \/ /\ CreateStatus(r) = 200 /\ body[r].type = "ROOT_CA"
          /\ Goto(r, "insertKeyPair")
          /\ signer' = [signer EXCEPT ![r] = r]
    /\ UNCHANGED <<tables, audit_log, body, read, logged>>

Stored(c) == c \in Request /\ certificate[c] # None

(* Mutant of FindSignatory: the type of the signatory is not looked at *)
FindSignatoryOfAnyType(r) ==
    /\ pc[r] = "findSignatory" /\ Stored(body[r].signatory)
    /\ AccountAccess(body[r].user, certificate[body[r].signatory].account) = 200
    /\ Goto(r, "findSigningKeys")
    /\ UNCHANGED <<tables, audit_log, body, signer, read, logged>>

(* findSigningKeyPair, up to the type of the signing certificate *)
FindSignatory(r) ==
    /\ pc[r] = "findSignatory"
    /\ LET s == body[r].signatory
           access == AccountAccess(body[r].user, certificate[s].account)
       IN  IF ~Stored(s) THEN Fail(r, 428)
           ELSE IF access # 200 THEN Fail(r, access)
           ELSE IF certificate[s].type \notin SigningType THEN Fail(r, 400)
           ELSE Goto(r, "findSigningKeys")
    /\ UNCHANGED <<tables, audit_log, body, signer, read, logged>>

(* FROM key_pair k INNER JOIN certificate c ON k.id = c.key_pair_id WHERE c.id = ? *)
FindByCertificateID(c) ==
    {k \in Request : Stored(c) /\ certificate[c].keyPair = k /\ key_pair[k] # None}

(* Mutant of FindSigningKeys: the new keys sign their own certificate *)
FindSigningKeysOwn(r) ==
    /\ pc[r] = "findSigningKeys"
    /\ signer' = [signer EXCEPT ![r] = r]
    /\ Goto(r, "insertKeyPair")
    /\ UNCHANGED <<tables, audit_log, body, read, logged>>

(* findCertificateKeyPair, decryptKeys and signCertificate: a wrong signatory password
   is a decryption error, and no layer gives it or a failed signature a status *)
FindSigningKeys(r) ==
    /\ pc[r] = "findSigningKeys"
    /\ IF FindByCertificateID(body[r].signatory) = {}
       THEN Fail(r, 428) /\ UNCHANGED signer
       ELSE \E k \in FindByCertificateID(body[r].signatory) :
              LET access == AccountAccess(body[r].user, key_pair[k].account)
              IN  IF access # 200 THEN Fail(r, access) /\ UNCHANGED signer
                  ELSE IF key_pair[k].password # body[r].secret \/ SigningFails(r, key_pair[k].size)
                  THEN Fail(r, 500) /\ UNCHANGED signer
                  ELSE Goto(r, "insertKeyPair") /\ signer' = [signer EXCEPT ![r] = k]
    /\ UNCHANGED <<tables, audit_log, body, read, logged>>

(* The row of the new key pair *)
encryptKeys(r) ==
    [account |-> AccountOfRequest(r), password |-> body[r].password, size |-> body[r].keySize]

(* Mutant of InsertKeyPair: the statement is not part of the transaction *)
InsertKeyPairOutside(r) ==
    /\ pc[r] = "insertKeyPair"
    /\ key_pair' = [key_pair EXCEPT ![r] = encryptKeys(r)]
    /\ Goto(r, "insertCertificate")
    /\ UNCHANGED <<certificate, audit_log, body, signer, read, logged>>

(* Short keys are few: another row may hold the same one, which UNIQUE(`public_key`)
   refuses.  That sound keys are drawn twice is left out. *)
ShortKeyStored == \E k \in Request : key_pair[k] # None /\ key_pair[k].size = "short"

(* CertRepo.Save: BeginTx and the key pair *)
InsertKeyPair(r) ==
    /\ pc[r] = "insertKeyPair"
    /\ \/ Goto(r, "insertCertificate")
       \/ body[r].keySize = "short" /\ ShortKeyStored /\ Fail(r, 500)
    /\ UNCHANGED <<tables, audit_log, body, signer, read, logged>>

SameName(r, n, a) == body[r].name = n /\ AccountOfRequest(r) = a

(* Mutant of NameTaken: account_id is left out of the unique key *)
NameTakenAnywhere(n, a) == \E c \in Request : Stored(c) /\ certificate[c].name = n

(* UNIQUE(`name`, `account_id`) against the committed rows *)
NameTaken(n, a) ==
    \E c \in Request : Stored(c) /\ certificate[c].name = n /\ certificate[c].account = a

(* Mutants of NameLocked: readers of the index wait for nobody, or for ever *)
NameNeverLocked(n, a) == FALSE
NameLockedOnceTaken(n, a) ==
    NameTaken(n, a) \/ \E s \in Request : pc[s] = "commit" /\ SameName(s, n, a)

(* ... and against those of open transactions, which hold the index entry *)
NameLocked(n, a) == \E s \in Request : pc[s] = "commit" /\ SameName(s, n, a)

(* What MySQL refuses whatever the tables hold: a foreign key signatory_id that
   leads nowhere, and a name that no part of the service measures *)
Malformed(r) ==
    \/ body[r].signatory # None /\ ~Stored(body[r].signatory)
    \/ body[r].name \in TooLong

(* CertRepo.Save: the certificate, under the unique key, which waits for the
   transaction that holds the entry, and the foreign key *)
InsertCertificate(r) ==
    /\ pc[r] = "insertCertificate"
    /\ ~NameLocked(body[r].name, AccountOfRequest(r))
    /\ IF NameTaken(body[r].name, AccountOfRequest(r)) \/ Malformed(r)
       THEN Fail(r, 500)
       ELSE Goto(r, "commit")
    /\ UNCHANGED <<tables, audit_log, body, signer, read, logged>>

(* x509Template marks authorities; its case for roots is empty *)
MarkedAsCA(type) == type = "INTERMEDIATE_CA"

(* Mutant of assembleCertificate: the signatory is not stored *)
assembleWithoutSignatory(r) ==
    [name |-> body[r].name, type |-> body[r].type, account |-> AccountOfRequest(r),
     keyPair |-> r, signatory |-> None, issuer |-> r, signedBy |-> signer[r],
     isCA |-> MarkedAsCA(body[r].type)]

(* assembleCertificate and signCertificate, which passes the template as its
   own parent: the named issuer is the subject itself *)
assembleCertificate(r) ==
    [name |-> body[r].name, type |-> body[r].type, account |-> AccountOfRequest(r),
     keyPair |-> r, signatory |-> body[r].signatory, issuer |-> r, signedBy |-> signer[r],
     isCA |-> MarkedAsCA(body[r].type)]

(* Mutant of Commit: its error is ignored *)
CommitErrorIgnored(r) ==
    /\ pc[r] = "commit"
    /\ \/ /\ certificate' = [certificate EXCEPT ![r] = assembleCertificate(r)]
          /\ key_pair' = [key_pair EXCEPT ![r] = encryptKeys(r)]
       \/ "db" \in Faults /\ UNCHANGED tables
    /\ Goto(r, "logCertificate")
    /\ UNCHANGED <<audit_log, body, signer, read, logged>>

(* tx.Commit: with a database fault the reply may be lost *)
Commit(r) ==
    /\ pc[r] = "commit"
    /\ certificate' = [certificate EXCEPT ![r] = assembleCertificate(r)]
    /\ key_pair' = [key_pair EXCEPT ![r] = encryptKeys(r)]
    /\ \/ Goto(r, "logCertificate")
       \/ "db" \in Faults /\ Fail(r, 500)
    /\ UNCHANGED <<audit_log, body, signer, read, logged>>

(* logNewCertificate *)
LogCertificate(r) ==
    /\ pc[r] = "logCertificate"
    /\ Audit(r, "CREATE", <<"certificate", r>>)
    /\ Goto(r, "logKeyPair")
    /\ UNCHANGED <<tables, body, signer, read, logged>>

LogKeyPair(r) ==
    /\ pc[r] = "logKeyPair"
    /\ Audit(r, "CREATE", <<"key-pair", r>>)
    /\ Answer(r, Success(<<r>>))
    /\ UNCHANGED <<tables, body, signer, read, logged>>

-----------------------------------------------------------------------------
(* Reads *)

(* The certificate to look up next: the one asked for, then, on the way up a
   chain, the signatory of the last one *)
Cursor(r) == IF read[r] = <<>> THEN body[r].cert ELSE certificate[Last(read[r])].signatory

(* Mutant of EndsChain: any authority ends it *)
EndsAtAuthority(c) == certificate[c].type \in SigningType

(* getCertificateChain: a root ends the chain *)
EndsChain(c) == certificate[c].type = "ROOT_CA"

(* findCertificate; for a full chain it is repeated until it meets a root,
   which is left out, or a certificate without a signatory *)
FindCertificate(r) ==
    /\ pc[r] = "findCertificate"
    /\ LET c == Cursor(r)
           access == AccountAccess(body[r].user, certificate[c].account)
           Climb == certificate[c].signatory # None
       IN  IF ~Stored(c) THEN Fail(r, 404) /\ UNCHANGED read
           ELSE IF access # 200 THEN Fail(r, access) /\ UNCHANGED read
           ELSE IF body[r].op = "fullchain" /\ EndsChain(c)
           THEN /\ IF read[r] = <<>> THEN Fail(r, 400) ELSE Goto(r, "logRead")
                /\ UNCHANGED read
           ELSE /\ read' = [read EXCEPT ![r] = Append(@, c)]
                /\ Goto(r, IF body[r].op = "fullchain" /\ Climb THEN "findCertificate"
                           ELSE IF body[r].op = "privateKey" THEN "findKeyPair"
                           ELSE "logRead")
    /\ UNCHANGED <<tables, audit_log, body, signer, logged>>

(* Mutant of FindKeyPair: the password is not verified *)
FindKeyPairUnverified(r) ==
    /\ pc[r] = "findKeyPair" /\ FindByCertificateID(body[r].cert) # {}
    /\ Goto(r, "logRead")
    /\ UNCHANGED <<tables, audit_log, body, signer, read, logged>>

(* GetCertificatePrivateKey: findCertificateKeyPair, Verify and decryptKeys *)
FindKeyPair(r) ==
    /\ pc[r] = "findKeyPair"
    /\ IF FindByCertificateID(body[r].cert) = {} THEN Fail(r, 404)
       ELSE \E k \in FindByCertificateID(body[r].cert) :
              LET access == AccountAccess(body[r].user, key_pair[k].account)
              IN  IF access # 200 THEN Fail(r, access)
                  ELSE IF key_pair[k].password # body[r].secret THEN Fail(r, 401)
                  ELSE Goto(r, "logRead")
    /\ UNCHANGED <<tables, audit_log, body, signer, read, logged>>

(* The resource an event about a read names *)
Resource(op) ==
    CASE op \in {"get", "list"} -> "certificate"
      [] op \in {"body", "fullchain"} -> "body"
      [] op = "privateKey" -> "private-key"

LogNext(r) ==
    /\ Audit(r, "READ", <<Resource(body[r].op), read[r][logged[r] + 1]>>)
    /\ logged' = [logged EXCEPT ![r] = @ + 1]

(* Mutant of AllLogged: only the first event is written *)
FirstLogged(r) == TRUE

AllLogged(r) == logged[r] + 1 = Len(read[r])

(* One event after the other, then the answer *)
LogRead(r) ==
    /\ pc[r] = "logRead"
    /\ LogNext(r)
    /\ IF AllLogged(r) THEN Answer(r, Success(read[r])) ELSE Goto(r, "logRead")
    /\ UNCHANGED <<tables, body, signer, read>>

(* WHERE account_id = ?, or ... AND type IN (?, ...) *)
FindByAccountIDAndTypes(a, types) ==
    {c \in Request : /\ Stored(c)
                     /\ certificate[c].account = a
                     /\ types # {} => certificate[c].type \in types}

(* Mutant of mapRowsToCertificates: the last row may be left out *)
mapRowsButLast(rows) == {rows} \cup {rows \ {c} : c \in rows}

(* What becomes of the rows: rows.Err is never asked, so a connection lost
   between two of them ends the list early *)
mapRowsToCertificates(rows) == IF "db" \in Faults THEN SUBSET rows ELSE {rows}

(* GetCertificates: access, the query without ORDER BY, the answer; the events
   are left to a goroutine of its own *)
FindCertificates(r) ==
    /\ pc[r] = "findCertificates"
    /\ LET access == AccountAccess(body[r].user, body[r].account)
           rows == FindByAccountIDAndTypes(body[r].account, body[r].types)
       IN  \/ access # 200 /\ Fail(r, access) /\ UNCHANGED read
           \/ /\ access = 200
              /\ \E certs \in mapRowsToCertificates(rows) :
                  \E page \in SetToSeqs(certs) :
                    /\ read' = [read EXCEPT ![r] = page]
                    /\ response' = [response EXCEPT ![r] = Success(page)]
                    /\ pc' = [pc EXCEPT ![r] = IF page = <<>> THEN "done" ELSE "logListed"]
    /\ UNCHANGED <<tables, audit_log, body, signer, logged>>

(* logCertificatesReading, in the background *)
LogListed(r) ==
    /\ pc[r] = "logListed"
    /\ LogNext(r)
    /\ Goto(r, IF AllLogged(r) THEN "done" ELSE "logListed")
    /\ UNCHANGED <<tables, body, signer, read>>

-----------------------------------------------------------------------------
(* Any statement outside the audit logger may fail; the transaction is rolled
   back and every caller turns the error into an answer 500.  This includes a
   lock wait that times out and a deadlock's victim. *)
StatementFails(r) ==
    /\ "db" \in Faults
    /\ pc[r] \in Statement \ {"logCertificate", "logKeyPair", "logRead", "logListed"}
    /\ Fail(r, 500)
    /\ UNCHANGED <<tables, audit_log, body, signer, read, logged>>

(* The replica dies: MySQL rolls its open transaction back, and the background
   goroutine dies with the rest *)
Crash(r) ==
    /\ "crash" \in Faults
    /\ pc[r] \in Statement
    /\ pc' = [pc EXCEPT ![r] = "crashed"]
    /\ UNCHANGED <<tables, audit_log, body, signer, read, logged, response>>

(* The goroutine of r executes its next statement *)
Execute(r) ==
    \/ FindUser(r)
    \/ FindSignatory(r)
    \/ FindSigningKeys(r)
    \/ InsertKeyPair(r)
    \/ InsertCertificate(r)
    \/ Commit(r)
    \/ LogCertificate(r)
    \/ LogKeyPair(r)
    \/ FindCertificate(r)
    \/ FindKeyPair(r)
    \/ LogRead(r)
    \/ FindCertificates(r)
    \/ LogListed(r)

Handle(r) == Execute(r) \/ StatementFails(r)

Next == \E r \in Request : Receive(r) \/ Handle(r) \/ Crash(r)

Spec == Init /\ [][Next]_vars

(* A goroutine that can run is scheduled, and MySQL wakes the waiter of a lock
   that became free; clients need not send and replicas need not die. *)
FairSpec == Spec /\ \A r \in Request : WF_vars(Execute(r))

-----------------------------------------------------------------------------
(* Properties *)

Succeeded(r) == response[r] # None /\ response[r].status = 200

Below == {c \in Request : Stored(c) /\ certificate[c].type # "ROOT_CA"}

(* Whatever creates race, no two stored certificates of an account share a
   name, which is what the unique key and its lock are for. *)
NamesUnique ==
    \A c, d \in Request :
        /\ Stored(c) /\ Stored(d)
        /\ certificate[c].name = certificate[d].name
        /\ certificate[c].account = certificate[d].account
        => c = d

(* The signatories of an account form a forest under its roots: a certificate
   that is no root hangs below a stored authority of its own account, and going
   up from it never leads back, so getCertificateChain terminates at a root. *)
ChainsEndInARoot ==
    /\ \A c \in Below :
          LET s == certificate[c].signatory
          IN  /\ Stored(s)
              /\ certificate[s].type \in SigningType
              /\ certificate[s].account = certificate[c].account
    /\ \A S \in SUBSET Below : S # {} => \E c \in S : certificate[c].signatory \notin S

(* A stored certificate is signed with the key pair of the signatory its row
   names, and the one who had it made knew the password of that key. *)
SignedWithSignatorysKey ==
    \A c \in Below :
        LET k == certificate[c].signedBy
        IN  /\ k = certificate[certificate[c].signatory].keyPair
            /\ key_pair[k] # None
            /\ key_pair[k].password = body[c].secret

(* No answer, of a read or a create, carries a certificate of an account other
   than the one of the user who asked; and a private key is handed out to an ADMIN
   who knows the password its creator chose, as the key of the certificate asked for. *)
AnswersStayInAccount ==
    \A r \in Request : Succeeded(r) =>
        /\ \A i \in DOMAIN response[r].certs :
              LET c == response[r].certs[i]
              IN  Stored(c) /\ certificate[c].account = AccountOfRequest(r)
        /\ body[r].op = "privateKey" =>
              LET c == body[r].cert
                  k == certificate[c].keyPair
              IN  /\ response[r].certs = <<c>>
                  /\ RoleOf[body[r].user] = "ADMIN"
                  /\ key_pair[k].account = AccountOfRequest(r)
                  /\ key_pair[k].password = body[k].password
                  /\ key_pair[k].password = body[r].secret

(* A full chain starts at the certificate asked for, goes from each certificate
   to its signatory and stops right below a root, which is left out. *)
FullChainIsComplete ==
    \A r \in Request :
        Succeeded(r) /\ body[r].op = "fullchain" =>
            LET chain == response[r].certs
            IN  /\ chain # <<>> /\ chain[1] = body[r].cert
                /\ \A i \in DOMAIN chain : certificate[chain[i]].type # "ROOT_CA"
                /\ \A i \in 1..Len(chain) - 1 : certificate[chain[i]].signatory = chain[i + 1]
                /\ certificate[certificate[Last(chain)].signatory].type = "ROOT_CA"

(* The audit log never tells of something that did not happen: a CREATE event
   is about the stored row of the request that wrote it, and whoever is said to
   have read something could: it is stored in their account, and a private key
   was read by an ADMIN with its password. *)
AuditTellsTheTruth ==
    \A e \in audit_log :
        LET c == e.resource[2]
        IN  /\ e.userId = body[e.id].user
            /\ Stored(c) /\ certificate[c].account = AccountOf[e.userId]
            /\ e.activity = "CREATE" <=> e.resource[1] \in {"certificate", "key-pair"} /\ c = e.id
            /\ e.resource[1] = "private-key" =>
                  RoleOf[e.userId] = "ADMIN" /\ key_pair[c].password = body[e.id].secret

(* With a healthy database a create that was refused or failed left nothing
   behind, neither rows nor events: the client may simply correct and resend. *)
FailedCreateLeavesNothing ==
    \A r \in Request :
        response[r] # None /\ response[r].status # 200 =>
            /\ certificate[r] = None /\ key_pair[r] = None
            /\ \A e \in audit_log : e.id # r

(* With a healthy database an answer 500 has a cause that its request, or what others
   stored, can be blamed for: the name is taken by another certificate of the account
   or too long, a root names a signatory that does not exist, the signatory's password
   is wrong or its key can sign nothing, no key can be made of the asked size or no
   certificate with the asked expiry, or the key is so short that it cannot sign its
   own root or that another one was there first. *)
FailureHasCause ==
    \A r \in Request :
        response[r] # None /\ response[r].status = 500 =>
            \/ \E s \in Request \ {r} :
                  /\ Stored(s)
                  /\ certificate[s].name = body[r].name
                  /\ certificate[s].account = AccountOfRequest(r)
            \/ body[r].name \in TooLong
            \/ body[r].type = "ROOT_CA" /\ body[r].signatory = Unknown
            \/ /\ body[r].type # "ROOT_CA" /\ Stored(body[r].signatory)
               /\ \/ key_pair[body[r].signatory].password # body[r].secret
                  \/ key_pair[body[r].signatory].size = "short"
            \/ body[r].keySize = "unusable" \/ body[r].expiry = "beyond"
            \/ /\ body[r].keySize = "short"
               /\ body[r].type = "ROOT_CA" \/ \E k \in Request \ {r} :
                     key_pair[k] # None /\ key_pair[k].size = "short"

Audited(r, activity, kind, c) ==
    \E e \in audit_log :
        e.id = r /\ e.activity = activity /\ e.resource = <<kind, c>>

(* With a healthy database everything an answer carries is in the audit log
   before the answer goes out, except for lists. *)
AnsweredIsAudited ==
    \A r \in Request :
        Succeeded(r) =>
            \/ body[r].op = "list"
            \/ /\ body[r].op = "create"
               /\ Audited(r, "CREATE", "certificate", r) /\ Audited(r, "CREATE", "key-pair", r)
            \/ /\ body[r].op \notin {"create", "list"}
               /\ \A i \in DOMAIN response[r].certs :
                     Audited(r, "READ", Resource(body[r].op), response[r].certs[i])

(* The model says that a request's Signatory holds the "credentials for [the]
   certificate signer", the README promises "root and intermediate certificate
   authorities", and the test of root creation asserts that a root's SignatoryID is
   empty: where a certificate is stored below an authority that is stored below
   another, the authority is the issuer that the certificate names, is marked as an
   authority, without which no verifier accepts the chain, and is no root. *)
SignatoryIsIssuer ==
    \A c, s, top \in Request :
        Stored(c) /\ Stored(s) /\ certificate[c].signatory = s /\ certificate[s].signatory = top =>
            /\ certificate[c].issuer = s
            /\ certificate[s].isCA
            /\ certificate[s].type # "ROOT_CA"

(* On a healthy database whoever was told that a certificate was created finds it in
   every list that is read afterwards, of its account and with its type: rows that
   were announced are committed, and none of them gets lost on the way.  With a
   database fault a list that was cut off looks like any other. *)
ListShowsWhatWasCreated ==
    [][\A r, c \in Request :
          /\ pc[r] = "findCertificates" /\ response'[r] # None /\ response'[r].status = 200
          /\ Succeeded(c) /\ body[c].op = "create"
          /\ AccountOfRequest(c) = AccountOfRequest(r)
          /\ body[r].types # {} => body[c].type \in body[r].types
          => \E i \in DOMAIN response'[r].certs : response'[r].certs[i] = c]_vars

(* Every request a replica took up is answered, unless the replica dies: also
   those that wait for a lock whose holder fails, dies or commits. *)
EveryRequestAnswered ==
    \A r \in Request : pc[r] \in Statement ~> response[r] # None \/ pc[r] = "crashed"

(* The reading of a list ends up in the audit log, though the list is answered
   before, unless the replica dies in between. *)
ListingIsAudited ==
    \A r \in Request :
        Succeeded(r) /\ body[r].op = "list" ~>
            \/ pc[r] = "crashed"
            \/ \A i \in DOMAIN read[r] : Audited(r, "READ", "certificate", read[r][i])

(* The rows implement the tree of certificates *)
issuedBar ==
    [c \in Request |->
        IF ~Stored(c) THEN None
        ELSE [name |-> certificate[c].name, account |-> certificate[c].account,
              type |-> certificate[c].type,
              parent |-> IF certificate[c].type = "ROOT_CA" THEN None
                         ELSE certificate[c].signatory]]

T == INSTANCE CertificateTree WITH Id <- Request, issued <- issuedBar

ASSUME TreeAssumption == None \notin T!Certificate

(* Every step of the service issues one certificate of the tree or none. *)
ImplementsTree == T!Spec
=============================================================================
