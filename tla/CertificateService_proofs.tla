---------------------- MODULE CertificateService_proofs ----------------------
(***************************************************************************)
(* Theorems of CertificateService for every finite set of requests, for    *)
(* all users, accounts and names, for whatever the requests send, and for  *)
(* every combination of faults.                                            *)
(***************************************************************************)
EXTENDS CertificateService, SequenceTheorems, FiniteSetTheorems, TLAPS

CreateStatement ==
    {"findUser", "findSignatory", "findSigningKeys", "insertKeyPair",
     "insertCertificate", "commit", "logCertificate", "logKeyPair"}

Uncommitted == CreateStatement \ {"logCertificate", "logKeyPair"}

(* s is a signing certificate of the account of request r *)
SignsFor(r, s) ==
    /\ s \in Request /\ certificate[s] # None
    /\ certificate[s].type \in SigningType
    /\ certificate[s].account = AccountOfRequest(r)

(* Request r has found the keys it signs with *)
Vouched(r) ==
    /\ signer[r] \in Request
    /\ body[r].type # "ROOT_CA" =>
         /\ SignsFor(r, body[r].signatory)
         /\ signer[r] = certificate[body[r].signatory].keyPair
         /\ key_pair[signer[r]] # None
         /\ key_pair[signer[r]].password = body[r].secret

(* What a create request knows at each of its statements *)
CreateOK(r) ==
    pc[r] \in CreateStatement =>
        /\ body[r].op = "create" /\ Valid(body[r])
        /\ pc[r] # "findUser" => AccountOfRequest(r) \in Account
        /\ pc[r] \in {"findSignatory", "findSigningKeys"} => body[r].type # "ROOT_CA"
        /\ pc[r] = "findSigningKeys" => SignsFor(r, body[r].signatory)
        /\ pc[r] \in {"insertKeyPair", "insertCertificate", "commit"} => Vouched(r)
        /\ pc[r] = "commit" =>
             /\ ~NameTaken(body[r].name, AccountOfRequest(r))
             /\ body[r].signatory # None => Stored(body[r].signatory)
        /\ pc[r] \in Uncommitted => certificate[r] = None

(* What a read request knows *)
ReadOK(r) ==
    /\ pc[r] = "idle" <=> body[r] = None
    /\ pc[r] = "findCertificate" => body[r].op \in {"get", "body", "fullchain", "privateKey"}
    /\ pc[r] = "findKeyPair" => body[r].op = "privateKey" /\ read[r] # <<>>
    /\ pc[r] = "findCertificates" => body[r].op = "list"
    /\ pc[r] \in {"logRead", "logListed"} =>
         body[r].op # "create" /\ logged[r] < Len(read[r])
    /\ pc[r] \notin {"logRead", "logListed", "done", "crashed"} => logged[r] = 0

(* A stored row is what its request assembled, next to the request's key pair *)
RowOK(c) ==
    certificate[c] # None =>
        /\ body[c] # None /\ body[c].op = "create"
        /\ pc[c] \notin Uncommitted \cup {"idle"}
        /\ AccountOfRequest(c) \in Account
        /\ certificate[c] = assembleCertificate(c)
        /\ key_pair[c] = encryptKeys(c)
        /\ Vouched(c)
        /\ body[c].signatory # None => Stored(body[c].signatory)

(* The unique index admits one open transaction per name and account *)
LockUnique ==
    \A r, s \in Request :
        /\ pc[r] = "commit" /\ pc[s] = "commit"
        /\ body[r].name = body[s].name /\ AccountOfRequest(r) = AccountOfRequest(s)
        => r = s

(* Going up from a certificate never leads back *)
WellFounded ==
    \A S \in SUBSET Below : S # {} => \E c \in S : certificate[c].signatory \notin S

(* The inductive invariant *)
IInv ==
    /\ TypeOK
    /\ \A r \in Request : CreateOK(r) /\ ReadOK(r) /\ RowOK(r)
    /\ LockUnique
    /\ NamesUnique
    /\ WellFounded

-----------------------------------------------------------------------------
(* A body is not None and has the fields of its operation. *)
LEMMA BodyFields ==
    ASSUME NEW b \in Body
    PROVE  /\ b # None
           /\ b.user \in User
           /\ b.op \in {"create", "get", "body", "fullchain", "privateKey", "list"}
           /\ b.op = "create" =>
                /\ b.name \in CertName /\ b.type \in CertType /\ b.password \in Password
                /\ b.signatory \in Request \cup {Unknown, None}
                /\ b.secret \in Password \cup {None} /\ b.keySize \in KeySize
           /\ b.op = "privateKey" => b.secret \in Password \cup {None}
           /\ b.op \in {"get", "body", "fullchain", "privateKey"} => b.cert \in Request \cup {Unknown}
           /\ b.op = "list" => b.account \in Account
BY NoneAssumption DEF Body

(* The answers are well typed. *)
LEMMA AnswerTypes ==
    /\ \A s \in {400, 401, 403, 404, 428, 500} : [status |-> s] \in Response
    /\ \A certs \in Seq(Request) : Success(certs) \in Response
BY DEF Response, Success

(* Access is granted to the account of the stored user only. *)
LEMMA AccessTypes ==
    ASSUME NEW u, NEW a
    PROVE  /\ AccountAccess(u, a) \in {200, 401, 403}
           /\ AccountAccess(u, a) = 200 => AccountOf[u] = a /\ a # None
BY DEF AccountAccess

(* A row, a key pair and an answer are not None. *)
LEMMA NotNone ==
    /\ None \notin Request /\ Unknown \notin Request /\ Unknown # None
    /\ None \notin Certificate /\ None \notin KeyPair /\ None \notin Response
    /\ None \notin Account /\ None \notin Password
BY NoneAssumption

(* The invariant holds before any request arrives. *)
LEMMA InitIInv == Init => IInv
<1> SUFFICES ASSUME Init PROVE IInv
  OBVIOUS
<1>1. TypeOK
  BY EmptySeq DEF Init, TypeOK
<1>2. \A r \in Request : CreateOK(r) /\ ReadOK(r) /\ RowOK(r)
  BY DEF Init, CreateOK, ReadOK, RowOK, CreateStatement
<1>3. LockUnique /\ NamesUnique /\ WellFounded
  BY DEF Init, LockUnique, NamesUnique, WellFounded, Below, Stored
<1>4. QED
  BY <1>1, <1>2, <1>3 DEF IInv

(* A request that has been received has a body. *)
LEMMA BodyKnown ==
    ASSUME IInv, NEW r \in Request, pc[r] # "idle"
    PROVE  body[r] \in Body
BY DEF IInv, TypeOK, ReadOK

(* A row that the committing request writes is well typed. *)
LEMMA CommitTypes ==
    ASSUME IInv, NEW r \in Request, pc[r] = "commit"
    PROVE  /\ assembleCertificate(r) \in Certificate
           /\ encryptKeys(r) \in KeyPair
           /\ body[r] \in Body /\ body[r].op = "create"
<1>1. body[r] \in Body /\ body[r].op = "create"
  BY BodyKnown DEF IInv, CreateOK, CreateStatement
<1>2. AccountOfRequest(r) \in Account /\ signer[r] \in Request
  BY DEF IInv, CreateOK, CreateStatement, Vouched
<1>3. QED
  BY <1>1, <1>2, BodyFields DEF assembleCertificate, encryptKeys, Certificate, KeyPair, MarkedAsCA

(* An event that a reader writes is well typed, and it moves on by one. *)
LEMMA LogTypes ==
    ASSUME IInv, NEW r \in Request, pc[r] \in {"logRead", "logListed"}, LogNext(r)
    PROVE  audit_log' \subseteq Event /\ logged' \in [Request -> Nat]
<1>1. body[r] \in Body /\ body[r].op # "create"
  BY BodyKnown DEF IInv, ReadOK
<1>2. /\ read[r] \in Seq(Request) /\ logged[r] \in Nat /\ logged[r] < Len(read[r])
      /\ logged \in [Request -> Nat] /\ audit_log \subseteq Event
  BY DEF IInv, ReadOK, TypeOK
<1>3. read[r][logged[r] + 1] \in Request
  BY <1>2
<1>4. Resource(body[r].op) \in {"certificate", "body", "key-pair", "private-key"}
  BY <1>1, BodyFields DEF Resource
<1>5. [id |-> r, userId |-> body[r].user, activity |-> "READ",
       resource |-> <<Resource(body[r].op), read[r][logged[r] + 1]>>] \in Event
  BY <1>1, <1>3, <1>4, BodyFields DEF Event
<1>6. QED
  BY <1>2, <1>5 DEF LogNext, Audit

(* The rows of a query, in any order, are a sequence. *)
LEMMA PageTypes ==
    ASSUME NEW rows \in SUBSET Request, NEW certs \in mapRowsToCertificates(rows),
           NEW page \in SetToSeqs(certs)
    PROVE  /\ page \in Seq(Request)
           /\ page # <<>> => Len(page) > 0
<1>1. certs \subseteq Request /\ IsFiniteSet(certs)
  BY RequestAssumption, FS_Subset DEF mapRowsToCertificates
<1>2. Cardinality(certs) \in Nat
  BY <1>1, FS_CardinalityType
<1>3. page \in [1..Cardinality(certs) -> Request]
  BY <1>1 DEF SetToSeqs
<1>4. page \in Seq(Request)
  BY <1>2, <1>3, SeqDef
<1>5. QED
  BY <1>4, EmptySeq

-----------------------------------------------------------------------------
(* Request r moves on, or is answered with an error; nobody else does. *)
Moves(r, next, errors) ==
    \/ \E n \in next : Goto(r, n)
    \/ \E e \in errors : Fail(r, e)

ErrorStatus == {400, 401, 403, 404, 428, 500}

(* A move keeps the types of control and goes where it says. *)
LEMMA MoveTypes ==
    ASSUME TypeOK, NEW r \in Request,
           NEW next \in SUBSET (Statement \cup {"done"}), Moves(r, next, ErrorStatus)
    PROVE  /\ pc' \in [Request -> Statement \cup {"idle", "done", "crashed"}]
           /\ response' \in [Request -> Response \cup {None}]
           /\ pc'[r] \in next \cup {"done"}
           /\ \A s \in Request \ {r} : pc'[s] = pc[s]
<1>1. CASE \E n \in next : Goto(r, n)
  <2>1. PICK n \in next : Goto(r, n)
    BY <1>1
  <2>2. n \in Statement \cup {"done"}
    OBVIOUS
  <2>3. pc' = [pc EXCEPT ![r] = n] /\ response' = response
    BY <2>1 DEF Goto
  <2>4. pc \in [Request -> Statement \cup {"idle", "done", "crashed"}]
        /\ response \in [Request -> Response \cup {None}]
    BY DEF TypeOK
  <2>5. QED
    BY <2>2, <2>3, <2>4
<1>2. CASE \E e \in ErrorStatus : Fail(r, e)
  <2>1. PICK e \in ErrorStatus : Fail(r, e)
    BY <1>2
  <2>2. [status |-> e] \in Response
    BY AnswerTypes DEF ErrorStatus
  <2>3. /\ pc' = [pc EXCEPT ![r] = "done"]
        /\ response' = [response EXCEPT ![r] = [status |-> e]]
    BY <2>1 DEF Fail, Answer
  <2>4. pc \in [Request -> Statement \cup {"idle", "done", "crashed"}]
        /\ response \in [Request -> Response \cup {None}]
    BY DEF TypeOK
  <2>5. QED
    BY <2>2, <2>3, <2>4
<1>3. QED
  BY <1>1, <1>2 DEF Moves

(* What a step of request r does when it leaves the tables alone: it keeps the
   types and what is known of r, and does not touch the other requests. *)
OthersStay(r) ==
    \A s \in Request \ {r} :
        pc'[s] = pc[s] /\ body'[s] = body[s] /\ signer'[s] = signer[s]
        /\ read'[s] = read[s] /\ logged'[s] = logged[s]

TakesLock(r) ==
    pc'[r] = "commit" =>
        body'[r] = body[r] /\ ~NameLocked(body[r].name, AccountOfRequest(r))

KeepsRow(r) ==
    certificate[r] # None =>
        /\ pc'[r] \notin Uncommitted \cup {"idle"}
        /\ body'[r] = body[r] /\ signer'[r] = signer[r]

Local(r) ==
    /\ TypeOK' /\ CreateOK(r)' /\ ReadOK(r)'
    /\ OthersStay(r) /\ TakesLock(r) /\ KeepsRow(r)
    /\ UNCHANGED tables

(* A step that changes control only *)
LEMMA ControlStep ==
    ASSUME IInv, NEW r \in Request,
           NEW next \in SUBSET (Statement \cup {"done"}), Moves(r, next, ErrorStatus),
           UNCHANGED <<certificate, key_pair, audit_log, body, signer, read, logged>>
    PROVE  /\ TypeOK' /\ OthersStay(r) /\ UNCHANGED tables
           /\ pc'[r] \in next \cup {"done"}
<1>1. TypeOK
  BY DEF IInv
<1>2. /\ pc' \in [Request -> Statement \cup {"idle", "done", "crashed"}]
      /\ response' \in [Request -> Response \cup {None}]
      /\ pc'[r] \in next \cup {"done"}
      /\ \A s \in Request \ {r} : pc'[s] = pc[s]
  BY <1>1, MoveTypes
<1>3. QED
  BY <1>1, <1>2 DEF TypeOK, OthersStay, tables

(* A create that has found its user knows its account; a root its keys too. *)
LEMMA FindUserStep == ASSUME IInv, NEW r \in Request, FindUser(r) PROVE Local(r)
<1>1. /\ pc[r] = "findUser" /\ Moves(r, {"insertKeyPair", "findSignatory"}, ErrorStatus)
      /\ UNCHANGED <<certificate, key_pair, audit_log, body, read, logged>>
  BY DEF FindUser, CreateStatus, Moves, ErrorStatus, tables
<1>2. /\ TypeOK /\ CreateOK(r) /\ ReadOK(r) /\ RowOK(r)
  BY DEF IInv
<1>3. /\ pc' \in [Request -> Statement \cup {"idle", "done", "crashed"}]
      /\ response' \in [Request -> Response \cup {None}]
      /\ pc'[r] \in {"insertKeyPair", "findSignatory", "done"}
      /\ \A s \in Request \ {r} : pc'[s] = pc[s]
  <2>1. {"insertKeyPair", "findSignatory"} \in SUBSET (Statement \cup {"done"})
    BY DEF Statement
  <2>2. QED
    BY <1>1, <1>2, <2>1, MoveTypes
<1>4. /\ signer' \in [Request -> Request \cup {None}]
      /\ \A s \in Request \ {r} : signer'[s] = signer[s]
  <2>1. signer' = signer \/ signer' = [signer EXCEPT ![r] = r]
    BY DEF FindUser
  <2>2. QED
    BY <1>2, <2>1 DEF TypeOK
<1>5. certificate[r] = None
  BY <1>1, <1>2 DEF CreateOK, CreateStatement, Uncommitted
<1>6. /\ pc'[r] = "insertKeyPair" =>
           body[r].type = "ROOT_CA" /\ signer'[r] = r /\ AccountOfRequest(r) # None
      /\ pc'[r] = "findSignatory" => body[r].type # "ROOT_CA" /\ AccountOfRequest(r) # None
  BY <1>2 DEF FindUser, CreateStatus, TypeOK, Goto, Fail, Answer
<1>7. AccountOfRequest(r) # None => AccountOfRequest(r) \in Account
  <2>1. body[r] \in Body
    BY <1>1, BodyKnown
  <2>2. QED
    BY <2>1, BodyFields, UserAssumption DEF AccountOfRequest
<1>8. CreateOK(r)'
  BY <1>1, <1>2, <1>3, <1>5, <1>6, <1>7
     DEF CreateOK, CreateStatement, Uncommitted, Vouched, AccountOfRequest
<1>9. ReadOK(r)'
  BY <1>1, <1>2, <1>3 DEF ReadOK
<1>10. QED
  BY <1>1, <1>2, <1>3, <1>4, <1>5, <1>8, <1>9
     DEF Local, TypeOK, OthersStay, TakesLock, KeepsRow, tables

(* A create that goes on to the signing keys has a signatory of its account. *)
LEMMA FindSignatoryStep == ASSUME IInv, NEW r \in Request, FindSignatory(r) PROVE Local(r)
<1> DEFINE s == body[r].signatory
           access == AccountAccess(body[r].user, certificate[s].account)
<1>0. access \in {200, 401, 403} /\ (access = 200 => certificate[s].account = AccountOfRequest(r))
  BY AccessTypes DEF AccountOfRequest
<1>1. /\ pc[r] = "findSignatory" /\ Moves(r, {"findSigningKeys"}, ErrorStatus)
      /\ UNCHANGED <<certificate, key_pair, audit_log, body, signer, read, logged>>
  BY <1>0 DEF FindSignatory, Moves, ErrorStatus, tables
<1>2. /\ TypeOK /\ CreateOK(r) /\ ReadOK(r) /\ RowOK(r)
  BY DEF IInv
<1>3. TypeOK' /\ OthersStay(r) /\ UNCHANGED tables /\ pc'[r] \in {"findSigningKeys", "done"}
  <2>1. {"findSigningKeys"} \in SUBSET (Statement \cup {"done"})
    BY DEF Statement
  <2>2. QED
    BY <1>1, <2>1, ControlStep
<1>4. certificate[r] = None
  BY <1>1, <1>2 DEF CreateOK, CreateStatement, Uncommitted
<1>5. pc'[r] = "findSigningKeys" => SignsFor(r, s)
  BY <1>0, <1>2 DEF FindSignatory, TypeOK, Goto, Fail, Answer, SignsFor, Stored
<1>6. CreateOK(r)'
  BY <1>1, <1>2, <1>3, <1>4, <1>5
     DEF CreateOK, CreateStatement, Uncommitted, SignsFor, AccountOfRequest
<1>7. ReadOK(r)'
  BY <1>1, <1>2, <1>3 DEF ReadOK
<1>8. QED
  BY <1>1, <1>3, <1>4, <1>6, <1>7 DEF Local, TakesLock, KeepsRow

(* Whoever gets hold of the signing keys knew their password. *)
LEMMA FindSigningKeysStep == ASSUME IInv, NEW r \in Request, FindSigningKeys(r) PROVE Local(r)
<1> DEFINE s == body[r].signatory
<1>0. \A k \in Request :
        AccountAccess(body[r].user, key_pair[k].account) \in {200, 401, 403}
  BY AccessTypes
<1>1. /\ pc[r] = "findSigningKeys" /\ Moves(r, {"insertKeyPair"}, ErrorStatus)
      /\ UNCHANGED <<certificate, key_pair, audit_log, body, read, logged>>
  <2>1. FindByCertificateID(s) \subseteq Request
    BY DEF FindByCertificateID
  <2>2. QED
    BY <1>0, <2>1 DEF FindSigningKeys, Moves, ErrorStatus, tables
<1>2. /\ TypeOK /\ CreateOK(r) /\ ReadOK(r) /\ RowOK(r)
  BY DEF IInv
<1>3. /\ pc' \in [Request -> Statement \cup {"idle", "done", "crashed"}]
      /\ response' \in [Request -> Response \cup {None}]
      /\ pc'[r] \in {"insertKeyPair", "done"}
      /\ \A q \in Request \ {r} : pc'[q] = pc[q]
  <2>1. {"insertKeyPair"} \in SUBSET (Statement \cup {"done"})
    BY DEF Statement
  <2>2. QED
    BY <1>1, <1>2, <2>1, MoveTypes
<1>4. certificate[r] = None /\ SignsFor(r, s) /\ body[r].type # "ROOT_CA"
  BY <1>1, <1>2 DEF CreateOK, CreateStatement, Uncommitted
<1>5. CASE UNCHANGED signer /\ pc'[r] = "done"
  <2>1. CreateOK(r)' /\ ReadOK(r)'
    BY <1>1, <1>2, <1>5 DEF CreateOK, CreateStatement, ReadOK
  <2>2. QED
    BY <1>1, <1>2, <1>3, <1>4, <1>5, <2>1
       DEF Local, TypeOK, OthersStay, TakesLock, KeepsRow, tables
<1>6. CASE \E k \in FindByCertificateID(s) :
              /\ key_pair[k].password = body[r].secret
              /\ signer' = [signer EXCEPT ![r] = k]
              /\ Goto(r, "insertKeyPair")
  <2>1. PICK k \in FindByCertificateID(s) :
              /\ key_pair[k].password = body[r].secret
              /\ signer' = [signer EXCEPT ![r] = k]
              /\ Goto(r, "insertKeyPair")
    BY <1>6
  <2>2. k \in Request /\ certificate[s].keyPair = k /\ key_pair[k] # None
    BY <2>1 DEF FindByCertificateID
  <2>3. /\ pc'[r] = "insertKeyPair" /\ signer' \in [Request -> Request \cup {None}]
        /\ signer'[r] = k /\ \A q \in Request \ {r} : signer'[q] = signer[q]
    BY <1>2, <2>1, <2>2 DEF TypeOK, Goto
  <2>4. Vouched(r)'
    BY <1>1, <1>4, <2>1, <2>2, <2>3 DEF Vouched, SignsFor, AccountOfRequest
  <2>5. CreateOK(r)' /\ ReadOK(r)'
    BY <1>1, <1>2, <1>4, <2>3, <2>4
       DEF CreateOK, CreateStatement, Uncommitted, ReadOK, AccountOfRequest
  <2>6. QED
    BY <1>1, <1>2, <1>3, <1>4, <2>3, <2>5
       DEF Local, TypeOK, OthersStay, TakesLock, KeepsRow, tables
<1>7. \/ UNCHANGED signer /\ pc'[r] = "done"
      \/ \E k \in FindByCertificateID(s) :
              /\ key_pair[k].password = body[r].secret
              /\ signer' = [signer EXCEPT ![r] = k]
              /\ Goto(r, "insertKeyPair")
  <2>1. \A e : Fail(r, e) => pc'[r] = "done"
    BY <1>2 DEF Fail, Answer, TypeOK
  <2>2. QED
    BY <2>1 DEF FindSigningKeys
<1>8. QED
  BY <1>5, <1>6, <1>7

(* Inside the transaction the request still has what it found before. *)
LEMMA InsertKeyPairStep == ASSUME IInv, NEW r \in Request, InsertKeyPair(r) PROVE Local(r)
<1>1. /\ pc[r] = "insertKeyPair" /\ Moves(r, {"insertCertificate"}, ErrorStatus)
      /\ UNCHANGED <<certificate, key_pair, audit_log, body, signer, read, logged>>
  BY DEF InsertKeyPair, Moves, ErrorStatus, tables
<1>2. /\ TypeOK /\ CreateOK(r) /\ ReadOK(r) /\ RowOK(r)
  BY DEF IInv
<1>3. TypeOK' /\ OthersStay(r) /\ UNCHANGED tables /\ pc'[r] \in {"insertCertificate", "done"}
  <2>1. {"insertCertificate"} \in SUBSET (Statement \cup {"done"})
    BY DEF Statement
  <2>2. QED
    BY <1>1, <2>1, ControlStep
<1>4. CreateOK(r)'
  BY <1>1, <1>2, <1>3
     DEF CreateOK, CreateStatement, Uncommitted, Vouched, SignsFor, AccountOfRequest
<1>5. ReadOK(r)'
  BY <1>1, <1>2, <1>3 DEF ReadOK
<1>6. certificate[r] = None
  BY <1>1, <1>2 DEF CreateOK, CreateStatement, Uncommitted
<1>7. QED
  BY <1>1, <1>3, <1>4, <1>5, <1>6 DEF Local, TakesLock, KeepsRow

(* The lock is taken by one request at a time, for a name that is free. *)
LEMMA InsertCertificateStep ==
    ASSUME IInv, NEW r \in Request, InsertCertificate(r) PROVE Local(r)
<1>1. /\ pc[r] = "insertCertificate" /\ Moves(r, {"commit"}, ErrorStatus)
      /\ ~NameLocked(body[r].name, AccountOfRequest(r))
      /\ UNCHANGED <<certificate, key_pair, audit_log, body, signer, read, logged>>
  BY DEF InsertCertificate, Moves, ErrorStatus, tables
<1>2. /\ TypeOK /\ CreateOK(r) /\ ReadOK(r) /\ RowOK(r)
  BY DEF IInv
<1>3. TypeOK' /\ OthersStay(r) /\ UNCHANGED tables /\ pc'[r] \in {"commit", "done"}
  <2>1. {"commit"} \in SUBSET (Statement \cup {"done"})
    BY DEF Statement
  <2>2. QED
    BY <1>1, <2>1, ControlStep
<1>4. pc'[r] = "commit" =>
        /\ ~NameTaken(body[r].name, AccountOfRequest(r))
        /\ body[r].signatory # None => Stored(body[r].signatory)
  BY <1>2 DEF InsertCertificate, Malformed, Fail, Answer, TypeOK
<1>5. CreateOK(r)'
  BY <1>1, <1>2, <1>3, <1>4
     DEF CreateOK, CreateStatement, Uncommitted, Vouched, SignsFor, AccountOfRequest,
         NameTaken, Stored
<1>6. ReadOK(r)'
  BY <1>1, <1>2, <1>3 DEF ReadOK
<1>7. certificate[r] = None
  BY <1>1, <1>2 DEF CreateOK, CreateStatement, Uncommitted
<1>8. QED
  BY <1>1, <1>3, <1>5, <1>6, <1>7 DEF Local, TakesLock, KeepsRow

(* The first event of a create *)
LEMMA LogCertificateStep ==
    ASSUME IInv, NEW r \in Request, LogCertificate(r) PROVE Local(r)
<1>1. /\ pc[r] = "logCertificate" /\ Goto(r, "logKeyPair")
      /\ Audit(r, "CREATE", <<"certificate", r>>)
      /\ UNCHANGED <<certificate, key_pair, body, signer, read, logged>>
  BY DEF LogCertificate, tables
<1>2. /\ TypeOK /\ CreateOK(r) /\ ReadOK(r)
  BY DEF IInv
<1>3. audit_log' \subseteq Event
  <2>1. body[r].user \in User
    BY <1>1, BodyKnown, BodyFields
  <2>2. QED
    BY <1>1, <1>2, <2>1 DEF Audit, Event, TypeOK
<1>4. /\ pc' \in [Request -> Statement \cup {"idle", "done", "crashed"}]
      /\ response' = response /\ pc'[r] = "logKeyPair"
      /\ \A s \in Request \ {r} : pc'[s] = pc[s]
  BY <1>1, <1>2 DEF Goto, TypeOK, Statement
<1>5. CreateOK(r)' /\ ReadOK(r)'
  BY <1>1, <1>2, <1>4 DEF CreateOK, CreateStatement, Uncommitted, ReadOK, AccountOfRequest
<1>6. QED
  BY <1>1, <1>2, <1>3, <1>4, <1>5
     DEF Local, TypeOK, OthersStay, TakesLock, KeepsRow, Uncommitted, CreateStatement, tables

(* The second event of a create, and its answer *)
LEMMA LogKeyPairStep ==
    ASSUME IInv, NEW r \in Request, LogKeyPair(r) PROVE Local(r)
<1>1. /\ pc[r] = "logKeyPair" /\ Answer(r, Success(<<r>>))
      /\ Audit(r, "CREATE", <<"key-pair", r>>)
      /\ UNCHANGED <<certificate, key_pair, body, signer, read, logged>>
  BY DEF LogKeyPair, tables
<1>2. /\ TypeOK /\ CreateOK(r) /\ ReadOK(r)
  BY DEF IInv
<1>3. audit_log' \subseteq Event
  <2>1. body[r].user \in User
    BY <1>1, BodyKnown, BodyFields
  <2>2. QED
    BY <1>1, <1>2, <2>1 DEF Audit, Event, TypeOK
<1>4. /\ pc' \in [Request -> Statement \cup {"idle", "done", "crashed"}]
      /\ response' \in [Request -> Response \cup {None}] /\ pc'[r] = "done"
      /\ \A s \in Request \ {r} : pc'[s] = pc[s]
  <2>1. <<r>> \in Seq(Request)
    OBVIOUS
  <2>2. Success(<<r>>) \in Response
    BY <2>1, AnswerTypes
  <2>3. QED
    BY <1>1, <1>2, <2>2 DEF Answer, TypeOK
<1>5. CreateOK(r)' /\ ReadOK(r)'
  BY <1>1, <1>2, <1>4 DEF CreateOK, CreateStatement, ReadOK
<1>6. QED
  BY <1>1, <1>2, <1>3, <1>4, <1>5
     DEF Local, TypeOK, OthersStay, TakesLock, KeepsRow, Uncommitted, CreateStatement, tables

(* A certificate that is found is appended to what the request has read. *)
LEMMA FindCertificateStep ==
    ASSUME IInv, NEW r \in Request, FindCertificate(r) PROVE Local(r)
<1> DEFINE c == Cursor(r)
           access == AccountAccess(body[r].user, certificate[c].account)
           next == {"findCertificate", "findKeyPair", "logRead"}
<1>0. access \in {200, 401, 403}
  BY AccessTypes
<1>1. /\ pc[r] = "findCertificate" /\ Moves(r, next, ErrorStatus)
      /\ UNCHANGED <<certificate, key_pair, audit_log, body, signer, logged>>
  BY <1>0 DEF FindCertificate, Moves, ErrorStatus, tables
<1>2. /\ TypeOK /\ CreateOK(r) /\ ReadOK(r)
  BY DEF IInv
<1>3. /\ pc' \in [Request -> Statement \cup {"idle", "done", "crashed"}]
      /\ response' \in [Request -> Response \cup {None}]
      /\ pc'[r] \in next \cup {"done"}
      /\ \A q \in Request \ {r} : pc'[q] = pc[q]
  <2>1. next \in SUBSET (Statement \cup {"done"})
    BY DEF Statement
  <2>2. QED
    BY <1>1, <1>2, <2>1, MoveTypes
<1>2a. \/ read' = read /\ \E e \in ErrorStatus : Fail(r, e)
       \/ read' = read /\ read[r] # <<>> /\ Goto(r, "logRead")
       \/ c \in Request /\ read' = [read EXCEPT ![r] = Append(read[r], c)]
  <2>1. CASE ~Stored(c)
    <3>1. read' = read /\ Fail(r, 404)
      BY <2>1 DEF FindCertificate
    <3>2. QED
      BY <3>1 DEF ErrorStatus
  <2>2. CASE Stored(c) /\ access # 200
    <3>1. read' = read /\ Fail(r, access)
      BY <2>2 DEF FindCertificate
    <3>2. access \in ErrorStatus
      BY <1>0, <2>2 DEF ErrorStatus
    <3>3. QED
      BY <3>1, <3>2
  <2>3. CASE Stored(c) /\ access = 200 /\ body[r].op = "fullchain" /\ EndsChain(c)
    <3>1. read' = read /\ IF read[r] = <<>> THEN Fail(r, 400) ELSE Goto(r, "logRead")
      BY <2>3 DEF FindCertificate
    <3>2. QED
      BY <3>1 DEF ErrorStatus
  <2>4. CASE Stored(c) /\ access = 200 /\ ~(body[r].op = "fullchain" /\ EndsChain(c))
    <3>1. c \in Request
      BY <2>4 DEF Stored
    <3>2. read' = [read EXCEPT ![r] = Append(read[r], c)]
      BY <2>4 DEF FindCertificate
    <3>3. QED
      BY <3>1, <3>2
  <2>5. QED
    BY <2>1, <2>2, <2>3, <2>4
<1>4. read' = read \/ (c \in Request /\ read' = [read EXCEPT ![r] = Append(read[r], c)])
  BY <1>2a
<1>5. /\ read' \in [Request -> Seq(Request)]
      /\ \A q \in Request \ {r} : read'[q] = read[q]
  <2>1. read \in [Request -> Seq(Request)]
    BY <1>2 DEF TypeOK
  <2>2. c \in Request => Append(read[r], c) \in Seq(Request)
    BY <2>1, AppendProperties
  <2> HIDE DEF c
  <2>3. QED
    BY <2>1, <2>2, <1>4
<1>6. ASSUME pc'[r] # "done"
      PROVE  \/ read' = read /\ read[r] # <<>> /\ pc'[r] = "logRead"
             \/ c \in Request /\ read'[r] = Append(read[r], c)
  <2>1. \A e : ~Fail(r, e)
    BY <1>2, <1>6 DEF Fail, Answer, TypeOK
  <2>2. \/ /\ Goto(r, "logRead") /\ read' = read /\ read[r] # <<>>
        \/ c \in Request /\ read' = [read EXCEPT ![r] = Append(read[r], c)]
    BY <2>1, <1>2a
  <2>3. Goto(r, "logRead") => pc'[r] = "logRead"
    BY <1>2 DEF Goto, TypeOK
  <2>4. QED
    BY <1>2, <2>2, <2>3 DEF TypeOK
<1>7. pc'[r] # "done" => read'[r] \in Seq(Request) /\ read'[r] # <<>> /\ Len(read'[r]) > 0
  <2>1. read[r] \in Seq(Request) /\ (read[r] # <<>> => Len(read[r]) > 0)
    BY <1>2, EmptySeq DEF TypeOK
  <2>2. c \in Request => /\ Append(read[r], c) \in Seq(Request)
                         /\ Append(read[r], c) # <<>> /\ Len(Append(read[r], c)) > 0
    BY <2>1, AppendProperties
  <2>3. QED
    BY <1>6, <2>1, <2>2
<1>8. pc'[r] = "findKeyPair" => body[r].op = "privateKey"
  BY <1>2 DEF FindCertificate, Fail, Answer, Goto, TypeOK
<1>9. CreateOK(r)' /\ ReadOK(r)'
  BY <1>1, <1>2, <1>3, <1>7, <1>8 DEF CreateOK, CreateStatement, ReadOK
<1>10. QED
  BY <1>1, <1>2, <1>3, <1>5, <1>9
     DEF Local, TypeOK, OthersStay, TakesLock, KeepsRow, Uncommitted, CreateStatement, tables

(* A private key is looked up for a certificate that was read. *)
LEMMA FindKeyPairStep ==
    ASSUME IInv, NEW r \in Request, FindKeyPair(r) PROVE Local(r)
<1>0. \A k \in Request :
        AccountAccess(body[r].user, key_pair[k].account) \in {200, 401, 403}
  BY AccessTypes
<1>1. /\ pc[r] = "findKeyPair" /\ Moves(r, {"logRead"}, ErrorStatus)
      /\ UNCHANGED <<certificate, key_pair, audit_log, body, signer, read, logged>>
  <2>1. FindByCertificateID(body[r].cert) \subseteq Request
    BY DEF FindByCertificateID
  <2>2. QED
    BY <1>0, <2>1 DEF FindKeyPair, Moves, ErrorStatus, tables
<1>2. /\ TypeOK /\ CreateOK(r) /\ ReadOK(r)
  BY DEF IInv
<1>3. TypeOK' /\ OthersStay(r) /\ UNCHANGED tables /\ pc'[r] \in {"logRead", "done"}
  <2>1. {"logRead"} \in SUBSET (Statement \cup {"done"})
    BY DEF Statement
  <2>2. QED
    BY <1>1, <2>1, ControlStep
<1>4. read[r] # <<>> /\ logged[r] = 0 /\ Len(read[r]) > 0
  BY <1>1, <1>2, EmptySeq DEF ReadOK, TypeOK
<1>5. CreateOK(r)' /\ ReadOK(r)'
  BY <1>1, <1>2, <1>3, <1>4 DEF CreateOK, CreateStatement, ReadOK
<1>6. QED
  BY <1>1, <1>3, <1>5 DEF Local, TakesLock, KeepsRow, Uncommitted, CreateStatement

(* A single assignment to pc keeps its type. *)
LEMMA PcTypes ==
    ASSUME TypeOK, NEW r \in Request, NEW next \in Statement \cup {"done", "crashed"},
           pc' = [pc EXCEPT ![r] = next]
    PROVE  /\ pc' \in [Request -> Statement \cup {"idle", "done", "crashed"}]
           /\ pc'[r] = next
           /\ \A s \in Request \ {r} : pc'[s] = pc[s]
BY DEF TypeOK

(* Writing the next event leaves more to write, unless it was the last. *)
LEMMA LogProgress ==
    ASSUME IInv, NEW r \in Request, pc[r] \in {"logRead", "logListed"}, LogNext(r)
    PROVE  /\ audit_log' \subseteq Event /\ logged' \in [Request -> Nat]
           /\ \A s \in Request \ {r} : logged'[s] = logged[s]
           /\ ~AllLogged(r) => logged'[r] < Len(read[r])
<1>1. /\ read[r] \in Seq(Request) /\ logged[r] \in Nat /\ logged[r] < Len(read[r])
      /\ logged \in [Request -> Nat] /\ Len(read[r]) \in Nat
  BY DEF IInv, ReadOK, TypeOK
<1>2. logged' = [logged EXCEPT ![r] = logged[r] + 1]
  BY DEF LogNext
<1>3. QED
  BY <1>1, <1>2, LogTypes DEF AllLogged

(* The events of a read, and its answer after the last *)
LEMMA LogReadStep == ASSUME IInv, NEW r \in Request, LogRead(r) PROVE Local(r)
<1>1. /\ pc[r] = "logRead" /\ LogNext(r)
      /\ UNCHANGED <<certificate, key_pair, body, signer, read>>
  BY DEF LogRead, tables
<1>2. /\ TypeOK /\ CreateOK(r) /\ ReadOK(r)
  BY DEF IInv
<1>3. /\ audit_log' \subseteq Event /\ logged' \in [Request -> Nat]
      /\ \A s \in Request \ {r} : logged'[s] = logged[s]
      /\ ~AllLogged(r) => logged'[r] < Len(read[r])
  BY <1>1, LogProgress
<1>4. /\ pc' \in [Request -> Statement \cup {"idle", "done", "crashed"}]
      /\ response' \in [Request -> Response \cup {None}]
      /\ \A s \in Request \ {r} : pc'[s] = pc[s]
      /\ pc'[r] = "done" \/ (pc'[r] = "logRead" /\ ~AllLogged(r))
  <2>1. CASE AllLogged(r)
    <3>1. Answer(r, Success(read[r]))
      BY <2>1 DEF LogRead
    <3>2. Success(read[r]) \in Response
      BY <1>2, AnswerTypes DEF TypeOK
    <3>3. response' \in [Request -> Response \cup {None}]
      BY <1>2, <3>1, <3>2 DEF Answer, TypeOK
    <3>4. pc' = [pc EXCEPT ![r] = "done"] /\ "done" \in Statement \cup {"done", "crashed"}
      BY <3>1 DEF Answer
    <3>5. QED
      BY <1>2, <3>3, <3>4, PcTypes
  <2>2. CASE ~AllLogged(r)
    <3>1. Goto(r, "logRead")
      BY <2>2 DEF LogRead
    <3>2. QED
      BY <1>2, <2>2, <3>1 DEF Goto, TypeOK, Statement
  <2>3. QED
    BY <2>1, <2>2
<1>5. CreateOK(r)' /\ ReadOK(r)'
  BY <1>1, <1>2, <1>3, <1>4 DEF CreateOK, CreateStatement, ReadOK
<1>6. QED
  BY <1>1, <1>2, <1>3, <1>4, <1>5
     DEF Local, TypeOK, OthersStay, TakesLock, KeepsRow, Uncommitted, CreateStatement, tables

(* The events of a list that was answered *)
LEMMA LogListedStep == ASSUME IInv, NEW r \in Request, LogListed(r) PROVE Local(r)
<1>1. /\ pc[r] = "logListed" /\ LogNext(r)
      /\ UNCHANGED <<certificate, key_pair, body, signer, read, response>>
      /\ pc' = [pc EXCEPT ![r] = IF AllLogged(r) THEN "done" ELSE "logListed"]
  BY DEF LogListed, Goto, tables
<1>2. /\ TypeOK /\ CreateOK(r) /\ ReadOK(r)
  BY DEF IInv
<1>3. /\ audit_log' \subseteq Event /\ logged' \in [Request -> Nat]
      /\ \A s \in Request \ {r} : logged'[s] = logged[s]
      /\ ~AllLogged(r) => logged'[r] < Len(read[r])
  BY <1>1, LogProgress
<1>4. /\ pc' \in [Request -> Statement \cup {"idle", "done", "crashed"}]
      /\ \A s \in Request \ {r} : pc'[s] = pc[s]
      /\ pc'[r] = "done" \/ (pc'[r] = "logListed" /\ ~AllLogged(r))
  <2> DEFINE next == IF AllLogged(r) THEN "done" ELSE "logListed"
  <2>1. /\ next \in Statement \cup {"done", "crashed"}
        /\ next = "done" \/ (next = "logListed" /\ ~AllLogged(r))
    BY DEF Statement
  <2> HIDE DEF next
  <2>2. pc' = [pc EXCEPT ![r] = next]
    BY <1>1 DEF next
  <2>3. QED
    BY <1>2, <2>1, <2>2, PcTypes
<1>5. CreateOK(r)' /\ ReadOK(r)'
  BY <1>1, <1>2, <1>3, <1>4 DEF CreateOK, CreateStatement, ReadOK
<1>6. QED
  BY <1>1, <1>2, <1>3, <1>4, <1>5
     DEF Local, TypeOK, OthersStay, TakesLock, KeepsRow, Uncommitted, CreateStatement, tables

(* A list is answered at once; its events follow unless it is empty. *)
LEMMA FindCertificatesStep ==
    ASSUME IInv, NEW r \in Request, FindCertificates(r) PROVE Local(r)
<1> DEFINE rows == FindByAccountIDAndTypes(body[r].account, body[r].types)
           access == AccountAccess(body[r].user, body[r].account)
           Lists(page) ==
             /\ read' = [read EXCEPT ![r] = page]
             /\ response' = [response EXCEPT ![r] = Success(page)]
             /\ pc' = [pc EXCEPT ![r] = IF page = <<>> THEN "done" ELSE "logListed"]
<1>0. access \in {200, 401, 403} /\ rows \in SUBSET Request
  BY AccessTypes DEF FindByAccountIDAndTypes
<1>1. /\ pc[r] = "findCertificates"
      /\ UNCHANGED <<certificate, key_pair, audit_log, body, signer, logged>>
  BY DEF FindCertificates, tables
<1>2. /\ TypeOK /\ CreateOK(r) /\ ReadOK(r)
  BY DEF IInv
<1>3. CASE access # 200
  <2>1. Fail(r, access) /\ UNCHANGED read
    BY <1>3 DEF FindCertificates
  <2>2. Moves(r, {}, ErrorStatus)
    BY <1>0, <1>3, <2>1 DEF Moves, ErrorStatus
  <2>3. TypeOK' /\ OthersStay(r) /\ UNCHANGED tables /\ pc'[r] = "done"
    BY <1>1, <2>1, <2>2, ControlStep
  <2>4. CreateOK(r)' /\ ReadOK(r)'
    BY <1>1, <1>2, <2>3 DEF CreateOK, CreateStatement, ReadOK
  <2>5. QED
    BY <1>1, <2>3, <2>4 DEF Local, TakesLock, KeepsRow, Uncommitted, CreateStatement
<1>4. CASE access = 200
  <2>0. PICK certs \in mapRowsToCertificates(rows) : \E page \in SetToSeqs(certs) : Lists(page)
    BY <1>4 DEF FindCertificates
  <2>1. PICK page \in SetToSeqs(certs) : Lists(page)
    BY <2>0
  <2>2. page \in Seq(Request) /\ (page # <<>> => Len(page) > 0)
    BY <1>0, PageTypes
  <2>3. Success(page) \in Response
    BY <2>2, AnswerTypes
  <2>4. /\ read' \in [Request -> Seq(Request)] /\ read'[r] = page
        /\ \A s \in Request \ {r} : read'[s] = read[s]
    BY <1>2, <2>1, <2>2 DEF TypeOK
  <2>5. /\ pc' \in [Request -> Statement \cup {"idle", "done", "crashed"}]
        /\ \A s \in Request \ {r} : pc'[s] = pc[s]
        /\ pc'[r] = "done" \/ (pc'[r] = "logListed" /\ page # <<>>)
    <3> DEFINE next == IF page = <<>> THEN "done" ELSE "logListed"
    <3>1. /\ next \in Statement \cup {"done", "crashed"}
          /\ next = "done" \/ (next = "logListed" /\ page # <<>>)
      BY DEF Statement
    <3> HIDE DEF next
    <3>2. pc' = [pc EXCEPT ![r] = next]
      BY <2>1 DEF next
    <3>3. QED
      BY <1>2, <3>1, <3>2, PcTypes
  <2>6. response' \in [Request -> Response \cup {None}]
    BY <1>2, <2>1, <2>3 DEF TypeOK
  <2>7. CreateOK(r)' /\ ReadOK(r)'
    BY <1>1, <1>2, <2>2, <2>4, <2>5 DEF CreateOK, CreateStatement, ReadOK
  <2>8. QED
    BY <1>1, <1>2, <2>4, <2>5, <2>6, <2>7
       DEF Local, TypeOK, OthersStay, TakesLock, KeepsRow, Uncommitted, CreateStatement, tables
<1>5. QED
  BY <1>3, <1>4

(* A failing statement answers 500 and rolls the transaction back. *)
LEMMA StatementFailsStep ==
    ASSUME IInv, NEW r \in Request, StatementFails(r) PROVE Local(r)
<1>1. /\ pc[r] \in Statement \ {"logCertificate", "logKeyPair", "logRead", "logListed"}
      /\ Moves(r, {}, ErrorStatus)
      /\ UNCHANGED <<certificate, key_pair, audit_log, body, signer, read, logged>>
  BY DEF StatementFails, Moves, ErrorStatus, tables
<1>2. /\ TypeOK /\ CreateOK(r) /\ ReadOK(r)
  BY DEF IInv
<1>3. TypeOK' /\ OthersStay(r) /\ UNCHANGED tables /\ pc'[r] = "done"
  BY <1>1, ControlStep
<1>4. CreateOK(r)' /\ ReadOK(r)'
  BY <1>1, <1>2, <1>3 DEF CreateOK, CreateStatement, ReadOK, Statement
<1>5. QED
  BY <1>1, <1>3, <1>4 DEF Local, TakesLock, KeepsRow, Uncommitted, CreateStatement

(* A crash takes the request, and its transaction, away. *)
LEMMA CrashStep == ASSUME IInv, NEW r \in Request, Crash(r) PROVE Local(r)
<1>1. /\ pc[r] \in Statement /\ pc' = [pc EXCEPT ![r] = "crashed"]
      /\ UNCHANGED <<certificate, key_pair, audit_log, body, signer, read, logged, response>>
  BY DEF Crash, tables
<1>2. /\ TypeOK /\ CreateOK(r) /\ ReadOK(r)
  BY DEF IInv
<1>3. /\ pc' \in [Request -> Statement \cup {"idle", "done", "crashed"}]
      /\ pc'[r] = "crashed" /\ \A s \in Request \ {r} : pc'[s] = pc[s]
  BY <1>1, <1>2 DEF TypeOK
<1>4. CreateOK(r)' /\ ReadOK(r)'
  BY <1>1, <1>2, <1>3 DEF CreateOK, CreateStatement, ReadOK, Statement
<1>5. QED
  BY <1>1, <1>2, <1>3, <1>4
     DEF Local, TypeOK, OthersStay, TakesLock, KeepsRow, Uncommitted, CreateStatement, tables

(* A request starts at the statement of its route. *)
LEMMA ReceiveStep == ASSUME IInv, NEW r \in Request, Receive(r) PROVE Local(r)
<1>1. /\ pc[r] = "idle"
      /\ UNCHANGED <<certificate, key_pair, audit_log, signer, read, logged>>
  BY DEF Receive, tables
<1>2. /\ TypeOK /\ CreateOK(r) /\ ReadOK(r) /\ RowOK(r)
  BY DEF IInv
<1>3. PICK b \in Sends[r] :
        /\ body' = [body EXCEPT ![r] = b]
        /\ \/ b.op = "create" /\ Valid(b) /\ Goto(r, "findUser")
           \/ b.op \in {"get", "body", "fullchain", "privateKey"} /\ Goto(r, "findCertificate")
           \/ b.op = "list" /\ Goto(r, "findCertificates")
           \/ \E e \in ErrorStatus : Fail(r, e)
  <2>1. PICK b \in Sends[r] :
          /\ body' = [body EXCEPT ![r] = b]
          /\ \/ b.op = "create" /\ IF Valid(b) THEN Goto(r, "findUser") ELSE Fail(r, 400)
             \/ /\ b.op = "privateKey"
                /\ IF RoleOf[b.user] # "ADMIN" THEN Fail(r, 403)
                   ELSE IF b.secret = None THEN Fail(r, 400)
                   ELSE Goto(r, "findCertificate")
             \/ b.op \in {"get", "body", "fullchain"} /\ Goto(r, "findCertificate")
             \/ b.op = "list" /\ Goto(r, "findCertificates")
    BY DEF Receive
  <2>2. 400 \in ErrorStatus /\ 403 \in ErrorStatus
    BY DEF ErrorStatus
  <2>3. QED
    BY <2>1, <2>2
<1>4. b \in Body /\ b # None
  BY SendsAssumption, BodyFields
<1>5. /\ body' \in [Request -> Body \cup {None}] /\ body'[r] = b
      /\ \A s \in Request \ {r} : body'[s] = body[s]
  BY <1>2, <1>3, <1>4 DEF TypeOK
<1>6. certificate[r] = None /\ logged[r] = 0
  BY <1>1, <1>2 DEF RowOK, ReadOK
<1> DEFINE next == {"findUser", "findCertificate", "findCertificates"}
<1>7. /\ pc' \in [Request -> Statement \cup {"idle", "done", "crashed"}]
      /\ response' \in [Request -> Response \cup {None}]
      /\ pc'[r] \in next \cup {"done"}
      /\ \A s \in Request \ {r} : pc'[s] = pc[s]
  <2>1. next \in SUBSET (Statement \cup {"done"})
    BY DEF Statement
  <2>2. Moves(r, next, ErrorStatus)
    BY <1>3 DEF Moves
  <2>3. QED
    BY <1>2, <2>1, <2>2, MoveTypes
<1>8. /\ pc'[r] = "findUser" => b.op = "create" /\ Valid(b)
      /\ pc'[r] = "findCertificate" => b.op \in {"get", "body", "fullchain", "privateKey"}
      /\ pc'[r] = "findCertificates" => b.op = "list"
  <2>1. /\ \A n : Goto(r, n) => pc'[r] = n
        /\ \A e : Fail(r, e) => pc'[r] = "done"
    BY <1>2 DEF Goto, Fail, Answer, TypeOK
  <2>2. QED
    BY <1>3, <2>1
<1>9. CreateOK(r)'
  BY <1>1, <1>5, <1>6, <1>7, <1>8 DEF CreateOK, CreateStatement, Uncommitted
<1>10. ReadOK(r)'
  BY <1>1, <1>4, <1>5, <1>6, <1>7, <1>8 DEF ReadOK
<1>11. QED
  BY <1>1, <1>2, <1>5, <1>6, <1>7, <1>9, <1>10
     DEF Local, TypeOK, OthersStay, TakesLock, KeepsRow, tables

(* Every step is a commit, a stutter or local. *)
LEMMA StepKinds ==
    ASSUME IInv, [Next]_vars
    PROVE  (\E r \in Request : Commit(r) \/ Local(r)) \/ UNCHANGED vars
<1>1. ASSUME NEW r \in Request, Receive(r) \/ Handle(r) \/ Crash(r)
      PROVE  Commit(r) \/ Local(r)
  BY <1>1, ReceiveStep, FindUserStep, FindSignatoryStep, FindSigningKeysStep,
     InsertKeyPairStep, InsertCertificateStep, LogCertificateStep, LogKeyPairStep,
     FindCertificateStep, FindKeyPairStep, LogReadStep, FindCertificatesStep,
     LogListedStep, StatementFailsStep, CrashStep
     DEF Handle, Execute
<1>2. QED
  BY <1>1 DEF Next

(* A local step keeps the invariant of everybody. *)
LEMMA LocalKeeps == ASSUME IInv, NEW r \in Request, Local(r) PROVE IInv'
<1>1. /\ TypeOK' /\ CreateOK(r)' /\ ReadOK(r)'
      /\ certificate' = certificate /\ key_pair' = key_pair
      /\ OthersStay(r) /\ TakesLock(r) /\ KeepsRow(r)
  BY DEF Local, tables
<1>2. ASSUME NEW s \in Request PROVE CreateOK(s)'
  <2>1. CASE s = r
    BY <1>1, <2>1
  <2>2. CASE s # r
    <3>1. CreateOK(s) /\ pc'[s] = pc[s] /\ body'[s] = body[s] /\ signer'[s] = signer[s]
      BY <1>1, <2>2 DEF IInv, OthersStay
    <3>2. QED
      BY <1>1, <3>1 DEF CreateOK, Vouched, SignsFor, NameTaken, Stored, AccountOfRequest
  <2>3. QED
    BY <2>1, <2>2
<1>3. ASSUME NEW s \in Request PROVE ReadOK(s)'
  <2>1. CASE s = r
    BY <1>1, <2>1
  <2>2. CASE s # r
    <3>1. /\ ReadOK(s) /\ pc'[s] = pc[s] /\ body'[s] = body[s]
          /\ read'[s] = read[s] /\ logged'[s] = logged[s]
      BY <1>1, <2>2 DEF IInv, OthersStay
    <3>2. QED
      BY <3>1 DEF ReadOK
  <2>3. QED
    BY <2>1, <2>2
<1>4. ASSUME NEW c \in Request PROVE RowOK(c)'
  <2>1. SUFFICES ASSUME certificate[c] # None PROVE RowOK(c)'
    BY <1>1 DEF RowOK
  <2>2. /\ RowOK(c) /\ body'[c] = body[c] /\ signer'[c] = signer[c]
        /\ pc'[c] \notin Uncommitted \cup {"idle"}
    BY <1>1, <2>1 DEF IInv, OthersStay, KeepsRow, RowOK
  <2>3. QED
    BY <1>1, <2>1, <2>2
       DEF RowOK, Vouched, SignsFor, Stored, AccountOfRequest, assembleCertificate, encryptKeys
<1>5. LockUnique'
  <2>1. SUFFICES ASSUME NEW s \in Request, pc'[s] = "commit", s # r, pc'[r] = "commit",
                        body'[s].name = body'[r].name,
                        AccountOf[body'[s].user] = AccountOf[body'[r].user]
                 PROVE  FALSE
    <3>1. ASSUME NEW s \in Request, NEW q \in Request, pc'[s] = "commit", pc'[q] = "commit",
                 body'[s].name = body'[q].name,
                 AccountOf[body'[s].user] = AccountOf[body'[q].user], s # q, s # r, q # r
          PROVE  FALSE
      BY <1>1, <3>1 DEF IInv, LockUnique, OthersStay, AccountOfRequest
    <3>2. QED
      BY <2>1, <3>1 DEF LockUnique, AccountOfRequest
  <2>2. pc[s] = "commit" /\ body'[s] = body[s]
    BY <1>1, <2>1 DEF OthersStay
  <2>3. body'[r] = body[r] /\ ~NameLocked(body[r].name, AccountOfRequest(r))
    BY <1>1, <2>1 DEF TakesLock
  <2>4. QED
    BY <2>1, <2>2, <2>3 DEF NameLocked, SameName, AccountOfRequest
<1>6. NamesUnique' /\ WellFounded'
  BY <1>1 DEF IInv, NamesUnique, WellFounded, Below, Stored
<1>7. QED
  BY <1>1, <1>2, <1>3, <1>4, <1>5, <1>6 DEF IInv

(* What a commit changes: the two rows of its request appear, where no row was
   before, and everything that others rely on stays. *)
LEMMA CommitEffect ==
    ASSUME IInv, NEW r \in Request, Commit(r)
    PROVE  /\ TypeOK'
           /\ pc[r] = "commit" /\ pc'[r] \in {"logCertificate", "done"}
           /\ \A s \in Request \ {r} : pc'[s] = pc[s]
           /\ UNCHANGED <<body, signer, read, logged>>
           /\ certificate[r] = None
           /\ certificate'[r] = assembleCertificate(r) /\ certificate'[r] # None
           /\ key_pair'[r] = encryptKeys(r)
           /\ \A c \in Request \ {r} : certificate'[c] = certificate[c] /\ key_pair'[c] = key_pair[c]
<1>1. /\ pc[r] = "commit"
      /\ certificate' = [certificate EXCEPT ![r] = assembleCertificate(r)]
      /\ key_pair' = [key_pair EXCEPT ![r] = encryptKeys(r)]
      /\ Moves(r, {"logCertificate"}, ErrorStatus)
      /\ UNCHANGED <<audit_log, body, signer, read, logged>>
  BY DEF Commit, Moves, ErrorStatus
<1>2. TypeOK /\ CreateOK(r)
  BY DEF IInv
<1>3. /\ assembleCertificate(r) \in Certificate
      /\ encryptKeys(r) \in KeyPair
  BY <1>1, CommitTypes
<1>4. /\ pc' \in [Request -> Statement \cup {"idle", "done", "crashed"}]
      /\ response' \in [Request -> Response \cup {None}]
      /\ pc'[r] \in {"logCertificate", "done"}
      /\ \A s \in Request \ {r} : pc'[s] = pc[s]
  <2>1. {"logCertificate"} \in SUBSET (Statement \cup {"done"})
    BY DEF Statement
  <2>2. QED
    BY <1>1, <1>2, <2>1, MoveTypes
<1>5. /\ certificate' \in [Request -> Certificate \cup {None}]
      /\ key_pair' \in [Request -> KeyPair \cup {None}]
  BY <1>1, <1>2, <1>3 DEF TypeOK
<1>6. TypeOK'
  BY <1>1, <1>2, <1>4, <1>5 DEF TypeOK
<1>7. certificate[r] = None
  BY <1>1, <1>2 DEF CreateOK, CreateStatement, Uncommitted
<1>8. /\ certificate'[r] = assembleCertificate(r)
      /\ key_pair'[r] = encryptKeys(r)
      /\ \A c \in Request \ {r} : certificate'[c] = certificate[c] /\ key_pair'[c] = key_pair[c]
  BY <1>1, <1>2 DEF TypeOK
<1>9. QED
  BY <1>1, <1>3, <1>4, <1>6, <1>7, <1>8, NotNone

(* What a stored row consists of *)
LEMMA RowFields ==
    ASSUME IInv, NEW c \in Request, certificate[c] # None
    PROVE  /\ certificate[c].name = body[c].name
           /\ certificate[c].type = body[c].type
           /\ certificate[c].account = AccountOfRequest(c)
           /\ certificate[c].keyPair = c
           /\ certificate[c].signatory = body[c].signatory
           /\ certificate[c].signedBy = signer[c]
           /\ Vouched(c)
<1>1. certificate[c] = assembleCertificate(c) /\ Vouched(c)
  BY DEF IInv, RowOK
<1>2. QED
  BY <1>1 DEF assembleCertificate

(* The signatory of whoever has found its keys is another, stored certificate,
   which a commit leaves alone. *)
LEMMA VouchedStays ==
    ASSUME IInv, NEW r \in Request, Commit(r), NEW s \in Request, Vouched(s)
    PROVE  Vouched(s)'
<1> DEFINE c == body[s].signatory
<1>1. /\ body' = body /\ signer' = signer /\ certificate[r] = None
      /\ \A q \in Request \ {r} : certificate'[q] = certificate[q] /\ key_pair'[q] = key_pair[q]
  BY CommitEffect
<1>2. CASE body[s].type = "ROOT_CA"
  BY <1>1, <1>2 DEF Vouched
<1>3. CASE body[s].type # "ROOT_CA"
  <2>1. c \in Request \ {r} /\ SignsFor(s, c) /\ certificate[c] # None
    BY <1>1, <1>3 DEF Vouched, SignsFor
  <2>2. certificate[c].keyPair = c
    BY <2>1, RowFields
  <2>3. signer[s] = c
    BY <1>3, <2>2 DEF Vouched
  <2>4. SignsFor(s, c)'
    BY <1>1, <2>1 DEF SignsFor, AccountOfRequest
  <2>5. QED
    BY <1>1, <1>3, <2>1, <2>2, <2>3, <2>4 DEF Vouched
<1>4. QED
  BY <1>2, <1>3

(* A commit keeps the invariant of everybody. *)
LEMMA CommitKeeps == ASSUME IInv, NEW r \in Request, Commit(r) PROVE IInv'
<1>1. /\ TypeOK'
      /\ pc[r] = "commit" /\ pc'[r] \in {"logCertificate", "done"}
      /\ \A s \in Request \ {r} : pc'[s] = pc[s]
      /\ UNCHANGED <<body, signer, read, logged>>
      /\ certificate[r] = None
      /\ certificate'[r] = assembleCertificate(r) /\ certificate'[r] # None
      /\ key_pair'[r] = encryptKeys(r)
      /\ \A c \in Request \ {r} : certificate'[c] = certificate[c] /\ key_pair'[c] = key_pair[c]
  BY CommitEffect
<1>2. /\ body[r].op = "create" /\ Valid(body[r]) /\ body[r] # None
      /\ AccountOfRequest(r) \in Account
      /\ Vouched(r) /\ Vouched(r)'
      /\ ~NameTaken(body[r].name, AccountOfRequest(r))
      /\ body[r].signatory # None => Stored(body[r].signatory)
  BY <1>1, CommitTypes, BodyFields, VouchedStays DEF IInv, CreateOK, CreateStatement
<1>3. \A c : Stored(c) => Stored(c)' /\ c # r /\ c \in Request
  BY <1>1 DEF Stored
<1>4. ASSUME NEW s \in Request PROVE CreateOK(s)'
  <2>1. CASE s = r
    BY <1>1, <1>2, <2>1 DEF CreateOK, CreateStatement, Uncommitted, AccountOfRequest
  <2>2. CASE s # r
    <3>1. CreateOK(s) /\ pc'[s] = pc[s] /\ certificate'[s] = certificate[s]
      BY <1>1, <2>2 DEF IInv
    <3>2. Vouched(s) => Vouched(s)'
      BY VouchedStays
    <3>3. ASSUME NEW c, SignsFor(s, c) PROVE SignsFor(s, c)'
      BY <1>1, <3>3 DEF SignsFor, AccountOfRequest
    <3>4. ASSUME pc[s] = "commit" PROVE ~NameTaken(body[s].name, AccountOfRequest(s))'
      <4>1. ~SameName(r, body[s].name, AccountOfRequest(s))
        BY <1>1, <2>2, <3>4 DEF IInv, LockUnique, SameName
      <4>2. certificate'[r].name = body[r].name /\ certificate'[r].account = AccountOfRequest(r)
        BY <1>1 DEF assembleCertificate
      <4>3. ~NameTaken(body[s].name, AccountOfRequest(s))
        BY <3>1, <3>4 DEF CreateOK, CreateStatement
      <4>4. QED
        BY <1>1, <4>1, <4>2, <4>3 DEF NameTaken, SameName, Stored, AccountOfRequest
    <3>5. QED
      BY <1>1, <1>3, <3>1, <3>2, <3>3, <3>4 DEF CreateOK, AccountOfRequest
  <2>3. QED
    BY <2>1, <2>2
<1>5. ASSUME NEW s \in Request PROVE ReadOK(s)'
  <2>1. ReadOK(s)
    BY DEF IInv
  <2>2. CASE s = r
    BY <1>1, <2>1, <2>2 DEF ReadOK
  <2>3. CASE s # r
    BY <1>1, <2>1, <2>3 DEF ReadOK
  <2>4. QED
    BY <2>2, <2>3
<1>6. ASSUME NEW c \in Request PROVE RowOK(c)'
  <2>1. CASE c = r
    BY <1>1, <1>2, <1>3, <2>1
       DEF RowOK, AccountOfRequest, assembleCertificate, encryptKeys, Uncommitted, CreateStatement
  <2>2. CASE c # r
    <3>1. RowOK(c) /\ (Vouched(c) => Vouched(c)')
      BY VouchedStays DEF IInv
    <3>2. QED
      BY <1>1, <1>3, <2>2, <3>1 DEF RowOK, AccountOfRequest, assembleCertificate, encryptKeys
  <2>3. QED
    BY <2>1, <2>2
<1>7. LockUnique'
  BY <1>1 DEF IInv, LockUnique, AccountOfRequest
<1>8. NamesUnique'
  <2>1. ASSUME NEW c \in Request, certificate[c] # None, c # r
        PROVE  ~(/\ certificate'[c].name = certificate'[r].name
                 /\ certificate'[c].account = certificate'[r].account)
    BY <1>1, <1>2, <2>1 DEF NameTaken, Stored, assembleCertificate
  <2>2. QED
    BY <1>1, <2>1 DEF IInv, NamesUnique, Stored
<1>9. WellFounded'
  <2>1. SUFFICES ASSUME NEW S \in SUBSET Below', S # {}
                 PROVE  \E c \in S : certificate'[c].signatory \notin S
    BY DEF WellFounded
  <2>2. \A c \in S : c \in Request /\ certificate'[c] # None /\ certificate'[c].type # "ROOT_CA"
    BY DEF Below, Stored
  <2>3. CASE S = {r}
    <3>1. certificate'[r].signatory = body[r].signatory /\ body[r].type # "ROOT_CA"
      BY <1>1, <2>2, <2>3 DEF assembleCertificate
    <3>2. Stored(body[r].signatory)
      BY <1>2, <3>1 DEF Vouched, SignsFor, Stored
    <3>3. QED
      BY <1>3, <2>3, <3>1, <3>2
  <2>4. CASE S # {r}
    <3>1. S \ {r} \in SUBSET Below /\ S \ {r} # {}
      BY <1>1, <2>1, <2>2, <2>4 DEF Below, Stored
    <3>2. PICK c \in S \ {r} : certificate[c].signatory \notin S \ {r}
      BY <3>1 DEF IInv, WellFounded
    <3>3. /\ c \in Request /\ c # r /\ certificate[c] # None /\ certificate[c].type # "ROOT_CA"
          /\ certificate'[c] = certificate[c]
      BY <1>1, <3>1 DEF Below, Stored
    <3>4. SignsFor(c, certificate[c].signatory)
      BY <3>3, RowFields DEF Vouched
    <3>5. certificate[c].signatory # r
      BY <1>1, <3>4 DEF SignsFor
    <3>6. QED
      BY <3>2, <3>3, <3>5
  <2>5. QED
    BY <2>3, <2>4
<1>10. QED
  BY <1>1, <1>4, <1>5, <1>6, <1>7, <1>8, <1>9 DEF IInv

(* The invariant is inductive. *)
LEMMA Inductive == IInv /\ [Next]_vars => IInv'
<1> SUFFICES ASSUME IInv, [Next]_vars PROVE IInv'
  OBVIOUS
<1>1. CASE \E r \in Request : Commit(r) \/ Local(r)
  BY <1>1, CommitKeeps, LocalKeeps
<1>2. CASE UNCHANGED vars
  <2>1. /\ certificate' = certificate /\ key_pair' = key_pair /\ audit_log' = audit_log
        /\ pc' = pc /\ body' = body /\ signer' = signer /\ read' = read /\ logged' = logged
        /\ response' = response
    BY <1>2 DEF vars
  <2>2. TypeOK'
    BY <2>1 DEF IInv, TypeOK
  <2>3. ASSUME NEW r \in Request PROVE CreateOK(r)'
    <3>1. CreateOK(r)
      BY DEF IInv
    <3>2. QED
      BY <2>1, <3>1 DEF CreateOK, Vouched, SignsFor, NameTaken, Stored, AccountOfRequest
  <2>4. ASSUME NEW r \in Request PROVE ReadOK(r)' /\ RowOK(r)'
    <3>1. ReadOK(r) /\ RowOK(r)
      BY DEF IInv
    <3>2. QED
      BY <2>1, <3>1
         DEF ReadOK, RowOK, Vouched, SignsFor, Stored, AccountOfRequest, assembleCertificate, encryptKeys
  <2>5. LockUnique' /\ NamesUnique' /\ WellFounded'
    BY <2>1 DEF IInv, LockUnique, AccountOfRequest, NamesUnique, WellFounded, Below, Stored
  <2>6. QED
    BY <2>2, <2>3, <2>4, <2>5 DEF IInv
<1>3. QED
  BY <1>1, <1>2, StepKinds

-----------------------------------------------------------------------------
(* The theorems *)

(* The invariant holds in every reachable state. *)
LEMMA Invariance == Spec => []IInv
BY InitIInv, Inductive, PTL DEF Spec

(* Type correctness: whatever is sent, raced and failed, the tables hold rows,
   the requests are at a statement of their route, the answers are answers. *)
THEOREM TypeCorrect == Spec => []TypeOK
<1>1. IInv => TypeOK
  BY DEF IInv
<1>2. QED
  BY <1>1, Invariance, PTL

(* However many creates race in an account, the unique key on (name,
   account_id), with the lock an uncommitted entry holds, keeps names unique. *)
THEOREM NamesAreUnique == Spec => []NamesUnique
<1>1. IInv => NamesUnique
  BY DEF IInv
<1>2. QED
  BY <1>1, Invariance, PTL

(* The signatories form a forest under the roots of each account, so that
   getCertificateChain ends at a root for every stored certificate. *)
THEOREM ChainsEnd == Spec => []ChainsEndInARoot
<1>1. IInv => ChainsEndInARoot
  <2> SUFFICES ASSUME IInv PROVE ChainsEndInARoot
    OBVIOUS
  <2>1. ASSUME NEW c \in Below
        PROVE  LET s == certificate[c].signatory
               IN  /\ Stored(s)
                   /\ certificate[s].type \in SigningType
                   /\ certificate[s].account = certificate[c].account
    <3>1. c \in Request /\ certificate[c] # None /\ certificate[c].type # "ROOT_CA"
      BY DEF Below, Stored
    <3>2. SignsFor(c, certificate[c].signatory) /\ certificate[c].account = AccountOfRequest(c)
      BY <3>1, RowFields DEF Vouched
    <3>3. QED
      BY <3>2 DEF SignsFor, Stored
  <2>2. QED
    BY <2>1 DEF ChainsEndInARoot, IInv, WellFounded
<1>2. QED
  BY <1>1, Invariance, PTL

(* Nobody gets a certificate signed without the password of the signatory's
   key, and the key that signs is the one of the signatory the row names. *)
THEOREM Signed == Spec => []SignedWithSignatorysKey
<1>1. IInv => SignedWithSignatorysKey
  <2> SUFFICES ASSUME IInv, NEW c \in Below
               PROVE  LET k == certificate[c].signedBy
                      IN  /\ k = certificate[certificate[c].signatory].keyPair
                          /\ key_pair[k] # None
                          /\ key_pair[k].password = body[c].secret
    BY DEF SignedWithSignatorysKey
  <2>1. c \in Request /\ certificate[c] # None /\ certificate[c].type # "ROOT_CA"
    BY DEF Below, Stored
  <2>2. QED
    BY <2>1, RowFields DEF Vouched
<1>2. QED
  BY <1>1, Invariance, PTL

(* The rows implement the tree: a commit issues one certificate under a parent
   the tree has, every other step none. *)
THEOREM Refinement == Spec => ImplementsTree
<1>1. Init => T!Init
  BY DEF Init, T!Init, issuedBar, Stored
<1>2. IInv /\ IInv' /\ [Next]_vars => [T!Next]_issuedBar
  <2> SUFFICES ASSUME IInv, IInv', [Next]_vars
               PROVE  T!Next \/ UNCHANGED issuedBar
    OBVIOUS
  <2>1. CASE UNCHANGED certificate
    BY <2>1 DEF issuedBar, Stored
  <2>2. ASSUME NEW r \in Request, Commit(r) PROVE T!Issue(r)
    <3> DEFINE c == issuedBar'[r]
    <3>1. /\ certificate[r] = None
          /\ certificate'[r] = assembleCertificate(r) /\ certificate'[r] # None
          /\ \A q \in Request \ {r} : certificate'[q] = certificate[q]
          /\ body' = body
      BY <2>2, CommitEffect
    <3>2. /\ body[r] \in Body /\ body[r].op = "create"
          /\ AccountOfRequest(r) \in Account
          /\ ~NameTaken(body[r].name, AccountOfRequest(r))
          /\ Vouched(r)
      BY <2>2, CommitTypes DEF Commit, IInv, CreateOK, CreateStatement
    <3>3. /\ c.name = body[r].name /\ c.account = AccountOfRequest(r) /\ c.type = body[r].type
          /\ c.parent = IF body[r].type = "ROOT_CA" THEN None ELSE body[r].signatory
          /\ c = [name |-> body[r].name, account |-> AccountOfRequest(r), type |-> body[r].type,
                  parent |-> IF body[r].type = "ROOT_CA" THEN None ELSE body[r].signatory]
      <4>1. /\ certificate'[r].name = body[r].name /\ certificate'[r].type = body[r].type
            /\ certificate'[r].account = AccountOfRequest(r)
            /\ certificate'[r].signatory = body[r].signatory
        BY <3>1 DEF assembleCertificate
      <4>2. QED
        BY <3>1, <4>1 DEF issuedBar, Stored
    <3>4. issuedBar[r] = None
      BY <3>1 DEF issuedBar, Stored
    <3>5. issuedBar' = [issuedBar EXCEPT ![r] = c]
      BY <3>1 DEF issuedBar, Stored
    <3>6. body[r].type # "ROOT_CA" => SignsFor(r, body[r].signatory)
      BY <3>2 DEF Vouched
    <3>7. c \in T!Certificate
      BY <3>2, <3>3, <3>6, BodyFields DEF T!Certificate, T!CA, CertType, SignsFor
    <3>8. T!NameFree(c)
      BY <3>2, <3>3, NotNone DEF T!NameFree, NameTaken, issuedBar, Stored
    <3>9. body[r].type # "ROOT_CA" =>
            c.parent \in Request /\ T!MayHangBelow(c, c.parent)
      <4> DEFINE p == body[r].signatory
      <4>1. SUFFICES ASSUME body[r].type # "ROOT_CA"
                     PROVE  p \in Request /\ T!MayHangBelow(c, p)
        BY <3>3
      <4>2. /\ p \in Request /\ certificate[p] # None /\ certificate[p] \in Certificate
            /\ certificate[p].type \in SigningType
            /\ certificate[p].account = AccountOfRequest(r)
        BY <3>6, <4>1 DEF SignsFor, IInv, TypeOK
      <4>3. certificate[p].type # "ROOT_CA" => certificate[p].signatory \in Request
        BY <4>2, RowFields DEF Vouched, SignsFor
      <4>4. /\ issuedBar[p].type = certificate[p].type
            /\ issuedBar[p].account = certificate[p].account
            /\ issuedBar[p] = [name |-> certificate[p].name, account |-> certificate[p].account,
                              type |-> certificate[p].type,
                              parent |-> IF certificate[p].type = "ROOT_CA" THEN None
                                         ELSE certificate[p].signatory]
        BY <4>2 DEF issuedBar, Stored
      <4>5. issuedBar[p] \in T!Certificate
        BY <4>2, <4>3, <4>4 DEF T!Certificate, T!CA, SigningType, Certificate
      <4>6. QED
        BY <3>3, <4>2, <4>4, <4>5, TreeAssumption DEF T!MayHangBelow, T!CA, SigningType
    <3>10. QED
      BY <3>3, <3>4, <3>5, <3>7, <3>8, <3>9 DEF T!Issue
  <2>3. UNCHANGED certificate \/ \E r \in Request : Commit(r)
    BY StepKinds DEF Local, tables, vars
  <2>4. QED
    BY <2>1, <2>2, <2>3 DEF T!Next
<1>3. QED
  BY <1>1, <1>2, Invariance, PTL DEF Spec, ImplementsTree, T!Spec
=============================================================================
