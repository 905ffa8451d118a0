----------------------- MODULE CertificateReads_proofs -----------------------
(***************************************************************************)
(* Theorems about what CertificateService answers and writes down, for     *)
(* every finite set of requests and for whatever they send: first with     *)
(* every combination of faults, then on a healthy database.  They rest on  *)
(* the invariant of CertificateService_proofs and on what a request knows  *)
(* of what it read, and of what it left behind.                            *)
(***************************************************************************)
EXTENDS CertificateService_proofs

(* c is stored in the account of whoever sent request r *)
Mine(r, c) == Stored(c) /\ certificate[c].account = AccountOfRequest(r)

AllMine(r) == \A i \in DOMAIN read[r] : Mine(r, read[r][i])

(* Request r has shown that it may have the private key it asks for *)
MayHaveKey(r) ==
    /\ RoleOf[body[r].user] = "ADMIN"
    /\ read[r] = <<body[r].cert>>
    /\ key_pair[body[r].cert].password = body[r].secret

(* What r has read goes up from the certificate it asks for *)
Ascends(r) ==
    /\ read[r] # <<>> => read[r][1] = body[r].cert
    /\ \A i \in DOMAIN read[r] : certificate[read[r][i]].type # "ROOT_CA"
    /\ \A i \in 1..Len(read[r]) - 1 : certificate[read[r][i]].signatory = read[r][i + 1]

(* ... and has arrived right below a root *)
AtTheTop(r) ==
    /\ read[r] # <<>>
    /\ certificate[certificate[Last(read[r])].signatory].type = "ROOT_CA"

HasRead(r) == pc[r] = "logRead" \/ Succeeded(r)

KeyOK(r) ==
    /\ pc[r] \in {"findCertificate", "findKeyPair"} => RoleOf[body[r].user] = "ADMIN"
    /\ pc[r] = "findCertificate" => read[r] = <<>>
    /\ pc[r] = "findKeyPair" => read[r] = <<body[r].cert>>
    /\ HasRead(r) => MayHaveKey(r)

AnswerOK(r) ==
    /\ pc[r] \in {"logListed", "done", "crashed"}
    /\ body[r].op = "create" => response[r].certs = <<r>> /\ Mine(r, r)
    /\ body[r].op # "create" => response[r].certs = read[r]

(* What request r knows of what it has read *)
Knows(r) ==
    /\ pc[r] = "idle" => read[r] = <<>> /\ response[r] = None
    /\ pc[r] \in {"logCertificate", "logKeyPair"} => certificate[r] # None
    /\ pc[r] = "logListed" => body[r].op = "list"
    /\ AllMine(r)
    /\ body[r] # None /\ body[r].op = "privateKey" => KeyOK(r)
    /\ body[r] # None /\ body[r].op = "fullchain" =>
         Ascends(r) /\ (HasRead(r) => AtTheTop(r))
    /\ Succeeded(r) => AnswerOK(r)

(* Event e is true, and its request is known *)
Told(e) ==
    LET c == e.resource[2]
    IN  /\ body[e.id] # None
        /\ e.userId = body[e.id].user
        /\ Stored(c) /\ certificate[c].account = AccountOf[e.userId]
        /\ e.activity = "CREATE" <=> e.resource[1] \in {"certificate", "key-pair"} /\ c = e.id
        /\ e.resource[1] = "private-key" =>
              RoleOf[e.userId] = "ADMIN" /\ key_pair[c].password = body[e.id].secret

(* No key pair is stored without its certificate *)
Together == \A k \in Request : key_pair[k] # None => certificate[k] # None

(* The inductive invariant, next to IInv *)
RInv == (\A r \in Request : Knows(r)) /\ (\A e \in audit_log : Told(e)) /\ Together

-----------------------------------------------------------------------------
(* Nothing is read before any request arrives. *)
LEMMA InitRInv == Init => RInv
BY DEF Init, RInv, Knows, AllMine, Succeeded, Together

(* Rows stay as they were stored, and requests as they were parsed. *)
Grows ==
    /\ \A c \in Request : certificate[c] # None =>
          certificate'[c] = certificate[c] /\ key_pair'[c] = key_pair[c]
    /\ \A r \in Request : body[r] # None => body'[r] = body[r]

LEMMA AlwaysGrows == ASSUME IInv, Next PROVE Grows
<1>1. \A c \in Request : certificate[c] # None =>
          certificate'[c] = certificate[c] /\ key_pair'[c] = key_pair[c]
  <2>1. CASE \E r \in Request : Commit(r)
    BY <2>1, CommitEffect
  <2>2. CASE \E r \in Request : Local(r)
    BY <2>2 DEF Local, tables
  <2>3. QED
    BY <2>1, <2>2, StepKinds DEF vars
<1>2. \A r \in Request : body[r] # None => body'[r] = body[r]
  <2>1. PICK r \in Request : Receive(r) \/ Handle(r) \/ Crash(r)
    BY DEF Next
  <2>2. CASE Receive(r)
    <3>1. body \in [Request -> Body \cup {None}] /\ body[r] = None
      BY <2>2 DEF Receive, IInv, TypeOK, ReadOK
    <3>2. PICK b : body' = [body EXCEPT ![r] = b]
      BY <2>2 DEF Receive
    <3>3. QED
      BY <3>1, <3>2
  <2>3. CASE Handle(r) \/ Crash(r)
    BY <2>3 DEF Handle, Execute, Crash, StatementFails, FindUser, FindSignatory,
                FindSigningKeys, InsertKeyPair, InsertCertificate, Commit, LogCertificate,
                LogKeyPair, FindCertificate, FindKeyPair, LogRead, FindCertificates, LogListed
  <2>4. QED
    BY <2>1, <2>2, <2>3
<1>3. QED
  BY <1>1, <1>2 DEF Grows

(* A certificate below the roots hangs below one that is stored. *)
LEMMA SignatoryStored ==
    ASSUME IInv, NEW c \in Request, certificate[c] # None, certificate[c].type # "ROOT_CA"
    PROVE  certificate[c].signatory \in Request /\ certificate[certificate[c].signatory] # None
BY RowFields DEF Vouched, SignsFor

(* What was read stays what it was. *)
LEMMA ReadStays ==
    ASSUME IInv, NEW r \in Request, Knows(r), Grows, body'[r] = body[r], read'[r] = read[r]
    PROVE  /\ AllMine(r)'
           /\ MayHaveKey(r) => MayHaveKey(r)'
           /\ Ascends(r) => Ascends(r)'
           /\ Ascends(r) /\ AtTheTop(r) => AtTheTop(r)'
<1>1. /\ read[r] \in Seq(Request)
      /\ \A i \in DOMAIN read[r] : read[r][i] \in Request /\ certificate[read[r][i]] # None
      /\ DOMAIN read[r] = 1..Len(read[r]) /\ Len(read[r]) \in Nat
  BY DEF IInv, TypeOK, Knows, AllMine, Mine, Stored
<1>2. \A i \in DOMAIN read[r] : /\ certificate'[read[r][i]] = certificate[read[r][i]]
                                /\ key_pair'[read[r][i]] = key_pair[read[r][i]]
  BY <1>1 DEF Grows
<1>3. AllMine(r)'
  BY <1>1, <1>2 DEF Knows, AllMine, Mine, Stored, AccountOfRequest
<1>4. MayHaveKey(r) => MayHaveKey(r)'
  <2>1. SUFFICES ASSUME MayHaveKey(r) PROVE MayHaveKey(r)'
    OBVIOUS
  <2>2. read[r] = <<body[r].cert>>
    BY <2>1 DEF MayHaveKey
  <2>3. 1 \in DOMAIN read[r] /\ read[r][1] = body[r].cert
    BY <2>2
  <2>4. key_pair'[body[r].cert] = key_pair[body[r].cert]
    BY <1>2, <2>3
  <2>5. QED
    BY <2>1, <2>4 DEF MayHaveKey
<1>5. Ascends(r) => Ascends(r)'
  BY <1>1, <1>2 DEF Ascends
<1>6. Ascends(r) /\ AtTheTop(r) => AtTheTop(r)'
  <2>1. SUFFICES ASSUME Ascends(r), AtTheTop(r) PROVE AtTheTop(r)'
    OBVIOUS
  <2> DEFINE c == Last(read[r])
  <2>2. Len(read[r]) \in DOMAIN read[r] /\ c = read[r][Len(read[r])]
    BY <1>1, <2>1, EmptySeq DEF AtTheTop, Last
  <2>3. /\ c \in Request /\ certificate[c] # None /\ certificate[c].type # "ROOT_CA"
        /\ certificate'[c] = certificate[c]
    BY <1>1, <1>2, <2>1, <2>2 DEF Ascends
  <2>4. certificate'[certificate[c].signatory] = certificate[certificate[c].signatory]
    BY <2>3, SignatoryStored DEF Grows
  <2>5. QED
    BY <2>1, <2>3, <2>4 DEF AtTheTop
<1>7. QED
  BY <1>3, <1>4, <1>5, <1>6

(* Who does not move keeps what it knows. *)
LEMMA StandingKnows ==
    ASSUME IInv, NEW r \in Request, Knows(r), Grows,
           pc'[r] = pc[r] \/ pc'[r] = "crashed" \/ (pc'[r] = "done" /\ pc[r] = "logListed"),
           body'[r] = body[r], read'[r] = read[r], response'[r] = response[r]
    PROVE  Knows(r)'
<1>1. /\ AllMine(r)'
      /\ MayHaveKey(r) => MayHaveKey(r)'
      /\ Ascends(r) => Ascends(r)'
      /\ Ascends(r) /\ AtTheTop(r) => AtTheTop(r)'
  BY ReadStays
<1>2. /\ certificate[r] # None => certificate'[r] # None
      /\ Mine(r, r) => Mine(r, r)'
  BY DEF Grows, Mine, Stored, AccountOfRequest
<1>3. HasRead(r)' => HasRead(r)
  BY DEF HasRead, Succeeded
<1>4. Succeeded(r)' => AnswerOK(r)'
  BY <1>2 DEF Knows, AnswerOK, Succeeded
<1>5. body[r] # None /\ body[r].op = "privateKey" => KeyOK(r)'
  BY <1>1, <1>3 DEF Knows, KeyOK
<1>6. body[r] # None /\ body[r].op = "fullchain" =>
         Ascends(r)' /\ (HasRead(r)' => AtTheTop(r)')
  BY <1>1, <1>3 DEF Knows
<1>7. QED
  BY <1>1, <1>2, <1>4, <1>5, <1>6 DEF Knows

(* Statements that neither read certificates nor follow one that did *)
Plain == {"findUser", "findSignatory", "findSigningKeys", "insertKeyPair",
          "insertCertificate", "commit", "findCertificates"}

(* A request that moves between such statements, or fails, has no success. *)
LEMMA MovingKnows ==
    ASSUME IInv, NEW r \in Request, Knows(r), Grows, pc[r] \in Statement \ {"logListed"},
           NEW next \in SUBSET Plain, Moves(r, next, ErrorStatus),
           body'[r] = body[r], read'[r] = read[r]
    PROVE  Knows(r)'
<1>1. /\ AllMine(r)'
      /\ Ascends(r) => Ascends(r)'
  BY ReadStays
<1>2. ~Succeeded(r)
  BY DEF Knows, AnswerOK, Statement
<1>3. pc'[r] \in Plain \cup {"done"} /\ ~Succeeded(r)'
  <2>1. CASE \E n \in next : Goto(r, n)
    BY <1>2, <2>1 DEF Goto, Succeeded, IInv, TypeOK
  <2>2. CASE \E e \in ErrorStatus : Fail(r, e)
    <3>1. PICK e \in ErrorStatus : Fail(r, e)
      BY <2>2
    <3>2. pc'[r] = "done" /\ response'[r] = [status |-> e]
      BY <3>1 DEF Fail, Answer, IInv, TypeOK
    <3>3. e # 200
      BY DEF ErrorStatus
    <3>4. QED
      BY <3>2, <3>3 DEF Succeeded
  <2>3. QED
    BY <2>1, <2>2 DEF Moves
<1>4. body[r] # None /\ body[r].op = "privateKey" => KeyOK(r)'
  BY <1>3 DEF KeyOK, HasRead, Plain
<1>5. QED
  BY <1>1, <1>3, <1>4 DEF Knows, HasRead, Plain

(* A request that arrives has read nothing. *)
LEMMA ReceiveKnows ==
    ASSUME IInv, NEW r \in Request, Knows(r), Receive(r)
    PROVE  Knows(r)'
<1>1. pc[r] = "idle" /\ read[r] = <<>> /\ response[r] = None /\ read' = read
  BY DEF Receive, Knows
<1>2. PICK b \in Sends[r] :
        /\ body' = [body EXCEPT ![r] = b]
        /\ \/ Goto(r, "findUser") \/ Goto(r, "findCertificates")
           \/ /\ Goto(r, "findCertificate")
              /\ b.op = "privateKey" => RoleOf[b.user] = "ADMIN"
           \/ \E e \in ErrorStatus : Fail(r, e)
  <2>1. 400 \in ErrorStatus /\ 403 \in ErrorStatus
    BY DEF ErrorStatus
  <2>2. QED
    BY <2>1 DEF Receive
<1>3. body'[r] = b
  BY <1>2 DEF IInv, TypeOK
<1>4. /\ ~Succeeded(r)'
      /\ pc'[r] \in {"findUser", "findCertificates", "findCertificate", "done"}
      /\ pc'[r] = "findCertificate" /\ b.op = "privateKey" => RoleOf[b.user] = "ADMIN"
  <2>1. CASE \E e \in ErrorStatus : Fail(r, e)
    <3>1. PICK e \in ErrorStatus : Fail(r, e)
      BY <2>1
    <3>2. pc'[r] = "done" /\ response'[r] = [status |-> e]
      BY <3>1 DEF Fail, Answer, IInv, TypeOK
    <3>3. e # 200
      BY DEF ErrorStatus
    <3>4. QED
      BY <3>2, <3>3 DEF Succeeded
  <2>2. CASE ~\E e \in ErrorStatus : Fail(r, e)
    BY <1>1, <1>2, <2>2 DEF Goto, IInv, TypeOK, Succeeded
  <2>3. QED
    BY <2>1, <2>2
<1>5. AllMine(r)' /\ Ascends(r)'
  BY <1>1 DEF AllMine, Ascends
<1>6. KeyOK(r)' \/ b.op # "privateKey"
  BY <1>1, <1>3, <1>4 DEF KeyOK, HasRead
<1>7. QED
  BY <1>3, <1>4, <1>5, <1>6 DEF Knows, HasRead

(* The create steps up to the commit *)
LEMMA CreatingKnows ==
    ASSUME IInv, NEW r \in Request, Knows(r), Grows,
           \/ FindUser(r) \/ FindSignatory(r) \/ FindSigningKeys(r)
           \/ InsertKeyPair(r) \/ InsertCertificate(r)
    PROVE  Knows(r)'
<1>1. /\ \A a : AccountAccess(body[r].user, a) \in {200, 401, 403}
      /\ FindByCertificateID(body[r].signatory) \subseteq Request
  BY AccessTypes DEF FindByCertificateID
<1>2. /\ pc[r] \in Statement \ {"logListed"}
      /\ UNCHANGED <<body, read>>
      /\ Moves(r, Plain, ErrorStatus)
  <2>1. CASE FindUser(r)
    BY <2>1 DEF FindUser, CreateStatus, Moves, ErrorStatus, Plain, Statement
  <2>2. CASE FindSignatory(r)
    BY <1>1, <2>2 DEF FindSignatory, Moves, ErrorStatus, Plain, Statement
  <2>3. CASE FindSigningKeys(r)
    BY <1>1, <2>3 DEF FindSigningKeys, Moves, ErrorStatus, Plain, Statement
  <2>4. CASE InsertKeyPair(r)
    BY <2>4 DEF InsertKeyPair, Moves, ErrorStatus, Plain, Statement
  <2>5. CASE InsertCertificate(r)
    BY <2>5 DEF InsertCertificate, Moves, ErrorStatus, Plain, Statement
  <2>6. QED
    BY <2>1, <2>2, <2>3, <2>4, <2>5
<1>3. QED
  BY <1>2, MovingKnows

(* A statement that fails *)
LEMMA FailingKnows ==
    ASSUME IInv, NEW r \in Request, Knows(r), Grows, StatementFails(r)
    PROVE  Knows(r)'
<1>1. /\ pc[r] \in Statement \ {"logListed"} /\ UNCHANGED <<body, read>>
      /\ Moves(r, {}, ErrorStatus)
  BY DEF StatementFails, Moves, ErrorStatus
<1>2. QED
  BY <1>1, MovingKnows

(* A create that committed knows its row, and answers with it. *)
LEMMA CommittingKnows ==
    ASSUME IInv, NEW r \in Request, Knows(r), Grows,
           Commit(r) \/ LogCertificate(r) \/ LogKeyPair(r)
    PROVE  Knows(r)'
<1>1. /\ pc[r] \in {"commit", "logCertificate", "logKeyPair"}
      /\ UNCHANGED <<body, read>>
  BY DEF Commit, LogCertificate, LogKeyPair
<1>2. body[r].op = "create" /\ ~Succeeded(r)
  BY <1>1 DEF IInv, CreateOK, CreateStatement, Knows, AnswerOK
<1>3. AllMine(r)'
  BY <1>1, ReadStays
<1>4. /\ pc'[r] \in {"logCertificate", "logKeyPair", "done"}
      /\ pc'[r] # "done" => certificate'[r] # None
      /\ Succeeded(r)' => AnswerOK(r)'
  <2>1. CASE Commit(r)
    <3>1. pc'[r] \in {"logCertificate", "done"} /\ certificate'[r] # None
      BY <2>1, CommitEffect
    <3>2. response'[r] = response[r] \/ response'[r].status = 500
      BY <2>1 DEF Commit, Goto, Fail, Answer, IInv, TypeOK
    <3>3. QED
      BY <1>2, <3>1, <3>2 DEF Succeeded
  <2>2. CASE LogCertificate(r)
    <3>1. pc'[r] = "logKeyPair" /\ response' = response
      BY <2>2 DEF LogCertificate, Goto, IInv, TypeOK
    <3>2. certificate'[r] # None
      BY <1>1, <2>2 DEF LogCertificate, Knows, tables
    <3>3. QED
      BY <1>2, <3>1, <3>2 DEF Succeeded
  <2>3. CASE LogKeyPair(r)
    <3>1. /\ pc[r] = "logKeyPair" /\ pc'[r] = "done" /\ certificate' = certificate
          /\ response'[r] = Success(<<r>>)
      BY <2>3 DEF LogKeyPair, Answer, IInv, TypeOK, tables
    <3>2. Mine(r, r)'
      BY <1>1, <3>1, RowFields DEF Knows, Mine, Stored, AccountOfRequest
    <3>3. QED
      BY <1>1, <1>2, <3>1, <3>2 DEF AnswerOK, Success
  <2>4. QED
    BY <2>1, <2>2, <2>3
<1>5. QED
  BY <1>1, <1>2, <1>3, <1>4 DEF Knows

-----------------------------------------------------------------------------
(* Reads *)

(* A certificate that is appended continues the way up. *)
LEMMA AppendAscends ==
    ASSUME IInv, NEW r \in Request, Knows(r), NEW c \in Request,
           Mine(r, c), c = Cursor(r),
           read' = [read EXCEPT ![r] = Append(read[r], c)],
           UNCHANGED <<certificate, body>>
    PROVE  /\ AllMine(r)'
           /\ read[r] = <<>> => read'[r] = <<c>>
           /\ Ascends(r) /\ certificate[c].type # "ROOT_CA" => Ascends(r)'
<1> DEFINE old == read[r]
           new == Append(old, c)
<1>1. old \in Seq(Request) /\ read'[r] = new /\ Len(old) \in Nat
  BY DEF IInv, TypeOK
<1>2. /\ Len(new) = Len(old) + 1 /\ DOMAIN new = 1..Len(new) /\ new[Len(new)] = c
      /\ \A i \in 1..Len(old) : new[i] = old[i]
      /\ DOMAIN old = 1..Len(old)
  BY <1>1, AppendProperties
<1>3. \A i \in DOMAIN new : i \in DOMAIN old \/ i = Len(new)
  BY <1>1, <1>2
<1>4. AllMine(r)'
  <2>1. \A i \in DOMAIN new : Mine(r, new[i])
    BY <1>2, <1>3 DEF Knows, AllMine
  <2> HIDE DEF new
  <2>2. QED
    BY <1>1, <2>1 DEF AllMine, Mine, Stored, AccountOfRequest
<1>5. old = <<>> => new = <<c>>
  OBVIOUS
<1>6. ASSUME Ascends(r), certificate[c].type # "ROOT_CA" PROVE Ascends(r)'
  <2>1. new[1] = body[r].cert
    <3>1. CASE old = <<>>
      BY <1>5, <3>1 DEF Cursor
    <3>2. CASE old # <<>>
      <4>1. Len(old) > 0
        BY <1>1, <3>2, EmptySeq
      <4>2. QED
        BY <1>1, <1>2, <1>6, <3>2, <4>1 DEF Ascends
    <3>3. QED
      BY <3>1, <3>2
  <2>2. \A i \in DOMAIN new : certificate[new[i]].type # "ROOT_CA"
    BY <1>2, <1>3, <1>6 DEF Ascends
  <2>3. ASSUME NEW i \in 1..Len(new) - 1 PROVE certificate[new[i]].signatory = new[i + 1]
    <3>1. CASE i \in 1..Len(old) - 1
      BY <1>1, <1>2, <1>6, <3>1 DEF Ascends
    <3>2. CASE i = Len(old)
      <4>1. old # <<>> /\ Last(old) = new[i] /\ new[i + 1] = c
        BY <1>1, <1>2, <2>3, <3>2 DEF Last
      <4>2. QED
        BY <4>1 DEF Cursor
    <3>3. QED
      BY <1>1, <1>2, <2>3, <3>1, <3>2
  <2> HIDE DEF new
  <2>4. QED
    BY <1>1, <2>1, <2>2, <2>3 DEF Ascends
<1>7. QED
  BY <1>1, <1>4, <1>5, <1>6

(* The certificates read belong to the account, and a chain climbs to a root. *)
LEMMA FindCertificateKnows ==
    ASSUME IInv, NEW r \in Request, Knows(r), Grows, FindCertificate(r)
    PROVE  Knows(r)'
<1> DEFINE c == Cursor(r)
           access == AccountAccess(body[r].user, certificate[c].account)
           op == body[r].op
<1>1. /\ pc[r] = "findCertificate" /\ body[r] # None
      /\ op \in {"get", "body", "fullchain", "privateKey"}
      /\ UNCHANGED <<certificate, key_pair, body>>
      /\ access \in {200, 401, 403} /\ ~Succeeded(r)
  BY AccessTypes DEF FindCertificate, IInv, ReadOK, tables, Knows, AnswerOK
<1>2. CASE (~Stored(c) \/ access # 200)
  <2>1. Moves(r, {}, ErrorStatus) /\ read' = read
    BY <1>1, <1>2 DEF FindCertificate, Moves, ErrorStatus
  <2>2. QED
    BY <1>1, <2>1, MovingKnows DEF Statement
<1>3. CASE Stored(c) /\ access = 200 /\ op = "fullchain" /\ EndsChain(c)
  <2>1. read' = read /\ IF read[r] = <<>> THEN Fail(r, 400) ELSE Goto(r, "logRead")
    BY <1>3 DEF FindCertificate
  <2>2. CASE read[r] = <<>>
    <3>1. Moves(r, {}, ErrorStatus)
      BY <2>1, <2>2 DEF Moves, ErrorStatus
    <3>2. QED
      BY <1>1, <2>1, <3>1, MovingKnows DEF Statement
  <2>3. CASE read[r] # <<>>
    <3>1. pc'[r] = "logRead" /\ response' = response
      BY <2>1, <2>3 DEF Goto, IInv, TypeOK
    <3>2. AtTheTop(r) /\ Ascends(r)
      BY <1>1, <1>3, <2>3 DEF AtTheTop, EndsChain, Cursor, Knows
    <3>3. AllMine(r)' /\ Ascends(r)' /\ AtTheTop(r)'
      BY <1>1, <2>1, <3>2, ReadStays
    <3>4. QED
      BY <1>1, <1>3, <3>1, <3>3 DEF Knows, Succeeded
  <2>4. QED
    BY <2>2, <2>3
<1>4. CASE Stored(c) /\ access = 200 /\ ~(op = "fullchain" /\ EndsChain(c))
  <2> DEFINE Climb == certificate[c].signatory # None
  <2>1. /\ read' = [read EXCEPT ![r] = Append(read[r], c)]
        /\ Goto(r, IF op = "fullchain" /\ Climb THEN "findCertificate"
                   ELSE IF op = "privateKey" THEN "findKeyPair"
                   ELSE "logRead")
    BY <1>4 DEF FindCertificate
  <2>2. c \in Request /\ certificate[c] # None /\ Mine(r, c)
    BY <1>4, AccessTypes DEF Stored, Mine, AccountOfRequest
  <2>3. /\ AllMine(r)'
        /\ read[r] = <<>> => read'[r] = <<c>>
        /\ Ascends(r) /\ certificate[c].type # "ROOT_CA" => Ascends(r)'
    <3>1. PICK x \in Request : x = c
      BY <2>2
    <3>2. /\ Mine(r, x) /\ x = Cursor(r)
          /\ read' = [read EXCEPT ![r] = Append(read[r], x)]
          /\ UNCHANGED <<certificate, body>>
      BY <1>1, <2>1, <2>2, <3>1
    <3>3. /\ AllMine(r)'
          /\ read[r] = <<>> => read'[r] = <<x>>
          /\ Ascends(r) /\ certificate[x].type # "ROOT_CA" => Ascends(r)'
      <4> HIDE DEF c
      <4>1. QED
        BY <3>2, AppendAscends
    <3>4. QED
      BY <3>1, <3>3
  <2>4. /\ ~Succeeded(r)'
        /\ pc'[r] = IF op = "fullchain" /\ Climb THEN "findCertificate"
                    ELSE IF op = "privateKey" THEN "findKeyPair"
                    ELSE "logRead"
    <3> DEFINE n == IF op = "fullchain" /\ Climb THEN "findCertificate"
                    ELSE IF op = "privateKey" THEN "findKeyPair"
                    ELSE "logRead"
    <3>1. Goto(r, n)
      BY <2>1
    <3> HIDE DEF n
    <3>2. pc'[r] = n /\ response' = response
      BY <3>1 DEF Goto, IInv, TypeOK
    <3>3. QED
      BY <1>1, <3>2 DEF n, Succeeded
  <2>5. CASE op = "fullchain"
    <3>1. certificate[c].type # "ROOT_CA"
      BY <1>4, <2>5 DEF EndsChain
    <3>2. Climb
      BY <2>2, <3>1, SignatoryStored, NotNone
    <3>3. pc'[r] = "findCertificate" /\ Ascends(r)'
      BY <1>1, <2>3, <2>4, <2>5, <3>1, <3>2 DEF Knows
    <3>4. QED
      BY <1>1, <2>3, <2>4, <2>5, <3>3 DEF Knows, HasRead
  <2>6. CASE op = "privateKey"
    <3>1. /\ read[r] = <<>> /\ RoleOf[body[r].user] = "ADMIN"
          /\ pc'[r] = "findKeyPair"
      BY <1>1, <2>4, <2>6 DEF Knows, KeyOK
    <3>2. read'[r] = <<body[r].cert>>
      BY <2>3, <3>1 DEF Cursor
    <3>3. KeyOK(r)'
      BY <1>1, <2>4, <3>1, <3>2 DEF KeyOK, HasRead
    <3>4. QED
      BY <1>1, <2>3, <2>4, <2>6, <3>1, <3>3 DEF Knows
  <2>7. CASE op \in {"get", "body"}
    BY <1>1, <2>3, <2>4, <2>7 DEF Knows
  <2>8. QED
    BY <1>1, <2>5, <2>6, <2>7
<1>5. QED
  BY <1>2, <1>3, <1>4

(* The key pair of a stored certificate is its own. *)
LEMMA OwnKeyPair ==
    ASSUME IInv, NEW c, NEW k \in FindByCertificateID(c)
    PROVE  k = c /\ c \in Request /\ certificate[c] # None
BY RowFields DEF FindByCertificateID, Stored

(* A private key goes to an ADMIN who knows its password. *)
LEMMA FindKeyPairKnows ==
    ASSUME IInv, NEW r \in Request, Knows(r), Grows, FindKeyPair(r)
    PROVE  Knows(r)'
<1>1. /\ pc[r] = "findKeyPair" /\ body[r] # None /\ body[r].op = "privateKey"
      /\ UNCHANGED <<certificate, key_pair, body, read>> /\ ~Succeeded(r)
  BY DEF FindKeyPair, IInv, ReadOK, tables, Knows, AnswerOK
<1>2. FindByCertificateID(body[r].cert) \subseteq Request
  BY DEF FindByCertificateID
<1>3. CASE Moves(r, {}, ErrorStatus)
  BY <1>1, <1>3, MovingKnows DEF Statement
<1>4. CASE ~Moves(r, {}, ErrorStatus)
  <2>1. \A e \in ErrorStatus : ~Fail(r, e)
    BY <1>4 DEF Moves
  <2>2. PICK k \in FindByCertificateID(body[r].cert) :
          key_pair[k].password = body[r].secret /\ Goto(r, "logRead")
    <3>1. \A k : AccountAccess(body[r].user, key_pair[k].account) \in {200, 401, 403}
      BY AccessTypes
    <3>2. QED
      BY <2>1, <3>1 DEF FindKeyPair, ErrorStatus
  <2>3. key_pair[body[r].cert].password = body[r].secret
    BY <2>2, OwnKeyPair
  <2>4. pc'[r] = "logRead" /\ response' = response
    BY <2>2 DEF Goto, IInv, TypeOK
  <2>5. MayHaveKey(r)
    BY <1>1, <2>3 DEF Knows, KeyOK, MayHaveKey
  <2>6. MayHaveKey(r)' /\ AllMine(r)'
    BY <1>1, <2>5, ReadStays
  <2>7. QED
    BY <1>1, <2>4, <2>6 DEF Knows, KeyOK, HasRead, Succeeded
<1>5. QED
  BY <1>3, <1>4

(* What is answered after the last event is what was read. *)
LEMMA LogReadKnows ==
    ASSUME IInv, NEW r \in Request, Knows(r), Grows, LogRead(r)
    PROVE  Knows(r)'
<1>1. /\ pc[r] = "logRead" /\ body[r] # None /\ body[r].op # "create"
      /\ UNCHANGED <<body, read>> /\ HasRead(r)
  BY DEF LogRead, IInv, ReadOK, HasRead
<1>2. CASE ~AllLogged(r)
  <2>1. pc'[r] = pc[r] /\ response'[r] = response[r]
    BY <1>1, <1>2 DEF LogRead, Goto, IInv, TypeOK
  <2>2. QED
    BY <1>1, <2>1, StandingKnows
<1>3. CASE AllLogged(r)
  <2>1. pc'[r] = "done" /\ response'[r] = Success(read[r])
    BY <1>3 DEF LogRead, Answer, IInv, TypeOK
  <2>2. /\ AllMine(r)'
        /\ body[r].op = "privateKey" => MayHaveKey(r)'
        /\ body[r].op = "fullchain" => Ascends(r)' /\ AtTheTop(r)'
    BY <1>1, ReadStays DEF Knows, KeyOK
  <2>3. AnswerOK(r)'
    BY <1>1, <2>1 DEF AnswerOK, Success
  <2>4. QED
    BY <1>1, <2>1, <2>2, <2>3 DEF Knows, KeyOK
<1>4. QED
  BY <1>2, <1>3

(* A list has the certificates of its account only, which is the user's. *)
LEMMA FindCertificatesKnows ==
    ASSUME IInv, NEW r \in Request, Knows(r), Grows, FindCertificates(r)
    PROVE  Knows(r)'
<1> DEFINE rows == FindByAccountIDAndTypes(body[r].account, body[r].types)
           access == AccountAccess(body[r].user, body[r].account)
           Lists(page) ==
             /\ read' = [read EXCEPT ![r] = page]
             /\ response' = [response EXCEPT ![r] = Success(page)]
             /\ pc' = [pc EXCEPT ![r] = IF page = <<>> THEN "done" ELSE "logListed"]
<1>1. /\ pc[r] = "findCertificates" /\ body[r] # None /\ body[r].op = "list"
      /\ UNCHANGED <<certificate, body>> /\ access \in {200, 401, 403}
  BY AccessTypes DEF FindCertificates, IInv, ReadOK, tables
<1>2. CASE access # 200
  <2>1. Moves(r, {}, ErrorStatus) /\ read' = read
    BY <1>1, <1>2 DEF FindCertificates, Moves, ErrorStatus
  <2>2. QED
    BY <1>1, <2>1, MovingKnows DEF Statement
<1>3. CASE access = 200
  <2>1. PICK certs \in mapRowsToCertificates(rows) : \E page \in SetToSeqs(certs) : Lists(page)
    BY <1>3 DEF FindCertificates
  <2>2. PICK page \in SetToSeqs(certs) : Lists(page)
    BY <2>1
  <2>3. \A i \in DOMAIN page : page[i] \in rows
    <3>1. certs \subseteq rows
      BY DEF mapRowsToCertificates
    <3>2. \A i \in DOMAIN page : page[i] \in certs
      BY DEF SetToSeqs
    <3>3. QED
      BY <3>1, <3>2
  <2>4. /\ read'[r] = page /\ response'[r] = Success(page)
        /\ pc'[r] \in {"done", "logListed"}
    BY <2>2 DEF IInv, TypeOK
  <2>5. AllMine(r)'
    <3>1. \A i \in DOMAIN page : Mine(r, page[i])
      BY <1>3, <2>3, AccessTypes DEF FindByAccountIDAndTypes, Mine, AccountOfRequest
    <3>2. QED
      BY <1>1, <2>4, <3>1 DEF AllMine, Mine, Stored, AccountOfRequest
  <2>6. AnswerOK(r)'
    BY <1>1, <2>4 DEF AnswerOK, Success
  <2>7. QED
    BY <1>1, <2>4, <2>5, <2>6 DEF Knows
<1>4. QED
  BY <1>2, <1>3

(* Every step keeps what every request knows. *)
LEMMA KnowsKept ==
    ASSUME IInv, RInv, Next, Grows
    PROVE  \A q \in Request : Knows(q)'
<1>1. PICK r \in Request : Receive(r) \/ Handle(r) \/ Crash(r)
  BY DEF Next
<1>2. TypeOK /\ Knows(r)
  BY DEF IInv, RInv
<1>3. ASSUME NEW q \in Request, q # r PROVE Knows(q)'
  <2>1. pc'[q] = pc[q] /\ response'[q] = response[q]
    BY <1>1, <1>2, <1>3 DEF TypeOK, Receive, Handle, Execute, Crash, StatementFails, FindUser,
          FindSignatory, FindSigningKeys, InsertKeyPair, InsertCertificate, Commit,
          LogCertificate, LogKeyPair, FindCertificate, FindKeyPair, LogRead,
          FindCertificates, LogListed, Goto, Fail, Answer
  <2>2. body'[q] = body[q]
    BY <1>1, <1>2, <1>3 DEF TypeOK, Receive, Handle, Execute, Crash, StatementFails, FindUser,
          FindSignatory, FindSigningKeys, InsertKeyPair, InsertCertificate, Commit,
          LogCertificate, LogKeyPair, FindCertificate, FindKeyPair, LogRead,
          FindCertificates, LogListed
  <2>3. read'[q] = read[q]
    BY <1>1, <1>2, <1>3 DEF TypeOK, Receive, Handle, Execute, Crash, StatementFails, FindUser,
          FindSignatory, FindSigningKeys, InsertKeyPair, InsertCertificate, Commit,
          LogCertificate, LogKeyPair, FindCertificate, FindKeyPair, LogRead,
          FindCertificates, LogListed
  <2>4. Knows(q)
    BY DEF RInv
  <2>5. QED
    BY <2>1, <2>2, <2>3, <2>4, StandingKnows
<1>4. Knows(r)'
  <2>1. CASE Receive(r)
    BY <1>2, <2>1, ReceiveKnows
  <2>2. CASE Crash(r)
    <3>1. pc'[r] = "crashed" /\ body' = body /\ read' = read /\ response' = response
      BY <1>2, <2>2 DEF Crash, TypeOK
    <3>2. QED
      BY <1>2, <3>1, StandingKnows
  <2>3. CASE LogListed(r)
    <3>1. /\ pc[r] = "logListed" /\ pc'[r] \in {"logListed", "done"}
          /\ body' = body /\ read' = read /\ response' = response
      BY <1>2, <2>3 DEF LogListed, Goto, TypeOK
    <3>2. QED
      BY <1>2, <3>1, StandingKnows
  <2>4. QED
    BY <1>1, <1>2, <2>1, <2>2, <2>3, CreatingKnows, FailingKnows, CommittingKnows,
       FindCertificateKnows, FindKeyPairKnows, LogReadKnows, FindCertificatesKnows
       DEF Handle, Execute
<1>5. QED
  BY <1>3, <1>4

-----------------------------------------------------------------------------
(* The audit log *)

(* What was told stays true. *)
LEMMA ToldStays ==
    ASSUME IInv, Grows, NEW e \in Event, Told(e)
    PROVE  Told(e)'
<1> DEFINE c == e.resource[2]
<1>1. e.id \in Request /\ body'[e.id] = body[e.id]
  BY DEF Told, Grows, Event
<1>2. certificate'[c] = certificate[c] /\ key_pair'[c] = key_pair[c]
  BY DEF Told, Stored, Grows
<1>3. QED
  BY <1>1, <1>2 DEF Told, Stored

(* The events of a create are about its own row. *)
LEMMA CreateTold ==
    ASSUME IInv, NEW r \in Request, pc[r] \in {"logCertificate", "logKeyPair"},
           certificate[r] # None, NEW kind \in {"certificate", "key-pair"}
    PROVE  Told([id |-> r, userId |-> body[r].user, activity |-> "CREATE",
                 resource |-> <<kind, r>>])
<1>1. body[r] \in Body /\ body[r] # None
  BY BodyKnown, BodyFields
<1>2. certificate[r].account = AccountOf[body[r].user]
  BY RowFields DEF AccountOfRequest
<1>3. QED
  BY <1>1, <1>2 DEF Told, Stored

(* The events of a read are about what was read. *)
LEMMA ReadTold ==
    ASSUME IInv, NEW r \in Request, Knows(r), pc[r] \in {"logRead", "logListed"}
    PROVE  Told([id |-> r, userId |-> body[r].user, activity |-> "READ",
                 resource |-> <<Resource(body[r].op), read[r][logged[r] + 1]>>])
<1> DEFINE c == read[r][logged[r] + 1]
<1>1. body[r] \in Body /\ body[r] # None /\ body[r].op # "create"
  BY BodyKnown, BodyFields DEF IInv, ReadOK
<1>2. logged[r] + 1 \in DOMAIN read[r]
  <2>1. read[r] \in Seq(Request) /\ logged[r] \in Nat /\ logged[r] < Len(read[r])
    BY DEF IInv, ReadOK, TypeOK
  <2>2. QED
    BY <2>1
<1>3. c \in Request /\ certificate[c] # None /\ certificate[c].account = AccountOfRequest(r)
  BY <1>2 DEF Knows, AllMine, Mine, Stored
<1>4. c # r
  BY <1>1, <1>3 DEF IInv, RowOK
<1>5. Resource(body[r].op) = "private-key" =>
        RoleOf[body[r].user] = "ADMIN" /\ key_pair[c].password = body[r].secret
  <2>1. SUFFICES ASSUME Resource(body[r].op) = "private-key"
                 PROVE  RoleOf[body[r].user] = "ADMIN" /\ key_pair[c].password = body[r].secret
    OBVIOUS
  <2>2. body[r].op = "privateKey"
    BY <1>1, <2>1, BodyFields DEF Resource
  <2>3. pc[r] = "logRead"
    BY <2>2 DEF Knows
  <2>4. MayHaveKey(r)
    BY <1>1, <2>2, <2>3 DEF Knows, KeyOK, HasRead
  <2>5. c = body[r].cert
    BY <1>2, <2>4 DEF MayHaveKey
  <2>6. QED
    BY <2>4, <2>5 DEF MayHaveKey
<1>6. QED
  BY <1>1, <1>3, <1>4, <1>5 DEF Told, Stored, AccountOfRequest

(* Every step keeps the audit log true. *)
LEMMA ToldKept ==
    ASSUME IInv, RInv, Next, Grows
    PROVE  \A e \in audit_log' : Told(e)'
<1>1. PICK r \in Request : Receive(r) \/ Handle(r) \/ Crash(r)
  BY DEF Next
<1>2. Knows(r) /\ audit_log \subseteq Event /\ \A e \in audit_log : Told(e)
  BY DEF IInv, TypeOK, RInv
<1>3. \A e \in audit_log : Told(e)'
  BY <1>2, ToldStays
<1> DEFINE new(activity, resource) ==
             [id |-> r, userId |-> body[r].user, activity |-> activity, resource |-> resource]
<1>4. ASSUME NEW x \in audit_log' \ audit_log PROVE Told(x)
  <2>1. CASE LogCertificate(r)
    <3>1. x = new("CREATE", <<"certificate", r>>)
      BY <1>4, <2>1 DEF LogCertificate, Audit
    <3>2. pc[r] = "logCertificate" /\ certificate[r] # None
      BY <1>2, <2>1 DEF LogCertificate, Knows
    <3>3. QED
      BY <3>1, <3>2, CreateTold
  <2>2. CASE LogKeyPair(r)
    <3>1. x = new("CREATE", <<"key-pair", r>>)
      BY <1>4, <2>2 DEF LogKeyPair, Audit
    <3>2. pc[r] = "logKeyPair" /\ certificate[r] # None
      BY <1>2, <2>2 DEF LogKeyPair, Knows
    <3>3. QED
      BY <3>1, <3>2, CreateTold
  <2>3. CASE LogRead(r) \/ LogListed(r)
    <3>1. x = new("READ", <<Resource(body[r].op), read[r][logged[r] + 1]>>)
      BY <1>4, <2>3 DEF LogRead, LogListed, LogNext, Audit
    <3>2. pc[r] \in {"logRead", "logListed"}
      BY <2>3 DEF LogRead, LogListed
    <3>3. QED
      BY <1>2, <3>1, <3>2, ReadTold
  <2>4. CASE ~(LogCertificate(r) \/ LogKeyPair(r) \/ LogRead(r) \/ LogListed(r))
    <3>1. audit_log' = audit_log
      BY <1>1, <2>4 DEF Receive, Handle, Execute, Crash, StatementFails, FindUser,
            FindSignatory, FindSigningKeys, InsertKeyPair, InsertCertificate, Commit,
            FindCertificate, FindKeyPair, FindCertificates
    <3>2. QED
      BY <1>4, <3>1
  <2>5. QED
    BY <2>1, <2>2, <2>3, <2>4
<1>5. \A x \in audit_log' : x \in Event
  BY Inductive DEF IInv, TypeOK
<1>6. QED
  BY <1>3, <1>4, <1>5, ToldStays

-----------------------------------------------------------------------------
(* The theorems *)

(* The invariant is inductive, next to IInv. *)
LEMMA ReadsInductive == IInv /\ RInv /\ [Next]_vars => RInv'
<1> SUFFICES ASSUME IInv, RInv, [Next]_vars PROVE RInv'
  OBVIOUS
<1>1. CASE Next
  <2>1. Grows
    BY <1>1, AlwaysGrows
  <2>2. (\A r \in Request : Knows(r)') /\ (\A e \in audit_log' : Told(e)')
    BY <1>1, <2>1, KnowsKept, ToldKept
  <2>3. Together'
    <3>1. CASE \E r \in Request : Commit(r)
      BY <3>1, CommitEffect DEF RInv, Together
    <3>2. CASE \E r \in Request : Local(r)
      BY <3>2 DEF Local, tables, RInv, Together
    <3>3. QED
      BY <1>1, <3>1, <3>2, StepKinds DEF vars, RInv, Together
  <2>4. QED
    BY <2>2, <2>3 DEF RInv
<1>2. CASE UNCHANGED vars
  <2>1. /\ certificate' = certificate /\ key_pair' = key_pair /\ audit_log' = audit_log
        /\ pc' = pc /\ body' = body /\ read' = read /\ response' = response
    BY <1>2 DEF vars
  <2>2. Grows
    BY <2>1 DEF Grows
  <2>3. \A r \in Request : Knows(r)'
    BY <2>1, <2>2, StandingKnows DEF RInv
  <2>4. \A e \in audit_log : Told(e)'
    BY <2>2, ToldStays DEF RInv, IInv, TypeOK
  <2>5. QED
    BY <2>1, <2>3, <2>4 DEF RInv, Together
<1>3. QED
  BY <1>1, <1>2

LEMMA ReadsInvariance == Spec => [](IInv /\ RInv)
BY InitIInv, InitRInv, Inductive, ReadsInductive, PTL DEF Spec

(* No answer carries a certificate of somebody else's account, and a private key is
   handed out only to an ADMIN who knows the password it was made with. *)
THEOREM AnswersStay == Spec => []AnswersStayInAccount
<1>1. IInv /\ RInv => AnswersStayInAccount
  <2> SUFFICES ASSUME IInv, RInv, NEW r \in Request, Succeeded(r)
               PROVE
                 /\ \A i \in DOMAIN response[r].certs : Mine(r, response[r].certs[i])
                 /\ body[r].op = "privateKey" =>
                      LET c == body[r].cert
                          k == certificate[c].keyPair
                      IN  /\ response[r].certs = <<c>>
                          /\ RoleOf[body[r].user] = "ADMIN"
                          /\ key_pair[k].account = AccountOfRequest(r)
                          /\ key_pair[k].password = body[k].password
                          /\ key_pair[k].password = body[r].secret
    BY DEF AnswersStayInAccount, Mine
  <2>1. Knows(r) /\ AnswerOK(r) /\ body[r] # None
    BY DEF RInv, Knows, AnswerOK, IInv, ReadOK
  <2>2. \A i \in DOMAIN response[r].certs : Mine(r, response[r].certs[i])
    <3>1. CASE body[r].op = "create"
      <4>1. \A i \in DOMAIN <<r>> : <<r>>[i] = r
        OBVIOUS
      <4>2. QED
        BY <2>1, <3>1, <4>1 DEF AnswerOK
    <3>2. CASE body[r].op # "create"
      BY <2>1, <3>2 DEF AnswerOK, Knows, AllMine
    <3>3. QED
      BY <3>1, <3>2
  <2>3. ASSUME body[r].op = "privateKey"
        PROVE  LET c == body[r].cert
                   k == certificate[c].keyPair
               IN  /\ response[r].certs = <<c>>
                   /\ RoleOf[body[r].user] = "ADMIN"
                   /\ key_pair[k].account = AccountOfRequest(r)
                   /\ key_pair[k].password = body[k].password
                   /\ key_pair[k].password = body[r].secret
    <3> DEFINE c == body[r].cert
    <3>1. MayHaveKey(r) /\ response[r].certs = <<c>>
      BY <2>1, <2>3 DEF Knows, KeyOK, HasRead, AnswerOK, MayHaveKey
    <3>2. Mine(r, c)
      <4>1. 1 \in DOMAIN <<c>> /\ <<c>>[1] = c
        OBVIOUS
      <4>2. QED
        BY <2>2, <3>1, <4>1
    <3>3. /\ certificate[c].keyPair = c /\ certificate[c].account = AccountOfRequest(c)
          /\ key_pair[c] = encryptKeys(c)
      BY <3>2, RowFields DEF Mine, Stored, IInv, RowOK
    <3>4. key_pair[c].account = AccountOfRequest(c) /\ key_pair[c].password = body[c].password
      BY <3>3 DEF encryptKeys
    <3>5. QED
      BY <3>1, <3>2, <3>3, <3>4 DEF Mine, MayHaveKey
  <2>4. QED
    BY <2>2, <2>3
<1>2. QED
  BY <1>1, ReadsInvariance, PTL

(* Whatever else is stored while the chain is read, it goes from the certificate asked
   for to right below a root without a gap. *)
THEOREM ChainsAreComplete == Spec => []FullChainIsComplete
<1>1. IInv /\ RInv => FullChainIsComplete
  <2> SUFFICES ASSUME IInv, RInv, NEW r \in Request, Succeeded(r), body[r].op = "fullchain"
               PROVE  LET chain == response[r].certs
                      IN  /\ chain # <<>> /\ chain[1] = body[r].cert
                          /\ \A i \in DOMAIN chain : certificate[chain[i]].type # "ROOT_CA"
                          /\ \A i \in 1..Len(chain) - 1 :
                                certificate[chain[i]].signatory = chain[i + 1]
                          /\ certificate[certificate[Last(chain)].signatory].type = "ROOT_CA"
    BY DEF FullChainIsComplete
  <2>1. Knows(r) /\ AnswerOK(r) /\ body[r] # None
    BY DEF RInv, Knows, AnswerOK, IInv, ReadOK
  <2>2. response[r].certs = read[r] /\ Ascends(r) /\ AtTheTop(r)
    BY <2>1 DEF AnswerOK, Knows, HasRead
  <2>3. QED
    BY <2>2 DEF Ascends, AtTheTop
<1>2. QED
  BY <1>1, ReadsInvariance, PTL

(* The audit log never tells of what did not happen. *)
THEOREM AuditIsTrue == Spec => []AuditTellsTheTruth
<1>1. RInv => AuditTellsTheTruth
  BY DEF RInv, Told, AuditTellsTheTruth
<1>2. QED
  BY <1>1, ReadsInvariance, PTL

-----------------------------------------------------------------------------
(* A healthy database: no statement fails, no reply and no event is lost. *)

(* The statements at which a request may have rows or events of its own *)
Logging == {"logCertificate", "logKeyPair", "logRead", "logListed"}

(* Request r has left nothing behind *)
NoTrace(r) ==
    /\ certificate[r] = None /\ key_pair[r] = None
    /\ \A e \in audit_log : e.id # r

LeavesNothing(r) ==
    /\ response[r] # None /\ response[r].status # 200 => pc[r] = "done"
    /\ pc[r] = "logListed" => Succeeded(r)
    /\ pc[r] \notin Logging \cup {"crashed"} /\ ~Succeeded(r) => NoTrace(r)

(* Why request r fails: for the name, the signatory, what it asks for, or a short key *)
NameHeld(r) ==
    \E s \in Request \ {r} :
        /\ certificate[s] # None
        /\ certificate[s].name = body[r].name
        /\ certificate[s].account = AccountOfRequest(r)

CannotSign(r) ==
    /\ body[r].type # "ROOT_CA"
    /\ body[r].signatory \in Request /\ certificate[body[r].signatory] # None
    /\ \/ key_pair[body[r].signatory].password # body[r].secret
       \/ key_pair[body[r].signatory].size = "short"

CannotBeHad(r) ==
    \/ body[r].name \in TooLong
    \/ body[r].type = "ROOT_CA" /\ body[r].signatory = Unknown
    \/ body[r].keySize = "unusable" \/ body[r].expiry = "beyond"

TooShort(r) ==
    /\ body[r].keySize = "short"
    /\ \/ body[r].type = "ROOT_CA"
       \/ \E k \in Request \ {r} : certificate[k] # None /\ key_pair[k].size = "short"

Cause(r) == NameHeld(r) \/ CannotSign(r) \/ CannotBeHad(r) \/ TooShort(r)

HasCause(r) ==
    /\ body[r] # None /\ body[r].op = "create" /\ body[r].signatory \in Request =>
         certificate[body[r].signatory] # None
    /\ response[r] # None /\ response[r].status = 500 => body[r] # None /\ Cause(r)

(* A log that has an event of request r *)
Has(log, r, activity, kind, c) ==
    \E e \in log : e.id = r /\ e.activity = activity /\ e.resource = <<kind, c>>

(* What request r has read up to the n-th certificate is in the audit log *)
ReadWritten(r, n) ==
    \A i \in 1..n : Has(audit_log, r, "READ", Resource(body[r].op), read[r][i])

WrittenDown(r) ==
    /\ pc[r] = "logKeyPair" => Has(audit_log, r, "CREATE", "certificate", r)
    /\ pc[r] = "logRead" => ReadWritten(r, logged[r])
    /\ Succeeded(r) /\ body[r].op = "create" =>
         /\ Has(audit_log, r, "CREATE", "certificate", r)
         /\ Has(audit_log, r, "CREATE", "key-pair", r)
    /\ Succeeded(r) /\ body[r].op \notin {"create", "list"} => ReadWritten(r, Len(read[r]))

Healthy(r) == LeavesNothing(r) /\ HasCause(r) /\ WrittenDown(r)

(* What a step of request r leaves alone: everything of the others, their events too *)
Apart(r) ==
    /\ \A q \in Request \ {r} :
         /\ pc'[q] = pc[q] /\ body'[q] = body[q] /\ response'[q] = response[q]
         /\ read'[q] = read[q] /\ logged'[q] = logged[q]
         /\ certificate'[q] = certificate[q] /\ key_pair'[q] = key_pair[q]
    /\ audit_log \subseteq audit_log'
    /\ \A e \in audit_log' \ audit_log : e.id = r

LEMMA StepsApart ==
    ASSUME IInv, NEW r \in Request, Receive(r) \/ Handle(r) \/ Crash(r)
    PROVE  Apart(r)
<1>0. TypeOK
  BY DEF IInv
<1>1. \A q \in Request \ {r} : pc'[q] = pc[q] /\ response'[q] = response[q]
  BY <1>0 DEF TypeOK, Receive, Handle, Execute, Crash, StatementFails, FindUser,
        FindSignatory, FindSigningKeys, InsertKeyPair, InsertCertificate, Commit,
        LogCertificate, LogKeyPair, FindCertificate, FindKeyPair, LogRead,
        FindCertificates, LogListed, Goto, Fail, Answer
<1>2. \A q \in Request \ {r} : body'[q] = body[q] /\ read'[q] = read[q]
  BY <1>0 DEF TypeOK, Receive, Handle, Execute, Crash, StatementFails, FindUser,
        FindSignatory, FindSigningKeys, InsertKeyPair, InsertCertificate, Commit,
        LogCertificate, LogKeyPair, FindCertificate, FindKeyPair, LogRead,
        FindCertificates, LogListed
<1>3. \A q \in Request \ {r} : logged'[q] = logged[q]
  BY <1>0 DEF TypeOK, Receive, Handle, Execute, Crash, StatementFails, FindUser,
        FindSignatory, FindSigningKeys, InsertKeyPair, InsertCertificate, Commit,
        LogCertificate, LogKeyPair, FindCertificate, FindKeyPair, LogRead,
        FindCertificates, LogListed, LogNext
<1>4. \A q \in Request \ {r} : certificate'[q] = certificate[q] /\ key_pair'[q] = key_pair[q]
  <2>1. CASE Commit(r)
    BY <2>1, CommitEffect
  <2>2. CASE ~Commit(r)
    BY <2>2 DEF Receive, Handle, Execute, Crash, StatementFails, FindUser, FindSignatory,
          FindSigningKeys, InsertKeyPair, InsertCertificate, LogCertificate, LogKeyPair,
          FindCertificate, FindKeyPair, LogRead, FindCertificates, LogListed, tables
  <2>3. QED
    BY <2>1, <2>2
<1>5. audit_log \subseteq audit_log' /\ \A e \in audit_log' \ audit_log : e.id = r
  <2>1. CASE LogCertificate(r) \/ LogKeyPair(r) \/ LogRead(r) \/ LogListed(r)
    <3>1. PICK activity, resource : Audit(r, activity, resource)
      BY <2>1 DEF LogCertificate, LogKeyPair, LogRead, LogListed, LogNext
    <3>2. QED
      BY <3>1 DEF Audit
  <2>2. CASE ~(LogCertificate(r) \/ LogKeyPair(r) \/ LogRead(r) \/ LogListed(r))
    BY <2>2 DEF Receive, Handle, Execute, Crash, StatementFails, FindUser, FindSignatory,
          FindSigningKeys, InsertKeyPair, InsertCertificate, Commit, FindCertificate,
          FindKeyPair, FindCertificates
  <2>3. QED
    BY <2>1, <2>2
<1>6. QED
  BY <1>1, <1>2, <1>3, <1>4, <1>5 DEF Apart

(* A cause stays a cause. *)
LEMMA CauseStays ==
    ASSUME IInv, Grows, NEW r \in Request, body[r] # None, Cause(r)
    PROVE  Cause(r)'
<1>1. body'[r] = body[r] /\ AccountOfRequest(r)' = AccountOfRequest(r)
  BY DEF Grows, AccountOfRequest
<1>2. NameHeld(r) => NameHeld(r)'
  BY <1>1 DEF NameHeld, Grows
<1>3. CannotSign(r) => CannotSign(r)'
  BY <1>1 DEF CannotSign, Grows
<1>4. CannotBeHad(r) => CannotBeHad(r)'
  BY <1>1 DEF CannotBeHad
<1>5. TooShort(r) => TooShort(r)'
  BY <1>1 DEF TooShort, Grows
<1>6. QED
  BY <1>2, <1>3, <1>4, <1>5 DEF Cause

(* What is in a log stays there when the log grows, and what is added is in it. *)
LEMMA HasGrows ==
    ASSUME NEW log, NEW longer, log \subseteq longer,
           NEW r, NEW activity, NEW kind, NEW c, Has(log, r, activity, kind, c)
    PROVE  Has(longer, r, activity, kind, c)
BY DEF Has

LEMMA HasAdded ==
    ASSUME NEW log, NEW r, NEW user, NEW activity, NEW kind, NEW c
    PROVE  Has(log \cup {[id |-> r, userId |-> user, activity |-> activity,
                          resource |-> <<kind, c>>]}, r, activity, kind, c)
<1> DEFINE e == [id |-> r, userId |-> user, activity |-> activity, resource |-> <<kind, c>>]
<1>1. e \in log \cup {e}
  OBVIOUS
<1>2. e.id = r /\ e.activity = activity /\ e.resource = <<kind, c>>
  OBVIOUS
<1> HIDE DEF e
<1>3. \E f \in log \cup {e} : f.id = r /\ f.activity = activity /\ f.resource = <<kind, c>>
  BY <1>1, <1>2
<1>4. QED
  BY <1>3 DEF Has, e

(* A step of another request leaves things as they are. *)
LEMMA HealthyApart ==
    ASSUME IInv, Grows, NEW r \in Request, NEW q \in Request \ {r}, Apart(r), Healthy(q)
    PROVE  Healthy(q)'
<1>1. /\ pc'[q] = pc[q] /\ body'[q] = body[q] /\ response'[q] = response[q]
      /\ read'[q] = read[q] /\ logged'[q] = logged[q]
      /\ certificate'[q] = certificate[q] /\ key_pair'[q] = key_pair[q]
      /\ audit_log \subseteq audit_log'
      /\ \A e \in audit_log' \ audit_log : e.id # q
  BY DEF Apart
<1>2. LeavesNothing(q)'
  BY <1>1 DEF Healthy, LeavesNothing, NoTrace, Succeeded
<1>3. HasCause(q)'
  <2>1. body[q] # None /\ body[q].op = "create" /\ body[q].signatory \in Request =>
          certificate'[body[q].signatory] # None
    BY DEF Healthy, HasCause, Grows
  <2>2. QED
    BY <1>1, <2>1, CauseStays DEF Healthy, HasCause
<1>4. WrittenDown(q)'
  <2>1. Succeeded(q)' <=> Succeeded(q)
    BY <1>1 DEF Succeeded
  <2>2. \A n : ReadWritten(q, n) => \A i \in 1..n :
          Has(audit_log', q, "READ", Resource(body[q].op), read[q][i])
    BY <1>1, HasGrows DEF ReadWritten
  <2>3. \A kind : Has(audit_log, q, "CREATE", kind, q) => Has(audit_log', q, "CREATE", kind, q)
    BY <1>1, HasGrows
  <2>4. WrittenDown(q)
    BY DEF Healthy
  <2>5. pc[q] = "logRead" => ReadWritten(q, logged[q])'
    BY <1>1, <2>2, <2>4 DEF WrittenDown, ReadWritten
  <2>6. Succeeded(q) /\ body[q].op \notin {"create", "list"} => ReadWritten(q, Len(read[q]))'
    BY <1>1, <2>2, <2>4 DEF WrittenDown, ReadWritten
  <2>7. QED
    BY <1>1, <2>1, <2>3, <2>4, <2>5, <2>6 DEF WrittenDown
<1>5. QED
  BY <1>2, <1>3, <1>4 DEF Healthy

(* A success is an answer. *)
LEMMA SuccessAnswered ==
    ASSUME NEW certs \in Seq(Request)
    PROVE  Success(certs) # None /\ Success(certs).status = 200
BY AnswerTypes, NotNone DEF Success

(* A request that has not been answered, and has no trace, is answered with an error,
   or moves on to a statement that writes nothing down. *)
LEMMA QuietMove ==
    ASSUME IInv, Grows, NEW r \in Request, Healthy(r), NoTrace(r), response[r] = None,
           UNCHANGED <<tables, audit_log, body>>,
           NEW next \in SUBSET (Statement \ Logging), Moves(r, next, ErrorStatus),
           response'[r] # None /\ response'[r].status = 500 => Cause(r)', body[r] # None
    PROVE  Healthy(r)'
<1>1. /\ pc'[r] \in next \cup {"done"}
      /\ response'[r] = None \/ (pc'[r] = "done" /\ response'[r].status \in ErrorStatus)
  <2>1. CASE \E n \in next : Goto(r, n)
    BY <2>1 DEF Goto, IInv, TypeOK
  <2>2. CASE \E e \in ErrorStatus : Fail(r, e)
    BY <2>2 DEF Fail, Answer, IInv, TypeOK
  <2>3. QED
    BY <2>1, <2>2 DEF Moves
<1>2. ~Succeeded(r)' /\ NoTrace(r)'
  BY <1>1 DEF Succeeded, ErrorStatus, NoTrace, tables
<1>3. LeavesNothing(r)'
  BY <1>1, <1>2 DEF LeavesNothing, Logging
<1>4. HasCause(r)'
  BY DEF Healthy, HasCause, tables
<1>5. WrittenDown(r)'
  BY <1>1, <1>2 DEF WrittenDown, Logging
<1>6. QED
  BY <1>3, <1>4, <1>5 DEF Healthy

(* Before it writes anything down a request has not been answered and has no trace. *)
LEMMA Unanswered ==
    ASSUME IInv, RInv, NEW r \in Request, Healthy(r), pc[r] \in (Statement \ Logging) \cup {"idle"}
    PROVE  response[r] = None /\ NoTrace(r)
<1>1. pc[r] \notin {"logListed", "done", "crashed"} \cup Logging
  BY DEF Statement, Logging
<1>2. ~Succeeded(r)
  BY <1>1 DEF RInv, Knows, AnswerOK
<1>3. QED
  BY <1>1, <1>2 DEF Healthy, LeavesNothing, Succeeded

LEMMA ReceiveHealthy ==
    ASSUME IInv, RInv, Grows, NEW r \in Request, Healthy(r), Receive(r)
    PROVE  Healthy(r)'
<1>1. pc[r] = "idle" /\ response[r] = None /\ NoTrace(r)
  BY Unanswered DEF Receive
<1>2. PICK b \in Sends[r] :
        /\ \A c \in Mentions(b) \cap Request : certificate[c] # None
        /\ body' = [body EXCEPT ![r] = b]
        /\ \/ Goto(r, "findUser") \/ Goto(r, "findCertificate") \/ Goto(r, "findCertificates")
           \/ Fail(r, 400) \/ Fail(r, 403)
  BY DEF Receive
<1>3. /\ pc'[r] \in {"findUser", "findCertificate", "findCertificates", "done"}
      /\ response'[r] = None \/ (pc'[r] = "done" /\ response'[r].status \in {400, 403})
  BY <1>1, <1>2 DEF Goto, Fail, Answer, IInv, TypeOK
<1>4. ~Succeeded(r)' /\ NoTrace(r)' /\ certificate' = certificate
  BY <1>1, <1>3 DEF Receive, Succeeded, NoTrace, tables
<1>5. LeavesNothing(r)'
  BY <1>3, <1>4 DEF LeavesNothing
<1>6. body'[r] = b
  BY <1>2 DEF IInv, TypeOK
<1>7. HasCause(r)'
  <2>1. b.op = "create" /\ b.signatory \in Request => certificate[b.signatory] # None
    BY <1>2, NotNone DEF Mentions
  <2>2. QED
    BY <1>3, <1>4, <1>6, <2>1 DEF HasCause
<1>8. WrittenDown(r)'
  BY <1>3, <1>4 DEF WrittenDown
<1>9. QED
  BY <1>5, <1>7, <1>8 DEF Healthy

(* The checks of a create, and the inserts, without a trace *)
LEMMA CreatingHealthy ==
    ASSUME IInv, RInv, Grows, NEW r \in Request, Healthy(r),
           \/ FindUser(r) \/ FindSignatory(r) \/ FindSigningKeys(r)
           \/ InsertKeyPair(r) \/ InsertCertificate(r)
    PROVE  Healthy(r)'
<1>1. /\ pc[r] \in {"findUser", "findSignatory", "findSigningKeys", "insertKeyPair",
                    "insertCertificate"}
      /\ UNCHANGED <<tables, audit_log, body>>
  BY DEF FindUser, FindSignatory, FindSigningKeys, InsertKeyPair, InsertCertificate
<1>2. response[r] = None /\ NoTrace(r)
  BY <1>1, Unanswered DEF Statement, Logging
<1>3. body[r] \in Body /\ body[r] # None /\ body[r].op = "create" /\ CreateOK(r)
  BY <1>1, BodyKnown, BodyFields DEF IInv, CreateOK, CreateStatement
<1> DEFINE next == {"findSignatory", "findSigningKeys", "insertKeyPair", "insertCertificate",
                    "commit"}
<1>4. next \in SUBSET (Statement \ Logging)
  BY DEF Statement, Logging
<1>5. Moves(r, next, ErrorStatus)
  <2>1. CASE FindUser(r)
    BY <2>1 DEF FindUser, CreateStatus, Moves, ErrorStatus
  <2>2. CASE FindSignatory(r)
    BY <2>2, AccessTypes DEF FindSignatory, Moves, ErrorStatus
  <2>3. CASE FindSigningKeys(r)
    BY <2>3, AccessTypes DEF FindSigningKeys, Moves, ErrorStatus
  <2>4. CASE InsertKeyPair(r) \/ InsertCertificate(r)
    BY <2>4 DEF InsertKeyPair, InsertCertificate, Moves, ErrorStatus
  <2>5. QED
    BY <2>1, <2>2, <2>3, <2>4
<1>6. response'[r] # None /\ response'[r].status = 500 => Cause(r)
  <2>1. CASE FindUser(r)
    <3>1. response'[r] = None \/ response'[r].status = CreateStatus(r)
      BY <1>2, <2>1 DEF FindUser, Goto, Fail, Answer, IInv, TypeOK
    <3>2. CreateStatus(r) = 500 => Cause(r)
      BY DEF CreateStatus, SigningFails, CannotBeHad, TooShort, Cause
    <3>3. QED
      BY <3>1, <3>2
  <2>2. CASE InsertKeyPair(r)
    <3>1. response'[r] = None \/ (body[r].keySize = "short" /\ ShortKeyStored)
      BY <1>2, <2>2 DEF InsertKeyPair, Goto, IInv, TypeOK
    <3>2. QED
      BY <1>2, <3>1 DEF ShortKeyStored, NoTrace, RInv, Together, TooShort, Cause
  <2>3. CASE FindSignatory(r)
    <3>1. Moves(r, {"findSigningKeys"}, ErrorStatus \ {500})
      BY <2>3, AccessTypes DEF FindSignatory, Moves, ErrorStatus
    <3>2. QED
      BY <1>2, <3>1 DEF Moves, ErrorStatus, Goto, Fail, Answer, IInv, TypeOK
  <2>4. CASE FindSigningKeys(r)
    <3>1. SUFFICES ASSUME response'[r] # None, response'[r].status = 500 PROVE Cause(r)
      OBVIOUS
    <3>2. PICK k \in FindByCertificateID(body[r].signatory) :
             key_pair[k].password # body[r].secret \/ SigningFails(r, key_pair[k].size)
      <4>1. \/ Moves(r, {"insertKeyPair"}, ErrorStatus \ {500})
            \/ \E k \in FindByCertificateID(body[r].signatory) :
                  key_pair[k].password # body[r].secret \/ SigningFails(r, key_pair[k].size)
        BY <2>4, AccessTypes DEF FindSigningKeys, Moves, ErrorStatus
      <4>2. ~Moves(r, {"insertKeyPair"}, ErrorStatus \ {500})
        BY <1>2, <3>1 DEF Moves, ErrorStatus, Goto, Fail, Answer, IInv, TypeOK
      <4>3. QED
        BY <4>1, <4>2
    <3>3. k = body[r].signatory /\ k \in Request /\ certificate[k] # None
      BY <3>2, OwnKeyPair
    <3>4. body[r].type # "ROOT_CA"
      BY <1>3, <2>4 DEF FindSigningKeys, CreateOK, CreateStatement
    <3>5. QED
      BY <3>2, <3>3, <3>4 DEF SigningFails, CannotSign, CannotBeHad, Cause
  <2>5. CASE InsertCertificate(r)
    <3>1. SUFFICES ASSUME response'[r] # None, response'[r].status = 500 PROVE Cause(r)
      OBVIOUS
    <3>2. NameTaken(body[r].name, AccountOfRequest(r)) \/ Malformed(r)
      BY <1>2, <2>5, <3>1 DEF InsertCertificate, Goto, Fail, Answer, IInv, TypeOK
    <3>3. CASE NameTaken(body[r].name, AccountOfRequest(r))
      BY <1>2, <3>3 DEF NameTaken, Stored, NoTrace, NameHeld, Cause
    <3>4. CASE Malformed(r)
      <4>1. CASE body[r].name \in TooLong
        BY <4>1 DEF CannotBeHad, Cause
      <4>2. CASE body[r].signatory # None /\ ~Stored(body[r].signatory)
        <5>1. body[r].signatory \in Request => Stored(body[r].signatory)
          BY <1>3 DEF Healthy, HasCause, Stored
        <5>2. body[r].signatory = Unknown
          BY <1>3, <4>2, <5>1, BodyFields
        <5>3. body[r].type = "ROOT_CA"
          BY <1>3, <2>5, <5>2, NotNone
             DEF InsertCertificate, CreateOK, CreateStatement, Vouched, SignsFor
        <5>4. QED
          BY <5>2, <5>3 DEF CannotBeHad, Cause
      <4>3. QED
        BY <3>4, <4>1, <4>2 DEF Malformed
    <3>5. QED
      BY <3>2, <3>3, <3>4
  <2>6. QED
    BY <2>1, <2>2, <2>3, <2>4, <2>5
<1>7. response'[r] # None /\ response'[r].status = 500 => Cause(r)'
  BY <1>3, <1>6, CauseStays
<1> HIDE DEF next
<1>8. QED
  BY <1>1, <1>2, <1>3, <1>4, <1>5, <1>7, QuietMove

(* A create that committed writes its events before it is answered. *)
LEMMA CommittingHealthy ==
    ASSUME "db" \notin Faults, IInv, RInv, Grows, NEW r \in Request, Healthy(r),
           Commit(r) \/ LogCertificate(r) \/ LogKeyPair(r)
    PROVE  Healthy(r)'
<1>1. /\ pc[r] \in {"commit", "logCertificate", "logKeyPair"}
      /\ body' = body /\ body[r] # None /\ body[r].op = "create"
  BY BodyKnown, BodyFields DEF Commit, LogCertificate, LogKeyPair, IInv, CreateOK, CreateStatement
<1>2. response[r] = None
  BY <1>1 DEF RInv, Knows, AnswerOK, Succeeded, Healthy, LeavesNothing
<1>3. body[r].signatory \in Request => certificate'[body[r].signatory] # None
  BY <1>1 DEF Healthy, HasCause, Grows
<1>4. CASE Commit(r) \/ LogCertificate(r)
  <2>1. pc'[r] \in {"logCertificate", "logKeyPair"} /\ response'[r] = None
    BY <1>2, <1>4 DEF Commit, LogCertificate, Goto, IInv, TypeOK
  <2>2. pc'[r] = "logKeyPair" => Has(audit_log', r, "CREATE", "certificate", r)
    <3>1. CASE Commit(r)
      BY <3>1 DEF Commit, Goto, IInv, TypeOK
    <3>2. CASE LogCertificate(r)
      <4>1. audit_log' = audit_log \cup
              {[id |-> r, userId |-> body[r].user, activity |-> "CREATE",
                resource |-> <<"certificate", r>>]}
        BY <3>2 DEF LogCertificate, Audit
      <4>2. QED
        BY <4>1, HasAdded
    <3>3. QED
      BY <1>4, <3>1, <3>2
  <2>3. QED
    BY <1>1, <1>3, <2>1, <2>2
       DEF Healthy, LeavesNothing, HasCause, WrittenDown, Logging, Succeeded
<1>5. CASE LogKeyPair(r)
  <2>1. /\ pc[r] = "logKeyPair" /\ pc'[r] = "done" /\ response'[r] = Success(<<r>>)
        /\ audit_log' = audit_log \cup
             {[id |-> r, userId |-> body[r].user, activity |-> "CREATE",
               resource |-> <<"key-pair", r>>]}
    BY <1>5 DEF LogKeyPair, Audit, Answer, IInv, TypeOK
  <2>2. Has(audit_log', r, "CREATE", "key-pair", r)
    BY <2>1, HasAdded
  <2>3. Has(audit_log', r, "CREATE", "certificate", r)
    <3>1. Has(audit_log, r, "CREATE", "certificate", r) /\ audit_log \subseteq audit_log'
      BY <2>1 DEF Healthy, WrittenDown
    <3>2. QED
      BY <3>1, HasGrows
  <2>4. response'[r].status = 200 /\ Succeeded(r)'
    <3>1. <<r>> \in Seq(Request)
      OBVIOUS
    <3>2. Success(<<r>>) \in Response /\ Success(<<r>>).status = 200
      BY <3>1 DEF Success, Response
    <3>3. Success(<<r>>) # None
      BY <3>2, NotNone
    <3>4. QED
      BY <2>1, <3>2, <3>3 DEF Succeeded
  <2>5. QED
    BY <1>1, <1>3, <2>1, <2>2, <2>3, <2>4 DEF Healthy, LeavesNothing, HasCause, WrittenDown
<1>6. QED
  BY <1>4, <1>5

(* The statements of a read, up to its events *)
LEMMA ReadingHealthy ==
    ASSUME IInv, RInv, Grows, NEW r \in Request, Healthy(r),
           FindCertificate(r) \/ FindKeyPair(r)
    PROVE  Healthy(r)'
<1>1. /\ pc[r] \in {"findCertificate", "findKeyPair"}
      /\ UNCHANGED <<tables, audit_log, body, logged>>
  BY DEF FindCertificate, FindKeyPair
<1>2. response[r] = None /\ NoTrace(r)
  BY <1>1, Unanswered DEF Statement, Logging
<1>3. body[r] # None /\ body[r].op # "create" /\ logged[r] = 0
  BY <1>1, BodyKnown, BodyFields DEF IInv, ReadOK
<1>4. Moves(r, {"findCertificate", "findKeyPair", "logRead"}, ErrorStatus \ {500})
  <2>1. CASE FindCertificate(r)
    BY <2>1, AccessTypes DEF FindCertificate, Moves, ErrorStatus
  <2>2. CASE FindKeyPair(r)
    BY <2>2, AccessTypes DEF FindKeyPair, Moves, ErrorStatus
  <2>3. QED
    BY <2>1, <2>2
<1>5. /\ pc'[r] \in {"findCertificate", "findKeyPair", "logRead", "done"}
      /\ \/ response'[r] = None
         \/ pc'[r] = "done" /\ response'[r].status \in ErrorStatus \ {500}
  BY <1>2, <1>4 DEF Moves, Goto, Fail, Answer, IInv, TypeOK
<1>6. ~Succeeded(r)' /\ NoTrace(r)'
  BY <1>1, <1>2, <1>5 DEF Succeeded, ErrorStatus, NoTrace, tables
<1>7. LeavesNothing(r)'
  BY <1>5, <1>6 DEF LeavesNothing
<1>8. HasCause(r)'
  BY <1>1, <1>3, <1>5 DEF HasCause
<1>9. ReadWritten(r, logged[r])'
  BY <1>1, <1>3 DEF ReadWritten
<1>10. WrittenDown(r)'
  BY <1>5, <1>6, <1>9 DEF WrittenDown
<1>11. QED
  BY <1>7, <1>8, <1>10 DEF Healthy

(* A read other than a list is answered once everything it read is written down. *)
LEMMA LogReadHealthy ==
    ASSUME "db" \notin Faults, IInv, RInv, Grows, NEW r \in Request, Healthy(r), LogRead(r)
    PROVE  Healthy(r)'
<1> DEFINE kind == Resource(body[r].op)
           n == logged[r]
<1>1. /\ pc[r] = "logRead" /\ body' = body /\ read' = read
      /\ body[r] # None /\ body[r].op # "create"
  BY BodyKnown, BodyFields DEF LogRead, IInv, ReadOK
<1>2. response[r] = None
  BY <1>1 DEF RInv, Knows, AnswerOK, Succeeded, Healthy, LeavesNothing
<1>3. /\ audit_log' = audit_log \cup
           {[id |-> r, userId |-> body[r].user, activity |-> "READ",
             resource |-> <<kind, read[r][n + 1]>>]}
      /\ logged'[r] = n + 1 /\ n \in Nat
  BY DEF LogRead, LogNext, Audit, IInv, TypeOK
<1>4. \A i \in 1..n + 1 : Has(audit_log', r, "READ", kind, read[r][i])
  <2>1. Has(audit_log', r, "READ", kind, read[r][n + 1])
    BY <1>3, HasAdded
  <2>2. ASSUME NEW i \in 1..n PROVE Has(audit_log', r, "READ", kind, read[r][i])
    <3>1. Has(audit_log, r, "READ", kind, read[r][i])
      BY <1>1 DEF Healthy, WrittenDown, ReadWritten
    <3>2. audit_log \subseteq audit_log'
      BY <1>3
    <3>3. QED
      BY <3>1, <3>2, HasGrows
  <2>3. \A i \in 1..n + 1 : i \in 1..n \/ i = n + 1
    BY <1>3
  <2>4. QED
    BY <2>1, <2>2, <2>3
<1>5. \/ pc'[r] = "logRead" /\ response'[r] = None
      \/ pc'[r] = "done" /\ response'[r] = Success(read[r]) /\ n + 1 = Len(read[r])
  BY <1>2 DEF LogRead, AllLogged, Goto, Answer, IInv, TypeOK
<1>6. LeavesNothing(r)' /\ HasCause(r)'
  <2>1. response'[r] = None \/ (pc'[r] = "done" /\ response'[r] # None /\ response'[r].status = 200)
    BY <1>5, SuccessAnswered DEF IInv, TypeOK
  <2>2. pc'[r] = "logRead" \/ (pc'[r] = "done" /\ Succeeded(r)')
    BY <1>5, <2>1, SuccessAnswered DEF Succeeded, IInv, TypeOK
  <2>3. LeavesNothing(r)'
    BY <2>1, <2>2 DEF LeavesNothing, Logging
  <2>4. HasCause(r)'
    BY <1>1, <2>1 DEF HasCause
  <2>5. QED
    BY <2>3, <2>4
<1>7. WrittenDown(r)'
  <2>1. Succeeded(r)' => n + 1 = Len(read[r])
    BY <1>5 DEF Succeeded
  <2>2. QED
    BY <1>1, <1>3, <1>4, <1>5, <2>1 DEF WrittenDown, ReadWritten
<1>8. QED
  BY <1>6, <1>7 DEF Healthy

(* A list is answered first and written down afterwards. *)
LEMMA ListingHealthy ==
    ASSUME IInv, RInv, Grows, NEW r \in Request, Healthy(r),
           FindCertificates(r) \/ LogListed(r)
    PROVE  Healthy(r)'
<1>1. /\ pc[r] \in {"findCertificates", "logListed"} /\ UNCHANGED <<tables, body>>
      /\ body[r] # None /\ body[r].op = "list"
  <2>1. pc[r] \in {"findCertificates", "logListed"} /\ UNCHANGED <<tables, body>>
    BY DEF FindCertificates, LogListed
  <2>2. QED
    BY <2>1, BodyKnown, BodyFields DEF IInv, ReadOK, RInv, Knows
<1>2. CASE FindCertificates(r)
  <2>1. response[r] = None /\ NoTrace(r)
    BY <1>2, Unanswered DEF FindCertificates, Statement, Logging
  <2>2. \/ /\ pc'[r] = "done" /\ response'[r].status \in {401, 403}
           /\ audit_log' = audit_log
        \/ /\ pc'[r] \in {"done", "logListed"} /\ response'[r].status = 200
           /\ response'[r] # None
    <3>1. CASE \E e \in {401, 403} : Fail(r, e) /\ audit_log' = audit_log
      BY <3>1 DEF Fail, Answer, IInv, TypeOK
    <3>2. CASE ~\E e \in {401, 403} : Fail(r, e) /\ audit_log' = audit_log
      <4>1. PICK certs \in mapRowsToCertificates(FindByAccountIDAndTypes(body[r].account, body[r].types)) :
              \E page \in SetToSeqs(certs) :
                /\ response' = [response EXCEPT ![r] = Success(page)]
                /\ pc' = [pc EXCEPT ![r] = IF page = <<>> THEN "done" ELSE "logListed"]
        BY <1>2, <3>2, AccessTypes DEF FindCertificates
      <4>2. PICK page \in SetToSeqs(certs) :
                /\ response' = [response EXCEPT ![r] = Success(page)]
                /\ pc' = [pc EXCEPT ![r] = IF page = <<>> THEN "done" ELSE "logListed"]
        BY <4>1
      <4>3. FindByAccountIDAndTypes(body[r].account, body[r].types) \in SUBSET Request
        BY DEF FindByAccountIDAndTypes
      <4>4. page \in Seq(Request)
        BY <4>3, PageTypes
      <4>5. Success(page) # None /\ Success(page).status = 200
        BY <4>4, SuccessAnswered
      <4>6. pc'[r] \in {"done", "logListed"} /\ response'[r] = Success(page)
        BY <4>2 DEF IInv, TypeOK
      <4>7. QED
        BY <4>5, <4>6
    <3>3. QED
      BY <3>1, <3>2
  <2>3. LeavesNothing(r)'
    BY <1>1, <2>1, <2>2 DEF LeavesNothing, Succeeded, NoTrace, tables
  <2>4. HasCause(r)' /\ WrittenDown(r)'
    BY <1>1, <2>2 DEF HasCause, WrittenDown
  <2>5. QED
    BY <2>3, <2>4 DEF Healthy
<1>3. CASE LogListed(r)
  <2>1. pc[r] = "logListed" /\ pc'[r] \in {"logListed", "done"} /\ response' = response
    BY <1>3 DEF LogListed, Goto, IInv, TypeOK
  <2>2. Succeeded(r) /\ Succeeded(r)'
    BY <2>1 DEF Healthy, LeavesNothing, Succeeded
  <2>3. QED
    BY <1>1, <2>1, <2>2 DEF Healthy, LeavesNothing, HasCause, WrittenDown, Succeeded
<1>4. QED
  BY <1>2, <1>3

(* A replica that dies leaves what was answered and written. *)
LEMMA CrashHealthy ==
    ASSUME IInv, RInv, Grows, NEW r \in Request, Healthy(r), Crash(r)
    PROVE  Healthy(r)'
<1>1. /\ pc[r] \in Statement /\ pc'[r] = "crashed"
      /\ UNCHANGED <<tables, audit_log, body, read, response>>
  BY DEF Crash, IInv, TypeOK
<1>2. ~(response[r] # None /\ response[r].status # 200)
  BY <1>1 DEF Healthy, LeavesNothing, Statement
<1>3. Succeeded(r)' <=> Succeeded(r)
  BY <1>1 DEF Succeeded
<1>4. LeavesNothing(r)' /\ HasCause(r)'
  BY <1>1, <1>2 DEF Healthy, LeavesNothing, HasCause, tables
<1>5. WrittenDown(r)'
  BY <1>1, <1>3 DEF Healthy, WrittenDown, ReadWritten
<1>6. QED
  BY <1>4, <1>5 DEF Healthy

(* On a healthy database what is known of every request is an invariant. *)
LEMMA HealthyInvariance ==
    ASSUME "db" \notin Faults
    PROVE  Spec => [](IInv /\ RInv /\ \A r \in Request : Healthy(r))
<1> DEFINE HInv == \A r \in Request : Healthy(r)
<1>1. Init => HInv
  BY DEF Init, Healthy, LeavesNothing, NoTrace, HasCause, WrittenDown, Succeeded, Logging
<1>2. IInv /\ RInv /\ HInv /\ [Next]_vars => HInv'
  <2> SUFFICES ASSUME IInv, RInv, HInv, [Next]_vars PROVE HInv'
    OBVIOUS
  <2>1. CASE Next
    <3>1. PICK r \in Request : Receive(r) \/ Handle(r) \/ Crash(r)
      BY <2>1 DEF Next
    <3>2. Grows /\ Apart(r)
      BY <2>1, <3>1, AlwaysGrows, StepsApart
    <3>3. ~StatementFails(r)
      BY DEF StatementFails
    <3>4. Healthy(r)'
      BY <3>1, <3>2, <3>3, ReceiveHealthy, CreatingHealthy, CommittingHealthy, ReadingHealthy,
         LogReadHealthy, ListingHealthy, CrashHealthy DEF Handle, Execute
    <3>5. \A q \in Request \ {r} : Healthy(q)'
      BY <3>2, HealthyApart
    <3>6. QED
      BY <3>4, <3>5
  <2>2. CASE UNCHANGED vars
    <3>1. UNCHANGED <<certificate, key_pair, audit_log, pc, body, read, logged, response>>
      BY <2>2 DEF vars
    <3>2. ASSUME NEW r \in Request PROVE Healthy(r)'
      <4>1. Healthy(r) /\ Apart(r) /\ Grows
        BY <3>1 DEF Apart, Grows
      <4>2. LeavesNothing(r)' /\ HasCause(r)'
        BY <3>1, <4>1, CauseStays DEF Healthy, LeavesNothing, NoTrace, Succeeded, HasCause
      <4>3. WrittenDown(r)'
        BY <3>1, <4>1 DEF Healthy, WrittenDown, ReadWritten, Succeeded
      <4>4. QED
        BY <4>2, <4>3 DEF Healthy
    <3>3. QED
      BY <3>2
  <2>3. QED
    BY <2>1, <2>2
<1>3. QED
  BY <1>1, <1>2, ReadsInvariance, InitIInv, InitRInv, Inductive, ReadsInductive, PTL DEF Spec

(* On a healthy database a create that was refused or failed left neither rows nor
   events behind. *)
THEOREM FailuresLeaveNothing ==
    ASSUME "db" \notin Faults
    PROVE  Spec => []FailedCreateLeavesNothing
<1>1. (\A r \in Request : Healthy(r)) => FailedCreateLeavesNothing
  BY DEF Healthy, LeavesNothing, NoTrace, Logging, Succeeded, FailedCreateLeavesNothing
<1>2. QED
  BY <1>1, HealthyInvariance, PTL

(* A stored certificate has its key pair. *)
LEMMA CommittedPair ==
    ASSUME IInv, NEW k \in Request, certificate[k] # None
    PROVE  key_pair[k] # None
<1>1. key_pair[k] = encryptKeys(k) /\ AccountOfRequest(k) \in Account /\ body[k] \in Body
      /\ body[k].op = "create"
  BY DEF IInv, RowOK, TypeOK
<1>2. encryptKeys(k) \in KeyPair
  BY <1>1, BodyFields DEF encryptKeys, KeyPair
<1>3. QED
  BY <1>1, <1>2, NotNone

(* On a healthy database a create fails only for what its own request asks for that
   cannot be had, or for what others stored before: the causes FailureHasCause names. *)
THEOREM FailuresHaveCauses ==
    ASSUME "db" \notin Faults
    PROVE  Spec => []FailureHasCause
<1>1. IInv /\ (\A r \in Request : Healthy(r)) => FailureHasCause
  <2>1. IInv => \A k \in Request : certificate[k] # None => key_pair[k] # None
    BY CommittedPair
  <2>2. QED
    BY <2>1 DEF Healthy, HasCause, Cause, NameHeld, CannotSign, CannotBeHad, TooShort, Stored,
                FailureHasCause
<1>2. QED
  BY <1>1, HealthyInvariance, PTL

(* On a healthy database everything an answer carries, except for lists, is in the
   audit log before the answer goes out. *)
THEOREM AnswersAreAudited ==
    ASSUME "db" \notin Faults
    PROVE  Spec => []AnsweredIsAudited
<1>1. IInv /\ RInv /\ (\A r \in Request : Healthy(r)) => AnsweredIsAudited
  <2> SUFFICES ASSUME IInv, RInv, \A r \in Request : Healthy(r),
                      NEW r \in Request, Succeeded(r)
               PROVE
        \/ body[r].op = "list"
        \/ /\ body[r].op = "create"
           /\ Audited(r, "CREATE", "certificate", r) /\ Audited(r, "CREATE", "key-pair", r)
        \/ /\ body[r].op \notin {"create", "list"}
           /\ \A i \in DOMAIN response[r].certs :
                 Audited(r, "READ", Resource(body[r].op), response[r].certs[i])
    BY DEF AnsweredIsAudited
  <2>1. CASE body[r].op = "create"
    BY <2>1 DEF Healthy, WrittenDown, Has, Audited
  <2>2. CASE body[r].op \notin {"create", "list"}
    <3>1. response[r].certs = read[r] /\ read[r] \in Seq(Request)
      BY <2>2 DEF RInv, Knows, AnswerOK, IInv, TypeOK
    <3>2. DOMAIN read[r] = 1..Len(read[r])
      BY <3>1
    <3>3. ReadWritten(r, Len(read[r]))
      BY <2>2 DEF Healthy, WrittenDown
    <3>4. \A i \in DOMAIN read[r] : Audited(r, "READ", Resource(body[r].op), read[r][i])
      BY <3>2, <3>3 DEF ReadWritten, Has, Audited
    <3>5. QED
      BY <2>2, <3>1, <3>4
  <2>3. QED
    BY <2>1, <2>2
<1>2. QED
  BY <1>1, HealthyInvariance, PTL

-----------------------------------------------------------------------------
(* Lists on a healthy database *)

(* A page holds every row of a finite set once: none is missing. *)
LEMMA PageHasAll ==
    ASSUME NEW rows, IsFiniteSet(rows), NEW page \in SetToSeqs(rows)
    PROVE  \A c \in rows : \E i \in DOMAIN page : page[i] = c
<1> DEFINE n == Cardinality(rows)
<1>1. n \in Nat
  BY FS_CardinalityType
<1>2. /\ page \in [1..n -> rows]
      /\ \A i, j \in 1..n : i # j => page[i] # page[j]
  BY DEF SetToSeqs
<1>3. page \in Injection(1..n, rows)
  BY <1>2 DEF Injection, IsInjective
<1>4. IsFiniteSet(1..n) /\ Cardinality(1..n) = n
  BY <1>1, FS_Interval
<1>5. page \in Surjection(1..n, rows)
  BY <1>3, <1>4, FS_Injection
<1>6. QED
  BY <1>2, <1>5 DEF Surjection

(* On a healthy database a list that is read after a creation was announced has it:
   no row is lost between the commit and the answer, whichever order they come in. *)
THEOREM ListsShowCreated ==
    ASSUME "db" \notin Faults
    PROVE  Spec => ListShowsWhatWasCreated
<1> DEFINE Shows(r, c) ==
             /\ pc[r] = "findCertificates" /\ response'[r] # None /\ response'[r].status = 200
             /\ Succeeded(c) /\ body[c].op = "create"
             /\ AccountOfRequest(c) = AccountOfRequest(r)
             /\ body[r].types # {} => body[c].type \in body[r].types
             => \E i \in DOMAIN response'[r].certs : response'[r].certs[i] = c
<1>1. IInv /\ RInv /\ [Next]_vars => [\A r, c \in Request : Shows(r, c)]_vars
  <2> SUFFICES ASSUME IInv, RInv, Next,
                      NEW r \in Request, NEW c \in Request,
                      pc[r] = "findCertificates",
                      response'[r] # None, response'[r].status = 200,
                      Succeeded(c), body[c].op = "create",
                      AccountOfRequest(c) = AccountOfRequest(r),
                      body[r].types # {} => body[c].type \in body[r].types
               PROVE  \E i \in DOMAIN response'[r].certs : response'[r].certs[i] = c
    OBVIOUS
  <2> DEFINE rows == FindByAccountIDAndTypes(body[r].account, body[r].types)
             access == AccountAccess(body[r].user, body[r].account)
  <2>1. ~Succeeded(r)
    BY DEF RInv, Knows, AnswerOK
  <2>2. PICK q \in Request : Receive(q) \/ Handle(q) \/ Crash(q)
    BY DEF Next
  <2>3. q = r
    <3>1. q # r => response'[r] = response[r]
      BY <2>2, StepsApart DEF Apart
    <3>2. QED
      BY <2>1, <3>1 DEF Succeeded
  <2>4. FindCertificates(r)
    <3>1. ~Receive(r)
      BY DEF Receive
    <3>2. ~Crash(r)
      BY <2>1 DEF Crash, Succeeded
    <3>3. ~StatementFails(r)
      BY DEF StatementFails
    <3>4. QED
      BY <2>2, <2>3, <3>1, <3>2, <3>3 DEF Handle, Execute, FindUser, FindSignatory,
            FindSigningKeys, InsertKeyPair, InsertCertificate, Commit, LogCertificate,
            LogKeyPair, FindCertificate, FindKeyPair, LogRead, LogListed
  <2>5. access = 200
    <3>1. ~Fail(r, access) \/ access = 200
      BY AccessTypes DEF Fail, Answer, IInv, TypeOK
    <3>2. QED
      BY <2>4, <3>1 DEF FindCertificates
  <2>6. c \in rows
    <3>1. Knows(c) /\ certificate[c] # None
      BY DEF RInv, Knows, AnswerOK, Mine, Stored
    <3>2. certificate[c].account = AccountOfRequest(c) /\ certificate[c].type = body[c].type
      BY <3>1, RowFields
    <3>3. AccountOfRequest(r) = body[r].account
      BY <2>5, AccessTypes DEF AccountOfRequest
    <3>4. QED
      BY <3>1, <3>2, <3>3 DEF FindByAccountIDAndTypes, Stored
  <2>7. PICK page \in SetToSeqs(rows) : response' = [response EXCEPT ![r] = Success(page)]
    BY <2>4, <2>5 DEF FindCertificates, mapRowsToCertificates
  <2>8. response'[r].certs = page
    BY <2>7 DEF IInv, TypeOK, Success
  <2>9. IsFiniteSet(rows)
    BY RequestAssumption, FS_Subset DEF FindByAccountIDAndTypes
  <2>10. QED
    BY <2>6, <2>7, <2>8, <2>9, PageHasAll
<1>2. QED
  BY <1>1, ReadsInvariance, PTL DEF Spec, ListShowsWhatWasCreated

(* What a list has written down on its way *)
Listed(r) ==
    body[r] # None /\ body[r].op = "list" =>
        /\ pc[r] \in {"findCertificates", "logListed", "done", "crashed"}
        /\ pc[r] = "logListed" => ReadWritten(r, logged[r])
        /\ pc[r] = "done" /\ Succeeded(r) => ReadWritten(r, Len(read[r]))

(* Whoever writes one event after the other has written all of them in the end. *)
LEMMA WritesOneMore ==
    ASSUME "db" \notin Faults, IInv, NEW r \in Request, LogNext(r), ReadWritten(r, logged[r]),
           body'[r] = body[r], read'[r] = read[r]
    PROVE  ReadWritten(r, logged[r])' /\ logged'[r] = logged[r] + 1
<1> DEFINE kind == Resource(body[r].op)
           n == logged[r]
<1>1. /\ audit_log' = audit_log \cup
           {[id |-> r, userId |-> body[r].user, activity |-> "READ",
             resource |-> <<kind, read[r][n + 1]>>]}
      /\ logged'[r] = n + 1 /\ n \in Nat
  BY DEF LogNext, Audit, IInv, TypeOK
<1>2. Has(audit_log', r, "READ", kind, read[r][n + 1])
  BY <1>1, HasAdded
<1>3. ASSUME NEW i \in 1..n PROVE Has(audit_log', r, "READ", kind, read[r][i])
  <2>1. Has(audit_log, r, "READ", kind, read[r][i]) /\ audit_log \subseteq audit_log'
    BY <1>1 DEF ReadWritten
  <2>2. QED
    BY <2>1, HasGrows
<1>4. \A i \in 1..(n + 1) : i \in 1..n \/ i = n + 1
  BY <1>1
<1>5. \A i \in 1..(n + 1) : Has(audit_log', r, "READ", kind, read[r][i])
  BY <1>2, <1>3, <1>4
<1>6. QED
  BY <1>1, <1>5 DEF ReadWritten

LEMMA LogListedListed ==
    ASSUME "db" \notin Faults, IInv, NEW r \in Request, Listed(r), LogListed(r),
           body[r] # None, body[r].op = "list"
    PROVE  Listed(r)'
<1>1. /\ pc[r] = "logListed" /\ body' = body /\ read' = read /\ LogNext(r)
      /\ ReadWritten(r, logged[r])
  BY DEF LogListed, Listed
<1>2. ReadWritten(r, logged[r])' /\ logged'[r] = logged[r] + 1
  BY <1>1, WritesOneMore
<1>3. \/ pc'[r] = "done" /\ logged'[r] = Len(read[r])
      \/ pc'[r] = "logListed"
  BY <1>2 DEF LogListed, AllLogged, Goto, IInv, TypeOK
<1>4. pc'[r] = "done" => ReadWritten(r, Len(read[r]))'
  BY <1>1, <1>2, <1>3 DEF ReadWritten
<1>5. QED
  BY <1>2, <1>3, <1>4 DEF Listed

(* A list that is answered has no event to write before, and none at all when empty. *)
LEMMA FindCertificatesListed ==
    ASSUME IInv, NEW r \in Request, FindCertificates(r)
    PROVE  Listed(r)'
<1> DEFINE rows == FindByAccountIDAndTypes(body[r].account, body[r].types)
           access == AccountAccess(body[r].user, body[r].account)
           Lists(page) ==
             /\ read' = [read EXCEPT ![r] = page]
             /\ response' = [response EXCEPT ![r] = Success(page)]
             /\ pc' = [pc EXCEPT ![r] = IF page = <<>> THEN "done" ELSE "logListed"]
<1>1. logged' = logged /\ logged[r] = 0
  BY DEF FindCertificates, IInv, ReadOK
<1>2. CASE access # 200
  <2>1. Fail(r, access)
    BY <1>2 DEF FindCertificates
  <2>2. pc'[r] = "done" /\ response'[r].status # 200
    BY <1>2, <2>1 DEF Fail, Answer, IInv, TypeOK
  <2>3. QED
    BY <2>2 DEF Listed, Succeeded
<1>3. CASE access = 200
  <2>1. PICK certs \in mapRowsToCertificates(rows) : \E page \in SetToSeqs(certs) : Lists(page)
    BY <1>3 DEF FindCertificates
  <2>2. PICK page \in SetToSeqs(certs) : Lists(page)
    BY <2>1
  <2>3. read'[r] = page /\ pc'[r] = IF page = <<>> THEN "done" ELSE "logListed"
    BY <2>2 DEF IInv, TypeOK
  <2>4. ReadWritten(r, logged[r])'
    BY <1>1 DEF ReadWritten
  <2>5. pc'[r] = "done" => ReadWritten(r, Len(read[r]))'
    <3>1. SUFFICES ASSUME pc'[r] = "done" PROVE ReadWritten(r, Len(read[r]))'
      OBVIOUS
    <3>2. Len(read'[r]) = 0
      BY <2>3, <3>1
    <3>3. QED
      BY <3>2 DEF ReadWritten
  <2>6. QED
    BY <2>3, <2>4, <2>5 DEF Listed
<1>4. QED
  BY <1>2, <1>3

(* A list that arrives has read nothing. *)
LEMMA ReceiveListed ==
    ASSUME IInv, NEW r \in Request, Receive(r)
    PROVE  Listed(r)'
<1>1. PICK b \in Sends[r] :
        /\ body' = [body EXCEPT ![r] = b]
        /\ b.op = "list" => Goto(r, "findCertificates")
  BY DEF Receive
<1>2. body'[r] = b
  BY <1>1 DEF IInv, TypeOK
<1>3. b.op = "list" => pc'[r] = "findCertificates"
  BY <1>1 DEF Goto, IInv, TypeOK
<1>4. QED
  BY <1>2, <1>3 DEF Listed

(* What others do leaves it as it is. *)
LEMMA ApartListed ==
    ASSUME NEW r \in Request, NEW q \in Request \ {r}, Apart(r), Listed(q)
    PROVE  Listed(q)'
<1>1. /\ pc'[q] = pc[q] /\ body'[q] = body[q] /\ response'[q] = response[q]
      /\ read'[q] = read[q] /\ logged'[q] = logged[q]
      /\ audit_log \subseteq audit_log'
  BY DEF Apart
<1>2. Succeeded(q)' <=> Succeeded(q)
  BY <1>1 DEF Succeeded
<1>3. \A n : ReadWritten(q, n) => \A i \in 1..n :
        Has(audit_log', q, "READ", Resource(body[q].op), read[q][i])
  BY <1>1, HasGrows DEF ReadWritten
<1>4. ReadWritten(q, logged[q]) => ReadWritten(q, logged[q])'
  BY <1>1, <1>3 DEF ReadWritten
<1>5. ReadWritten(q, Len(read[q])) => ReadWritten(q, Len(read[q]))'
  BY <1>1, <1>3 DEF ReadWritten
<1>6. QED
  BY <1>1, <1>2, <1>4, <1>5 DEF Listed

(* The request that takes a step has written down what it should. *)
LEMMA OwnListed ==
    ASSUME "db" \notin Faults, IInv, NEW r \in Request, Listed(r),
           Receive(r) \/ Handle(r) \/ Crash(r)
    PROVE  Listed(r)'
<1>1. CASE Receive(r) \/ FindCertificates(r)
  BY <1>1, ReceiveListed, FindCertificatesListed
<1>2. CASE LogListed(r)
  <2>1. body'[r] = body[r]
    BY <1>2 DEF LogListed
  <2>2. CASE body[r] # None /\ body[r].op = "list"
    BY <1>2, <2>2, LogListedListed
  <2>3. QED
    BY <2>1, <2>2 DEF Listed
<1>3. CASE Crash(r)
  <2>1. pc'[r] = "crashed"
    BY <1>3 DEF Crash, IInv, TypeOK
  <2>2. QED
    BY <2>1 DEF Listed
<1>4. CASE ~(Receive(r) \/ FindCertificates(r) \/ LogListed(r) \/ Crash(r))
  <2>1. ~StatementFails(r)
    BY DEF StatementFails
  <2>2. /\ pc[r] \notin {"findCertificates", "logListed", "done", "crashed"}
        /\ body' = body
    BY <1>4, <2>1 DEF Handle, Execute, FindUser, FindSignatory, FindSigningKeys,
          InsertKeyPair, InsertCertificate, Commit, LogCertificate, LogKeyPair,
          FindCertificate, FindKeyPair, LogRead
  <2>3. QED
    BY <2>2 DEF Listed
<1>5. QED
  BY <1>1, <1>2, <1>3, <1>4

(* On a healthy database what lists have written down is an invariant. *)
LEMMA ListedInvariance ==
    ASSUME "db" \notin Faults
    PROVE  Spec => [](IInv /\ \A r \in Request : Listed(r))
<1> DEFINE LInv == \A r \in Request : Listed(r)
<1>1. Init => LInv
  BY DEF Init, Listed
<1>2. IInv /\ LInv /\ [Next]_vars => LInv'
  <2> SUFFICES ASSUME IInv, LInv, [Next]_vars PROVE LInv'
    OBVIOUS
  <2>1. CASE Next
    <3>1. PICK r \in Request : Receive(r) \/ Handle(r) \/ Crash(r)
      BY <2>1 DEF Next
    <3>2. Apart(r) /\ Grows
      BY <2>1, <3>1, StepsApart, AlwaysGrows
    <3>3. Listed(r)'
      BY <3>1, OwnListed
    <3>4. \A q \in Request \ {r} : Listed(q)'
      BY <3>2, ApartListed
    <3>5. QED
      BY <3>3, <3>4
  <2>2. CASE UNCHANGED vars
    <3>1. UNCHANGED <<audit_log, pc, body, read, logged, response>>
      BY <2>2 DEF vars
    <3>2. ASSUME NEW r \in Request PROVE Listed(r)'
      BY <3>1 DEF Listed, ReadWritten, Succeeded
    <3>3. QED
      BY <3>2
  <2>3. QED
    BY <2>1, <2>2
<1>3. QED
  BY <1>1, <1>2, InitIInv, Inductive, PTL DEF Spec

(* The safety half of ListingIsAudited: a list whose goroutine has run to its end has an
   event in the audit log for each certificate that it answered. *)
EndedListIsAudited ==
    \A r \in Request :
        Succeeded(r) /\ body[r].op = "list" /\ pc[r] = "done" =>
            \A i \in DOMAIN response[r].certs :
                Audited(r, "READ", "certificate", response[r].certs[i])

(* On a healthy database no certificate of a list is left out of the audit log, though
   its events are written behind the answer and next to those of other requests. *)
THEOREM ListsAreAudited ==
    ASSUME "db" \notin Faults
    PROVE  Spec => []EndedListIsAudited
<1>1. IInv /\ RInv /\ (\A r \in Request : Listed(r)) => EndedListIsAudited
  <2> SUFFICES ASSUME IInv, RInv, NEW r \in Request, Listed(r),
                      Succeeded(r), body[r].op = "list", pc[r] = "done",
                      NEW i \in DOMAIN response[r].certs
               PROVE  Audited(r, "READ", "certificate", response[r].certs[i])
    BY DEF EndedListIsAudited
  <2>1. response[r].certs = read[r] /\ DOMAIN read[r] = 1..Len(read[r]) /\ body[r] # None
    BY DEF RInv, Knows, AnswerOK, IInv, TypeOK, ReadOK
  <2>2. Has(audit_log, r, "READ", "certificate", read[r][i])
    BY <2>1 DEF Listed, ReadWritten, Resource
  <2>3. QED
    BY <2>1, <2>2 DEF Has, Audited
<1>2. QED
  BY <1>1, ReadsInvariance, ListedInvariance, PTL

-----------------------------------------------------------------------------
(* Progress: what liveness rests on, whatever fails *)

(* Certificates and key pairs are stored once and for good: no step changes or removes a
   row, and none an event of the audit log. *)
RowsAreForGood ==
    [][/\ \A c \in Request : certificate[c] # None =>
             certificate'[c] = certificate[c] /\ key_pair'[c] = key_pair[c]
       /\ audit_log \subseteq audit_log']_vars

(* What a handler has read is still so when it uses it, however many statements of
   others lie in between. *)
THEOREM StoredForGood == Spec => RowsAreForGood
<1>1. IInv /\ [Next]_vars =>
        [/\ \A c \in Request : certificate[c] # None =>
               certificate'[c] = certificate[c] /\ key_pair'[c] = key_pair[c]
         /\ audit_log \subseteq audit_log']_vars
  BY AlwaysGrows, StepsApart DEF Next, Grows, Apart
<1>2. QED
  BY <1>1, Invariance, PTL DEF Spec, RowsAreForGood

(* The number of requests, which is that of the certificates there can be *)
N == Cardinality(Request)

(* A walk up a chain meets no certificate twice: the forest has no cycle to go round. *)
LEMMA WalkNeverRepeats ==
    ASSUME IInv, NEW r \in Request, Knows(r), body[r] # None, body[r].op = "fullchain",
           NEW i \in DOMAIN read[r], NEW j \in DOMAIN read[r], i < j
    PROVE  read[r][i] # read[r][j]
<1> DEFINE S == {read[r][k] : k \in i..(j - 1)}
<1>1. SUFFICES ASSUME read[r][i] = read[r][j] PROVE FALSE
  OBVIOUS
<1>2. /\ Len(read[r]) \in Nat /\ DOMAIN read[r] = 1..Len(read[r])
      /\ i \in Nat /\ j \in Nat /\ 1 <= i /\ j <= Len(read[r])
  BY DEF IInv, TypeOK
<1>3. /\ \A k \in DOMAIN read[r] : Stored(read[r][k]) /\ certificate[read[r][k]].type # "ROOT_CA"
      /\ \A k \in 1..Len(read[r]) - 1 : certificate[read[r][k]].signatory = read[r][k + 1]
  BY DEF Knows, AllMine, Mine, Ascends
<1>4. \A k \in i..(j - 1) : k \in DOMAIN read[r] /\ k \in 1..Len(read[r]) - 1
  BY <1>2
<1>5. S \in SUBSET Below /\ read[r][i] \in S
  BY <1>2, <1>3, <1>4 DEF Below, Stored
<1>6. PICK c \in S : certificate[c].signatory \notin S
  BY <1>5 DEF IInv, WellFounded
<1>7. PICK k \in i..(j - 1) : c = read[r][k]
  OBVIOUS
<1>8. certificate[c].signatory = read[r][k + 1]
  BY <1>3, <1>4, <1>7
<1>9. k + 1 \in i..(j - 1) \/ k + 1 = j
  BY <1>2, <1>7
<1>10. QED
  BY <1>1, <1>5, <1>6, <1>8, <1>9

(* No element of a sequence occurs in it twice *)
Distinct(s) == \A i, j \in DOMAIN s : i # j => s[i] # s[j]

(* Such a sequence is no longer than there are certificates. *)
LEMMA DistinctIsShort ==
    ASSUME NEW s \in Seq(Request), Distinct(s)
    PROVE  N \in Nat /\ Len(s) \in Nat /\ Len(s) <= N
<1> DEFINE n == Len(s)
<1>1. n \in Nat /\ DOMAIN s = 1..n /\ s \in [1..n -> Request]
  OBVIOUS
<1>2. N \in Nat
  BY FS_CardinalityType, RequestAssumption DEF N
<1> HIDE DEF n
<1>3. IsFiniteSet(1..n) /\ Cardinality(1..n) = n
  BY <1>1, FS_Interval
<1>4. ASSUME N < n PROVE FALSE
  <2>1. PICK i, j \in 1..n : i # j /\ s[i] = s[j]
    BY <1>1, <1>3, <1>4, RequestAssumption, FS_PigeonHole DEF N
  <2>2. QED
    BY <1>1, <2>1 DEF Distinct
<1>5. QED
  BY <1>1, <1>2, <1>4 DEF n

(* The rows of a query are listed once each. *)
LEMMA PageIsDistinct ==
    ASSUME NEW rows \in SUBSET Request, NEW certs \in mapRowsToCertificates(rows),
           NEW page \in SetToSeqs(certs)
    PROVE  Distinct(page)
<1>1. IsFiniteSet(certs)
  BY FS_Subset, RequestAssumption DEF mapRowsToCertificates
<1>2. DOMAIN page = 1..Cardinality(certs)
  BY DEF SetToSeqs
<1>3. QED
  BY <1>2 DEF SetToSeqs, Distinct

(* How many steps a request at the statement s has left at most, once it has read n
   certificates and written events about l of them *)
StepsLeft(s, n, l) ==
    CASE s = "idle" -> 2 * N + 9
      [] s = "findUser" -> 8
      [] s = "findSignatory" -> 7
      [] s = "findSigningKeys" -> 6
      [] s = "insertKeyPair" -> 5
      [] s = "insertCertificate" -> 4
      [] s = "commit" -> 3
      [] s = "logCertificate" -> 2
      [] s = "logKeyPair" -> 1
      [] s = "findCertificate" -> 2 * N + 3 - n
      [] s = "findKeyPair" -> N + 2
      [] s = "findCertificates" -> N + 1
      [] s \in {"logRead", "logListed"} -> n - l
      [] s \in {"done", "crashed"} -> 0

Left(r) == StepsLeft(pc[r], Len(read[r]), logged[r])

(* What a request has done when it gets to where it is *)
Advanced(r) ==
    /\ pc[r] = "findCertificate" /\ body[r].op # "fullchain" => read[r] = <<>>
    /\ Distinct(read[r])
    /\ pc[r] \in {"done", "logListed"} => response[r] # None
    /\ response[r] # None => pc[r] \in {"done", "logListed", "crashed"}

(* There are steps left as long as a request has not ended. *)
LEMMA StepsAreLeft ==
    ASSUME IInv, NEW r \in Request, Distinct(read[r])
    PROVE  /\ N \in Nat /\ Left(r) \in Nat
           /\ pc[r] \in Statement \cup {"idle"} => Left(r) > 0
           /\ pc[r] \in {"done", "crashed"} => Left(r) = 0
<1> DEFINE n == Len(read[r])
           l == logged[r]
<1>1. N \in Nat /\ n \in Nat /\ n <= N
  BY DistinctIsShort DEF IInv, TypeOK
<1>2. /\ l \in Nat
      /\ pc[r] \in {"logRead", "logListed"} => l < n
      /\ pc[r] \in Statement \cup {"idle", "done", "crashed"}
  BY DEF IInv, TypeOK, ReadOK
<1> HIDE DEF n, l
<1>3. CASE pc[r] \in {"done", "crashed"}
  <2>1. Left(r) = 0
    BY <1>3 DEF Left, StepsLeft
  <2>2. QED
    BY <1>1, <1>3, <2>1 DEF Statement
<1>4. CASE pc[r] \in Statement \cup {"idle"}
  <2>1. StepsLeft(pc[r], n, l) \in Nat /\ StepsLeft(pc[r], n, l) > 0
    <3>1. CASE pc[r] \in {"logRead", "logListed"}
      <4>1. StepsLeft(pc[r], n, l) = n - l
        BY <3>1 DEF StepsLeft
      <4>2. QED
        BY <1>1, <1>2, <3>1, <4>1
    <3>2. CASE pc[r] \in {"idle", "findCertificate", "findKeyPair", "findCertificates"}
      <4>1. \/ StepsLeft(pc[r], n, l) = 2 * N + 9
            \/ StepsLeft(pc[r], n, l) = 2 * N + 3 - n
            \/ StepsLeft(pc[r], n, l) = N + 2
            \/ StepsLeft(pc[r], n, l) = N + 1
        BY <3>2 DEF StepsLeft
      <4>2. QED
        BY <1>1, <4>1
    <3>3. CASE pc[r] \in CreateStatement
      <4>1. \/ StepsLeft(pc[r], n, l) = 8 \/ StepsLeft(pc[r], n, l) = 7
            \/ StepsLeft(pc[r], n, l) = 6 \/ StepsLeft(pc[r], n, l) = 5
            \/ StepsLeft(pc[r], n, l) = 4 \/ StepsLeft(pc[r], n, l) = 3
            \/ StepsLeft(pc[r], n, l) = 2 \/ StepsLeft(pc[r], n, l) = 1
        BY <3>3 DEF StepsLeft, CreateStatement
      <4>2. QED
        BY <4>1
    <3>4. QED
      BY <1>4, <3>1, <3>2, <3>3 DEF Statement, CreateStatement
  <2>2. Left(r) = StepsLeft(pc[r], n, l)
    BY DEF Left, n, l
  <2>3. pc[r] \notin {"done", "crashed"}
    BY <1>4 DEF Statement
  <2>4. QED
    BY <1>1, <2>1, <2>2, <2>3
<1>5. QED
  BY <1>2, <1>3, <1>4

(* A request that is refused has no step left. *)
LEMMA RefusedAdvances ==
    ASSUME IInv, NEW r \in Request, Advanced(r), response[r] = None,
           pc[r] \in Statement \cup {"idle"},
           NEW e \in ErrorStatus, Fail(r, e), read'[r] = read[r]
    PROVE  Left(r)' < Left(r) /\ Advanced(r)'
<1>1. pc'[r] = "done" /\ response'[r] = [status |-> e]
  BY DEF Fail, Answer, IInv, TypeOK
<1>2. response'[r] # None
  BY <1>1, AnswerTypes, NotNone DEF ErrorStatus
<1>3. Left(r)' = 0
  BY <1>1 DEF Left, StepsLeft
<1>4. Left(r) > 0
  BY StepsAreLeft DEF Advanced
<1>5. QED
  BY <1>1, <1>2, <1>3, <1>4 DEF Advanced

(* A request that is answered when it gets where its steps end, or takes one of them. *)
LEMMA MovingAdvances ==
    ASSUME IInv, NEW r \in Request, Advanced(r), pc[r] \in Statement \cup {"idle"},
           NEW next \in Statement \ {"findCertificate", "logListed"}, Goto(r, next),
           response[r] = None, read'[r] = read[r],
           StepsLeft(next, Len(read[r]), logged'[r]) < Left(r)
    PROVE  Left(r)' < Left(r) /\ Advanced(r)'
<1>1. pc'[r] = next /\ response'[r] = None
  BY DEF Goto, IInv, TypeOK
<1>2. next \notin {"findCertificate", "logListed", "done"}
  BY DEF Statement
<1>3. QED
  BY <1>1, <1>2 DEF Left, Advanced

(* The create steps go through their statements in order. *)
LEMMA CreatingAdvances ==
    ASSUME IInv, NEW r \in Request, Advanced(r),
           \/ FindUser(r) \/ FindSignatory(r) \/ FindSigningKeys(r) \/ InsertKeyPair(r)
           \/ InsertCertificate(r) \/ Commit(r) \/ LogCertificate(r)
    PROVE  Left(r)' < Left(r) /\ Advanced(r)'
<1>1. /\ pc[r] \in CreateStatement \ {"logKeyPair"}
      /\ read' = read /\ logged' = logged
  BY DEF FindUser, FindSignatory, FindSigningKeys, InsertKeyPair, InsertCertificate, Commit,
         LogCertificate, CreateStatement
<1>2. pc[r] \in Statement /\ response[r] = None
  BY <1>1 DEF CreateStatement, Statement, Advanced
<1>3. \/ \E e \in ErrorStatus : Fail(r, e)
      \/ \E n \in Statement \ {"findCertificate", "logListed"} :
            Goto(r, n) /\ StepsLeft(n, Len(read[r]), logged'[r]) < Left(r)
  <2>1. CASE FindUser(r)
    <3>1. (\E e \in ErrorStatus : Fail(r, e)) \/ Goto(r, "findSignatory") \/ Goto(r, "insertKeyPair")
      BY <2>1 DEF FindUser, CreateStatus, ErrorStatus
    <3>2. pc[r] = "findUser"
      BY <2>1 DEF FindUser
    <3>3. QED
      BY <3>1, <3>2 DEF Statement, Left, StepsLeft
  <2>2. CASE FindSignatory(r)
    BY <2>2, AccessTypes DEF FindSignatory, ErrorStatus, Statement, Left, StepsLeft
  <2>3. CASE FindSigningKeys(r)
    <3>1. \/ \E e \in ErrorStatus : Fail(r, e)
          \/ Goto(r, "insertKeyPair")
      BY <2>3, AccessTypes DEF FindSigningKeys, ErrorStatus
    <3>2. pc[r] = "findSigningKeys"
      BY <2>3 DEF FindSigningKeys
    <3>3. QED
      BY <3>1, <3>2 DEF Statement, Left, StepsLeft
  <2>4. CASE InsertKeyPair(r)
    BY <2>4 DEF InsertKeyPair, ErrorStatus, Statement, Left, StepsLeft
  <2>5. CASE InsertCertificate(r)
    BY <2>5 DEF InsertCertificate, ErrorStatus, Statement, Left, StepsLeft
  <2>6. CASE Commit(r)
    BY <2>6 DEF Commit, ErrorStatus, Statement, Left, StepsLeft
  <2>7. CASE LogCertificate(r)
    BY <2>7 DEF LogCertificate, Statement, Left, StepsLeft
  <2>8. QED
    BY <2>1, <2>2, <2>3, <2>4, <2>5, <2>6, <2>7
<1>4. CASE \E e \in ErrorStatus : Fail(r, e)
  BY <1>1, <1>2, <1>4, RefusedAdvances
<1>5. CASE \E n \in Statement \ {"findCertificate", "logListed"} :
            Goto(r, n) /\ StepsLeft(n, Len(read[r]), logged'[r]) < Left(r)
  BY <1>1, <1>2, <1>5, MovingAdvances
<1>6. QED
  BY <1>3, <1>4, <1>5

(* The last event of a create, or of a read, is followed by the answer. *)
LEMMA LoggingAdvances ==
    ASSUME IInv, NEW r \in Request, Advanced(r), LogKeyPair(r) \/ LogRead(r) \/ LogListed(r)
    PROVE  /\ Left(r)' < Left(r) /\ Advanced(r)'
           /\ response[r] # None => response'[r] = response[r]
<1>1. pc[r] \in {"logKeyPair", "logRead", "logListed"} /\ read' = read
  BY DEF LogKeyPair, LogRead, LogListed
<1>2. /\ read[r] \in Seq(Request) /\ Len(read[r]) \in Nat /\ logged[r] \in Nat
      /\ pc[r] \in {"logRead", "logListed"} => logged[r] < Len(read[r])
  BY DEF IInv, TypeOK, ReadOK
<1>3. response[r] = None \/ pc[r] = "logListed"
  BY <1>1 DEF Advanced
<1>4. CASE LogKeyPair(r)
  <2>1. /\ pc[r] = "logKeyPair" /\ pc'[r] = "done" /\ response'[r] = Success(<<r>>)
    BY <1>4 DEF LogKeyPair, Answer, IInv, TypeOK
  <2>2. Success(<<r>>) # None
    <3> DEFINE certs == <<r>>
    <3>1. certs \in Seq(Request)
      OBVIOUS
    <3> HIDE DEF certs
    <3>2. Success(certs) # None
      BY <3>1, SuccessAnswered
    <3>3. QED
      BY <3>2 DEF certs
  <2>3. response'[r] # None
    BY <2>1, <2>2
  <2>4. Left(r) = 1
    BY <2>1 DEF Left, StepsLeft
  <2>5. Left(r)' = 0
    BY <2>1 DEF Left, StepsLeft
  <2>6. Advanced(r)'
    BY <1>1, <2>1, <2>3 DEF Advanced
  <2>7. QED
    BY <1>3, <2>1, <2>4, <2>5, <2>6
<1>5. CASE LogRead(r) \/ LogListed(r)
  <2>1. logged'[r] = logged[r] + 1
    BY <1>5 DEF LogRead, LogListed, LogNext, IInv, TypeOK
  <2>2. \/ /\ pc[r] = "logRead"
           /\ \/ pc'[r] = "logRead" /\ response'[r] = response[r] /\ logged[r] + 1 # Len(read[r])
              \/ pc'[r] = "done" /\ response'[r] = Success(read[r])
        \/ /\ pc[r] = "logListed" /\ response'[r] = response[r]
           /\ pc'[r] = "done" \/ (pc'[r] = "logListed" /\ logged[r] + 1 # Len(read[r]))
    BY <1>5 DEF LogRead, LogListed, AllLogged, Goto, Answer, IInv, TypeOK
  <2>3. Success(read[r]) # None
    BY <1>2, SuccessAnswered
  <2>4. Advanced(r)'
    BY <1>1, <1>3, <2>2, <2>3 DEF Advanced
  <2>5. Left(r) = Len(read[r]) - logged[r]
    BY <2>2 DEF Left, StepsLeft
  <2>6. Left(r)' = 0 \/ Left(r)' = Len(read[r]) - (logged[r] + 1)
    BY <1>1, <2>1, <2>2 DEF Left, StepsLeft
  <2>7. QED
    BY <1>2, <1>3, <2>2, <2>4, <2>5, <2>6
<1>6. QED
  BY <1>4, <1>5

(* A list is read at once; its events are left to write. *)
LEMMA ListingAdvances ==
    ASSUME IInv, NEW r \in Request, Advanced(r), FindCertificates(r)
    PROVE  Left(r)' < Left(r) /\ Advanced(r)'
<1> DEFINE rows == FindByAccountIDAndTypes(body[r].account, body[r].types)
           access == AccountAccess(body[r].user, body[r].account)
           Lists(page) ==
             /\ read' = [read EXCEPT ![r] = page]
             /\ response' = [response EXCEPT ![r] = Success(page)]
             /\ pc' = [pc EXCEPT ![r] = IF page = <<>> THEN "done" ELSE "logListed"]
<1>1. /\ pc[r] = "findCertificates" /\ logged' = logged /\ access \in {200, 401, 403}
      /\ response[r] = None /\ logged[r] = 0 /\ pc[r] \in Statement
  BY AccessTypes DEF FindCertificates, Advanced, IInv, ReadOK, Statement
<1>2. CASE access # 200
  <2>1. Fail(r, access) /\ read' = read
    BY <1>2 DEF FindCertificates
  <2>2. QED
    BY <1>1, <1>2, <2>1, RefusedAdvances DEF ErrorStatus
<1>3. CASE access = 200
  <2>1. PICK certs \in mapRowsToCertificates(rows) : \E page \in SetToSeqs(certs) : Lists(page)
    BY <1>3 DEF FindCertificates
  <2>2. PICK page \in SetToSeqs(certs) : Lists(page)
    BY <2>1
  <2>3. rows \in SUBSET Request
    BY DEF FindByAccountIDAndTypes
  <2>4. page \in Seq(Request) /\ Distinct(page)
    BY <2>3, PageIsDistinct, PageTypes
  <2>5. /\ read'[r] = page /\ response'[r] = Success(page)
        /\ pc'[r] \in {"done", "logListed"}
    BY <2>2 DEF IInv, TypeOK
  <2>6. response'[r] # None
    BY <2>4, <2>5, SuccessAnswered
  <2>7. N \in Nat /\ Len(page) \in Nat /\ Len(page) <= N
    BY <2>4, DistinctIsShort
  <2>8. Left(r) = N + 1 /\ (Left(r)' = 0 \/ Left(r)' = Len(page) - 0)
    BY <1>1, <2>5 DEF Left, StepsLeft
  <2>9. QED
    BY <2>4, <2>5, <2>6, <2>7, <2>8 DEF Advanced
<1>4. QED
  BY <1>2, <1>3

(* One more certificate is read, of a chain or the only one. *)
LEMMA FindCertificateAdvances ==
    ASSUME IInv, NEW r \in Request, Advanced(r), FindCertificate(r),
           read'[r] \in Seq(Request), body[r].op = "fullchain" => Distinct(read'[r])
    PROVE  Left(r)' < Left(r) /\ Advanced(r)'
<1> DEFINE c == Cursor(r)
           access == AccountAccess(body[r].user, certificate[c].account)
           op == body[r].op
           n == Len(read[r])
<1>1. /\ pc[r] = "findCertificate" /\ pc[r] \in Statement /\ response[r] = None
      /\ body' = body /\ logged' = logged /\ logged[r] = 0
      /\ op \in {"get", "body", "fullchain", "privateKey"} /\ access \in {200, 401, 403}
  BY AccessTypes DEF FindCertificate, Statement, Advanced, IInv, ReadOK
<1>2. N \in Nat /\ n \in Nat /\ n <= N /\ read[r] \in Seq(Request) /\ Left(r) = 2 * N + 3 - n
  BY <1>1, DistinctIsShort DEF IInv, TypeOK, Advanced, Left, StepsLeft
<1>3. CASE \E e \in ErrorStatus : Fail(r, e) /\ read' = read
  BY <1>1, <1>3, RefusedAdvances
<1>4. CASE Goto(r, "logRead") /\ read' = read
  <2>1. pc'[r] = "logRead" /\ response' = response
    BY <1>4 DEF Goto, IInv, TypeOK
  <2>2. Left(r)' = n - 0
    BY <1>1, <1>4, <2>1 DEF Left, StepsLeft
  <2>3. Advanced(r)'
    BY <1>1, <1>4, <2>1 DEF Advanced
  <2> HIDE DEF n
  <2>4. QED
    BY <1>2, <2>2, <2>3
<1>5. CASE /\ Stored(c) /\ read' = [read EXCEPT ![r] = Append(@, c)]
           /\ Goto(r, IF op = "fullchain" /\ certificate[c].signatory # None THEN "findCertificate"
                      ELSE IF op = "privateKey" THEN "findKeyPair" ELSE "logRead")
  <2>1. read'[r] = Append(read[r], c) /\ c \in Request
    BY <1>5 DEF IInv, TypeOK, Stored
  <2>2. Len(read'[r]) = n + 1
    BY <1>2, <2>1
  <2>3. Distinct(read'[r])
    <3>1. CASE op # "fullchain"
      <4>1. read'[r] = <<c>>
        <5>1. read[r] = <<>>
          BY <1>1, <3>1 DEF Advanced
        <5>2. QED
          BY <2>1, <5>1
      <4>2. QED
        BY <4>1 DEF Distinct
    <3>2. QED
      BY <3>1
  <2>4. /\ response' = response
        /\ \/ pc'[r] = "findCertificate" /\ op = "fullchain"
           \/ pc'[r] = "findKeyPair"
           \/ pc'[r] = "logRead"
    BY <1>5 DEF Goto, IInv, TypeOK
  <2>5. Advanced(r)'
    BY <1>1, <2>2, <2>3, <2>4 DEF Advanced
  <2> DEFINE m == Len(read'[r])
  <2> HIDE DEF m
  <2>6. Left(r)' = 2 * N + 3 - m \/ Left(r)' = N + 2 \/ Left(r)' = m - 0
    BY <1>1, <2>4 DEF Left, StepsLeft, m
  <2>7. m = n + 1 /\ m <= N
    BY <2>2, <2>3, DistinctIsShort DEF m
  <2> HIDE DEF n
  <2>8. Left(r)' < Left(r)
    BY <1>2, <2>6, <2>7
  <2>9. QED
    BY <2>5, <2>8
<1>6. QED
  BY <1>1, <1>3, <1>4, <1>5 DEF FindCertificate, ErrorStatus

(* The key pair is looked at once. *)
LEMMA FindKeyPairAdvances ==
    ASSUME IInv, NEW r \in Request, Advanced(r), FindKeyPair(r)
    PROVE  Left(r)' < Left(r) /\ Advanced(r)'
<1>1. /\ pc[r] = "findKeyPair" /\ pc[r] \in Statement /\ response[r] = None
      /\ read' = read /\ logged' = logged /\ logged[r] = 0
  BY DEF FindKeyPair, Statement, Advanced, IInv, ReadOK
<1>2. /\ N \in Nat /\ Len(read[r]) \in Nat /\ Len(read[r]) <= N
  BY DistinctIsShort DEF IInv, TypeOK, Advanced
<1>3. \/ \E e \in ErrorStatus : Fail(r, e)
      \/ Goto(r, "logRead")
  BY AccessTypes DEF FindKeyPair, ErrorStatus
<1>4. CASE Goto(r, "logRead")
  <2>1. Left(r) = N + 2 /\ StepsLeft("logRead", Len(read[r]), logged'[r]) = Len(read[r]) - 0
    BY <1>1 DEF Left, StepsLeft
  <2>2. StepsLeft("logRead", Len(read[r]), logged'[r]) < Left(r)
    BY <1>2, <2>1
  <2>3. "logRead" \in Statement \ {"findCertificate", "logListed"}
    BY DEF Statement
  <2>4. QED
    BY <1>1, <1>4, <2>2, <2>3, MovingAdvances
<1>5. QED
  BY <1>1, <1>3, <1>4, RefusedAdvances

(* A request that arrives has all its steps ahead. *)
LEMMA ReceiveAdvances ==
    ASSUME IInv, NEW r \in Request, Knows(r), Advanced(r), Receive(r)
    PROVE  Left(r)' < Left(r) /\ Advanced(r)'
<1>1. /\ pc[r] = "idle" /\ response[r] = None /\ read' = read /\ read[r] = <<>>
      /\ logged' = logged
  BY DEF Receive, Knows
<1>2. \/ \E e \in ErrorStatus : Fail(r, e)
      \/ \E n \in {"findUser", "findCertificate", "findCertificates"} : Goto(r, n)
  <2>1. \/ Goto(r, "findUser") \/ Goto(r, "findCertificate") \/ Goto(r, "findCertificates")
        \/ Fail(r, 400) \/ Fail(r, 403)
    BY DEF Receive
  <2>2. 400 \in ErrorStatus /\ 403 \in ErrorStatus
    BY DEF ErrorStatus
  <2>3. QED
    BY <2>1, <2>2
<1>3. N \in Nat /\ Left(r) = 2 * N + 9
  BY <1>1, FS_CardinalityType, RequestAssumption DEF N, Left, StepsLeft
<1>4. CASE \E n \in {"findUser", "findCertificate", "findCertificates"} : Goto(r, n)
  <2>1. /\ pc'[r] \in {"findUser", "findCertificate", "findCertificates"}
        /\ response'[r] = None
    BY <1>1, <1>4 DEF Goto, IInv, TypeOK
  <2>2. Len(read'[r]) = 0
    BY <1>1
  <2>3. Left(r)' = 8 \/ Left(r)' = 2 * N + 3 - 0 \/ Left(r)' = N + 1
    BY <1>1, <2>1, <2>2 DEF Left, StepsLeft
  <2>4. QED
    BY <1>1, <1>3, <2>1, <2>2, <2>3 DEF Advanced
<1>5. QED
  BY <1>1, <1>2, <1>4, RefusedAdvances

(* Every step of a request takes one of those it had left, and keeps what it answered. *)
LEMMA RequestAdvances ==
    ASSUME IInv, NEW r \in Request, Knows(r), Advanced(r), Receive(r) \/ Handle(r) \/ Crash(r),
           read'[r] \in Seq(Request), body[r] # None /\ body[r].op = "fullchain" => Distinct(read'[r])
    PROVE  /\ Left(r)' < Left(r) /\ Advanced(r)'
           /\ response[r] # None => response'[r] = response[r]
<1>1. CASE LogKeyPair(r) \/ LogRead(r) \/ LogListed(r)
  BY <1>1, LoggingAdvances
<1>2. CASE Crash(r)
  <2>1. /\ pc[r] \in Statement /\ pc'[r] = "crashed"
        /\ read' = read /\ logged' = logged /\ response' = response
    BY <1>2 DEF Crash, IInv, TypeOK
  <2>2. Left(r) > 0
    BY <2>1, StepsAreLeft DEF Advanced
  <2>3. Left(r)' = 0
    BY <2>1 DEF Left, StepsLeft
  <2>4. QED
    BY <2>1, <2>2, <2>3 DEF Advanced
<1>3. CASE StatementFails(r)
  <2>1. /\ pc[r] \in Statement \ {"logListed"} /\ Fail(r, 500) /\ read' = read
        /\ 500 \in ErrorStatus
    BY <1>3 DEF StatementFails, ErrorStatus
  <2>2. response[r] = None
    BY <2>1 DEF Advanced, Statement
  <2>3. QED
    BY <2>1, <2>2, RefusedAdvances
<1>4. CASE ~(LogKeyPair(r) \/ LogRead(r) \/ LogListed(r) \/ Crash(r) \/ StatementFails(r))
  <2>1. pc[r] \notin {"done", "logListed", "crashed"}
    BY <1>4 DEF Receive, Handle, Execute, FindUser, FindSignatory, FindSigningKeys,
          InsertKeyPair, InsertCertificate, Commit, LogCertificate, FindCertificate,
          FindKeyPair, FindCertificates
  <2>2. response[r] = None
    BY <2>1 DEF Advanced
  <2>3. FindCertificate(r) => body[r] # None
    BY DEF FindCertificate, IInv, ReadOK
  <2>4. QED
    BY <1>4, <2>2, <2>3, ReceiveAdvances, CreatingAdvances, FindCertificateAdvances,
       FindKeyPairAdvances, ListingAdvances DEF Handle, Execute
<1>5. QED
  BY <1>1, <1>2, <1>3, <1>4

Walks ==
    \A r \in Request : body[r] # None /\ body[r].op = "fullchain" => Distinct(read[r])

LEMMA WalksAreDistinct == IInv /\ RInv => Walks
<1> SUFFICES ASSUME IInv, RInv, NEW r \in Request, body[r] # None, body[r].op = "fullchain",
                    NEW i \in DOMAIN read[r], NEW j \in DOMAIN read[r], i # j
             PROVE  read[r][i] # read[r][j]
  BY DEF Walks, Distinct
<1>1. Knows(r) /\ (i < j \/ j < i)
  BY DEF RInv, IInv, TypeOK
<1>2. QED
  BY <1>1, WalkNeverRepeats

(* Every step takes one request, and nobody else, nearer to its end, and an answer
   that was given stays: no handler runs in circles, whatever it reads. *)
RequestsAdvance ==
    [][\E r \in Request :
          /\ Left(r)' < Left(r)
          /\ response[r] # None => response'[r] = response[r]
          /\ \A q \in Request \ {r} : Left(q)' = Left(q) /\ response'[q] = response[q]]_vars

(* A request has steps left until it has ended, and has been answered when it has, or
   when only the events of a list are left, unless its replica died. *)
EndIsAnswered ==
    \A r \in Request :
        /\ Left(r) \in Nat
        /\ Left(r) = 0 <=> pc[r] \in {"done", "crashed"}
        /\ pc[r] # "crashed" => (response[r] # None <=> pc[r] \in {"done", "logListed"})

(* No answer names a certificate twice: a chain has no cycle, a list no duplicate. *)
AnswersNameNoneTwice == \A r \in Request : Succeeded(r) => Distinct(response[r].certs)

LEMMA AllAdvance ==
    IInv /\ RInv /\ (\A r \in Request : Advanced(r)) /\ IInv' /\ Walks' /\ [Next]_vars
    => /\ (\A r \in Request : Advanced(r))'
       /\ [\E r \in Request :
             /\ Left(r)' < Left(r)
             /\ response[r] # None => response'[r] = response[r]
             /\ \A q \in Request \ {r} : Left(q)' = Left(q) /\ response'[q] = response[q]]_vars
<1> SUFFICES ASSUME IInv, RInv, \A r \in Request : Advanced(r), IInv', Walks', [Next]_vars
             PROVE
       /\ (\A r \in Request : Advanced(r))'
       /\ [\E r \in Request :
             /\ Left(r)' < Left(r)
             /\ response[r] # None => response'[r] = response[r]
             /\ \A q \in Request \ {r} : Left(q)' = Left(q) /\ response'[q] = response[q]]_vars
  OBVIOUS
<1>1. CASE Next
  <2>1. PICK r \in Request : Receive(r) \/ Handle(r) \/ Crash(r)
    BY <1>1 DEF Next
  <2>2. Apart(r) /\ Grows /\ Knows(r) /\ Advanced(r)
    BY <1>1, <2>1, StepsApart, AlwaysGrows DEF RInv
  <2>3. /\ read'[r] \in Seq(Request)
        /\ body[r] # None /\ body[r].op = "fullchain" => Distinct(read'[r])
    BY <2>2 DEF IInv, TypeOK, Walks, Grows
  <2>4. /\ Left(r)' < Left(r) /\ Advanced(r)'
        /\ response[r] # None => response'[r] = response[r]
    BY <2>1, <2>2, <2>3, RequestAdvances
  <2>5. ASSUME NEW q \in Request \ {r}
        PROVE  Left(q)' = Left(q) /\ response'[q] = response[q] /\ Advanced(q)'
    BY <2>2 DEF Apart, Left, Advanced
  <2>6. QED
    BY <2>4, <2>5
<1>2. CASE UNCHANGED vars
  BY <1>2 DEF vars, Advanced
<1>3. QED
  BY <1>1, <1>2

LEMMA AdvancedInvariance == Spec => RequestsAdvance /\ [](IInv /\ RInv /\ \A r \in Request : Advanced(r))
<1>1. Init => \A r \in Request : Advanced(r)
  BY DEF Init, Advanced, Distinct
<1>2. QED
  BY <1>1, AllAdvance, WalksAreDistinct, ReadsInvariance, PTL DEF Spec, RequestsAdvance

(* Every handler, the walk up a chain included, ends after at most 2N + 9 steps, N the
   number of requests, and leaves an answer unless its replica dies. *)
THEOREM RequestsEnd == Spec => RequestsAdvance /\ []EndIsAnswered
<1>1. IInv /\ (\A r \in Request : Advanced(r)) => EndIsAnswered
  <2> SUFFICES ASSUME IInv, NEW r \in Request, Advanced(r)
               PROVE  /\ Left(r) \in Nat
                      /\ Left(r) = 0 <=> pc[r] \in {"done", "crashed"}
                      /\ pc[r] # "crashed" =>
                           (response[r] # None <=> pc[r] \in {"done", "logListed"})
    BY DEF EndIsAnswered
  <2>1. /\ Left(r) \in Nat
        /\ pc[r] \in Statement \cup {"idle"} => Left(r) > 0
        /\ pc[r] \in {"done", "crashed"} => Left(r) = 0
    BY StepsAreLeft DEF Advanced
  <2>2. pc[r] \in Statement \cup {"idle", "done", "crashed"}
    BY DEF IInv, TypeOK
  <2>3. Left(r) = 0 <=> pc[r] \in {"done", "crashed"}
    BY <2>1, <2>2
  <2>4. QED
    BY <2>1, <2>3 DEF Advanced
<1>2. QED
  BY <1>1, AdvancedInvariance, PTL

(* An answer is a sequence without repetitions. *)
THEOREM AnswersAreDistinct == Spec => []AnswersNameNoneTwice
<1>1. IInv /\ RInv /\ (\A r \in Request : Advanced(r)) => AnswersNameNoneTwice
  <2> SUFFICES ASSUME IInv, RInv, NEW r \in Request, Advanced(r), Succeeded(r)
               PROVE  Distinct(response[r].certs)
    BY DEF AnswersNameNoneTwice
  <2>1. response[r].certs = <<r>> \/ response[r].certs = read[r]
    BY DEF RInv, Knows, AnswerOK
  <2>2. Distinct(<<r>>)
    BY DEF Distinct
  <2>3. QED
    BY <2>1, <2>2 DEF Advanced
<1>2. QED
  BY <1>1, AdvancedInvariance, PTL
=============================================================================
