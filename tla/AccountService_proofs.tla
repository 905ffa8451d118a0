------------------------ MODULE AccountService_proofs ------------------------
(***************************************************************************)
(* Theorems of AccountService for every set of requests, names, emails and *)
(* passwords and for every combination of faults.                          *)
(***************************************************************************)
EXTENDS AccountService, Naturals, TLAPS

(* No two account rows share a name: UNIQUE(`name`). *)
AccountsUnique ==
    \A a, b \in Request : account[a] # None /\ account[a] = account[b] => a = b

(* No two user rows share email and account: UNIQUE(`email`, `account_id`). *)
UsersUnique ==
    \A u, v \in Request :
        /\ user_account[u] # None /\ user_account[v] # None
        /\ user_account[u].email = user_account[v].email
        /\ user_account[u].account = user_account[v].account
        => u = v

(* A stored row carries what its request asked for; a user refers to a stored
   account of the requested name and is ADMIN iff its own signup stored it. *)
RowOK(r) ==
    /\ account[r] # None => body[r] # None /\ account[r] = body[r].name
    /\ user_account[r] # None =>
         /\ body[r] # None
         /\ user_account[r].email = body[r].email
         /\ user_account[r].password = body[r].password
         /\ account[user_account[r].account] = body[r].name
         /\ user_account[r].role = "ADMIN" <=> user_account[r].account = r

(* u is the stored user of body b *)
UserOf(u, b) ==
    /\ user_account[u] # None
    /\ user_account[u].email = b.email
    /\ user_account[u].password = b.password
    /\ account[user_account[u].account] = b.name

(* What a request knows at each of its statements *)
RequestOK(r) ==
    /\ pc[r] = "idle" <=> body[r] = None
    /\ pc[r] \in {"assertNewUser", "findAccount", "saveAccount", "saveUser",
                  "logAccount", "logUser"} => body[r].route = "signup"
    /\ pc[r] \in {"findUser", "logRead"} => body[r].route = "login"
    /\ pc[r] \in {"assertNewUser", "findAccount", "saveAccount"} =>
         account[r] = None /\ user_account[r] = None
    /\ pc[r] \in {"idle", "assertNewUser", "findAccount", "saveAccount"} => found[r] = None
    /\ pc[r] = "saveUser" =>
         /\ user_account[r] = None
         /\ found[r] \in Request
         /\ account[found[r]] = body[r].name
    /\ pc[r] \in {"logAccount", "logUser"} =>
         user_account[r] # None /\ user_account[r].account = found[r]
    /\ pc[r] = "logRead" => found[r] \in Request /\ UserOf(found[r], body[r])

(* What the answer of a request says *)
AnswerOK(r) ==
    response[r] # None /\ response[r].status = 200 =>
        /\ pc[r] = "done"
        /\ response[r].user \in Request
        /\ UserOf(response[r].user, body[r])
        /\ response[r].role = user_account[response[r].user].role
        /\ body[r].route = "signup" => response[r].user = r

(* The inductive invariant *)
IInv ==
    /\ TypeOK
    /\ AccountsUnique
    /\ UsersUnique
    /\ \A r \in Request : RowOK(r) /\ RequestOK(r) /\ AnswerOK(r)
    /\ AuditTellsTheTruth

-----------------------------------------------------------------------------
USE NoneAssumption, NoneRecordAssumption

(* A body, a user row and an answer are never None, and have their fields. *)
LEMMA BodyFields ==
    ASSUME NEW b \in Body
    PROVE  /\ b # None
           /\ b.route \in {"signup", "login"}
           /\ b.name \in AccountName
           /\ b.email \in Email
           /\ b.password \in Password
BY DEF Body

(* The invariant holds before any request arrives. *)
LEMMA InitIInv == Init => IInv
BY DEF Init, IInv, TypeOK, AccountsUnique, UsersUnique, RowOK, RequestOK, AnswerOK,
       UserOf, AuditTellsTheTruth

(* The two forms of an answer are well typed. *)
LEMMA AnswerTypes ==
    /\ \A s \in {400, 401, 409, 500} : [status |-> s] \in Response
    /\ \A u \in Request, ro \in Role :
          [status |-> 200, user |-> u, role |-> ro] \in Response
BY DEF Response

(* A request that has been received has a body. *)
LEMMA BodyKnown ==
    ASSUME IInv, NEW r \in Request, pc[r] # "idle"
    PROVE  body[r] \in Body
BY DEF IInv, TypeOK, RequestOK

(* The types are preserved by every step. *)
LEMMA TypeStep == IInv /\ [Next]_vars => TypeOK'
<1> SUFFICES ASSUME IInv, [Next]_vars PROVE TypeOK'
  OBVIOUS
<1>0. TypeOK
  BY DEF IInv
<1>1. ASSUME NEW r \in Request, Receive(r) PROVE TypeOK'
  BY <1>0, <1>1 DEF Receive, TypeOK, Goto, Statement
<1>2. ASSUME NEW r \in Request, AssertNewUser(r) PROVE TypeOK'
  BY <1>0, <1>2, AnswerTypes DEF AssertNewUser, TypeOK, Goto, Answer, Fail, Statement
<1>3. ASSUME NEW r \in Request, FindAccount(r) PROVE TypeOK'
  BY <1>0, <1>3 DEF FindAccount, FindByName, TypeOK, Goto, Statement
<1>4. ASSUME NEW r \in Request, SaveAccount(r) PROVE TypeOK'
  <2>1. body[r].name \in AccountName
    BY <1>4, BodyKnown, BodyFields DEF SaveAccount
  <2>2. QED
    BY <1>0, <1>4, <2>1, AnswerTypes
       DEF SaveAccount, TypeOK, Goto, Answer, Fail, Statement
<1>5. ASSUME NEW r \in Request, SaveUser(r) PROVE TypeOK'
  <2>1. /\ body[r] \in Body
        /\ found[r] \in Request
    BY <1>5, BodyKnown DEF SaveUser, IInv, RequestOK
  <2>2. [email |-> body[r].email, role |-> RoleOf(r),
         account |-> found[r], password |-> body[r].password] \in User
    BY <2>1, BodyFields DEF User, RoleOf, Role
  <2>3. QED
    BY <1>0, <1>5, <2>2, AnswerTypes
       DEF SaveUser, TypeOK, Goto, Answer, Fail, Statement
<1>6. ASSUME NEW r \in Request, LogAccount(r) PROVE TypeOK'
  <2>1. found[r] \in Request
    BY <1>0, <1>6 DEF LogAccount, IInv, RequestOK, TypeOK, User
  <2>2. audit_log' \subseteq Event
    BY <1>0, <1>6, <2>1 DEF LogAccount, Audit, Event, TypeOK
  <2>3. QED
    BY <1>0, <1>6, <2>2 DEF LogAccount, TypeOK, Goto, Statement
<1>7. ASSUME NEW r \in Request, LogUser(r) PROVE TypeOK'
  <2>1. user_account[r] \in User
    BY <1>0, <1>7 DEF LogUser, IInv, RequestOK, TypeOK
  <2>2. Token(r) \in Response
    BY <2>1, AnswerTypes DEF Token, User
  <2>3. audit_log' \subseteq Event
    BY <1>0, <1>7 DEF LogUser, Audit, Event, TypeOK
  <2>4. QED
    BY <1>0, <1>7, <2>2, <2>3, AnswerTypes DEF LogUser, TypeOK, Answer, Fail
<1>8. ASSUME NEW r \in Request, FindUser(r) PROVE TypeOK'
  BY <1>0, <1>8, AnswerTypes
     DEF FindUser, FindByAccountNameAndEmail, TypeOK, Goto, Answer, Fail, Statement
<1>9. ASSUME NEW r \in Request, LogRead(r) PROVE TypeOK'
  <2>1. /\ found[r] \in Request
        /\ user_account[found[r]] \in User
    BY <1>0, <1>9 DEF LogRead, IInv, RequestOK, UserOf, TypeOK
  <2>2. Token(found[r]) \in Response
    BY <2>1, AnswerTypes DEF Token, User
  <2>3. audit_log' \subseteq Event
    BY <1>0, <1>9, <2>1 DEF LogRead, Audit, Event, TypeOK
  <2>4. QED
    BY <1>0, <1>9, <2>2, <2>3 DEF LogRead, TypeOK, Answer
<1>10. ASSUME NEW r \in Request, StatementFails(r) PROVE TypeOK'
  BY <1>0, <1>10, AnswerTypes DEF StatementFails, TypeOK, Answer, Fail
<1>11. ASSUME NEW r \in Request, Crash(r) PROVE TypeOK'
  BY <1>0, <1>11 DEF Crash, TypeOK
<1>12. CASE UNCHANGED vars
  BY <1>0, <1>12 DEF vars, TypeOK
<1>13. QED
  BY <1>1, <1>2, <1>3, <1>4, <1>5, <1>6, <1>7, <1>8, <1>9, <1>10, <1>11, <1>12
     DEF Next, Handle, Execute

-----------------------------------------------------------------------------
(* Rows and bodies are written once; only the request that steps changes. *)
WrittenOnce ==
    \A q \in Request :
        /\ account[q] # None => account'[q] = account[q]
        /\ user_account[q] # None => user_account'[q] = user_account[q]
        /\ body[q] # None => body'[q] = body[q]

OnlySteps(r) ==
    \A q \in Request \ {r} :
        /\ account'[q] = account[q]
        /\ user_account'[q] = user_account[q]
        /\ pc'[q] = pc[q]
        /\ body'[q] = body[q]
        /\ found'[q] = found[q]
        /\ response'[q] = response[q]

(* A step of r writes rows once, and nothing of the other requests. *)
LEMMA StepFrame ==
    ASSUME IInv, NEW r \in Request, Receive(r) \/ Handle(r) \/ Crash(r)
    PROVE  WrittenOnce /\ OnlySteps(r)
<1>0. TypeOK /\ RequestOK(r)
  BY DEF IInv
<1> USE DEF WrittenOnce, OnlySteps, TypeOK, Goto, Answer, Fail
<1>1. CASE Receive(r)
  BY <1>0, <1>1 DEF Receive, RequestOK
<1>2. CASE AssertNewUser(r) \/ FindAccount(r) \/ FindUser(r) \/ StatementFails(r) \/ Crash(r)
  BY <1>0, <1>2 DEF AssertNewUser, FindAccount, FindUser, StatementFails, Crash
<1>3. CASE LogAccount(r) \/ LogUser(r) \/ LogRead(r)
  BY <1>0, <1>3 DEF LogAccount, LogUser, LogRead
<1>4. CASE SaveAccount(r)
  BY <1>0, <1>4 DEF SaveAccount, RequestOK
<1>5. CASE SaveUser(r)
  BY <1>0, <1>5 DEF SaveUser, RequestOK
<1>6. QED
  BY <1>1, <1>2, <1>3, <1>4, <1>5 DEF Handle, Execute

(* A user found once is found for ever. *)
LEMMA UserOfKept ==
    ASSUME IInv, WrittenOnce, NEW u \in Request, NEW b \in Body, UserOf(u, b)
    PROVE  UserOf(u, b)' /\ user_account'[u] = user_account[u]
<1>1. /\ user_account[u] \in User
      /\ user_account'[u] = user_account[u]
  BY DEF IInv, TypeOK, UserOf, WrittenOnce
<1>2. user_account[u].account \in Request /\ account[user_account[u].account] # None
  BY <1>1, BodyFields DEF UserOf, User
<1>3. QED
  BY <1>1, <1>2 DEF UserOf, WrittenOnce

(* What holds of the requests that do not step is not disturbed. *)
LEMMA OthersKept ==
    ASSUME IInv, NEW r \in Request, WrittenOnce, OnlySteps(r), NEW q \in Request \ {r}
    PROVE  RowOK(q)' /\ RequestOK(q)' /\ AnswerOK(q)'
<1>0. /\ TypeOK /\ RowOK(q) /\ RequestOK(q) /\ AnswerOK(q)
      /\ body[q] \in Body \cup {None}
  BY DEF IInv, TypeOK
<1>1. RowOK(q)'
  <2>1. ASSUME user_account[q] # None
        PROVE  account'[user_account[q].account] = account[user_account[q].account]
    <3>1. user_account[q] \in User /\ body[q] \in Body
      BY <1>0, <2>1 DEF RowOK, TypeOK
    <3>2. user_account[q].account \in Request /\ account[user_account[q].account] # None
      BY <1>0, <2>1, <3>1, BodyFields DEF RowOK, User
    <3>3. QED
      BY <3>2 DEF WrittenOnce
  <2>2. QED
    BY <1>0, <2>1 DEF RowOK, OnlySteps
<1>2. RequestOK(q)'
  <2>1. ASSUME pc[q] = "saveUser" PROVE account'[found[q]] = account[found[q]]
    <3>1. body[q] \in Body
      BY <1>0, <2>1 DEF RequestOK
    <3>2. QED
      BY <1>0, <2>1, <3>1, BodyFields DEF RequestOK, WrittenOnce
  <2>2. ASSUME pc[q] = "logRead" PROVE UserOf(found[q], body[q])'
    <3>1. body[q] \in Body
      BY <1>0, <2>2 DEF RequestOK
    <3>2. UserOf(found[q], body[q]) /\ found[q] \in Request
      BY <1>0, <2>2 DEF RequestOK
    <3>3. found'[q] = found[q] /\ body'[q] = body[q]
      BY DEF OnlySteps
    <3>4. QED
      BY <3>1, <3>2, <3>3, UserOfKept DEF UserOf
  <2>3. QED
    BY <1>0, <2>1, <2>2 DEF RequestOK, OnlySteps
<1>3. AnswerOK(q)'
  <2>1. SUFFICES ASSUME response[q] # None, response[q].status = 200
                 PROVE  AnswerOK(q)'
    BY DEF AnswerOK, OnlySteps
  <2>2. body[q] \in Body
    BY <1>0, <2>1 DEF AnswerOK, RequestOK
  <2>3. /\ UserOf(response[q].user, body[q])'
        /\ user_account'[response[q].user] = user_account[response[q].user]
    <3>1. response[q].user \in Request /\ UserOf(response[q].user, body[q])
      BY <1>0, <2>1 DEF AnswerOK
    <3>2. response'[q] = response[q] /\ body'[q] = body[q]
      BY DEF OnlySteps
    <3>3. QED
      BY <2>2, <3>1, <3>2, UserOfKept DEF UserOf
  <2>4. QED
    BY <1>0, <2>1, <2>3 DEF AnswerOK, OnlySteps, UserOf
<1>4. QED
  BY <1>1, <1>2, <1>3

-----------------------------------------------------------------------------
(* UNIQUE(`name`): the only statement that adds an account row checks it. *)
LEMMA AccountsUniqueStep ==
    ASSUME IInv, NEW r \in Request, Receive(r) \/ Handle(r) \/ Crash(r)
    PROVE  AccountsUnique'
<1>0. TypeOK /\ AccountsUnique
  BY DEF IInv
<1>1. CASE SaveAccount(r)
  BY <1>0, <1>1 DEF SaveAccount, FindByName, AccountsUnique, TypeOK
<1>2. CASE UNCHANGED account
  BY <1>0, <1>2 DEF AccountsUnique
<1>3. QED
  BY <1>1, <1>2 DEF Receive, Handle, Execute, Crash, AssertNewUser, FindAccount, SaveUser,
                    LogAccount, LogUser, FindUser, LogRead, StatementFails

(* UNIQUE(`email`, `account_id`): likewise for the user rows. *)
LEMMA UsersUniqueStep ==
    ASSUME IInv, NEW r \in Request, Receive(r) \/ Handle(r) \/ Crash(r)
    PROVE  UsersUnique'
<1>0. TypeOK /\ UsersUnique
  BY DEF IInv
<1>1. CASE SaveUser(r)
  BY <1>0, <1>1 DEF SaveUser, EmailTaken, UsersUnique, TypeOK
<1>2. CASE UNCHANGED user_account
  BY <1>0, <1>2 DEF UsersUnique
<1>3. QED
  BY <1>1, <1>2 DEF Receive, Handle, Execute, Crash, AssertNewUser, FindAccount, SaveAccount,
                    LogAccount, LogUser, FindUser, LogRead, StatementFails

(* The request that steps: one case per action. *)
LEMMA OwnStep ==
    ASSUME IInv, NEW r \in Request, Receive(r) \/ Handle(r) \/ Crash(r)
    PROVE  RowOK(r)' /\ RequestOK(r)' /\ AnswerOK(r)'
<1>0. TypeOK /\ RowOK(r) /\ RequestOK(r) /\ AnswerOK(r)
  BY DEF IInv
<1>00. WrittenOnce
  BY StepFrame
<1> USE DEF TypeOK, Goto, Answer, Fail
<1>1. CASE Receive(r)
  BY <1>0, <1>1, BodyFields DEF Receive, RowOK, RequestOK, AnswerOK, UserOf
<1>2. CASE AssertNewUser(r)
  BY <1>0, <1>2 DEF AssertNewUser, RowOK, RequestOK, AnswerOK, UserOf
<1>3. CASE FindAccount(r)
  BY <1>0, <1>3 DEF FindAccount, FindByName, RowOK, RequestOK, AnswerOK, UserOf
<1>4. CASE SaveAccount(r)
  BY <1>0, <1>4 DEF SaveAccount, RowOK, RequestOK, AnswerOK, UserOf
<1>5. CASE SaveUser(r)
  <2>1. /\ body[r] \in Body
        /\ found[r] \in Request /\ account[found[r]] = body[r].name
        /\ response[r] # None => response[r].status # 200
    BY <1>0, <1>5, BodyKnown DEF SaveUser, RequestOK, AnswerOK
  <2>2. CASE EmailTaken(body[r].email, found[r]) \/ body[r].email \in TooLong
    BY <1>0, <1>5, <2>1, <2>2 DEF SaveUser, RowOK, RequestOK, AnswerOK, UserOf
  <2>3. CASE ~EmailTaken(body[r].email, found[r]) /\ body[r].email \notin TooLong
    <3>0. user_account'[r] = [email |-> body[r].email, role |-> RoleOf(r),
                              account |-> found[r], password |-> body[r].password]
      BY <1>0, <1>5, <2>3 DEF SaveUser
    <3>1. /\ user_account'[r].email = body[r].email
          /\ user_account'[r].password = body[r].password
          /\ user_account'[r].account = found[r]
          /\ user_account'[r].role = "ADMIN" <=> found[r] = r
      BY <3>0 DEF RoleOf
    <3>2. UNCHANGED <<account, body, found>>
      BY <1>5 DEF SaveUser
    <3>3. RowOK(r)'
      BY <1>0, <2>1, <3>1, <3>2 DEF RowOK
    <3>4. user_account'[r] # None
      <4>1. user_account'[r] \in User
        BY <2>1, <3>0, BodyFields DEF User, RoleOf, Role
      <4>2. QED
        BY <4>1
    <3>5. RequestOK(r)' /\ AnswerOK(r)'
      BY <1>0, <1>5, <2>1, <3>1, <3>2, <3>4 DEF SaveUser, RequestOK, AnswerOK, UserOf
    <3>6. QED
      BY <3>3, <3>5
  <2>4. QED
    BY <2>2, <2>3
<1>6. CASE LogAccount(r)
  BY <1>0, <1>6 DEF LogAccount, RowOK, RequestOK, AnswerOK, UserOf
<1>7. CASE LogUser(r)
  BY <1>0, <1>7 DEF LogUser, Token, RowOK, RequestOK, AnswerOK, UserOf
<1>8. CASE FindUser(r)
  BY <1>0, <1>8 DEF FindUser, FindByAccountNameAndEmail, RowOK, RequestOK, AnswerOK, UserOf
<1>9. CASE LogRead(r)
  BY <1>0, <1>9 DEF LogRead, Token, RowOK, RequestOK, AnswerOK, UserOf
<1>10. CASE StatementFails(r)
  BY <1>0, <1>10 DEF StatementFails, RowOK, RequestOK, AnswerOK, UserOf
<1>11. CASE Crash(r)
  BY <1>0, <1>11 DEF Crash, Statement, RowOK, RequestOK, AnswerOK, UserOf
<1>12. QED
  BY <1>1, <1>2, <1>3, <1>4, <1>5, <1>6, <1>7, <1>8, <1>9, <1>10, <1>11 DEF Handle, Execute

(* An audit event that is true stays true. *)
EventOK(e) ==
    /\ user_account[e.userId] # None
    /\ e.activity = "CREATE" => e.userId = e.id
    /\ e.resource[1] = "user" => e.resource[2] = e.userId
    /\ e.resource[1] = "account" =>
          /\ e.resource[2] = user_account[e.userId].account
          /\ account[e.resource[2]] # None
          /\ (e.activity = "CREATE") <=> (user_account[e.userId].role = "ADMIN")

(* What an event tells stays true. *)
LEMMA EventKept ==
    ASSUME IInv, WrittenOnce, NEW e \in Event, EventOK(e)
    PROVE  EventOK(e)'
<1>1. /\ e.userId \in Request
      /\ user_account'[e.userId] = user_account[e.userId]
  BY DEF EventOK, Event, WrittenOnce
<1>2. ASSUME e.resource[1] = "account"
      PROVE  account'[e.resource[2]] = account[e.resource[2]]
  <2>1. e.resource[2] \in Request
    BY DEF Event
  <2>2. QED
    BY <1>2, <2>1 DEF EventOK, WrittenOnce
<1>3. QED
  BY <1>1, <1>2 DEF EventOK

(* Every event that is written tells the truth. *)
LEMMA AuditStep ==
    ASSUME IInv, NEW r \in Request, Receive(r) \/ Handle(r) \/ Crash(r)
    PROVE  AuditTellsTheTruth'
<1>0. /\ TypeOK /\ RowOK(r) /\ RequestOK(r) /\ WrittenOnce
      /\ audit_log \subseteq Event
      /\ \A e \in audit_log : EventOK(e)
  BY StepFrame DEF IInv, AuditTellsTheTruth, EventOK, TypeOK
<1>1. \A e \in audit_log : EventOK(e)'
  BY <1>0, EventKept
<1>2. ASSUME NEW uid \in Request, NEW act, NEW res, Audit(r, uid, act, res),
             EventOK([id |-> r, userId |-> uid, activity |-> act, resource |-> res])'
      PROVE  AuditTellsTheTruth'
  <2>1. \A e \in audit_log' : EventOK(e)'
    BY <1>1, <1>2 DEF Audit
  <2>2. QED
    BY <2>1 DEF AuditTellsTheTruth, EventOK
<1>3. CASE LogAccount(r)
  <2>1. /\ user_account[r] # None /\ user_account[r].account = found[r]
        /\ UNCHANGED <<account, user_account, found>>
        /\ Audit(r, r, IF found[r] = r THEN "CREATE" ELSE "READ", <<"account", found[r]>>)
    BY <1>0, <1>3 DEF LogAccount, RequestOK
  <2>2. /\ user_account[r].role = "ADMIN" <=> found[r] = r
        /\ body[r] \in Body /\ account[found[r]] = body[r].name
    BY <1>0, <2>1 DEF RowOK, TypeOK
  <2>3. account[found[r]] # None
    BY <2>2, BodyFields
  <2>4. CASE found[r] = r
    <3>1. EventOK([id |-> r, userId |-> r, activity |-> "CREATE",
                   resource |-> <<"account", found[r]>>])'
      BY <2>1, <2>2, <2>3, <2>4 DEF EventOK
    <3>2. QED
      BY <1>2, <2>1, <2>4, <3>1
  <2>5. CASE found[r] # r
    <3>1. EventOK([id |-> r, userId |-> r, activity |-> "READ",
                   resource |-> <<"account", found[r]>>])'
      BY <2>1, <2>2, <2>3, <2>5 DEF EventOK
    <3>2. QED
      BY <1>2, <2>1, <2>5, <3>1
  <2>6. QED
    BY <2>4, <2>5
<1>4. CASE LogUser(r)
  <2>1. EventOK([id |-> r, userId |-> r, activity |-> "CREATE", resource |-> <<"user", r>>])'
    BY <1>0, <1>4 DEF LogUser, RequestOK, EventOK
  <2>2. QED
    BY <1>2, <1>4, <2>1 DEF LogUser
<1>5. CASE LogRead(r)
  <2>1. EventOK([id |-> r, userId |-> found[r], activity |-> "READ",
                 resource |-> <<"user", found[r]>>])'
    BY <1>0, <1>5 DEF LogRead, RequestOK, UserOf, EventOK
  <2>2. QED
    BY <1>0, <1>2, <1>5, <2>1 DEF LogRead, RequestOK
<1>6. CASE UNCHANGED audit_log
  BY <1>1, <1>6 DEF AuditTellsTheTruth, EventOK
<1>7. QED
  BY <1>3, <1>4, <1>5, <1>6 DEF Receive, Handle, Execute, Crash, AssertNewUser, FindAccount,
     SaveAccount, SaveUser, FindUser, StatementFails

(* Every step keeps the invariant. *)
LEMMA IInvStep == IInv /\ [Next]_vars => IInv'
<1> SUFFICES ASSUME IInv, [Next]_vars PROVE IInv'
  OBVIOUS
<1>1. ASSUME NEW r \in Request, Receive(r) \/ Handle(r) \/ Crash(r)
      PROVE  IInv'
  <2>1. TypeOK' /\ AccountsUnique' /\ UsersUnique' /\ AuditTellsTheTruth'
    BY <1>1, TypeStep, AccountsUniqueStep, UsersUniqueStep, AuditStep
  <2>2. ASSUME NEW q \in Request
        PROVE  RowOK(q)' /\ RequestOK(q)' /\ AnswerOK(q)'
    BY <1>1, StepFrame, OwnStep, OthersKept
  <2>3. QED
    BY <2>1, <2>2 DEF IInv
<1>2. CASE UNCHANGED vars
  BY <1>2 DEF vars, IInv, TypeOK, AccountsUnique, UsersUnique, RowOK, RequestOK,
              AnswerOK, UserOf, AuditTellsTheTruth
<1>3. QED
  BY <1>1, <1>2 DEF Next

(* The invariant is inductive. *)
LEMMA Inductive == Spec => []IInv
BY InitIInv, IInvStep, PTL DEF Spec

-----------------------------------------------------------------------------
(* The variables of the service keep their types. *)
THEOREM TypeCorrect == Spec => []TypeOK
<1>1. IInv => TypeOK
  BY DEF IInv
<1>2. QED
  BY <1>1, Inductive, PTL

(* Whatever signups race and whatever fails, an account name has at most one
   ADMIN (getOrCreateAccount and createUser). *)
THEOREM OneAdmin == Spec => []OneAdminPerAccountName
<1>1. IInv => OneAdminPerAccountName
  <2> SUFFICES ASSUME IInv, NEW u \in Request, NEW v \in Request,
                      user_account[u] # None, user_account[u].role = "ADMIN",
                      user_account[v] # None, user_account[v].role = "ADMIN",
                      account[user_account[u].account] = account[user_account[v].account]
               PROVE  u = v
    BY DEF OneAdminPerAccountName
  <2>1. user_account[u].account = u /\ user_account[v].account = v
    BY DEF IInv, RowOK
  <2>2. account[u] = body[u].name /\ body[u] \in Body
    BY <2>1 DEF IInv, RowOK, TypeOK
  <2>3. account[u] # None
    BY <2>2, BodyFields
  <2>4. QED
    BY <2>1, <2>3 DEF IInv, AccountsUnique
<1>2. QED
  BY <1>1, Inductive, PTL

(* At most one signup for an account name and email is answered 200. *)
THEOREM OneSignup == Spec => []OneSignupSucceeds
<1>1. IInv => OneSignupSucceeds
  <2> SUFFICES ASSUME IInv, NEW r \in Request, NEW s \in Request,
                      response[r] # None, response[r].status = 200, body[r].route = "signup",
                      response[s] # None, response[s].status = 200, body[s].route = "signup",
                      body[r].name = body[s].name, body[r].email = body[s].email
               PROVE  r = s
    BY DEF OneSignupSucceeds
  <2>1. UserOf(r, body[r]) /\ UserOf(s, body[s])
    BY DEF IInv, AnswerOK
  <2>2. /\ user_account[r].account \in Request
        /\ user_account[s].account \in Request
    BY <2>1 DEF IInv, TypeOK, User, UserOf
  <2>3. body[r] \in Body
    BY DEF IInv, TypeOK, RequestOK, AnswerOK
  <2>4. user_account[r].account = user_account[s].account
    BY <2>1, <2>2, <2>3, BodyFields DEF UserOf, IInv, AccountsUnique
  <2>5. QED
    BY <2>1, <2>4 DEF UserOf, IInv, UsersUnique
<1>2. QED
  BY <1>1, Inductive, PTL

(* A token names a stored user whose password the request knew. *)
THEOREM TokensAreTrue == Spec => []TokenNamesStoredUser
<1>1. IInv => TokenNamesStoredUser
  BY DEF IInv, AnswerOK, UserOf, TokenNamesStoredUser
<1>2. QED
  BY <1>1, Inductive, PTL

(* The audit log tells of nothing that did not happen. *)
THEOREM AuditIsTrue == Spec => []AuditTellsTheTruth
<1>1. IInv => AuditTellsTheTruth
  BY DEF IInv
<1>2. QED
  BY <1>1, Inductive, PTL

-----------------------------------------------------------------------------
(* The refinement: the founder of a name is the row that carries it. *)
LEMMA FounderIsRow ==
    ASSUME TypeOK, AccountsUnique, NEW n \in AccountName
    PROVE  /\ \A a \in Request : account[a] = n => founderBar[n] = a
           /\ (\A a \in Request : account[a] # n) => founderBar[n] = None
<1>1. ASSUME NEW a \in Request, account[a] = n PROVE FindByName(n) = {a}
  BY <1>1 DEF AccountsUnique, FindByName
<1>2. (\A a \in Request : account[a] # n) => FindByName(n) = {}
  BY DEF FindByName
<1>3. ASSUME NEW a \in Request, account[a] = n PROVE founderBar[n] = a
  <2>1. (CHOOSE b \in {a} : TRUE) = a
    OBVIOUS
  <2>2. QED
    BY <1>1, <1>3, <2>1 DEF founderBar
<1>4. QED
  BY <1>2, <1>3 DEF founderBar

(* ... and the same after the step *)
LEMMA FounderIsRowNext ==
    ASSUME TypeOK', AccountsUnique', NEW n \in AccountName
    PROVE  /\ \A a \in Request : account'[a] = n => founderBar'[n] = a
           /\ (\A a \in Request : account'[a] # n) => founderBar'[n] = None
<1>1. ASSUME NEW a \in Request, account'[a] = n PROVE FindByName(n)' = {a}
  BY <1>1 DEF AccountsUnique, FindByName
<1>2. (\A a \in Request : account'[a] # n) => FindByName(n)' = {}
  BY DEF FindByName
<1>3. ASSUME NEW a \in Request, account'[a] = n PROVE founderBar'[n] = a
  <2>1. (CHOOSE b \in {a} : TRUE) = a
    OBVIOUS
  <2>2. QED
    BY <1>1, <1>3, <2>1 DEF founderBar
<1>4. QED
  BY <1>2, <1>3 DEF founderBar

(* What the registry sees of a stored user *)
Seen(u) ==
    [by |-> u, name |-> account[user_account[u].account],
     email |-> user_account[u].email, role |-> user_account[u].role]

(* A stored user looks the same after any step. *)
LEMMA SeenKept ==
    ASSUME IInv, WrittenOnce, NEW u \in Request, user_account[u] # None
    PROVE  user_account'[u] = user_account[u] /\ Seen(u)' = Seen(u)
<1>1. user_account[u] \in User /\ user_account'[u] = user_account[u] /\ body[u] \in Body
  BY DEF IInv, TypeOK, RowOK, WrittenOnce
<1>2. account'[user_account[u].account] = account[user_account[u].account]
  BY <1>1, BodyFields DEF IInv, RowOK, User, WrittenOnce
<1>3. QED
  BY <1>1, <1>2 DEF Seen

(* If no user row is added, the members stay. *)
LEMMA MembersKept ==
    ASSUME IInv, WrittenOnce, UNCHANGED user_account
    PROVE  UNCHANGED memberBar
<1>1. \A u \in Request : user_account[u] # None => Seen(u)' = Seen(u)
  BY SeenKept
<1>2. memberBar = {Seen(u) : u \in {u \in Request : user_account[u] # None}}
  BY DEF memberBar, Seen
<1>3. memberBar' = {Seen(u)' : u \in {u \in Request : user_account[u] # None}}
  BY DEF memberBar, Seen
<1>4. QED
  BY <1>1, <1>2, <1>3

(* If no account row is added, the founders stay. *)
LEMMA FoundersKept ==
    ASSUME UNCHANGED account
    PROVE  UNCHANGED founderBar
BY DEF founderBar, FindByName

(* Storing an account row founds its name. *)
LEMMA SaveAccountFounds ==
    ASSUME IInv, IInv', NEW r \in Request, SaveAccount(r)
    PROVE  R!Next \/ UNCHANGED R!vars
<1>0. /\ TypeOK /\ TypeOK' /\ AccountsUnique /\ AccountsUnique' /\ RequestOK(r)
      /\ body[r] \in Body /\ account[r] = None /\ WrittenOnce
  BY BodyKnown, StepFrame DEF IInv, SaveAccount, RequestOK, Handle, Execute
<1>1. UNCHANGED memberBar
  BY <1>0, MembersKept DEF SaveAccount
<1>2. CASE UNCHANGED account
  BY <1>1, <1>2, FoundersKept DEF R!vars
<1>3. CASE FindByName(body[r].name) = {} /\ account' = [account EXCEPT ![r] = body[r].name]
  <2> DEFINE n == body[r].name
  <2>1. n \in AccountName /\ n # None
    BY <1>0, BodyFields
  <2>2. founderBar[n] = None
    BY <1>0, <1>3, <2>1, FounderIsRow DEF FindByName
  <2>3. ASSUME NEW m \in AccountName PROVE founderBar[m] # r
    <3>1. CASE \E a \in Request : account[a] = m
      BY <1>0, <2>3, <3>1, FounderIsRow
    <3>2. CASE \A a \in Request : account[a] # m
      BY <1>0, <2>3, <3>2, FounderIsRow
    <3>3. QED
      BY <3>1, <3>2
  <2>4. ASSUME NEW m \in AccountName
        PROVE  founderBar'[m] = IF m = n THEN r ELSE founderBar[m]
    <3>1. CASE m = n
      BY <1>0, <1>3, <2>1, <3>1, FounderIsRowNext DEF TypeOK
    <3>2. CASE m # n /\ \E a \in Request : account[a] = m
      <4>1. PICK a \in Request : account[a] = m
        BY <3>2
      <4>2. account'[a] = m
        BY <1>0, <4>1 DEF WrittenOnce
      <4>3. QED
        BY <1>0, <2>4, <3>2, <4>1, <4>2, FounderIsRow, FounderIsRowNext
    <3>3. CASE m # n /\ \A a \in Request : account[a] # m
      <4>1. \A a \in Request : account'[a] # m
        BY <1>0, <1>3, <3>3 DEF TypeOK
      <4>2. QED
        BY <1>0, <2>4, <3>3, <4>1, FounderIsRow, FounderIsRowNext
    <3>4. QED
      BY <3>1, <3>2, <3>3
  <2>5. founderBar' = [founderBar EXCEPT ![n] = r]
    <3>1. /\ founderBar = [m \in AccountName |-> founderBar[m]]
          /\ founderBar' = [m \in AccountName |-> founderBar'[m]]
      BY DEF founderBar
    <3> HIDE DEF n
    <3>2. QED
      BY <2>1, <2>4, <3>1
  <2>6. R!Found(r, n)
    BY <1>1, <2>2, <2>3, <2>5 DEF R!Found
  <2>7. QED
    BY <2>1, <2>6 DEF R!Next
<1>4. QED
  BY <1>2, <1>3 DEF SaveAccount

(* Storing a user row enrols its member. *)
LEMMA SaveUserEnrols ==
    ASSUME IInv, IInv', NEW r \in Request, SaveUser(r)
    PROVE  R!Next \/ UNCHANGED R!vars
<1>0. /\ TypeOK /\ TypeOK' /\ AccountsUnique /\ UsersUnique /\ UsersUnique' /\ RequestOK(r)
      /\ body[r] \in Body /\ found[r] \in Request /\ user_account[r] = None
      /\ account[found[r]] = body[r].name /\ WrittenOnce
  BY BodyKnown, StepFrame DEF IInv, SaveUser, RequestOK, Handle, Execute
<1>1. UNCHANGED founderBar
  BY FoundersKept DEF SaveUser
<1>2. CASE EmailTaken(body[r].email, found[r]) \/ body[r].email \in TooLong
  BY <1>0, <1>1, <1>2, MembersKept DEF SaveUser, R!vars
<1>3. CASE ~EmailTaken(body[r].email, found[r]) /\ body[r].email \notin TooLong
  <2> DEFINE n == body[r].name
             e == body[r].email
             row == [email |-> e, role |-> RoleOf(r),
                     account |-> found[r], password |-> body[r].password]
  <2>1. /\ n \in AccountName /\ n # None /\ e \in Email
        /\ UNCHANGED <<account, found, body>>
        /\ user_account' = [user_account EXCEPT ![r] = row]
    BY <1>0, <1>3, BodyFields DEF SaveUser
  <2>2. row \in User /\ row # None
    BY <1>0, <2>1, BodyFields DEF User, RoleOf, Role
  <2>3. founderBar[n] = found[r]
    BY <1>0, <2>1, FounderIsRow
  <2>4. ASSUME NEW u \in Request, user_account[u] # None
        PROVE  u # r /\ <<Seen(u).name, Seen(u).email>> # <<n, e>>
    <3>1. user_account[u] \in User /\ u # r
      BY <1>0, <2>4 DEF TypeOK
    <3>2. CASE user_account[u].email = e
      <4>1. user_account[u].account # found[r]
        BY <1>3, <2>4, <3>2 DEF EmailTaken
      <4>2. account[user_account[u].account] # n
        BY <1>0, <2>1, <3>1, <4>1 DEF User, AccountsUnique
      <4>3. QED
        BY <3>1, <4>2 DEF Seen
    <3>3. CASE user_account[u].email # e
      BY <3>1, <3>3 DEF Seen
    <3>4. QED
      BY <3>2, <3>3
  <2>5. memberBar = {Seen(u) : u \in {u \in Request : user_account[u] # None}}
    BY DEF memberBar, Seen
  <2>6. \A m \in memberBar : m.by # r /\ <<m.name, m.email>> # <<n, e>>
    BY <2>4, <2>5 DEF Seen
  <2>7. Seen(r)' = [by |-> r, name |-> n, email |-> e,
                    role |-> IF founderBar[n] = r THEN "ADMIN" ELSE "USER"]
    BY <1>0, <2>1, <2>2, <2>3 DEF Seen, RoleOf, TypeOK
  <2>8. memberBar' = {Seen(u)' : u \in {u \in Request : user_account'[u] # None}}
    BY DEF memberBar, Seen
  <2>9. {u \in Request : user_account'[u] # None}
          = {u \in Request : user_account[u] # None} \cup {r}
    BY <1>0, <2>1, <2>2 DEF TypeOK
  <2>10. \A u \in Request : user_account[u] # None => Seen(u)' = Seen(u)
    BY <1>0, SeenKept
  <2>11. memberBar' = memberBar \cup {Seen(r)'}
    BY <2>5, <2>8, <2>9, <2>10
  <2>12. R!Enrol(r, n, e)
    BY <1>1, <2>1, <2>3, <1>0, <2>6, <2>7, <2>11 DEF R!Enrol
  <2>13. QED
    BY <2>1, <2>12 DEF R!Next
<1>4. QED
  BY <1>2, <1>3

(* The service implements the registry: names are founded once and for all,
   members are enrolled once, and only a founder is ADMIN. *)
THEOREM Refinement == Spec => ImplementsRegistry
<1>1. Init => R!Init
  <2> SUFFICES ASSUME Init PROVE R!Init
    OBVIOUS
  <2>1. \A n \in AccountName : FindByName(n) = {}
    BY DEF Init, FindByName
  <2>2. founderBar = [n \in AccountName |-> None]
    BY <2>1 DEF founderBar
  <2>3. memberBar = {}
    BY DEF Init, memberBar
  <2>4. QED
    BY <2>2, <2>3 DEF R!Init
<1>2. IInv /\ IInv' /\ [Next]_vars => [R!Next]_(R!vars)
  <2> SUFFICES ASSUME IInv, IInv', [Next]_vars PROVE R!Next \/ UNCHANGED R!vars
    OBVIOUS
  <2>1. CASE UNCHANGED <<account, user_account>>
    <3>1. WrittenOnce \/ UNCHANGED vars
      BY StepFrame DEF Next
    <3>2. UNCHANGED memberBar
      BY <2>1, <3>1, MembersKept DEF vars, memberBar
    <3>3. QED
      BY <2>1, <3>2, FoundersKept DEF R!vars
  <2>2. ASSUME NEW r \in Request, SaveAccount(r) PROVE R!Next \/ UNCHANGED R!vars
    BY <2>2, SaveAccountFounds
  <2>3. ASSUME NEW r \in Request, SaveUser(r) PROVE R!Next \/ UNCHANGED R!vars
    BY <2>3, SaveUserEnrols
  <2>4. QED
    BY <2>1, <2>2, <2>3 DEF Next, Receive, Handle, Execute, Crash, AssertNewUser, FindAccount,
       LogAccount, LogUser, FindUser, LogRead, StatementFails, vars
<1>3. QED
  BY <1>1, <1>2, Inductive, PTL DEF Spec, ImplementsRegistry, R!Spec

-----------------------------------------------------------------------------
(* On a healthy database *)

(* The cause that FailureMeansRival gives for the failure of r *)
Cause(r) == IF found[r] = None THEN NameRefused(r) ELSE EmailRefused(r)

FailureOK(r) ==
    /\ response[r] # None => pc[r] = "done"
    /\ Failed(r) => Cause(r)

(* A value too long stays too long, and a rival stays one. *)
LEMMA CauseKept ==
    ASSUME IInv, WrittenOnce, NEW r \in Request, body[r] # None, found'[r] = found[r], Cause(r)
    PROVE  Cause(r)'
<1>1. body'[r] = body[r] /\ body[r] \in Body
  BY DEF WrittenOnce, IInv, TypeOK
<1>2. NameRefused(r) => NameRefused(r)'
  BY <1>1, BodyFields DEF NameRefused, WrittenOnce
<1>3. EmailRefused(r) => EmailRefused(r)'
  BY <1>1 DEF EmailRefused, WrittenOnce
<1>4. QED
  BY <1>2, <1>3 DEF Cause

(* A request that fails now has a cause: the two inserts are all that can be
   answered 500. *)
LEMMA FailsForCause ==
    ASSUME "db" \notin Faults, "jwt" \notin Faults, IInv, NEW r \in Request, FailureOK(r),
           Receive(r) \/ Handle(r) \/ Crash(r)
    PROVE  FailureOK(r)'
<1>0. TypeOK /\ RequestOK(r) /\ WrittenOnce
  BY StepFrame DEF IInv
<1> USE DEF TypeOK, Goto, Answer, Fail, FailureOK, Failed
<1>1. CASE SaveAccount(r) \/ SaveUser(r)
  <2>1. body[r] \in Body /\ body[r] # None /\ pc[r] \in {"saveAccount", "saveUser"}
    BY <1>1, BodyKnown, BodyFields DEF SaveAccount, SaveUser
  <2>2. CASE SaveAccount(r) /\ (FindByName(body[r].name) # {} \/ body[r].name \in TooLong)
    <3>1. account[r] = None /\ found[r] = None
      BY <1>0, <2>2 DEF SaveAccount, RequestOK
    <3>2. Cause(r)
      BY <2>1, <2>2, <3>1, BodyFields DEF Cause, NameRefused, FindByName
    <3>3. found'[r] = found[r]
      BY <1>0, <2>2 DEF SaveAccount
    <3>4. QED
      BY <1>0, <2>1, <2>2, <3>2, <3>3, CauseKept DEF SaveAccount
  <2>3. CASE SaveAccount(r) /\ FindByName(body[r].name) = {} /\ body[r].name \notin TooLong
    BY <1>0, <2>3 DEF SaveAccount
  <2>4. CASE SaveUser(r) /\ (EmailTaken(body[r].email, found[r]) \/ body[r].email \in TooLong)
    <3>1. user_account[r] = None /\ found[r] \in Request /\ found[r] # None
      BY <1>0, <2>4, NoneAssumption DEF SaveUser, RequestOK
    <3>2. Cause(r)
      BY <2>1, <2>4, <3>1 DEF Cause, EmailRefused, EmailTaken
    <3>3. found'[r] = found[r]
      BY <2>4 DEF SaveUser
    <3>4. QED
      BY <1>0, <2>1, <2>4, <3>2, <3>3, CauseKept DEF SaveUser
  <2>5. CASE SaveUser(r) /\ ~EmailTaken(body[r].email, found[r]) /\ body[r].email \notin TooLong
    BY <1>0, <2>5 DEF SaveUser
  <2>6. QED
    BY <1>1, <2>2, <2>3, <2>4, <2>5
<1>2. CASE Receive(r) \/ Crash(r) \/ AssertNewUser(r) \/ FindAccount(r)
  BY <1>0, <1>2 DEF Receive, Crash, Statement, AssertNewUser, FindAccount
<1>3. CASE LogAccount(r) \/ LogUser(r) \/ FindUser(r) \/ LogRead(r)
  BY <1>0, <1>3 DEF LogAccount, LogUser, FindUser, LogRead, Token
<1>4. ~StatementFails(r)
  BY DEF StatementFails
<1>5. QED
  BY <1>1, <1>2, <1>3, <1>4 DEF Handle, Execute

LEMMA FailuresCaused ==
    ASSUME "db" \notin Faults, "jwt" \notin Faults
    PROVE  Spec => [](\A r \in Request : FailureOK(r))
<1> DEFINE Inv == \A r \in Request : FailureOK(r)
<1>1. Init => Inv
  BY DEF Init, FailureOK, Failed
<1>2. IInv /\ Inv /\ [Next]_vars => Inv'
  <2> SUFFICES ASSUME IInv, Inv, [Next]_vars PROVE Inv'
    OBVIOUS
  <2>1. ASSUME NEW r \in Request, Receive(r) \/ Handle(r) \/ Crash(r), NEW q \in Request
        PROVE  FailureOK(q)'
    <3>1. WrittenOnce /\ OnlySteps(r)
      BY <2>1, StepFrame
    <3>2. CASE q = r
      BY <2>1, <3>2, FailsForCause
    <3>3. CASE q # r
      <4>1. FailureOK(q) /\ pc'[q] = pc[q] /\ response'[q] = response[q] /\ found'[q] = found[q]
        BY <3>1, <3>3 DEF OnlySteps
      <4>2. Failed(q) => body[q] # None /\ Cause(q)
        BY <4>1 DEF FailureOK, Failed, IInv, RequestOK
      <4>3. Failed(q) => Cause(q)'
        BY <3>1, <4>1, <4>2, CauseKept
      <4>4. QED
        BY <4>1, <4>3 DEF FailureOK, Failed
    <3>4. QED
      BY <3>2, <3>3
  <2>2. CASE UNCHANGED vars
    BY <2>2 DEF vars, FailureOK, Failed, Cause, NameRefused, EmailRefused
  <2>3. QED
    BY <2>1, <2>2 DEF Next
<1>3. QED
  BY <1>1, <1>2, Inductive, PTL DEF Spec

(* r ended, and not with a failure *)
Spared(r) == pc[r] \in {"done", "crashed"} /\ ~Failed(r)

(* What the rest of the way is like for a request that could find the account, or
   the user: it joins, or it is refused for a reason of its own. *)
Joins(r) == FindsAccount(r) \/ found[r] # None \/ Spared(r)
Refused(r) == FindsUser(r) \/ Spared(r)

(* What can be found stays. *)
LEMMA FoundStays ==
    ASSUME IInv, WrittenOnce, NEW r \in Request, body[r] # None
    PROVE  /\ FindByName(body[r].name) # {} => (FindByName(body[r].name) # {})'
           /\ FindByAccountNameAndEmail(body[r].name, body[r].email) # {}
              => (FindByAccountNameAndEmail(body[r].name, body[r].email) # {})'
<1>1. body'[r] = body[r] /\ body[r] \in Body
  BY DEF WrittenOnce, IInv, TypeOK
<1>2. FindByName(body[r].name) # {} => (FindByName(body[r].name) # {})'
  BY <1>1, BodyFields DEF FindByName, WrittenOnce
<1>3. ASSUME FindByAccountNameAndEmail(body[r].name, body[r].email) # {}
      PROVE  (FindByAccountNameAndEmail(body[r].name, body[r].email) # {})'
  <2>1. PICK u \in Request : /\ user_account[u] # None
                             /\ user_account[u].email = body[r].email
                             /\ account[user_account[u].account] = body[r].name
    BY <1>3 DEF FindByAccountNameAndEmail
  <2>2. user_account'[u] = user_account[u] /\ user_account[u].account \in Request
    BY <2>1 DEF WrittenOnce, IInv, TypeOK, User
  <2>3. account'[user_account[u].account] = body[r].name
    BY <1>1, <2>1, <2>2, BodyFields DEF WrittenOnce
  <2>4. QED
    BY <1>1, <2>1, <2>2, <2>3 DEF FindByAccountNameAndEmail
<1>4. QED
  BY <1>2, <1>3

(* A step of r itself: AssertNewUser refuses whom it finds, FindAccount joins what it
   finds, and whoever joined keeps what they found. *)
LEMMA OwnWay ==
    ASSUME IInv, NEW r \in Request, FailureOK(r), Receive(r) \/ Handle(r) \/ Crash(r),
           "db" \notin Faults
    PROVE  /\ Joins(r) => Joins(r)'
           /\ Refused(r) => Refused(r)'
<1>0. TypeOK /\ RequestOK(r) /\ WrittenOnce
  BY StepFrame DEF IInv
<1>1. pc[r] \notin {"done", "crashed"} /\ response[r] = None
  BY DEF FailureOK, Receive, Handle, Execute, Crash, AssertNewUser, FindAccount, SaveAccount, SaveUser,
     LogAccount, LogUser, FindUser, LogRead, StatementFails, Statement
<1> USE DEF TypeOK, Goto, Answer, Fail
<1>2. CASE AssertNewUser(r)
  <2>1. body[r] # None /\ body'[r] = body[r] /\ found'[r] = found[r]
    BY <1>0, <1>2 DEF AssertNewUser, RequestOK
  <2>2. CASE FindByAccountNameAndEmail(body[r].name, body[r].email) # {} \/ body[r].password \notin Strong
    <3>1. Spared(r)'
      BY <1>0, <1>2, <2>2 DEF AssertNewUser, Spared, Failed
    <3>2. QED
      BY <3>1 DEF Joins, Refused
  <2>3. CASE FindByAccountNameAndEmail(body[r].name, body[r].email) = {} /\ body[r].password \in Strong
    <3>1. ~Refused(r) /\ pc'[r] = "findAccount"
      BY <1>0, <1>1, <1>2, <2>3 DEF AssertNewUser, Refused, FindsUser, Spared
    <3>2. Joins(r) => Joins(r)'
      BY <1>0, <1>1, <2>1, <3>1, FoundStays DEF Joins, FindsAccount, Spared
    <3>3. QED
      BY <3>1, <3>2
  <2>4. QED
    BY <2>2, <2>3
<1>3. CASE FindAccount(r)
  <2>1. ~Refused(r)
    BY <1>1, <1>3 DEF FindAccount, Refused, FindsUser, Spared
  <2>2. CASE FindByName(body[r].name) = {}
    BY <1>0, <1>1, <1>3, <2>1, <2>2 DEF FindAccount, RequestOK, Joins, FindsAccount, Spared
  <2>3. CASE FindByName(body[r].name) # {}
    <3>1. found'[r] # None
      BY <1>0, <1>3, <2>3 DEF FindAccount, FindByName
    <3>2. QED
      BY <2>1, <3>1 DEF Joins
  <2>4. QED
    BY <2>2, <2>3
<1>4. CASE Crash(r)
  BY <1>0, <1>1, <1>4 DEF Crash, Spared, Failed, Joins, Refused
<1>5. CASE pc[r] \notin {"assertNewUser", "findAccount"} /\ ~Crash(r)
  <2>1. ~Refused(r) /\ ~FindsAccount(r) /\ ~Spared(r)
    BY <1>1, <1>5 DEF Refused, FindsUser, FindsAccount, Spared
  <2>2. found[r] # None => found'[r] # None
    BY <1>0, <1>5 DEF Receive, Handle, Execute, AssertNewUser, FindAccount, SaveAccount, SaveUser,
       LogAccount, LogUser, FindUser, FindByAccountNameAndEmail, LogRead, StatementFails
  <2>3. QED
    BY <2>1, <2>2 DEF Joins
<1>6. QED
  BY <1>2, <1>3, <1>4, <1>5 DEF Receive, Handle, Execute, AssertNewUser, FindAccount, SaveAccount, SaveUser,
     LogAccount, LogUser, FindUser, LogRead, StatementFails

LEMMA WaysKept ==
    ASSUME IInv, \A r \in Request : FailureOK(r), [Next]_vars, "db" \notin Faults, NEW q \in Request
    PROVE  /\ Joins(q) => Joins(q)'
           /\ Refused(q) => Refused(q)'
<1>1. ASSUME NEW r \in Request, Receive(r) \/ Handle(r) \/ Crash(r)
      PROVE  (Joins(q) => Joins(q)') /\ (Refused(q) => Refused(q)')
  <2>1. WrittenOnce /\ OnlySteps(r)
    BY <1>1, StepFrame
  <2>2. CASE q = r
    BY <1>1, <2>2, OwnWay
  <2>3. CASE q # r
    <3>1. pc'[q] = pc[q] /\ response'[q] = response[q] /\ found'[q] = found[q] /\ body'[q] = body[q]
      BY <2>1, <2>3 DEF OnlySteps
    <3>2. pc[q] \in {"assertNewUser", "findAccount"} => body[q] # None
      BY DEF IInv, RequestOK
    <3>3. FindsAccount(q) => FindsAccount(q)'
      BY <2>1, <3>1, <3>2, FoundStays DEF FindsAccount
    <3>4. FindsUser(q) => FindsUser(q)'
      BY <2>1, <3>1, <3>2, FoundStays DEF FindsUser
    <3>5. QED
      BY <3>1, <3>3, <3>4 DEF Joins, Refused, Spared, Failed
  <2>4. QED
    BY <2>2, <2>3
<1>2. CASE UNCHANGED vars
  BY <1>2 DEF vars, Joins, Refused, FindsAccount, FindsUser, Spared, Failed, FindByName,
     FindByAccountNameAndEmail
<1>3. QED
  BY <1>1, <1>2 DEF Next

(* Without faults of the database and of the token issuer, a signup fails only for a
   value too long or for a rival that came meanwhile: at the name for another founder
   when it found no account, at the email for another user of the account it works on. *)
THEOREM FailuresHaveRivals ==
    ASSUME "db" \notin Faults, "jwt" \notin Faults
    PROVE  Spec => FailureMeansRival
<1> DEFINE Inv == \A r \in Request : FailureOK(r)
<1>1. Inv => \A r \in Request :
                Failed(r) => IF found[r] = None THEN NameRefused(r) ELSE EmailRefused(r)
  BY DEF FailureOK, Cause
<1>2. ASSUME NEW r \in Request
      PROVE  Spec => /\ [](FindsAccount(r) => [](Failed(r) => found[r] # None))
                     /\ [](FindsUser(r) => []~Failed(r))
  <2>1. IInv /\ Inv /\ [Next]_vars => (Joins(r) => Joins(r)') /\ (Refused(r) => Refused(r)')
    BY <1>2, WaysKept
  <2>2. (FindsAccount(r) => Joins(r)) /\ (FindsUser(r) => Refused(r))
    BY DEF Joins, Refused
  <2>3. Inv => (Joins(r) => (Failed(r) => found[r] # None)) /\ (Refused(r) => ~Failed(r))
    BY <1>2 DEF Joins, Refused, FindsAccount, FindsUser, Spared, FailureOK, Failed
  <2>4. QED
    BY <2>1, <2>2, <2>3, FailuresCaused, Inductive, PTL DEF Spec
<1>3. Spec => [](\A r \in Request :
                    Failed(r) => IF found[r] = None THEN NameRefused(r) ELSE EmailRefused(r))
  BY <1>1, FailuresCaused, PTL
<1>4. Spec => \A r \in Request : /\ [](FindsAccount(r) => [](Failed(r) => found[r] # None))
                                /\ [](FindsUser(r) => []~Failed(r))
  BY <1>2
<1>5. QED
  BY <1>3, <1>4 DEF FailureMeansRival

(* What becomes of the founder of account a *)
FounderOK(a) ==
    \/ pc[a] = "saveUser" /\ found[a] = a
    \/ user_account[a] # None /\ user_account[a].account = a
    \/ body[a].email \in TooLong
    \/ \E u \in Members(a) : u # a /\ user_account[u].email = body[a].email

(* A founder that is no longer about to be stored stays where it was left. *)
LEMMA FounderKept ==
    ASSUME IInv, WrittenOnce, NEW a \in Request, account[a] # None, FounderOK(a),
           (pc'[a] = pc[a] /\ found'[a] = found[a]) \/ pc[a] # "saveUser"
    PROVE  FounderOK(a)'
<1>1. body'[a] = body[a]
  BY DEF IInv, RowOK, WrittenOnce
<1>2. \A u \in Members(a) : u \in Members(a)' /\ user_account'[u] = user_account[u]
  BY DEF Members, WrittenOnce
<1>3. user_account[a] # None => user_account'[a] = user_account[a]
  BY DEF WrittenOnce
<1>4. QED
  BY <1>1, <1>2, <1>3 DEF FounderOK

(* Whoever founds an account goes on to store its user, or meets a user of the same
   email there already. *)
LEMMA FounderSteps ==
    ASSUME Faults = {}, IInv, NEW a \in Request, account[a] # None => FounderOK(a),
           Receive(a) \/ Handle(a) \/ Crash(a), account'[a] # None
    PROVE  FounderOK(a)'
<1>0. TypeOK /\ RequestOK(a) /\ RowOK(a) /\ WrittenOnce
  BY StepFrame DEF IInv
<1>1. CASE SaveAccount(a)
  <2>1. account[a] = None
    BY <1>0, <1>1 DEF SaveAccount, RequestOK
  <2>2. pc'[a] = "saveUser" /\ found'[a] = a
    BY <1>0, <1>1, <2>1 DEF SaveAccount, TypeOK, Goto
  <2>3. QED
    BY <2>2 DEF FounderOK
<1>2. CASE SaveUser(a)
  <2>1. account[a] # None /\ FounderOK(a) /\ UNCHANGED <<account, body, found>>
    BY <1>2 DEF SaveUser
  <2>2. pc[a] = "saveUser" /\ user_account[a] = None
    BY <1>0, <1>2 DEF SaveUser, RequestOK
  <2>3. CASE found[a] # a
    <3>1. \/ body[a].email \in TooLong
          \/ \E u \in Members(a) : u # a /\ user_account[u].email = body[a].email
      BY <2>1, <2>2, <2>3 DEF FounderOK
    <3>2. \A u \in Members(a) : u \in Members(a)' /\ user_account'[u] = user_account[u]
      BY <1>0 DEF Members, WrittenOnce
    <3>3. QED
      BY <2>1, <3>1, <3>2 DEF FounderOK
  <2>4. CASE found[a] = a /\ body[a].email \in TooLong
    BY <2>1, <2>4 DEF FounderOK
  <2>5. CASE found[a] = a /\ EmailTaken(body[a].email, found[a])
    <3>1. PICK u \in Request : /\ user_account[u] # None
                               /\ user_account[u].email = body[a].email
                               /\ user_account[u].account = a
      BY <2>5 DEF EmailTaken
    <3>2. u # a /\ u \in Members(a)' /\ user_account'[u].email = body'[a].email
      BY <1>0, <2>1, <2>2, <3>1 DEF Members, WrittenOnce
    <3>3. QED
      BY <3>2 DEF FounderOK
  <2>6. CASE /\ found[a] = a /\ ~EmailTaken(body[a].email, found[a])
             /\ body[a].email \notin TooLong
    <3>1. user_account'[a] = [email |-> body[a].email, role |-> RoleOf(a),
                              account |-> a, password |-> body[a].password]
      BY <1>0, <1>2, <2>6 DEF SaveUser, TypeOK
    <3>2. user_account'[a] # None
      <4>1. body[a] \in Body
        BY <2>2, BodyKnown
      <4>2. user_account'[a] \in User
        BY <3>1, <4>1, BodyFields DEF User, RoleOf, Role
      <4>3. QED
        BY <4>2
    <3>3. QED
      BY <3>1, <3>2 DEF FounderOK
  <2>7. QED
    BY <2>3, <2>4, <2>5, <2>6
<1>3. CASE ~SaveAccount(a) /\ ~SaveUser(a)
  <2>1. pc[a] # "saveUser" /\ account' = account
    BY <1>0, <1>3 DEF Receive, Handle, Execute, Crash, AssertNewUser, FindAccount, LogAccount,
                LogUser, FindUser, LogRead, StatementFails
  <2>2. QED
    BY <1>0, <2>1, FounderKept
<1>4. QED
  BY <1>1, <1>2, <1>3

(* On a healthy database, and as long as no replica dies, an account is without an
   ADMIN only because of a second signup of the founder's email, or a founder's email
   that is too long. *)
THEOREM AdminsLostToDuplicates ==
    ASSUME Faults = {}
    PROVE  Spec => []AdminLostOnlyToDuplicate
<1> DEFINE Inv == \A a \in Request : account[a] # None => FounderOK(a)
<1>1. Init => Inv
  BY DEF Init
<1>2. IInv /\ Inv /\ [Next]_vars => Inv'
  <2> SUFFICES ASSUME IInv, Inv, [Next]_vars PROVE Inv'
    OBVIOUS
  <2>1. ASSUME NEW r \in Request, Receive(r) \/ Handle(r) \/ Crash(r),
               NEW a \in Request, account'[a] # None
        PROVE  FounderOK(a)'
    <3>1. CASE a = r
      BY <2>1, <3>1, FounderSteps
    <3>2. CASE a # r
      BY <2>1, <3>2, StepFrame, FounderKept DEF OnlySteps
    <3>3. QED
      BY <3>1, <3>2
  <2>2. CASE UNCHANGED vars
    BY <2>2 DEF vars, FounderOK, Members
  <2>3. QED
    BY <2>1, <2>2 DEF Next
<1>3. IInv /\ Inv => AdminLostOnlyToDuplicate
  <2> SUFFICES ASSUME IInv, Inv, NEW a \in Request, Settled(a), ~HasAdmin(a)
               PROVE  \/ body[a].email \in TooLong
                      \/ \E u \in Members(a) : u # a /\ user_account[u].email = body[a].email
    BY DEF AdminLostOnlyToDuplicate
  <2>1. account[a] # None /\ FounderOK(a) /\ account[a] = body[a].name
    BY DEF Settled, IInv, RowOK
  <2>2. pc[a] # "saveUser"
    BY <2>1 DEF Settled, Statement
  <2>3. ~(user_account[a] # None /\ user_account[a].account = a)
    BY DEF HasAdmin, Members, IInv, RowOK
  <2>4. QED
    BY <2>1, <2>2, <2>3 DEF FounderOK
<1>4. QED
  BY <1>1, <1>2, <1>3, Inductive, PTL DEF Spec

(* A log that has an event of request r about a resource *)
Wrote(log, r, resource) == \E e \in log : e.id = r /\ e.resource = resource

AuditedOK(r) ==
    /\ pc[r] = "logUser" => Wrote(audit_log, r, <<"account", user_account[r].account>>)
    /\ response[r] # None /\ response[r].status = 200 =>
         /\ Wrote(audit_log, r, <<"user", response[r].user>>)
         /\ body[r].route = "signup" => Wrote(audit_log, r, <<"account", user_account[r].account>>)

(* The audit log grows. *)
LEMMA LogGrows ==
    ASSUME NEW r \in Request, Receive(r) \/ Handle(r) \/ Crash(r)
    PROVE  audit_log \subseteq audit_log'
BY DEF Receive, Handle, Execute, Crash, StatementFails, AssertNewUser, FindAccount, SaveAccount,
       SaveUser, LogAccount, LogUser, FindUser, LogRead, Audit

(* An event that was added is in the log. *)
LEMMA AddedWrote ==
    ASSUME NEW log, NEW r, NEW user, NEW activity, NEW resource
    PROVE  Wrote(log \cup {[id |-> r, userId |-> user, activity |-> activity,
                            resource |-> resource]}, r, resource)
<1> DEFINE e == [id |-> r, userId |-> user, activity |-> activity, resource |-> resource]
<1>1. e \in log \cup {e}
  OBVIOUS
<1>2. e.id = r /\ e.resource = resource
  OBVIOUS
<1> HIDE DEF e
<1>3. \E f \in log \cup {e} : f.id = r /\ f.resource = resource
  BY <1>1, <1>2
<1>4. QED
  BY <1>3 DEF Wrote, e

(* On a healthy database each request writes its events before it is answered. *)
LEMMA AuditedSteps ==
    ASSUME "db" \notin Faults, IInv, NEW r \in Request, AuditedOK(r),
           Receive(r) \/ Handle(r) \/ Crash(r)
    PROVE  AuditedOK(r)'
<1>0. TypeOK /\ RequestOK(r) /\ AnswerOK(r) /\ audit_log \subseteq audit_log'
  BY LogGrows DEF IInv
<1>1. CASE LogAccount(r)
  <2>1. /\ pc[r] = "logAccount" /\ found[r] = user_account[r].account
        /\ user_account' = user_account /\ response' = response
        /\ pc'[r] = "logUser"
        /\ ~(response[r] # None /\ response[r].status = 200)
    BY <1>0, <1>1 DEF TypeOK, LogAccount, RequestOK, AnswerOK, Goto
  <2>2. PICK act : audit_log' = audit_log \cup
          {[id |-> r, userId |-> r, activity |-> act, resource |-> <<"account", found[r]>>]}
    BY <1>1 DEF LogAccount, Audit
  <2>3. Wrote(audit_log', r, <<"account", user_account'[r].account>>)
    BY <2>1, <2>2, AddedWrote
  <2>4. QED
    BY <2>1, <2>3 DEF AuditedOK
<1>2. CASE LogUser(r)
  <2>1. /\ pc[r] = "logUser" /\ user_account' = user_account
        /\ pc'[r] = "done"
        /\ audit_log' = audit_log \cup
             {[id |-> r, userId |-> r, activity |-> "CREATE", resource |-> <<"user", r>>]}
        /\ response'[r].status = 200 => response'[r].user = r
    BY <1>0, <1>2 DEF LogUser, Audit, TypeOK, Answer, Fail, Token
  <2>2. Wrote(audit_log', r, <<"user", r>>)
    BY <2>1, AddedWrote
  <2>3. Wrote(audit_log', r, <<"account", user_account'[r].account>>)
    BY <1>0, <2>1 DEF Wrote, AuditedOK
  <2>4. QED
    BY <2>1, <2>2, <2>3 DEF AuditedOK
<1>3. CASE LogRead(r)
  <2>1. /\ body[r].route = "login" /\ body' = body /\ pc'[r] = "done"
        /\ audit_log' = audit_log \cup
             {[id |-> r, userId |-> found[r], activity |-> "READ",
               resource |-> <<"user", found[r]>>]}
        /\ response'[r].user = found[r]
    BY <1>0, <1>3 DEF LogRead, Audit, TypeOK, Answer, Token, RequestOK
  <2>2. Wrote(audit_log', r, <<"user", found[r]>>)
    BY <2>1, AddedWrote
  <2>3. QED
    BY <2>1, <2>2 DEF AuditedOK
<1>4. CASE ~(LogAccount(r) \/ LogUser(r) \/ LogRead(r))
  <2>1. pc'[r] # "logUser" /\ ~(response'[r] # None /\ response'[r].status = 200)
    <3>1. pc[r] # "done" /\ ~(response[r] # None /\ response[r].status = 200)
      BY <1>0 DEF Receive, Handle, Execute, Crash, Statement, StatementFails, AssertNewUser,
         FindAccount, SaveAccount, SaveUser, LogAccount, LogUser, FindUser, LogRead, AnswerOK
    <3>2. CASE Receive(r) \/ Crash(r) \/ AssertNewUser(r) \/ FindAccount(r)
      BY <1>0, <3>1, <3>2 DEF Receive, Crash, AssertNewUser, FindAccount, TypeOK, Goto, Answer, Fail
    <3>3. CASE SaveAccount(r) \/ SaveUser(r) \/ FindUser(r) \/ StatementFails(r)
      BY <1>0, <3>1, <3>3 DEF SaveAccount, SaveUser, FindUser, StatementFails, TypeOK, Goto,
         Answer, Fail
    <3>4. QED
      BY <1>4, <3>2, <3>3 DEF Handle, Execute
  <2>2. QED
    BY <2>1 DEF AuditedOK
<1>5. QED
  BY <1>1, <1>2, <1>3, <1>4

(* On a healthy database whatever was answered is in the audit log. *)
THEOREM AnswersAreAudited ==
    ASSUME "db" \notin Faults
    PROVE  Spec => []AnsweredIsAudited
<1> DEFINE Inv == \A r \in Request : AuditedOK(r)
<1>1. Init => Inv
  BY DEF Init, AuditedOK
<1>2. IInv /\ Inv /\ [Next]_vars => Inv'
  <2> SUFFICES ASSUME IInv, Inv, [Next]_vars PROVE Inv'
    OBVIOUS
  <2>1. ASSUME NEW r \in Request, Receive(r) \/ Handle(r) \/ Crash(r), NEW q \in Request
        PROVE  AuditedOK(q)'
    <3>1. /\ WrittenOnce /\ OnlySteps(r) /\ audit_log \subseteq audit_log'
          /\ AuditedOK(q) /\ RequestOK(q) /\ AnswerOK(q)
      BY <2>1, StepFrame, LogGrows DEF IInv
    <3>2. CASE q = r
      BY <2>1, <3>1, <3>2, AuditedSteps
    <3>3. CASE q # r
      <4>1. /\ pc'[q] = pc[q] /\ response'[q] = response[q]
            /\ body'[q] = body[q] /\ user_account'[q] = user_account[q]
        BY <3>1, <3>3 DEF OnlySteps
      <4>2. \A resource : Wrote(audit_log, q, resource) => Wrote(audit_log', q, resource)
        BY <3>1 DEF Wrote
      <4>3. QED
        BY <3>1, <4>1, <4>2 DEF AuditedOK
    <3>4. QED
      BY <3>2, <3>3
  <2>2. CASE UNCHANGED vars
    <3>1. UNCHANGED <<pc, response, body, user_account, audit_log>>
      BY <2>2 DEF vars
    <3>2. ASSUME NEW r \in Request PROVE AuditedOK(r)'
      <4>1. AuditedOK(r)
        OBVIOUS
      <4>2. QED
        BY <3>1, <4>1 DEF AuditedOK
    <3>3. QED
      BY <3>2
  <2>3. QED
    BY <2>1, <2>2 DEF Next
<1>3. Inv => AnsweredIsAudited
  BY DEF AuditedOK, Wrote, AnsweredIsAudited
<1>4. QED
  BY <1>1, <1>2, <1>3, Inductive, PTL DEF Spec

-----------------------------------------------------------------------------
(* The query of Login finds one user at most: UNIQUE(`name`) of the accounts and
   UNIQUE(`email`, `account_id`) of the users make name and email a key of both. *)
LEMMA OneUserFound ==
    ASSUME IInv, NEW n \in AccountName, NEW e,
           NEW u \in FindByAccountNameAndEmail(n, e), NEW v \in FindByAccountNameAndEmail(n, e)
    PROVE  u = v
<1>1. /\ u \in Request /\ v \in Request
      /\ user_account[u] \in User /\ user_account[v] \in User
      /\ user_account[u].email = user_account[v].email
      /\ account[user_account[u].account] = n /\ account[user_account[v].account] = n
  BY DEF FindByAccountNameAndEmail, IInv, TypeOK
<1>2. /\ user_account[u].account \in Request /\ user_account[v].account \in Request
      /\ n # None
  BY <1>1 DEF User
<1>3. user_account[u].account = user_account[v].account
  BY <1>1, <1>2 DEF IInv, AccountsUnique
<1>4. QED
  BY <1>1, <1>3 DEF IInv, UsersUnique

(* The step of Login that looks for whoever was told they signed up *)
LEMMA LoginFinds ==
    ASSUME IInv, NEW r \in Request, NEW s \in Request, FindUser(r),
           response[s] # None, response[s].status = 200, body[s].route = "signup",
           body[r].name = body[s].name, body[r].email = body[s].email,
           body[r].password = body[s].password
    PROVE  \/ pc'[r] = "logRead" /\ found'[r] = s
           \/ pc'[r] = "done" /\ response'[r].status = 500 /\ Faults # {}
<1>1. TypeOK /\ RequestOK(s) /\ AnswerOK(s) /\ pc[r] = "findUser"
  BY DEF IInv, FindUser
<1>2. UserOf(s, body[s]) /\ body[s] \in Body
  BY <1>1, BodyKnown DEF AnswerOK
<1>3. body[r].name \in AccountName
  BY <1>2, BodyFields
<1>4. s \in FindByAccountNameAndEmail(body[r].name, body[r].email)
  BY <1>2 DEF UserOf, FindByAccountNameAndEmail
<1>5. \A u \in FindByAccountNameAndEmail(body[r].name, body[r].email) : u = s
  BY <1>3, <1>4, OneUserFound
<1>6. user_account[s].password = body[r].password
  BY <1>2 DEF UserOf
<1>7. \/ found' = [found EXCEPT ![r] = s] /\ Goto(r, "logRead")
      \/ "jwt" \in Faults /\ Fail(r, 500)
  BY <1>4, <1>5, <1>6 DEF FindUser
<1>8. QED
  BY <1>1, <1>7 DEF TypeOK, Goto, Fail, Answer

(* Whoever was told that they signed up can log in with their password, whatever was
   stored meanwhile (Login). *)
THEOREM LoginsAreAccepted == Spec => LoginAcceptsWhoSignedUp
<1> DEFINE Accepts ==
      \A r, s \in Request :
          /\ pc[r] = "findUser" /\ pc'[r] # "findUser"
          /\ response[s] # None /\ response[s].status = 200 /\ body[s].route = "signup"
          /\ body[r].name = body[s].name /\ body[r].email = body[s].email
          /\ body[r].password = body[s].password
          => \/ pc'[r] = "logRead" /\ found'[r] = s
             \/ pc'[r] = "done" /\ response'[r].status = 500 /\ Faults # {}
             \/ pc'[r] = "crashed"
<1>1. IInv /\ [Next]_vars => [Accepts]_vars
  <2> SUFFICES ASSUME IInv, NEW q \in Request, Receive(q) \/ Handle(q) \/ Crash(q),
                      NEW r \in Request, NEW s \in Request,
                      pc[r] = "findUser", pc'[r] # "findUser",
                      response[s] # None, response[s].status = 200, body[s].route = "signup",
                      body[r].name = body[s].name, body[r].email = body[s].email,
                      body[r].password = body[s].password
               PROVE  \/ pc'[r] = "logRead" /\ found'[r] = s
                      \/ pc'[r] = "done" /\ response'[r].status = 500 /\ Faults # {}
                      \/ pc'[r] = "crashed"
    BY DEF Next
  <2>1. q = r /\ TypeOK
    BY StepFrame DEF OnlySteps, IInv
  <2>2. FindUser(r) \/ StatementFails(r) \/ Crash(r)
    BY <2>1 DEF Receive, Handle, Execute, AssertNewUser, FindAccount, SaveAccount, SaveUser,
                LogAccount, LogUser, LogRead
  <2>3. CASE FindUser(r)
    BY <2>3, LoginFinds
  <2>4. CASE StatementFails(r)
    BY <2>1, <2>4 DEF StatementFails, Fail, Answer, TypeOK
  <2>5. CASE Crash(r)
    BY <2>1, <2>5 DEF Crash, TypeOK
  <2>6. QED
    BY <2>2, <2>3, <2>4, <2>5
<1>2. QED
  BY <1>1, Inductive, PTL DEF Spec, LoginAcceptsWhoSignedUp

-----------------------------------------------------------------------------
(* Accounts, users and audit events are stored for good: what CertificateService and
   InvitationService assume of the users they find. *)
RowsAreForGood ==
    [][/\ \A q \in Request :
            /\ account[q] # None => account'[q] = account[q]
            /\ user_account[q] # None => user_account'[q] = user_account[q]
       /\ audit_log \subseteq audit_log']_vars

(* No step of a signup or a login removes or changes a row. *)
THEOREM StoredForGood == Spec => RowsAreForGood
<1>1. IInv /\ [Next]_vars =>
        [/\ \A q \in Request :
              /\ account[q] # None => account'[q] = account[q]
              /\ user_account[q] # None => user_account'[q] = user_account[q]
         /\ audit_log \subseteq audit_log']_vars
  BY StepFrame, LogGrows DEF Next, WrittenOnce
<1>2. QED
  BY <1>1, Inductive, PTL DEF Spec, RowsAreForGood

-----------------------------------------------------------------------------
(* How many steps a request at the statement s has left at most *)
StepsLeft(s) ==
    CASE s = "idle" -> 7
      [] s = "assertNewUser" -> 6
      [] s = "findAccount" -> 5
      [] s = "saveAccount" -> 4
      [] s = "saveUser" -> 3
      [] s \in {"logAccount", "findUser"} -> 2
      [] s \in {"logUser", "logRead"} -> 1
      [] s \in {"done", "crashed"} -> 0

(* Every step brings one request closer to its end, and leaves what was answered: no
   handler loops, no answer is given twice. *)
HandlersAdvance ==
    [][\E r \in Request :
          /\ StepsLeft(pc'[r]) < StepsLeft(pc[r])
          /\ \A q \in Request \ {r} : pc'[q] = pc[q] /\ response'[q] = response[q]
          /\ response[r] = None]_vars

(* Whatever ended was answered, unless its replica died. *)
DoneIsAnswered == \A r \in Request : response[r] # None <=> pc[r] = "done"

LEMMA HandlerAdvances ==
    ASSUME IInv, NEW r \in Request, Receive(r) \/ Handle(r) \/ Crash(r),
           response[r] # None <=> pc[r] = "done"
    PROVE  /\ StepsLeft(pc'[r]) < StepsLeft(pc[r]) /\ response[r] = None
           /\ response'[r] # None <=> pc'[r] = "done"
<1>0. TypeOK
  BY DEF IInv
<1>1. \A s \in {400, 401, 409, 500} : [status |-> s] # None
  BY AnswerTypes
<1> USE DEF Goto, Answer, Fail, StepsLeft
<1>2. CASE Receive(r) \/ AssertNewUser(r) \/ FindAccount(r)
  BY <1>0, <1>1, <1>2 DEF TypeOK, Receive, AssertNewUser, FindAccount
<1>3. CASE SaveAccount(r) \/ SaveUser(r)
  BY <1>0, <1>1, <1>3 DEF TypeOK, SaveAccount, SaveUser
<1>4. CASE LogAccount(r) \/ FindUser(r)
  BY <1>0, <1>1, <1>4 DEF TypeOK, LogAccount, FindUser
<1>5. CASE LogUser(r)
  <2>1. response'[r] # None
    BY <1>0, <1>1, <1>5, NoneRecordAssumption DEF TypeOK, LogUser, Token, Response, IInv, RequestOK, User
  <2>2. QED
    BY <1>0, <1>5, <2>1 DEF TypeOK, LogUser
<1>6. CASE LogRead(r)
  <2>1. /\ found[r] \in Request /\ user_account[found[r]] \in User
    BY <1>0, <1>6 DEF LogRead, IInv, RequestOK, UserOf, TypeOK
  <2>2. Token(found[r]) # None
    BY <2>1, AnswerTypes DEF Token, User
  <2>3. QED
    BY <1>0, <1>6, <2>2 DEF TypeOK, LogRead
<1>7. CASE StatementFails(r) \/ Crash(r)
  BY <1>0, <1>1, <1>7 DEF TypeOK, StatementFails, Crash, Statement
<1>8. QED
  BY <1>2, <1>3, <1>4, <1>5, <1>6, <1>7 DEF Handle, Execute

(* All of EveryRequestAnswered but its fairness: a request takes seven steps at most,
   and after the last of them it was answered. *)
THEOREM HandlersEnd == Spec => HandlersAdvance /\ []DoneIsAnswered
<1> DEFINE Advances ==
      \E r \in Request :
          /\ StepsLeft(pc'[r]) < StepsLeft(pc[r])
          /\ \A q \in Request \ {r} : pc'[q] = pc[q] /\ response'[q] = response[q]
          /\ response[r] = None
<1>1. Init => DoneIsAnswered
  BY DEF Init, DoneIsAnswered
<1>2. IInv /\ DoneIsAnswered /\ [Next]_vars => DoneIsAnswered' /\ [Advances]_vars
  <2> SUFFICES ASSUME IInv, DoneIsAnswered, [Next]_vars
               PROVE  DoneIsAnswered' /\ [Advances]_vars
    OBVIOUS
  <2>1. ASSUME NEW r \in Request, Receive(r) \/ Handle(r) \/ Crash(r)
        PROVE  DoneIsAnswered' /\ Advances
    <3>1. OnlySteps(r)
      BY <2>1, StepFrame
    <3>2. /\ StepsLeft(pc'[r]) < StepsLeft(pc[r]) /\ response[r] = None
          /\ response'[r] # None <=> pc'[r] = "done"
      BY <2>1, HandlerAdvances DEF DoneIsAnswered
    <3>3. Advances
      BY <3>1, <3>2 DEF OnlySteps
    <3>4. DoneIsAnswered'
      BY <3>1, <3>2 DEF OnlySteps, DoneIsAnswered
    <3>5. QED
      BY <3>3, <3>4
  <2>2. CASE UNCHANGED vars
    BY <2>2 DEF vars, DoneIsAnswered
  <2>3. QED
    BY <2>1, <2>2 DEF Next
<1>3. QED
  BY <1>1, <1>2, Inductive, PTL DEF Spec, HandlersAdvance
=============================================================================
