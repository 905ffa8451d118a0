--------------------------- MODULE AccountService ---------------------------
(***************************************************************************)
(* Signup and login as the api-server runs them: every HTTP request is a   *)
(* goroutine of one of several replicas, and all of them work on the same  *)
(* MySQL database, one auto-committed statement at a time.  A step of a    *)
(* request is one statement together with the local computation up to the  *)
(* next one, so any two requests interleave between statements.            *)
(*                                                                         *)
(* account and user_account are indexed by row id.  The ids are UUIDs the  *)
(* handler draws, and a request stores at most one row in each table, so   *)
(* the request stands for the id: account[r] is the name of the account    *)
(* row that signup r inserted.                                             *)
(***************************************************************************)
EXTENDS FiniteSets

CONSTANTS
    Request,       \* HTTP requests, each handled once
    AccountName,
    Email,
    Password,
    Strong,        \* the passwords the policy's MinLength admits
    TooLong,       \* the names and emails that exceed their VARCHAR(50)
    None,          \* no row, no body, no response
    Faults         \* what may fail: "db", "jwt", "crash"

ASSUME NoneAssumption == None \notin Request \cup AccountName
ASSUME StrongAssumption == Strong \subseteq Password
ASSUME FaultsAssumption == Faults \subseteq {"db", "jwt", "crash"}

Role == {"ADMIN", "USER"}

(* model.AuthenticationRequest, with the route it was posted to *)
Body == [route: {"signup", "login"}, name: AccountName, email: Email, password: Password]

(* A row of user_account; the stored hash stands for the password it verifies *)
User == [email: Email, role: Role, account: Request, password: Password]

(* An answer; a token carries the id and the role of its user *)
Response == [status: {200}, user: Request, role: Role]
            \cup [status: {400, 401, 409, 500}]

Event == [id: Request, userId: Request, activity: {"CREATE", "READ"},
          resource: {"account", "user"} \X Request]

ASSUME NoneRecordAssumption == None \notin User \cup Body \cup Response

VARIABLES
    account,       \* account[a]: name of the row with id a, or None
    user_account,  \* user_account[u]: the row with id u, or None
    audit_log,     \* the stored audit events
    pc,            \* pc[r]: the statement request r executes next
    body,          \* body[r]: the parsed request, or None before it arrives
    found,         \* found[r]: the account (signup) or user (login) r works on
    response       \* response[r]: what r was answered, or None

db == <<account, user_account, audit_log>>
vars == <<account, user_account, audit_log, pc, body, found, response>>

Statement == {"assertNewUser", "findAccount", "saveAccount", "saveUser",
              "logAccount", "logUser", "findUser", "logRead"}

TypeOK ==
    /\ account \in [Request -> AccountName \cup {None}]
    /\ user_account \in [Request -> User \cup {None}]
    /\ audit_log \subseteq Event
    /\ pc \in [Request -> Statement \cup {"idle", "done", "crashed"}]
    /\ body \in [Request -> Body \cup {None}]
    /\ found \in [Request -> Request \cup {None}]
    /\ response \in [Request -> Response \cup {None}]

Init ==
    /\ account = [r \in Request |-> None]
    /\ user_account = [r \in Request |-> None]
    /\ audit_log = {}
    /\ pc = [r \in Request |-> "idle"]
    /\ body = [r \in Request |-> None]
    /\ found = [r \in Request |-> None]
    /\ response = [r \in Request |-> None]

-----------------------------------------------------------------------------
(* The queries *)

(* SELECT ... FROM account WHERE name = ? *)
FindByName(n) == {a \in Request : account[a] = n}

(* Mutant of FindByAccountNameAndEmail: the account is not part of the condition *)
FindByEmailOnly(n, e) ==
    {u \in Request : user_account[u] # None /\ user_account[u].email = e}

(* ... user_account u INNER JOIN account a ... WHERE u.email = ? AND a.name = ? *)
FindByAccountNameAndEmail(n, e) ==
    {u \in Request : /\ user_account[u] # None
                     /\ user_account[u].email = e
                     /\ account[user_account[u].account] = n}

(* Mutant of EmailTaken: the table has no unique key *)
EmailNeverTaken(e, a) == FALSE

(* UNIQUE(`email`, `account_id`) *)
EmailTaken(e, a) ==
    \E u \in Request : /\ user_account[u] # None
                       /\ user_account[u].email = e
                       /\ user_account[u].account = a

-----------------------------------------------------------------------------
(* Control *)

Goto(r, next) ==
    /\ pc' = [pc EXCEPT ![r] = next]
    /\ UNCHANGED response

Answer(r, res) ==
    /\ pc' = [pc EXCEPT ![r] = "done"]
    /\ response' = [response EXCEPT ![r] = res]

Fail(r, status) == Answer(r, [status |-> status])

(* A request arrives and its handler starts; bodies that do not parse are
   refused before they reach the service and are left out. *)
Receive(r) ==
    /\ pc[r] = "idle"
    /\ \E b \in Body :
        /\ body' = [body EXCEPT ![r] = b]
        /\ Goto(r, IF b.route = "signup" THEN "assertNewUser" ELSE "findUser")
    /\ UNCHANGED <<account, user_account, audit_log, found>>

(* Signup: assertNewUser, then the password hashing that opens createUser *)
AssertNewUser(r) ==
    /\ pc[r] = "assertNewUser"
    /\ IF FindByAccountNameAndEmail(body[r].name, body[r].email) # {}
       THEN Fail(r, 409)
       ELSE IF body[r].password \notin Strong
       THEN Fail(r, 400)
       ELSE Goto(r, "findAccount")
    /\ UNCHANGED <<account, user_account, audit_log, body, found>>

(* Mutant of FindAccount: the account that was found is not used *)
FindAccountIgnored(r) ==
    /\ pc[r] = "findAccount"
    /\ Goto(r, "saveAccount")
    /\ UNCHANGED <<account, user_account, audit_log, body, found>>

(* getOrCreateAccount, first statement *)
FindAccount(r) ==
    /\ pc[r] = "findAccount"
    /\ \/ \E a \in FindByName(body[r].name) :
            /\ found' = [found EXCEPT ![r] = a]
            /\ Goto(r, "saveUser")
       \/ /\ FindByName(body[r].name) = {}
          /\ Goto(r, "saveAccount")
          /\ UNCHANGED found
    /\ UNCHANGED <<account, user_account, audit_log, body>>

(* Mutants of SaveAccount: the table has no unique key; the conflicting insert
   waits instead of failing *)
SaveAccountUnchecked(r) ==
    /\ pc[r] = "saveAccount"
    /\ account' = [account EXCEPT ![r] = body[r].name]
    /\ found' = [found EXCEPT ![r] = r]
    /\ Goto(r, "saveUser")
    /\ UNCHANGED <<user_account, audit_log, body>>
SaveAccountWaits(r) ==
    /\ pc[r] = "saveAccount" /\ FindByName(body[r].name) = {}
    /\ SaveAccountUnchecked(r)

(* getOrCreateAccount, second statement: AccountRepo.Save under UNIQUE(`name`)
   and VARCHAR(50), which nothing checks before MySQL does.
   With a database fault the row may be stored and the caller still see an
   error: a cancelled context or a connection lost before the reply. *)
SaveAccount(r) ==
    /\ pc[r] = "saveAccount"
    /\ \/ /\ FindByName(body[r].name) # {} \/ body[r].name \in TooLong
          /\ Fail(r, 500)
          /\ UNCHANGED <<account, found>>
       \/ /\ FindByName(body[r].name) = {} /\ body[r].name \notin TooLong
          /\ account' = [account EXCEPT ![r] = body[r].name]
          /\ \/ /\ found' = [found EXCEPT ![r] = r]
                /\ Goto(r, "saveUser")
             \/ /\ "db" \in Faults
                /\ Fail(r, 500)
                /\ UNCHANGED found
    /\ UNCHANGED <<user_account, audit_log, body>>

(* Mutants of RoleOf: the existence of the account is asked once more after it
   was saved; the first member to be stored becomes ADMIN *)
RoleAskedAgain(r) == IF FindByName(body[r].name) = {} THEN "ADMIN" ELSE "USER"
RoleOfFirstMember(r) ==
    IF \E u \in Request : user_account[u] # None /\ user_account[u].account = found[r]
    THEN "USER" ELSE "ADMIN"

(* createUser, lines 92-95: existed is false exactly when r inserted the row *)
RoleOf(r) == IF found[r] = r THEN "ADMIN" ELSE "USER"

(* createUser: UserRepo.Save under UNIQUE(`email`, `account_id`) and VARCHAR(50) *)
SaveUser(r) ==
    /\ pc[r] = "saveUser"
    /\ \/ /\ EmailTaken(body[r].email, found[r]) \/ body[r].email \in TooLong
          /\ Fail(r, 500)
          /\ UNCHANGED user_account
       \/ /\ ~EmailTaken(body[r].email, found[r]) /\ body[r].email \notin TooLong
          /\ user_account' = [user_account EXCEPT ![r] =
                [email |-> body[r].email, role |-> RoleOf(r),
                 account |-> found[r], password |-> body[r].password]]
          /\ \/ Goto(r, "logAccount")
             \/ "db" \in Faults /\ Fail(r, 500)
    /\ UNCHANGED <<account, audit_log, body, found>>

(* audit.Logger: a failed Save of the event is logged and otherwise ignored *)
Audit(r, user, activity, resource) ==
    \/ audit_log' = audit_log \cup
          {[id |-> r, userId |-> user, activity |-> activity, resource |-> resource]}
    \/ "db" \in Faults /\ UNCHANGED audit_log

(* JwtIssuer.Issue(user.JWTUser()) *)
Token(u) == [status |-> 200, user |-> u, role |-> user_account[u].role]

(* Mutants of LogAccount: the activities are swapped; joining an account is not logged *)
LogAccountSwapped(r) ==
    /\ pc[r] = "logAccount"
    /\ Audit(r, r, IF found[r] = r THEN "READ" ELSE "CREATE", <<"account", found[r]>>)
    /\ Goto(r, "logUser")
    /\ UNCHANGED <<account, user_account, body, found>>
LogAccountOnCreation(r) ==
    /\ pc[r] = "logAccount"
    /\ IF found[r] = r THEN Audit(r, r, "CREATE", <<"account", r>>) ELSE UNCHANGED audit_log
    /\ Goto(r, "logUser")
    /\ UNCHANGED <<account, user_account, body, found>>

(* createUser: logNewUser, the event about the account *)
LogAccount(r) ==
    /\ pc[r] = "logAccount"
    /\ Audit(r, r, IF found[r] = r THEN "CREATE" ELSE "READ", <<"account", found[r]>>)
    /\ Goto(r, "logUser")
    /\ UNCHANGED <<account, user_account, body, found>>

(* createUser: logNewUser, the event about the user; then Signup issues the token *)
LogUser(r) ==
    /\ pc[r] = "logUser"
    /\ Audit(r, r, "CREATE", <<"user", r>>)
    /\ \/ Answer(r, Token(r))
       \/ "jwt" \in Faults /\ Fail(r, 500)
    /\ UNCHANGED <<account, user_account, body, found>>

(* Mutant of FindUser: the password is not verified *)
FindUserUnverified(r) ==
    /\ pc[r] = "findUser"
    /\ \E u \in FindByAccountNameAndEmail(body[r].name, body[r].email) :
          found' = [found EXCEPT ![r] = u]
    /\ Goto(r, "logRead")
    /\ UNCHANGED <<account, user_account, audit_log, body>>

(* Login: findUser, PasswordService.Verify, and the token; it is answered
   after the audit event, in LogRead *)
FindUser(r) ==
    /\ pc[r] = "findUser"
    /\ \/ /\ FindByAccountNameAndEmail(body[r].name, body[r].email) = {}
          /\ Fail(r, 401)
          /\ UNCHANGED found
       \/ \E u \in FindByAccountNameAndEmail(body[r].name, body[r].email) :
            \/ /\ user_account[u].password # body[r].password
               /\ Fail(r, 401)
               /\ UNCHANGED found
            \/ /\ user_account[u].password = body[r].password
               /\ \/ /\ found' = [found EXCEPT ![r] = u]
                     /\ Goto(r, "logRead")
                  \/ /\ "jwt" \in Faults
                     /\ Fail(r, 500)
                     /\ UNCHANGED found
    /\ UNCHANGED <<account, user_account, audit_log, body>>

LogRead(r) ==
    /\ pc[r] = "logRead"
    /\ Audit(r, found[r], "READ", <<"user", found[r]>>)
    /\ Answer(r, Token(found[r]))
    /\ UNCHANGED <<account, user_account, body, found>>

(* Any statement outside the audit logger may fail without effect; every
   caller turns that into an answer 500. *)
StatementFails(r) ==
    /\ "db" \in Faults
    /\ pc[r] \in {"assertNewUser", "findAccount", "saveAccount", "saveUser", "findUser"}
    /\ Fail(r, 500)
    /\ UNCHANGED <<account, user_account, audit_log, body, found>>

(* The replica dies: what is committed stays, the request is never answered *)
Crash(r) ==
    /\ "crash" \in Faults
    /\ pc[r] \in Statement
    /\ pc' = [pc EXCEPT ![r] = "crashed"]
    /\ UNCHANGED <<account, user_account, audit_log, body, found, response>>

(* The handler of r executes its next statement *)
Execute(r) ==
    \/ AssertNewUser(r)
    \/ FindAccount(r)
    \/ SaveAccount(r)
    \/ SaveUser(r)
    \/ LogAccount(r)
    \/ LogUser(r)
    \/ FindUser(r)
    \/ LogRead(r)

Handle(r) == Execute(r) \/ StatementFails(r)

Next == \E r \in Request : Receive(r) \/ Handle(r) \/ Crash(r)

Spec == Init /\ [][Next]_vars

(* A goroutine that can run is scheduled; clients are not obliged to send
   anything and replicas are not obliged to die. *)
FairSpec == Spec /\ \A r \in Request : WF_vars(Execute(r))

-----------------------------------------------------------------------------
(* Properties *)

(* The accounts whose name no request is working on any more *)
Settled(a) ==
    /\ account[a] # None
    /\ \A r \in Request : pc[r] \in Statement => body[r].name # account[a]

Members(a) == {u \in Request : user_account[u] # None /\ user_account[u].account = a}

HasAdmin(a) == \E u \in Members(a) : user_account[u].role = "ADMIN"

(* Whatever signups race and whatever fails, no two stored users with the
   same account name are both ADMIN: getOrCreateAccount makes one creator. *)
OneAdminPerAccountName ==
    \A u, v \in Request :
        /\ user_account[u] # None /\ user_account[u].role = "ADMIN"
        /\ user_account[v] # None /\ user_account[v].role = "ADMIN"
        /\ account[user_account[u].account] = account[user_account[v].account]
        => u = v

(* assertNewUser checks and UserRepo.Save acts later, yet at most one signup
   for the same account name and email is ever answered 200. *)
OneSignupSucceeds ==
    \A r, s \in Request :
        /\ response[r] # None /\ response[r].status = 200 /\ body[r].route = "signup"
        /\ response[s] # None /\ response[s].status = 200 /\ body[s].route = "signup"
        /\ body[r].name = body[s].name /\ body[r].email = body[s].email
        => r = s

(* Whoever was told that they signed up can log in, with the password they chose: the
   query of Login finds one row at most, theirs, whatever was stored meanwhile, and
   only a fault keeps them from a token. *)
LoginAcceptsWhoSignedUp ==
    [][\A r, s \in Request :
          /\ pc[r] = "findUser" /\ pc'[r] # "findUser"
          /\ response[s] # None /\ response[s].status = 200 /\ body[s].route = "signup"
          /\ body[r].name = body[s].name /\ body[r].email = body[s].email
          /\ body[r].password = body[s].password
          => \/ pc'[r] = "logRead" /\ found'[r] = s
             \/ pc'[r] = "done" /\ response'[r].status = 500 /\ Faults # {}
             \/ pc'[r] = "crashed"]_vars

(* A token handed out by Signup or Login names a stored user of the requested
   account and email whose password the request knew, with the stored role. *)
TokenNamesStoredUser ==
    \A r \in Request :
        response[r] # None /\ response[r].status = 200 =>
            LET u == user_account[response[r].user]
            IN  /\ u # None
                /\ u.email = body[r].email
                /\ u.password = body[r].password
                /\ u.role = response[r].role
                /\ account[u.account] = body[r].name

(* The audit log never tells of something that did not happen: a CREATE event
   is about a row that is stored, written by the signup that stored it, and a
   READ event is about the user or the account of the user it names. *)
AuditTellsTheTruth ==
    \A e \in audit_log :
        /\ user_account[e.userId] # None
        /\ e.activity = "CREATE" => e.userId = e.id
        /\ e.resource[1] = "user" => e.resource[2] = e.userId
        /\ e.resource[1] = "account" =>
              /\ e.resource[2] = user_account[e.userId].account
              /\ account[e.resource[2]] # None
              /\ (e.activity = "CREATE") <=> (user_account[e.userId].role = "ADMIN")

Failed(r) == response[r] # None /\ response[r].status = 500

NameRefused(r) ==
    body[r].name \in TooLong \/ \E s \in Request \ {r} : account[s] = body[r].name

EmailRefused(r) ==
    \/ body[r].email \in TooLong
    \/ \E s \in Request \ {r} :
          /\ user_account[s] # None
          /\ user_account[s].email = body[r].email
          /\ user_account[s].account = found[r]

(* r can still find the account it asks for, or the user *)
FindsAccount(r) ==
    pc[r] \in {"assertNewUser", "findAccount"} /\ FindByName(body[r].name) # {}
FindsUser(r) ==
    pc[r] = "assertNewUser" /\ FindByAccountNameAndEmail(body[r].name, body[r].email) # {}

(* With a healthy database an answer 500 means that a column did not hold the value
   or that a race was lost.  A signup that knows no account fails for another founder
   of the name, one that founded or joined an account for another user with the email
   in this account.  The rival came meanwhile: whoever can still find the account does
   not fail for its name, and whoever can still find the user does not fail at all. *)
FailureMeansRival ==
    /\ [](\A r \in Request :
             Failed(r) => IF found[r] = None THEN NameRefused(r) ELSE EmailRefused(r))
    /\ \A r \in Request :
          /\ [](FindsAccount(r) => [](Failed(r) => found[r] # None))
          /\ [](FindsUser(r) => []~Failed(r))

(* With a healthy database an account ends up without an ADMIN in two ways: a
   second signup with the founder's own email stored the founder's user before
   the founder's signup did, or the founder's email was refused by its column. *)
AdminLostOnlyToDuplicate ==
    \A a \in Request :
        Settled(a) /\ ~HasAdmin(a) =>
            \/ body[a].email \in TooLong
            \/ \E u \in Members(a) : u # a /\ user_account[u].email = body[a].email

(* With a healthy database every signup that was answered 200 left both of its
   audit events behind, and every login its one. *)
AnsweredIsAudited ==
    \A r \in Request :
        response[r] # None /\ response[r].status = 200 =>
            /\ \E e \in audit_log : e.id = r /\ e.resource = <<"user", response[r].user>>
            /\ body[r].route = "signup" =>
                 \E e \in audit_log :
                     e.id = r /\ e.resource = <<"account", user_account[r].account>>

(* The tests of signup: the user of the signup that creates an account "Should
   be ADMIN since account was created".  So an account nobody is working on
   any more, if it has members at all, has an ADMIN. *)
SettledAccountHasAdmin ==
    \A a \in Request : Settled(a) /\ Members(a) # {} => HasAdmin(a)

(* Every request that a live replica took up is answered. *)
EveryRequestAnswered ==
    \A r \in Request : pc[r] \in Statement ~> response[r] # None

(* The rows implement the promise of the registry: the founder of a name is the
   signup that stored the account row, its members are the stored users. *)
founderBar ==
    [n \in AccountName |-> IF FindByName(n) = {} THEN None ELSE CHOOSE a \in FindByName(n) : TRUE]
memberBar ==
    {[by |-> u, name |-> account[user_account[u].account],
      email |-> user_account[u].email, role |-> user_account[u].role] :
        u \in {u \in Request : user_account[u] # None}}

R == INSTANCE Registry WITH founder <- founderBar, member <- memberBar

(* Every step of the service is a founding, an enrolment or neither. *)
ImplementsRegistry == R!Spec
=============================================================================
