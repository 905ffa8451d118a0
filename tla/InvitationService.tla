-------------------------- MODULE InvitationService --------------------------
(***************************************************************************)
(* The routes of the api-server for users and invitations: reading a user, *)
(* for which authorization.Service reads up to two others first, inviting  *)
(* somebody into one's account, and reading an invitation, which anybody   *)
(* who knows its id may do.  An invitation cannot be accepted yet: that    *)
(* route is commented out.                                                 *)
(*                                                                         *)
(* As in CertificateService a step is one statement, with the local        *)
(* computation up to the next one, and a request stands for the id it      *)
(* draws.  Users sign up meanwhile, each into an account of theirs for     *)
(* good: where a signup is a step of its own here, AccountService has its  *)
(* statements.                                                             *)
(***************************************************************************)
EXTENDS Naturals

CONSTANTS
    Request,       \* HTTP requests, each handled once
    User,
    Account,
    AccountOf,     \* the account a user is stored in, once it is
    RoleOf,        \* the role in the user's row and tokens
    Email,
    TooLong,       \* the emails that exceed VARCHAR(50)
    Unknown,       \* an invitation id that no handler ever drew
    None,          \* no row, no value; the empty email
    Faults         \* what may fail: "db", "crash"

Role == {"ADMIN", "USER"}

ASSUME UserAssumption ==
    /\ AccountOf \in [User -> Account]
    /\ RoleOf \in [User -> Role]
ASSUME FaultsAssumption == Faults \subseteq {"db", "crash"}

(* A parsed request with the subject of its token, if its route asks for one *)
Body ==
    [op: {"getUser"}, user: User, id: User]
    \cup [op: {"create"}, user: User, email: Email \cup {None}, role: Role \cup {"other"}]
    \cup [op: {"getInvitation"}, id: Request \cup {Unknown}]

(* A row; its status is CREATED, its dates are left out *)
Invitation == [email: Email, role: Role, createdBy: User, account: Account]

Status == {200, 400, 401, 403, 404, 500}

Event == [id: Request, userId: User \cup {"ANONYMOUS"}, activity: {"CREATE", "READ"},
          resource: ({"user"} \X User) \cup ({"invitation"} \X Request)]

ASSUME NoneAssumption == None \notin {Unknown} \cup Email \cup Body \cup Invitation \cup Status
ASSUME UnknownAssumption == Unknown \notin Request
ASSUME AnonymousAssumption == "ANONYMOUS" \notin User

VARIABLES
    user_account,  \* the users that are stored
    invitation,    \* invitation[i]: the row with id i, or None
    audit_log,     \* the stored audit events
    pc,            \* pc[r]: the statement request r executes next
    body,          \* body[r]: the parsed request, or None before it arrives
    response       \* response[r]: the status r was answered with, or None

vars == <<user_account, invitation, audit_log, pc, body, response>>
tables == <<user_account, invitation>>

Statement == {"findOther", "findPrincipal", "find", "logUser", "findCreator", "save",
              "logCreated", "findInvitation", "logInvitation"}

TypeOK ==
    /\ user_account \subseteq User
    /\ invitation \in [Request -> Invitation \cup {None}]
    /\ audit_log \subseteq Event
    /\ pc \in [Request -> Statement \cup {"idle", "done", "crashed"}]
    /\ body \in [Request -> Body \cup {None}]
    /\ response \in [Request -> Status \cup {None}]

Init ==
    /\ user_account = {}
    /\ invitation = [r \in Request |-> None]
    /\ audit_log = {}
    /\ pc = [r \in Request |-> "idle"]
    /\ body = [r \in Request |-> None]
    /\ response = [r \in Request |-> None]

-----------------------------------------------------------------------------
(* Control *)

Goto(r, next) ==
    /\ pc' = [pc EXCEPT ![r] = next]
    /\ UNCHANGED response

Answer(r, status) ==
    /\ pc' = [pc EXCEPT ![r] = "done"]
    /\ response' = [response EXCEPT ![r] = status]

(* audit.Logger: a failed Save of the event is logged and otherwise ignored *)
Audit(r, u, activity, resource) ==
    \/ audit_log' = audit_log \cup
          {[id |-> r, userId |-> u, activity |-> activity, resource |-> resource]}
    \/ "db" \in Faults /\ UNCHANGED audit_log

(* A user is stored by a signup *)
Save(u) ==
    /\ u \notin user_account
    /\ user_account' = user_account \cup {u}
    /\ UNCHANGED <<invitation, audit_log, pc, body, response>>

(* InvitationCreationRequest.Validate *)
Valid(b) == b.role \in Role /\ b.email # None

(* AssertUserAccess up to its first statement: nobody but an ADMIN may ask for
   somebody else.  Every token has one of the roles it asks for before. *)
AssertUserAccess(r, b) ==
    IF b.user = b.id THEN Goto(r, "find")
    ELSE IF RoleOf[b.user] # "ADMIN" THEN Answer(r, 403)
    ELSE Goto(r, "findOther")

(* The routes with their groups, then the parsing.  Tokens are given to stored
   users; one may be of another database.  An invitation's id is known when its
   creation was answered, or made up. *)
Receive(r) ==
    /\ pc[r] = "idle"
    /\ \E b \in Body :
        /\ body' = [body EXCEPT ![r] = b]
        /\ \/ b.op = "getUser" /\ AssertUserAccess(r, b)
           \/ /\ b.op = "create"
              /\ IF RoleOf[b.user] # "ADMIN" THEN Answer(r, 403)
                 ELSE IF ~Valid(b) THEN Answer(r, 400)
                 ELSE Goto(r, "findCreator")
           \/ /\ b.op = "getInvitation"
              /\ b.id # Unknown => response[b.id] = 200 /\ body[b.id].op = "create"
              /\ Goto(r, "findInvitation")
    /\ UNCHANGED <<tables, audit_log>>

-----------------------------------------------------------------------------
(* GetUser *)

(* findUser of the user asked for, to learn the account *)
FindOther(r) ==
    /\ pc[r] = "findOther"
    /\ IF body[r].id \notin user_account THEN Answer(r, 401) ELSE Goto(r, "findPrincipal")
    /\ UNCHANGED <<tables, audit_log, body>>

(* Mutant of AssertAccountAccess: any stored user will do *)
AssertAnyAccess(r) ==
    /\ pc[r] = "findPrincipal"
    /\ IF body[r].user \notin user_account THEN Answer(r, 401) ELSE Goto(r, "find")
    /\ UNCHANGED <<tables, audit_log, body>>

(* AssertAccountAccess: findUser of the principal, whose account has to be that *)
AssertAccountAccess(r) ==
    /\ pc[r] = "findPrincipal"
    /\ IF body[r].user \notin user_account THEN Answer(r, 401)
       ELSE IF AccountOf[body[r].user] # AccountOf[body[r].id] THEN Answer(r, 403)
       ELSE Goto(r, "find")
    /\ UNCHANGED <<tables, audit_log, body>>

(* UserRepo.Find *)
Find(r) ==
    /\ pc[r] = "find"
    /\ IF body[r].id \notin user_account THEN Answer(r, 404) ELSE Goto(r, "logUser")
    /\ UNCHANGED <<tables, audit_log, body>>

LogUser(r) ==
    /\ pc[r] = "logUser"
    /\ Audit(r, body[r].user, "READ", <<"user", body[r].id>>)
    /\ Answer(r, 200)
    /\ UNCHANGED <<tables, body>>

-----------------------------------------------------------------------------
(* Invitations *)

(* createNewInviation: what is stored is of the account of whoever invites *)
FindCreator(r) ==
    /\ pc[r] = "findCreator"
    /\ IF body[r].user \notin user_account THEN Answer(r, 401) ELSE Goto(r, "save")
    /\ UNCHANGED <<tables, audit_log, body>>

newInvitation(b) ==
    [email |-> b.email, role |-> b.role, createdBy |-> b.user, account |-> AccountOf[b.user]]

(* Mutant of SaveInvitation: its error is ignored *)
SaveErrorIgnored(r) ==
    /\ pc[r] = "save"
    /\ invitation' = IF body[r].email \in TooLong THEN invitation
                     ELSE [invitation EXCEPT ![r] = newInvitation(body[r])]
    /\ Goto(r, "logCreated")
    /\ UNCHANGED <<user_account, audit_log, body>>

(* InvitationRepo.Save: nothing measures the email; with a database fault the
   reply may be lost *)
SaveInvitation(r) ==
    /\ pc[r] = "save"
    /\ IF body[r].email \in TooLong THEN Answer(r, 500) /\ UNCHANGED invitation
       ELSE /\ invitation' = [invitation EXCEPT ![r] = newInvitation(body[r])]
            /\ \/ Goto(r, "logCreated")
               \/ "db" \in Faults /\ Answer(r, 500)
    /\ UNCHANGED <<user_account, audit_log, body>>

LogNewInvitation(r) ==
    /\ pc[r] = "logCreated"
    /\ Audit(r, body[r].user, "CREATE", <<"invitation", r>>)
    /\ Answer(r, 200)
    /\ UNCHANGED <<tables, body>>

Stored(i) == i \in Request /\ invitation[i] # None

(* InvitationRepo.Find *)
FindInvitation(r) ==
    /\ pc[r] = "findInvitation"
    /\ IF ~Stored(body[r].id) THEN Answer(r, 404) ELSE Goto(r, "logInvitation")
    /\ UNCHANGED <<tables, audit_log, body>>

LogInvitationRead(r) ==
    /\ pc[r] = "logInvitation"
    /\ Audit(r, "ANONYMOUS", "READ", <<"invitation", body[r].id>>)
    /\ Answer(r, 200)
    /\ UNCHANGED <<tables, body>>

-----------------------------------------------------------------------------
(* Any statement outside the audit logger may fail, and is answered 500 *)
StatementFails(r) ==
    /\ "db" \in Faults
    /\ pc[r] \in Statement \ {"logUser", "logCreated", "logInvitation"}
    /\ Answer(r, 500)
    /\ UNCHANGED <<tables, audit_log, body>>

(* The replica dies *)
Crash(r) ==
    /\ "crash" \in Faults
    /\ pc[r] \in Statement
    /\ pc' = [pc EXCEPT ![r] = "crashed"]
    /\ UNCHANGED <<tables, audit_log, body, response>>

Handle(r) ==
    \/ FindOther(r) \/ AssertAccountAccess(r) \/ Find(r) \/ LogUser(r)
    \/ FindCreator(r) \/ SaveInvitation(r) \/ LogNewInvitation(r)
    \/ FindInvitation(r) \/ LogInvitationRead(r)
    \/ StatementFails(r)

Next ==
    \/ \E u \in User : Save(u)
    \/ \E r \in Request : Receive(r) \/ Handle(r) \/ Crash(r)

Spec == Init /\ [][Next]_vars

-----------------------------------------------------------------------------
(* Properties *)

(* Who may know of a user: the user, and the stored ADMINs of the account *)
MayRead(u, v) ==
    \/ u = v
    \/ RoleOf[u] = "ADMIN" /\ {u, v} \subseteq user_account /\ AccountOf[u] = AccountOf[v]

(* Whatever signs up between the statements of a request, it is answered with a
   user, or that there is none, only to those who may know of that user; and
   whoever is invited is invited by a stored ADMIN, into the account of theirs. *)
AccessStaysInAccount ==
    \A r \in Request :
        /\ response[r] \in {200, 404} /\ body[r].op = "getUser" =>
              /\ MayRead(body[r].user, body[r].id)
              /\ response[r] = 200 => body[r].id \in user_account
        /\ Stored(r) =>
              /\ invitation[r].createdBy \in user_account
              /\ RoleOf[invitation[r].createdBy] = "ADMIN"
              /\ invitation[r].account = AccountOf[invitation[r].createdBy]

(* Whoever asks for an invitation whose creation was announced is shown it: it is
   answered 404 only for an id that was made up, and 200 only for one that is stored, the
   invitation of a stored ADMIN into the account of theirs. *)
InvitationsAreFound ==
    \A r \in Request :
        pc[r] = "done" /\ body[r].op = "getInvitation" =>
            /\ response[r] = 404 => body[r].id = Unknown
            /\ response[r] = 200 =>
                 /\ Stored(body[r].id)
                 /\ RoleOf[invitation[body[r].id].createdBy] = "ADMIN"
                 /\ invitation[body[r].id].account = AccountOf[invitation[body[r].id].createdBy]

(* The audit log never tells of something that did not happen: whoever is said to
   have read a user could, whoever is said to have invited somebody did, and only
   stored invitations are said to have been read, by nobody in particular. *)
AuditTellsTheTruth ==
    \A e \in audit_log :
        LET x == e.resource[2]
        IN  \/ /\ e.resource[1] = "user" /\ e.activity = "READ"
               /\ x \in user_account /\ MayRead(e.userId, x)
            \/ /\ e.resource[1] = "invitation" /\ e.activity = "CREATE"
               /\ x = e.id /\ Stored(x) /\ invitation[x].createdBy = e.userId
            \/ /\ e.resource[1] = "invitation" /\ e.activity = "READ"
               /\ Stored(x) /\ e.userId = "ANONYMOUS"
=============================================================================
