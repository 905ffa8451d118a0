---------------------- MODULE InvitationService_proofs ----------------------
(***************************************************************************)
(* Proofs about the routes for users and invitations, for any number of    *)
(* users, accounts and requests, whatever fails: nobody learns of the      *)
(* users of another account, invitations are those of stored ADMINs, and   *)
(* the audit log is true.                                                  *)
(***************************************************************************)
EXTENDS InvitationService, TLAPS

USE UserAssumption, NoneAssumption, UnknownAssumption, AnonymousAssumption

(* What a request asserted before the statement `at', for its body b: it still holds
   then, since users and invitations are only ever added. *)
Ready(r, at, b) ==
    /\ at \in {"findOther", "findPrincipal", "find", "logUser"} => b.op = "getUser"
    /\ at \in {"findOther", "findPrincipal"} => RoleOf[b.user] = "ADMIN"
    /\ at \in {"findPrincipal", "logUser"} => b.id \in user_account
    /\ at \in {"find", "logUser"} => MayRead(b.user, b.id)
    /\ at \in {"findCreator", "save", "logCreated"} =>
          b.op = "create" /\ Valid(b) /\ RoleOf[b.user] = "ADMIN"
    /\ at \in {"save", "logCreated"} => b.user \in user_account
    /\ at \in {"findInvitation", "logInvitation"} => b.op = "getInvitation"
    /\ at = "logInvitation" => Stored(b.id)
    /\ at = "logCreated" <=> Stored(r) /\ at \notin {"done", "crashed"}

Progress(r) ==
    /\ pc[r] # "idle" => body[r] \in Body
    /\ Ready(r, pc[r], body[r])

(* Whoever is answered about a user with the status s may know of that user. *)
Entitled(s, b) ==
    s \in {200, 404} /\ b.op = "getUser" =>
        /\ MayRead(b.user, b.id)
        /\ s = 200 => b.id \in user_account

(* What is known of an answer and of a row *)
Answered(r) == Entitled(response[r], body[r])

Row(r) ==
    Stored(r) =>
        /\ pc[r] # "idle"
        /\ invitation[r] = newInvitation(body[r])
        /\ body[r].user \in user_account
        /\ RoleOf[body[r].user] = "ADMIN"

(* What makes an event true *)
Told(e) ==
    LET x == e.resource[2]
    IN  \/ /\ e.resource[1] = "user" /\ e.activity = "READ"
           /\ x \in user_account /\ MayRead(e.userId, x)
        \/ /\ e.resource[1] = "invitation" /\ e.activity = "CREATE"
           /\ x = e.id /\ Stored(x) /\ invitation[x].createdBy = e.userId
        \/ /\ e.resource[1] = "invitation" /\ e.activity = "READ"
           /\ Stored(x) /\ e.userId = "ANONYMOUS"

(* The inductive invariant *)
IInv ==
    /\ TypeOK
    /\ \A r \in Request :
          /\ Progress(r) /\ Answered(r) /\ Row(r)
          /\ response[r] # None => pc[r] = "done"
    /\ \A e \in audit_log : Told(e)

-----------------------------------------------------------------------------
(* A body has the fields of its operation. *)
LEMMA BodyFields ==
    ASSUME NEW b \in Body
    PROVE  /\ b.op = "getUser" => b.user \in User /\ b.id \in User
           /\ b.op = "create" => /\ b.user \in User /\ b.email \in Email \cup {None}
                                 /\ b.role \in Role \cup {"other"}
           /\ b.op = "getInvitation" => b.id \in Request \cup {Unknown}
BY DEF Body

(* What is stored for an invitation is a row. *)
LEMMA RowType ==
    ASSUME NEW b \in Body, b.op = "create", Valid(b)
    PROVE  /\ newInvitation(b) \in Invitation
           /\ newInvitation(b) # None
           /\ newInvitation(b).createdBy = b.user
           /\ newInvitation(b).account = AccountOf[b.user]
BY BodyFields DEF Valid, newInvitation, Invitation

(* What a step that only adds users and invitations leaves true of the requests
   that it does not advance, and of the events that were there. *)
LEMMA Monotone ==
    ASSUME IInv, NEW S \in SUBSET Request,
           user_account \subseteq user_account',
           \A x \in Request : Stored(x) => invitation'[x] = invitation[x],
           \A r \in Request \ S : /\ pc'[r] = pc[r] /\ body'[r] = body[r]
                                  /\ response'[r] = response[r]
                                  /\ invitation'[r] = invitation[r]
    PROVE  /\ \A r \in Request \ S :
                 /\ Progress(r)' /\ Answered(r)' /\ Row(r)'
                 /\ response'[r] # None => pc'[r] = "done"
           /\ \A e \in audit_log : Told(e)'
           /\ \A x : Stored(x) => Stored(x)'
           /\ \A u, v : MayRead(u, v) => MayRead(u, v)'
<1>1. \A x : Stored(x) => Stored(x)'
  BY DEF Stored
<1>2. \A u, v : MayRead(u, v) => MayRead(u, v)'
  BY DEF MayRead
<1>3. ASSUME NEW r \in Request \ S
      PROVE  /\ Progress(r)' /\ Answered(r)' /\ Row(r)'
             /\ response'[r] # None => pc'[r] = "done"
  <2>1. /\ Progress(r) /\ Answered(r) /\ Row(r) /\ (response[r] # None => pc[r] = "done")
        /\ pc'[r] = pc[r] /\ body'[r] = body[r] /\ response'[r] = response[r]
        /\ invitation'[r] = invitation[r]
    BY <1>3 DEF IInv
  <2>2. Progress(r)'
    BY <2>1, <1>1, <1>2 DEF Progress, Ready, Valid, Stored
  <2>3. Answered(r)'
    BY <2>1, <1>2 DEF Answered, Entitled
  <2>4. Row(r)'
    BY <2>1 DEF Row, Stored, newInvitation
  <2>5. QED
    BY <2>1, <2>2, <2>3, <2>4
<1>4. ASSUME NEW e \in audit_log PROVE Told(e)'
  <2>1. Told(e)
    BY <1>4 DEF IInv
  <2>2. Stored(e.resource[2]) => /\ Stored(e.resource[2])'
                                 /\ invitation'[e.resource[2]] = invitation[e.resource[2]]
    BY <1>1 DEF Stored
  <2>3. QED
    BY <2>1, <2>2, <1>2 DEF Told
<1>5. QED
  BY <1>1, <1>2, <1>3, <1>4

(* The invariant holds when nothing was received yet. *)
LEMMA InitIInv == Init => IInv
<1> SUFFICES ASSUME Init PROVE IInv
  OBVIOUS
<1>1. TypeOK
  BY DEF Init, TypeOK
<1>2. ASSUME NEW r \in Request
      PROVE  pc[r] = "idle" /\ response[r] = None /\ ~Stored(r) /\ None \notin {200, 404}
  BY DEF Init, Stored, Status
<1>3. ASSUME NEW r \in Request
      PROVE  Progress(r) /\ Answered(r) /\ Row(r) /\ response[r] = None
  BY <1>2 DEF Progress, Ready, Answered, Entitled, Row
<1>4. audit_log = {}
  BY DEF Init
<1>5. QED
  BY <1>1, <1>3, <1>4 DEF IInv

-----------------------------------------------------------------------------
(* A step of one request that stores no invitation. *)
LEMMA Advance ==
    ASSUME IInv, NEW r \in Request, NEW next, NEW b \in Body, NEW s,
           next \in Statement \cup {"done", "crashed"},
           s \in Status \cup {None}, s # None => next = "done",
           UNCHANGED tables,
           pc' = [pc EXCEPT ![r] = next],
           body' = [body EXCEPT ![r] = b],
           pc[r] # "idle" => b = body[r],
           response' = [response EXCEPT ![r] = s],
           Ready(r, next, b), Entitled(s, b),
           audit_log' \subseteq Event,
           \A e \in audit_log' \ audit_log : Told(e)
    PROVE  IInv'
<1>1. UNCHANGED <<user_account, invitation>>
  BY DEF tables
<1>2. /\ pc'[r] = next /\ body'[r] = b /\ response'[r] = s /\ next # "idle"
      /\ \A q \in Request \ {r} : /\ pc'[q] = pc[q] /\ body'[q] = body[q]
                                  /\ response'[q] = response[q]
  BY DEF IInv, TypeOK, Statement
<1>3. TypeOK'
  BY <1>1 DEF IInv, TypeOK
<1>4. /\ \A q \in Request \ {r} :
            /\ Progress(q)' /\ Answered(q)' /\ Row(q)'
            /\ response'[q] # None => pc'[q] = "done"
      /\ \A e \in audit_log : Told(e)'
  <2>1. {r} \in SUBSET Request
    OBVIOUS
  <2> HIDE UserAssumption, NoneAssumption, UnknownAssumption, AnonymousAssumption
  <2>2. QED
    BY <1>1, <1>2, <2>1, Monotone
<1>5. Progress(r)'
  BY <1>1, <1>2 DEF Progress, Ready, MayRead, Stored, Valid
<1>6. Answered(r)'
  BY <1>1, <1>2 DEF Answered, Entitled, MayRead
<1>7. Row(r)'
  <2>1. SUFFICES ASSUME Stored(r) PROVE Row(r)'
    BY <1>1 DEF Row, Stored
  <2>2. Row(r)
    BY DEF IInv
  <2>3. b = body[r]
    BY <2>1, <2>2 DEF Row
  <2>4. QED
    BY <1>1, <1>2, <2>1, <2>2, <2>3 DEF Row, newInvitation
<1>8. response'[r] # None => pc'[r] = "done"
  BY <1>2
<1>9. \A e \in audit_log' : Told(e)'
  <2>1. \A e : Told(e) => Told(e)'
    BY <1>1 DEF Told, MayRead, Stored
  <2>2. QED
    BY <2>1, <1>4
<1>10. QED
  BY <1>3, <1>4, <1>5, <1>6, <1>7, <1>8, <1>9 DEF IInv

(* The lemma above, for a statement that is not the last one. *)
LEMMA Go ==
    ASSUME IInv, NEW r \in Request, NEW next, pc[r] \in Statement,
           next \in Statement \cup {"crashed"},
           UNCHANGED <<tables, audit_log, body>>, Goto(r, next),
           Ready(r, next, body[r])
    PROVE  IInv'
<1> DEFINE b == body[r]
<1>1. b \in Body /\ body' = [body EXCEPT ![r] = b]
  BY DEF IInv, TypeOK, Progress, Statement
<1>2. /\ response' = [response EXCEPT ![r] = None]
      /\ pc' = [pc EXCEPT ![r] = next]
  BY DEF Goto, IInv, TypeOK, Statement
<1>3. audit_log' \subseteq Event /\ \A e \in audit_log' \ audit_log : Told(e)
  BY DEF IInv, TypeOK
<1>4. /\ None \in Status \cup {None} /\ UNCHANGED tables /\ Entitled(None, b)
      /\ next \in Statement \cup {"done", "crashed"}
  BY DEF Status, Entitled
<1>5. Ready(r, next, b)
  OBVIOUS
<1> HIDE UserAssumption, NoneAssumption, UnknownAssumption, AnonymousAssumption DEF b
<1>6. pc[r] # "idle" => b = body[r]
  BY DEF b
<1>7. QED
  BY <1>1, <1>2, <1>3, <1>4, <1>5, <1>6, Advance

(* And for an answer, with the event that goes with it. *)
LEMMA Ends ==
    ASSUME IInv, NEW r \in Request, NEW s \in Status, pc[r] \in Statement,
           UNCHANGED <<tables, body>>, Answer(r, s), Entitled(s, body[r]),
           audit_log' \subseteq Event,
           \A e \in audit_log' \ audit_log : Told(e)
    PROVE  IInv'
<1> DEFINE b == body[r]
<1>1. b \in Body /\ body' = [body EXCEPT ![r] = b]
  BY DEF IInv, TypeOK, Progress, Statement
<1>2. /\ response' = [response EXCEPT ![r] = s] /\ pc' = [pc EXCEPT ![r] = "done"]
      /\ s \in Status \cup {None} /\ UNCHANGED tables
  BY DEF Answer
<1>3. Ready(r, "done", b)
  BY DEF Ready
<1> HIDE UserAssumption, NoneAssumption, UnknownAssumption, AnonymousAssumption DEF b
<1>4. b = body[r] /\ Entitled(s, b) /\ "done" \in Statement \cup {"done", "crashed"}
  BY DEF b
<1>5. QED
  BY <1>1, <1>2, <1>3, <1>4, Advance

(* What audit.Logger adds is an event, and true if it tells of something true. *)
LEMMA AuditAdds ==
    ASSUME IInv, NEW r \in Request, NEW u, NEW activity, NEW resource,
           Audit(r, u, activity, resource),
           [id |-> r, userId |-> u, activity |-> activity, resource |-> resource] \in Event,
           Told([id |-> r, userId |-> u, activity |-> activity, resource |-> resource])
    PROVE  audit_log' \subseteq Event /\ \A e \in audit_log' \ audit_log : Told(e)
BY DEF Audit, IInv, TypeOK

-----------------------------------------------------------------------------
(* Receiving a request: the subject of its token is all that is known of it. *)
LEMMA ReceiveKeeps == ASSUME IInv, NEW r \in Request, Receive(r) PROVE IInv'
<1>1. PICK b \in Body : /\ body' = [body EXCEPT ![r] = b]
                        /\ \/ b.op = "getUser" /\ AssertUserAccess(r, b)
                           \/ /\ b.op = "create"
                              /\ IF RoleOf[b.user] # "ADMIN" THEN Answer(r, 403)
                                 ELSE IF ~Valid(b) THEN Answer(r, 400)
                                 ELSE Goto(r, "findCreator")
                           \/ /\ b.op = "getInvitation"
                              /\ Goto(r, "findInvitation")
  BY DEF Receive
<1>2. /\ pc[r] = "idle" /\ response[r] = None /\ ~Stored(r) /\ UNCHANGED tables
      /\ audit_log' \subseteq Event /\ \A e \in audit_log' \ audit_log : Told(e)
  <2>1. pc[r] = "idle" /\ UNCHANGED <<tables, audit_log>>
    BY DEF Receive
  <2>2. QED
    BY <2>1 DEF IInv, TypeOK, Row
<1>3. PICK next \in {"find", "findOther", "findCreator", "findInvitation", "done"},
           s \in {403, 400, None} :
         /\ pc' = [pc EXCEPT ![r] = next] /\ response' = [response EXCEPT ![r] = s]
         /\ s # None => next = "done"
         /\ next = "find" => b.op = "getUser" /\ b.user = b.id
         /\ next = "findOther" => b.op = "getUser" /\ RoleOf[b.user] = "ADMIN"
         /\ next = "findCreator" => b.op = "create" /\ Valid(b) /\ RoleOf[b.user] = "ADMIN"
         /\ next = "findInvitation" => b.op = "getInvitation"
  <2>1. response = [response EXCEPT ![r] = None]
    BY <1>2 DEF IInv, TypeOK
  <2>2. QED
    BY <1>1, <2>1 DEF AssertUserAccess, Goto, Answer
<1>4. Ready(r, next, b)
  BY <1>2, <1>3 DEF MayRead, Ready
<1>5. /\ s \in Status \cup {None} /\ Entitled(s, b)
      /\ next \in Statement \cup {"done", "crashed"}
  BY <1>3 DEF Status, Statement, Entitled
<1> HIDE UserAssumption, NoneAssumption, UnknownAssumption, AnonymousAssumption
<1>6. QED
  BY <1>1, <1>2, <1>3, <1>4, <1>5, Advance

(* Reading a user: what each statement asserts is what the next relies on. *)
LEMMA GetUserKeeps ==
    ASSUME IInv, NEW r \in Request,
           FindOther(r) \/ AssertAccountAccess(r) \/ Find(r) \/ LogUser(r)
    PROVE  IInv'
<1> DEFINE u == body[r].user
           v == body[r].id
<1>1. /\ pc[r] \in {"findOther", "findPrincipal", "find", "logUser"}
      /\ Ready(r, pc[r], body[r]) /\ body[r] \in Body
      /\ u \in User /\ v \in User /\ ~Stored(r)
  <2>1. pc[r] \in {"findOther", "findPrincipal", "find", "logUser"}
    BY DEF FindOther, AssertAccountAccess, Find, LogUser
  <2>2. Ready(r, pc[r], body[r]) /\ body[r] \in Body
    BY <2>1 DEF IInv, Progress
  <2>3. QED
    BY <2>1, <2>2, BodyFields DEF Ready
<1>2. /\ pc[r] \in Statement /\ {200, 401, 403, 404} \subseteq Status
      /\ {"findPrincipal", "find", "logUser"} \subseteq Statement \cup {"crashed"}
  BY <1>1 DEF Statement, Status
<1>3. ASSUME UNCHANGED <<tables, audit_log, body>>, NEW s \in {401, 403, 404}, Answer(r, s),
             s = 404 => MayRead(u, v)
      PROVE  IInv'
  <2>1. Entitled(s, body[r])
    BY <1>3 DEF Entitled
  <2>2. audit_log' \subseteq Event /\ \A e \in audit_log' \ audit_log : Told(e)
    BY <1>3 DEF IInv, TypeOK
  <2>3. QED
    BY <1>2, <1>3, <2>1, <2>2, Ends
<1>4. CASE FindOther(r)
  <2>1. CASE v \notin user_account
    BY <1>3, <1>4, <2>1 DEF FindOther
  <2>2. CASE v \in user_account
    <3>1. Ready(r, "findPrincipal", body[r])
      BY <1>1, <1>4, <2>2 DEF FindOther, Ready
    <3>2. QED
      BY <1>2, <1>4, <2>2, <3>1, Go DEF FindOther
  <2>3. QED
    BY <2>1, <2>2
<1>5. CASE AssertAccountAccess(r)
  <2>1. \/ Answer(r, 401) \/ Answer(r, 403)
        \/ Goto(r, "find") /\ u \in user_account /\ AccountOf[u] = AccountOf[v]
    BY <1>5 DEF AssertAccountAccess
  <2>2. CASE Answer(r, 401) \/ Answer(r, 403)
    BY <1>3, <1>5, <2>2 DEF AssertAccountAccess
  <2>3. CASE Goto(r, "find") /\ u \in user_account /\ AccountOf[u] = AccountOf[v]
    <3>1. MayRead(u, v)
      BY <1>1, <1>5, <2>3 DEF MayRead, AssertAccountAccess, Ready
    <3>2. Ready(r, "find", body[r])
      BY <1>1, <1>5, <3>1 DEF AssertAccountAccess, Ready
    <3>3. QED
      BY <1>2, <1>5, <2>3, <3>2, Go DEF AssertAccountAccess
  <2>4. QED
    BY <2>1, <2>2, <2>3
<1>6. CASE Find(r)
  <2>1. MayRead(u, v)
    BY <1>1, <1>6 DEF Find, Ready
  <2>2. CASE v \notin user_account
    BY <1>3, <1>6, <2>1, <2>2 DEF Find
  <2>3. CASE v \in user_account
    <3>1. Ready(r, "logUser", body[r])
      BY <1>1, <1>6, <2>1, <2>3 DEF Find, Ready
    <3>2. QED
      BY <1>2, <1>6, <2>3, <3>1, Go DEF Find
  <2>4. QED
    BY <2>2, <2>3
<1>7. CASE LogUser(r)
  <2> DEFINE e == [id |-> r, userId |-> u, activity |-> "READ", resource |-> <<"user", v>>]
  <2>1. v \in user_account /\ MayRead(u, v)
    BY <1>1, <1>7 DEF LogUser, Ready
  <2>2. e \in Event
    BY <1>1 DEF Event
  <2>3. Told(e)
    BY <2>1 DEF Told
  <2>4. audit_log' \subseteq Event /\ \A f \in audit_log' \ audit_log : Told(f)
    BY <1>7, <2>2, <2>3, AuditAdds DEF LogUser
  <2>5. Entitled(200, body[r])
    BY <2>1 DEF Entitled
  <2>6. QED
    BY <1>2, <1>7, <2>4, <2>5, Ends DEF LogUser
<1>8. QED
  BY <1>4, <1>5, <1>6, <1>7

(* Storing an invitation adds a row, of the ADMIN whose request this is. *)
LEMMA SaveKeeps ==
    ASSUME IInv, NEW r \in Request, pc[r] = "save",
           invitation' = [invitation EXCEPT ![r] = newInvitation(body[r])],
           Goto(r, "logCreated") \/ Answer(r, 500),
           UNCHANGED <<user_account, audit_log, body>>
    PROVE  IInv'
<1> DEFINE b == body[r]
<1>1. /\ b \in Body /\ b.op = "create" /\ Valid(b) /\ RoleOf[b.user] = "ADMIN"
      /\ b.user \in user_account /\ ~Stored(r) /\ response[r] = None
  BY DEF IInv, Progress, Ready
<1>2. newInvitation(b) \in Invitation /\ newInvitation(b) # None
  BY <1>1, RowType
<1>3. /\ invitation' \in [Request -> Invitation \cup {None}]
      /\ invitation'[r] = newInvitation(b)
      /\ \A q \in Request \ {r} : invitation'[q] = invitation[q]
  BY <1>2 DEF IInv, TypeOK
<1>4. PICK next \in {"logCreated", "done"}, s \in {500, None} :
         /\ pc' = [pc EXCEPT ![r] = next] /\ response' = [response EXCEPT ![r] = s]
         /\ s # None => next = "done"
  <2>1. response = [response EXCEPT ![r] = None]
    BY <1>1 DEF IInv, TypeOK
  <2>2. QED
    BY <2>1 DEF Goto, Answer
<1>5. /\ pc'[r] = next /\ response'[r] = s
      /\ \A q \in Request \ {r} : pc'[q] = pc[q] /\ response'[q] = response[q]
  BY <1>4 DEF IInv, TypeOK
<1>6. TypeOK'
  BY <1>3, <1>4 DEF IInv, TypeOK, Statement, Status
<1>7. /\ \A q \in Request \ {r} :
            /\ Progress(q)' /\ Answered(q)' /\ Row(q)'
            /\ response'[q] # None => pc'[q] = "done"
      /\ \A e \in audit_log : Told(e)'
  <2>1. {r} \in SUBSET Request
    OBVIOUS
  <2>2. \A x \in Request : Stored(x) => invitation'[x] = invitation[x]
    BY <1>1, <1>3
  <2> HIDE UserAssumption, NoneAssumption, UnknownAssumption, AnonymousAssumption
  <2>3. QED
    BY <1>3, <1>5, <2>1, <2>2, Monotone
<1>8. Stored(r)'
  BY <1>2, <1>3 DEF Stored
<1>9. Progress(r)'
  BY <1>1, <1>5, <1>8 DEF Progress, Ready, Valid
<1>10. Answered(r)' /\ (response'[r] # None => pc'[r] = "done")
  BY <1>1, <1>4, <1>5 DEF Answered, Entitled
<1>11. Row(r)'
  BY <1>1, <1>3, <1>5 DEF Row, newInvitation
<1>12. QED
  BY <1>6, <1>7, <1>9, <1>10, <1>11 DEF IInv

(* Inviting somebody, and reading an invitation. *)
LEMMA InvitationKeeps ==
    ASSUME IInv, NEW r \in Request,
           \/ FindCreator(r) \/ SaveInvitation(r) \/ LogNewInvitation(r)
           \/ FindInvitation(r) \/ LogInvitationRead(r)
    PROVE  IInv'
<1> DEFINE b == body[r]
<1>1. /\ pc[r] \in {"findCreator", "save", "logCreated", "findInvitation", "logInvitation"}
      /\ pc[r] \in Statement /\ {200, 401, 404, 500} \subseteq Status
      /\ {"save", "logInvitation"} \subseteq Statement \cup {"crashed"}
  BY DEF FindCreator, SaveInvitation, LogNewInvitation, FindInvitation, LogInvitationRead,
         Statement, Status
<1>2. Ready(r, pc[r], b) /\ Row(r) /\ b \in Body
  BY <1>1 DEF IInv, Progress
<1>3. \A s : Entitled(s, b)
  BY <1>1, <1>2 DEF Ready, Entitled
<1>4. ASSUME UNCHANGED audit_log
      PROVE  audit_log' \subseteq Event /\ \A e \in audit_log' \ audit_log : Told(e)
  BY <1>4 DEF IInv, TypeOK
<1>5. CASE FindCreator(r)
  <2>1. CASE b.user \notin user_account
    BY <1>1, <1>3, <1>4, <1>5, <2>1, Ends DEF FindCreator
  <2>2. CASE b.user \in user_account
    <3>1. Ready(r, "save", b)
      BY <1>2, <1>5, <2>2 DEF FindCreator, Ready
    <3>2. QED
      BY <1>1, <1>5, <2>2, <3>1, Go DEF FindCreator
  <2>3. QED
    BY <2>1, <2>2
<1>6. CASE SaveInvitation(r)
  <2>1. CASE b.email \in TooLong
    BY <1>1, <1>3, <1>4, <1>6, <2>1, Ends DEF SaveInvitation, tables
  <2>2. CASE b.email \notin TooLong
    BY <1>6, <2>2, SaveKeeps DEF SaveInvitation
  <2>3. QED
    BY <2>1, <2>2
<1>7. CASE LogNewInvitation(r)
  <2> DEFINE e == [id |-> r, userId |-> b.user, activity |-> "CREATE",
                   resource |-> <<"invitation", r>>]
  <2>1. /\ b.user \in User /\ Stored(r) /\ invitation[r].createdBy = b.user
    BY <1>2, <1>7, BodyFields, RowType DEF LogNewInvitation, Ready, Row
  <2>2. e \in Event
    BY <2>1 DEF Event
  <2>3. Told(e)
    BY <2>1 DEF Told
  <2>4. audit_log' \subseteq Event /\ \A f \in audit_log' \ audit_log : Told(f)
    BY <1>7, <2>2, <2>3, AuditAdds DEF LogNewInvitation
  <2>5. QED
    BY <1>1, <1>3, <1>7, <2>4, Ends DEF LogNewInvitation
<1>8. CASE FindInvitation(r)
  <2>1. CASE ~Stored(b.id)
    BY <1>1, <1>3, <1>4, <1>8, <2>1, Ends DEF FindInvitation
  <2>2. CASE Stored(b.id)
    <3>1. Ready(r, "logInvitation", b)
      BY <1>2, <1>8, <2>2 DEF FindInvitation, Ready
    <3>2. QED
      BY <1>1, <1>8, <2>2, <3>1, Go DEF FindInvitation
  <2>3. QED
    BY <2>1, <2>2
<1>9. CASE LogInvitationRead(r)
  <2> DEFINE e == [id |-> r, userId |-> "ANONYMOUS", activity |-> "READ",
                   resource |-> <<"invitation", b.id>>]
  <2>1. Stored(b.id)
    BY <1>2, <1>9 DEF LogInvitationRead, Ready
  <2>2. e \in Event
    BY <2>1 DEF Event, Stored
  <2>3. Told(e)
    BY <2>1 DEF Told
  <2>4. audit_log' \subseteq Event /\ \A f \in audit_log' \ audit_log : Told(f)
    BY <1>9, <2>2, <2>3, AuditAdds DEF LogInvitationRead
  <2>5. QED
    BY <1>1, <1>3, <1>9, <2>4, Ends DEF LogInvitationRead
<1>10. QED
  BY <1>5, <1>6, <1>7, <1>8, <1>9

(* Failures and crashes stop a request and leave the rest. *)
LEMMA FaultKeeps ==
    ASSUME IInv, NEW r \in Request, StatementFails(r) \/ Crash(r)
    PROVE  IInv'
<1>1. CASE StatementFails(r)
  <2>1. Entitled(500, body[r]) /\ pc[r] \in Statement /\ 500 \in Status
    BY <1>1 DEF Entitled, StatementFails, Status
  <2>2. audit_log' \subseteq Event /\ \A e \in audit_log' \ audit_log : Told(e)
    BY <1>1 DEF StatementFails, IInv, TypeOK
  <2>3. QED
    BY <1>1, <2>1, <2>2, Ends DEF StatementFails
<1>2. CASE Crash(r)
  <2>1. Ready(r, "crashed", body[r])
    BY DEF Ready
  <2>2. Goto(r, "crashed") /\ pc[r] \in Statement /\ UNCHANGED <<tables, audit_log, body>>
    BY <1>2 DEF Crash, Goto
  <2>3. QED
    BY <2>1, <2>2, Go
<1>3. QED
  BY <1>1, <1>2

(* A user who signs up is one more. *)
LEMMA SignupKeeps == ASSUME IInv, NEW u \in User, Save(u) PROVE IInv'
<1>1. TypeOK'
  BY DEF IInv, TypeOK, Save
<1>2. /\ {} \in SUBSET Request /\ user_account \subseteq user_account'
      /\ UNCHANGED <<invitation, audit_log, pc, body, response>>
  BY DEF Save
<1>3. \A r \in Request :
         /\ Progress(r)' /\ Answered(r)' /\ Row(r)'
         /\ response'[r] # None => pc'[r] = "done"
  <2> HIDE UserAssumption, NoneAssumption, UnknownAssumption, AnonymousAssumption
  <2>1. QED
    BY <1>2, Monotone
<1>4. \A e \in audit_log : Told(e)'
  <2> HIDE UserAssumption, NoneAssumption, UnknownAssumption, AnonymousAssumption
  <2>1. QED
    BY <1>2, Monotone
<1>5. QED
  BY <1>1, <1>2, <1>3, <1>4 DEF IInv

(* Every step preserves the invariant. *)
LEMMA NextIInv == IInv /\ [Next]_vars => IInv'
<1> SUFFICES ASSUME IInv, [Next]_vars PROVE IInv'
  OBVIOUS
<1>1. CASE UNCHANGED vars
  BY <1>1 DEF vars, IInv, TypeOK, Progress, Ready, Answered, Entitled, Row, Stored, MayRead, Told
<1>2. QED
  BY <1>1, SignupKeeps, ReceiveKeeps, GetUserKeeps, InvitationKeeps, FaultKeeps DEF Next, Handle

(* The invariant holds throughout. *)
LEMMA Invariance == Spec => []IInv
<1>1. QED
  BY InitIInv, NextIInv, PTL DEF Spec

-----------------------------------------------------------------------------
(* Users, invitations, audit log and requests keep their types. *)
THEOREM TypeCorrect == Spec => []TypeOK
<1>1. IInv => TypeOK
  BY DEF IInv
<1>2. QED
  BY <1>1, Invariance, PTL

(* Whoever signs up meanwhile, a user is shown only to those who may know of that
   user, and invitations are those of stored ADMINs, into their own account. *)
THEOREM AccessStays == Spec => []AccessStaysInAccount
<1>1. IInv => AccessStaysInAccount
  <2>1. ASSUME IInv, NEW r \in Request
        PROVE  /\ Entitled(response[r], body[r])
               /\ Stored(r) =>
                     /\ invitation[r].createdBy \in user_account
                     /\ RoleOf[invitation[r].createdBy] = "ADMIN"
                     /\ invitation[r].account = AccountOf[invitation[r].createdBy]
    <3>1. Entitled(response[r], body[r]) /\ Row(r)
      BY <2>1 DEF IInv, Answered
    <3>2. QED
      BY <3>1 DEF Row, newInvitation
  <2>2. QED
    BY <2>1 DEF AccessStaysInAccount, Entitled
<1>2. QED
  BY <1>1, Invariance, PTL

(* Whatever fails, the audit log tells of reads that were allowed and of
   invitations that are stored. *)
THEOREM AuditIsTrue == Spec => []AuditTellsTheTruth
<1>1. IInv => AuditTellsTheTruth
  BY DEF IInv, AuditTellsTheTruth, Told
<1>2. QED
  BY <1>1, Invariance, PTL

-----------------------------------------------------------------------------
(* What a step of request r leaves alone: the other requests and their rows *)
Apart(r) ==
    /\ \A q \in Request \ {r} :
         /\ pc'[q] = pc[q] /\ body'[q] = body[q] /\ response'[q] = response[q]
         /\ invitation'[q] = invitation[q]
    /\ Stored(r) => invitation'[r] = invitation[r]
    /\ user_account' = user_account /\ audit_log \subseteq audit_log'
    /\ pc[r] # "idle" => body'[r] = body[r]

LEMMA StepsApart ==
    ASSUME IInv, NEW r \in Request, Receive(r) \/ Handle(r) \/ Crash(r)
    PROVE  Apart(r)
<1>0. TypeOK /\ Progress(r)
  BY DEF IInv
<1>1. \A q \in Request \ {r} : pc'[q] = pc[q] /\ response'[q] = response[q]
  BY <1>0 DEF TypeOK, Receive, AssertUserAccess, Handle, Crash, StatementFails, FindOther,
        AssertAccountAccess, Find, LogUser, FindCreator, SaveInvitation, LogNewInvitation,
        FindInvitation, LogInvitationRead, Goto, Answer
<1>2. /\ \A q \in Request \ {r} : body'[q] = body[q]
      /\ pc[r] # "idle" => body'[r] = body[r]
  BY <1>0 DEF TypeOK, Receive, Handle, Crash, StatementFails, FindOther,
        AssertAccountAccess, Find, LogUser, FindCreator, SaveInvitation, LogNewInvitation,
        FindInvitation, LogInvitationRead
<1>3. /\ \A q \in Request \ {r} : invitation'[q] = invitation[q]
      /\ Stored(r) => invitation'[r] = invitation[r]
      /\ user_account' = user_account
  <2>1. CASE SaveInvitation(r)
    <3>1. ~Stored(r)
      BY <1>0, <2>1 DEF SaveInvitation, Progress, Ready
    <3>2. QED
      BY <1>0, <2>1, <3>1 DEF SaveInvitation, TypeOK
  <2>2. CASE ~SaveInvitation(r)
    BY <2>2 DEF Receive, Handle, Crash, StatementFails, FindOther, AssertAccountAccess, Find,
          LogUser, FindCreator, LogNewInvitation, FindInvitation, LogInvitationRead, tables
  <2>3. QED
    BY <2>1, <2>2
<1>4. audit_log \subseteq audit_log'
  BY DEF Receive, Handle, Crash, StatementFails, FindOther, AssertAccountAccess, Find, LogUser,
         FindCreator, SaveInvitation, LogNewInvitation, FindInvitation, LogInvitationRead, Audit
<1>5. QED
  BY <1>1, <1>2, <1>3, <1>4 DEF Apart

-----------------------------------------------------------------------------
(* Users and invitations are stored for good, and so are the events about them: what
   was asserted of a user before one statement still holds before the next. *)
RowsAreForGood ==
    [][/\ user_account \subseteq user_account'
       /\ \A i \in Request : invitation[i] # None => invitation'[i] = invitation[i]
       /\ audit_log \subseteq audit_log']_vars

(* No step of a signup, an invitation or a read removes or changes a row. *)
THEOREM StoredForGood == Spec => RowsAreForGood
<1>1. IInv /\ [Next]_vars =>
        [/\ user_account \subseteq user_account'
         /\ \A i \in Request : invitation[i] # None => invitation'[i] = invitation[i]
         /\ audit_log \subseteq audit_log']_vars
  <2> SUFFICES ASSUME IInv, Next
               PROVE  /\ user_account \subseteq user_account'
                      /\ \A i \in Request : invitation[i] # None => invitation'[i] = invitation[i]
                      /\ audit_log \subseteq audit_log'
    OBVIOUS
  <2>1. CASE \E u \in User : Save(u)
    BY <2>1 DEF Save
  <2>2. CASE \E r \in Request : Receive(r) \/ Handle(r) \/ Crash(r)
    BY <2>2, StepsApart DEF Apart, Stored
  <2>3. QED
    BY <2>1, <2>2 DEF Next
<1>2. QED
  BY <1>1, Invariance, PTL DEF Spec, RowsAreForGood

-----------------------------------------------------------------------------
(* What is known of invitations that are read: their ids were announced or made up *)
Announced(r) ==
    /\ pc[r] # "idle" /\ body[r].op = "create" /\ response[r] = 200 => Stored(r)
    /\ pc[r] # "idle" /\ body[r].op = "getInvitation" =>
         /\ body[r].id = Unknown \/ Stored(body[r].id)
         /\ response[r] = 404 => body[r].id = Unknown
         /\ response[r] = 200 => Stored(body[r].id)

LEMMA AnnouncedApart ==
    ASSUME NEW r \in Request, Apart(r), NEW q \in Request \ {r}, Announced(q)
    PROVE  Announced(q)'
<1>1. /\ pc'[q] = pc[q] /\ body'[q] = body[q] /\ response'[q] = response[q]
      /\ \A i : Stored(i) => Stored(i)'
  BY DEF Apart, Stored
<1>2. QED
  BY <1>1 DEF Announced

LEMMA AnnouncedOwn ==
    ASSUME IInv, NEW r \in Request, Receive(r) \/ Handle(r) \/ Crash(r),
           \A q \in Request : Announced(q)
    PROVE  Announced(r)'
<1>0. TypeOK /\ Progress(r) /\ (response[r] # None => pc[r] = "done") /\ Announced(r)
  BY DEF IInv
<1>1. \A i : Stored(i) => Stored(i)'
  BY StepsApart DEF Apart, Stored
<1>2. CASE Receive(r)
  <2>1. PICK b \in Body :
          /\ body' = [body EXCEPT ![r] = b]
          /\ b.op = "getInvitation" =>
               /\ b.id # Unknown => response[b.id] = 200 /\ body[b.id].op = "create"
               /\ Goto(r, "findInvitation")
          /\ \/ response' = response
             \/ \E s \in {400, 403} : Answer(r, s)
    BY <1>2 DEF Receive, AssertUserAccess, Goto
  <2>2. pc[r] = "idle" /\ response[r] = None
    BY <1>0, <1>2 DEF Receive
  <2>3. body'[r] = b /\ response'[r] \in {None, 400, 403}
    BY <1>0, <2>1, <2>2 DEF TypeOK, Answer
  <2>4. None \notin {200, 404}
    BY NoneAssumption DEF Status
  <2>5. b.op = "getInvitation" => b.id = Unknown \/ Stored(b.id)
    <3>1. SUFFICES ASSUME b.op = "getInvitation", b.id # Unknown PROVE Stored(b.id)
      OBVIOUS
    <3>2. b.id \in Request /\ response[b.id] = 200 /\ body[b.id].op = "create"
      BY <2>1, <3>1, BodyFields
    <3>3. pc[b.id] = "done" /\ Announced(b.id)
      BY <2>4, <3>2 DEF IInv
    <3>4. QED
      BY <3>2, <3>3 DEF Announced
  <2>6. QED
    BY <1>1, <2>3, <2>4, <2>5 DEF Announced
<1>3. CASE Handle(r) \/ Crash(r)
  <2>1. /\ pc[r] \in Statement /\ pc[r] # "idle" /\ body'[r] = body[r]
        /\ response[r] = None /\ None \notin {200, 404}
    <3>1. pc[r] \in Statement
      BY <1>3 DEF Handle, Crash, StatementFails, FindOther, AssertAccountAccess, Find, LogUser,
            FindCreator, SaveInvitation, LogNewInvitation, FindInvitation, LogInvitationRead,
            Statement
    <3>2. pc[r] \notin {"idle", "done"}
      BY <3>1 DEF Statement
    <3>3. QED
      BY <1>0, <3>1, <3>2, StepsApart, NoneAssumption DEF Apart, Status
  <2>2. body[r].op = "create" /\ response'[r] = 200 => Stored(r)
    <3>1. SUFFICES ASSUME body[r].op = "create", response'[r] = 200 PROVE Stored(r)
      OBVIOUS
    <3>2. pc[r] \in {"findCreator", "save", "logCreated"}
      BY <1>0, <2>1, <3>1 DEF Progress, Ready, Statement
    <3>3. LogNewInvitation(r)
      BY <1>0, <1>3, <2>1, <3>1, <3>2 DEF Handle, Crash, StatementFails, FindOther,
            AssertAccountAccess, Find, LogUser, FindCreator, SaveInvitation, FindInvitation,
            LogInvitationRead, Goto, Answer, TypeOK
    <3>4. QED
      BY <1>0, <3>3 DEF LogNewInvitation, Progress, Ready
  <2>3. body[r].op = "getInvitation" =>
          /\ response'[r] = 404 => ~Stored(body[r].id)
          /\ response'[r] = 200 => Stored(body[r].id)
    <3>1. SUFFICES ASSUME body[r].op = "getInvitation"
                   PROVE  /\ response'[r] = 404 => ~Stored(body[r].id)
                          /\ response'[r] = 200 => Stored(body[r].id)
      OBVIOUS
    <3>2. pc[r] \in {"findInvitation", "logInvitation"}
      BY <1>0, <2>1, <3>1 DEF Progress, Ready, Statement
    <3>3. CASE FindInvitation(r)
      BY <1>0, <2>1, <3>3 DEF FindInvitation, Goto, Answer, TypeOK
    <3>4. CASE LogInvitationRead(r)
      BY <1>0, <3>4 DEF LogInvitationRead, Answer, TypeOK, Progress, Ready
    <3>5. CASE StatementFails(r) \/ Crash(r)
      BY <1>0, <2>1, <3>5 DEF StatementFails, Crash, Answer, TypeOK
    <3>6. QED
      BY <1>3, <3>2, <3>3, <3>4, <3>5 DEF Handle, FindOther, AssertAccountAccess, Find, LogUser,
            FindCreator, SaveInvitation, LogNewInvitation
  <2>4. QED
    BY <1>0, <1>1, <2>1, <2>2, <2>3 DEF Announced
<1>4. QED
  BY <1>2, <1>3

(* What was announced stays stored, and only what is stored is announced. *)
LEMMA AnnouncedInvariance == Spec => [](IInv /\ \A r \in Request : Announced(r))
<1>1. Init => \A r \in Request : Announced(r)
  <2> SUFFICES ASSUME Init, NEW r \in Request PROVE Announced(r)
    OBVIOUS
  <2>1. pc[r] = "idle"
    BY DEF Init
  <2>2. QED
    BY <2>1 DEF Announced
<1>2. IInv /\ (\A r \in Request : Announced(r)) /\ [Next]_vars => (\A r \in Request : Announced(r))'
  <2> SUFFICES ASSUME IInv, \A r \in Request : Announced(r), [Next]_vars
               PROVE  \A r \in Request : Announced(r)'
    OBVIOUS
  <2>1. CASE \E r \in Request : Receive(r) \/ Handle(r) \/ Crash(r)
    <3>1. PICK r \in Request : Receive(r) \/ Handle(r) \/ Crash(r)
      BY <2>1
    <3>2. Apart(r) /\ Announced(r)'
      BY <3>1, StepsApart, AnnouncedOwn
    <3>3. \A q \in Request \ {r} : Announced(q)'
      BY <3>2, AnnouncedApart
    <3>4. QED
      BY <3>2, <3>3
  <2>2. CASE UNCHANGED vars \/ \E u \in User : Save(u)
    BY <2>2 DEF vars, Save, Announced, Stored
  <2>3. QED
    BY <2>1, <2>2 DEF Next
<1>3. QED
  BY <1>1, <1>2, InitIInv, NextIInv, PTL DEF Spec

(* However the statements of the invitation and of its readers interleave *)
THEOREM AnnouncedAreFound == Spec => []InvitationsAreFound
<1>1. IInv /\ (\A r \in Request : Announced(r)) => InvitationsAreFound
  <2> SUFFICES ASSUME IInv, \A r \in Request : Announced(r),
                      NEW r \in Request, pc[r] = "done", body[r].op = "getInvitation"
               PROVE  /\ response[r] = 404 => body[r].id = Unknown
                      /\ response[r] = 200 =>
                           /\ Stored(body[r].id)
                           /\ RoleOf[invitation[body[r].id].createdBy] = "ADMIN"
                           /\ invitation[body[r].id].account =
                                AccountOf[invitation[body[r].id].createdBy]
    BY DEF InvitationsAreFound
  <2>1. /\ response[r] = 404 => body[r].id = Unknown
        /\ response[r] = 200 => Stored(body[r].id)
    BY DEF Announced
  <2>2. ASSUME NEW i \in Request, Stored(i)
        PROVE  /\ RoleOf[invitation[i].createdBy] = "ADMIN"
               /\ invitation[i].account = AccountOf[invitation[i].createdBy]
    <3>1. Row(i)
      BY DEF IInv
    <3>2. QED
      BY <2>2, <3>1 DEF Row, newInvitation
  <2>3. QED
    BY <2>1, <2>2 DEF Stored
<1>2. QED
  BY <1>1, AnnouncedInvariance, PTL

-----------------------------------------------------------------------------
(* How many steps a request at the statement s has left at most *)
StepsLeft(s) ==
    CASE s = "idle" -> 5
      [] s = "findOther" -> 4
      [] s \in {"findPrincipal", "findCreator"} -> 3
      [] s \in {"find", "save", "findInvitation"} -> 2
      [] s \in {"logUser", "logCreated", "logInvitation"} -> 1
      [] s \in {"done", "crashed"} -> 0

(* A signup touches no request, and every other step brings one of them, and nobody else,
   nearer to its end: no request is held up by another, and none is answered twice. *)
RequestsAdvance ==
    [][\/ user_account' # user_account /\ UNCHANGED <<invitation, audit_log, pc, body, response>>
       \/ \E r \in Request :
             /\ StepsLeft(pc'[r]) < StepsLeft(pc[r])
             /\ response[r] = None
             /\ \A q \in Request \ {r} : pc'[q] = pc[q] /\ response'[q] = response[q]]_vars

(* Whatever ended was answered, unless its replica died. *)
DoneIsAnswered == \A r \in Request : response[r] # None <=> pc[r] = "done"

LEMMA RequestAdvances ==
    ASSUME IInv, NEW r \in Request, Receive(r) \/ Handle(r) \/ Crash(r),
           response[r] # None <=> pc[r] = "done"
    PROVE  /\ StepsLeft(pc'[r]) < StepsLeft(pc[r]) /\ response[r] = None
           /\ response'[r] # None <=> pc'[r] = "done"
<1>0. TypeOK /\ None \notin Status
  BY NoneAssumption DEF IInv
<1>1. pc[r] \in Statement \cup {"idle"} /\ response[r] = None
  <2>1. pc[r] \in Statement \cup {"idle"}
    BY DEF Receive, Handle, Crash, StatementFails, FindOther, AssertAccountAccess, Find, LogUser,
           FindCreator, SaveInvitation, LogNewInvitation, FindInvitation, LogInvitationRead,
           Statement
  <2>2. QED
    BY <2>1 DEF Statement
<1>2. CASE \E s \in Status : Answer(r, s)
  <2>1. pc'[r] = "done" /\ response'[r] # None
    BY <1>0, <1>2 DEF Answer, TypeOK
  <2>2. StepsLeft(pc'[r]) = 0
    BY <2>1 DEF StepsLeft
  <2>3. QED
    BY <1>1, <2>1, <2>2 DEF StepsLeft, Statement
<1>3. CASE Crash(r)
  <2>1. pc[r] \in Statement /\ pc'[r] = "crashed" /\ response'[r] = None
    BY <1>0, <1>1, <1>3 DEF Crash, TypeOK
  <2>2. QED
    BY <1>1, <2>1 DEF StepsLeft, Statement
<1>4. CASE ~Crash(r) /\ ~\E s \in Status : Answer(r, s)
  <2>1. 200 \in Status /\ 400 \in Status /\ 401 \in Status /\ 403 \in Status
        /\ 404 \in Status /\ 500 \in Status
    BY DEF Status
  <2>2. \E next \in Statement : Goto(r, next) /\ StepsLeft(next) < StepsLeft(pc[r])
    <3>1. CASE Receive(r)
      BY <1>4, <2>1, <3>1 DEF Receive, AssertUserAccess, StepsLeft, Statement
    <3>2. CASE FindOther(r) \/ AssertAccountAccess(r) \/ Find(r) \/ LogUser(r)
      BY <1>4, <2>1, <3>2 DEF FindOther, AssertAccountAccess, Find, LogUser, StepsLeft, Statement
    <3>3. CASE FindCreator(r) \/ SaveInvitation(r) \/ LogNewInvitation(r)
      BY <1>4, <2>1, <3>3 DEF FindCreator, SaveInvitation, LogNewInvitation, StepsLeft, Statement
    <3>4. CASE FindInvitation(r) \/ LogInvitationRead(r) \/ StatementFails(r)
      BY <1>4, <2>1, <3>4
         DEF FindInvitation, LogInvitationRead, StatementFails, StepsLeft, Statement
    <3>5. QED
      BY <1>4, <3>1, <3>2, <3>3, <3>4 DEF Handle
  <2>3. PICK next \in Statement : Goto(r, next) /\ StepsLeft(next) < StepsLeft(pc[r])
    BY <2>2
  <2>4. pc'[r] = next /\ response'[r] = None /\ next # "done"
    BY <1>0, <1>1, <2>3 DEF Goto, TypeOK, Statement
  <2>5. QED
    BY <1>1, <2>3, <2>4
<1>5. QED
  BY <1>2, <1>3, <1>4

(* Every request ends after at most five steps, and is answered unless its replica dies. *)
THEOREM RequestsEnd == Spec => RequestsAdvance /\ []DoneIsAnswered
<1>1. Init => DoneIsAnswered
  BY DEF Init, DoneIsAnswered
<1>2. IInv /\ DoneIsAnswered /\ [Next]_vars =>
        /\ [\/ user_account' # user_account /\ UNCHANGED <<invitation, audit_log, pc, body, response>>
            \/ \E r \in Request :
                 /\ StepsLeft(pc'[r]) < StepsLeft(pc[r])
                 /\ response[r] = None
                 /\ \A q \in Request \ {r} : pc'[q] = pc[q] /\ response'[q] = response[q]]_vars
        /\ DoneIsAnswered'
  <2> SUFFICES ASSUME IInv, DoneIsAnswered, [Next]_vars
               PROVE
        /\ [\/ user_account' # user_account /\ UNCHANGED <<invitation, audit_log, pc, body, response>>
            \/ \E r \in Request :
                 /\ StepsLeft(pc'[r]) < StepsLeft(pc[r])
                 /\ response[r] = None
                 /\ \A q \in Request \ {r} : pc'[q] = pc[q] /\ response'[q] = response[q]]_vars
        /\ DoneIsAnswered'
    OBVIOUS
  <2>1. CASE UNCHANGED vars \/ \E u \in User : Save(u)
    BY <2>1 DEF vars, Save, DoneIsAnswered
  <2>2. CASE \E r \in Request : Receive(r) \/ Handle(r) \/ Crash(r)
    <3>1. PICK r \in Request : Receive(r) \/ Handle(r) \/ Crash(r)
      BY <2>2
    <3>2. Apart(r)
      BY <3>1, StepsApart
    <3>3. /\ StepsLeft(pc'[r]) < StepsLeft(pc[r]) /\ response[r] = None
          /\ response'[r] # None <=> pc'[r] = "done"
      BY <3>1, RequestAdvances DEF DoneIsAnswered
    <3>4. QED
      BY <3>2, <3>3 DEF Apart, DoneIsAnswered
  <2>3. QED
    BY <2>1, <2>2 DEF Next
<1>3. QED
  BY <1>1, <1>2, Invariance, PTL DEF Spec, RequestsAdvance
=============================================================================
