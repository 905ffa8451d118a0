-------------------------- MODULE WebSession_proofs -------------------------
(***************************************************************************)
(* Proofs about the session of a tab, for any number of users and of calls *)
(* in flight, with and without failures.                                   *)
(***************************************************************************)
EXTENDS WebSession, TLAPS

(* The inductive invariant: a call that asks for a user carries the token that
   was in the header, so both facts about tokens are proved together. *)
IInv == TypeOK /\ TokenMatchesStorage /\ AskedWithOwnToken

-----------------------------------------------------------------------------
(* The requests the page makes are well typed, and a getUser carries the token
   of the user it asks for. *)
LEMMA RequestTypes ==
    ASSUME NEW u \in User
    PROVE  /\ getUser(u) \in Request
           /\ getUser(u).op = "getUser" /\ getUser(u).user = u /\ getUser(u).token = u
           /\ \A t \in User \cup {None} :
                /\ [op |-> "auth", user |-> u, token |-> t] \in Request
                /\ [op |-> "auth", user |-> u, token |-> t].op = "auth"
BY DEF getUser, Request

(* A call in flight is about a user. *)
LEMMA CallUser ==
    ASSUME TypeOK, NEW c \in Call, call[c] # None
    PROVE  call[c] \in Request /\ call[c].user \in User
BY DEF TypeOK, Request

(* The invariant holds in a new tab. *)
LEMMA InitIInv == Init => IInv
BY DEF Init, IInv, TypeOK, TokenMatchesStorage, AskedWithOwnToken

(* What holds once the call c was put in place of the answered one: every other
   call is as it was. *)
LEMMA EffectKeeps ==
    ASSUME IInv, NEW c \in Call, useIsAuthenticated(c),
           storage' \in User \cup {None}, user' \in User \cup {None},
           storage' = None => header = None, reliable' = reliable
    PROVE  IInv'
<1>1. header' \in User \cup {None} /\ header' = storage'
  BY DEF useIsAuthenticated
<1>2. CASE storage' = None
  <2>1. call' = [call EXCEPT ![c] = None]
    BY <1>2 DEF useIsAuthenticated
  <2>2. QED
    BY <1>1, <2>1 DEF IInv, TypeOK, TokenMatchesStorage, AskedWithOwnToken
<1>3. CASE storage' # None
  <2>1. storage' \in User
    BY <1>3
  <2>2. call' = [call EXCEPT ![c] = getUser(storage')]
    BY <1>3 DEF useIsAuthenticated
  <2>3. /\ getUser(storage') \in Request
        /\ getUser(storage').user = storage' /\ getUser(storage').token = storage'
    BY <2>1, RequestTypes
  <2>4. call' \in [Call -> Request \cup {None}]
    BY <2>2, <2>3 DEF IInv, TypeOK
  <2>5. \A d \in Call : call'[d] = IF d = c THEN getUser(storage') ELSE call[d]
    BY <2>2 DEF IInv, TypeOK
  <2>6. AskedWithOwnToken'
    BY <2>3, <2>5 DEF IInv, AskedWithOwnToken
  <2>7. QED
    BY <1>1, <2>4, <2>6 DEF IInv, TypeOK, TokenMatchesStorage
<1>4. QED
  BY <1>2, <1>3

(* A call that goes away, or a login that comes, disturbs nothing. *)
LEMMA SlotKeeps ==
    ASSUME IInv, NEW c \in Call, NEW x \in Request \cup {None},
           x # None => x.op # "getUser",
           call' = [call EXCEPT ![c] = x],
           UNCHANGED <<storage, header, reliable>>, user' \in User \cup {None}
    PROVE  IInv'
<1>1. call' \in [Call -> Request \cup {None}]
  BY DEF IInv, TypeOK
<1>2. \A d \in Call : call'[d] = IF d = c THEN x ELSE call[d]
  BY DEF IInv, TypeOK
<1>3. QED
  BY <1>1, <1>2 DEF IInv, TypeOK, TokenMatchesStorage, AskedWithOwnToken

(* Every event of the page preserves the invariant. *)
LEMMA NextIInv == IInv /\ [Next]_vars => IInv'
<1> SUFFICES ASSUME IInv, [Next]_vars PROVE IInv'
  OBVIOUS
<1> USE NoneAssumption, NoneRequestAssumption
<1>1. ASSUME NEW c \in Call, AnswerAuthenticate(c) PROVE IInv'
  <2>1. storage' \in User /\ user' \in User /\ useIsAuthenticated(c) /\ reliable' = reliable
    BY <1>1, CallUser DEF AnswerAuthenticate, IInv
  <2>2. QED
    BY <2>1, EffectKeeps
<1>2. ASSUME NEW c \in Call, AnswerGetUser(c) PROVE IInv'
  <2>1. /\ user' \in User /\ storage' = storage /\ storage \in User \cup {None} /\ header = storage
        /\ reliable' = reliable
    BY <1>2, CallUser DEF AnswerGetUser, IInv, TypeOK, TokenMatchesStorage
  <2>2. CASE user = None
    <3>1. useIsAuthenticated(c)
      BY <1>2, <2>2 DEF AnswerGetUser
    <3>2. QED
      BY <2>1, <3>1, EffectKeeps
  <2>3. CASE user # None
    <3>1. call' = [call EXCEPT ![c] = None] /\ UNCHANGED <<storage, header, reliable>>
      BY <1>2, <2>3 DEF AnswerGetUser
    <3>2. QED
      BY <2>1, <3>1, SlotKeeps
  <2>4. QED
    BY <2>2, <2>3
<1>3. ASSUME NEW c \in Call, AnswerError(c) PROVE IInv'
  <2>1. /\ call' = [call EXCEPT ![c] = None] /\ UNCHANGED <<storage, header, reliable>>
        /\ user' \in User \cup {None}
    BY <1>3 DEF AnswerError, IInv, TypeOK
  <2>2. QED
    BY <2>1, SlotKeeps
<1>4. ASSUME NEW c \in Call, NEW u \in User, Authenticate(c, u) PROVE IInv'
  <2> DEFINE x == [op |-> "auth", user |-> u, token |-> header]
  <2>1. x \in Request /\ x.op = "auth"
    BY RequestTypes DEF IInv, TypeOK
  <2>2. /\ call' = [call EXCEPT ![c] = x] /\ UNCHANGED <<storage, header, reliable>>
        /\ user' \in User \cup {None}
    BY <1>4 DEF Authenticate, IInv, TypeOK
  <2> HIDE DEF x
  <2>3. QED
    BY <2>1, <2>2, SlotKeeps
<1>5. CASE Logout
  BY <1>5 DEF Logout, IInv, TypeOK, TokenMatchesStorage, AskedWithOwnToken
<1>6. CASE Reload
  <2>1. PICK c \in Call : call' =
           [d \in Call |-> IF d = c /\ storage # None THEN getUser(storage) ELSE None]
    BY <1>6 DEF Reload
  <2>2. storage # None => /\ getUser(storage) \in Request
                          /\ getUser(storage).user = storage /\ getUser(storage).token = storage
    BY RequestTypes DEF IInv, TypeOK
  <2>3. call' \in [Call -> Request \cup {None}]
    BY <2>1, <2>2
  <2>4. AskedWithOwnToken'
    BY <2>1, <2>2 DEF AskedWithOwnToken
  <2>5. user' = None /\ header' = storage /\ storage' = storage /\ reliable' = reliable
    BY <1>6 DEF Reload
  <2>6. QED
    BY <2>3, <2>4, <2>5 DEF IInv, TypeOK, TokenMatchesStorage
<1>7. CASE UNCHANGED vars
  BY <1>7 DEF vars, IInv, TypeOK, TokenMatchesStorage, AskedWithOwnToken
<1>8. QED
  BY <1>1, <1>2, <1>3, <1>4, <1>5, <1>6, <1>7 DEF Next, Answer

(* The invariant holds throughout. *)
LEMMA Invariance == Spec => []IInv
<1>1. QED
  BY InitIInv, NextIInv, PTL DEF Spec

-----------------------------------------------------------------------------
(* Storage, header, store and calls keep their types. *)
THEOREM TypeCorrect == Spec => []TypeOK
<1>1. IInv => TypeOK
  BY DEF IInv
<1>2. QED
  BY <1>1, Invariance, PTL

(* The Authorization header always carries the stored token. *)
THEOREM HeaderIsStored == Spec => []TokenMatchesStorage
<1>1. IInv => TokenMatchesStorage
  BY DEF IInv
<1>2. QED
  BY <1>1, Invariance, PTL

(* Nobody is asked for with the token of somebody else. *)
THEOREM OwnToken == Spec => []AskedWithOwnToken
<1>1. IInv => AskedWithOwnToken
  BY DEF IInv
<1>2. QED
  BY <1>1, Invariance, PTL

(* A step after which somebody without a session is shown answers their getUser. *)
LEMMA DivergingStep ==
    ASSUME IInv, [Next]_vars, ~Diverged, Diverged'
    PROVE  \E c \in Call :
              /\ call[c] # None /\ call[c].op = "getUser"
              /\ call[c].user = user' /\ call[c].user # storage
              /\ call'[c] # call[c]
<1> USE NoneAssumption, NoneRequestAssumption
<1>1. PICK c \in Call : AnswerGetUser(c)
  BY DEF Next, Answer, AnswerAuthenticate, AnswerError, Authenticate, Logout, Reload, Diverged, vars
<1>2. /\ call[c] # None /\ call[c].op = "getUser" /\ user' = call[c].user /\ storage' = storage
      /\ call[c].user # storage
  BY <1>1 DEF AnswerGetUser, Diverged
<1>3. call'[c] = None \/ (storage # None /\ call'[c] = getUser(storage))
  BY <1>1, <1>2 DEF AnswerGetUser, useIsAuthenticated, IInv, TypeOK
<1>4. storage # None => getUser(storage).user = storage
  BY DEF getUser
<1>5. call'[c] # call[c]
  BY <1>2, <1>3, <1>4
<1>6. QED
  BY <1>2, <1>5

(* Late answers are the only way to show somebody who has no session. *)
THEOREM OnlyLateAnswers == Spec => OnlyLateAnswersDiverge
<1>1. IInv /\ [Next]_vars =>
        [~Diverged /\ Diverged' =>
           \E c \in Call :
              /\ call[c] # None /\ call[c].op = "getUser"
              /\ call[c].user = user' /\ call[c].user # storage
              /\ call'[c] # call[c]]_vars
  BY DivergingStep
<1>2. QED
  BY <1>1, Invariance, PTL DEF Spec, OnlyLateAnswersDiverge
-----------------------------------------------------------------------------
(* Somebody has a session and is not shown: then nobody else is asked for, and,
   unless getUser can fail, they are asked for. *)
SessionIsAskedFor ==
    storage # None /\ user = None =>
      /\ \A c \in Call : call[c] # None /\ call[c].op = "getUser" => call[c] = getUser(storage)
      /\ reliable => \E c \in Call : call[c] # None /\ call[c].op = "getUser"

(* Only a reload hides somebody who has a session, and it asks for them. *)
LEMMA HidingStep ==
    ASSUME IInv, SessionIsAskedFor, [Next]_vars
    PROVE  SessionIsAskedFor'
<1> USE NoneAssumption, NoneRequestAssumption
<1> SUFFICES ASSUME storage' # None, user' = None PROVE SessionIsAskedFor'
  BY DEF SessionIsAskedFor
<1>1. CASE Reload
  <2>1. PICK c \in Call : call' =
           [d \in Call |-> IF d = c /\ storage # None THEN getUser(storage) ELSE None]
    BY <1>1 DEF Reload
  <2>2. storage' = storage /\ storage \in User /\ reliable' = reliable
    BY <1>1 DEF Reload, IInv, TypeOK
  <2>3. getUser(storage) # None /\ getUser(storage).op = "getUser"
    BY <2>2, RequestTypes
  <2>4. call'[c] = getUser(storage) /\ \A d \in Call : call'[d] \in {None, getUser(storage)}
    BY <2>1, <2>2
  <2>5. QED
    BY <2>2, <2>3, <2>4 DEF SessionIsAskedFor
<1>2. ASSUME NEW c \in Call, AnswerError(c) PROVE SessionIsAskedFor'
  <2>1. storage' = storage /\ user' = user /\ reliable' = reliable
    BY <1>2 DEF AnswerError
  <2>2. \A d \in Call : call'[d] = IF d = c THEN None ELSE call[d]
    BY <1>2 DEF AnswerError, IInv, TypeOK
  <2>3. \A d \in Call : call[d] # None /\ call[d].op = "getUser" => call[d] = getUser(storage)
    BY <2>1 DEF SessionIsAskedFor
  <2>4. reliable => call[c].op = "auth"
    BY <1>2 DEF AnswerError
  <2>5. reliable => \E d \in Call : d # c /\ call[d] # None /\ call[d].op = "getUser"
    BY <2>1, <2>4 DEF SessionIsAskedFor
  <2>6. QED
    BY <2>1, <2>2, <2>3, <2>5 DEF SessionIsAskedFor
<1>3. ASSUME NEW c \in Call, NEW u \in User, Authenticate(c, u) PROVE SessionIsAskedFor'
  <2> DEFINE x == [op |-> "auth", user |-> u, token |-> header]
  <2>1. x.op = "auth"
    OBVIOUS
  <2>2. storage' = storage /\ user' = user /\ reliable' = reliable /\ call[c] = None
    BY <1>3 DEF Authenticate
  <2>3. \A d \in Call : call'[d] = IF d = c THEN x ELSE call[d]
    BY <1>3 DEF Authenticate, IInv, TypeOK
  <2> HIDE DEF x
  <2>4. QED
    BY <2>1, <2>2, <2>3 DEF SessionIsAskedFor
<1>4. ASSUME NEW c \in Call, Answer(c) PROVE FALSE
  BY <1>4, CallUser DEF Answer, AnswerAuthenticate, AnswerGetUser, IInv
<1>5. CASE Logout
  BY <1>5 DEF Logout
<1>6. CASE UNCHANGED vars
  BY <1>6 DEF vars, SessionIsAskedFor
<1>7. QED
  BY <1>1, <1>2, <1>3, <1>4, <1>5, <1>6 DEF Next

(* What can be proved of SessionRestored: after a reload the one who has a session
   is the only one who can come to be shown without logging in, and as long as
   getUser does not fail, the call whose answer shows them is in flight. *)
THEOREM SessionsAreAskedFor == Spec => []SessionIsAskedFor
<1>1. Init => SessionIsAskedFor
  BY DEF Init, SessionIsAskedFor
<1>2. IInv /\ SessionIsAskedFor /\ [Next]_vars => SessionIsAskedFor'
  BY HidingStep
<1>3. QED
  BY <1>1, <1>2, Invariance, PTL DEF Spec
=============================================================================
