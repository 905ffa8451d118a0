----------------------------- MODULE WebSession -----------------------------
(***************************************************************************)
(* One tab of the web app and who is logged in there: the token and the    *)
(* user id in the tab's session storage, the Authorization header of the   *)
(* http client, the user in the redux store, and the calls to the          *)
(* api-server that may be answered in any order, or late.                  *)
(*                                                                         *)
(* The page is one thread: a step is one event (a click, an answer, a      *)
(* reload) with all that follows from it before the next event, the        *)
(* rendering and the effect of useIsAuthenticated included.                *)
(*                                                                         *)
(* A user stands for their id and for their token.  Storage holds both     *)
(* keys or none: storeAuthResponse and logout write them together.         *)
(***************************************************************************)
CONSTANTS
    User,
    Call,      \* the calls that may be in flight at a time
    None       \* no user, no token, no call

ASSUME NoneAssumption == None \notin User

(* A call and the token in its header; "auth" is a login or a signup *)
Request == [op: {"auth", "getUser"}, user: User, token: User \cup {None}]

ASSUME NoneRequestAssumption == None \notin Request

VARIABLES
    storage,   \* the user whose id and token are in session storage
    header,    \* the user whose token is in the Authorization header
    user,      \* the user in the store; `loaded' says whether there is one
    call,      \* call[c]: the request in flight, or None
    reliable   \* whether the api-server, for good, answers getUser without
               \* failing; the token has not expired then either

vars == <<storage, header, user, call, reliable>>

TypeOK ==
    /\ storage \in User \cup {None}
    /\ header \in User \cup {None}
    /\ user \in User \cup {None}
    /\ call \in [Call -> Request \cup {None}]
    /\ reliable \in BOOLEAN

(* A new tab: nothing is stored, and the forms are shown *)
Init ==
    /\ storage = None
    /\ header = None
    /\ user = None
    /\ call = [c \in Call |-> None]
    /\ reliable \in BOOLEAN

-----------------------------------------------------------------------------

(* setToken, then getUser: what the effect does for a stored user s *)
getUser(s) == [op |-> "getUser", user |-> s, token |-> s]

(* Mutant of useIsAuthenticated: it does not ask whether anything is stored *)
useIsAuthenticatedUnchecked(c) ==
    /\ header' = storage'
    /\ call' = [call EXCEPT ![c] = getUser(storage')]

(* The effect of useIsAuthenticated after an answer to c changed `loaded' or the
   stored token: it restores the header and asks who the user is.  The answered
   call's place is free again. *)
useIsAuthenticated(c) ==
    /\ header' = IF storage' # None THEN storage' ELSE header
    /\ call' = [call EXCEPT ![c] = IF storage' # None THEN getUser(storage') ELSE None]

(* LoginContainer and SignUpContainer are there while nobody is logged in; the
   forms can be submitted again while a call is in flight *)
Authenticate(c, u) ==
    /\ user = None /\ call[c] = None
    /\ call' = [call EXCEPT ![c] = [op |-> "auth", user |-> u, token |-> header]]
    /\ UNCHANGED <<storage, header, user, reliable>>

(* Mutant of AnswerAuthenticate: storeAuthResponse is left out *)
AnswerAuthenticateUnstored(c) ==
    /\ call[c] # None /\ call[c].op = "auth"
    /\ user' = call[c].user
    /\ call' = [call EXCEPT ![c] = None]
    /\ UNCHANGED <<storage, header, reliable>>

(* login, signUp: storeAuthResponse, addUser, and the effect, since a new login
   is a new token *)
AnswerAuthenticate(c) ==
    /\ call[c] # None /\ call[c].op = "auth"
    /\ storage' = call[c].user
    /\ user' = call[c].user
    /\ useIsAuthenticated(c)
    /\ UNCHANGED reliable

(* getUser: addUser, whoever is logged in by now; the effect only if nobody was *)
AnswerGetUser(c) ==
    /\ call[c] # None /\ call[c].op = "getUser"
    /\ user' = call[c].user
    /\ UNCHANGED <<storage, reliable>>
    /\ IF user = None THEN useIsAuthenticated(c)
       ELSE call' = [call EXCEPT ![c] = None] /\ UNCHANGED header

(* handleLoginError, handleSignupError, handleGetUserError: an error message.
   A login is also refused for a wrong password. *)
AnswerError(c) ==
    /\ call[c] # None
    /\ call[c].op = "auth" \/ ~reliable
    /\ call' = [call EXCEPT ![c] = None]
    /\ UNCHANGED <<storage, header, user, reliable>>

(* Mutant of Logout: the header keeps the token *)
LogoutKeepsToken ==
    /\ user # None
    /\ storage' = None /\ user' = None
    /\ UNCHANGED <<header, call, reliable>>

(* logout, from the settings page; the effect finds nothing in storage *)
Logout ==
    /\ user # None
    /\ storage' = None
    /\ header' = None
    /\ user' = None
    /\ UNCHANGED <<call, reliable>>

(* Mutant of Reload: the effect does not ask *)
ReloadForgetsUser ==
    /\ user' = None /\ header' = storage
    /\ call' = [d \in Call |-> None]
    /\ UNCHANGED <<storage, reliable>>

(* The page is loaded again in the same tab: only session storage survives, and
   what is in flight is never answered.  The effect of Routes runs before that of
   App, whose initHttpclient keeps the headers set so far. *)
Reload ==
    /\ user' = None
    /\ header' = storage
    /\ \E c \in Call : call' =
          [d \in Call |-> IF d = c /\ storage # None THEN getUser(storage) ELSE None]
    /\ UNCHANGED <<storage, reliable>>

Answer(c) == AnswerAuthenticate(c) \/ AnswerGetUser(c)

Next ==
    \/ \E c \in Call :
        \/ Answer(c)
        \/ AnswerError(c)
        \/ \E u \in User : Authenticate(c, u)
    \/ Logout
    \/ Reload

Spec == Init /\ [][Next]_vars

(* The promise of a call settles; nobody has to click anything *)
FairSpec == Spec /\ \A c \in Call : WF_vars(Answer(c) \/ AnswerError(c))

-----------------------------------------------------------------------------
(* Properties *)

(* The header carries the stored token and no other, through logins that
   overtake each other, late answers, logouts and reloads: after a logout no
   call is made in the name of the one who left. *)
TokenMatchesStorage == header = storage

(* Who somebody is, is asked with their own token, after a reload too, where
   effects have to run in the right order. *)
AskedWithOwnToken ==
    \A c \in Call : call[c] # None /\ call[c].op = "getUser" => call[c].token = call[c].user

Diverged == user # None /\ user # storage

(* The store comes to show somebody else than session storage in one way only:
   a getUser of a session that has ended meanwhile is answered. *)
OnlyLateAnswersDiverge ==
    [][~Diverged /\ Diverged' =>
         \E c \in Call :
            /\ call[c] # None /\ call[c].op = "getUser"
            /\ call[c].user = user' /\ call[c].user # storage
            /\ call'[c] # call[c]]_vars

(* The settings page is to "allow the user to log out": whoever is shown as
   logged in has a session, and whoever logged out is not shown any more. *)
ShownUserHasSession == ~Diverged

(* As long as getUser does not fail, whoever has a session is shown as logged in
   sooner or later, unless the page is reloaded for ever.  One failure is enough
   to prevent it: nothing asks again. *)
SessionRestored ==
    reliable /\ <>[][~Reload]_vars => (storage # None ~> user # None \/ storage = None)
=============================================================================
