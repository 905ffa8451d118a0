----------------------------- MODULE AccountPages -----------------------------
(***************************************************************************)
(* The pages around WebSession: the forms to log in and to sign up, the    *)
(* account, its invitations and the settings, with the routers that choose *)
(* between them and the notification of errors.                            *)
(*                                                                         *)
(* There is a router for the users who are logged in and another for those *)
(* who are not, each with a history of its own: it reads the URL when it   *)
(* appears, and notices what it pushes itself and the browser's back and   *)
(* forward.  A callback that pushes on a router that is gone changes the   *)
(* URL and nothing that is seen.                                           *)
(*                                                                         *)
(* Here the effect of the notification is a step of its own: timers are    *)
(* events too, and one may expire between a rendering and its effects.     *)
(***************************************************************************)
EXTENDS WebSession

CONSTANTS
    Invitation,   \* a bound: the creations of invitations in flight at a time
    ErrorInfo     \* a bound: identities of errors, two of which meet

ASSUME NoneErrorAssumption == None \notin ErrorInfo

(* "/" stands for the other paths: /signup and the pages of certificates *)
Path == {"/", "/login", "/account", "/invitations/add", "/settings"}

VARIABLES
    path,         \* what the router shows
    url,          \* what the browser shows
    invitation,   \* invitation[i]: "sent", or "gone" if its router is, or "none"
    error,        \* state.error.error, or None
    timers        \* the errors whose timers run

pages == <<path, url, invitation, error, timers>>
pvars == <<vars, pages>>

PagesTypeOK ==
    /\ TypeOK
    /\ path \in Path
    /\ url \in Path
    /\ invitation \in [Invitation -> {"none", "sent", "gone"}]
    /\ error \in ErrorInfo \cup {None}
    /\ timers \subseteq ErrorInfo

PagesInit ==
    /\ Init
    /\ path \in Path /\ url = path
    /\ invitation = [i \in Invitation |-> "none"]
    /\ error = None /\ timers = {}

-----------------------------------------------------------------------------
(* Routers *)

(* Mutant of Routes: whoever comes or goes is sent home, but not by the router *)
RoutesAtHome ==
    IF (user = None) = (user' = None) THEN UNCHANGED <<path, invitation>>
    ELSE /\ path' = "/"
         /\ invitation' = [i \in Invitation |-> IF invitation[i] = "sent" THEN "gone" ELSE invitation[i]]

(* One router takes the place of the other when somebody logs in or out *)
Routes ==
    IF (user = None) = (user' = None) THEN UNCHANGED <<path, invitation>>
    ELSE /\ path' = url
         /\ invitation' = [i \in Invitation |-> IF invitation[i] = "sent" THEN "gone" ELSE invitation[i]]

push(p) == path' = p /\ url' = p

Goto(p) ==
    /\ path # p \/ url # p
    /\ push(p)
    /\ UNCHANGED <<vars, invitation, error, timers>>

(* gotoPath: the title and the three items *)
SideMenu == user # None /\ \E p \in {"/", "/account", "/settings"} : Goto(p)

(* Renders nothing without a user *)
Account == user # None /\ path = "/account"

createNewInvitation == Goto("/invitations/add")

(* The button that invites, in the title of the table of users *)
UserManagementTitle == Account /\ createNewInvitation

(* One form at /login, the other everywhere else *)
UnauthenticatedRoutes == IF path = "/login" THEN "login" ELSE "signup"

(* From one form to the other *)
Link == user = None /\ Goto(IF UnauthenticatedRoutes = "login" THEN "/" ELSE "/login")

(* The browser remembers what anybody visited in the tab before *)
BackOrForward == \E p \in Path : Goto(p)

-----------------------------------------------------------------------------
(* Errors *)

addError(e) == error' = e
clearError == error' = None

(* The effects of the rendering before are run at last: the timer of the error it
   showed has taken the place of the one before. *)
registerHTTPError ==
    /\ \E e \in ErrorInfo \ {error} : addError(e)
    /\ timers' = {error} \ {None}

(* Mutant of ErrorNotification: the effect has no cleanup *)
ErrorNotificationUnclean ==
    /\ error # None /\ error \notin timers
    /\ timers' = timers \cup {error}
    /\ UNCHANGED <<vars, path, url, invitation, error>>

(* A timer for the error that is shown; the cleanup clears that of another *)
setupErrorClearing == timers' = {error}

ErrorNotification ==
    /\ error # None /\ error \notin timers
    /\ setupErrorClearing
    /\ UNCHANGED <<vars, path, url, invitation, error>>

(* After ERROR_DISPLAY_TIME_MS the error is removed, whichever it is by then; the
   effects of that clear what is left *)
removeError(e) ==
    /\ e \in timers
    /\ clearError
    /\ timers' = timers \ {e}
    /\ UNCHANGED <<vars, path, url, invitation>>

-----------------------------------------------------------------------------
(* The events of WebSession, with the pages *)

(* The rules of the two forms let through whatever has an account name, an email
   and a password, at signup one of PASSWORD_MIN_LENGTH *)
Login(c, u) ==
    /\ UnauthenticatedRoutes = "login"
    /\ Authenticate(c, u)
    /\ UNCHANGED pages

SignUp(c, u) ==
    /\ UnauthenticatedRoutes = "signup"
    /\ Authenticate(c, u)
    /\ UNCHANGED pages

(* The callback goes home, on a router that is gone since the user was added *)
LoggedIn(c) ==
    /\ AnswerAuthenticate(c)
    /\ Routes
    /\ url' = "/"
    /\ UNCHANGED <<error, timers>>

UserArrives(c) ==
    /\ AnswerGetUser(c)
    /\ Routes
    /\ UNCHANGED <<url, error, timers>>

CallFails(c) ==
    /\ AnswerError(c)
    /\ registerHTTPError
    /\ UNCHANGED <<path, url, invitation>>

(* The button of the settings *)
handleLogout ==
    /\ path = "/settings"
    /\ Logout
    /\ Routes
    /\ UNCHANGED <<url, error, timers>>

ReloadPage ==
    /\ Reload
    /\ path' = url
    /\ invitation' = [i \in Invitation |-> "none"]
    /\ error' = None /\ timers' = {}
    /\ UNCHANGED url

-----------------------------------------------------------------------------
(* Invitations; what they are is known to the api-server only *)

createInvitation(i) ==
    /\ invitation[i] = "none"
    /\ invitation' = [invitation EXCEPT ![i] = "sent"]

(* The form: an email and one of the ROLES *)
NewInvitation(i) ==
    /\ user # None /\ path = "/invitations/add"
    /\ createInvitation(i)
    /\ UNCHANGED <<vars, path, url, error, timers>>

(* onCreateSuccess goes to the account, from wherever the user is by now *)
InvitationCreated(i) ==
    /\ invitation[i] # "none"
    /\ url' = "/account"
    /\ path' = IF invitation[i] = "sent" THEN "/account" ELSE path
    /\ invitation' = [invitation EXCEPT ![i] = "none"]
    /\ UNCHANGED <<vars, error, timers>>

(* handleCreateInvitationError *)
InvitationFails(i) ==
    /\ invitation[i] # "none"
    /\ registerHTTPError
    /\ invitation' = [invitation EXCEPT ![i] = "none"]
    /\ UNCHANGED <<vars, path, url>>

PagesNext ==
    \/ \E c \in Call :
        \/ LoggedIn(c) \/ UserArrives(c) \/ CallFails(c)
        \/ \E u \in User : Login(c, u) \/ SignUp(c, u)
    \/ handleLogout
    \/ ReloadPage
    \/ SideMenu \/ UserManagementTitle \/ Link \/ BackOrForward
    \/ \E i \in Invitation : NewInvitation(i) \/ InvitationCreated(i) \/ InvitationFails(i)
    \/ ErrorNotification
    \/ \E e \in ErrorInfo : removeError(e)

PagesSpec == PagesInit /\ [][PagesNext]_pvars

(* As in WebSession: the promise of a call settles *)
PagesFairSpec ==
    PagesSpec /\ \A c \in Call : WF_pvars(LoggedIn(c) \/ UserArrives(c) \/ CallFails(c))

-----------------------------------------------------------------------------
(* Properties, besides those of WebSession *)

(* However errors follow each other, once the effect has run for an error it is
   shown for its time: no timer but its own removes it. *)
NoErrorIsCutShort ==
    [][(error \in timers /\ error' = None) => error \notin timers']_pvars

(* The page that is seen is that of the URL, through logins, logouts, reloads and
   answers, but for callbacks of routers that are gone: that of every login, and
   that of an invitation sent before a logout. *)
OnlyOldRoutersPartPageFromUrl ==
    [][path = url /\ path' # url' =>
         \/ \E c \in Call :
               /\ call[c] # None /\ call[c].op = "auth"
               /\ call[c].user = storage' /\ call'[c] # call[c]
         \/ \E i \in Invitation : invitation[i] = "gone" /\ invitation'[i] = "none"]_pvars
=============================================================================
