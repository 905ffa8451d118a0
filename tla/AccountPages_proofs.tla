------------------------- MODULE AccountPages_proofs -------------------------
(***************************************************************************)
(* Proofs about the account pages, for any number of users, calls,         *)
(* invitations and errors: with all their events the pages are a           *)
(* WebSession, whose theorems hold of them; and errors and routers do what *)
(* their properties say.                                                   *)
(***************************************************************************)
EXTENDS AccountPages, WebSession_proofs

(* When the timer of the error that is shown runs, no other does: what makes
   removeError, which removes whichever error is shown, remove its own. *)
OnlyItsTimer == error \in timers => timers = {error}

PagesInv == PagesTypeOK /\ OnlyItsTimer

-----------------------------------------------------------------------------
(* Every event of the pages is an event of the session, or does not touch it. *)
LEMMA PagesStep == [PagesNext]_pvars => [Next]_vars
BY DEF PagesNext, LoggedIn, UserArrives, CallFails, Login, SignUp, handleLogout, ReloadPage,
       SideMenu, UserManagementTitle, createNewInvitation, Link, BackOrForward, Goto,
       NewInvitation, InvitationCreated, InvitationFails, ErrorNotification, removeError,
       Next, Answer, pvars

(* The account pages implement the session of a tab. *)
THEOREM PagesAreASession == PagesSpec => Spec
<1>1. PagesInit => Init
  BY DEF PagesInit
<1>2. QED
  BY <1>1, PagesStep, PTL DEF PagesSpec, Spec

(* On every page the Authorization header carries the stored token. *)
THEOREM PagesHeaderIsStored == PagesSpec => []TokenMatchesStorage
<1>1. QED
  BY PagesAreASession, HeaderIsStored, PTL

(* Whatever page is shown, only a late getUser makes store and storage disagree. *)
THEOREM PagesOnlyLateAnswers == PagesSpec => OnlyLateAnswersDiverge
<1>1. QED
  BY PagesAreASession, OnlyLateAnswers, PTL

-----------------------------------------------------------------------------
(* The routers keep their types when one takes the place of the other. *)
LEMMA RoutesType ==
    ASSUME PagesTypeOK, Routes
    PROVE  path' \in Path /\ invitation' \in [Invitation -> {"none", "sent", "gone"}]
<1>1. CASE (user = None) = (user' = None)
  BY <1>1 DEF PagesTypeOK, Routes
<1>2. CASE (user = None) # (user' = None)
  BY <1>2 DEF PagesTypeOK, Routes
<1>3. QED
  BY <1>1, <1>2

(* The pages start with their types, and without an error. *)
LEMMA InitPages == PagesInit => PagesInv
<1> SUFFICES ASSUME PagesInit PROVE PagesInv
  OBVIOUS
<1>1. TypeOK
  BY InitIInv DEF PagesInit, IInv
<1>2. QED
  BY <1>1 DEF PagesInit, PagesInv, PagesTypeOK, OnlyItsTimer

(* A new error has no timer yet, and those of others go with the effect's cleanup. *)
LEMMA ErrorKeeps ==
    ASSUME PagesInv, registerHTTPError
    PROVE  error' \in ErrorInfo /\ timers' \subseteq ErrorInfo /\ OnlyItsTimer'
BY DEF PagesInv, PagesTypeOK, OnlyItsTimer, registerHTTPError, addError

(* Every event keeps the types of the pages, and the timer of the error. *)
LEMMA NextPages == PagesInv /\ TypeOK' /\ [PagesNext]_pvars => PagesInv'
<1> SUFFICES ASSUME PagesInv, TypeOK', [PagesNext]_pvars PROVE PagesInv'
  OBVIOUS
<1> USE NoneErrorAssumption
<1>1. ASSUME UNCHANGED <<error, timers>>, url' \in Path, path' \in Path,
             invitation' \in [Invitation -> {"none", "sent", "gone"}]
      PROVE  PagesInv'
  BY <1>1 DEF PagesInv, PagesTypeOK, OnlyItsTimer
<1>2. ASSUME NEW c \in Call, LoggedIn(c) PROVE PagesInv'
  <2>1. "/" \in Path
    BY DEF Path
  <2>2. QED
    BY <1>1, <1>2, <2>1, RoutesType DEF LoggedIn, PagesInv
<1>3. ASSUME NEW c \in Call, UserArrives(c) PROVE PagesInv'
  BY <1>1, <1>3, RoutesType DEF UserArrives, PagesInv, PagesTypeOK
<1>4. ASSUME NEW c \in Call, CallFails(c) PROVE PagesInv'
  BY <1>4, ErrorKeeps DEF CallFails, PagesInv, PagesTypeOK
<1>5. ASSUME NEW c \in Call, NEW u \in User, Login(c, u) \/ SignUp(c, u) PROVE PagesInv'
  BY <1>1, <1>5 DEF Login, SignUp, pages, PagesInv, PagesTypeOK
<1>6. CASE handleLogout
  BY <1>1, <1>6, RoutesType DEF handleLogout, PagesInv, PagesTypeOK
<1>7. CASE ReloadPage
  BY <1>7 DEF ReloadPage, PagesInv, PagesTypeOK, OnlyItsTimer
<1>8. ASSUME NEW p \in Path, Goto(p) PROVE PagesInv'
  BY <1>1, <1>8 DEF Goto, push, PagesInv, PagesTypeOK
<1>9. CASE SideMenu \/ UserManagementTitle \/ Link \/ BackOrForward
  <2>1. \E p \in Path : Goto(p)
    BY <1>9 DEF SideMenu, UserManagementTitle, createNewInvitation, Link, BackOrForward, Path
  <2>2. QED
    BY <1>8, <2>1
<1>10. ASSUME NEW i \in Invitation, NewInvitation(i) PROVE PagesInv'
  BY <1>1, <1>10 DEF NewInvitation, createInvitation, PagesInv, PagesTypeOK
<1>11. ASSUME NEW i \in Invitation, InvitationCreated(i) PROVE PagesInv'
  <2>1. "/account" \in Path
    BY DEF Path
  <2>2. QED
    BY <1>1, <1>11, <2>1 DEF InvitationCreated, PagesInv, PagesTypeOK
<1>12. ASSUME NEW i \in Invitation, InvitationFails(i) PROVE PagesInv'
  BY <1>12, ErrorKeeps DEF InvitationFails, PagesInv, PagesTypeOK
<1>13. CASE ErrorNotification
  BY <1>13 DEF ErrorNotification, setupErrorClearing, PagesInv, PagesTypeOK, OnlyItsTimer
<1>14. ASSUME NEW e \in ErrorInfo, removeError(e) PROVE PagesInv'
  BY <1>14 DEF removeError, clearError, PagesInv, PagesTypeOK, OnlyItsTimer
<1>15. CASE UNCHANGED pvars
  BY <1>1, <1>15 DEF pvars, pages, PagesInv, PagesTypeOK
<1>16. QED
  BY <1>2, <1>3, <1>4, <1>5, <1>6, <1>7, <1>9, <1>10, <1>11, <1>12, <1>13, <1>14, <1>15
     DEF PagesNext

(* The invariant holds throughout; the session's types come from WebSession. *)
LEMMA PagesInvariance == PagesSpec => []PagesInv
<1>1. PagesSpec => []TypeOK
  BY PagesAreASession, TypeCorrect, PTL
<1>2. QED
  BY <1>1, InitPages, NextPages, PTL DEF PagesSpec

-----------------------------------------------------------------------------
(* Path, URL, invitations, errors and timers keep their types. *)
THEOREM PagesTypeCorrect == PagesSpec => []PagesTypeOK
<1>1. PagesInv => PagesTypeOK
  BY DEF PagesInv
<1>2. QED
  BY <1>1, PagesInvariance, PTL

(* An error that is removed while its timer runs is removed by that timer, or with
   the page. *)
LEMMA RemovedByItsTimer ==
    ASSUME PagesInv, [PagesNext]_pvars, error \in timers, error' = None
    PROVE  error \notin timers'
<1> USE NoneErrorAssumption
<1>1. error # None /\ timers = {error}
  BY DEF PagesInv, PagesTypeOK, OnlyItsTimer
<1>2. ~registerHTTPError
  BY DEF registerHTTPError, addError
<1>3. ReloadPage \/ \E e \in ErrorInfo : removeError(e)
  BY <1>1, <1>2
     DEF PagesNext, LoggedIn, UserArrives, CallFails, Login, SignUp, handleLogout, SideMenu,
         UserManagementTitle, createNewInvitation, Link, BackOrForward, Goto, NewInvitation,
         InvitationCreated, InvitationFails, ErrorNotification, pages, pvars
<1>4. QED
  BY <1>1, <1>3 DEF ReloadPage, removeError

(* However errors follow each other, an error is shown for its time. *)
THEOREM NoErrorIsEverCutShort == PagesSpec => NoErrorIsCutShort
<1>1. PagesInv /\ [PagesNext]_pvars =>
        [(error \in timers /\ error' = None) => error \notin timers']_pvars
  BY RemovedByItsTimer
<1>2. QED
  BY <1>1, PagesInvariance, PTL DEF PagesSpec, NoErrorIsCutShort

(* A step that parts what is seen from the URL answers a router that is gone. *)
LEMMA PartingStep ==
    ASSUME PagesInv, [PagesNext]_pvars, path = url, path' # url'
    PROVE  \/ \E c \in Call :
                 /\ call[c] # None /\ call[c].op = "auth"
                 /\ call[c].user = storage' /\ call'[c] # call[c]
           \/ \E i \in Invitation : invitation[i] = "gone" /\ invitation'[i] = "none"
<1>1. Routes => path' \in {path, url}
  BY DEF Routes
<1>2. \/ \E c \in Call : LoggedIn(c)
      \/ \E i \in Invitation : InvitationCreated(i)
  BY <1>1
     DEF PagesNext, UserArrives, CallFails, Login, SignUp, handleLogout, ReloadPage, SideMenu,
         UserManagementTitle, createNewInvitation, Link, BackOrForward, Goto, push, NewInvitation,
         InvitationFails, ErrorNotification, removeError, pages, pvars
<1>3. ASSUME NEW c \in Call, LoggedIn(c)
      PROVE  /\ call[c] # None /\ call[c].op = "auth"
             /\ call[c].user = storage' /\ call'[c] # call[c]
  <2>1. /\ call[c] # None /\ call[c].op = "auth" /\ storage' = call[c].user
        /\ useIsAuthenticated(c)
    BY <1>3 DEF LoggedIn, AnswerAuthenticate
  <2>2. call'[c] = None \/ call'[c] = getUser(storage')
    BY <2>1 DEF useIsAuthenticated, PagesInv, PagesTypeOK, TypeOK
  <2>3. getUser(storage').op = "getUser"
    BY DEF getUser
  <2>4. QED
    BY <2>1, <2>2, <2>3
<1>4. ASSUME NEW i \in Invitation, InvitationCreated(i)
      PROVE  invitation[i] = "gone" /\ invitation'[i] = "none"
  BY <1>4 DEF InvitationCreated, PagesInv, PagesTypeOK
<1>5. QED
  BY <1>2, <1>3, <1>4

(* The page that is seen is that of the URL but for callbacks of old routers. *)
THEOREM OnlyOldRouters == PagesSpec => OnlyOldRoutersPartPageFromUrl
<1>1. PagesInv /\ [PagesNext]_pvars =>
        [path = url /\ path' # url' =>
           \/ \E c \in Call :
                 /\ call[c] # None /\ call[c].op = "auth"
                 /\ call[c].user = storage' /\ call'[c] # call[c]
           \/ \E i \in Invitation : invitation[i] = "gone" /\ invitation'[i] = "none"]_pvars
  BY PartingStep
<1>2. QED
  BY <1>1, PagesInvariance, PTL DEF PagesSpec, OnlyOldRoutersPartPageFromUrl
=============================================================================
