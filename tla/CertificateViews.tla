--------------------------- MODULE CertificateViews ---------------------------
(***************************************************************************)
(* The pages of the web app that show certificates, over one store, for    *)
(* the users who log in to the same tab one after the other.  A step is    *)
(* one event with what it renders and the effects that run: pages and      *)
(* forms appear with their initial state, and what they held is gone when  *)
(* they disappear, while store and calls stay.                             *)
(*                                                                         *)
(* The token of a call is that of the user in the store; how the two can   *)
(* part is the subject of WebSession.                                      *)
(***************************************************************************)
EXTENDS NewCertificateForm, PrivateKeyDialog

(* /certificates/:certificateId, /certificates, /certificates/add and the rest *)
Route == Certificate \cup {"list", "add", "other"}

ASSUME RouteAssumption == Certificate \cap {"list", "add", "other"} = {}

VARIABLE route    \* what the router shows, if somebody is logged in

views == <<route, form, dialog>>
vars == <<storeVars, views>>

(* The form is there with the options only; a page is there for its route only *)
TypeOK ==
    /\ StoreTypeOK /\ FormTypeOK /\ DialogTypeOK
    /\ route \in Route
    /\ account = None => route = "other"
    /\ form # None <=> route = "add" /\ options
    /\ dialog # None <=> route \in Certificate
    /\ \A c \in Call : InFlight(c, "key") => dialog # None

Init ==
    /\ StoreInit
    /\ route = "other" /\ form = None /\ dialog = None

-----------------------------------------------------------------------------
(* What appears with route r, and what the effects of its page send for a *)

(* The form waits for the options *)
FormAt(r, loaded) == IF r = "add" /\ loaded THEN NewForm ELSE None

(* From one certificate to another the page stays *)
DialogAt(r) ==
    IF r \notin Certificate THEN None
    ELSE IF route \in Certificate THEN dialog ELSE NewDialog

Fetched(a, r) ==
    CASE r = "list" -> useFetchCertificates(a)
      [] r = "add" -> useFetchCertificateOptions(a)
      [] r \in Certificate -> getCertificate(a, r)
      [] OTHER -> None

(* A download that is answered when its page is gone saves a file, nothing else *)
Forgotten(r) ==
    [c \in Call |-> IF r \notin Certificate /\ InFlight(c, "key") THEN None ELSE call[c]]

Show(c, a, r) ==
    /\ route' = r
    /\ form' = FormAt(r, options)
    /\ dialog' = DialogAt(r)
    /\ call' = [Forgotten(r) EXCEPT ![c] = Fetched(a, r)]

-----------------------------------------------------------------------------
(* Events *)

Goto(c, r) ==
    /\ account # None /\ r # route
    /\ call[c] = None
    /\ Show(c, account, r)
    /\ UNCHANGED <<account, items, signatories, options, selected>>

(* "certificates", or one of the pages that are the same here *)
SideMenu(c) == \E r \in {"list", "other"} : Goto(c, r)

(* CertificateListContainer: a row and the button of the list *)
SelectRow(c) == route = "list" /\ \E x \in items.certificates : Goto(c, x)
CertificateListTitle(c) == route = "list" /\ Goto(c, "add")

(* The browser remembers what anybody visited in the tab before *)
BackOrForward(c) == \E r \in Route : Goto(c, r)

(* Somebody is logged in: the router starts where the URL is by then, anywhere the
   back button or an abandoned creation has led *)
Login(c, a, r) ==
    /\ account = None /\ call[c] = None
    /\ account' = a
    /\ Show(c, a, r)
    /\ UNCHANGED <<items, signatories, options, selected>>

(* The answer to another login or getUser: the pages stay, and the effects that
   depend on the account run again *)
SwitchUser(c, a) ==
    /\ account \notin {None, a} /\ call[c] = None
    /\ account' = a
    /\ call' = [call EXCEPT ![c] =
                   IF route = "list" THEN useFetchCertificates(a)
                   ELSE IF SearchShown THEN useFetchSignatories(a) ELSE None]
    /\ UNCHANGED <<items, signatories, options, selected, views>>

(* From the settings.  The store stays, and so do the calls, but nothing listens
   to the router of a creation any more. *)
Logout ==
    /\ account # None /\ route = "other"
    /\ account' = None
    /\ call' = [c \in Call |-> IF InFlight(c, "create") THEN [call[c] EXCEPT !.op = "abandoned"]
                               ELSE call[c]]
    /\ UNCHANGED <<items, signatories, options, selected, views>>

(* The page is loaded again; Login follows if there is a session *)
Reload ==
    /\ account' = None /\ items' = NothingLoaded /\ signatories' = NothingLoaded
    /\ options' = FALSE /\ selected' = None /\ call' = [c \in Call |-> None]
    /\ route' = "other" /\ form' = None /\ dialog' = None

(* The form takes the place of its skeleton *)
OptionsArrive(c) ==
    /\ AnswerOptions(c)
    /\ form' = IF form = None THEN FormAt(route, TRUE) ELSE form
    /\ UNCHANGED <<route, dialog>>

(* onCreateSuccess goes to the new certificate from wherever the user is by now *)
CreateSucceeds(c, x) ==
    /\ InFlight(c, "create")
    /\ AnswerCreate(c, x)
    /\ IF route = x THEN Settle(c) /\ UNCHANGED views ELSE Show(c, account, x)

(* Its push is not noticed; a search that is shown finds its authorities dropped *)
AbandonedSucceeds(c, x) ==
    /\ InFlight(c, "abandoned")
    /\ AnswerCreate(c, x)
    /\ call' = [call EXCEPT ![c] = IF SearchShown THEN getSigningCertificates(account) ELSE None]
    /\ UNCHANGED views

Answer(c) ==
    \/ (AnswerCertificates(c) \/ AnswerSigning(c) \/ AnswerCertificate(c) \/ FetchFails(c))
          /\ UNCHANGED views
    \/ OptionsArrive(c)
    \/ \E x \in Certificate : CreateSucceeds(c, x) \/ AbandonedSucceeds(c, x)

Next ==
    \/ \E c \in Call :
        \/ Answer(c)
        \/ SideMenu(c) \/ SelectRow(c) \/ CertificateListTitle(c) \/ BackOrForward(c)
        \/ \E a \in Account, r \in Route : Login(c, a, r)
        \/ \E a \in Account : SwitchUser(c, a)
    \/ Logout
    \/ Reload
    \/ FormStep /\ UNCHANGED <<route, dialog>>
    \/ DialogStep /\ UNCHANGED <<route, form>>

Spec == Init /\ [][Next]_vars

-----------------------------------------------------------------------------
(* Properties; CompleteSearchIsSubmitted and WrongPasswordIsWrong are those of the
   parts *)

(* The request comes to carry a signatory the user does not see in two ways only:
   the type is changed to that of a root, and the search disappears with what was
   chosen, or another authority is chosen after the password was erased.  Nothing
   that is answered, and no other change of the form, brings it about. *)
OnlyTypeChangesHideSignatory ==
    [][~SignatoryHidden /\ SignatoryHidden' =>
         \/ form'.type = "ROOT_CA"
         \/ form'.password = None /\ form'.id \notin {None, form.id}]_vars

(* "Wrong private key password" comes to be said of the right one when a download
   is answered, or when another certificate is selected under the dialog, whose
   error stays; never by typing, or by opening the dialog again. *)
OnlyLateAnswersAccuse ==
    [][~Accused /\ Accused' =>
         \/ \E c \in Call : InFlight(c, "key") /\ call'[c] = None
         \/ selected' # selected]_vars

(* The list shows the certificates of another account, and nothing is on its way
   that would change that; the page of a certificate does *)
ForeignList ==
    /\ route = "list" /\ ~(items.certificates \subseteq Of(account))
    /\ \A c \in Call : call[c] # getCertificatesByAccountId(account)

ForeignCertificate ==
    /\ route \in Certificate /\ selected # None /\ AccountOf[selected] # account
    /\ \A c \in Call : call[c] # getCertificate(account, route)

(* The store outlives a logout, so pages show what is left of the user before
   until their own calls are answered.  It stays that way only after an answer that
   is late, refused or lost, or when the user changes under the page of a
   certificate, which is not fetched again then. *)
OnlyLateAnswersShowForeign ==
    [][/\ ~ForeignList /\ ForeignList' =>
            \E c \in Call : InFlight(c, "list") /\ call'[c] = None
       /\ ~ForeignCertificate /\ ForeignCertificate' =>
            \/ \E c \in Call : call[c] # None /\ call'[c] = None
                               /\ call[c].op \in {"certificate", "create", "abandoned"}
            \/ account' \notin {None, account}]_vars
=============================================================================
