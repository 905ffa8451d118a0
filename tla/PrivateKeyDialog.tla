--------------------------- MODULE PrivateKeyDialog ---------------------------
(***************************************************************************)
(* The page of a certificate, and the dialog that asks for the password of *)
(* its private key.  The dialog belongs to the page and not to the         *)
(* certificate: from one certificate to another it keeps what was typed    *)
(* and what it shows, and a download that is in flight closes it, or       *)
(* shows an error in it, whenever it is answered.                          *)
(*                                                                         *)
(* The downloads of certificates change nothing and are left out.          *)
(***************************************************************************)
EXTENDS CertificateStore

CONSTANTS
    Admin,        \* the accounts whose user, in this tab, is an ADMIN
    RootCA,       \* the certificates of type ROOT_CA
    PasswordOf    \* the password of a certificate's private key

ASSUME AdminAssumption == Admin \subseteq Account
ASSUME RootAssumption == RootCA \subseteq Authority
ASSUME PasswordOfAssumption == PasswordOf \in [Certificate -> Password]

VARIABLE dialog    \* the state of the mounted page, or None

(* modalOpen of CertificateDisplay, showError and the field of PrivateKeyModal;
   its `downloading' has no effect, as the dialog has buttons of its own *)
DialogState == [open: BOOLEAN, showError: BOOLEAN, password: Password \cup {None}]

NewDialog == [open |-> FALSE, showError |-> FALSE, password |-> None]

ASSUME NoneDialogAssumption == None \notin DialogState

DialogTypeOK == dialog \in DialogState \cup {None}

-----------------------------------------------------------------------------
setModalOpen(open) == dialog' = [dialog EXCEPT !.open = open]
setShowError(show) == dialog' = [dialog EXCEPT !.showError = show]

isAdmin == account \in Admin

(* Disabled while nothing is selected, and not there for the root if the user is no
   ADMIN *)
DownloadPrivateKeyButton ==
    /\ dialog # None /\ ~dialog.open
    /\ selected # None
    /\ selected \in RootCA => isAdmin
    /\ setModalOpen(TRUE)
    /\ UNCHANGED storeVars

onCancel ==
    /\ dialog # None /\ dialog.open
    /\ setModalOpen(FALSE)
    /\ UNCHANGED storeVars

(* Mutant of onChange: the error stays *)
onChangeKeepsError(p) ==
    /\ dialog # None /\ dialog.open /\ p # dialog.password
    /\ dialog' = [dialog EXCEPT !.password = p]
    /\ UNCHANGED storeVars

(* removeErrorOnTyping *)
onChange(p) ==
    /\ dialog # None /\ dialog.open /\ p # dialog.password
    /\ dialog' = [dialog EXCEPT !.password = p, !.showError = FALSE]
    /\ UNCHANGED storeVars

(* The key of whatever is selected by then *)
downloadPrivateKey(c, p) ==
    /\ selected # None
    /\ call[c] = None
    /\ call' = [call EXCEPT ![c] =
                   [op |-> "key", account |-> account, id |-> selected, password |-> p]]

(* The rule asks for a password *)
onDownload(c) ==
    /\ dialog # None /\ dialog.open /\ dialog.password # None
    /\ downloadPrivateKey(c, dialog.password)
    /\ UNCHANGED <<account, items, signatories, options, selected, dialog>>

downloadCallback(success) == IF success THEN setModalOpen(FALSE) ELSE setShowError(TRUE)

(* The api-server gives a key to an ADMIN of its account who knows the password:
   the attachment is saved and the dialog closed *)
downloadSucceeds(c) ==
    /\ InFlight(c, "key")
    /\ call[c].account \in Admin /\ call[c].account = AccountOf[call[c].id]
    /\ call[c].password = PasswordOf[call[c].id]
    /\ downloadCallback(TRUE)
    /\ Settle(c)
    /\ UNCHANGED <<account, items, signatories, options, selected>>

(* handleDownloadCertificatePrivateKeyError, for a wrong password as for anything
   else that goes wrong *)
downloadFails(c) ==
    /\ InFlight(c, "key")
    /\ downloadCallback(FALSE)
    /\ Settle(c)
    /\ UNCHANGED <<account, items, signatories, options, selected>>

DialogStep ==
    \/ DownloadPrivateKeyButton
    \/ onCancel
    \/ \E p \in Password \cup {None} : onChange(p)
    \/ \E c \in Call : onDownload(c) \/ downloadSucceeds(c) \/ downloadFails(c)

-----------------------------------------------------------------------------
(* Properties *)

(* "Wrong private key password" is said of the right password *)
Accused ==
    /\ dialog # None /\ dialog.showError
    /\ selected # None /\ dialog.password = PasswordOf[selected]

(* What the dialog says, "Wrong private key password", is true. *)
WrongPasswordIsWrong == ~Accused
=============================================================================
