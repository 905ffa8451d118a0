--------------------------- MODULE CertificatePage ---------------------------
(***************************************************************************)
(* What one tab of the web app knows about certificates: the certificate   *)
(* and the authority it shows, the authorities its search offers, and the  *)
(* calls to the api-server, whose answers come in any order, late or not   *)
(* at all.  There is no cancelling: an answer is applied to the store      *)
(* whatever page is shown by then.                                         *)
(*                                                                         *)
(* The page is one thread: a step is one event with all that follows from  *)
(* it before the next, rendering and effects included.  The user of the    *)
(* tab stays the same; logging out and in again is a visit to "other".     *)
(***************************************************************************)
CONSTANTS
    Certificate,   \* those of the account, stored or still to be created
    Authority,     \* those of type ROOT_CA and INTERMEDIATE_CA
    SignatoryOf,   \* their signatoryId, or None
    Call,          \* a bound: the calls that may be in flight at a time
    None           \* no certificate, no call

ASSUME AuthorityAssumption == Authority \subseteq Certificate
ASSUME SignatoryAssumption == SignatoryOf \in [Certificate -> Authority \cup {None}]
ASSUME NoneAssumption == None \notin Certificate

(* /certificates/:certificateId, /certificates, /certificates/add and the rest *)
Page == Certificate \cup {"list", "add", "other"}

(* A call in flight; what the api-server answers to a creation and to the search
   depends on when it is served *)
Request ==
    [op: {"certificate", "signatory", "create"}, id: Certificate, served: BOOLEAN]
    \cup [op: {"signing"}, certificates: SUBSET Authority, served: BOOLEAN]

ASSUME NoneRequestAssumption == None \notin Request

VARIABLES
    page,          \* the route
    selected,      \* state.certificates.selected
    signatories,   \* state.certificates.signatories
    call,          \* call[c]: the request in flight, or None
    stored,        \* the certificates the api-server has
    created        \* history: those whose creation this tab was told of

vars == <<page, selected, signatories, call, stored, created>>

TypeOK ==
    /\ page \in Page
    /\ selected \in [certificate: Certificate \cup {None}, signatory: Certificate \cup {None}]
    /\ signatories \in [loaded: BOOLEAN, certificates: SUBSET Authority]
    /\ call \in [Call -> Request \cup {None}]
    /\ stored \subseteq Certificate
    /\ created \subseteq Certificate

NothingSelected == [certificate |-> None, signatory |-> None]
NoSignatories == [loaded |-> FALSE, certificates |-> {}]

(* A freshly loaded app, for an account that may have certificates already *)
Init ==
    /\ page = "other"
    /\ selected = NothingSelected
    /\ signatories = NoSignatories
    /\ call = [c \in Call |-> None]
    /\ stored \in {S \in SUBSET Certificate : \A x \in S : SignatoryOf[x] \in S \cup {None}}
    /\ created = {}

-----------------------------------------------------------------------------
(* What is sent *)

getCertificate(x) == [op |-> "certificate", id |-> x, served |-> FALSE]
createCertificate(x) == [op |-> "create", id |-> x, served |-> FALSE]
getSigningCertificates == [op |-> "signing", certificates |-> {}, served |-> FALSE]

(* Sent for the signatory of x after x was selected, if it has one *)
getCertificateSignatory(x) ==
    IF SignatoryOf[x] = None THEN None
    ELSE [op |-> "signatory", id |-> SignatoryOf[x], served |-> FALSE]

(* Mutant of select: the signatory of the certificate before is not removed *)
selectOnly(x) == [selected EXCEPT !.certificate = x]

(* selectCertificate, and removeSelectedSignatory if x has no signatory *)
select(x) ==
    [certificate |-> x,
     signatory   |-> IF SignatoryOf[x] = None THEN None ELSE selected.signatory]

InFlight(c, op) == call[c] # None /\ call[c].op = op

-----------------------------------------------------------------------------
(* Events *)

(* Mutant of Navigate: the effect of useSelectedCertificate does not depend on
   the id, and runs when the page is entered from elsewhere only *)
NavigateOnMount(c, p) ==
    /\ p \in stored \cup {"list", "add", "other"} /\ p # page
    /\ call[c] = None
    /\ page' = p
    /\ call' = [call EXCEPT ![c] =
                   IF p \in Certificate /\ page \notin Certificate THEN getCertificate(p) ELSE None]
    /\ UNCHANGED <<selected, signatories, stored, created>>

(* The menu, the list, the back button.  A new id is fetched by
   useSelectedCertificate. *)
Navigate(c, p) ==
    /\ p \in stored \cup {"list", "add", "other"} /\ p # page
    /\ call[c] = None
    /\ page' = p
    /\ call' = [call EXCEPT ![c] = IF p \in Certificate THEN getCertificate(p) ELSE None]
    /\ UNCHANGED <<selected, signatories, stored, created>>

(* BasicCertificateDetails: the authority that is shown is a link *)
FollowSignatory(c) ==
    /\ page \in Certificate /\ selected.signatory # None
    /\ Navigate(c, selected.signatory)

(* A type that needs a signatory is chosen in the form: SignatorySearch is
   rendered, and useFetchSignatories fetches unless they are loaded *)
OpenSearch(c) ==
    /\ page = "add" /\ ~signatories.loaded
    /\ call[c] = None
    /\ call' = [call EXCEPT ![c] = getSigningCertificates]
    /\ UNCHANGED <<page, selected, signatories, stored, created>>

(* The form is submitted, again if the user likes, with a signatory the search
   offers.  A bound: not every call in flight is a creation, so that there is a
   place for what its answer makes the page send. *)
Submit(c, x) ==
    /\ page = "add"
    /\ SignatoryOf[x] \in signatories.certificates \cup {None}
    /\ call[c] = None
    /\ \E d \in Call \ {c} : ~InFlight(d, "create")
    /\ call' = [call EXCEPT ![c] = createCertificate(x)]
    /\ UNCHANGED <<page, selected, signatories, stored, created>>

(* The api-server stores a certificate that is new to it *)
ServeCreate(c) ==
    /\ InFlight(c, "create") /\ ~call[c].served
    /\ call[c].id \notin stored
    /\ stored' = stored \cup {call[c].id}
    /\ call' = [call EXCEPT ![c].served = TRUE]
    /\ UNCHANGED <<page, selected, signatories, created>>

(* The api-server reads the authorities *)
ServeSigning(c) ==
    /\ InFlight(c, "signing") /\ ~call[c].served
    /\ call' = [call EXCEPT ![c] =
                   [getSigningCertificates EXCEPT !.certificates = stored \cap Authority, !.served = TRUE]]
    /\ UNCHANGED <<page, selected, signatories, stored, created>>

(* getCertificate: whatever was asked for is selected, whatever page is shown.
   Certificates never change: when it was served does not matter. *)
AnswerCertificate(c) ==
    /\ InFlight(c, "certificate")
    /\ selected' = select(call[c].id)
    /\ call' = [call EXCEPT ![c] = getCertificateSignatory(call[c].id)]
    /\ UNCHANGED <<page, signatories, stored, created>>

(* Mutant of AnswerSignatory: the effect of useSelectedCertificate depends on what
   is selected, and runs again *)
AnswerSignatoryAgain(c) ==
    /\ InFlight(c, "signatory")
    /\ selected' = [selected EXCEPT !.signatory = call[c].id]
    /\ call' = [call EXCEPT ![c] = IF page \in Certificate THEN getCertificate(page) ELSE None]
    /\ UNCHANGED <<page, signatories, stored, created>>

(* getCertificateSignatory: it becomes the authority of whatever is selected *)
AnswerSignatory(c) ==
    /\ InFlight(c, "signatory")
    /\ selected' = [selected EXCEPT !.signatory = call[c].id]
    /\ call' = [call EXCEPT ![c] = None]
    /\ UNCHANGED <<page, signatories, stored, created>>

(* addSigningCertificates *)
AnswerSigning(c) ==
    /\ InFlight(c, "signing") /\ call[c].served
    /\ signatories' = [loaded |-> TRUE, certificates |-> call[c].certificates]
    /\ call' = [call EXCEPT ![c] = None]
    /\ UNCHANGED <<page, selected, stored, created>>

(* Mutant of AnswerCreate: removeSigningCertificates is left out *)
AnswerCreateKeepsSignatories(c, d) ==
    LET x == call[c].id IN
    /\ InFlight(c, "create") /\ call[c].served
    /\ d # c /\ call[d] = None
    /\ selected' = select(x)
    /\ page' = x
    /\ call' = [call EXCEPT ![c] = getCertificateSignatory(x), ![d] = getCertificate(x)]
    /\ created' = created \cup {x}
    /\ UNCHANGED <<signatories, stored>>

(* createCertificate: the new certificate is selected and its signatory fetched,
   then onCreateSuccess goes to its page, from wherever the user is by now, where
   it is fetched again unless the user was there already, and empties the search *)
AnswerCreate(c, d) ==
    LET x == call[c].id IN
    /\ InFlight(c, "create") /\ call[c].served
    /\ d # c /\ call[d] = None
    /\ selected' = select(x)
    /\ page' = x
    /\ call' = [call EXCEPT ![c] = getCertificateSignatory(x),
                            ![d] = IF page = x THEN None ELSE getCertificate(x)]
    /\ signatories' = NoSignatories
    /\ created' = created \cup {x}
    /\ UNCHANGED stored

(* A refusal, a lost request or a lost answer: it is logged, nothing else *)
AnswerError(c) ==
    /\ call[c] # None
    /\ call' = [call EXCEPT ![c] = None]
    /\ UNCHANGED <<page, selected, signatories, stored, created>>

(* The page is loaded again: the store and the calls are gone, the route stays *)
Reload ==
    /\ selected' = NothingSelected
    /\ signatories' = NoSignatories
    /\ \E c \in Call : call' =
          [d \in Call |-> IF d = c /\ page \in Certificate THEN getCertificate(page) ELSE None]
    /\ UNCHANGED <<page, stored, created>>

Serve(c) == ServeCreate(c) \/ ServeSigning(c)

Answer(c) ==
    \/ AnswerCertificate(c)
    \/ AnswerSignatory(c)
    \/ AnswerSigning(c)
    \/ \E d \in Call : AnswerCreate(c, d)

(* What the user does *)
Click ==
    \/ \E c \in Call : OpenSearch(c) \/ FollowSignatory(c)
    \/ \E c \in Call, p \in Page : Navigate(c, p)
    \/ \E c \in Call, x \in Certificate : Submit(c, x)
    \/ Reload

Next ==
    \/ Click
    \/ \E c \in Call : Serve(c) \/ Answer(c) \/ AnswerError(c)

Spec == Init /\ [][Next]_vars

(* The promise of a call settles one way or the other *)
FairSpec == Spec /\ \A c \in Call : WF_vars(Serve(c) \/ Answer(c) \/ AnswerError(c))

-----------------------------------------------------------------------------
(* Properties *)

(* The page of one certificate shows another, or none, and nothing is on its way
   that would change that *)
Misled ==
    /\ page \in Certificate /\ selected.certificate # page
    /\ \A c \in Call : ~(InFlight(c, "certificate") /\ call[c].id = page)

(* However pages are visited, certificates created and calls overtaken, a page
   ends up with the wrong certificate in two ways only: the answer to an earlier
   visit arrives last, or its own call fails. *)
OnlyLateAnswersMislead ==
    [][~Misled /\ Misled' =>
         \E c \in Call :
            /\ InFlight(c, "certificate") /\ call'[c] # call[c]
            /\ call[c].id = page \/ selected'.certificate = call[c].id]_vars

(* The shown certificate has another authority than is shown with it, and the
   right one is not on its way *)
Misattributed ==
    /\ selected.certificate # None
    /\ selected.signatory # SignatoryOf[selected.certificate]
    /\ \A c \in Call :
          ~(InFlight(c, "signatory") /\ call[c].id = SignatoryOf[selected.certificate])

(* The two parts of `selected' are written by different answers: they part only
   when the signatory of a certificate selected before arrives late, or when the
   call for the right one fails. *)
OnlyLateAnswersMisattribute ==
    [][~Misattributed /\ Misattributed' =>
         \E c \in Call :
            /\ InFlight(c, "signatory") /\ call'[c] # call[c]
            /\ \/ call[c].id = SignatoryOf[selected.certificate]
               \/ selected'.signatory = call[c].id]_vars

(* The search is loaded, and lacks an authority this tab has created *)
Outdated ==
    signatories.loaded /\ ~(created \cap Authority \subseteq signatories.certificates)

(* The search offers what was created in the tab before, unless a list that was
   read before the creation arrives after it. *)
OnlyLateListIsOutdated ==
    [][~Outdated /\ Outdated' =>
         \E c \in Call :
            /\ InFlight(c, "signing") /\ call'[c] # call[c]
            /\ call[c].served /\ ~(created \cap Authority \subseteq call[c].certificates)]_vars

(* Answers trigger calls and calls are answered: when the user stops clicking,
   that comes to an end. *)
Settles == <>[][~Click]_vars => <>[](\A c \in Call : call[c] = None)
=============================================================================
