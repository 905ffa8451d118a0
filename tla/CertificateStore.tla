--------------------------- MODULE CertificateStore ---------------------------
(***************************************************************************)
(* What the redux store of a tab holds about the certificates of whoever   *)
(* is logged in, the calls that fill it, and the answers.  The store       *)
(* outlives a logout: no reducer but that of the user listens to           *)
(* removeUser.  Nothing cancels a call: an answer is applied whatever page *)
(* is shown, and whoever is logged in, by then.                            *)
(*                                                                         *)
(* What matters here is whose certificates these are, and an account has   *)
(* the same ones all along: how the store follows what is created is the   *)
(* subject of CertificatePage.                                             *)
(***************************************************************************)
EXTENDS Naturals

CONSTANTS
    Account,
    Certificate,   \* those of all accounts
    Authority,     \* those of type ROOT_CA and INTERMEDIATE_CA
    AccountOf,     \* the account of a certificate
    Password,      \* a bound: the passwords that are typed; None is the empty one
    Call,          \* a bound: the calls that may be in flight at a time
    None           \* no account, no certificate, no value

ASSUME AuthorityAssumption == Authority \subseteq Certificate
ASSUME AccountOfAssumption == AccountOf \in [Certificate -> Account]
ASSUME NoneAssumption == None \notin Account \cup Certificate \cup Password

VARIABLES
    account,       \* the account of the user in the store, or None
    items,         \* state.certificates.certificates
    signatories,   \* state.certificates.signatories
    options,       \* whether state.certificates.options is there
    selected,      \* the id of state.certificates.selected.certificate, or None
    call           \* call[c]: the request in flight, or None

storeVars == <<account, items, signatories, options, selected, call>>

CertType == {"ROOT_CA", "INTERMEDIATE_CA", "CERTIFICATE"}

Certificates == [loaded: BOOLEAN, certificates: SUBSET Certificate]

(* An authority and what was typed as its password *)
Signatory == [id: Certificate, password: Password \cup {None}]

(* Texts are left out: they depend on nothing, and nothing depends on them *)
CertificateRequest ==
    [type: CertType, keySize: Nat, expiresInDays: Nat, signatory: Signatory \cup {None}]

(* A call, with the token of the account.  A creation is abandoned when the
   router whose page its answer would change is gone. *)
Request ==
    [op: {"list", "signing", "options"}, account: Account]
    \cup [op: {"certificate"}, account: Account, id: Certificate]
    \cup [op: {"create", "abandoned"}, account: Account, request: CertificateRequest]
    \cup [op: {"key"}, account: Account, id: Certificate, password: Password]

ASSUME NoneRequestAssumption == None \notin Request

StoreTypeOK ==
    /\ account \in Account \cup {None}
    /\ items \in Certificates
    /\ signatories \in Certificates
    /\ options \in BOOLEAN
    /\ selected \in Certificate \cup {None}
    /\ call \in [Call -> Request \cup {None}]

NothingLoaded == [loaded |-> FALSE, certificates |-> {}]

(* initStore: nobody is logged in, nothing is loaded *)
StoreInit ==
    /\ account = None
    /\ items = NothingLoaded
    /\ signatories = NothingLoaded
    /\ options = FALSE
    /\ selected = None
    /\ call = [c \in Call |-> None]

Of(a) == {x \in Certificate : AccountOf[x] = a}

InFlight(c, op) == call[c] # None /\ call[c].op = op

-----------------------------------------------------------------------------
(* What the effects of the hooks send for account a, or None *)

getCertificatesByAccountId(a) == [op |-> "list", account |-> a]
getSigningCertificates(a) == [op |-> "signing", account |-> a]
getCertificateOptions(a) == [op |-> "options", account |-> a]
getCertificate(a, x) == [op |-> "certificate", account |-> a, id |-> x]

(* Mutant of useFetchCertificates: it fetches once, as useFetchSignatories does *)
useFetchCertificatesOnce(a) ==
    IF items.loaded THEN None ELSE getCertificatesByAccountId(a)

useFetchCertificates(a) == getCertificatesByAccountId(a)

useFetchSignatories(a) == IF signatories.loaded THEN None ELSE getSigningCertificates(a)

(* The options are the same for all: those that come again change nothing, so
   that call is left out *)
useFetchCertificateOptions(a) == IF options THEN None ELSE getCertificateOptions(a)

-----------------------------------------------------------------------------
(* What the answers do to the store *)

Settle(c) == call' = [call EXCEPT ![c] = None]

addCertificates(S) == items' = [loaded |-> TRUE, certificates |-> S]
addSigningCertificates(S) == signatories' = [loaded |-> TRUE, certificates |-> S]
addOptions == options' = TRUE
selectCertificate(x) == selected' = x
removeSigningCertificates == signatories' = NothingLoaded

(* All that the account has, here and in AnswerSigning *)
AnswerCertificates(c) ==
    /\ InFlight(c, "list")
    /\ addCertificates(Of(call[c].account))
    /\ Settle(c)
    /\ UNCHANGED <<account, signatories, options, selected>>

AnswerSigning(c) ==
    /\ InFlight(c, "signing")
    /\ addSigningCertificates(Of(call[c].account) \cap Authority)
    /\ Settle(c)
    /\ UNCHANGED <<account, items, options, selected>>

AnswerOptions(c) ==
    /\ InFlight(c, "options")
    /\ addOptions
    /\ Settle(c)
    /\ UNCHANGED <<account, items, signatories, selected>>

(* What belongs to another account is refused *)
AnswerCertificate(c) ==
    /\ InFlight(c, "certificate") /\ AccountOf[call[c].id] = call[c].account
    /\ selectCertificate(call[c].id)
    /\ Settle(c)
    /\ UNCHANGED <<account, items, signatories, options>>

(* createCertificate selects what was created, x, and onCreateSuccess drops the
   authorities; the caller says where that leads and what it sends *)
AnswerCreate(c, x) ==
    /\ AccountOf[x] = call[c].account
    /\ selectCertificate(x)
    /\ removeSigningCertificates
    /\ UNCHANGED <<account, items, options>>

(* A call that is refused or lost is logged, nothing else.  That of a key is the
   dialog's affair. *)
FetchFails(c) ==
    /\ call[c] # None /\ call[c].op # "key"
    /\ Settle(c)
    /\ UNCHANGED <<account, items, signatories, options, selected>>
=============================================================================
