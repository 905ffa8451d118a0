-------------------------- MODULE NewCertificateForm --------------------------
(***************************************************************************)
(* The form at /certificates/add, with the search for an authority that is *)
(* part of it for some types.  A request is put together from the fields,  *)
(* the signatory the form remembers and nothing else: the id and the       *)
(* password that are seen are the search's own, and the search is gone     *)
(* whenever the type needs no signatory.                                   *)
(*                                                                         *)
(* The other fields depend on nothing and nothing depends on them until    *)
(* the form is submitted: what they hold is chosen then.  What is typed    *)
(* into the search without choosing an option stays in the search.         *)
(***************************************************************************)
EXTENDS CertificateStore

CONSTANTS
    KeySize,    \* a bound: the key sizes that are chosen
    Year        \* a bound: the years of validity that are typed

keySizes == {n * 1024 : n \in {1, 2, 4, 8}}

Algorithm == {"RSA"}

ASSUME KeySizeAssumption == KeySize \subseteq keySizes
ASSUME YearAssumption == Year \subseteq Nat \ {0}

(* What the fields hold that are chosen when the form is submitted; of texts, and
   of the password, only whether they are long enough.  0 is nothing chosen, and
   nothing typed: the number 1 the years start with is no string. *)
Fields ==
    [name: BOOLEAN, commonName: BOOLEAN, password: BOOLEAN,
     algorithm: Algorithm \cup {None}, keySize: KeySize \cup {0}, validFor: Year \cup {0}]

VARIABLE form    \* the state of the mounted form, or None

(* The states of NewCertificate and of SignatorySearch; id and password are None
   while the search is not there *)
FormState ==
    [type: CertType \cup {None},
     signatory: Signatory \cup {None},
     id: Certificate \cup {None},
     password: Password \cup {None}]

NewForm == [type |-> None, signatory |-> None, id |-> None, password |-> None]

ASSUME NoneFormAssumption == None \notin FormState

FormTypeOK == form \in FormState \cup {None}

showSignatorySearch(t) == t \in {"INTERMEDIATE_CA", "CERTIFICATE"}

SearchShown == form # None /\ showSignatorySearch(form.type)

-----------------------------------------------------------------------------
(* The request *)

(* In thousands: what is recommended for a type *)
suggestKeySize(t) ==
    CASE t = "ROOT_CA" -> 8192
      [] t = "INTERMEDIATE_CA" -> 4096
      [] OTHER -> 2048

(* A year has 365.25 days *)
yearsToDays(y) == (y * 1461) \div 4

(* Rendering a dropdown with one option chooses it *)
Dropdown(choices, chosen) ==
    IF \E o \in choices : choices = {o} THEN CHOOSE o \in choices : TRUE ELSE chosen

(* The rules of the fields *)
SubjectOptionsForm(f) == f.commonName
CertificateExpiryForm(f) == f.validFor # 0
RSAOptions(f) == f.keySize # 0

(* There is no key size to choose without an algorithm, and no rule then *)
AlgorithmOptions(f) == f.algorithm = "RSA" => RSAOptions(f)

(* They ask for no signatory *)
Rules(f) ==
    /\ form.type # None /\ f.name /\ f.password
    /\ f.algorithm = Dropdown(Algorithm, None) /\ f.algorithm # None
    /\ AlgorithmOptions(f)
    /\ CertificateExpiryForm(f)
    /\ SubjectOptionsForm(f)

onFinish(f) ==
    [type          |-> form.type,
     keySize       |-> IF f.keySize = 0 THEN suggestKeySize(form.type) ELSE f.keySize,
     expiresInDays |-> yearsToDays(f.validFor),
     signatory     |-> form.signatory]

-----------------------------------------------------------------------------
(* Events *)

(* mapCertificatesToOptions.  Names are unique in an account, and the options are
   those of one account, so findId finds what was chosen. *)
Offered == signatories.certificates

(* There is no field for the password before an authority was chosen *)
PasswordShown == SearchShown /\ form.id # None

(* selectCertificateType: the search appears, empty, or is gone, the signatory of
   the form stays *)
SelectType(c, t) ==
    /\ form # None /\ t # form.type
    /\ call[c] = None
    /\ IF showSignatorySearch(t)
       THEN /\ form' = [form EXCEPT !.type = t]
            /\ call' = [call EXCEPT ![c] =
                           IF SearchShown THEN None ELSE useFetchSignatories(account)]
       ELSE /\ form' = [form EXCEPT !.type = t, !.id = None, !.password = None]
            /\ UNCHANGED call
    /\ UNCHANGED <<account, items, signatories, options, selected>>

(* Mutant of onSelect: the form is told when a password is typed only *)
onSelectQuietly(x) ==
    /\ SearchShown /\ x \in Offered
    /\ form' = [form EXCEPT !.id = x]
    /\ UNCHANGED storeVars

(* An option is chosen *)
onSelect(x) ==
    /\ SearchShown /\ x \in Offered
    /\ form' = [form EXCEPT !.id = x,
                            !.signatory = IF form.password = None THEN @
                                          ELSE [id |-> x, password |-> form.password]]
    /\ UNCHANGED storeVars

(* Mutant of onTypePassword: the form is told of the first password only *)
onTypePasswordOnce(p) ==
    /\ PasswordShown /\ p # form.password
    /\ form' = [form EXCEPT !.password = p,
                            !.signatory = IF @ = None THEN [id |-> form.id, password |-> p] ELSE @]
    /\ UNCHANGED storeVars

(* The password is typed, or erased *)
onTypePassword(p) ==
    /\ PasswordShown /\ p # form.password
    /\ form' = [form EXCEPT !.password = p, !.signatory = [id |-> form.id, password |-> p]]
    /\ UNCHANGED storeVars

(* The button, once the rules are met.  A bound: one creation is in flight;
   CertificatePage has several. *)
Submit(c, f) ==
    /\ form # None /\ Rules(f)
    /\ call[c] = None
    /\ \A d \in Call : ~InFlight(d, "create") /\ ~InFlight(d, "abandoned")
    /\ call' = [call EXCEPT ![c] =
                   [op |-> "create", account |-> account, request |-> onFinish(f)]]
    /\ UNCHANGED <<account, items, signatories, options, selected, form>>

FormStep ==
    \/ \E c \in Call, t \in CertType : SelectType(c, t)
    \/ \E x \in Certificate : onSelect(x)
    \/ \E p \in Password \cup {None} : onTypePassword(p)
    \/ \E c \in Call, f \in Fields : Submit(c, f)

-----------------------------------------------------------------------------
(* Properties *)

(* What the user sees as chosen in the search *)
Chosen == [id |-> form.id, password |-> form.password]

(* Whichever is done first and however often either is changed, an authority and
   a password that are both given are what the request will carry: two handlers
   of the search each tell the form of the other's state. *)
CompleteSearchIsSubmitted ==
    SearchShown /\ form.id # None /\ form.password # None => form.signatory = Chosen

(* The request would carry a signatory that is not the one on the screen *)
SignatoryHidden == form # None /\ form.signatory # None /\ form.signatory # Chosen
=============================================================================
