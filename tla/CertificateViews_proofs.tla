------------------------ MODULE CertificateViews_proofs ------------------------
(***************************************************************************)
(* Proofs about the pages that show certificates, for any number of        *)
(* accounts, certificates, passwords and calls in flight: what the form    *)
(* submits is what the search shows, and what is needed to hide a          *)
(* signatory, to call the right password wrong, or to leave the            *)
(* certificates of another account on the screen.                          *)
(***************************************************************************)
EXTENDS CertificateViews, TLAPS

USE AuthorityAssumption, AccountOfAssumption, NoneAssumption, NoneRequestAssumption,
    NoneFormAssumption, NoneDialogAssumption, RouteAssumption

(* Whoever creates something is logged in: a logout abandons creations. *)
CreationHasUser == \A c \in Call : InFlight(c, "create") => account # None

(* A search that appears is empty. *)
AbsentSearchIsEmpty == form # None /\ ~SearchShown => form.id = None /\ form.password = None

(* The inductive invariant *)
IInv == TypeOK /\ CreationHasUser /\ AbsentSearchIsEmpty /\ CompleteSearchIsSubmitted

-----------------------------------------------------------------------------
(* What the hooks send is well typed. *)
LEMMA SentTypes ==
    ASSUME NEW a \in Account
    PROVE  /\ getCertificatesByAccountId(a) \in Request /\ getCertificatesByAccountId(a).op = "list"
           /\ getSigningCertificates(a) \in Request /\ getSigningCertificates(a).op = "signing"
           /\ getCertificateOptions(a) \in Request /\ getCertificateOptions(a).op = "options"
           /\ \A x \in Certificate :
                getCertificate(a, x) \in Request /\ getCertificate(a, x).op = "certificate"
           /\ useFetchSignatories(a) \in Request \cup {None}
           /\ useFetchSignatories(a) # None => useFetchSignatories(a).op = "signing"
BY DEF getCertificatesByAccountId, getSigningCertificates, getCertificateOptions, getCertificate,
       useFetchSignatories, Request

(* So is what the effects of a page send when it appears. *)
LEMMA FetchedType ==
    ASSUME NEW a \in Account, NEW r \in Route
    PROVE  /\ Fetched(a, r) \in Request \cup {None}
           /\ Fetched(a, r) # None => Fetched(a, r).op \in {"list", "options", "certificate"}
           /\ r = "list" => Fetched(a, r) = getCertificatesByAccountId(a)
           /\ r \in Certificate => Fetched(a, r) = getCertificate(a, r)
BY SentTypes DEF Fetched, Route, useFetchCertificates, useFetchCertificateOptions

(* A call in flight has the fields of its operation. *)
LEMMA CallTypes ==
    ASSUME TypeOK, NEW c \in Call, call[c] # None
    PROVE  /\ call[c] \in Request /\ call[c].account \in Account
           /\ call[c].op \in {"certificate", "key"} => call[c].id \in Certificate
BY DEF TypeOK, StoreTypeOK, Request

(* The places of the calls when one of them is written. *)
LEMMA PlaceType ==
    ASSUME TypeOK, NEW c \in Call, NEW x \in Request \cup {None},
           call' = [call EXCEPT ![c] = x]
    PROVE  /\ call' \in [Call -> Request \cup {None}]
           /\ \A d \in Call : call'[d] = IF d = c THEN x ELSE call[d]
BY DEF TypeOK, StoreTypeOK

(* The calls that are left when the page changes. *)
LEMMA ForgottenType ==
    ASSUME TypeOK, NEW c \in Call, NEW r, NEW x \in Request \cup {None},
           call' = [Forgotten(r) EXCEPT ![c] = x]
    PROVE  /\ call' \in [Call -> Request \cup {None}]
           /\ call'[c] = x
           /\ \A d \in Call \ {c} :
                 call'[d] = IF r \notin Certificate /\ InFlight(d, "key") THEN None ELSE call[d]
BY DEF TypeOK, StoreTypeOK, Forgotten

(* A new tab has the types, and nothing to hide. *)
LEMMA InitIInv == Init => IInv
<1> SUFFICES ASSUME Init PROVE IInv
  OBVIOUS
<1>1. /\ account = None /\ route = "other" /\ form = None /\ dialog = None
      /\ ~options /\ options \in BOOLEAN
      /\ call = [c \in Call |-> None] /\ selected = None
      /\ items \in Certificates /\ signatories \in Certificates
  BY DEF Init, StoreInit, NothingLoaded, Certificates
<1>2. StoreTypeOK /\ FormTypeOK /\ DialogTypeOK
  BY <1>1 DEF StoreTypeOK, FormTypeOK, DialogTypeOK
<1>3. \A c \in Call, op \in {"key", "create"} : ~InFlight(c, op)
  BY <1>1 DEF InFlight
<1>4. TypeOK
  BY <1>1, <1>2, <1>3 DEF TypeOK, Route
<1>5. CreationHasUser /\ AbsentSearchIsEmpty /\ CompleteSearchIsSubmitted
  BY <1>1, <1>3 DEF CreationHasUser, AbsentSearchIsEmpty, CompleteSearchIsSubmitted, SearchShown
<1>6. QED
  BY <1>4, <1>5 DEF IInv

-----------------------------------------------------------------------------
(* A page that appears brings a new form, a dialog that is new or was there, and
   forgets the downloads of a page that is gone. *)
LEMMA ShowKeeps ==
    ASSUME IInv, NEW c \in Call, NEW a \in Account, NEW r \in Route, Show(c, a, r),
           account' = a, options' = options, items' = items,
           signatories' \in Certificates, selected' \in Certificate \cup {None}
    PROVE  IInv'
<1>1. /\ call' \in [Call -> Request \cup {None}] /\ call'[c] = Fetched(a, r)
      /\ \A d \in Call \ {c} :
            call'[d] = IF r \notin Certificate /\ InFlight(d, "key") THEN None ELSE call[d]
  BY FetchedType, ForgottenType DEF Show, IInv
<1>2. StoreTypeOK'
  BY <1>1 DEF StoreTypeOK, IInv, TypeOK
<1>3. FormTypeOK' /\ (form' # None <=> r = "add" /\ options) /\ form' \in {None, NewForm}
  BY DEF Show, FormAt, FormTypeOK, FormState, NewForm
<1>4. DialogTypeOK' /\ (dialog' # None <=> r \in Certificate)
  <2>1. NewDialog \in DialogState
    BY DEF DialogState, NewDialog
  <2>2. QED
    BY <2>1 DEF Show, DialogAt, DialogTypeOK, IInv, TypeOK
<1>5. \A d \in Call : InFlight(d, "key")' => dialog' # None
  <2>1. ASSUME NEW d \in Call, InFlight(d, "key")', r \notin Certificate PROVE FALSE
    BY <1>1, <2>1, FetchedType DEF InFlight
  <2>2. QED
    BY <1>4, <2>1
<1>6. TypeOK'
  BY <1>2, <1>3, <1>4, <1>5 DEF TypeOK, Show
<1>7. CreationHasUser'
  BY DEF CreationHasUser
<1>8. AbsentSearchIsEmpty' /\ CompleteSearchIsSubmitted'
  BY <1>3 DEF NewForm, AbsentSearchIsEmpty, CompleteSearchIsSubmitted, SearchShown
<1>9. QED
  BY <1>6, <1>7, <1>8 DEF IInv

(* An answer that leaves the page alone, and whatever is sent then. *)
LEMMA StoreKeeps ==
    ASSUME IInv, NEW c \in Call, NEW x \in Request \cup {None},
           call' = [call EXCEPT ![c] = x], UNCHANGED views, options' = options,
           x # None => x.op \notin {"key", "create"},
           items' \in Certificates, signatories' \in Certificates,
           selected' \in Certificate \cup {None},
           account' \in Account \cup {None}, account' = None => account = None
    PROVE  IInv'
<1>1. /\ call' \in [Call -> Request \cup {None}]
      /\ \A d \in Call : call'[d] = IF d = c THEN x ELSE call[d]
  BY PlaceType DEF IInv
<1>2. \A d \in Call, op \in {"key", "create"} : InFlight(d, op)' => InFlight(d, op)
  BY <1>1 DEF InFlight
<1>3. TypeOK'
  BY <1>1, <1>2 DEF IInv, TypeOK, StoreTypeOK, FormTypeOK, DialogTypeOK, views
<1>4. CreationHasUser'
  BY <1>2 DEF IInv, CreationHasUser
<1>5. AbsentSearchIsEmpty' /\ CompleteSearchIsSubmitted'
  BY DEF IInv, AbsentSearchIsEmpty, CompleteSearchIsSubmitted, SearchShown, Chosen, views
<1>6. QED
  BY <1>3, <1>4, <1>5 DEF IInv

-----------------------------------------------------------------------------
(* Logins, links, the back button, logout and reload. *)
LEMMA MovesKeep ==
    ASSUME IInv,
           \/ \E c \in Call, r \in Route : Goto(c, r)
           \/ \E c \in Call, a \in Account, r \in Route : Login(c, a, r)
           \/ \E c \in Call, a \in Account : SwitchUser(c, a)
           \/ Logout \/ Reload
    PROVE  IInv'
<1>1. ASSUME NEW c \in Call, NEW r \in Route, Goto(c, r) PROVE IInv'
  <2>1. account \in Account /\ Show(c, account, r)
    BY <1>1 DEF Goto, IInv, TypeOK, StoreTypeOK
  <2>2. QED
    BY <1>1, <2>1, ShowKeeps DEF Goto, IInv, TypeOK, StoreTypeOK
<1>2. ASSUME NEW c \in Call, NEW a \in Account, NEW r \in Route, Login(c, a, r) PROVE IInv'
  BY <1>2, ShowKeeps DEF Login, IInv, TypeOK, StoreTypeOK
<1>3. ASSUME NEW c \in Call, NEW a \in Account, SwitchUser(c, a) PROVE IInv'
  <2> DEFINE x == IF route = "list" THEN useFetchCertificates(a)
                  ELSE IF SearchShown THEN useFetchSignatories(a) ELSE None
  <2>1. x \in Request \cup {None} /\ (x # None => x.op \notin {"key", "create"})
    BY SentTypes DEF useFetchCertificates
  <2>2. /\ call' = [call EXCEPT ![c] = x] /\ account' = a
        /\ UNCHANGED <<items, signatories, options, selected, views>>
    BY <1>3 DEF SwitchUser
  <2> HIDE DEF x
  <2>3. QED
    BY <2>1, <2>2, StoreKeeps DEF IInv, TypeOK, StoreTypeOK
<1>4. CASE Logout
  <2>1. /\ account' = None /\ route = "other" /\ UNCHANGED <<items, signatories, options, selected, views>>
        /\ call' = [c \in Call |-> IF InFlight(c, "create") THEN [call[c] EXCEPT !.op = "abandoned"]
                                   ELSE call[c]]
    BY <1>4 DEF Logout
  <2>2. ASSUME NEW c \in Call, InFlight(c, "create")
        PROVE  /\ [call[c] EXCEPT !.op = "abandoned"] \in Request
               /\ [call[c] EXCEPT !.op = "abandoned"].op = "abandoned"
    BY <2>2, CallTypes DEF IInv, InFlight, Request
  <2>3. call' \in [Call -> Request \cup {None}]
    BY <2>1, <2>2 DEF IInv, TypeOK, StoreTypeOK
  <2>4. \A c \in Call : /\ ~InFlight(c, "create")'
                        /\ InFlight(c, "key")' => InFlight(c, "key")
    BY <2>1, <2>2 DEF InFlight
  <2>5. TypeOK'
    BY <2>1, <2>3, <2>4 DEF IInv, TypeOK, StoreTypeOK, FormTypeOK, DialogTypeOK, views
  <2>6. CreationHasUser' /\ AbsentSearchIsEmpty' /\ CompleteSearchIsSubmitted'
    BY <2>1, <2>4 DEF IInv, CreationHasUser, AbsentSearchIsEmpty, CompleteSearchIsSubmitted,
                      SearchShown, Chosen, views
  <2>7. QED
    BY <2>5, <2>6 DEF IInv
<1>5. CASE Reload
  <2>1. Init'
    BY <1>5 DEF Reload, Init, StoreInit
  <2>2. QED
    BY <2>1, InitIInv, PTL
<1>6. QED
  BY <1>1, <1>2, <1>3, <1>4, <1>5

(* Answers; that of a creation may bring another page. *)
LEMMA AnswersKeep == ASSUME IInv, NEW c \in Call, Answer(c) PROVE IInv'
<1> USE DEF Settle
<1>1. ASSUME UNCHANGED views,
             AnswerCertificates(c) \/ AnswerSigning(c) \/ AnswerCertificate(c) \/ FetchFails(c)
      PROVE  IInv'
  <2>1. /\ call' = [call EXCEPT ![c] = None] /\ options' = options /\ account' = account
        /\ account' \in Account \cup {None}
    BY <1>1 DEF AnswerCertificates, AnswerSigning, AnswerCertificate, FetchFails, IInv, TypeOK, StoreTypeOK
  <2>2. /\ items' \in Certificates /\ signatories' \in Certificates
        /\ selected' \in Certificate \cup {None}
    <3>1. items \in Certificates /\ signatories \in Certificates /\ selected \in Certificate \cup {None}
      BY DEF IInv, TypeOK, StoreTypeOK
    <3>2. \A S \in SUBSET Certificate : [loaded |-> TRUE, certificates |-> S] \in Certificates
      BY DEF Certificates
    <3>3. CASE AnswerCertificates(c)
      BY <3>1, <3>2, <3>3 DEF AnswerCertificates, addCertificates, Of
    <3>4. CASE AnswerSigning(c)
      BY <3>1, <3>2, <3>4 DEF AnswerSigning, addSigningCertificates, Of
    <3>5. CASE AnswerCertificate(c)
      BY <3>1, <3>5, CallTypes DEF AnswerCertificate, selectCertificate, InFlight, IInv
    <3>6. CASE FetchFails(c)
      BY <3>1, <3>6 DEF FetchFails
    <3>7. QED
      BY <1>1, <3>3, <3>4, <3>5, <3>6
  <2>3. QED
    BY <1>1, <2>1, <2>2, StoreKeeps
<1>2. CASE OptionsArrive(c)
  <2>1. /\ call' = [call EXCEPT ![c] = None] /\ options' /\ options' \in BOOLEAN
        /\ UNCHANGED <<account, items, signatories, selected, route, dialog>>
        /\ form' = IF form = None THEN FormAt(route, TRUE) ELSE form
    BY <1>2 DEF OptionsArrive, AnswerOptions, addOptions
  <2>2. /\ call' \in [Call -> Request \cup {None}]
        /\ \A d \in Call : call'[d] = IF d = c THEN None ELSE call[d]
    BY <2>1, PlaceType DEF IInv
  <2>3. \A d \in Call, op \in {"key", "create"} : InFlight(d, op)' => InFlight(d, op)
    BY <2>2 DEF InFlight
  <2>4. /\ form' \in FormState \cup {None} /\ (form' # None <=> route = "add")
        /\ form' = form \/ form' = NewForm
    <3>1. NewForm \in FormState
      BY DEF NewForm, FormState
    <3>2. QED
      BY <2>1, <3>1 DEF FormAt, IInv, TypeOK, FormTypeOK
  <2>5. TypeOK'
    BY <2>1, <2>2, <2>3, <2>4 DEF IInv, TypeOK, StoreTypeOK, FormTypeOK, DialogTypeOK
  <2>6. CreationHasUser'
    BY <2>1, <2>3 DEF IInv, CreationHasUser
  <2>7. AbsentSearchIsEmpty' /\ CompleteSearchIsSubmitted'
    BY <2>4 DEF IInv, AbsentSearchIsEmpty, CompleteSearchIsSubmitted, SearchShown, Chosen, NewForm
  <2>8. QED
    BY <2>5, <2>6, <2>7 DEF IInv
<1>3. ASSUME NEW x \in Certificate, CreateSucceeds(c, x) PROVE IInv'
  <2>1. /\ account \in Account /\ UNCHANGED <<account, items, options>>
        /\ selected' \in Certificate \cup {None} /\ signatories' \in Certificates
        /\ x \in Route /\ items \in Certificates
    BY <1>3 DEF CreateSucceeds, AnswerCreate, selectCertificate, removeSigningCertificates, NothingLoaded,
                Certificates, Route, IInv, TypeOK, StoreTypeOK, CreationHasUser
  <2>2. CASE route = x
    BY <1>3, <2>1, <2>2, StoreKeeps DEF CreateSucceeds
  <2>3. CASE route # x
    BY <1>3, <2>1, <2>3, ShowKeeps DEF CreateSucceeds
  <2>4. QED
    BY <2>2, <2>3
<1>4. ASSUME NEW x \in Certificate, AbandonedSucceeds(c, x) PROVE IInv'
  <2> DEFINE y == IF SearchShown THEN getSigningCertificates(account) ELSE None
  <2>1. SearchShown => account \in Account
    BY DEF SearchShown, IInv, TypeOK, StoreTypeOK
  <2>2. y \in Request \cup {None} /\ (y # None => y.op \notin {"key", "create"})
    BY <2>1, SentTypes
  <2>3. /\ call' = [call EXCEPT ![c] = y] /\ UNCHANGED <<account, items, options>> /\ UNCHANGED views
        /\ selected' \in Certificate \cup {None} /\ signatories' \in Certificates
        /\ account \in Account \cup {None} /\ items \in Certificates
    BY <1>4 DEF AbandonedSucceeds, AnswerCreate, selectCertificate, removeSigningCertificates, NothingLoaded,
                Certificates, IInv, TypeOK, StoreTypeOK
  <2> HIDE DEF y
  <2>4. QED
    BY <2>2, <2>3, StoreKeeps
<1>5. QED
  BY <1>1, <1>2, <1>3, <1>4 DEF Answer

-----------------------------------------------------------------------------
(* A request that is submitted is one: the rules and the bounds give its numbers. *)
LEMMA SubmittedType ==
    ASSUME IInv, form # None, NEW f \in Fields, Rules(f)
    PROVE  onFinish(f) \in CertificateRequest
<1>1. form \in FormState /\ form.type # None
  BY DEF IInv, TypeOK, FormTypeOK, Rules
<1>2. form.type \in CertType /\ form.signatory \in Signatory \cup {None}
  BY <1>1 DEF FormState
<1>3. f.keySize \in Nat /\ f.validFor \in Nat
  <2>1. f.keySize \in KeySize \cup {0} /\ f.validFor \in Year \cup {0}
    BY DEF Fields
  <2>2. ASSUME NEW k \in keySizes PROVE k \in Nat
    <3>1. PICK n \in {1, 2, 4, 8} : k = n * 1024
      BY DEF keySizes
    <3>2. n \in Nat
      OBVIOUS
    <3>3. QED
      BY <3>1, <3>2
  <2>3. f.validFor \in Nat
    <3>1. \A y \in Year : y \in Nat
      BY YearAssumption
    <3>2. f.validFor \in Year \/ f.validFor = 0
      BY <2>1
    <3>3. QED
      BY <3>1, <3>2
  <2>4. f.keySize \in keySizes \/ f.keySize = 0
    BY <2>1, KeySizeAssumption
  <2>5. QED
    BY <2>2, <2>3, <2>4
<1>4. suggestKeySize(form.type) \in Nat
  BY <1>2 DEF suggestKeySize, CertType
<1>5. yearsToDays(f.validFor) \in Nat
  BY <1>3 DEF yearsToDays
<1>6. QED
  BY <1>2, <1>3, <1>4, <1>5 DEF onFinish, CertificateRequest

(* While the form is there, somebody is logged in. *)
LEMMA FormHasUser ==
    ASSUME IInv, form # None
    PROVE  form \in FormState /\ account \in Account /\ dialog = None
BY DEF IInv, TypeOK, FormTypeOK, StoreTypeOK, Route

(* Every event of the form keeps the search and the request together. *)
LEMMA FormKeeps == ASSUME IInv, FormStep, UNCHANGED <<route, dialog>> PROVE IInv'
<1>1. form # None /\ form \in FormState /\ account \in Account
  <2>1. form # None
    BY DEF FormStep, SelectType, onSelect, onTypePassword, PasswordShown, SearchShown, Submit
  <2>2. QED
    BY <2>1, FormHasUser
<1>2. ASSUME form' \in FormState, UNCHANGED <<account, items, signatories, options, selected>>,
             call' \in [Call -> Request \cup {None}],
             \A d \in Call : InFlight(d, "key")' => InFlight(d, "key"),
             AbsentSearchIsEmpty', CompleteSearchIsSubmitted'
      PROVE  IInv'
  BY <1>1, <1>2 DEF IInv, TypeOK, StoreTypeOK, FormTypeOK, DialogTypeOK, CreationHasUser
<1>3. ASSUME NEW c \in Call, NEW x \in Request \cup {None}, call' = [call EXCEPT ![c] = x],
             x # None => x.op # "key"
      PROVE  /\ call' \in [Call -> Request \cup {None}]
             /\ \A d \in Call : InFlight(d, "key")' => InFlight(d, "key")
  BY <1>3, PlaceType DEF InFlight, IInv
<1>4. UNCHANGED storeVars => /\ UNCHANGED <<account, items, signatories, options, selected>>
                             /\ call' \in [Call -> Request \cup {None}]
                             /\ \A d \in Call : InFlight(d, "key")' => InFlight(d, "key")
  BY DEF storeVars, InFlight, IInv, TypeOK, StoreTypeOK
<1>5. AbsentSearchIsEmpty /\ CompleteSearchIsSubmitted
  BY DEF IInv
<1>6. ASSUME NEW c \in Call, NEW t \in CertType, SelectType(c, t) PROVE IInv'
  <2>1. UNCHANGED <<account, items, signatories, options, selected>>
    BY <1>6 DEF SelectType
  <2>2. CASE showSignatorySearch(t)
    <3> DEFINE x == IF SearchShown THEN None ELSE useFetchSignatories(account)
    <3>1. form' = [form EXCEPT !.type = t] /\ call' = [call EXCEPT ![c] = x]
      BY <1>6, <2>2 DEF SelectType
    <3>2. x \in Request \cup {None} /\ (x # None => x.op # "key")
      BY <1>1, SentTypes
    <3> HIDE DEF x
    <3>3. form' \in FormState /\ AbsentSearchIsEmpty' /\ CompleteSearchIsSubmitted'
      BY <1>1, <1>5, <2>2, <3>1
         DEF FormState, AbsentSearchIsEmpty, CompleteSearchIsSubmitted, SearchShown, Chosen
    <3>4. QED
      BY <1>2, <1>3, <2>1, <3>1, <3>2, <3>3
  <2>3. CASE ~showSignatorySearch(t)
    <3>1. form' = [form EXCEPT !.type = t, !.id = None, !.password = None] /\ UNCHANGED storeVars
      BY <1>6, <2>3 DEF SelectType, storeVars
    <3>2. form' \in FormState /\ AbsentSearchIsEmpty' /\ CompleteSearchIsSubmitted'
      BY <1>1, <3>1 DEF FormState, AbsentSearchIsEmpty, CompleteSearchIsSubmitted
    <3>3. QED
      BY <1>2, <1>4, <3>1, <3>2
  <2>4. QED
    BY <2>2, <2>3
<1>7. ASSUME NEW x \in Certificate, onSelect(x) PROVE IInv'
  <2> DEFINE s == IF form.password = None THEN form.signatory
                  ELSE [id |-> x, password |-> form.password]
  <2>1. SearchShown /\ UNCHANGED storeVars /\ form' = [form EXCEPT !.id = x, !.signatory = s]
    BY <1>7 DEF onSelect
  <2>2. s \in Signatory \cup {None}
    BY <1>1 DEF FormState, Signatory
  <2>3. form' \in FormState /\ AbsentSearchIsEmpty' /\ CompleteSearchIsSubmitted'
    BY <1>1, <2>1, <2>2 DEF FormState, AbsentSearchIsEmpty, CompleteSearchIsSubmitted, SearchShown, Chosen
  <2>4. QED
    BY <1>2, <1>4, <2>1, <2>3
<1>8. ASSUME NEW p \in Password \cup {None}, onTypePassword(p) PROVE IInv'
  <2>1. /\ SearchShown /\ form.id \in Certificate /\ UNCHANGED storeVars
        /\ form' = [form EXCEPT !.password = p, !.signatory = [id |-> form.id, password |-> p]]
    BY <1>1, <1>8 DEF onTypePassword, PasswordShown, FormState
  <2>2. form' \in FormState /\ AbsentSearchIsEmpty' /\ CompleteSearchIsSubmitted'
    BY <1>1, <2>1 DEF FormState, Signatory, AbsentSearchIsEmpty, CompleteSearchIsSubmitted, SearchShown, Chosen
  <2>3. QED
    BY <1>2, <1>4, <2>1, <2>2
<1>9. ASSUME NEW c \in Call, NEW f \in Fields, Submit(c, f) PROVE IInv'
  <2> DEFINE x == [op |-> "create", account |-> account, request |-> onFinish(f)]
  <2>1. x \in Request /\ x.op # "key"
    BY <1>1, <1>9, SubmittedType DEF Submit, Request
  <2>2. /\ call' = [call EXCEPT ![c] = x] /\ form' = form
        /\ UNCHANGED <<account, items, signatories, options, selected>>
    BY <1>9 DEF Submit
  <2> HIDE DEF x
  <2>3. AbsentSearchIsEmpty' /\ CompleteSearchIsSubmitted'
    BY <1>5, <2>2 DEF AbsentSearchIsEmpty, CompleteSearchIsSubmitted, SearchShown, Chosen
  <2>4. QED
    BY <1>1, <1>2, <1>3, <2>1, <2>2, <2>3
<1>10. QED
  BY <1>6, <1>7, <1>8, <1>9 DEF FormStep

-----------------------------------------------------------------------------
(* Every event of the dialog keeps the types; the rest does not change. *)
LEMMA DialogKeeps == ASSUME IInv, DialogStep, UNCHANGED <<route, form>> PROVE IInv'
<1>1. dialog # None /\ dialog \in DialogState
  <2>1. dialog # None
    BY DEF DialogStep, DownloadPrivateKeyButton, onCancel, onChange, onDownload, downloadSucceeds,
           downloadFails, IInv, TypeOK
  <2>2. QED
    BY <2>1 DEF IInv, TypeOK, DialogTypeOK
<1>2. ASSUME dialog' \in DialogState, UNCHANGED <<account, items, signatories, options, selected>>,
             call' \in [Call -> Request \cup {None}],
             \A d \in Call : InFlight(d, "create")' => InFlight(d, "create")
      PROVE  IInv'
  <2>1. TypeOK'
    BY <1>1, <1>2 DEF IInv, TypeOK, StoreTypeOK, FormTypeOK, DialogTypeOK
  <2>2. CreationHasUser' /\ AbsentSearchIsEmpty' /\ CompleteSearchIsSubmitted'
    BY <1>2 DEF IInv, CreationHasUser, AbsentSearchIsEmpty, CompleteSearchIsSubmitted, SearchShown, Chosen
  <2>3. QED
    BY <2>1, <2>2 DEF IInv
<1>3. ASSUME NEW c \in Call, NEW x \in Request \cup {None}, call' = [call EXCEPT ![c] = x],
             x # None => x.op # "create"
      PROVE  /\ call' \in [Call -> Request \cup {None}]
             /\ \A d \in Call : InFlight(d, "create")' => InFlight(d, "create")
  BY <1>3, PlaceType DEF InFlight, IInv
<1>4. UNCHANGED storeVars => /\ UNCHANGED <<account, items, signatories, options, selected>>
                             /\ call' \in [Call -> Request \cup {None}]
                             /\ \A d \in Call : InFlight(d, "create")' => InFlight(d, "create")
  BY DEF storeVars, InFlight, IInv, TypeOK, StoreTypeOK
<1>5. /\ \A open \in BOOLEAN : setModalOpen(open) => dialog' \in DialogState
      /\ \A show \in BOOLEAN : setShowError(show) => dialog' \in DialogState
  BY <1>1 DEF setModalOpen, setShowError, DialogState
<1>6. CASE DownloadPrivateKeyButton
  BY <1>2, <1>4, <1>5, <1>6 DEF DownloadPrivateKeyButton
<1>7. CASE onCancel
  BY <1>2, <1>4, <1>5, <1>7 DEF onCancel
<1>8. ASSUME NEW p \in Password \cup {None}, onChange(p) PROVE IInv'
  <2>1. dialog' \in DialogState
    BY <1>1, <1>8 DEF onChange, DialogState
  <2>2. QED
    BY <1>2, <1>4, <1>8, <2>1 DEF onChange
<1>9. ASSUME NEW c \in Call, onDownload(c) PROVE IInv'
  <2> DEFINE x == [op |-> "key", account |-> account, id |-> selected, password |-> dialog.password]
  <2>1. /\ selected # None /\ dialog.password # None /\ call' = [call EXCEPT ![c] = x]
        /\ UNCHANGED <<account, items, signatories, options, selected, dialog>>
    BY <1>9 DEF onDownload, downloadPrivateKey
  <2>2. account \in Account /\ selected \in Certificate /\ dialog.password \in Password
    BY <1>1, <2>1 DEF IInv, TypeOK, StoreTypeOK, DialogState
  <2>3. x \in Request /\ x.op # "create"
    BY <2>2 DEF Request
  <2> HIDE DEF x
  <2>4. QED
    BY <1>1, <1>2, <1>3, <2>1, <2>3
<1>10. ASSUME NEW c \in Call, downloadSucceeds(c) \/ downloadFails(c) PROVE IInv'
  <2>1. /\ call' = [call EXCEPT ![c] = None] /\ dialog' \in DialogState
        /\ UNCHANGED <<account, items, signatories, options, selected>>
    BY <1>5, <1>10 DEF downloadSucceeds, downloadFails, downloadCallback, Settle
  <2>2. QED
    BY <1>2, <1>3, <2>1
<1>11. QED
  BY <1>6, <1>7, <1>8, <1>9, <1>10 DEF DialogStep

(* Every way to another page is a Goto. *)
LEMMA LinksGo ==
    ASSUME IInv, NEW c \in Call,
           SideMenu(c) \/ SelectRow(c) \/ CertificateListTitle(c) \/ BackOrForward(c)
    PROVE  \E r \in Route : Goto(c, r)
<1>1. {"list", "add", "other"} \subseteq Route /\ items.certificates \subseteq Route
  BY DEF Route, IInv, TypeOK, StoreTypeOK, Certificates
<1>2. QED
  BY <1>1 DEF SideMenu, SelectRow, CertificateListTitle, BackOrForward

(* The events, with the links taken together *)
LEMMA NextCases ==
    ASSUME IInv, Next
    PROVE  \/ \E c \in Call : Answer(c)
           \/ \E c \in Call, r \in Route : Goto(c, r)
           \/ \E c \in Call, a \in Account, r \in Route : Login(c, a, r)
           \/ \E c \in Call, a \in Account : SwitchUser(c, a)
           \/ Logout \/ Reload
           \/ FormStep /\ UNCHANGED <<route, dialog>>
           \/ DialogStep /\ UNCHANGED <<route, form>>
BY LinksGo DEF Next

(* Every event preserves the invariant. *)
LEMMA NextIInv == IInv /\ [Next]_vars => IInv'
<1> SUFFICES ASSUME IInv, [Next]_vars PROVE IInv'
  OBVIOUS
<1>1. CASE Next
  BY <1>1, NextCases, AnswersKeep, MovesKeep, FormKeeps, DialogKeeps
<1>2. CASE UNCHANGED vars
  BY <1>2 DEF vars, storeVars, views, IInv, TypeOK, StoreTypeOK, FormTypeOK, DialogTypeOK, InFlight,
              CreationHasUser, AbsentSearchIsEmpty, CompleteSearchIsSubmitted, SearchShown, Chosen
<1>3. QED
  BY <1>1, <1>2

(* The invariant holds throughout. *)
LEMMA Invariance == Spec => []IInv
<1>1. QED
  BY InitIInv, NextIInv, PTL DEF Spec

-----------------------------------------------------------------------------
(* Store, calls, route, form and dialog keep their types, and form and dialog are
   there with their pages only. *)
THEOREM TypeCorrect == Spec => []TypeOK
<1>1. IInv => TypeOK
  BY DEF IInv
<1>2. QED
  BY <1>1, Invariance, PTL

(* An authority and a password that are both given are what is submitted. *)
THEOREM SearchIsSubmitted == Spec => []CompleteSearchIsSubmitted
<1>1. IInv => CompleteSearchIsSubmitted
  BY DEF IInv
<1>2. QED
  BY <1>1, Invariance, PTL

-----------------------------------------------------------------------------
(* A page that appears brings a form in which nothing is hidden; otherwise only an
   event of the form touches it. *)
LEMMA FormElsewhere ==
    ASSUME IInv, Next, ~FormStep, form' # form
    PROVE  form' \in {None, NewForm}
<1>1. \A c \in Call : \A a, r : Show(c, a, r) => form' \in {None, NewForm}
  BY DEF Show, FormAt
<1>2. CASE \E c \in Call : Answer(c)
  BY <1>1, <1>2 DEF Answer, OptionsArrive, FormAt, CreateSucceeds, AbandonedSucceeds, views
<1>3. QED
  BY <1>1, <1>2, NextCases DEF Goto, Login, SwitchUser, Logout, Reload, views

(* A step after which the request carries a signatory the user does not see. *)
LEMMA HidingStep ==
    ASSUME IInv, [Next]_vars, ~SignatoryHidden, SignatoryHidden'
    PROVE  \/ form'.type = "ROOT_CA"
           \/ form'.password = None /\ form'.id \notin {None, form.id}
<1>1. form' # None /\ form'.signatory # None /\ form' # form
  BY DEF SignatoryHidden, Chosen
<1>2. Next
  BY <1>1 DEF vars, views
<1>3. FormStep
  <2>1. NewForm.signatory = None
    BY DEF NewForm
  <2>2. QED
    BY <1>1, <1>2, <2>1, FormElsewhere
<1>4. form # None /\ form \in FormState
  <2>1. form # None
    BY <1>3 DEF FormStep, SelectType, onSelect, onTypePassword, PasswordShown, SearchShown, Submit
  <2>2. QED
    BY <2>1, FormHasUser
<1>5. ASSUME NEW c \in Call, NEW t \in CertType, SelectType(c, t)
      PROVE  form'.type = "ROOT_CA"
  <2>1. CASE showSignatorySearch(t)
    <3>1. form' = [form EXCEPT !.type = t]
      BY <1>5, <2>1 DEF SelectType
    <3>2. QED
      BY <1>4, <3>1 DEF FormState, SignatoryHidden, Chosen
  <2>2. CASE ~showSignatorySearch(t)
    <3>1. form' = [form EXCEPT !.type = t, !.id = None, !.password = None] /\ t = "ROOT_CA"
      BY <1>5, <2>2 DEF SelectType, showSignatorySearch, CertType
    <3>2. QED
      BY <1>4, <3>1 DEF FormState
  <2>3. QED
    BY <2>1, <2>2
<1>6. ASSUME NEW x \in Certificate, onSelect(x)
      PROVE  form'.password = None /\ form'.id \notin {None, form.id}
  <2>1. CASE form.password # None
    <3>1. form' = [form EXCEPT !.id = x, !.signatory = [id |-> x, password |-> form.password]]
      BY <1>6, <2>1 DEF onSelect
    <3>2. QED
      BY <1>4, <3>1 DEF FormState, SignatoryHidden, Chosen
  <2>2. CASE form.password = None
    <3>1. form' = [form EXCEPT !.id = x, !.signatory = form.signatory]
      BY <1>6, <2>2 DEF onSelect
    <3>2. /\ form'.type = form.type /\ form'.signatory = form.signatory
          /\ form'.id = x /\ form'.password = None
      BY <1>4, <2>2, <3>1 DEF FormState
    <3>3. x # form.id
      BY <1>1, <1>4, <2>2, <3>2 DEF SignatoryHidden, Chosen
    <3>4. QED
      BY <3>2, <3>3
  <2>3. QED
    BY <2>1, <2>2
<1>7. ASSUME NEW p \in Password \cup {None}, onTypePassword(p) PROVE FALSE
  <2>1. form' = [form EXCEPT !.password = p, !.signatory = [id |-> form.id, password |-> p]]
    BY <1>7 DEF onTypePassword
  <2>2. QED
    BY <1>4, <2>1 DEF FormState, SignatoryHidden, Chosen
<1>8. QED
  BY <1>1, <1>3, <1>5, <1>6, <1>7 DEF FormStep, Submit

(* Only a change of the type, or of the authority without its password, hides a
   signatory that will be submitted. *)
THEOREM OnlyTypeChangesHide == Spec => OnlyTypeChangesHideSignatory
<1>1. IInv /\ [Next]_vars =>
        [~SignatoryHidden /\ SignatoryHidden' =>
           \/ form'.type = "ROOT_CA"
           \/ form'.password = None /\ form'.id \notin {None, form.id}]_vars
  BY HidingStep
<1>2. QED
  BY <1>1, Invariance, PTL DEF Spec, OnlyTypeChangesHideSignatory

-----------------------------------------------------------------------------
(* A step after which the right password is called wrong. *)
LEMMA AccusingStep ==
    ASSUME IInv, [Next]_vars, ~Accused, Accused', selected' = selected
    PROVE  \E c \in Call : InFlight(c, "key") /\ call'[c] = None
<1>1. /\ dialog' # None /\ dialog'.showError /\ dialog' # dialog
      /\ selected # None /\ dialog'.password = PasswordOf[selected]
  BY DEF Accused
<1>2. ~NewDialog.showError
  BY DEF NewDialog
<1>3. \A c \in Call : \A a, r : ~Show(c, a, r)
  BY <1>1, <1>2 DEF Show, DialogAt
<1>4. Next
  BY <1>1 DEF vars, views
<1>5. DialogStep
  <2>1. ASSUME NEW c \in Call, Answer(c) PROVE FALSE
    BY <1>1, <1>3, <2>1 DEF Answer, OptionsArrive, CreateSucceeds, AbandonedSucceeds, views
  <2>2. QED
    BY <1>1, <1>3, <1>4, <2>1, NextCases DEF Goto, Login, SwitchUser, Logout, Reload, views
<1>6. dialog # None /\ dialog \in DialogState
  <2>1. dialog # None
    BY <1>5 DEF DialogStep, DownloadPrivateKeyButton, onCancel, onChange, onDownload, downloadSucceeds,
                downloadFails, IInv, TypeOK
  <2>2. QED
    BY <2>1 DEF IInv, TypeOK, DialogTypeOK
<1>7. ASSUME NEW open, setModalOpen(open) PROVE FALSE
  <2>1. dialog'.showError = dialog.showError /\ dialog'.password = dialog.password
    BY <1>6, <1>7 DEF setModalOpen, DialogState
  <2>2. QED
    BY <1>1, <1>6, <2>1 DEF Accused
<1>8. ASSUME NEW p \in Password \cup {None}, onChange(p) PROVE FALSE
  <2>1. dialog' = [dialog EXCEPT !.password = p, !.showError = FALSE]
    BY <1>8 DEF onChange
  <2>2. QED
    BY <1>1, <1>6, <2>1 DEF DialogState
<1>9. PICK c \in Call : downloadSucceeds(c) \/ downloadFails(c)
  BY <1>1, <1>5, <1>7, <1>8 DEF DialogStep, DownloadPrivateKeyButton, onCancel, onDownload
<1>10. InFlight(c, "key") /\ call' = [call EXCEPT ![c] = None]
  BY <1>9 DEF downloadSucceeds, downloadFails, Settle
<1>11. QED
  BY <1>10 DEF IInv, TypeOK, StoreTypeOK

(* Typing, cancelling and opening the dialog again never call the right password
   wrong. *)
THEOREM OnlyLateAnswersAccuseAlways == Spec => OnlyLateAnswersAccuse
<1>1. IInv /\ [Next]_vars =>
        [~Accused /\ Accused' =>
           \/ \E c \in Call : InFlight(c, "key") /\ call'[c] = None
           \/ selected' # selected]_vars
  BY AccusingStep
<1>2. QED
  BY <1>1, Invariance, PTL DEF Spec, OnlyLateAnswersAccuse

-----------------------------------------------------------------------------
(* A page that shows something asks for what it shows. *)
LEMMA ShownIsAsked ==
    ASSUME IInv, NEW c \in Call, NEW a \in Account, NEW r \in Route, Show(c, a, r), account' = a
    PROVE  ~ForeignList' /\ ~ForeignCertificate'
<1>1. route' = r /\ call'[c] = Fetched(a, r)
  BY FetchedType, ForgottenType DEF Show, IInv
<1>2. r = "list" => call'[c] = getCertificatesByAccountId(a)
  BY <1>1, FetchedType
<1>3. r \in Certificate => call'[c] = getCertificate(a, r)
  BY <1>1, FetchedType
<1>4. ~ForeignList'
  BY <1>1, <1>2 DEF ForeignList, getCertificatesByAccountId
<1>5. ~ForeignCertificate'
  BY <1>1, <1>3 DEF ForeignCertificate, getCertificate
<1>6. QED
  BY <1>4, <1>5

(* The events that may leave something foreign on the screen: those that show no
   page and do not log anybody out *)
LEMMA ForeignCases ==
    ASSUME IInv, [Next]_vars, ForeignList' \/ ForeignCertificate'
    PROVE  \/ \E c \in Call :
                /\ UNCHANGED views
                /\ AnswerCertificates(c) \/ AnswerSigning(c) \/ AnswerCertificate(c) \/ FetchFails(c)
           \/ \E c \in Call : OptionsArrive(c)
           \/ \E c \in Call, x \in Certificate :
                /\ InFlight(c, "create") /\ AnswerCreate(c, x) /\ Settle(c) /\ UNCHANGED views
           \/ \E c \in Call, x \in Certificate : AbandonedSucceeds(c, x)
           \/ \E c \in Call, a \in Account : SwitchUser(c, a)
           \/ FormStep /\ UNCHANGED <<route, dialog>>
           \/ DialogStep /\ UNCHANGED <<route, form>>
           \/ UNCHANGED vars
<1> USE DEF ForeignList, ForeignCertificate
<1>1. \A x \in Certificate : x \in Route /\ x \notin {"list", "other"}
  BY DEF Route
<1>2. ASSUME NEW c \in Call, NEW r \in Route, Goto(c, r) PROVE FALSE
  <2>1. account \in Account /\ Show(c, account, r) /\ account' = account
    BY <1>2 DEF Goto, IInv, TypeOK, StoreTypeOK
  <2> HIDE DEF ForeignList, ForeignCertificate
  <2>2. QED
    BY <2>1, ShownIsAsked
<1>3. ASSUME NEW c \in Call, NEW a \in Account, NEW r \in Route, Login(c, a, r) PROVE FALSE
  <2>1. Show(c, a, r) /\ account' = a
    BY <1>3 DEF Login
  <2> HIDE DEF ForeignList, ForeignCertificate
  <2>2. QED
    BY <2>1, ShownIsAsked
<1>4. ~Logout
  BY <1>1 DEF Logout, views
<1>5. ~Reload
  BY <1>1 DEF Reload
<1>6. ASSUME NEW c \in Call, NEW x \in Certificate, CreateSucceeds(c, x), route # x PROVE FALSE
  <2>1. account \in Account /\ Show(c, account, x) /\ account' = account
    BY <1>6 DEF CreateSucceeds, AnswerCreate, IInv, TypeOK, StoreTypeOK, CreationHasUser
  <2> HIDE DEF ForeignList, ForeignCertificate
  <2>2. QED
    BY <1>1, <2>1, ShownIsAsked
<1> HIDE DEF ForeignList, ForeignCertificate
<1>7. ASSUME Next
      PROVE  \/ \E c \in Call : Answer(c)
             \/ \E c \in Call, a \in Account : SwitchUser(c, a)
             \/ FormStep /\ UNCHANGED <<route, dialog>>
             \/ DialogStep /\ UNCHANGED <<route, form>>
  BY <1>2, <1>3, <1>4, <1>5, <1>7, NextCases
<1>8. QED
  BY <1>6, <1>7 DEF Answer, CreateSucceeds

(* A step after which the list shows the certificates of another account for good. *)
LEMMA ForeignListStep ==
    ASSUME IInv, [Next]_vars, ~ForeignList, ForeignList'
    PROVE  \E c \in Call : InFlight(c, "list") /\ call'[c] = None
<1> DEFINE q == getCertificatesByAccountId(account)
<1>1. /\ route' = "list" /\ ~(items'.certificates \subseteq Of(account'))
      /\ \A c \in Call : call'[c] # getCertificatesByAccountId(account')
  BY DEF ForeignList, getCertificatesByAccountId, Of
<1>2. SUFFICES ASSUME \A c \in Call : InFlight(c, "list") => call'[c] # None PROVE FALSE
  OBVIOUS
<1>3. ASSUME route = "list", account' = account, items' = items,
             \A c \in Call : call[c] = q => call'[c] = q
      PROVE  FALSE
  BY <1>1, <1>3 DEF ForeignList
<1>4. q.op = "list" /\ (account \in Account => q # None)
  BY SentTypes DEF getCertificatesByAccountId
<1>5. route = "list" => account \in Account /\ form = None /\ dialog = None
  BY DEF IInv, TypeOK, StoreTypeOK, Route
<1>6. ASSUME NEW c \in Call, NEW x, call' = [call EXCEPT ![c] = x]
      PROVE  \A d \in Call : call'[d] = IF d = c THEN x ELSE call[d]
  BY <1>6 DEF IInv, TypeOK, StoreTypeOK
<1>7. ASSUME NEW c \in Call, call' = [call EXCEPT ![c] = None]
      PROVE  ~InFlight(c, "list")
  BY <1>2, <1>6, <1>7
<1>8. ASSUME NEW c \in Call, UNCHANGED views,
             AnswerCertificates(c) \/ AnswerSigning(c) \/ AnswerCertificate(c) \/ FetchFails(c)
      PROVE  FALSE
  <2>1. call' = [call EXCEPT ![c] = None] /\ route = "list"
    BY <1>1, <1>8 DEF AnswerCertificates, AnswerSigning, AnswerCertificate, FetchFails, Settle, views
  <2>2. ~InFlight(c, "list")
    BY <1>7, <2>1
  <2>3. account' = account /\ items' = items
    BY <1>8, <2>2 DEF AnswerCertificates, AnswerSigning, AnswerCertificate, FetchFails
  <2>4. \A d \in Call : call[d] = q => call'[d] = q
    BY <1>4, <1>5, <1>6, <2>1, <2>2 DEF InFlight
  <2>5. QED
    BY <1>3, <2>1, <2>3, <2>4
<1>9. ASSUME NEW c \in Call, OptionsArrive(c) PROVE FALSE
  <2>1. /\ call' = [call EXCEPT ![c] = None] /\ route = "list" /\ InFlight(c, "options")
        /\ account' = account /\ items' = items
    BY <1>1, <1>9 DEF OptionsArrive, AnswerOptions, Settle
  <2>2. \A d \in Call : call[d] = q => call'[d] = q
    BY <1>4, <1>6, <2>1 DEF InFlight
  <2>3. QED
    BY <1>3, <2>1, <2>2
<1>10. ASSUME NEW c \in Call, NEW x \in Certificate,
              \/ InFlight(c, "create") /\ AnswerCreate(c, x) /\ Settle(c) /\ UNCHANGED views
              \/ AbandonedSucceeds(c, x)
       PROVE  FALSE
  <2>1. route = "list" /\ account' = account /\ items' = items /\ call[c] # q
    BY <1>1, <1>4, <1>10 DEF AbandonedSucceeds, AnswerCreate, InFlight, views
  <2>2. \E y : call' = [call EXCEPT ![c] = y]
    BY <1>10 DEF AbandonedSucceeds, Settle
  <2>3. \A d \in Call : call[d] = q => call'[d] = q
    BY <1>6, <2>1, <2>2
  <2>4. QED
    BY <1>3, <2>1, <2>3
<1>11. ASSUME NEW c \in Call, NEW a \in Account, SwitchUser(c, a) PROVE FALSE
  <2>1. route = "list" /\ account' = a
    BY <1>1, <1>11 DEF SwitchUser, views
  <2>2. call' = [call EXCEPT ![c] = getCertificatesByAccountId(a)]
    BY <1>11, <2>1 DEF SwitchUser, useFetchCertificates
  <2>3. call'[c] = getCertificatesByAccountId(a)
    BY <2>2 DEF IInv, TypeOK, StoreTypeOK
  <2>4. QED
    BY <1>1, <2>1, <2>3
<1>12. CASE FormStep /\ UNCHANGED <<route, dialog>>
  BY <1>1, <1>5, <1>12
     DEF FormStep, SelectType, onSelect, onTypePassword, PasswordShown, SearchShown, Submit
<1>13. CASE DialogStep /\ UNCHANGED <<route, form>>
  <2>1. route = "list" /\ dialog = None /\ \A c \in Call : ~InFlight(c, "key")
    BY <1>1, <1>5, <1>13 DEF IInv, TypeOK
  <2>2. QED
    BY <1>13, <2>1 DEF DialogStep, DownloadPrivateKeyButton, onCancel, onChange, onDownload,
                       downloadSucceeds, downloadFails
<1>14. CASE UNCHANGED vars
  BY <1>1, <1>3, <1>14 DEF vars, storeVars, views
<1>15. QED
  BY <1>8, <1>9, <1>10, <1>11, <1>12, <1>13, <1>14, ForeignCases

(* A step after which the page shows the certificate of another account for good. *)
LEMMA ForeignCertificateStep ==
    ASSUME IInv, [Next]_vars, ~ForeignCertificate, ForeignCertificate'
    PROVE  \/ \E c \in Call : /\ call[c] # None /\ call'[c] = None
                              /\ call[c].op \in {"certificate", "create", "abandoned"}
           \/ account' \notin {None, account}
<1> DEFINE q == getCertificate(account, route)
<1>1. /\ route' \in Certificate /\ selected' # None /\ AccountOf[selected'] # account'
      /\ \A c \in Call : call'[c] # getCertificate(account', route')
  BY DEF ForeignCertificate, getCertificate
<1>2. SUFFICES ASSUME \A c \in Call : call[c] # None /\ call'[c] = None =>
                         call[c].op \notin {"certificate", "create", "abandoned"}
               PROVE  account' \notin {None, account}
  OBVIOUS
<1>3. ASSUME route' = route, account' = account, selected' = selected,
             \A c \in Call : call[c] = q => call'[c] = q
      PROVE  FALSE
  BY <1>1, <1>3 DEF ForeignCertificate
<1>4. route' = route => /\ account \in Account /\ form = None
                        /\ q.op = "certificate" /\ q # None
  BY <1>1, SentTypes DEF IInv, TypeOK, StoreTypeOK, getCertificate
<1>5. ASSUME NEW c \in Call, NEW x, call' = [call EXCEPT ![c] = x]
      PROVE  \A d \in Call : call'[d] = IF d = c THEN x ELSE call[d]
  BY <1>5 DEF IInv, TypeOK, StoreTypeOK
<1>6. ASSUME NEW c \in Call, call' = [call EXCEPT ![c] = None]
      PROVE  \A op \in {"certificate", "create", "abandoned"} : ~InFlight(c, op)
  <2>1. call'[c] = None
    BY <1>6 DEF IInv, TypeOK, StoreTypeOK
  <2>2. call[c] # None => call[c].op \notin {"certificate", "create", "abandoned"}
    BY <1>2, <2>1
  <2>3. QED
    BY <2>2 DEF InFlight
<1>7. ASSUME NEW c \in Call, call' = [call EXCEPT ![c] = None], route' = route,
             account' = account, selected' = selected
      PROVE  FALSE
  <2>1. call[c] # q
    BY <1>4, <1>6, <1>7 DEF InFlight
  <2>2. \A d \in Call : call[d] = q => call'[d] = q
    BY <1>5, <1>7, <2>1
  <2>3. QED
    BY <1>3, <1>7, <2>2
<1>8. ASSUME NEW c \in Call, UNCHANGED views,
             AnswerCertificates(c) \/ AnswerSigning(c) \/ AnswerCertificate(c) \/ FetchFails(c)
      PROVE  FALSE
  <2>1. call' = [call EXCEPT ![c] = None] /\ route' = route /\ account' = account
    BY <1>8 DEF AnswerCertificates, AnswerSigning, AnswerCertificate, FetchFails, Settle, views
  <2>2. selected' = selected
    BY <1>6, <1>8, <2>1 DEF AnswerCertificates, AnswerSigning, AnswerCertificate, FetchFails
  <2>3. QED
    BY <1>7, <2>1, <2>2
<1>9. ASSUME NEW c \in Call, OptionsArrive(c) PROVE FALSE
  <2>1. /\ call' = [call EXCEPT ![c] = None] /\ route' = route /\ account' = account
        /\ selected' = selected
    BY <1>9 DEF OptionsArrive, AnswerOptions, Settle
  <2>2. QED
    BY <1>7, <2>1
<1>10. ASSUME NEW c \in Call, InFlight(c, "create"), Settle(c) PROVE FALSE
  BY <1>6, <1>10 DEF Settle
<1>11. ASSUME NEW c \in Call, NEW x \in Certificate, AbandonedSucceeds(c, x) PROVE FALSE
  <2>1. route' = route /\ form' = form /\ InFlight(c, "abandoned")
    BY <1>11 DEF AbandonedSucceeds, views
  <2>2. ~SearchShown
    BY <1>4, <2>1 DEF SearchShown
  <2>3. call' = [call EXCEPT ![c] = None]
    BY <1>11, <2>2 DEF AbandonedSucceeds
  <2>4. QED
    BY <1>6, <2>1, <2>3
<1>12. ASSUME NEW c \in Call, NEW a \in Account, SwitchUser(c, a)
       PROVE  account' \notin {None, account}
  BY <1>12 DEF SwitchUser
<1>13. CASE FormStep /\ UNCHANGED <<route, dialog>>
  BY <1>4, <1>13
     DEF FormStep, SelectType, onSelect, onTypePassword, PasswordShown, SearchShown, Submit
<1>14. CASE DialogStep /\ UNCHANGED <<route, form>>
  <2>1. account' = account /\ selected' = selected /\ route' = route
    BY <1>14 DEF DialogStep, DownloadPrivateKeyButton, onCancel, onChange, onDownload, downloadSucceeds,
                 downloadFails, storeVars
  <2>2. CASE call' = call
    BY <1>3, <2>1, <2>2
  <2>3. ASSUME NEW c \in Call, call[c] = None, NEW x, call' = [call EXCEPT ![c] = x] PROVE FALSE
    <3>1. \A d \in Call : call[d] = q => call'[d] = q
      BY <1>4, <1>5, <2>1, <2>3
    <3>2. QED
      BY <1>3, <2>1, <3>1
  <2>4. \/ call' = call
        \/ \E c \in Call : call' = [call EXCEPT ![c] = None]
        \/ \E c \in Call, x \in {[op |-> "key", account |-> account, id |-> selected,
                                  password |-> dialog.password]} :
              call[c] = None /\ call' = [call EXCEPT ![c] = x]
    BY <1>14 DEF DialogStep, DownloadPrivateKeyButton, onCancel, onChange, onDownload, downloadPrivateKey,
                 downloadSucceeds, downloadFails, Settle, storeVars
  <2>5. QED
    BY <1>7, <2>1, <2>2, <2>3, <2>4
<1>15. CASE UNCHANGED vars
  BY <1>3, <1>15 DEF vars, storeVars, views
<1>16. QED
  BY <1>8, <1>9, <1>10, <1>11, <1>12, <1>13, <1>14, <1>15, ForeignCases

(* What another account left in the store stays on a page only after an answer that
   is late, refused or lost, or when the user changes under a certificate. *)
THEOREM OnlyLateAnswersShowForeignAlways == Spec => OnlyLateAnswersShowForeign
<1>1. IInv /\ [Next]_vars =>
        [/\ ~ForeignList /\ ForeignList' =>
              \E c \in Call : InFlight(c, "list") /\ call'[c] = None
         /\ ~ForeignCertificate /\ ForeignCertificate' =>
              \/ \E c \in Call : call[c] # None /\ call'[c] = None
                                 /\ call[c].op \in {"certificate", "create", "abandoned"}
              \/ account' \notin {None, account}]_vars
  BY ForeignListStep, ForeignCertificateStep
<1>2. QED
  BY <1>1, Invariance, PTL DEF Spec, OnlyLateAnswersShowForeign
=============================================================================
