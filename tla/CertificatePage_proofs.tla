----------------------- MODULE CertificatePage_proofs -----------------------
(***************************************************************************)
(* Proofs about the certificates of a tab, for any number of certificates  *)
(* and of calls in flight: its type invariant, which the others rest on,   *)
(* that only late or failed answers spoil what is shown or offered, and    *)
(* that without clicks the calls come to an end.                           *)
(***************************************************************************)
EXTENDS CertificatePage, Naturals, TLAPS

USE AuthorityAssumption, SignatoryAssumption, NoneAssumption, NoneRequestAssumption

-----------------------------------------------------------------------------
(* What the page sends is well typed. *)
LEMMA SentTypes ==
    ASSUME NEW x \in Certificate
    PROVE  /\ getCertificate(x) \in Request
           /\ getCertificate(x).op = "certificate" /\ getCertificate(x).id = x
           /\ createCertificate(x) \in Request
           /\ getSigningCertificates \in Request
           /\ getCertificateSignatory(x) \in Request \cup {None}
           /\ SignatoryOf[x] # None =>
                /\ getCertificateSignatory(x) \in Request
                /\ getCertificateSignatory(x).op = "signatory"
                /\ getCertificateSignatory(x).id = SignatoryOf[x]
BY DEF getCertificate, createCertificate, getSigningCertificates, getCertificateSignatory, Request

(* The search is well typed too, also when there is no certificate. *)
LEMMA SearchType == getSigningCertificates \in Request
BY DEF getSigningCertificates, Request

(* A call in flight about one certificate names one. *)
LEMMA CallTypes ==
    ASSUME TypeOK, NEW c \in Call
    PROVE  /\ \A op \in {"certificate", "signatory", "create"} :
                InFlight(c, op) => call[c] \in Request /\ call[c].id \in Certificate
           /\ InFlight(c, "signing") =>
                /\ call[c] \in [op: {"signing"}, certificates: SUBSET Authority, served: BOOLEAN]
                /\ call[c].certificates \subseteq Authority
BY DEF TypeOK, InFlight, Request

(* The link to the authority is one way to get to a page. *)
LEMMA FollowNavigates ==
    ASSUME TypeOK, NEW c \in Call, FollowSignatory(c)
    PROVE  \E p \in Page : Navigate(c, p)
BY DEF TypeOK, FollowSignatory, Page

(* select keeps the types. *)
LEMMA SelectType ==
    ASSUME TypeOK, NEW x \in Certificate
    PROVE  select(x) \in [certificate: Certificate \cup {None}, signatory: Certificate \cup {None}]
BY DEF TypeOK, select

(* The places of the calls are well typed when one of them is written. *)
LEMMA PlaceType ==
    ASSUME TypeOK, NEW c \in Call, NEW x \in Request \cup {None},
           call' = [call EXCEPT ![c] = x]
    PROVE  /\ call' \in [Call -> Request \cup {None}]
           /\ \A d \in Call : call'[d] = IF d = c THEN x ELSE call[d]
BY DEF TypeOK

(* The initial states are well typed. *)
LEMMA InitType == Init => TypeOK
BY DEF Init, TypeOK, NothingSelected, NoSignatories, Page

(* Every event keeps the types. *)
LEMMA NextType == TypeOK /\ [Next]_vars => TypeOK'
<1> SUFFICES ASSUME TypeOK, [Next]_vars PROVE TypeOK'
  OBVIOUS
<1>1. ASSUME NEW c \in Call, OpenSearch(c) PROVE TypeOK'
  BY <1>1, SearchType, PlaceType DEF OpenSearch, TypeOK
<1>2. ASSUME NEW c \in Call, NEW p \in Page, Navigate(c, p) PROVE TypeOK'
  <2> DEFINE x == IF p \in Certificate THEN getCertificate(p) ELSE None
  <2>1. x \in Request \cup {None}
    BY SentTypes
  <2>2. call' = [call EXCEPT ![c] = x]
    BY <1>2 DEF Navigate
  <2> HIDE DEF x
  <2>3. call' \in [Call -> Request \cup {None}]
    BY <2>1, <2>2, PlaceType
  <2>4. QED
    BY <1>2, <2>3 DEF Navigate, TypeOK
<1>3. ASSUME NEW c \in Call, NEW x \in Certificate, Submit(c, x) PROVE TypeOK'
  BY <1>3, SentTypes, PlaceType DEF Submit, TypeOK
<1>4. CASE Reload
  <2>1. call' \in [Call -> Request \cup {None}]
    BY <1>4, SentTypes DEF Reload
  <2>2. QED
    BY <1>4, <2>1 DEF Reload, TypeOK, NothingSelected, NoSignatories
<1>5. ASSUME NEW c \in Call, ServeCreate(c) PROVE TypeOK'
  <2>1. call[c] \in Request /\ call[c].id \in Certificate
    BY <1>5, CallTypes DEF ServeCreate
  <2>2. [call[c] EXCEPT !.served = TRUE] \in Request
    BY <2>1 DEF Request
  <2>3. call' \in [Call -> Request \cup {None}]
    BY <1>5, <2>2 DEF ServeCreate, TypeOK
  <2>4. QED
    BY <1>5, <2>1, <2>3 DEF ServeCreate, TypeOK
<1>6. ASSUME NEW c \in Call, ServeSigning(c) PROVE TypeOK'
  <2> DEFINE x == [getSigningCertificates EXCEPT !.certificates = stored \cap Authority, !.served = TRUE]
  <2>1. x \in Request
    BY DEF getSigningCertificates, Request
  <2>2. call' = [call EXCEPT ![c] = x]
    BY <1>6 DEF ServeSigning
  <2> HIDE DEF x
  <2>3. call' \in [Call -> Request \cup {None}]
    BY <2>1, <2>2, PlaceType
  <2>4. QED
    BY <1>6, <2>3 DEF ServeSigning, TypeOK
<1>7. ASSUME NEW c \in Call, AnswerCertificate(c) PROVE TypeOK'
  BY <1>7, CallTypes, SentTypes, SelectType, PlaceType DEF AnswerCertificate, TypeOK
<1>8. ASSUME NEW c \in Call, AnswerSignatory(c) PROVE TypeOK'
  BY <1>8, CallTypes, PlaceType DEF AnswerSignatory, TypeOK
<1>9. ASSUME NEW c \in Call, AnswerSigning(c) PROVE TypeOK'
  BY <1>9, CallTypes, PlaceType DEF AnswerSigning, TypeOK
<1>10. ASSUME NEW c \in Call, AnswerError(c) PROVE TypeOK'
  BY <1>10, PlaceType DEF AnswerError, TypeOK
<1>11. ASSUME NEW c \in Call, NEW d \in Call, AnswerCreate(c, d) PROVE TypeOK'
  <2> DEFINE x == call[c].id
             y == IF page = x THEN None ELSE getCertificate(x)
  <2>1. x \in Certificate
    BY <1>11, CallTypes DEF AnswerCreate
  <2>2. y \in Request \cup {None} /\ getCertificateSignatory(x) \in Request \cup {None}
    BY <2>1, SentTypes
  <2>3. /\ call' = [call EXCEPT ![c] = getCertificateSignatory(x), ![d] = y]
        /\ selected' = select(x) /\ page' = x /\ signatories' = NoSignatories
        /\ created' = created \cup {x} /\ stored' = stored
    BY <1>11 DEF AnswerCreate
  <2>4. select(x) \in [certificate: Certificate \cup {None}, signatory: Certificate \cup {None}]
    BY <2>1, SelectType
  <2> HIDE DEF x, y
  <2>5. call' \in [Call -> Request \cup {None}]
    BY <2>2, <2>3 DEF TypeOK
  <2>6. QED
    BY <2>1, <2>3, <2>4, <2>5 DEF TypeOK, Page, NoSignatories
<1>12. CASE UNCHANGED vars
  BY <1>12 DEF vars, TypeOK
<1>13. QED
  BY <1>1, <1>2, <1>3, <1>4, <1>5, <1>6, <1>7, <1>8, <1>9, <1>10, <1>11, <1>12,
     FollowNavigates
  DEF Next, Click, Serve, Answer

(* Variables keep their types throughout. *)
THEOREM TypeCorrect == Spec => []TypeOK
BY InitType, NextType, PTL DEF Spec

-----------------------------------------------------------------------------
(* A step that leaves the shown certificate and the route alone, and takes no
   call for the page away, misleads nobody. *)
LEMMA StillOnItsWay ==
    ASSUME TypeOK, NEW c \in Call, NEW x, call' = [call EXCEPT ![c] = x],
           UNCHANGED <<page, selected>>, ~InFlight(c, "certificate"),
           ~Misled
    PROVE  ~Misled'
<1> SUFFICES ASSUME Misled' PROVE FALSE
  OBVIOUS
<1>1. PICK d \in Call : InFlight(d, "certificate") /\ call[d].id = page
  BY DEF Misled
<1>2. d # c
  BY <1>1
<1>3. call'[d] = call[d]
  BY <1>2 DEF TypeOK
<1>4. QED
  BY <1>1, <1>3 DEF Misled, InFlight

(* A page that is entered from elsewhere asks for its certificate. *)
LEMMA NavigateMisleadsNobody ==
    ASSUME TypeOK, NEW c \in Call, NEW p \in Page, Navigate(c, p)
    PROVE  ~Misled'
<1> SUFFICES ASSUME p \in Certificate PROVE ~Misled'
  BY DEF Navigate, Misled
<1>1. call'[c] = getCertificate(p) /\ page' = p
  BY DEF Navigate, TypeOK
<1>2. getCertificate(p) # None
  BY SentTypes
<1>3. QED
  BY <1>1, <1>2, SentTypes DEF Misled, InFlight

(* A reloaded page asks for its certificate. *)
LEMMA ReloadMisleadsNobody ==
    ASSUME TypeOK, Reload
    PROVE  ~Misled'
<1> SUFFICES ASSUME page \in Certificate PROVE ~Misled'
  BY DEF Reload, Misled
<1>1. PICK c \in Call : call' =
         [d \in Call |-> IF d = c /\ page \in Certificate THEN getCertificate(page) ELSE None]
  BY DEF Reload
<1>2. call'[c] = getCertificate(page) /\ page' = page
  BY <1>1 DEF Reload
<1>3. QED
  BY <1>2, SentTypes DEF Misled, InFlight

(* The step that misleads takes a call for a certificate away. *)
LEMMA MisleadingStep ==
    ASSUME TypeOK, [Next]_vars, ~Misled, Misled'
    PROVE  \E c \in Call :
              /\ InFlight(c, "certificate") /\ call'[c] # call[c]
              /\ call[c].id = page \/ selected'.certificate = call[c].id
<1>1. ASSUME NEW c \in Call, OpenSearch(c) PROVE FALSE
  BY <1>1, StillOnItsWay DEF OpenSearch, InFlight
<1>2. ASSUME NEW c \in Call, NEW p \in Page, Navigate(c, p) PROVE FALSE
  BY <1>2, NavigateMisleadsNobody
<1>3. ASSUME NEW c \in Call, NEW x \in Certificate, Submit(c, x) PROVE FALSE
  BY <1>3, StillOnItsWay DEF Submit, InFlight
<1>4. CASE Reload
  BY <1>4, ReloadMisleadsNobody
<1>5. ASSUME NEW c \in Call, Serve(c) PROVE FALSE
  <2>1. ~InFlight(c, "certificate") /\ UNCHANGED <<page, selected>>
    BY <1>5 DEF Serve, ServeCreate, ServeSigning, InFlight
  <2>2. \E x : call' = [call EXCEPT ![c] = x]
    BY <1>5 DEF Serve, ServeCreate, ServeSigning
  <2>3. QED
    BY <2>1, <2>2, StillOnItsWay
<1>6. ASSUME NEW c \in Call, AnswerCertificate(c)
      PROVE  InFlight(c, "certificate") /\ call'[c] # call[c] /\ selected'.certificate = call[c].id
  <2>1. InFlight(c, "certificate") /\ call[c].id \in Certificate
    BY <1>6, CallTypes DEF AnswerCertificate
  <2>2. call'[c] = getCertificateSignatory(call[c].id)
    BY <1>6 DEF AnswerCertificate, TypeOK
  <2>3. call'[c] # call[c]
    BY <2>1, <2>2, SentTypes DEF InFlight, getCertificateSignatory
  <2>4. QED
    BY <1>6, <2>1, <2>3 DEF AnswerCertificate, select
<1>7. ASSUME NEW c \in Call, AnswerSignatory(c) PROVE FALSE
  <2>1. PICK d \in Call : \/ InFlight(d, "certificate") /\ call[d].id = page
                          \/ ~(page \in Certificate)
                          \/ selected.certificate = page
    BY <1>7 DEF Misled
  <2>2. page' = page /\ selected'.certificate = selected.certificate
    BY <1>7 DEF AnswerSignatory, TypeOK
  <2>3. InFlight(d, "certificate") => call'[d] = call[d]
    BY <1>7 DEF AnswerSignatory, TypeOK, InFlight
  <2>4. QED
    BY <2>1, <2>2, <2>3 DEF Misled, InFlight
<1>8. ASSUME NEW c \in Call, AnswerSigning(c) PROVE FALSE
  BY <1>8, StillOnItsWay DEF AnswerSigning, InFlight
<1>9. ASSUME NEW c \in Call, NEW d \in Call, AnswerCreate(c, d) PROVE FALSE
  BY <1>9 DEF AnswerCreate, Misled, select
<1>10. ASSUME NEW c \in Call, AnswerError(c)
       PROVE  InFlight(c, "certificate") /\ call'[c] # call[c] /\ call[c].id = page
  <2>1. PICK d \in Call : InFlight(d, "certificate") /\ call[d].id = page
    BY <1>10 DEF Misled, AnswerError
  <2>2. d = c
    BY <1>10, <2>1 DEF Misled, AnswerError, TypeOK, InFlight
  <2>3. call'[c] = None
    BY <1>10 DEF AnswerError, TypeOK
  <2>4. QED
    BY <2>1, <2>2, <2>3 DEF InFlight
<1>11. CASE UNCHANGED vars
  BY <1>11 DEF vars, Misled, InFlight
<1>12. QED
  BY <1>1, <1>2, <1>3, <1>4, <1>5, <1>6, <1>7, <1>8, <1>9, <1>10, <1>11, FollowNavigates
  DEF Next, Click, Answer

(* Only late answers and failing calls leave a page with the wrong certificate. *)
THEOREM OnlyLateAnswersMisleadAlways == Spec => OnlyLateAnswersMislead
<1>1. TypeOK /\ [Next]_vars =>
        [~Misled /\ Misled' =>
           \E c \in Call :
              /\ InFlight(c, "certificate") /\ call'[c] # call[c]
              /\ call[c].id = page \/ selected'.certificate = call[c].id]_vars
  BY MisleadingStep
<1>2. QED
  BY <1>1, TypeCorrect, PTL DEF Spec, OnlyLateAnswersMislead

-----------------------------------------------------------------------------
(* A step that leaves what is selected alone, and takes no call for a signatory
   away, changes no attribution. *)
LEMMA StillAttributed ==
    ASSUME TypeOK, NEW c \in Call, NEW x, call' = [call EXCEPT ![c] = x],
           UNCHANGED selected, ~InFlight(c, "signatory"),
           ~Misattributed
    PROVE  ~Misattributed'
<1> SUFFICES ASSUME Misattributed' PROVE FALSE
  OBVIOUS
<1>1. PICK d \in Call : InFlight(d, "signatory") /\ call[d].id = SignatoryOf[selected.certificate]
  BY DEF Misattributed
<1>2. d # c
  BY <1>1
<1>3. call'[d] = call[d]
  BY <1>2 DEF TypeOK
<1>4. QED
  BY <1>1, <1>3 DEF Misattributed, InFlight

(* A selected certificate has no signatory, or it is asked for in place c. *)
LEMMA SelectAttributes ==
    ASSUME NEW c \in Call, NEW x \in Certificate,
           selected' = select(x), call'[c] = getCertificateSignatory(x)
    PROVE  ~Misattributed'
<1>1. selected'.certificate = x /\ (SignatoryOf[x] = None => selected'.signatory = None)
  BY DEF select
<1>2. CASE SignatoryOf[x] = None
  BY <1>1, <1>2 DEF Misattributed
<1>3. CASE SignatoryOf[x] # None
  <2>1. call'[c] # None /\ call'[c].op = "signatory" /\ call'[c].id = SignatoryOf[x]
    BY <1>3, SentTypes
  <2>2. QED
    BY <1>1, <2>1 DEF Misattributed, InFlight
<1>4. QED
  BY <1>2, <1>3

(* The step that misattributes takes a call for a signatory away. *)
LEMMA MisattributingStep ==
    ASSUME TypeOK, [Next]_vars, ~Misattributed, Misattributed'
    PROVE  \E c \in Call :
              /\ InFlight(c, "signatory") /\ call'[c] # call[c]
              /\ \/ call[c].id = SignatoryOf[selected.certificate]
                 \/ selected'.signatory = call[c].id
<1>1. ASSUME NEW c \in Call, OpenSearch(c) PROVE FALSE
  BY <1>1, StillAttributed DEF OpenSearch, InFlight
<1>2. ASSUME NEW c \in Call, NEW p \in Page, Navigate(c, p) PROVE FALSE
  <2>1. ~InFlight(c, "signatory") /\ selected' = selected
    BY <1>2 DEF Navigate, InFlight
  <2>2. \E x : call' = [call EXCEPT ![c] = x]
    BY <1>2 DEF Navigate
  <2>3. QED
    BY <2>1, <2>2, StillAttributed
<1>3. ASSUME NEW c \in Call, NEW x \in Certificate, Submit(c, x) PROVE FALSE
  BY <1>3, StillAttributed DEF Submit, InFlight
<1>4. CASE Reload
  BY <1>4 DEF Reload, NothingSelected, Misattributed
<1>5. ASSUME NEW c \in Call, Serve(c) PROVE FALSE
  <2>1. ~InFlight(c, "signatory") /\ selected' = selected
    BY <1>5 DEF Serve, ServeCreate, ServeSigning, InFlight
  <2>2. \E x : call' = [call EXCEPT ![c] = x]
    BY <1>5 DEF Serve, ServeCreate, ServeSigning
  <2>3. QED
    BY <2>1, <2>2, StillAttributed
<1>6. ASSUME NEW c \in Call, AnswerCertificate(c) PROVE FALSE
  <2>1. call[c].id \in Certificate
    BY <1>6, CallTypes DEF AnswerCertificate
  <2>2. selected' = select(call[c].id) /\ call'[c] = getCertificateSignatory(call[c].id)
    BY <1>6 DEF AnswerCertificate, TypeOK
  <2>3. QED
    BY <2>1, <2>2, SelectAttributes
<1>7. ASSUME NEW c \in Call, AnswerSignatory(c)
      PROVE  InFlight(c, "signatory") /\ call'[c] # call[c] /\ selected'.signatory = call[c].id
  BY <1>7 DEF AnswerSignatory, TypeOK, InFlight
<1>8. ASSUME NEW c \in Call, AnswerSigning(c) PROVE FALSE
  BY <1>8, StillAttributed DEF AnswerSigning, InFlight
<1>9. ASSUME NEW c \in Call, NEW d \in Call, AnswerCreate(c, d) PROVE FALSE
  <2>1. call[c].id \in Certificate /\ d # c
    BY <1>9, CallTypes DEF AnswerCreate
  <2>2. selected' = select(call[c].id) /\ call'[c] = getCertificateSignatory(call[c].id)
    BY <1>9, <2>1 DEF AnswerCreate, TypeOK
  <2>3. QED
    BY <2>1, <2>2, SelectAttributes
<1>10. ASSUME NEW c \in Call, AnswerError(c)
       PROVE  /\ InFlight(c, "signatory") /\ call'[c] # call[c]
              /\ call[c].id = SignatoryOf[selected.certificate]
  <2>1. PICK d \in Call : InFlight(d, "signatory") /\ call[d].id = SignatoryOf[selected.certificate]
    BY <1>10 DEF Misattributed, AnswerError
  <2>2. d = c
    BY <1>10, <2>1 DEF Misattributed, AnswerError, TypeOK, InFlight
  <2>3. call'[c] = None
    BY <1>10 DEF AnswerError, TypeOK
  <2>4. QED
    BY <2>1, <2>2, <2>3 DEF InFlight
<1>11. CASE UNCHANGED vars
  BY <1>11 DEF vars, Misattributed, InFlight
<1>12. QED
  BY <1>1, <1>2, <1>3, <1>4, <1>5, <1>6, <1>7, <1>8, <1>9, <1>10, <1>11, FollowNavigates
  DEF Next, Click, Answer

(* Only late answers and failing calls give a certificate the wrong authority. *)
THEOREM OnlyLateAnswersMisattributeAlways == Spec => OnlyLateAnswersMisattribute
<1>1. TypeOK /\ [Next]_vars =>
        [~Misattributed /\ Misattributed' =>
           \E c \in Call :
              /\ InFlight(c, "signatory") /\ call'[c] # call[c]
              /\ \/ call[c].id = SignatoryOf[selected.certificate]
                 \/ selected'.signatory = call[c].id]_vars
  BY MisattributingStep
<1>2. QED
  BY <1>1, TypeCorrect, PTL DEF Spec, OnlyLateAnswersMisattribute

-----------------------------------------------------------------------------
(* Only the answer with a list, one read too early, makes the search outdated. *)
LEMMA OutdatingStep ==
    ASSUME TypeOK, [Next]_vars, ~Outdated, Outdated'
    PROVE  \E c \in Call :
              /\ InFlight(c, "signing") /\ call'[c] # call[c]
              /\ call[c].served /\ ~(created \cap Authority \subseteq call[c].certificates)
<1>1. PICK c \in Call : AnswerSigning(c)
  <2>1. ~(UNCHANGED <<signatories, created>>) /\ signatories' # NoSignatories
    BY DEF Outdated, NoSignatories
  <2>2. QED
    BY <2>1 DEF Next, Click, OpenSearch, FollowSignatory, Navigate, Submit, Reload, Serve, ServeCreate, ServeSigning,
                Answer, AnswerCertificate, AnswerSignatory, AnswerCreate, AnswerError, vars
<1>2. InFlight(c, "signing") /\ call[c].served /\ created' = created
  BY <1>1 DEF AnswerSigning
<1>3. signatories'.certificates = call[c].certificates
  BY <1>1 DEF AnswerSigning
<1>4. call'[c] # call[c]
  BY <1>1 DEF AnswerSigning, InFlight, TypeOK
<1>5. QED
  BY <1>2, <1>3, <1>4 DEF Outdated

(* Only a list that was read before a creation, and arrives after it, outdates the search. *)
THEOREM OnlyLateListIsOutdatedAlways == Spec => OnlyLateListIsOutdated
<1>1. TypeOK /\ [Next]_vars =>
        [~Outdated /\ Outdated' =>
           \E c \in Call :
              /\ InFlight(c, "signing") /\ call'[c] # call[c]
              /\ call[c].served /\ ~(created \cap Authority \subseteq call[c].certificates)]_vars
  BY OutdatingStep
<1>2. QED
  BY <1>1, TypeCorrect, PTL DEF Spec, OnlyLateListIsOutdated
-----------------------------------------------------------------------------
(* The creations in flight, and how much a call can still make the page do when
   no more creations are answered: a certificate makes it ask for a signatory. *)
Creating == {c \in Call : InFlight(c, "create")}

Effort(c) ==
    IF call[c] = None THEN 0
    ELSE IF call[c].op = "certificate" \/ (call[c].op # "signatory" /\ ~call[c].served) THEN 2
    ELSE 1

(* A step that is not the user's ends a creation, or lets one call come nearer
   to its end and leaves the others alone. *)
Advance ==
    \/ Creating' \subseteq Creating /\ Creating' # Creating
    \/ /\ Creating' = Creating
       /\ \E c \in Call :
            /\ Effort(c)' < Effort(c)
            /\ \A d \in Call \ {c} : call'[d] = call[d]

CallsAdvance == [][~Click => Advance]_vars

(* A call that is replaced by one that asks for less, and is no creation unless
   it was one, advances. *)
LEMMA PlaceAdvances ==
    ASSUME TypeOK, NEW c \in Call, NEW x \in Request \cup {None},
           call' = [call EXCEPT ![c] = x],
           Effort(c)' < Effort(c),
           x # None /\ x.op = "create" => InFlight(c, "create")
    PROVE  Advance
<1>1. \A d \in Call : call'[d] = IF d = c THEN x ELSE call[d]
  BY PlaceType
<1>2. Creating' \subseteq Creating
  BY <1>1 DEF Creating, InFlight
<1>3. \A d \in Call \ {c} : call'[d] = call[d]
  BY <1>1
<1>4. QED
  BY <1>2, <1>3 DEF Advance

(* Every answer, every failure and every step of the api-server advances. *)
LEMMA AdvancingStep ==
    ASSUME TypeOK, NEW c \in Call, Serve(c) \/ Answer(c) \/ AnswerError(c)
    PROVE  Advance
<1>1. CASE ServeCreate(c)
  <2> DEFINE x == [call[c] EXCEPT !.served = TRUE]
  <2>1. call[c] \in Request /\ call[c] # None /\ call[c].op = "create" /\ ~call[c].served
    BY <1>1, CallTypes DEF ServeCreate, InFlight
  <2>2. x \in Request /\ x.op = "create" /\ x.served
    BY <2>1 DEF Request
  <2>3. call' = [call EXCEPT ![c] = x]
    BY <1>1 DEF ServeCreate
  <2> HIDE DEF x
  <2>4. call'[c] = x
    BY <2>2, <2>3, PlaceType
  <2>5. Effort(c)' = 1 /\ Effort(c) = 2
    BY <2>1, <2>2, <2>4 DEF Effort, InFlight
  <2>6. Effort(c)' < Effort(c) /\ InFlight(c, "create")
    BY <2>1, <2>5 DEF InFlight
  <2>7. QED
    BY <2>2, <2>3, <2>6, PlaceAdvances
<1>2. CASE ServeSigning(c)
  <2> DEFINE x == [getSigningCertificates EXCEPT !.certificates = stored \cap Authority, !.served = TRUE]
  <2>1. call[c] # None /\ call[c].op = "signing" /\ ~call[c].served
    BY <1>2 DEF ServeSigning, InFlight
  <2>2. x \in Request /\ x.op = "signing" /\ x.served
    BY DEF getSigningCertificates, Request
  <2>3. call' = [call EXCEPT ![c] = x]
    BY <1>2 DEF ServeSigning
  <2> HIDE DEF x
  <2>4. call'[c] = x
    BY <2>2, <2>3, PlaceType
  <2>5. Effort(c)' = 1 /\ Effort(c) = 2
    BY <2>1, <2>2, <2>4 DEF Effort, InFlight
  <2>6. Effort(c)' < Effort(c)
    BY <2>5
  <2>7. QED
    BY <2>2, <2>3, <2>6, PlaceAdvances
<1>3. CASE AnswerCertificate(c)
  <2> DEFINE x == getCertificateSignatory(call[c].id)
  <2>1. call[c] # None /\ call[c].op = "certificate" /\ call[c].id \in Certificate
    BY <1>3, CallTypes DEF AnswerCertificate, InFlight
  <2>2. x \in Request \cup {None} /\ (x # None => x.op = "signatory")
    BY <2>1, SentTypes DEF getCertificateSignatory
  <2>3. call' = [call EXCEPT ![c] = x]
    BY <1>3 DEF AnswerCertificate
  <2> HIDE DEF x
  <2>4. call'[c] = x
    BY <2>2, <2>3, PlaceType
  <2>5. Effort(c)' \in {0, 1} /\ Effort(c) = 2
    BY <2>1, <2>2, <2>4 DEF Effort, InFlight
  <2>6. Effort(c)' < Effort(c)
    BY <2>5
  <2>7. QED
    BY <2>2, <2>3, <2>6, PlaceAdvances
<1>4. ASSUME call[c] # None, call' = [call EXCEPT ![c] = None] PROVE Advance
  <2>1. call'[c] = None
    BY <1>4, PlaceType
  <2>2. Effort(c)' = 0 /\ Effort(c) \in {1, 2}
    BY <1>4, <2>1 DEF Effort, InFlight
  <2>3. Effort(c)' < Effort(c)
    BY <2>2
  <2>4. QED
    BY <1>4, <2>3, PlaceAdvances
<1>5. CASE AnswerSignatory(c) \/ AnswerSigning(c) \/ AnswerError(c)
  BY <1>4, <1>5 DEF AnswerSignatory, AnswerSigning, AnswerError, InFlight
<1>6. ASSUME NEW d \in Call, AnswerCreate(c, d) PROVE Advance
  <2>1. call[c].id \in Certificate /\ InFlight(c, "create") /\ call[d] = None /\ d # c
    BY <1>6, CallTypes DEF AnswerCreate
  <2>2. PICK x \in Request \cup {None}, y \in Request \cup {None} :
          /\ call' = [call EXCEPT ![c] = x, ![d] = y]
          /\ x # None => x.op = "signatory"
          /\ y # None => y.op = "certificate"
    <3> DEFINE s == getCertificateSignatory(call[c].id)
               t == IF page = call[c].id THEN None ELSE getCertificate(call[c].id)
    <3>1. call' = [call EXCEPT ![c] = s, ![d] = t]
      BY <1>6 DEF AnswerCreate
    <3>2. s \in Request \cup {None} /\ (s # None => s.op = "signatory")
      BY <2>1, SentTypes DEF getCertificateSignatory
    <3>3. t \in Request \cup {None} /\ (t # None => t.op = "certificate")
      BY <2>1, SentTypes
    <3> HIDE DEF s, t
    <3>4. QED
      BY <3>1, <3>2, <3>3
  <2>3. \A e \in Call : call'[e] = IF e = c THEN x ELSE IF e = d THEN y ELSE call[e]
    BY <2>1, <2>2 DEF TypeOK
  <2>4. Creating' = Creating \ {c}
    BY <2>1, <2>2, <2>3 DEF Creating, InFlight
  <2>5. c \in Creating
    BY <2>1 DEF Creating
  <2>6. QED
    BY <2>4, <2>5 DEF Advance
<1>7. QED
  BY <1>1, <1>2, <1>3, <1>5, <1>6 DEF Serve, Answer

(* What can be proved of Settles: without the user's clicks, no step keeps the
   calls going for ever.  With finitely many places for calls, only finitely many
   steps end a creation, and only finitely many follow between two of them. *)
THEOREM AnswersRunOut == Spec => CallsAdvance
<1>1. TypeOK /\ [Next]_vars =>
        [~Click => Advance]_vars
  BY AdvancingStep DEF Next
<1>2. QED
  BY <1>1, TypeCorrect, PTL DEF Spec, CallsAdvance
=============================================================================
