# webca in TLA+

webca manages certificate authorities: people sign up for an *account*, create root and
intermediate authorities and certificates below them, list and download them. This project
models its logic in TLA+, model-checks it with TLC and proves the main invariants with TLAPS.
Paths below are relative to `src/`.

## Inventory

| component | code | state | operations |
|---|---|---|---|
| signup and login | `api-server/cmd/authentication_controller.go`, `internal/service/account_service.go`, account and user repositories | MySQL tables `account`, `user_account` | signup, login |
| certificates | `cmd/certificate_controller.go`, `internal/service/certificate_service.go`, certificate and key pair repositories | tables `certificate`, `key_pair` | create, get, list, body, full chain, private key |
| audit logger | `internal/audit/logger.go` | table `audit_event` | log a creation, log a reading |
| access control | `internal/authorization`, role middleware in `cmd/main.go` | none | assert the account, the user, the role |
| password service | `internal/password` | none | policy, hash and verify, encrypt and decrypt |
| users and invitations | `user_controller.go`, `invitation_controller.go`, their services, invitation repository | table `invitation` | get a user, create and get an invitation |
| web app: session | `web-app/src/state/user`, `state/hooks`, `api/httpclient.ts`, `routes` | session storage, token header, redux store | sign up, log in, log out, reload |
| web app: account pages | `routes`, `modules/login`, `signup`, `account`, `settings`, `navigation`, `state/invitation` | two routers with histories, the URL | navigate, log in and out, invite |
| web app: errors | `state/error`, `modules/error/ErrorNotification.tsx` | the error in the store, timers | register, show, clear |
| web app: certificates | `state/certificates`, `modules/certificate`, `modules/certificates` | certificates, authorities, options, selection in the store | list, select, create, download |
| web app: creation form | `modules/certificates/components/NewCertificate`, `SignatorySearch` | the form's and the search's own state | choose type, signatory and fields, submit |
| web app: private key dialog | `modules/certificate/components` | whether the dialog is open, its error, the password | open, type, download, cancel |
| key encoding | `internal/rsautil` | none | generate, encode and decode keys |
| texts and display, service worker, logging, server set-up, edge proxy, deployment | `translations`, `components`, `serviceWorker.ts`, `cmd/main.go`, `edge-proxy`, `k8s` | none the models need | |

**How they interact.** The edge proxy spreads HTTP requests over three replicas of the
api-server. Each request is a goroutine; goroutines share nothing but the database, where
every statement is its own transaction except the two inserts of a certificate. The
controllers check role and form, the services check the account and the password and call
the repositories, and write audit events as they go. A web app holds the token and the user
of its session and keeps copies of what the api-server answered; its pages are chosen by one
of two routers, according to whether there is a user, and each page has state of its own.

**What is hard.** Check-then-act over several statements (signup, the choice of a signatory)
by requests that interleave at every statement; rows stored before a later statement fails;
replies lost after the database has committed; replicas that die; the lock on a unique index
entry; an unbounded walk up the chain of signatories; audit events written after the fact,
some of them after the answer; answers that reach the web app late or out of order, when the page, the
certificate, the user or even the router they were asked for is another; callbacks and timers that outlive what set them up.
`PROJECT.json` lists each hazard at its line.

**What makes each part correct.**

* Signup: an account name has one founder and at most one ADMIN; a user signs up once; a
  failure is due to a rival that came meanwhile, for the name or for the email; an account somebody is a member of has an ADMIN (it may not).
* Login: a token names a stored user, knows the role, and was given for the right password; whoever was told that they
  signed up gets one.
* Creation of a certificate: key pair and certificate are stored together or not at all; names
  are unique in an account; the signatory is an authority of the same account, its key signs,
  and whoever signs knows its password; the certificates form a forest under the roots.
* Reads: nobody gets what belongs to another account; a private key is only for an ADMIN who
  knows its password; a full chain goes to right below a root; a list has all that was created before it was read.
* Users and invitations: a user is shown to themselves and to the ADMIN of their account, only stored ADMINs invite,
  into their own account, and an invitation that is answered or audited is stored, and is found whenever it is asked for.
* Web app: the token sent is the one stored; what is shown is what the URL, the user and the store say, but for answers
  that are late or lost; what the search shows is what is submitted; errors are shown for their time.
* Audit: the log never tells of what did not happen, and tells of whatever was answered.

## Modules

| module | what it is |
|---|---|
| `Registry` | abstract: names founded once, members enrolled once, the founder is the ADMIN |
| `AccountService` | signup and login, a step per statement; implements `Registry` |
| `AccountService_proofs` | its theorems |
| `CertificateTree` | abstract: certificates issued one at a time below authorities of the same account |
| `CertificateService` | creation and reads, a step per statement; implements `CertificateTree` |
| `CertificateService_proofs`, `CertificateReads_proofs` | its theorems: what is stored; what is answered and written down |
| `InvitationService` | reading users, creating and reading invitations, a step per statement, while users sign up |
| `InvitationService_proofs` | its theorems |
| `WebSession` | one tab of the web app: session storage, token header, the user in the store, the calls in flight |
| `WebSession_proofs` | its theorems |
| `AccountPages` | composes `WebSession` with the routers, the URL, forms, menu, invitations and errors |
| `AccountPages_proofs` | its theorems |
| `CertificatePage` | a tab of one user: route, selected certificate and its authority, the search's authorities, the calls in flight |
| `CertificatePage_proofs` | its theorems |
| `CertificateStore` | what the store of a tab holds about certificates while users follow each other, with calls and answers |
| `NewCertificateForm` | the creation form with its search, over the store |
| `PrivateKeyDialog` | the page of a certificate and its dialog, over the store |
| `CertificateViews` | composes the three under one route: pages appear and disappear, users come and go |
| `CertificateViews_proofs` | its theorems |
| `MC...` and `.cfg` | the instances for TLC |

### From the code to the models

*A step is a statement.* `pc[r]` is the statement the goroutine of request `r` executes next. A step
executes it, together with the local computation up to the next statement, so that every
interleaving of statements is a behaviour. `Receive` is everything before the first statement:
the middleware, the parsing, `Validate`. What a handler holds in local variables is in
`body` (the parsed request with the subject of its token), `found` (the account or the user),
`signer` (the key pair that signs), `read` and `logged` (the certificates read and how many of
them have their event).

*Tables are functions from ids.* Ids are UUIDs drawn by the handler and a request inserts at
most one row per table, so the request stands for the id: `account[r]` is the row signup `r`
inserted, `certificate[c]` the row create `c` inserted. Tables hold committed rows only.

*The transaction.* `CertRepo.Save` inserts the key pair and the certificate and commits. What an
open transaction has inserted follows from `pc`: in `"commit"` it has passed the unique key on
(name, account) and holds its index entry. `NameLocked` is that entry: another insert of the
same name waits until the holder commits, fails or dies, and then is refused by `NameTaken` or
goes on. Only `Commit` changes the tables. A rollback is a step that does not reach it.

*MySQL* is version 8 in strict mode: what exceeds a `VARCHAR` is refused (`TooLong`), a foreign key
that leads nowhere is refused (`Malformed`), a unique key admits one row. Collation (MySQL compares
names case-insensitively) is not modelled: names that differ, differ for the index too.

*Passwords.* A stored hash stands for the password it verifies, an encrypted private key for the
one that decrypts it; `Strong` is what the length policy admits. A wrong signatory password is
an error without a status, so a 500 (`FindSigningKeys`); a wrong password for a private key is
a 401 (`FindKeyPair`).

*Keys and dates.* Nothing validates `options.keySize`, nor `expiresInDays` from above, so `KeySize` and `Expiry` are sorts of what a
request may ask for: a size no key can be made of (missing, no number, too small: `GenerateKeys` fails), a key so short that a SHA-256
signature does not fit in it, a date that X.509 cannot write. None of these errors has a status, so each is a 500, and they are met at different
places: `createKeys` in `FindUser`, `signCertificate` in `FindUser` for a root and in `FindSigningKeys` for what is signed by another. `CreateStatus` has the order
of the refusals before a signatory is read. A short key can still be stored with a certificate that a sound one signs, and then signs nothing; and as short keys are few, the
unique key on the public key may refuse the second one (`InsertKeyPair`).

*Certificates* keep from their body who is named issuer, whose key signed and whether they are
marked as that of an authority.

*Faults.* `"db"`: a statement fails without effect and is answered 500 (`StatementFails`, which stands
for a lost connection, a lock wait that times out, a deadlock's victim), a statement or a commit takes effect
but its reply is lost, an audit event is not stored, a list is cut off because `rows.Err` is not
asked. `"jwt"`: the token cannot be issued. `"crash"`: the replica dies; committed rows stay, the
open transaction is rolled back, the request is never answered. Clients that resend are further requests.

*Users are constants* of `CertificateService`: no route changes or removes a stored user, so to
the certificate routes a user has an account for good or was never stored (`AccountOf` is `None`,
which a token of another database can bring about).

*Invitations.* The request that creates an invitation stands for its id; a body may ask for an id that was answered or
for a made up one (`Unknown`). `AssertUserAccess` reads up to two users by statements of their own before the user is
read, and users are stored meanwhile (`Save`, a signup in one step: `AccountService` has its statements). The email is not
checked beyond being there, so one that exceeds its column fails at the insert.

*The web app* is one thread: a step is one event (a click, an answer, a
reload) with everything it runs until the next, rendering and effects included. What is concurrent are
the calls: `call[c]` is a call in flight, and any of them may be answered next, or fail. Nothing in the
code cancels a call or compares an answer with what is asked for by now. A user of `WebSession`
stands for their id and their token; a certificate of `CertificatePage` stands for its immutable row at the
api-server, so when a read was served matters for lists only (`ServeSigning`), and for a creation
(`ServeCreate`), whose answer may be lost after it was stored. `useIsAuthenticated`, `useSelectedCertificate`,
`useFetchSignatories` and their like are effects: each is part of the actions that change what it depends on (login, an answer,
a reload; `Navigate`, `AnswerCreate`, `Reload`; `OpenSearch`; `Show` and `SwitchUser` in `CertificateViews`).

*Routers* (`AccountPages`). `Routes` renders one `BrowserRouter` for users and another for everybody else. Each has a history of its own, so
there are two variables: `path`, what the router shows, and `url`, what the browser shows. A push by the router changes both, a
callback of a router that is gone changes only the URL, and a router that appears reads it. This is how every login works: its callback pushes on the
router of the form, after the user was added and the other router has appeared. An invitation is `"sent"`, or
`"gone"` once its router is. The effect of the error notification is a step
of its own (`ErrorNotification`), because a timer may expire between a rendering and its effects; React runs what is left
of them before the next rendering (`registerHTTPError`). Actions of `WebSession` are conjoined with what the pages do at the same event.

*Pages of certificates* (`CertificateViews`). The store outlives a logout, so `CertificateStore` has accounts that follow each
other in one tab, and its calls carry the account that asked. Whether the token is that account's is the subject of
`WebSession`. A certificate belongs to an account for good, and a list is all of an account's: here it matters
whose certificates are shown, and `CertificatePage` has how lists age. `form` and `dialog` are the local states of mounted
components, with their initial state when they appear and `None` when they are gone; the form appears with the
options. Of what the fields hold, which nothing depends on, `Fields` is chosen when the form is submitted: texts are long enough or not. A creation whose user has logged out is `"abandoned"`: its
callback pushes on a router that is gone.

## Runs

| run | question | bounds |
|---|---|---|
| `account_faults` | safety of signup and login, and `Registry`, under every fault; whoever was told that they signed up can log in | 3 requests, 3 names of which one is too long, 2 emails, 3 passwords of which one is too short |
| `account_healthy` | with a healthy database: which races make signups fail, how an account loses its ADMIN, audit is complete, every request is answered | 3 requests, 1 password, 2 names, 3 emails of which one is too long |
| `account_race` | *violated*: a settled account with members has an ADMIN | as `account_faults` with 2 names, without faults and values too long |
| `certificate_chain` | safety of creation and of all reads, and `CertificateTree`, under every fault | a root, an intermediate, a leaf, and one read of any kind by any user |
| `certificate_race` | names, atomicity, causes of failure, audit when creates race; requests waiting for a lock are answered, lists show what was created before, their audit in the background completes | 3 creates over 2 accounts in a chain or with a common name, with short keys and without, all kinds of refusals, a full chain or a list of two types; crashes |
| `certificate_signatory` | *violated*: a stored signatory is the authority that issued the certificate | a root, a root or an intermediate that names it, a leaf below |
| `invitations` | who gets to know of users and who invites, the audit log, and that announced invitations are found, under every fault | 3 requests, 2 emails of which one is too long, 3 users in 2 accounts |
| `session` | token, storage and store through logins, late answers, logouts and reloads; a stored session comes back; page and URL; errors | 2 users, 3 calls and 1 invitation in flight, 2 errors |
| `session_late` | *violated*: whoever is shown as logged in has a session | 2 users, 2 calls |
| `page` | what is shown matches the route, its authority matches it, the search is complete, calls come to an end | a chain of 3 certificates of which any beginning is stored, 2 calls in flight |
| `views` | what is submitted is what is shown, hidden signatories, wrong accusations, certificates of somebody else | 2 accounts, 3 certificates, 2 passwords, 2 calls |
| `dialog_message` | *violated*: whoever is told that a password is wrong gave a wrong one | as `views`, where nobody is an ADMIN |

**Why the bounds are enough.** Signups interact through one name and one email: the loser of an
account needs a winner and the loss of an ADMIN a founder and a rival, so two requests already
race; the third adds the login and a signup in another role. Names, emails, passwords and requests
are interchangeable, hence the symmetry in the safety runs (never in the liveness runs; what
is too long is set apart). A chain needs a root, an intermediate and a leaf for the walk to
iterate, a race for a name two creates and a third to wait behind both, the accounts must be two.
`Sends` says which bodies each request may carry, so that each run has the creates and the
reads that meet, rather than every body; a request mentions only ids that a client can have
seen, or one made up (`Unknown`). Several requests may fail or die in one behaviour. For a read of a user three statements meet three
users: an ADMIN, a member of the same account, and a stranger. In a tab, one
answer overtakes another with two calls in flight; `session` has three, so that a logout
and two logins meet, and two errors, so that the timer of one meets the other. `page` keeps one place free of creations (`Submit`), because the answer to a creation makes
the page send two calls. `views` needs two certificates of one account, a root among them, for the dialog and the selection to
change, and one of another account; key sizes and years make no difference beyond being chosen, so one of each. The runs of the api-server set
`CHECK_DEADLOCK FALSE` because a system whose requests have all been answered stops; that nobody
waits for ever is what `EveryRequestAnswered` says.

*When a signup may fail* (`FailureMeansRival`) is said of its whole run: its 500 is due to the name if it found no account, to the email if it did; and
from the moment on at which it can still find the account, or the user, it is not refused for that. So a joiner of an account founded long ago is refused for
another user with its email only, and a signup that finds the user is told so with a 409. *What a create may fail for* (`FailureHasCause`) are the name, the signatory, the password or
the key of the signatory, the key size and the expiry; `certificate_race` has each of them.

**Fairness.** In the services `FairSpec` has weak fairness of `Execute(r)` for each request, the statements proper
without their failures: the Go scheduler runs
a goroutine that can run, and MySQL wakes the waiter of a lock when it is free. A waiter is disabled
while the lock is held, and the holder's own fairness frees it; with one commit per request, weak
fairness suffices because a request that commits never takes a lock again. Nothing is assumed of
clients (`Receive`) nor of crashes. In the web app `FairSpec` and `PagesFairSpec` say that the promise of each call settles, with an answer or
an error, as the http client's does. Nothing is assumed of the user: `SessionRestored` and `Settles` are about
behaviours in which they stop reloading or clicking. `SessionRestored` is also about behaviours whose `getUser` never
fails (`reliable`): the app asks once, and a failure leaves a stored session unrestored until the next reload.

## Findings

* **An account without an ADMIN** (`account_race`; `account_service.go:98`). Account and user are stored
  without a transaction. Two signups of the same user for a new account pass all checks; one founds the
  account, the other finds it and stores the user as USER first; the founder is refused by the unique key. A test says
  the user "Should be ADMIN since account was created". `AdminLostOnlyToDuplicate` says that, on a healthy
  database, this and an email too long for its column are the only ways.
* **A stored signatory is not the authority that issued the certificate** (`certificate_signatory`), for three reasons that
  the counterexample shows together. A certificate names itself as issuer (`certificate_service.go:473`): the template is
  passed as its own parent, whatever key signs. A root is not marked as an authority (`certificate_service.go:517`): the empty
  `case` does not fall through. A root stores the signatory of its request (`certificate_service.go:494`), unchecked, though it is self-signed.
* **A late answer logs in again** (`session_late`; `web-app/src/state/user/operations.ts:60`). The `getUser` that
  follows every login is answered after the logout, and the authenticated pages come back without token or storage.
  `OnlyLateAnswersDiverge` says that this is the only way.

* **A refusal is called a wrong password** (`dialog_message`; `PrivateKeyModal.tsx:28`, `translations/en.ts:93`). Whatever makes a download
  fail is shown as a wrong private key password. The dialog is open to USERs for every certificate but a root, and the route is for ADMINs only
  (`cmd/main.go:49`): a USER is told that the right password is wrong.

Properties with "Only" in their name are of this kind: the state they exclude can come about, and they say from
which step alone.

* `CertificatePage`: a page can show another certificate than its route names, a certificate can
  be shown with another's authority, and the search can lack an authority just created, each after a late or a failed
  answer and never from clicking alone.
* `AccountPages`: the page seen and the URL part when a login is answered, since its callback
  pushes on a router that is gone, and when an invitation is answered that was sent before a logout; never otherwise.
* `CertificateViews`: a request carries a signatory that the form does not show after a change of type to a root, or of the
  authority once the password was erased; the right password is called wrong by an answer, or by a change of the certificate under the
  dialog; certificates of another account stay on a page after an answer that is late, refused or lost, or when the user changes under the page of a certificate,
  which is not fetched again then.

## Proofs

All theorems are for any number of requests, names, users, calls and faults; one that needs the absence of a fault assumes it.

`AccountService_proofs`: `TypeCorrect`, `OneAdmin`, `OneSignup`, `TokensAreTrue`, `AuditIsTrue` and
`Refinement` (`Spec => Registry`). The properties are not inductive. `IInv` adds `AccountsUnique` and `UsersUnique`
(the unique keys), `RowOK` (a row says what its signup's body said, its account is stored, and it is ADMIN exactly when
its account is its own), `RequestOK` (what the local variables know at each `pc`: the account in `found` is stored
under the body's name; a signup has stored no row before the statement that does) and `AnswerOK` (an answer 200 of a signup
names its own row, that of a login a row that knew the password). Each action has one lemma; the fact
that does the work is that rows are never changed (`WrittenOnce`), so what a request read stays true.

The last part is about a healthy database, and each theorem assumes the absence of the faults it needs: `FailuresHaveRivals` (no `"db"`, no `"jwt"`:
only the two inserts can fail; `FailuresCaused` keeps with each failure what refused it, the name as long as no account was found and the email once
one was, and `WaysKept` follows a signup that can still find the account, or the user, along the only ways it can then take), `AdminsLostToDuplicates` (no faults: `FounderOK` follows the founder of
each account, who is about to store its user, has stored it, or met one with its email) and `AnswersAreAudited`
(no `"db"`: `AuditedOK` says which events are written before which statement).

`LoginsAreAccepted` is about the step of a login that looks for its user, with all faults. The row of a signup that succeeded is stored
(`AnswerOK`) under its name and email; the unique keys make these a key of the joined tables (`OneUserFound`), so the query finds that row
and no other, and its password is the one chosen.

`CertificateService_proofs`: `TypeCorrect`, `NamesAreUnique`, `ChainsEnd`, `Signed` and `Refinement` (`Spec => CertificateTree`).
`IInv` adds `CreateOK` (at each `pc`, what a create has checked still holds: its signatory is stored, an authority of its account, the
key it signs with is the signatory's and its password the secret given), `ReadOK` (a read's cursor can be followed), `RowOK`
(a row says what its body said and was vouched for by these checks), `LockUnique` (no two open transactions hold one
index entry, nor one that a committed row has) and `WellFounded` (no set of certificates below a root is closed under
signatories). Every action but `Commit` changes only its own request (`Local`); `LocalKeeps` lifts that to `IInv`
once for all. `WellFounded` survives `Commit` because the new row's signatory was stored before.

`CertificateReads_proofs`, on top of it: `AnswersStay`, `ChainsAreComplete` and `AuditIsTrue` with all faults. `RInv` says what a request knows of
what it has read (`Knows`): all of it is of its user's account (`AllMine`), it climbs from the certificate asked for, signatory by
signatory, and stands right below a root when it is written down (`Ascends`, `AtTheTop`), and a private key is only read on after role and password
were shown (`KeyOK`); and that every event is true (`Told`). Rows and bodies are written once (`Grows`), so all this stays.
Then `FailuresLeaveNothing`, `FailuresHaveCauses` and `AnswersAreAudited` where `"db"` is no fault, whatever else is. `Healthy` says that a
request has no trace until it commits or reads (`LeavesNothing`), that a failure has a `Cause` that stays one (rows and bodies do; that a stored short key comes with a certificate, and so stays too, is `Together`), and how much of what it read is
written down (`WrittenDown`). Steps of other requests are dealt with once (`StepsApart`, `HealthyApart`).
`ListsShowCreated` rests on `AnswerOK` (an announced create is stored) and on a page of a healthy database having all
rows of the account and of the types asked for (`PageHasAll`); `ListsAreAudited` on `Listed`, which counts the events of a list that was answered. `AnswersAreDistinct`:
a walk never comes back (`WalkNeverRepeats`), because what lies between two visits would be a set closed under signatories, which `WellFounded` excludes.

`InvitationService_proofs`: `TypeCorrect`, `AccessStays` and `AuditIsTrue`. `IInv` says for each `pc` what the statements before have found out
(`Progress`), which holds on because users are only ever added; `Advance` moves it from one statement to the next. `AnnouncedAreFound` needs more: a request
may only ask for an id that was answered before, so `Announced` follows that id from the answer to the request that asks for it, and steps of
other requests keep it since rows stay.

`WebSession_proofs`: `TypeCorrect`, `HeaderIsStored`, `OwnToken` and `OnlyLateAnswers`. The first three are proved together (`IInv`),
because a call carries the header's token, which is right because the header is the stored token. `OwnToken` (a user is asked for with their own token) is
checked by no run. `SessionsAreAskedFor` has `SessionIsAskedFor` beside it, which is inductive given `IInv`: only a reload hides somebody who has a
session, it takes all calls away and makes the one that asks for them.

`AccountPages_proofs`: `PagesAreASession` (`PagesSpec => Spec`: every event of the pages is an event of the session or changes nothing of
it), from which `PagesHeaderIsStored` and `PagesOnlyLateAnswers` follow from the theorems of `WebSession`; `PagesTypeCorrect`; `NoErrorIsEverCutShort`, with the invariant that
once the timer of the error that is shown runs, no other does (`OnlyItsTimer`); `OnlyOldRouters`, event by event.

`CertificatePage_proofs`: `TypeCorrect`, `OnlyLateAnswersMisleadAlways`, `OnlyLateAnswersMisattributeAlways` and `OnlyLateListIsOutdatedAlways`.
The type invariant suffices; each of the others has one step per event, and the argument is that an event that changes the route
or the selection sends the call that will put things right (`NavigateMisleadsNobody`, `SelectAttributes`), while every other
event leaves the calls that matter in flight (`StillOnItsWay`, `StillAttributed`). `AnswersRunOut` is about steps that are not clicks: each ends a
creation, or lowers the `Effort` of one call and leaves the others alone.

`CertificateViews_proofs`: `TypeCorrect`, `SearchIsSubmitted`, `OnlyTypeChangesHide`, `OnlyLateAnswersAccuseAlways` and `OnlyLateAnswersShowForeignAlways`.
`IInv` adds that a creation in flight has a user (`CreationHasUser`) and that a search that is not shown holds nothing (`AbsentSearchIsEmpty`); the action
properties then go event by event.

Assumptions: the constants' sorts (`NoneAssumption` and the like: `None` is no request, row or answer), that a
user's account and role exist (`UserAssumption`; users of `CertificateService` may lack an account), that there are finitely many requests (`RequestAssumption`)
and each may carry bodies of a set (`SendsAssumption`) and that the abstract tree's `None` is no certificate (`TreeAssumption`). TLC evaluates all of them.

**Stored for good.** `StoredForGood` (in three modules) says that no step changes or removes a row or an event. The models of
certificates and of invitations rely on stored users staying as they are; for `AccountService`, which stores them, this is the proof.

**What is proved about ending.** Liveness needs fairness, which is out of the prover's reach, so `EveryRequestAnswered`, `ListingIsAudited`, `SessionRestored`
and `Settles` are checked by TLC only. What the code itself contributes to them is safety, and is proved for any number of requests: every step
of a request lowers a rank of its own that nobody else's steps touch, answers are given once and stay, and a request without steps left was answered unless its
replica died (`HandlersEnd`, `RequestsEnd`). The rank is the number of statements to go, at most seven for a signup, five for an invitation;
for certificates it is at most 2N + 9 with N requests, since a walk has at most N certificates to read and to write down: they are
distinct (`AnswersAreDistinct`), so by the pigeonhole principle no more than there are (`DistinctIsShort`). So no handler loops; what remains for fairness is that
steps are taken, and that whoever waits for `NameLocked` is let in. For the web app, `AnswersRunOut` and `SessionsAreAskedFor` are the same for `Settles` and `SessionRestored`.

Every invariant and every safety property that a passing run checks is the property of a theorem. The type invariants of
the services and of `CertificateViews` are proved and no run repeats them; the runs would find what breaks them by what they say about the states.

## Not modelled

Time (expiry of certificates and tokens, beyond dates that cannot be written), serial numbers, keys that are sound and yet drawn twice, keys so large
that they do not fit their column (they would take hours to generate), cryptography, PEM and key encoding, the constant options route,
certificate types outside the three (refused with 400), the shape of JSON and its refusal,
collation. Of the web app: texts, dates and tables of details, the service worker (the app unregisters it), client ids, remote log and health checks, the downloads of
certificates (they change nothing in the tab), and what no page dispatches (the thunk that reads an invitation, `removeOptions`, the removal of a
selection). A tab is modelled alone; two tabs share nothing, because session storage is
the tab's. Deployment and proxy rules have no logic of their own beyond the three replicas, and end-to-end tests are tests.

A list that is cut off because `rows.Err` is not asked is in the model; `ListShowsWhatWasCreated` is about a healthy database, because with faults
nothing can be promised. Hazards without a property: that cut, a certificate that outlives its signatory (dates), a creation whose answer is lost (the tab cannot
know of it), and the authorities of an account before in the search, which the code does offer and the api-server refuses. Of a late answer in a dialog that was opened again,
the error has a property (`OnlyLateAnswersAccuse`); that it may close the dialog is what the code does.

## Plan

1. Clients that resend after a lost reply, composed with `AccountService`: what a resent signup is answered.
2. Accepting an invitation, once its route exists.
3. One tab against the api-server itself: `CertificateStore` composed with `CertificateService`, so that refusals have their causes.
