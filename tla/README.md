# Verification of Frappe-DSC (e_sign and the DSC Bridge)

Frappe-DSC signs PDFs of a Frappe site with a certificate on a USB token. Three
parties take part in one signature:

* the **server** (`e_sign/`, Python on Frappe): decides which documents must be
  signed and by whom, prepares the PDF, embeds the signature, keeps the evidence;
* the **browser** (`e_sign/public/js/e_sign.js`): runs the pipeline and carries
  hashes and signatures between the other two;
* the **bridge** (`dsc_bridge/`, Go, one process on the signer's machine): talks
  to the token over PKCS#11.

Nothing but the browser knows all three steps (`initiate` on the server, `/v1/sign`
on the bridge, `finalize` on the server), and it may go away after any of them.
The server's records must make sense all the same. That is the core of this
development.

## 1. Inventory

| Component | State | Operations | What makes it correct |
|---|---|---|---|
| Signing API, `api/signing.py` | row status, evidence fields | `initiate`, `finalize`, `get_signing_status`, `retry`, `cancel`, `abort_in_progress` | what finalize signs has a file and an audit trail; a closed request stays closed; no request is frozen |
| Signing sessions, `signing_engine.py` | Redis key per attempt, 600 s | `prepare`, `get_session_info`, `_load_session`, `embed_signature`, `verify_and_save` | a signature is embedded in the PDF prepared for it, for its certificate |
| DSC Signing Request | status | `validate_status_transition` | the transition table |
| DSC Document Sign | its own status, PDF, box | `validate`, `on_update` | one request per record whatever stale forms write back; the record shows the outcome |
| Hourly cleanup, retention | lists read before the writes | `expire_stale_pending_requests`, `purge_old_requests` | act only on what is (still) stale or old; audit survives |
| Audit log | append-only events | `log_event`, DSC Audit Event's guards | never shrinks, tells every change |
| Rule engine | DSC Rules | `evaluate_on_submit/update/change`, `_check_condition`, `create_signing_request` | the first rule that applies fires, at most one request per document and rule |
| Certificate registration, `api/agent.py` | profile fingerprint, previous certificates | `register_certificate` | what signed files carry stays on record |
| Pairing and HMAC, `api/agent.py`, DSC Settings | one-time codes, site tokens, shared secret | `generate_pairing_code`, `validate_pairing_code`, `get_or_create_hmac_secret` | a code works once; both sides hold the same secret |
| Bridge handlers, PIN cache, PKCS#11 | cached PINs, login state of each slot of each PKCS#11 module | `HandleSign`, `HandlePair`, `SignHash` | a wrong PIN is not tried again by itself; one signer's work does not end another's |
| Bridge keystore | metadata file, keychain, fallback file | `AddSite`, `SetHMACSecret`, `Token`, `RemoveSite` | what was paired last is what is used |
| Bridge AIA | chain and OCSP | `FetchCertChain` | the walk up the chain ends |
| Browser pipeline | step of the pipeline | `e_sign.sign` and callbacks | no failure leaves the signer without a way on |
| Gates | - | `download_pdf`, `make` | unsigned documents do not leave |
| Templates | versions | `before_save`, `_fork_new_version` | a version in use does not change |

Interaction: the whitelisted calls of the server are HTTP requests, each one
database transaction; several run at once in different workers, together with the
scheduler's jobs. They share the MariaDB rows and the Redis keys. The bridge
serves each HTTP request on its own goroutine; requests share the PIN cache, the
keystore and the token.

What is hard: reads that are old when the write comes (almost every status write
bypasses `doc.save()` and with it the check of the modification time); a session
that outlives (600 s) the point where an attempt counts as abandoned (300 s for a
form load, 180 s by default for the hourly job); an except branch that commits;
two stores (Redis and MariaDB) with no common transaction; concurrent use of one
token. `PROJECT.json` lists each such hazard at its line.

## 2. Modules

### SigningRequest (the server's signing requests)

One instance of the module holds the requests of a site, the DSC Document Sign
records, the Redis sessions, the running calls and jobs, the signed files and the
audit log.

| Variable | Code |
|---|---|
| `status`, `age` | `status` and `modified` of the `tabDSC Signing Request` row (`"absent"` before insert, `"purged"` after `delete_doc`) |
| `docSign`, `held` | `status` of a DSC Document Sign record, and the statuses forms hold that can still be saved (loaded since `modified` last changed) |
| `byHand` | history: the requests whose Signed or Cancelled was set in their form |
| `signedFile`, `files` | the request's `signed_file`, and the File rows `verify_and_save` inserted (one per finalize call at most) |
| `audit` | the DSC Audit Events of a request |
| `sessions` | one record per `initiate` call: what it read, and the Redis key it stored |
| `calls` | one record per `finalize` call and how far it has got |
| `polled`, `expiring`, `purging` | the rows a running status poll, hourly job or retention job has read and not yet written |
| `fingerprint`, `previous` | the profile's certificate and its `previous_certificates` |

How the atomic steps were chosen. The writes of one whitelisted call become
visible together, at the commit at its end; what it read may be out of date then.
So `initiate` is `InitiateRead` and `InitiateCommit` (or `InitiateRefused`);
`finalize` is `FinalizePeek` (`get_session_info` and the row), then
`FinalizeMismatch` or the GET and the DEL of `_load_session(pop=True)`
(`FinalizeLoad`, `FinalizePop`; Redis is not part of the transaction), then one of
the outcomes of its try block: `FinalizeSigned`, `FinalizeFailed` (session gone or
embedding raised), `FinalizeUnverified`, `FinalizeFailedLate` (something raised
after the file was saved: before the row was written, between the row and the
Request Signed event, or after that event; the except branch commits what is there),
`FinalizeVanished` (the row was deleted meanwhile). The poll of `get_signing_status` and the two jobs are
a read and a write each. `retry`, `cancel` and `abort_in_progress` go through
`doc.save()`, which locks the row and compares `modified`, and are one step each;
their transition check is `ValidTransition`. Two desk forms write statuses as
well. `status` is an ordinary field of a DSC Signing Request: whoever may write the
request can change it within `ValidTransition` (`EditStatus`), which tells neither the
audit log nor the record. The form of a DSC Document Sign record writes back the
status it was loaded with (`DocSignSave`), unless `modified` changed since; `Mirror`
changes it, `MirrorQuietly` (`initiate`, the poll) does not. `held` is all of the forms
that matters to this; `DocumentSign` has the forms themselves. The profile's list of
allowed users is read anew by each `initiate` and may be any list.

Abstractions. PDFs, hashes, signatures, locations and messages are left out; a
file is the triple of its request, its session and its certificate. Audit events
that accompany another event of the same transaction are left out. Repeated
events of one type about the same thing are one element. Times are ages that stop
growing where the code no longer tells them apart. A call that throws and rolls
back changes nothing and is not a step, unless somebody remembers it. Left out of
the forms: requests that somebody inserts by hand, edits of other fields of a
request, and saves that keep its status.

### RequestLifecycle and SigningLifecycle (the abstract specification)

`RequestLifecycle` is what the server promises about one request: a status, a
flag that something works on it, a flag that it has evidence. Work may move the
request to any status but Cancelled, because the calls that end it do not look at
the status again; but work can be taken up only while the request is open, the
status can become Signed only together with evidence, and evidence does not go away.
`SigningLifecycle` maps the detailed state to it for an arbitrary request `focus`
(`RefinesLifecycle`).

### SigningClaims

What comments, messages and docs of the repository say of signing requests where
the code does otherwise (section 4).

### BridgeSigning (signing on the bridge)

Concurrent `/v1/sign` requests, the PIN cache, the tokens and the PKCS#11 modules. The
bridge loads every module of a list (`config.go` 34-142; its package brings OpenSC along
with whatever the vendor installed), so one token may sit in a slot of several. A slot
of the model is a slot of one module, `CardOf` its token; `FindCert` finds any slot the
token is in, since the modules are tried in the order of a Go map.

| Variable | Code |
|---|---|
| `cache` | `PINCache.pins` |
| `token` | a USB token: plugged in, its PIN, its retry counter (external, as `SignHash` uses it) |
| `login` | whether the process is logged in to a slot (external) |
| `accepted` | history: the PINs a token has accepted |
| `reqs` | one record per request: how far `HandleSign` and `SignHash` have got, the slot it found, the PIN in use, whether its PKCS#11 session is still good, the answer |

Each use of a locked structure (the cache, the search for certificates) is one
step, and each PKCS#11 call of `SignHash` is one step, because `SignHash` takes no
lock: `OpenSession`, `Login` / `LoginWrongPin` / `LoginError`, `Sign` /
`SignError`, `Logout` (the two deferred calls), then `Remember` or `AnswerError`
in `HandleSign`. Of PKCS#11 the model takes what the code depends on: a login
belongs to the process and the module, a second `C_Login` to the slot is answered with
`CKR_USER_ALREADY_LOGGED_IN` (which `mapPKCS11Error` reports as
`INTERNAL_ERROR`), one to the same token through another module is not, a session dies when its token is unplugged, a wrong PIN costs a
try, a right one restores them. Signatures, certificate chains and OCSP are left
out. That the HMAC check refuses a request is a free choice here (`Refuse`); the
check itself is in `Pairing`.

### TokenLock (the abstract specification of a login)

`SignHash` runs on many goroutines and has no mutex; what it relies on is that a
PKCS#11 login works as one. `TokenLock` says what that means for each slot: a login is taken
while nobody has one, by a request that has not signed; a request signs once, and
only under its login; logins end one by one, with their token or with the process.
`BridgeSigning` maps its state to it (`Holders`, `HaveSigned`) and implements it
(`RefinesLock`). That is all it promises: two modules on one token are two locks, so two
requests may be logged in to the token at once. The run has such a token.

### Pairing (pairing codes, site tokens, the shared secret)

| Variable | Code |
|---|---|
| `codes` | the `e_sign:pairing:` keys in Redis |
| `regs` | committed DSC Agent Registrations |
| `secret`, `era` | `hmac_secret` in DSC Settings, and how many a site has made (the n-th secret is n) |
| `running`, `mu`, `sites` | the bridge process, `Keystore.mu`, `Keystore.sites` |
| `disk` | `paired_sites.json`; torn while `os.WriteFile` runs and after it was cut short |
| `keychain`, `keychainUp`, `file` | the keychain of the operating system (external) and the fallback file |
| `pair`, `sign` | running `/v1/pair` requests, and signing attempts from `initiate` to the HMAC check |

A pair request is followed through both programs: the dialog (`Confirm`), the
call on the server (`CodeFound`, `DeleteCode`, `Register`, `ReadSecret`,
`SaveSecret` and their failures), whose answer can get lost (`SiteLost`), and the
keystore: `AddSite` takes the mutex, the token goes to the keychain
(`KeychainSet`) or through the fallback file (`LoadTokenFile`,
`TruncateTokenFile`, `WriteTokenFile`), the metadata is saved (`SaveBegins`,
`SaveEnds`), and the secret takes the same way as the token, without the mutex.
`Restart` may come at any moment. Redis, database, keychain and the two files are
separate steps, since they have no common transaction. Frappe's refusal to save a
DSC Settings record that was saved since it was read is external
(`SaveSecretRefused`, `InitiateRefused`; another field may have been saved, so
they are possible at any time). A torn `paired_sites.json` stops the next start
(`main.go` 66-69); deleting it by hand is not modelled. `HMACSecret` reads
keychain and file in one step.

### RuleConditions, SignatureTemplate, RuleEngine and RuleSigning

What decides that a document is to be signed, and what the signature is good for.

* `RuleConditions`: one condition (field, operator, value) on a document. A value
  is empty, a number or an opaque text; what `flt`, `str`, `split` and `in` make of
  each text is given by constants, so the conversions are the code's, not the
  identity.
* `SignatureTemplate`: templates and their versions. A name is a sequence of
  numbers, the fork of `t` as version 2 is `t` with 2 appended.
* `RuleEngine`: saves and submits with the hooks of `_RULE_ENGINE_EVENTS`, the
  loading of those hooks (`LoadHooks`), the choice of the first match,
  `create_signing_request`, `initiate` with its choice of a pending request and its
  checks on the user, the coarse life of a request with edits of its status in its form
  (`EditStatus`), and what the two gates let through in a state: the prints of
  `DownloadPdf`, and the mails of `EmailMake`, to which the signed file is added while
  an unsigned print the sender asked for stays in.
* `RuleSigning`: all of them composed, with administrators who edit rules and
  templates in between.

| Variable | Code |
|---|---|
| `doc` | fields, company, workflow state and docstatus of the documents |
| `rule` | `is_enabled` and `signature_template` of a DSC Rule; its other fields are `RuleRec`, constant |
| `req` | a DSC Signing Request: status, document, rule, template, signer, the PDF in its session (`prepared`), `signed_file`, and whether it is Signed because the desk set it so (`byHand`) |
| `hooked` | `doc_events` of the running process has the doctype |
| `tmpl` | the DSC Signature Templates |

Of a PDF the model keeps its print format and where its signature field is: at the
anchor if the format prints one, else in the box of the template (`SigBox`). The stamp
in that field is pyHanko's default; the text that `build_stamp_text` makes of the
template's toggles is not given to `PdfSigner` (section 4), so the model has none. A
profile's list of allowed users may be another one at each step: the signer is chosen
from the list of then, `initiate` looks at the list of now.

Abstractions. One doctype, which all rules target; every rule has a template; one web
process; print formats do not gain or lose their anchor. The
calls on a request are one step each, their interleavings are in `SigningRequest`.
All sessions of a request hold the same PDF as long as the request exists, so
`prepared` stands for all of them. Saves of one document exclude each other by the
row lock and the check of `modified`, and the hooks run in the save's transaction.
A purged request's name is free again, which stands for a new name. Mail, ToDo and
dashboard comments are left out.

### DocumentSign (a record and the forms it is open in)

A desk form holds a copy of the record, and saving writes the whole copy back,
status included, if `modified` is still what the form loaded. Some of the server's
writes of the status keep `modified` (`on_update`, `initiate`, the poll), others
change it (`finalize`, `retry`, `cancel`), the hourly job and a certificate mismatch
write the request only, and so does an edit in the request's own form (`EditStatus`). Which writes are quiet decides whether an old form can
undo them.

| Variable | Code |
|---|---|
| `record` | the `tabDSC Document Sign` row: PDF, box, status, signing request |
| `tab` | each form's copy, and whether the row's `modified` is the one it loaded (`fresh`) |
| `status` | the status of its requests |
| `sessions` | PDF and box of the sessions in Redis, per request |
| `byHand` | history: the requests whose present ending was chosen in the form of the request |

### SigningPipeline (one signature through browser, server and bridge)

Open forms (`Flows`) run `startSigningFlow` and `runSigningPipeline`; the atoms are
the awaits.

| Variable | Code |
|---|---|
| `pc`, `form` | the await a flow is at; the buttons its form shows, from the last `get_form_actions` |
| `status`, `stale` | the request's status, and whether `modified` is older than the timeouts |
| `session`, `made` | the session the flow's `initiate` stored, and the secret of its HMAC |
| `bridge`, `secret` | the bridge's process, token, list of paired sites and secret, and whether that list was left half written (`torn`); the site's secret |
| `troubles` | how many more things may go wrong |

A call of the server or the bridge is one step, and its answer may be lost. The
catch handler is as it is: `abort_in_progress` raises when the request is In
Progress, and then the form is not reloaded either. A PIN dialog closed with
neither button leaves a promise that is never resolved, so the flow is forgotten
(`DismissPin`). The flow that starts by itself after a submit is a `Click`.
Besides the flows, somebody may pair by hand from the DSC Agent Registration form
(`PairThisComputer`), at any time and without fairness. A bridge that dies while it
writes its list of sites (`PairingTorn`) leaves a file that `NewKeystore` cannot parse,
and then `main` ends in `log.Fatalf` at every start (`BridgeStarts`); that somebody
deletes the file is not modelled, nor that somebody cancels or edits the request by hand.

## 3. Passing runs

| Run | Instance | Shows |
|---|---|---|
| `signing_attempts` | one request of a rule, two attempts, two finalize calls, one certificate | `TypeOK`, `SignedHasEvidence`, `FilesAreAudited`, `SettledStaysSettled`, `EvidenceIsKept`, `RefinesLifecycle` |
| `signing_renewal` | an uploaded document with two names for its request, one attempt, one finalize call, two certificates, re-registration at any moment | `FilesCarryRecordedCert`, `Consistent`, `RecordShowsOutcome` |
| `signing_liveness` | a rule's request, one attempt, one finalize call, `LiveSpec` | `NoRequestFrozen` |
| `rule_signing` | one invoice, two rules on submit (by amount) and one on approval, two request names, two users of whom one is on the profile's list, a template and its fork, hooks loaded or not | `TypeOK`, `OneRequestPerRule`, `GatedCopiesAreSigned`, `PlacementIsReproducible`, `SubmitIsServed` |
| `document_sign` | one record in three tabs, two names for its request, two files, two boxes | `TypeOK`, `OneRequestEver`, `OutcomeIsShown`, `CopiesConsistent`, `PlacementIsLocked` |
| `pipeline` | two forms, one request, one bridge, two troubles | `TypeOK`, `SecretsConsistent`, `GetsSigned`, `MismatchOutlivesFlows` |
| `bridge` | two sign requests, a token in a slot of two modules and one in a slot of one, a certificate on each, two PINs, two tries, `FairSpec` | `TypeOK`, `LoginHasOneOwner`, `CachedPinsWereAccepted`, `RequestsConsistent`, `CachedPinsCostNothing`, `TokenReleased`, `RefinesLock` |
| `pairing` | one site, two codes, two pair requests, one signing attempt, two secrets (one rotation) | `TypeOK`, `PairsConsistent`, `MutexHasOwner`, `TokensAreRegistered`, `SecretsAreDurable`, `MismatchMeansRotation`, `AckedSiteIsKept` |

Why the bounds are enough. The races of this code are between one attempt and one
successor (a late finalize against a retried, cancelled or newly initiated
request) or between one call and one job; two attempts and two finalize calls
contain all of them, the double submit of one session included. The timeouts
matter only by their order (180 s, 300 s, 600 s), which the small numbers keep:
in `signing_attempts` a row is timed out, then stale, before its session expires
(`SigningTimeout < StaleInProgress < SessionTTL`, i.e. 0, 1, 2). Ages above
`AgeCap` are not told apart by any guard. Attempts and finalize calls are
interchangeable, hence the symmetry (not used in the liveness run).
`signing_attempts` starts with a registered certificate (`RegisteredSpec`); a profile
that has none is in `signing_renewal`, where one attempt is enough: what the record
shows depends on the order of its writers, and retry, cancel, poll, jobs and forms are
there. Two names let the record get a second request if anything could give it one.
Deadlock checking stays on: retention always leaves something to do because
certificates can be registered at any time. On the bridge the races are between a
request that is logged in and one that is about to log in, in the same slot, through
another module or on another token, or that comes afterwards and finds what the first
left in the cache. Two requests make each of these; the proofs cover any number. Two tries (`MaxTries`) let a token be at its last try and
locked. In `pairing` two requests make both races, for the code and for the first
secret (the signing attempt is the third that can make one); `MaxEras` of two
allows one rotation, after which old and new secret can both be about. Two sites
add only entries of the same maps; the proofs cover any number.

In `rule_signing` the two rules on submit overlap (the first also needs a large
amount), so the priority decides; the approval rule belongs to another event and
gives the document a second request while the first is anywhere in its life. Two
names (`Requests`) are enough for any two requests of one document; a save that
would need a third is not taken. `DocStates` bounds what is saved, `Editable` says
which rule is switched off and pointed at another template, and `Templates` holds
one fork, after which the name is taken and the next fork is refused. Who signs matters to none of the
run's properties, so the profile's list stays the same there; in the proofs it changes. In
`document_sign` one tab saves, one holds a copy from before and one from after a
quiet write; a second request name is there so that a second request could be
made. In `pipeline` one trouble can hit each of two flows, or both can hit one: a
lost `initiate` followed by a dismissed PIN dialog, an unplugged token during a
failing `finalize`. `MaxTroubles` also bounds the rotations of the secret. Two
rotations with a pairing in between give every order of secrets on the two sides.

`SubmitIsServed` speaks of submits in a process whose hooks have the doctype, and of
rules as their reader understands them, and holds under two hypotheses about the
rules: no equality of texts (`NumericRules`, see `claim_text`) and no two rules for submits with one priority (`DistinctPriorities`;
otherwise the order of the query decides). `MCRuleSigning` assumes both of its
rules, and the theorem has them as its hypotheses.

Fairness (`LiveSpec`): weak fairness of the clock and of the two halves of the
hourly job. The scheduler entry of `hooks.py` (106-114) justifies it; nothing is
assumed of browsers, signers or bridges, nor that a finalize call ever returns.
On the bridge (`FairSpec`) each request's goroutine has weak fairness: the Go
scheduler runs it and the PKCS#11 module answers. Signers, unplugging and restarts
have none. `SigningPipeline` assumes a signer who goes on (`SignerGoesOn`): refreshes
the form, uses the button it shows, types the PIN, starts the bridge and plugs in
the token. That is the hypothesis of `GetsSigned`, not something the code brings
about; the hourly job is not needed and has no fairness there.

## 4. Disagreements between the code and what it says

Each has a run that TLC refutes (`expect: violation`) and an entry under
`findings`.

| Run | Statement | What the code does |
|---|---|---|
| `claim_terminal` | Signed and Cancelled are terminal (`dsc_signing_request.py` 33) | `initiate` writes In Progress over a request that was cancelled since it read it (`signing.py` 204); `finalize`, the poll and the hourly job write past that check as well |
| `claim_abort` | `abort_in_progress` resets to Pending (`signing.py` 680) | the transition table has no In Progress -> Pending, the save throws |
| `claim_text` | all conditions must match for a rule to fire (`docs/signing-rules.md` 37), texts are compared as strings (`rule_engine.py` 181) | `flt` makes 0 of any text that is no number and never raises, so the comparison of strings is not reached and any two such texts are equal |
| `claim_format` | the rule's print format is rendered into the PDF (`docs/signing-rules.md` 25) | the field list of `initiate` (`signing.py` 84) leaves out `rule`, so the format (177) is never used |

Seen in the model or while reading, without a run of their own: retention says that
it deletes ended requests (`retention.py` 15), but looks at the status when it reads
the list, not when it deletes (33); a pairing code is for one-time use (`agent.py`
91), but is read and deleted in two steps, so two calls at once can both use it;
`SignHash` says that it signs with the key of the given certificate
(`pkcs11_handler.go` 248) and takes the first private key of the token (272); a wrong
PIN must not linger in the cache (`handlers.go` 333), but `Forget` (336) drops it for
one certificate of the token only; "so signing works automatically from now on" says
the pairing dialog (`e_sign.js` 423), but after a rotation of the secret every
signature is refused and, the site being on the bridge's list, no pairing is offered
(`Mismatched`, one exception in `GetsSigned`; `MismatchOutlivesFlows` says that only
pairing by hand ends it; a torn list of sites is the other); an empty list of allowed users means
unrestricted (`docs/concepts.md` 35), but `_resolve_signer_user` then returns no
signer (`rule_engine.py` 332) and `can_sign` is false for everyone, so nobody is
shown the button of `docs/signing-rules.md` 43; with one mandatory and one optional
rule that block printing, `download_pdf` looks at either (`print_gate.py` 26), which
is why `GatedCopiesAreSigned` speaks of mandatory rules only; a template's save says
that the original is now inactive, but nothing reads `is_active` and the rules keep
pointing at it; a template can be edited in place again once retention has deleted
its requests; the evidence pack takes the profile's current certificate
(`evidence.py` 86), which after a renewal is not the signer's; the uploaded PDF of a
DSC Document Sign record can be replaced after its request was made, although the
box cannot be moved; a rule on ToDo would run again for the ToDo that its own request
assigns (`rule_engine.py` 268).

Mails are to "use the signed version once signing has happened" (`email_gate.py`
41-42), but `make` adds the signed file and passes the sender's print format and
attachments on, so the unsigned print may go out next to it, and a document signed only
by an edit in the form goes out with no signed file at all; `GatedCopiesAreSigned`
says what holds. A template controls the visible stamp and what it shows
(`docs/signature-templates.md` 3, 7-18, 50), but `prepare_pdf_for_signing` builds
`stamp_text` (`signing_engine.py` 157) and gives `PdfSigner` none of it (189-193), so
only the placement of a template reaches the PDF; `PlacementIsReproducible` is about
that. The app listens to events "on every doctype" (`docs/signing-rules.md` 9), but
`hooks.py` (51-76) registers events for a list of doctypes and those with a rule when
the process loads its hooks, so a rule for another doctype is not served until it loads
them again; `SubmitIsServed` is about a process that has. A document can have "multiple
signing requests over time (e.g. after a retry)" (`docs/signing-rules.md` 62), but a
retry reopens the same request, and a rule makes one for a document only as long as that
row is kept (`OneRequestPerRule`). `SignHash` serialises nothing between two PKCS#11
modules: with the vendor's and OpenSC's loaded, two requests can be logged in to one
token at a time (`RefinesLock` is per slot of a module). A request that was set to
Signed by hand in its form has no file and no event, and the DSC Document Sign record
is not told (`byHand` in `SigningRequest`, `DocumentSign` and `RuleEngine`).

`cancel` says that
pending or failed requests can be cancelled (`signing.py` 656), but the transition
table has no Failed -> Cancelled; the hourly job says that it resets to Pending
(`cleanup.py` 13), it writes Failed; every state change emits an audit event
(`audit.py` 4), the hourly job emits none; the DSC Document Sign record mirrors
its request (`docs/document-sign.md` 67), a fingerprint mismatch, the
hourly job and an edit of the request do not tell it, and an old form may write an
older status back (`RecordShowsOutcome` says what is left of it: the outcome); `can_sign` tells whether the user can sign (`signing.py` 593),
but `initiate` picks any pending request of the document, which may be another
signer's, and refuses a signer who is no longer on the profile's list; `HMACSecret`
returns an empty secret for sites that predate HMAC support (`keystore.go` 155), and also
while the keychain is down or after the fallback file was cut short, which
switches the HMAC check off; `Token` prefers the keychain, so after a re-pairing
that went to the file it returns the token of the pairing before. Further:
`docs/concepts.md` (64-70) shows In Progress ->
Cancelled, which no code allows; `docs/settings.md` (40) says that stale *Pending*
requests expire, the job looks for In Progress; `signing.py` (207) says that a
hook may raise to abort, `_run_dev_hooks` swallows exceptions.

## 5. Proofs

All proofs are for every value of the constants that satisfies the named
assumptions of `SigningRequest` (`SourceAssumption`: the functions that describe
requests have their types; `SignerAssumption`; `NullAssumption`: the null values
are none of the others; `TimeAssumption`: the timeouts are naturals and ages are
counted past them) and `FocusAssumption` (`focus` is a request), of
`BridgeSigning` (`TokenAssumption`, `NoneAssumption`, `TriesAssumption`: every
certificate and every slot is on a token, the null values are none of the others, a token allows
at least one try) and of `Pairing` (`CodeAssumption`, `NoneAssumption`,
`EraAssumption`: every code is of a site, null values, at least one secret), of
`RuleSigning` and what it extends (`TextAssumption`: the conversions have their
types and `float(str(n)) = n`; `TemplateAssumption`, `RuleAssumption`,
`BoundsAssumption`: types and null values), of `DocumentSign` (`NullAssumption`) and
of `SigningPipeline` (`TroubleAssumption`: the troubles are a natural number).
`SubmitAlwaysServed` has two hypotheses more, `NumericRules` and
`DistinctPriorities`.

| Module | Theorem | Argument |
|---|---|---|
| `SigningRequest_proofs` | `TypeCorrect`, `ConsistentAlways` | `Base = TypeOK /\ Consistent` is inductive |
| `SigningEvidence_proofs` | `RecordedCertAlways`, `SignedHasEvidenceAlways`, `FilesAreAuditedAlways`, `EvidenceIsKeptAlways`, `RecordShowsOutcomeAlways` | the first follows from `Base`; `SignedHasEvidence /\ FilesAreAudited` and `RecordsConsistent` are inductive relative to `Base`; `RecordShowsOutcome` follows from the latter |
| `SigningLifecycle_proofs` | `SettledStaysSettledAlways`, `LifecycleImplemented` | every step is, for a request, rest, work or one of the moves of the lifecycle |
| `BridgeSigning_proofs` | `TypeCorrect`, `RequestsAlwaysConsistent`, `LoginHasOneOwnerAlways`, `CachedPinsWereAcceptedAlways`, `CachedPinsCostNothingAlways`, `RefinesLockAlways` | the conjunction `BInv` of the bridge's invariants is inductive; the action property follows from it; with `SignedLate` every step is a step of `TokenLock` or a stutter |
| `Pairing_proofs` | `TypeCorrect`, `PairsAlwaysConsistent`, `SecretsAlwaysDurable`, `TokensAreRegisteredAlways`, `MismatchMeansRotationAlways`, `AckedSiteIsKeptAlways`, `MutexHasOwnerAlways` | `Main`, a conjunction of a part about the stores and one about each request, is inductive (`PairingInvariant`) |
| `DocumentSign_proofs` | `TypeCorrect`, `OneRequestAlways`, `CopiesConsistentAlways`, `OutcomeAlwaysShown`, `PlacementAlwaysLocked` | `IInv` is inductive (`InvariantAlways`); the action property follows from it |
| `RuleSigning_proofs` | `TypeCorrect`, `OneRequestPerRuleAlways`, `PlacementAlwaysReproducible`, `GatedCopiesAlwaysSigned`, `SubmitAlwaysServed`, `TextsAreAllEqual`, `RuleFormatNeverUsed` | `IInv` is inductive (`InvariantAlways`); `GatedCopiesAlwaysSigned` is a consequence of its parts; see below for the last three |
| `SigningPipeline_proofs` | `TypeCorrect`, `SecretsAlwaysConsistent`, `MismatchAlwaysOutlivesFlows` | `PInv = TypeOK /\ SecretsConsistent` is inductive; the action property follows from it |

Why the strengthening is needed. Calls and jobs act on what they remember: a
finalize call dereferences the session it looked up several steps ago, a job
writes rows of a list. `TypeOK` does not say that such a reference is to something
that exists, so no invariant about files or statuses is preserved on its own.
`Consistent` says so: an attempt that has read its request has one
(`AttemptsConsistent`), a finalize call past its first look holds a session that
was in Redis (`CallsConsistent`), the rows on a list were inserted
(`ListsConsistent`), and a file was saved by a call that has ended, from that
call's session (`FilesConsistent`; without "has ended", a second save by the same
call could overwrite the file a request points at). The certificate clause of
`AttemptsConsistent` is what carries `FilesCarryRecordedCert` across a
re-registration between `initiate` and `finalize`. What a record shows is not
inductive either: `RecordsConsistent` adds that no form which can still be saved holds
anything older than the outcome, and that a record has one request, since a second
one's writes would hide the first one's outcome.

On the bridge the strengthening is `RequestsConsistent`: the slot of a request is one
its token is in; a session handle that is
good belongs to a token that has stayed plugged in, so a logout on a good session
ends the request's own login and nobody else's; a PIN the request was not given
came from the cache and was accepted before. In `Pairing` it is what a request
carries with it: a token or secret read from the file may be written back much
later, so what it loaded must already satisfy what is said of the file; and
`disk` may be said to hold a site only because whoever saves holds the mutex, so
`MutexHasOwner` and `AckedSiteIsKept` are proved together.

In `DocumentSign` no single property is inductive: that a tab cannot make a second
request depends on its copy not being a Draft, that it cannot hide the outcome on
its copy being out of date, and that the box stays on both. `IInv` is `TypeOK`,
`OneRequestEver` and `CopiesConsistent` with three parts of the proof module: sessions
belong to a request that was made (`SessionsBelong`), once a request has been Signed
or Cancelled a copy that could still be saved shows that (`EndingsHeld`), and a saved
record has its PDF (`PdfAttached`). In `RuleSigning` it is `TypeOK`,
`OneRequestPerRule` and `PlacementIsReproducible` with: rules point at templates that
exist (`RulesPointAtTemplates`), and a request that finalize has left Signed has a file
(`SignedHasFile`, which makes the gates safe).

`SubmitAlwaysServed` is about one step and needs to know what came before it: that
the rule engine finds no earlier request which would keep it from making one. That
is `DraftsUnserved` (a document that is not submitted has no request of a rule for
submits), inductive relative to `IInv`. The step itself rests on lemmas about the
operators: under `NumericRules` a condition evaluates to what it says
(`ConditionsReadRight`), so the rules that match are the ones that apply
(`AppliesMatches`), and under `DistinctPriorities` exactly one of them comes first.
Two further theorems say how far two disagreements of section 4 go: `equals` holds
of *any* two texts that are no numerals (`TextsAreAllEqual`, behind `claim_text`),
and *no* request is ever rendered in its rule's format (`RuleFormatNeverUsed`, behind
`claim_format`).

`RefinesLockAlways`: that a signature is made under a login is not local to the
step that makes it, since between login and signature the token may have been pulled
out and plugged in again for another request. `RequestsConsistent` gives that a good
session has its login, `LoginHasOneOwner` that it has it alone; `SignedLate` (a
request has a key only after it signed) gives that nobody signs or logs in a second
time. A restart or an unplugged token is a `Release` of several logins at once.

In `SigningPipeline` the types depend on the secrets: a rotation makes secret n + 1,
which is within bounds only because each one costs a trouble. `SecretsConsistent`
says so, and that a bridge with a secret has the site on its list. With that,
`MismatchAlwaysOutlivesFlows` holds step by step: `Check` sends a flow to the pairing
only if the site is not on the list, and further rotations lead away from the secret
of the bridge.

Only model-checked: `NoRequestFrozen`, `TokenReleased` and `GetsSigned`, because
liveness under fairness is beyond the prover. Every invariant, every action property
and both refinements that a passing run checks are also proved.

## 6. Plan

Done: the server's signing requests, signing on the bridge, pairing, rules with
templates and gates, the DSC Document Sign record and its forms, the pipeline, and
proofs of everything they are checked for except liveness.
Left, in this order:

1. Whom `can_sign` shows the button, once `initiate` looks at the caller's request: as
   it is, no property about it holds.
2. `CertChain` (`aia.go`): the walk along issuer links as a recursive function, at
   most five levels; the comment "not including the root" (18-19) against what is
   appended.
3. Lemmas towards the liveness properties, as far as they are safety: that the age of
   a stale request never shrinks while nothing works on it, and that a token's owner
   always has a step left that logs it out.
4. The profile form: what besides the fingerprint `register_certificate` moves to
   `previous_certificates`.

## 7. Not modelled

Installers, TLS, configuration files and native dialogs of the bridge (start-up
and operating-system calls); the fetch of certificate chains and OCSP answers
(`aia.go`: failures are ignored, nothing depends on the result); desk form scripts except
`pairThisComputer`, reports and the evidence archive (reads for display); PDF layout
and how an anchor is found, geocoding, the delivery of mails and expiry notices (no
state of their own); role permissions and file protection (checks of a single
call); demo data and installation. The contents of PDFs, certificates, CMS
structures and HMACs are data the properties do not tell apart.
`verify_site_token` and `RemoveSite` have no caller outside the tests.
