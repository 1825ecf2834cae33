--------------------------- MODULE SigningRequest ---------------------------
(***************************************************************************)
(* The life of DSC Signing Requests on the server: the whitelisted calls   *)
(* of e_sign/api/signing.py, the Redis signing sessions of                 *)
(* signing_engine.py, the scheduled jobs of cleanup.py and retention.py,   *)
(* the DSC Document Sign records that mirror their request, the signed     *)
(* files and the audit log.                                                *)
(*                                                                         *)
(* Every whitelisted call is one database transaction: its writes become   *)
(* visible together, at its commit.  What the call read before (a row, a   *)
(* Redis key, a list of stale rows) may be out of date by then, so a call  *)
(* that reads, works and then writes is two or more actions.  doc.save()   *)
(* re-reads the row under a lock and compares its modification time, so    *)
(* the calls built on it (retry, cancel, abort_in_progress) are one action *)
(* each.  A call that throws and rolls back changes nothing; it is a step  *)
(* only where somebody remembers that it ended.                            *)
(*                                                                         *)
(* Two desk forms write statuses too.  A request's status can be edited,   *)
(* within validate_status_transition, which tells neither the audit log    *)
(* nor the record.  The form of a DSC Document Sign record writes back the *)
(* status it was loaded with, unless the row was modified since.           *)
(*                                                                         *)
(* Times are ages, cut off where the code no longer tells them apart.      *)
(***************************************************************************)
EXTENDS Integers

CONSTANTS
  Requests,        \* names a DSC Signing Request can get
  Sources,         \* source documents
  DocSigns,        \* the sources that are DSC Document Sign records
  SourceOf,        \* the source document of a request
  RuleOf,          \* the DSC Rule that creates a request (any value for a DocSign)
  Profiles,        \* DSC Profiles
  ProfileOf,       \* the profile of a request
  Users,           \* users of the site
  ExpectedSigner,  \* expected_signer_user of a request, or NoUser
  Managers,        \* users with role-level write permission on requests
  Certs,           \* certificates tokens can hold (by fingerprint)
  Sessions,        \* session ids: one per initiate call (bounds the attempts)
  Calls,           \* finalize calls (bounds their number); each makes <= 1 file
  NoUser, NoCert, NoRequest, NoSession, NoFile,
  SigningTimeout,  \* DSC Settings.signing_timeout_seconds
  StaleInProgress, \* STALE_IN_PROGRESS_SECONDS
  SessionTTL,      \* _SESSION_TTL_SECONDS
  AgeCap           \* ages of requests stop growing here

ASSUME SourceAssumption ==
  /\ DocSigns \subseteq Sources
  /\ SourceOf \in [Requests -> Sources]
  /\ ProfileOf \in [Requests -> Profiles]
ASSUME SignerAssumption ==
  /\ ExpectedSigner \in [Requests -> Users \cup {NoUser}]
  /\ Managers \subseteq Users
ASSUME NullAssumption ==
  /\ NoUser \notin Users
  /\ NoCert \notin Certs
  /\ NoRequest \notin Requests
  /\ NoSession \notin Sessions
  /\ NoFile \notin Calls \cup [req : Requests, sess : Sessions, cert : Certs]
ASSUME TimeAssumption ==
  /\ SigningTimeout \in Nat
  /\ StaleInProgress \in Nat \ {0}
  /\ SessionTTL \in Nat \ {0}
  /\ AgeCap \in Nat
  /\ SigningTimeout < AgeCap
  /\ StaleInProgress <= AgeCap

VARIABLES
  status,      \* status of each request; "absent" before insert, "purged" after delete
  age,         \* time since the row's `modified` (read, and counted, In Progress only)
  docSign,     \* status of each DSC Document Sign record
  held,        \* the statuses it has had since its `modified` last changed: what a
               \* desk form may hold that can still be saved
  byHand,      \* history: the requests whose outcome (Signed or Cancelled) was set in
               \* their form, by nobody's signature or cancel
  signedFile,  \* the request's signed_file: the finalize call that made it, or NoFile
  files,       \* the signed File each finalize call saved, or NoFile
  audit,       \* the DSC Audit Events of each request
  sessions,    \* each initiate call and the Redis session it opened
  calls,       \* each finalize call
  polled,      \* per source: the rows a running get_signing_status found stale
  expiring,    \* the rows a running expire_stale_pending_requests found stale
  purging,     \* the rows a running purge_old_requests found old
  fingerprint, \* certificate_fingerprint of each profile, or NoCert
  previous     \* the fingerprints in each profile's previous_certificates

rows    == <<status, age, docSign, held, byHand>>
outputs == <<signedFile, files>>
reads   == <<polled, expiring, purging>>
profile == <<fingerprint, previous>>
vars    == <<rows, outputs, audit, sessions, calls, reads, profile>>

-----------------------------------------------------------------------------
(* Types *)

RequestStatus == {"Pending", "In Progress", "Signed", "Failed", "Cancelled"}
RowStatus     == RequestStatus \cup {"absent", "purged"}
DocStatus     == RequestStatus \cup {"Draft"}
Outcomes      == {"Signed", "Cancelled"}

\* The event types that mark a change of a request.  Location, template and
\* rule events accompany one of these in the same transaction; Cert Presented
\* always comes with Signature Returned, Hash Computed with Agent Called.
EventType == {"Request Created", "Agent Called", "Signature Returned",
              "PDF Verified", "Request Signed", "Request Failed",
              "Request Retried", "Request Cancelled", "Request Aborted"}

\* phase: unused, reading (initiate runs), live (stored in Redis), gone (taken
\* out of Redis), refused (initiate threw).  registered is the profile's
\* fingerprint initiate read; cert is the certificate it prepared the PDF for.
SessionRec == [phase : {"unused", "reading", "live", "gone", "refused"},
               req : Requests \cup {NoRequest},
               cert : Certs \cup {NoCert}, registered : Certs \cup {NoCert},
               age : 0..SessionTTL, aborted : BOOLEAN]

\* pc: idle, peeked (get_session_info returned), loaded (the GET of the pop
\* returned), popped (its DEL done), lost (the GET found nothing), done.
CallRec == [pc : {"idle", "peeked", "loaded", "popped", "lost", "done"},
            sess : Sessions \cup {NoSession}, cert : Certs \cup {NoCert}]

\* An audit event: its type and what it was written for (an initiate call, a
\* finalize call, or the request itself).  Repeated events of one type about one
\* thing are one element.
Event == EventType \X (Sessions \cup Calls \cup Requests)

FileRec == [req : Requests, sess : Sessions, cert : Certs]

TypeOK ==
  /\ status \in [Requests -> RowStatus]
  /\ age \in [Requests -> 0..AgeCap]
  /\ docSign \in [DocSigns -> DocStatus]
  /\ held \in [DocSigns -> SUBSET DocStatus]
  /\ byHand \in SUBSET Requests
  /\ signedFile \in [Requests -> Calls \cup {NoFile}]
  /\ files \in [Calls -> FileRec \cup {NoFile}]
  /\ audit \in [Requests -> SUBSET Event]
  /\ sessions \in [Sessions -> SessionRec]
  /\ calls \in [Calls -> CallRec]
  /\ polled \in [Sources -> SUBSET Requests]
  /\ expiring \in SUBSET Requests
  /\ purging \in SUBSET Requests
  /\ fingerprint \in [Profiles -> Certs \cup {NoCert}]
  /\ previous \in [Profiles -> SUBSET Certs]

-----------------------------------------------------------------------------
(* State functions *)

Exists(r) == status[r] \notin {"absent", "purged"}

\* A session key Redis still returns.
Alive(s) == sessions[s].phase = "live" /\ sessions[s].age < SessionTTL

\* Mutant: no transition check.
AnyTransition(old, new) == TRUE

\* validate_status_transition: what doc.save() lets a status become.
ValidTransition(old, new) ==
  \/ old = new
  \/ old = "Pending"     /\ new \in {"In Progress", "Cancelled"}
  \/ old = "In Progress" /\ new \in {"Signed", "Failed"}
  \/ old = "Failed"      /\ new = "Pending"

\* The checks of initiate on the user: the expected signer or a role-level
\* writer, and on the profile's allow list as it is then ({} = unrestricted).
Authorised(u, r, allowed) ==
  /\ ExpectedSigner[r] \in {NoUser, u} \/ u \in Managers
  /\ allowed = {} \/ u \in allowed

\* The rows get_signing_status and the hourly job take for abandoned.
StaleOf(d) == {r \in Requests : /\ SourceOf[r] = d
                                /\ status[r] = "In Progress"
                                /\ age[r] >= StaleInProgress}
\* Mutant: the job looks for Pending rows.
TimedOutPending == {r \in Requests : status[r] = "Pending" /\ age[r] > SigningTimeout}

TimedOut == {r \in Requests : status[r] = "In Progress" /\ age[r] > SigningTimeout}

\* The request a finalize call works for.
ReqOfCall(c) == sessions[calls[c].sess].req

-----------------------------------------------------------------------------
(* Writes the calls share *)

\* frappe.db.set_value / doc.save of a request's status, `modified` included.
SetStatus(r, new) ==
  /\ status' = [status EXCEPT ![r] = new]
  /\ age' = [age EXCEPT ![r] = 0]
  /\ byHand' = byHand \ {r}

\* The write that keeps a DSC Document Sign source in step.  It changes the
\* record's `modified`: forms loaded before can no longer be saved.
Mirror(r, new) ==
  /\ docSign' = [d \in DocSigns |-> IF d = SourceOf[r] THEN new ELSE docSign[d]]
  /\ held' = [d \in DocSigns |-> IF d = SourceOf[r] THEN {new} ELSE held[d]]

\* The same with update_modified=False: they still can.
MirrorQuietly(d, new) ==
  /\ docSign' = [x \in DocSigns |-> IF x = d THEN new ELSE docSign[x]]
  /\ held' = [x \in DocSigns |-> IF x = d THEN held[x] \cup {new} ELSE held[x]]

\* log_event for request r, once for each of the types, about x.
Log(r, types, x) == audit' = [audit EXCEPT ![r] = @ \cup (types \X {x})]

-----------------------------------------------------------------------------
(* Creation *)

\* rule_engine.create_signing_request: no row yet for this source and rule.
CreateSigningRequest(r) ==
  /\ status[r] = "absent" /\ SourceOf[r] \notin DocSigns
  /\ \A q \in Requests : SourceOf[q] = SourceOf[r] /\ RuleOf[q] = RuleOf[r] => ~Exists(q)
  /\ SetStatus(r, "Pending")
  /\ Log(r, {"Request Created"}, r)
  /\ UNCHANGED <<docSign, held, outputs, sessions, calls, reads, profile>>

\* DSCDocumentSign.on_update of a form in Draft, once PDF, profile and box are
\* there.  It writes no audit event.
DocSignOnUpdate(r) ==
  /\ status[r] = "absent" /\ SourceOf[r] \in DocSigns
  /\ "Draft" \in held[SourceOf[r]]
  /\ \A q \in Requests : SourceOf[q] = SourceOf[r] => status[q] \notin {"Pending", "In Progress"}
  /\ SetStatus(r, "Pending")
  /\ Mirror(r, "Pending")
  /\ UNCHANGED <<outputs, audit, sessions, calls, reads, profile>>

-----------------------------------------------------------------------------
(* The desk forms *)

\* A request's status is edited in its form.  Nobody else is told: neither the
\* DSC Document Sign record nor the audit log.
EditStatus(r, new) ==
  /\ Exists(r) /\ new # status[r]
  /\ ValidTransition(status[r], new)
  /\ status' = [status EXCEPT ![r] = new]
  /\ age' = [age EXCEPT ![r] = 0]
  /\ byHand' = IF new \in Outcomes THEN byHand \cup {r} ELSE byHand
  /\ UNCHANGED <<docSign, held, outputs, audit, sessions, calls, reads, profile>>

\* The form of a record past Draft is saved: the status it holds is written back.
DocSignSave(d, st) ==
  /\ st \in held[d] \ {"Draft"}
  /\ docSign' = [docSign EXCEPT ![d] = st]
  /\ held' = [held EXCEPT ![d] = {st}]
  /\ UNCHANGED <<status, age, byHand, outputs, audit, sessions, calls, reads, profile>>

-----------------------------------------------------------------------------
(* initiate *)

\* Mutant: the filter on status is missing.
InitiateReadAny(s, u, r, k, allowed) ==
  /\ sessions[s].phase = "unused" /\ Exists(r) /\ Authorised(u, r, allowed)
  /\ sessions' = [sessions EXCEPT ![s] = [@ EXCEPT !.phase = "reading", !.req = r, !.cert = k,
                                           !.registered = fingerprint[ProfileOf[r]]]]
  /\ UNCHANGED <<rows, outputs, audit, calls, reads, profile>>

\* The reads: SOME pending request of the document, and the checks on it.  The
\* checks on profile activity, expiry, location and placement throw before any
\* write is kept; a refused call is InitiateRefused.
InitiateRead(s, u, r, k, allowed) ==
  /\ sessions[s].phase = "unused"
  /\ status[r] = "Pending"
  /\ Authorised(u, r, allowed)
  /\ sessions' = [sessions EXCEPT ![s] = [@ EXCEPT !.phase = "reading", !.req = r, !.cert = k,
                                           !.registered = fingerprint[ProfileOf[r]]]]
  /\ UNCHANGED <<rows, outputs, audit, calls, reads, profile>>

\* The profile has no certificate yet, or it is the token's.
CertMatchesProfile(s) == sessions[s].registered \in {NoCert, sessions[s].cert}

\* The writes: they do not look at the status again.
InitiateCommit(s) ==
  LET r == sessions[s].req IN
  /\ sessions[s].phase = "reading"
  /\ CertMatchesProfile(s)
  /\ Exists(r)
  /\ SetStatus(r, "In Progress")
  /\ MirrorQuietly(SourceOf[r], "In Progress")
  /\ Log(r, {"Agent Called"}, s)
  /\ sessions' = [sessions EXCEPT ![s] = [@ EXCEPT !.phase = "live", !.age = 0]]
  /\ UNCHANGED <<outputs, calls, reads, profile>>

\* The call throws, or its worker dies.  A session that was in Redis by then stays
\* there, but its id was never answered to anyone.
InitiateRefused(s) ==
  /\ sessions[s].phase = "reading"
  /\ sessions' = [sessions EXCEPT ![s].phase = "refused"]
  /\ UNCHANGED <<rows, outputs, audit, calls, reads, profile>>

-----------------------------------------------------------------------------
(* finalize *)

Goto(c, pc) == calls' = [calls EXCEPT ![c].pc = pc]

\* The call ends; the certificate it was given goes with it.
Return(c) == calls' = [calls EXCEPT ![c] = [@ EXCEPT !.pc = "done", !.cert = NoCert]]

\* get_session_info: k is the certificate the agent returned, if any.  The row
\* is loaded too: without it the call throws.
FinalizePeek(c, s, k) ==
  /\ calls[c].pc = "idle"
  /\ Alive(s)
  /\ Exists(sessions[s].req)
  /\ calls' = [calls EXCEPT ![c] = [@ EXCEPT !.pc = "peeked", !.sess = s, !.cert = k]]
  /\ UNCHANGED <<rows, outputs, audit, sessions, reads, profile>>

FingerprintMismatch(c) ==
  /\ calls[c].cert # NoCert
  /\ fingerprint[ProfileOf[ReqOfCall(c)]] \notin {NoCert, calls[c].cert}

\* The presented certificate is not the one registered now.  The session stays
\* in Redis and the DSC Document Sign record is not told.
FinalizeMismatch(c) ==
  LET r == ReqOfCall(c) IN
  /\ calls[c].pc = "peeked" /\ FingerprintMismatch(c)
  /\ Exists(r)
  /\ SetStatus(r, "Failed")
  /\ Log(r, {"Signature Returned", "Request Failed"}, c)
  /\ Return(c)
  /\ UNCHANGED <<docSign, held, outputs, sessions, reads, profile>>

\* _load_session(pop=True) is a GET and then a DEL.
FinalizeLoad(c) ==
  /\ calls[c].pc = "peeked" /\ ~FingerprintMismatch(c)
  /\ Goto(c, IF Alive(calls[c].sess) THEN "loaded" ELSE "lost")
  /\ UNCHANGED <<rows, outputs, audit, sessions, reads, profile>>

FinalizePop(c) ==
  /\ calls[c].pc = "loaded"
  /\ LET s == calls[c].sess IN
     sessions' = [sessions EXCEPT ![s] =
                     [@ EXCEPT !.phase = "gone", !.age = 0, !.aborted = FALSE]]
  /\ Goto(c, "popped")
  /\ UNCHANGED <<rows, outputs, audit, reads, profile>>

\* Mutants: the File is not saved; the CMS names the certificate presented.
SaveSignedPdfNot(c) == UNCHANGED files
SaveSignedPdfPresented(c) ==
  files' = [files EXCEPT ![c] = [req |-> ReqOfCall(c), sess |-> calls[c].sess,
                                 cert |-> calls[c].cert]]

\* save_signed_pdf: the CMS is built with the certificate of the session.
SaveSignedPdf(c) ==
  files' = [files EXCEPT ![c] = [req |-> ReqOfCall(c), sess |-> calls[c].sess,
                                 cert |-> sessions[calls[c].sess].cert]]

\* The status is not looked at: a request of any status becomes Signed.
FinalizeSigned(c) ==
  LET r == ReqOfCall(c) IN
  /\ calls[c].pc = "popped" /\ Exists(r)
  /\ SaveSignedPdf(c)
  /\ signedFile' = [signedFile EXCEPT ![r] = c]
  /\ SetStatus(r, "Signed")
  /\ Mirror(r, "Signed")
  /\ Log(r, {"Signature Returned", "PDF Verified", "Request Signed"}, c)
  /\ Return(c)
  /\ UNCHANGED <<sessions, reads, profile>>

\* Mutant: the failure is not logged.
FailWithUnlogged(c, types) ==
  /\ Exists(ReqOfCall(c))
  /\ SetStatus(ReqOfCall(c), "Failed")
  /\ Mirror(ReqOfCall(c), "Failed")
  /\ Return(c)
  /\ UNCHANGED <<audit, sessions, reads, profile>>

\* The except branch commits what the try block had already written.
FailWith(c, types) ==
  /\ Exists(ReqOfCall(c))
  /\ SetStatus(ReqOfCall(c), "Failed")
  /\ Mirror(ReqOfCall(c), "Failed")
  /\ Log(ReqOfCall(c), {"Signature Returned", "Request Failed"} \cup types, c)
  /\ Return(c)
  /\ UNCHANGED <<sessions, reads, profile>>

\* The pop found nothing, or building the PDF raised.
FinalizeFailed(c) ==
  /\ calls[c].pc \in {"lost", "popped"}
  /\ FailWith(c, {})
  /\ UNCHANGED outputs

\* The PDF holds no signature at all (the code logs this failure twice).
FinalizeUnverified(c) ==
  /\ calls[c].pc = "popped"
  /\ FailWith(c, {"PDF Verified"})
  /\ UNCHANGED outputs

\* Something raised after the file was saved: before the evidence fields were
\* written (signed), between them and the Request Signed event (a failing mirror
\* or log), or after that event (logged).  What was written is kept.
FinalizeFailedLate(c, signed, logged) ==
  /\ calls[c].pc = "popped" /\ (logged => signed)
  /\ SaveSignedPdf(c)
  /\ signedFile' = IF signed THEN [signedFile EXCEPT ![ReqOfCall(c)] = c] ELSE signedFile
  /\ FailWith(c, {"PDF Verified"} \cup (IF logged THEN {"Request Signed"} ELSE {}))

\* The row was purged under the call: every write raises, nothing is kept.
FinalizeVanished(c) ==
  /\ calls[c].pc \in {"peeked", "lost", "popped"} /\ ~Exists(ReqOfCall(c))
  /\ Return(c)
  /\ UNCHANGED <<rows, outputs, audit, sessions, reads, profile>>

-----------------------------------------------------------------------------
(* get_signing_status: the recovery of abandoned attempts on form load *)

GetSigningStatusRead(d) ==
  /\ polled[d] = {} /\ StaleOf(d) # {}
  /\ polled' = [polled EXCEPT ![d] = StaleOf(d)]
  /\ UNCHANGED <<rows, outputs, audit, sessions, calls, expiring, purging, profile>>

\* The write keeps `modified` and emits no audit event.
GetSigningStatusWrite(d) ==
  LET hit == {r \in polled[d] : Exists(r)} IN
  /\ polled[d] # {}
  /\ status' = [r \in Requests |-> IF r \in hit THEN "Pending" ELSE status[r]]
  /\ byHand' = byHand \ hit
  /\ MirrorQuietly(d, "Pending")
  /\ polled' = [polled EXCEPT ![d] = {}]
  /\ UNCHANGED <<age, outputs, audit, sessions, calls, expiring, purging, profile>>

-----------------------------------------------------------------------------
(* retry, cancel, abort_in_progress *)

Retry(r) ==
  /\ status[r] = "Failed"
  /\ ValidTransition(status[r], "Pending")
  /\ SetStatus(r, "Pending")
  /\ Mirror(r, "Pending")
  /\ Log(r, {"Request Retried"}, r)
  /\ UNCHANGED <<outputs, sessions, calls, reads, profile>>

\* Mutant: the record is told with update_modified=False, as initiate does it.
CancelQuietly(r) ==
  /\ status[r] \in {"Pending", "Failed"}
  /\ ValidTransition(status[r], "Cancelled")
  /\ SetStatus(r, "Cancelled")
  /\ MirrorQuietly(SourceOf[r], "Cancelled")
  /\ Log(r, {"Request Cancelled"}, r)
  /\ UNCHANGED <<outputs, sessions, calls, reads, profile>>

Cancel(r) ==
  /\ status[r] \in {"Pending", "Failed"}
  /\ ValidTransition(status[r], "Cancelled")
  /\ SetStatus(r, "Cancelled")
  /\ Mirror(r, "Cancelled")
  /\ Log(r, {"Request Cancelled"}, r)
  /\ UNCHANGED <<outputs, sessions, calls, reads, profile>>

\* The browser of session s gave up and called abort_in_progress.  When the
\* save is refused the call throws and only the browser knows.
AbortInProgress(s) ==
  LET r == sessions[s].req IN
  /\ sessions[s].phase \in {"live", "gone"} /\ ~sessions[s].aborted
  /\ sessions' = [sessions EXCEPT ![s] = [@ EXCEPT !.aborted = (sessions[s].phase = "live")]]
  /\ IF status[r] = "In Progress" /\ ValidTransition(status[r], "Pending")
     THEN SetStatus(r, "Pending") /\ Mirror(r, "Pending") /\ Log(r, {"Request Aborted"}, r)
     ELSE UNCHANGED <<rows, audit>>
  /\ UNCHANGED <<outputs, calls, reads, profile>>

-----------------------------------------------------------------------------
(* Scheduled jobs *)

ExpireStaleRead ==
  /\ expiring = {} /\ TimedOut # {}
  /\ expiring' = TimedOut
  /\ UNCHANGED <<rows, outputs, audit, sessions, calls, polled, purging, profile>>

\* Mutant: a status the doctype does not have.
ExpireStaleWriteExpired ==
  /\ expiring # {}
  /\ status' = [r \in Requests |-> IF r \in expiring THEN "Expired" ELSE status[r]]
  /\ expiring' = {}
  /\ UNCHANGED <<age, docSign, held, byHand, outputs, audit, sessions, calls, polled, purging, profile>>

\* Neither the DSC Document Sign record nor the audit log is told.
ExpireStaleWrite ==
  LET hit == {r \in expiring : Exists(r)} IN
  /\ expiring # {}
  /\ status' = [r \in Requests |-> IF r \in hit THEN "Failed" ELSE status[r]]
  /\ age' = [r \in Requests |-> IF r \in hit THEN 0 ELSE age[r]]
  /\ byHand' = byHand \ hit
  /\ expiring' = {}
  /\ UNCHANGED <<docSign, held, outputs, audit, sessions, calls, polled, purging, profile>>

\* old: the rows created before the cutoff, years ago.
PurgeRead(old) ==
  /\ purging = {} /\ old # {}
  /\ \A r \in old : status[r] \in {"Signed", "Failed", "Cancelled"}
  /\ purging' = old
  /\ UNCHANGED <<rows, outputs, audit, sessions, calls, polled, expiring, profile>>

\* Mutant: the audit events go with the row.
PurgeWriteAudit ==
  /\ purging # {}
  /\ status' = [r \in Requests |-> IF r \in purging THEN "purged" ELSE status[r]]
  /\ audit' = [r \in Requests |-> IF r \in purging THEN {} ELSE audit[r]]
  /\ purging' = {}
  /\ byHand' = byHand \ purging
  /\ UNCHANGED <<age, docSign, held, outputs, sessions, calls, polled, expiring, profile>>

\* delete_doc(force=True): the row goes, files and audit events stay.
PurgeWrite ==
  /\ purging # {}
  /\ status' = [r \in Requests |-> IF r \in purging THEN "purged" ELSE status[r]]
  /\ purging' = {}
  /\ byHand' = byHand \ purging
  /\ UNCHANGED <<age, docSign, held, outputs, audit, sessions, calls, polled, expiring, profile>>

-----------------------------------------------------------------------------
(* The environment *)

\* Mutant: the replaced certificate is forgotten.
RegisterCertificateForget(p, k) ==
  /\ fingerprint' = [fingerprint EXCEPT ![p] = k]
  /\ UNCHANGED <<previous, rows, outputs, audit, sessions, calls, reads>>

\* register_certificate: the replaced certificate stays on record.
RegisterCertificate(p, k) ==
  /\ previous' = [previous EXCEPT ![p] = @ \cup ({fingerprint[p]} \ {NoCert})]
  /\ fingerprint' = [fingerprint EXCEPT ![p] = k]
  /\ UNCHANGED <<rows, outputs, audit, sessions, calls, reads>>

Older(a, cap) == IF a < cap THEN a + 1 ELSE cap

Tick ==
  /\ age' = [r \in Requests |-> IF status[r] = "In Progress" THEN Older(age[r], AgeCap) ELSE age[r]]
  /\ sessions' = [s \in Sessions |->
       IF sessions[s].phase = "live"
       THEN [sessions[s] EXCEPT !.age = Older(sessions[s].age, SessionTTL)] ELSE sessions[s]]
  /\ <<age, sessions>>' # <<age, sessions>>
  /\ UNCHANGED <<status, docSign, held, byHand, outputs, audit, calls, reads, profile>>

-----------------------------------------------------------------------------
(* Specification *)

NoSessionRec == [phase |-> "unused", req |-> NoRequest, cert |-> NoCert,
                 registered |-> NoCert, age |-> 0, aborted |-> FALSE]

Init ==
  /\ status = [r \in Requests |-> "absent"]
  /\ age = [r \in Requests |-> 0]
  /\ docSign = [d \in DocSigns |-> "Draft"]
  /\ held = [d \in DocSigns |-> {"Draft"}]
  /\ byHand = {}
  /\ signedFile = [r \in Requests |-> NoFile]
  /\ files = [c \in Calls |-> NoFile]
  /\ audit = [r \in Requests |-> {}]
  /\ sessions = [s \in Sessions |-> NoSessionRec]
  /\ calls = [c \in Calls |-> [pc |-> "idle", sess |-> NoSession, cert |-> NoCert]]
  /\ polled = [d \in Sources |-> {}]
  /\ expiring = {}
  /\ purging = {}
  /\ fingerprint \in [Profiles -> Certs \cup {NoCert}]
  /\ previous = [p \in Profiles |-> {}]

InitiateStep(s) ==
  \/ \E u \in Users, r \in Requests, k \in Certs, allowed \in SUBSET Users :
       InitiateRead(s, u, r, k, allowed)
  \/ InitiateCommit(s)
  \/ InitiateRefused(s)

FinalizeStep(c) ==
  \/ \E s \in Sessions, k \in Certs \cup {NoCert} : FinalizePeek(c, s, k)
  \/ FinalizeMismatch(c)
  \/ FinalizeLoad(c)
  \/ FinalizePop(c)
  \/ FinalizeSigned(c)
  \/ FinalizeFailed(c)
  \/ FinalizeUnverified(c)
  \/ \E signed, logged \in BOOLEAN : FinalizeFailedLate(c, signed, logged)
  \/ FinalizeVanished(c)

Next ==
  \/ \E r \in Requests : CreateSigningRequest(r) \/ DocSignOnUpdate(r)
  \/ \E r \in Requests, new \in RequestStatus : EditStatus(r, new)
  \/ \E d \in DocSigns, st \in DocStatus : DocSignSave(d, st)
  \/ \E s \in Sessions : InitiateStep(s) \/ AbortInProgress(s)
  \/ \E c \in Calls : FinalizeStep(c)
  \/ \E d \in Sources : GetSigningStatusRead(d) \/ GetSigningStatusWrite(d)
  \/ \E r \in Requests : Retry(r) \/ Cancel(r)
  \/ ExpireStaleRead \/ ExpireStaleWrite
  \/ \E old \in SUBSET Requests : PurgeRead(old)
  \/ PurgeWrite
  \/ \E p \in Profiles, k \in Certs : RegisterCertificate(p, k)
  \/ Tick

Spec == Init /\ [][Next]_vars

\* Time passes and the scheduler runs the hourly job (hooks.py 106-114).
LiveSpec == Spec /\ WF_vars(Tick) /\ WF_vars(ExpireStaleRead) /\ WF_vars(ExpireStaleWrite)

-----------------------------------------------------------------------------
(* Properties *)

\* A request finalize has left Signed points at a signed file that was made for
\* this request, and its audit trail has the Request Signed event of the call
\* that made the file; a pointer to a file stays good whatever finalize, retry,
\* the desk or the jobs do to the status (finalize, signing.py 440-467).  A
\* status edited to Signed in the form proves nothing of the kind.
SignedHasEvidence ==
  \A r \in Requests :
    /\ status[r] = "Signed" /\ r \notin byHand =>
         signedFile[r] # NoFile /\ <<"Request Signed", signedFile[r]>> \in audit[r]
    /\ signedFile[r] # NoFile => files[signedFile[r]] # NoFile /\ files[signedFile[r]].req = r

\* When finalize has signed the request of a DSC Document Sign record, or cancel
\* has cancelled it, the record shows that outcome, whatever forms of the record
\* were open meanwhile and are saved afterwards: the outcome's write of the
\* record changes `modified` (signing.py 457, 663), initiate's and the poll's
\* do not.
RecordShowsOutcome ==
  \A r \in Requests :
    SourceOf[r] \in DocSigns /\ status[r] \in Outcomes /\ r \notin byHand
      => docSign[SourceOf[r]] = status[r]

\* A file of an attempt that started with a registered certificate carries a
\* certificate that is still on the profile's record, current or previous, even
\* if the profile was re-registered while the signer typed the PIN and the
\* agent came back with the new one (signing_engine.py 288-295).
FilesCarryRecordedCert ==
  \A c \in Calls : files[c] # NoFile =>
    LET s == sessions[files[c].sess]
        p == ProfileOf[files[c].req] IN
    s.registered # NoCert => /\ files[c].cert = s.registered
                             /\ files[c].cert \in previous[p] \cup {fingerprint[p]}

\* Every signed file in the store is accounted for in the audit trail of its
\* request, by the Request Signed or by the Request Failed event of the call
\* that saved it (finalize's except branch keeps a file it had already saved).
FilesAreAudited ==
  \A c \in Calls : files[c] # NoFile =>
    \E e \in {"Request Signed", "Request Failed"} : <<e, c>> \in audit[files[c].req]

(* The parts that make the invariants above inductive. *)

\* An attempt knows its request and certificate once it has read them; a session
\* reaches Redis only if the profile had no certificate or this one, and the
\* certificate read then is still on the profile's record.
AttemptsConsistent ==
  \A s \in Sessions : sessions[s].phase # "unused" =>
    LET p == ProfileOf[sessions[s].req] IN
    /\ sessions[s].req \in Requests /\ sessions[s].cert \in Certs
    /\ sessions[s].phase \in {"live", "gone"} => CertMatchesProfile(s)
    /\ sessions[s].registered # NoCert =>
         sessions[s].registered \in previous[p] \cup {fingerprint[p]}

\* A finalize call past its first look holds a session that was in Redis.
CallsConsistent ==
  \A c \in Calls : calls[c].pc # "idle" =>
    /\ calls[c].sess \in Sessions
    /\ sessions[calls[c].sess].phase \in {"live", "gone"}

\* What a poll or a job has on its list is a row that was inserted.
ListsConsistent ==
  /\ \A d \in Sources : \A r \in polled[d] : SourceOf[r] = d /\ status[r] # "absent"
  /\ \A r \in expiring \cup purging : status[r] # "absent"

\* A file was saved by a call that has ended, from the session of that call.
FilesConsistent ==
  \A c \in Calls : files[c] # NoFile =>
    /\ calls[c].pc = "done"
    /\ files[c].sess = calls[c].sess
    /\ files[c].req = sessions[files[c].sess].req
    /\ files[c].cert = sessions[files[c].sess].cert

\* The requests of a DSC Document Sign record are one, and a form of the record
\* that can still be saved holds nothing older than that request's outcome.
RecordsConsistent ==
  \A r \in Requests : SourceOf[r] \in DocSigns /\ status[r] # "absent" =>
    /\ "Draft" \notin held[SourceOf[r]]
    /\ \A q \in Requests : SourceOf[q] = SourceOf[r] /\ status[q] # "absent" => q = r
    /\ status[r] \in Outcomes /\ r \notin byHand =>
         docSign[SourceOf[r]] = status[r] /\ held[SourceOf[r]] = {status[r]}

\* Attempts, finalize calls, lists and files agree: what a call or a job
\* remembers of an attempt (signing_engine.py 234-250, 288-295) is still what
\* the attempt was, however the two interleaved.
Consistent ==
  AttemptsConsistent /\ CallsConsistent /\ ListsConsistent /\ FilesConsistent

-----------------------------------------------------------------------------
(* Terminality, evidence and progress *)

\* Something works on request r: an initiate that has read it, a session Redis
\* would return, a finalize call past its first look, the hourly job or a status
\* poll that has it on its list.
InFlight(r) ==
  \/ \E s \in Sessions : sessions[s].req = r /\ (sessions[s].phase = "reading" \/ Alive(s))
  \/ \E c \in Calls : calls[c].pc \notin {"idle", "done"} /\ ReqOfCall(c) = r
  \/ \E d \in Sources : r \in polled[d]
  \/ r \in expiring

Settled(r) == status[r] \in Outcomes /\ ~InFlight(r)

\* A Signed or Cancelled request that nothing is working on stays as it is, for
\* ever, until retention deletes it: the terminal states of
\* validate_status_transition, as far as the calls that bypass it honour them.
SettledStaysSettled ==
  [][\A r \in Requests : Settled(r) => Settled(r)' \/ status'[r] = "purged"]_vars

\* Files and audit events are never taken back, whatever is cancelled, retried,
\* expired or purged (retention.py 5: "Audit Events are NEVER deleted").
EvidenceIsKept ==
  [][/\ \A c \in Calls : files[c] # NoFile => files'[c] = files[c]
     /\ \A r \in Requests : audit[r] \subseteq audit'[r]]_vars

\* No request is frozen In Progress: the hourly job fails it at the latest, even
\* if the browser is closed, the agent never answers and nobody opens the
\* document again (cleanup.py 12-43).
NoRequestFrozen ==
  \A r \in Requests : status[r] = "In Progress" ~> status[r] # "In Progress"

=============================================================================
