---------------------------- MODULE DocumentSign ----------------------------
(***************************************************************************)
(* A DSC Document Sign record and the browser tabs it is open in.  A tab   *)
(* holds a copy of the record; saving writes the whole copy back, status   *)
(* included, if the record's `modified` is still the one the tab loaded.   *)
(* Some calls of the server write the record's status and keep `modified`  *)
(* (on_update, initiate, the status poll), others change it (finalize,     *)
(* retry, cancel), the hourly job and a certificate mismatch do not write  *)
(* the record at all.                                                      *)
(*                                                                         *)
(* The calls are one action each; their interleavings with each other are  *)
(* the subject of SigningRequest, which in turn has of the tabs only the   *)
(* statuses they hold.                                                     *)
(***************************************************************************)
EXTENDS Naturals

CONSTANTS
  Requests,  \* names its signing requests can get
  Tabs,      \* browser tabs
  Pdfs,      \* uploaded files
  Boxes,     \* places for the signature box
  NoPdf, NoBox, NoRequest

ASSUME NullAssumption ==
  /\ NoPdf \notin Pdfs /\ NoBox \notin Boxes /\ NoRequest \notin Requests

VARIABLES
  record,    \* the record's row
  tab,       \* each tab's copy, and whether the row's `modified` is still the same
  status,    \* status of each request
  sessions,  \* what initiate prepared and finalize has not taken yet
  byHand     \* the requests whose present ending was chosen in the form of the request

vars == <<record, tab, status, sessions, byHand>>

-----------------------------------------------------------------------------
(* Types *)

RequestStatus == {"Pending", "In Progress", "Signed", "Failed", "Cancelled"}
DocStatus == RequestStatus \cup {"Draft"}

Copy == [pdf : Pdfs \cup {NoPdf}, box : Boxes \cup {NoBox}, status : DocStatus,
         request : Requests \cup {NoRequest}]

\* Saved: the row exists (a new form is a Draft that does not).
Tab == [open : BOOLEAN, fresh : BOOLEAN, copy : Copy]

TypeOK ==
  /\ record \in [saved : BOOLEAN, row : Copy]
  /\ tab \in [Tabs -> Tab]
  /\ status \in [Requests -> RequestStatus \cup {"absent", "purged"}]
  /\ sessions \in [Requests -> SUBSET (Pdfs \X Boxes)]
  /\ byHand \subseteq Requests

NewForm == [pdf |-> NoPdf, box |-> NoBox, status |-> "Draft", request |-> NoRequest]

Init ==
  /\ record = [saved |-> FALSE, row |-> NewForm]
  /\ tab = [f \in Tabs |-> [open |-> FALSE, fresh |-> FALSE, copy |-> NewForm]]
  /\ status = [r \in Requests |-> "absent"]
  /\ sessions = [r \in Requests |-> {}]
  /\ byHand = {}

-----------------------------------------------------------------------------
(* The tabs *)

Open(f) ==
  /\ tab' = [tab EXCEPT ![f] = [open |-> TRUE, fresh |-> TRUE, copy |-> record.row]]
  /\ tab' # tab
  /\ UNCHANGED <<record, status, sessions, byHand>>

\* Nothing stops the user from attaching another PDF.
AttachPdf(f, pdf) ==
  /\ tab[f].open /\ tab[f].copy.pdf # pdf
  /\ tab' = [tab EXCEPT ![f].copy.pdf = pdf]
  /\ UNCHANGED <<record, status, sessions, byHand>>

\* Mutant: the box can be moved until the document is signed.
EditableUntilSigned(copy) == copy.pdf # NoPdf /\ copy.status # "Signed"

\* The viewer shows a PDF, and its box can be moved only in a Draft.
Editable(copy) == copy.pdf # NoPdf /\ copy.status = "Draft"

PlaceBox(f, box) ==
  /\ tab[f].open /\ Editable(tab[f].copy) /\ tab[f].copy.box # box
  /\ tab' = [tab EXCEPT ![f].copy.box = box]
  /\ UNCHANGED <<record, status, sessions, byHand>>

\* The row's `modified` changes: every open copy of it is out of date now.
Modified == tab' = [f \in Tabs |-> [tab[f] EXCEPT !.fresh = FALSE]]

SetStatus(r, new) == status' = [status EXCEPT ![r] = new] /\ byHand' = byHand \ {r}

\* Mutant: status is not looked at.
CreatesRequestAlways(copy) == copy.pdf # NoPdf /\ copy.box # NoBox

\* on_update creates a request for a complete Draft.
CreatesRequest(copy) == copy.status = "Draft" /\ copy.pdf # NoPdf /\ copy.box # NoBox

OpenRequests == {r \in Requests : status[r] \in {"Pending", "In Progress"}}

\* doc.save(): the form's copy becomes the row, then on_update runs; the tab gets
\* the result back.
Write(f, row) ==
  /\ record' = [saved |-> TRUE, row |-> row]
  /\ tab' = [g \in Tabs |-> IF g = f THEN [open |-> TRUE, fresh |-> TRUE, copy |-> row]
                                      ELSE [tab[g] EXCEPT !.fresh = FALSE]]

Saveable(f) == tab[f].open /\ tab[f].copy.pdf # NoPdf /\ (record.saved => tab[f].fresh)

SaveOnly(f) ==
  /\ Saveable(f) /\ (CreatesRequest(tab[f].copy) => OpenRequests # {})
  /\ Write(f, tab[f].copy)
  /\ UNCHANGED <<status, sessions, byHand>>

\* Mutant: the request is inserted, the record not told.
SaveAndCreateUnlinked(f, r) ==
  /\ Saveable(f) /\ CreatesRequest(tab[f].copy) /\ OpenRequests = {}
  /\ status[r] = "absent"
  /\ SetStatus(r, "Pending")
  /\ Write(f, tab[f].copy)
  /\ UNCHANGED sessions

SaveAndCreate(f, r) ==
  /\ Saveable(f) /\ CreatesRequest(tab[f].copy) /\ OpenRequests = {}
  /\ status[r] = "absent"
  /\ SetStatus(r, "Pending")
  /\ Write(f, [tab[f].copy EXCEPT !.status = "Pending", !.request = r])
  /\ UNCHANGED sessions

-----------------------------------------------------------------------------
(* The server's calls *)

\* A write of the record's status that keeps `modified`, and one that does not.
MirrorQuietly(new) == record' = [record EXCEPT !.row.status = new] /\ UNCHANGED tab
Mirror(new)        == record' = [record EXCEPT !.row.status = new] /\ Modified

Initiate(r) ==
  /\ status[r] = "Pending" /\ record.row.box # NoBox
  /\ SetStatus(r, "In Progress")
  /\ sessions' = [sessions EXCEPT ![r] = @ \cup {<<record.row.pdf, record.row.box>>}]
  /\ MirrorQuietly("In Progress")

\* Mutant: the outcome is written as the other calls write, quietly.
FinalizeSignedQuietly(r, s) ==
  /\ s \in sessions[r] /\ status[r] # "purged"
  /\ SetStatus(r, "Signed")
  /\ sessions' = [sessions EXCEPT ![r] = @ \ {s}]
  /\ MirrorQuietly("Signed")

\* finalize does not look at the status again.
FinalizeSigned(r, s) ==
  /\ s \in sessions[r] /\ status[r] # "purged"
  /\ SetStatus(r, "Signed")
  /\ sessions' = [sessions EXCEPT ![r] = @ \ {s}]
  /\ Mirror("Signed")

FinalizeFailed(r, s) ==
  /\ s \in sessions[r] /\ status[r] # "purged"
  /\ SetStatus(r, "Failed")
  /\ sessions' = [sessions EXCEPT ![r] = @ \ {s}]
  /\ Mirror("Failed")

\* Mutant: the hourly job writes a status of its own.
FailUntoldExpired(r) ==
  /\ status[r] = "In Progress"
  /\ SetStatus(r, "Expired")
  /\ UNCHANGED <<record, tab, sessions>>

\* A certificate mismatch in finalize, or the hourly job: the record is not told.
FailUntold(r) ==
  /\ \/ status[r] = "In Progress"
     \/ sessions[r] # {} /\ status[r] # "purged"
  /\ SetStatus(r, "Failed")
  /\ UNCHANGED <<record, tab, sessions>>

\* The Redis key of a session expires.
SessionExpires(r, s) ==
  /\ s \in sessions[r]
  /\ sessions' = [sessions EXCEPT ![r] = @ \ {s}]
  /\ UNCHANGED <<record, tab, status, byHand>>

\* get_signing_status finds an abandoned attempt.
StatusPoll(r) ==
  /\ status[r] = "In Progress"
  /\ SetStatus(r, "Pending")
  /\ MirrorQuietly("Pending")
  /\ UNCHANGED sessions

Retry(r) ==
  /\ status[r] = "Failed"
  /\ SetStatus(r, "Pending")
  /\ Mirror("Pending")
  /\ UNCHANGED sessions

Cancel(r) ==
  /\ status[r] = "Pending"
  /\ SetStatus(r, "Cancelled")
  /\ Mirror("Cancelled")
  /\ UNCHANGED sessions

\* The form of the DSC Signing Request changes its status: what
\* validate_status_transition allows.  Nobody tells the record.
EditStatus(r, new) ==
  /\ \/ status[r] = "Pending" /\ new \in {"In Progress", "Cancelled"}
     \/ status[r] = "In Progress" /\ new \in {"Signed", "Failed"}
     \/ status[r] = "Failed" /\ new = "Pending"
  /\ status' = [status EXCEPT ![r] = new]
  /\ byHand' = IF new \in {"Signed", "Cancelled"} THEN byHand \cup {r} ELSE byHand \ {r}
  /\ UNCHANGED <<record, tab, sessions>>

\* Retention.
Purge(r) ==
  /\ status[r] \in {"Signed", "Failed", "Cancelled"}
  /\ SetStatus(r, "purged")
  /\ UNCHANGED <<record, tab, sessions>>

Next ==
  \/ \E f \in Tabs :
       \/ Open(f) \/ SaveOnly(f)
       \/ \E pdf \in Pdfs : AttachPdf(f, pdf)
       \/ \E box \in Boxes : PlaceBox(f, box)
       \/ \E r \in Requests : SaveAndCreate(f, r)
  \/ \E r \in Requests :
       \/ Initiate(r) \/ FailUntold(r) \/ StatusPoll(r)
       \/ Retry(r) \/ Cancel(r) \/ Purge(r)
       \/ \E new \in RequestStatus : EditStatus(r, new)
       \/ \E s \in sessions[r] : FinalizeSigned(r, s) \/ FinalizeFailed(r, s) \/ SessionExpires(r, s)

Spec == Init /\ [][Next]_vars

-----------------------------------------------------------------------------
(* Properties *)

Created(r) == status[r] # "absent"

\* However many tabs save the record, and whatever status they write back, it gets
\* one signing request in its life: no copy with status Draft is accepted once
\* there is one (dsc_document_sign.py 37-76: "Idempotent").
OneRequestEver == \A q, r \in Requests : Created(q) /\ Created(r) => q = r

\* The end of the story is what the record tells: a tab that was open before
\* cannot write its old status over Signed or Cancelled (finalize and cancel
\* change `modified`, signing.py 456-460, 662-663).  Not so if the ending was
\* chosen in the request's own form: the record is never told.
OutcomeIsShown ==
  \A r \in Requests : status[r] \in {"Signed", "Cancelled"} /\ r \notin byHand =>
    record.row.status = status[r]

\* Once a signing request exists the signature box stays where it is
\* (dsc_document_sign.js 92-94: "Once a signing request exists the placement is
\* locked"), although only the viewer of the tab enforces it.
PlacementIsLocked ==
  [][(\E r \in Requests : Created(r)) => record'.row.box = record.row.box]_vars

\* The part that makes the properties above inductive: once a request exists the
\* row and every copy that could still be saved are past Draft, carry the box of
\* the row, and name the request.
CopiesConsistent ==
  /\ ~record.saved => \A r \in Requests : ~Created(r)
  /\ \A r \in Requests : Created(r) =>
       /\ record.row.status # "Draft" /\ record.row.request = r
       /\ \A f \in Tabs : tab[f].open /\ tab[f].fresh =>
            /\ tab[f].copy.status # "Draft" /\ tab[f].copy.request = r
            /\ tab[f].copy.box = record.row.box
=============================================================================
