----------------------------- MODULE RuleEngine -----------------------------
(***************************************************************************)
(* From a document event to a signed copy leaving the site: the rule       *)
(* engine (rule_engine.py) creates signing requests when a document is     *)
(* saved or submitted, initiate picks one of them for the signer, the      *)
(* print and email gates (print_gate.py, email_gate.py) look for a signed  *)
(* one.  All documents are of one doctype, which all rules target.         *)
(*                                                                         *)
(* Saves of one document exclude each other: doc.save() locks the row and  *)
(* compares its modification time, and the hooks run in its transaction.   *)
(* There is one web process, which has loaded the hooks of the app once.   *)
(* The calls on a request are one action each; their interleavings are the *)
(* subject of SigningRequest.  Every rule has a template.                  *)
(***************************************************************************)
EXTENDS RuleConditions, SignatureTemplate

CONSTANTS
  Docs, Fields,
  Rules,          \* DSC Rules
  RuleRec,        \* what does not change of a rule in this model, see RuleType
  Companies, NoCompany,
  States, NoState,  \* workflow states of a document
  Requests,       \* names a DSC Signing Request can get
  Users, NoUser,
  Managers,       \* users with role-level write permission on requests
  Profiles,
  UserLists,      \* what the allowed_users of a profile can be, in order
  DefaultTracked, \* the doctype is one of _DEFAULT_TRACKED_DOCTYPES
  Formats, DefaultFormat,  \* print formats; the doctype's own
  Anchored,       \* the formats that print a signature anchor
  Boxes, BoxOf,   \* where a signature box can be; the one of a template's contents
  AtAnchor, NoPdf

Events == {"on_submit", "on_update", "on_change", "on_workflow_action"}

RuleType == [event : Events, priority : Int, company : Companies \cup {NoCompany},
             state : States \cup {NoState},
             conditions : SUBSET [field : Fields, operator : Operators, value : Texts],
             profile : Profiles, format : Formats,
             print : BOOLEAN, email : BOOLEAN, mandatory : BOOLEAN]

ASSUME RuleAssumption ==
  /\ NoPdf \notin [box : Boxes \cup {AtAnchor}, format : Formats]
  /\ BoxOf \in [Contents -> Boxes]
  /\ NoUser \notin Users /\ Managers \subseteq Users
  /\ RuleRec \in [Rules -> RuleType]
  /\ DefaultFormat \in Formats
  /\ UserLists \subseteq Seq(Users)
  /\ DefaultTracked \in BOOLEAN

VARIABLES
  doc,    \* the documents
  rule,   \* is_enabled and signature_template of each rule
  req,    \* the signing requests
  hooked  \* doc_events has the doctype

ruleVars == <<doc, rule, req, hooked>>

-----------------------------------------------------------------------------
(* Types *)

DocRec == [fields : [Fields -> Values], company : Companies, state : States \cup {NoState},
           submitted : BOOLEAN]

RequestStatus == {"Pending", "In Progress", "Signed", "Failed", "Cancelled"}

\* A PDF with a signature field: where it is, and the print format.  The stamp in
\* it is the PDF library's own: stamp_text is built, but PdfSigner gets none.
Pdf == [box : Boxes \cup {AtAnchor}, format : Formats]

\* prepared: what the session of the last initiate holds until finalize takes
\* it (an earlier session holds the same); file: signed_file; byHand: it is Signed
\* because the desk has set it so.
ReqRec == [status : RequestStatus,
           doc : Docs, rule : Rules, template : Templates,
           signer : Users \cup {NoUser},
           prepared : Pdf \cup {NoPdf}, file : Pdf \cup {NoPdf}, byHand : BOOLEAN]

NoReq == [status |-> "absent", doc |-> CHOOSE d \in Docs : TRUE, rule |-> CHOOSE r \in Rules : TRUE,
          template |-> CHOOSE t \in Templates : TRUE, signer |-> NoUser,
          prepared |-> NoPdf, file |-> NoPdf, byHand |-> FALSE]

RulesTypeOK ==
  /\ doc \in [Docs -> DocRec]
  /\ rule \in [Rules -> [enabled : BOOLEAN, template : Templates]]
  /\ req \in [Requests -> ReqRec \cup {NoReq}]
  /\ hooked \in BOOLEAN

-----------------------------------------------------------------------------
(* Which rule fires *)

Exists(q) == req[q].status \in RequestStatus

RequestsOf(d) == {q \in Requests : Exists(q) /\ req[q].doc = d}

\* The body of the loop in _evaluate_rules, for document x and event e.
Matches(r, x, e) ==
  /\ rule[r].enabled /\ RuleRec[r].event = e
  /\ RuleRec[r].company \in {NoCompany, x.company}
  /\ e = "on_workflow_action" => RuleRec[r].state \in {NoState, x.state}
  /\ EvaluateConditions(RuleRec[r].conditions, x.fields)

\* Mutant: every match would do.
AnyMatch(x, e) == {r \in Rules : Matches(r, x, e)}

\* The first match wins; rules of equal priority come in no particular order.
FirstMatch(x, e) ==
  LET match == {r \in Rules : Matches(r, x, e)} IN
  {r \in match : \A s \in match : RuleRec[r].priority <= RuleRec[s].priority}

\* Mutant: only open requests count.
HasOpenRequest(d, r) ==
  \E q \in RequestsOf(d) : req[q].rule = r /\ req[q].status \in {"Pending", "In Progress"}

\* create_signing_request's check: a request of any status counts.
HasRequest(d, r) == \E q \in RequestsOf(d) : req[q].rule = r

\* _resolve_signer_user, called by user u for a profile with this list.
ResolveSignerUser(users, u) ==
  CASE users = <<>>                      -> NoUser
    [] \E i \in DOMAIN users : users[i] = u -> u
    [] OTHER                             -> users[1]

NewRequest(d, r, u, users) ==
  [status |-> "Pending", doc |-> d, rule |-> r, template |-> rule[r].template,
   signer |-> ResolveSignerUser(users, u), prepared |-> NoPdf, file |-> NoPdf, byHand |-> FALSE]

\* The hooks of one save of d by u, which leaves it as x: one pass over the
\* rules for each event that fires.  A rule belongs to one event, so the passes
\* do not meet.  lists are the allowed users of the profiles at that time.
Evaluate(d, x, events, u, lists) ==
  \E picked \in SUBSET UNION {FirstMatch(x, e) : e \in events} :
    /\ \A e \in events : FirstMatch(x, e) # {} =>
         \E r \in FirstMatch(x, e) : picked \cap FirstMatch(x, e) = {r}
    /\ LET new == {r \in picked : ~HasRequest(d, r)} IN
       \E name \in [new -> {q \in Requests : ~Exists(q)}] :
         /\ \A r, s \in new : name[r] = name[s] => r = s
         /\ req' = [q \in Requests |->
                      IF \E r \in new : name[r] = q
                      THEN LET r == CHOOSE r \in new : name[r] = q
                           IN  NewRequest(d, r, u, lists[RuleRec[r].profile])
                      ELSE req[q]]

\* The hooks run only if the doctype was tracked when they were loaded.
Hooks(d, x, events, u, lists) ==
  IF hooked THEN Evaluate(d, x, events, u, lists) ELSE UNCHANGED req

\* The process starts, or its cache is cleared: _get_tracked_doctypes asks for the
\* doctypes of enabled rules, if the database can be asked.
LoadHooks ==
  /\ \E asked \in BOOLEAN :
       hooked' = (DefaultTracked \/ (asked /\ \E r \in Rules : rule[r].enabled))
  /\ UNCHANGED <<doc, rule, req>>

\* evaluate_on_change: the workflow rules only when the state is another one.
ChangeEvents(old, x) ==
  {"on_change"} \cup (IF x.state \notin {NoState, old.state} THEN {"on_workflow_action"} ELSE {})

\* A save of a document that is not submitted.
SaveDocument(d, x, u, lists) ==
  /\ ~doc[d].submitted /\ ~x.submitted
  /\ doc' = [doc EXCEPT ![d] = x]
  /\ Hooks(d, x, ChangeEvents(doc[d], x), u, lists)
  /\ UNCHANGED <<rule, hooked>>

SubmitDocument(d, x, u, lists) ==
  /\ ~doc[d].submitted /\ x.submitted
  /\ doc' = [doc EXCEPT ![d] = x]
  /\ Hooks(d, x, {"on_submit"} \cup ChangeEvents(doc[d], x), u, lists)
  /\ UNCHANGED <<rule, hooked>>

\* A change of a submitted document.
UpdateAfterSubmit(d, x, u, lists) ==
  /\ doc[d].submitted /\ x.submitted
  /\ doc' = [doc EXCEPT ![d] = x]
  /\ Hooks(d, x, {"on_update"} \cup ChangeEvents(doc[d], x), u, lists)
  /\ UNCHANGED <<rule, hooked>>

\* An administrator edits a rule; the doctype has no controller code.
EditRule(r, enabled, t) ==
  /\ rule' = [rule EXCEPT ![r] = [enabled |-> enabled, template |-> t]]
  /\ rule' # rule
  /\ UNCHANGED <<doc, req, hooked>>

-----------------------------------------------------------------------------
(* A request's life, in the large *)

\* The checks of initiate on user u; users is the list of the request's profile,
\* which may not be the one the signer was chosen from.
Authorised(u, q, users) ==
  /\ req[q].signer \in {NoUser, u} \/ u \in Managers
  /\ users = <<>> \/ \E i \in DOMAIN users : users[i] = u

\* The columns initiate asks the database for, and the print format it takes
\* from them: the rule's if the row has a rule, else the doctype's.
InitiateRow(q) ==
  [name |-> q, profile |-> RuleRec[req[q].rule].profile,
   signature_template |-> req[q].template, expected_signer_user |-> req[q].signer]

PrintFormat(row) ==
  IF "rule" \in DOMAIN row THEN RuleRec[row.rule].format ELSE DefaultFormat

SetReq(q, new) == req' = [req EXCEPT ![q] = new] /\ UNCHANGED <<doc, rule, hooked>>

\* prepare_pdf_for_signing: an anchor in the print goes before the template.
SigBox(format, content) == IF format \in Anchored THEN AtAnchor ELSE BoxOf[content]

\* initiate, on SOME pending request of the document; content is what the
\* request's template holds.
Initiate(q, u, content, users) ==
  LET format == PrintFormat(InitiateRow(q)) IN
  /\ req[q].status = "Pending" /\ Authorised(u, q, users)
  /\ SetReq(q, [req[q] EXCEPT !.status = "In Progress",
                 !.prepared = [box |-> SigBox(format, content), format |-> format]])

\* Mutant: the request is marked before the file is saved.
FinalizeSignedWithoutFile(q) ==
  /\ req[q].prepared # NoPdf
  /\ SetReq(q, [req[q] EXCEPT !.status = "Signed", !.prepared = NoPdf, !.byHand = FALSE])

\* finalize takes the session and does not look at the status again.
FinalizeSigned(q) ==
  /\ req[q].prepared # NoPdf
  /\ SetReq(q, [req[q] EXCEPT !.status = "Signed", !.file = req[q].prepared, !.prepared = NoPdf,
                              !.byHand = FALSE])

\* What fails after signed_file was written leaves it there.
FinalizeFailed(q) ==
  /\ req[q].prepared # NoPdf
  /\ \E file \in {req[q].file, req[q].prepared} :
       SetReq(q, [req[q] EXCEPT !.status = "Failed", !.file = file, !.prepared = NoPdf,
                                  !.byHand = FALSE])

\* Mutant: the hourly job writes a status of its own.
ExpireRequestExpired(q) ==
  /\ req[q].status = "In Progress"
  /\ SetReq(q, [req[q] EXCEPT !.status = "Expired"])

\* The hourly job fails what takes too long, finalize what comes with another
\* certificate; the session stays.
ExpireRequest(q) ==
  /\ req[q].status = "In Progress" \/ req[q].prepared # NoPdf
  /\ SetReq(q, [req[q] EXCEPT !.status = "Failed", !.byHand = FALSE])

\* The Redis key of the session expires.
SessionExpires(q) ==
  /\ req[q].prepared # NoPdf
  /\ SetReq(q, [req[q] EXCEPT !.prepared = NoPdf])

\* retry after a failure, or a status poll that finds the attempt abandoned.
Reopen(q) ==
  /\ req[q].status \in {"Failed", "In Progress"}
  /\ SetReq(q, [req[q] EXCEPT !.status = "Pending"])

CancelRequest(q) ==
  /\ req[q].status = "Pending"
  /\ SetReq(q, [req[q] EXCEPT !.status = "Cancelled"])

\* The status is changed in the form, as validate_status_transition allows; no
\* other transition is left that initiate, retry or cancel could not have made.
EditStatus(q, new) ==
  /\ \/ req[q].status = "In Progress" /\ new \in {"Signed", "Failed"}
     \/ req[q].status = "Pending" /\ new \in {"In Progress", "Cancelled"}
     \/ req[q].status = "Failed" /\ new = "Pending"
  /\ SetReq(q, [req[q] EXCEPT !.status = new, !.byHand = (new = "Signed")])

\* Retention deletes the row; its name is free again, which stands for the new
\* name a later request would get.
PurgeRequest(q) ==
  /\ req[q].status \in {"Signed", "Failed", "Cancelled"}
  /\ SetReq(q, NoReq)

-----------------------------------------------------------------------------
(* The gates: what a reader of document d gets *)

SignedOf(d) == {q \in RequestsOf(d) : req[q].status = "Signed"}

PrintRules == {r \in Rules : rule[r].enabled /\ RuleRec[r].print}
EmailRules == {r \in Rules : rule[r].enabled /\ RuleRec[r].email}

\* A print that leaves, or does not: a signed file, the ordinary print, or an
\* error.
Signed(pdf) == [kind |-> "signed", pdf |-> pdf]
Unsigned    == [kind |-> "unsigned", pdf |-> NoPdf]
Blocked     == [kind |-> "blocked", pdf |-> NoPdf]

\* download_pdf: the copies d may be printed as.  One of the blocking rules and
\* one of the signed requests is looked at; neither query says which.
DownloadPdf(d) ==
  LET fallback == {IF RuleRec[r].mandatory THEN Blocked ELSE Unsigned : r \in PrintRules} IN
  IF PrintRules = {} THEN {Unsigned}
  ELSE IF SignedOf(d) = {} THEN fallback
  ELSE UNION {IF req[q].file = NoPdf THEN fallback ELSE {Signed(req[q].file)} : q \in SignedOf(d)}

\* A mail: whether it has the print the sender asked for, and the file attached.
Mail(print, pdf) == [kind |-> "mail", print |-> print, pdf |-> pdf]

\* make: check_email_allowed, then get_signed_pdf_for_attachment.  The signed file
\* comes on top of what the sender put in, the ordinary print too.
EmailMake(d, print) ==
  IF SignedOf(d) = {} THEN {IF EmailRules = {} THEN Mail(print, NoPdf) ELSE Blocked}
  ELSE {Mail(print, req[q].file) : q \in SignedOf(d)}
=============================================================================
