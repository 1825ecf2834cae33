----------------------------- MODULE RuleSigning -----------------------------
(***************************************************************************)
(* Rules, templates, requests and gates together: documents are saved and  *)
(* submitted, requests signed, retried, cancelled and purged, rules and    *)
(* templates edited, in any order.                                         *)
(***************************************************************************)
EXTENDS RuleEngine

CONSTANTS
  DocStates,  \* the states documents are saved in (bounds the inputs)
  Editable    \* the rules an administrator edits (bounds the edits)
ASSUME BoundsAssumption == DocStates \subseteq DocRec /\ Editable \subseteq Rules

vars == <<ruleVars, tmpl>>

\* Mutant: only a finished signature counts as a use.
UsedBySigned(t) == \E q \in Requests : req[q].status = "Signed" /\ req[q].template = t

\* _has_signing_history: a request of any status refers to the template.
HasSigningHistory(t) == \E q \in Requests : Exists(q) /\ req[q].template = t

\* Documents start unsubmitted, one template exists and the rules point at it; the
\* hooks may be older than the rules.
Init ==
  /\ doc \in [Docs -> {x \in DocStates : ~x.submitted}]
  /\ req = [q \in Requests |-> NoReq]
  /\ \E t \in Templates, c \in Contents :
       /\ Len(t) = 1
       /\ tmpl = [n \in Templates |->
            IF n = t THEN [exists |-> TRUE, content |-> c, version |-> 1, active |-> TRUE] ELSE NoTmpl]
       /\ rule = [r \in Rules |-> [enabled |-> TRUE, template |-> t]]
  /\ hooked \in BOOLEAN /\ (DefaultTracked => hooked)

SaveTemplate(t, c) ==
  \/ \E active \in BOOLEAN : SaveInPlace(t, c, active, HasSigningHistory(t))
  \/ SaveForked(t, c, HasSigningHistory(t))

DocumentStep ==
  \E d \in Docs, x \in DocStates, u \in Users, lists \in [Profiles -> UserLists] :
    \/ SaveDocument(d, x, u, lists) \/ SubmitDocument(d, x, u, lists)
    \/ UpdateAfterSubmit(d, x, u, lists)

RequestStep ==
  \E q \in Requests :
    \/ \E u \in Users, users \in UserLists : Initiate(q, u, tmpl[req[q].template].content, users)
    \/ FinalizeSigned(q) \/ FinalizeFailed(q) \/ ExpireRequest(q) \/ SessionExpires(q)
    \/ Reopen(q) \/ CancelRequest(q) \/ PurgeRequest(q)
    \/ \E new \in RequestStatus : EditStatus(q, new)

Next ==
  \/ DocumentStep /\ UNCHANGED tmpl
  \/ RequestStep /\ UNCHANGED tmpl
  \/ LoadHooks /\ UNCHANGED tmpl
  \/ \E r \in Editable, on \in BOOLEAN, t \in Templates :
       tmpl[t].exists /\ EditRule(r, on, t) /\ UNCHANGED tmpl
  \/ \E t \in Templates, c \in Contents : SaveTemplate(t, c) /\ UNCHANGED ruleVars
  \/ \E t \in Templates, c \in Contents : CreateTemplate(t, c) /\ UNCHANGED ruleVars

Spec == Init /\ [][Next]_vars

-----------------------------------------------------------------------------
(* Properties *)

TypeOK == RulesTypeOK /\ TemplatesTypeOK

\* However often a document is saved, submitted and changed, and whatever
\* becomes of its requests, no rule has two of them for it
\* (create_signing_request, rule_engine.py 213-227).
OneRequestPerRule ==
  \A p, q \in Requests :
    Exists(p) /\ Exists(q) /\ req[p].doc = req[q].doc /\ req[p].rule = req[q].rule => p = q

\* Under an email gate a mail is refused or carries the file of a signature on this
\* document (next to the unsigned print, if the sender attached that); under rules
\* that block printing and are all mandatory, so does a print.  Of the mails of a
\* document with a request that was set to Signed by hand this says nothing
\* (email_gate.py 16-114, print_gate.py 26-78).
GatedCopiesAreSigned ==
  \A d \in Docs :
    LET files == {req[q].file : q \in SignedOf(d)} \ {NoPdf} IN
    /\ EmailRules # {} /\ (\A q \in SignedOf(d) : ~req[q].byHand)
         => \A print \in BOOLEAN : \A mail \in EmailMake(d, print) :
              mail = Blocked \/ mail.pdf \in files
    /\ PrintRules # {} /\ (\A r \in PrintRules : RuleRec[r].mandatory)
         => \A copy \in DownloadPdf(d) : copy = Blocked \/ copy.pdf \in files

\* As long as a request is kept, its signature is where its template says (or at
\* the anchor of its print format), however the template was edited between rule,
\* initiate and finalize: edits of a used template go to a new version
\* (dsc_signature_template.py 4-8).
PlacementIsReproducible ==
  \A q \in Requests : Exists(q) =>
    /\ tmpl[req[q].template].exists
    /\ \A pdf \in {req[q].prepared, req[q].file} \ {NoPdf} :
         pdf.box = SigBox(pdf.format, tmpl[req[q].template].content)

\* What a rule's conditions say to its reader.
Reads(c, v) ==
  CASE c.operator \in {"is_set", "is_not_set"} -> (c.operator = "is_set") # Unset(v)
    [] c.operator = "greater_than" -> Flt(v) > Flt(c.value)
    [] c.operator = "less_than"    -> Flt(v) < Flt(c.value)
    [] c.operator = "equals"       -> SameValue(v, c.value)
    [] c.operator = "not_equals"   -> ~SameValue(v, c.value)
    [] OTHER -> CheckCondition(c, v)

\* The rules that apply to a submitted document x, as an administrator reads them.
Applies(r, x) ==
  /\ rule[r].enabled /\ RuleRec[r].event = "on_submit"
  /\ RuleRec[r].company \in {NoCompany, x.company}
  /\ \A c \in RuleRec[r].conditions : Reads(c, x.fields[c.field])

\* The rules for submits compare for equality with numerals only, and only
\* fields that hold numbers or numerals.
NumericRules ==
  \A r \in Rules : RuleRec[r].event = "on_submit" =>
    \A c \in RuleRec[r].conditions : c.operator \in {"equals", "not_equals"} =>
      /\ c.value \in DOMAIN FloatOf
      /\ \A x \in DocStates : x.fields[c.field] \in Numbers \cup DOMAIN FloatOf

\* No two rules for submits have the same priority.
DistinctPriorities ==
  \A r, s \in Rules :
    RuleRec[r].event = "on_submit" /\ RuleRec[s].event = "on_submit"
      /\ RuleRec[r].priority = RuleRec[s].priority => r = s

\* A document that is submitted gets a request of the first rule that applies to
\* it, as its reader understands the rule, and of no later one, if the process that
\* serves the submit has loaded hooks for the doctype (rule_engine.py 48-103,
\* hooks.py 51-76).  Holds under NumericRules and DistinctPriorities.
SubmitIsServed ==
  [][\A d \in Docs : hooked /\ ~doc[d].submitted /\ doc'[d].submitted =>
       \A r \in Rules : Applies(r, doc'[d]) =>
         ((\A s \in Rules : Applies(s, doc'[d]) => RuleRec[r].priority <= RuleRec[s].priority)
            <=> HasRequest(d, r)')]_vars

-----------------------------------------------------------------------------
(* What docs and comments of the repository say, where the code does otherwise *)

\* docs/signing-rules.md 37: "all must match for the rule to fire"; the
\* docstring of _coerce_and_compare: "falls back to string comparison".
TextConditionsHold ==
  [][\A q \in Requests : req[q].status = "absent" /\ req'[q].status = "Pending" =>
       \A c \in RuleRec[req'[q].rule].conditions :
         c.operator = "equals" => SameValue(doc'[req'[q].doc].fields[c.field], c.value)]_vars

\* docs/signing-rules.md 25: the rule's print format is "rendered into the PDF
\* to be signed".
SignedInRuleFormat ==
  \A q \in Requests : req[q].file # NoPdf => req[q].file.format = RuleRec[req[q].rule].format

=============================================================================
