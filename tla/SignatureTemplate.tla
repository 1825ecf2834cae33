-------------------------- MODULE SignatureTemplate --------------------------
(***************************************************************************)
(* DSC Signature Templates and their versions (dsc_signature_template.py). *)
(* The name of a template is a sequence of numbers: the fork of template t *)
(* as version v is t with v appended, as "<name> v<v>" is.                 *)
(***************************************************************************)
EXTENDS Integers, Sequences

CONSTANTS
  Templates,  \* names a template can get (bounds the forks)
  Contents    \* contents of the versioned fields

ASSUME TemplateAssumption == Templates \subseteq Seq(Nat)

VARIABLE tmpl  \* the templates

TmplRec == [exists : BOOLEAN, content : Contents, version : Nat, active : BOOLEAN]

TemplatesTypeOK == tmpl \in [Templates -> TmplRec]

NoTmpl == [exists |-> FALSE, content |-> CHOOSE c \in Contents : TRUE, version |-> 0, active |-> FALSE]

\* A new document: before_save gives it version 1.
CreateTemplate(t, content) ==
  /\ ~tmpl[t].exists
  /\ tmpl' = [tmpl EXCEPT ![t] = [exists |-> TRUE, content |-> content, version |-> 1, active |-> TRUE]]

\* _fork_new_version's name for the next version of t.
ForkName(t) == Append(t, tmpl[t].version + 1)

\* Saving template t with new contents, or with is_active changed.  used says
\* whether a signing request refers to t.
SaveInPlace(t, content, active, used) ==
  /\ tmpl[t].exists /\ (used => content = tmpl[t].content)
  /\ tmpl' = [tmpl EXCEPT ![t] = [@ EXCEPT !.content = content, !.active = active]]
  /\ tmpl' # tmpl

\* The contents of a used template changed: they go to a new version, t itself is
\* rolled back and deactivated.  A name that is taken makes the insert raise,
\* and the save is refused.
SaveForked(t, content, used) ==
  /\ tmpl[t].exists /\ used /\ content # tmpl[t].content
  /\ ForkName(t) \in Templates /\ ~tmpl[ForkName(t)].exists
  /\ tmpl' = [tmpl EXCEPT
       ![ForkName(t)] = [exists |-> TRUE, content |-> content,
                         version |-> tmpl[t].version + 1, active |-> TRUE],
       ![t].active = FALSE]
=============================================================================
