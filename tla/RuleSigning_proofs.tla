------------------------- MODULE RuleSigning_proofs -------------------------
(***************************************************************************)
(* The invariants of RuleSigning, for any rules, documents, users and      *)
(* templates.  Every action either creates requests (Evaluate) or changes  *)
(* one; the invariant says of each request that its template exists, that  *)
(* its signature is where that template says, and that it has a file if a  *)
(* finalize call has set it to Signed.                                     *)
(***************************************************************************)
EXTENDS RuleSigning, TLAPS

\* A rule points at a template that exists.
RulesPointAtTemplates == \A r \in Rules : tmpl[rule[r].template].exists

SignedHasFile ==
  \A q \in Requests : req[q].status = "Signed" /\ ~req[q].byHand => req[q].file # NoPdf

IInv ==
  /\ TypeOK /\ OneRequestPerRule /\ PlacementIsReproducible
  /\ RulesPointAtTemplates /\ SignedHasFile

-----------------------------------------------------------------------------
(* What the rule engine creates *)

LEMMA NoReqAbsent == NoReq.status = "absent" /\ ~(NoReq.status \in RequestStatus)
  BY DEF NoReq, RequestStatus

LEMMA NewRequestRow ==
  ASSUME TypeOK, NEW d \in Docs, NEW r \in Rules, NEW u \in Users, NEW users \in UserLists
  PROVE  LET n == NewRequest(d, r, u, users) IN
         /\ n \in ReqRec /\ n.status = "Pending" /\ n.doc = d /\ n.rule = r
         /\ n.template = rule[r].template /\ n.prepared = NoPdf /\ n.file = NoPdf
<1>1. rule[r].template \in Templates
  BY DEF TypeOK, RulesTypeOK
<1>2. users \in Seq(Users)
  BY RuleAssumption
<1>3. users # <<>> => users[1] \in Users
  BY <1>2
<1>4. ResolveSignerUser(users, u) \in Users \cup {NoUser}
  BY <1>3 DEF ResolveSignerUser
<1> QED BY <1>1, <1>4 DEF NewRequest, ReqRec, RequestStatus

\* A pass of the engine over the rules that are picked, the first one of each
\* event: each of them has a request for d afterwards, and only they get one.
Serves(d, x, events, picked) ==
  /\ \A e \in events : FirstMatch(x, e) # {} =>
       \E r \in FirstMatch(x, e) : picked \cap FirstMatch(x, e) = {r}
  /\ \A r \in picked : HasRequest(d, r)'
  /\ \A q \in Requests : req'[q] # req[q] => req'[q].doc = d /\ req'[q].rule \in picked

\* The row of a request of rule r.
Row(d, r, u, lists) == NewRequest(d, r, u, lists[RuleRec[r].profile])

LEMMA RowOf ==
  ASSUME TypeOK, NEW d \in Docs, NEW r \in Rules, NEW u \in Users,
         NEW lists \in [Profiles -> UserLists]
  PROVE  LET n == Row(d, r, u, lists) IN
         /\ n \in ReqRec /\ n.status = "Pending" /\ n.doc = d /\ n.rule = r
         /\ n.template = rule[r].template /\ n.prepared = NoPdf /\ n.file = NoPdf
<1>1. RuleRec[r].profile \in Profiles
  BY RuleAssumption DEF RuleType
<1> QED BY <1>1, NewRequestRow DEF Row

\* The rows after a pass of the engine are the old ones, and one new row for each
\* picked rule that had none for the document.
LEMMA EvaluateRows ==
  ASSUME TypeOK, NEW d \in Docs, NEW x, NEW events, NEW u \in Users,
         NEW lists \in [Profiles -> UserLists], Evaluate(d, x, events, u, lists)
  PROVE  /\ req' \in [Requests -> ReqRec \cup {NoReq}]
         /\ \A q \in Requests :
              \/ req'[q] = req[q]
              \/ ~Exists(q) /\ \E r \in Rules : ~HasRequest(d, r) /\ req'[q] = Row(d, r, u, lists)
         /\ \A p, q \in Requests :
              req'[p] # req[p] /\ req'[q] # req[q] /\ req'[p].rule = req'[q].rule => p = q
         /\ \E picked \in SUBSET UNION {FirstMatch(x, e) : e \in events} :
              Serves(d, x, events, picked)
<1>1. PICK picked \in SUBSET UNION {FirstMatch(x, e) : e \in events} :
         /\ \A e \in events : FirstMatch(x, e) # {} =>
              \E r \in FirstMatch(x, e) : picked \cap FirstMatch(x, e) = {r}
         /\ LET new == {r \in picked : ~HasRequest(d, r)} IN
            \E name \in [new -> {q \in Requests : ~Exists(q)}] :
              /\ \A r, s \in new : name[r] = name[s] => r = s
              /\ req' = [q \in Requests |->
                           IF \E r \in new : name[r] = q
                           THEN LET r == CHOOSE r \in new : name[r] = q
                                IN  NewRequest(d, r, u, lists[RuleRec[r].profile])
                           ELSE req[q]]
  BY Zenon DEF Evaluate
<1> DEFINE new == {r \in picked : ~HasRequest(d, r)}
<1>name. PICK name \in [new -> {q \in Requests : ~Exists(q)}] :
           /\ \A r, s \in new : name[r] = name[s] => r = s
           /\ req' = [q \in Requests |->
                        IF \E r \in new : name[r] = q
                        THEN LET r == CHOOSE r \in new : name[r] = q
                             IN  NewRequest(d, r, u, lists[RuleRec[r].profile])
                        ELSE req[q]]
  BY <1>1
<1> DEFINE ruleOf(q) == CHOOSE r \in new : name[r] = q
<1>2. new \subseteq Rules
  BY DEF FirstMatch
<1>3. \A q \in Requests : (\E r \in new : name[r] = q) => ruleOf(q) \in new /\ name[ruleOf(q)] = q
  OBVIOUS
<1>4. \A r \in new : ~HasRequest(d, r) /\ name[r] \in Requests /\ ~Exists(name[r])
  BY <1>name
<1>5. req' = [q \in Requests |-> IF \E r \in new : name[r] = q THEN Row(d, ruleOf(q), u, lists) ELSE req[q]]
  BY <1>name DEF Row
<1> HIDE DEF new, ruleOf
<1>6. \A q \in Requests : req'[q] # req[q] =>
        ruleOf(q) \in new /\ name[ruleOf(q)] = q /\ req'[q] = Row(d, ruleOf(q), u, lists)
  BY <1>3, <1>5
<1>7. req' \in [Requests -> ReqRec \cup {NoReq}]
  BY <1>2, <1>3, <1>5, RowOf DEF TypeOK, RulesTypeOK
<1>8. \A q \in Requests : req'[q] # req[q] =>
        ~Exists(q) /\ \E r \in Rules : ~HasRequest(d, r) /\ req'[q] = Row(d, r, u, lists)
  BY <1>2, <1>4, <1>6
<1>9. ASSUME NEW p \in Requests, NEW q \in Requests,
             req'[p] # req[p], req'[q] # req[q], req'[p].rule = req'[q].rule
      PROVE  p = q
  <2>1. req'[p].rule = ruleOf(p) /\ req'[q].rule = ruleOf(q)
    BY <1>2, <1>6, <1>9, RowOf
  <2> QED BY <1>6, <1>9, <2>1
<1>10. \A q \in Requests : req'[q] # req[q] => req'[q].doc = d /\ req'[q].rule \in picked
  <2>1. new \subseteq picked
    BY DEF new
  <2> QED BY <1>2, <1>6, <2>1, RowOf
<1>11. ASSUME NEW r \in picked PROVE HasRequest(d, r)'
  <2>1. CASE HasRequest(d, r)
    <3>1. PICK q \in Requests : Exists(q) /\ req[q].doc = d /\ req[q].rule = r
      BY <2>1 DEF HasRequest, RequestsOf
    <3>2. req'[q] = req[q]
      BY <1>8, <3>1
    <3> QED BY <3>1, <3>2 DEF HasRequest, RequestsOf, Exists
  <2>2. CASE ~HasRequest(d, r)
    <3>1. r \in new
      BY <2>2 DEF new
    <3>2. name[r] \in Requests /\ ruleOf(name[r]) \in new /\ name[ruleOf(name[r])] = name[r]
      BY <1>3, <1>4, <3>1
    <3>3. ruleOf(name[r]) = r
      BY <1>name, <3>1, <3>2 DEF new
    <3>4. req'[name[r]] = Row(d, r, u, lists)
      BY <1>5, <3>1, <3>2, <3>3
    <3>5. r \in Rules
      BY <1>2, <3>1
    <3>6. req'[name[r]].status = "Pending" /\ req'[name[r]].doc = d /\ req'[name[r]].rule = r
      BY <3>4, <3>5, RowOf
    <3> QED BY <3>2, <3>6 DEF HasRequest, RequestsOf, Exists, RequestStatus
  <2> QED BY <2>1, <2>2
<1>12. Serves(d, x, events, picked)
  BY <1>1, <1>10, <1>11 DEF Serves
<1> QED BY <1>7, <1>8, <1>9, <1>12

-----------------------------------------------------------------------------
(* Each action keeps the invariant *)

LEMMA InitIInv == Init => IInv
<1> SUFFICES ASSUME Init PROVE IInv
  OBVIOUS
<1>1. PICK t \in Templates, c \in Contents :
        /\ tmpl = [n \in Templates |->
             IF n = t THEN [exists |-> TRUE, content |-> c, version |-> 1, active |-> TRUE] ELSE NoTmpl]
        /\ rule = [r \in Rules |-> [enabled |-> TRUE, template |-> t]]
  BY DEF Init
<1>2. NoTmpl \in TmplRec
  BY <1>1 DEF NoTmpl, TmplRec
<1>3. TemplatesTypeOK
  BY <1>1, <1>2 DEF TemplatesTypeOK, TmplRec
<1>4. RulesTypeOK
  BY <1>1, BoundsAssumption DEF Init, RulesTypeOK
<1>5. \A q \in Requests : req[q] = NoReq /\ ~Exists(q)
  BY NoReqAbsent DEF Init, Exists
<1>6. OneRequestPerRule /\ PlacementIsReproducible
  BY <1>5 DEF OneRequestPerRule, PlacementIsReproducible
<1>7. SignedHasFile
  BY <1>5, NoReqAbsent DEF SignedHasFile
<1>8. RulesPointAtTemplates
  BY <1>1 DEF RulesPointAtTemplates
<1> QED BY <1>3, <1>4, <1>6, <1>7, <1>8 DEF IInv, TypeOK

\* A save under hooks that are not those of the doctype changes the document only.
LEMMA UnhookedKeeps ==
  ASSUME IInv, NEW d \in Docs, NEW x \in DocStates, doc' = [doc EXCEPT ![d] = x],
         UNCHANGED <<req, rule, hooked, tmpl>>
  PROVE  IInv'
<1>1. TypeOK'
  BY BoundsAssumption DEF IInv, TypeOK, RulesTypeOK, TemplatesTypeOK
<1>2. OneRequestPerRule' /\ PlacementIsReproducible' /\ SignedHasFile' /\ RulesPointAtTemplates'
  BY DEF IInv, OneRequestPerRule, PlacementIsReproducible, SignedHasFile, RulesPointAtTemplates, Exists
<1> QED BY <1>1, <1>2 DEF IInv

\* Saves: the engine adds rows, nothing else changes but the document.
LEMMA EvaluateKeeps ==
  ASSUME IInv, NEW d \in Docs, NEW x \in DocStates, NEW events, NEW u \in Users,
         NEW lists \in [Profiles -> UserLists],
         Evaluate(d, x, events, u, lists), doc' = [doc EXCEPT ![d] = x], UNCHANGED <<rule, hooked, tmpl>>
  PROVE  IInv'
<1>1. TypeOK
  BY DEF IInv
<1>2. /\ req' \in [Requests -> ReqRec \cup {NoReq}]
      /\ \A q \in Requests :
           \/ req'[q] = req[q]
           \/ ~Exists(q) /\ \E r \in Rules : ~HasRequest(d, r) /\ req'[q] = Row(d, r, u, lists)
      /\ \A p, q \in Requests :
           req'[p] # req[p] /\ req'[q] # req[q] /\ req'[p].rule = req'[q].rule => p = q
  BY <1>1, EvaluateRows
<1>3. \A q \in Requests : req'[q] # req[q] =>
        /\ ~Exists(q) /\ req'[q].doc = d /\ req'[q].rule \in Rules
        /\ ~HasRequest(d, req'[q].rule)
        /\ req'[q].status = "Pending" /\ req'[q].prepared = NoPdf /\ req'[q].file = NoPdf
        /\ req'[q].template = rule[req'[q].rule].template
  BY <1>1, <1>2, RowOf
<1>4. TypeOK'
  BY <1>1, <1>2, BoundsAssumption DEF TypeOK, RulesTypeOK, TemplatesTypeOK
<1>5. OneRequestPerRule'
  <2> SUFFICES ASSUME NEW p \in Requests, NEW q \in Requests, Exists(p)', Exists(q)',
                      req'[p].doc = req'[q].doc, req'[p].rule = req'[q].rule
               PROVE  p = q
    BY DEF OneRequestPerRule
  <2>1. CASE req'[p] # req[p] /\ req'[q] # req[q]
    BY <1>2, <2>1
  <2>2. CASE req'[p] = req[p] /\ req'[q] = req[q]
    BY <2>2 DEF IInv, OneRequestPerRule, Exists
  <2>3. CASE req'[p] = req[p] /\ req'[q] # req[q]
    BY <1>3, <2>3 DEF HasRequest, RequestsOf, Exists
  <2>4. CASE req'[p] # req[p] /\ req'[q] = req[q]
    BY <1>3, <2>4 DEF HasRequest, RequestsOf, Exists
  <2> QED BY <2>1, <2>2, <2>3, <2>4
<1>6. PlacementIsReproducible'
  BY <1>3 DEF IInv, PlacementIsReproducible, RulesPointAtTemplates, Exists
<1>7. SignedHasFile'
  BY <1>3 DEF IInv, SignedHasFile
<1>8. RulesPointAtTemplates'
  BY DEF IInv, RulesPointAtTemplates
<1> QED BY <1>4, <1>5, <1>6, <1>7, <1>8 DEF IInv

\* What initiate would prepare for q now: in the doctype's format.
Fresh(q) == [box |-> SigBox(DefaultFormat, tmpl[req[q].template].content), format |-> DefaultFormat]

\* A call on a request keeps what the request is about; what it prepares is fresh,
\* what it files was prepared.
CallOn(q, new) ==
  /\ Exists(q) /\ new.doc = req[q].doc /\ new.rule = req[q].rule /\ new.template = req[q].template
  /\ new.prepared \in {req[q].prepared, NoPdf, Fresh(q)}
  /\ new.file \in {req[q].file, req[q].prepared}
  /\ new.status = "Signed" /\ ~new.byHand => new.file # NoPdf

LEMMA RequestStepForm ==
  ASSUME IInv, RequestStep
  PROVE  \E q \in Requests, new \in ReqRec \cup {NoReq} : SetReq(q, new) /\ (new = NoReq \/ CallOn(q, new))
<1>1. PICK q \in Requests :
        \/ \E u \in Users, users \in UserLists : Initiate(q, u, tmpl[req[q].template].content, users)
        \/ FinalizeSigned(q) \/ FinalizeFailed(q) \/ ExpireRequest(q) \/ SessionExpires(q)
        \/ Reopen(q) \/ CancelRequest(q) \/ PurgeRequest(q)
        \/ \E new \in RequestStatus : EditStatus(q, new)
  BY DEF RequestStep
<1>2. CASE PurgeRequest(q)
  BY <1>2 DEF PurgeRequest
<1> SUFFICES ASSUME ~PurgeRequest(q)
             PROVE  \E new \in ReqRec : SetReq(q, new) /\ CallOn(q, new)
  BY <1>2
<1>3. req[q] \in ReqRec /\ Exists(q)
  <2>1. req[q].prepared # NoPdf \/ req[q].status \in RequestStatus
    BY <1>1 DEF Initiate, FinalizeSigned, FinalizeFailed, ExpireRequest, SessionExpires, Reopen,
                CancelRequest, EditStatus, RequestStatus
  <2>2. NoReq.prepared = NoPdf
    BY DEF NoReq
  <2>3. req[q] \in ReqRec
    BY <2>1, <2>2, NoReqAbsent DEF IInv, TypeOK, RulesTypeOK
  <2> QED BY <2>3 DEF Exists, ReqRec
<1>4. ASSUME NEW s \in RequestStatus, NEW prepared \in {req[q].prepared, NoPdf, Fresh(q)},
             NEW file \in {req[q].file, req[q].prepared}, NEW byHand \in BOOLEAN,
             s = "Signed" /\ ~byHand => file # NoPdf, prepared \in Pdf \cup {NoPdf},
             NEW new, SetReq(q, new),
             new = [req[q] EXCEPT !.status = s, !.prepared = prepared, !.file = file, !.byHand = byHand]
      PROVE  \E n \in ReqRec : SetReq(q, n) /\ CallOn(q, n)
  <2>1. /\ new \in ReqRec /\ new.prepared = prepared /\ new.file = file
        /\ new.doc = req[q].doc /\ new.rule = req[q].rule /\ new.template = req[q].template
        /\ new.status = s /\ new.byHand = byHand
    BY <1>3, <1>4 DEF ReqRec
  <2>2. CallOn(q, new)
    BY <1>3, <1>4, <2>1 DEF CallOn
  <2> QED BY <1>4, <2>1, <2>2
<1>5. /\ req[q].status \in RequestStatus /\ req[q].prepared \in Pdf \cup {NoPdf}
      /\ req[q].byHand \in BOOLEAN
      /\ req[q].status = "Signed" /\ ~req[q].byHand => req[q].file # NoPdf
  BY <1>3 DEF ReqRec, IInv, SignedHasFile
<1>6. CASE \E u \in Users, users \in UserLists : Initiate(q, u, tmpl[req[q].template].content, users)
  <2> DEFINE pdf == Fresh(q)
             new == [req[q] EXCEPT !.status = "In Progress", !.prepared = pdf]
  <2>1. PrintFormat(InitiateRow(q)) = DefaultFormat
    BY DEF PrintFormat, InitiateRow
  <2>2. tmpl[req[q].template].content \in Contents
    BY <1>3 DEF IInv, TypeOK, TemplatesTypeOK, TmplRec, ReqRec
  <2>3. pdf \in Pdf
    BY <2>2, RuleAssumption DEF Pdf, Fresh, SigBox
  <2>4. SetReq(q, new)
    BY <1>6, <2>1 DEF Initiate, Fresh
  <2> HIDE DEF pdf
  <2>5. new = [req[q] EXCEPT !.status = "In Progress", !.prepared = pdf, !.file = req[q].file,
                             !.byHand = req[q].byHand]
    BY <1>3 DEF ReqRec
  <2> HIDE DEF new
  <2>6. pdf \in {req[q].prepared, NoPdf, Fresh(q)}
    BY DEF pdf
  <2> QED BY <1>4, <1>5, <2>3, <2>4, <2>5, <2>6 DEF RequestStatus
<1>7. CASE FinalizeSigned(q)
  <2> DEFINE new == [req[q] EXCEPT !.status = "Signed", !.file = req[q].prepared, !.prepared = NoPdf,
                                   !.byHand = FALSE]
  <2>1. new = [req[q] EXCEPT !.status = "Signed", !.prepared = NoPdf, !.file = req[q].prepared,
                             !.byHand = FALSE]
    BY <1>3 DEF ReqRec
  <2>2. SetReq(q, new) /\ req[q].prepared # NoPdf
    BY <1>7 DEF FinalizeSigned
  <2> HIDE DEF new
  <2> QED BY <1>4, <2>1, <2>2 DEF RequestStatus
<1>8. CASE FinalizeFailed(q)
  <2>0. PICK file \in {req[q].file, req[q].prepared} :
          SetReq(q, [req[q] EXCEPT !.status = "Failed", !.file = file, !.prepared = NoPdf, !.byHand = FALSE])
    BY <1>8 DEF FinalizeFailed
  <2> DEFINE new == [req[q] EXCEPT !.status = "Failed", !.file = file, !.prepared = NoPdf, !.byHand = FALSE]
  <2>1. new = [req[q] EXCEPT !.status = "Failed", !.prepared = NoPdf, !.file = file, !.byHand = FALSE]
    BY <1>3 DEF ReqRec
  <2>2. SetReq(q, new)
    BY <2>0
  <2> HIDE DEF new
  <2> QED BY <1>4, <2>1, <2>2 DEF RequestStatus
<1>9. CASE SessionExpires(q)
  <2> DEFINE new == [req[q] EXCEPT !.prepared = NoPdf]
  <2>1. new = [req[q] EXCEPT !.status = req[q].status, !.prepared = NoPdf, !.file = req[q].file,
                             !.byHand = req[q].byHand]
    BY <1>3 DEF ReqRec
  <2>2. SetReq(q, new)
    BY <1>9 DEF SessionExpires
  <2> HIDE DEF new
  <2> QED BY <1>4, <1>5, <2>1, <2>2
<1>10. CASE Reopen(q) \/ CancelRequest(q)
  <2>1. PICK s \in {"Pending", "Cancelled"} : SetReq(q, [req[q] EXCEPT !.status = s])
    BY <1>10 DEF Reopen, CancelRequest
  <2> DEFINE new == [req[q] EXCEPT !.status = s]
  <2>2. new = [req[q] EXCEPT !.status = s, !.prepared = req[q].prepared, !.file = req[q].file,
                             !.byHand = req[q].byHand]
    BY <1>3 DEF ReqRec
  <2>3. SetReq(q, new)
    BY <2>1
  <2> HIDE DEF new
  <2> QED BY <1>4, <1>5, <2>2, <2>3 DEF RequestStatus
<1>11. CASE ExpireRequest(q) \/ \E s \in RequestStatus : EditStatus(q, s)
  <2>1. PICK s \in RequestStatus, byHand \in BOOLEAN :
          /\ SetReq(q, [req[q] EXCEPT !.status = s, !.byHand = byHand])
          /\ byHand \/ s # "Signed"
    <3>1. CASE ExpireRequest(q)
      BY <3>1 DEF ExpireRequest, RequestStatus
    <3>2. ASSUME NEW s \in RequestStatus, EditStatus(q, s)
          PROVE  SetReq(q, [req[q] EXCEPT !.status = s, !.byHand = (s = "Signed")])
      BY <3>2 DEF EditStatus
    <3> QED BY <1>11, <3>1, <3>2
  <2> DEFINE new == [req[q] EXCEPT !.status = s, !.byHand = byHand]
  <2>2. new = [req[q] EXCEPT !.status = s, !.prepared = req[q].prepared, !.file = req[q].file,
                             !.byHand = byHand]
    BY <1>3 DEF ReqRec
  <2>3. SetReq(q, new)
    BY <2>1
  <2> HIDE DEF new
  <2> QED BY <1>4, <1>5, <2>1, <2>2, <2>3
<1> QED BY <1>1, <1>6, <1>7, <1>8, <1>9, <1>10, <1>11

LEMMA PurgeKeeps ==
  ASSUME IInv, NEW q \in Requests, SetReq(q, NoReq), UNCHANGED tmpl
  PROVE  IInv'
<1>1. /\ req' = [req EXCEPT ![q] = NoReq] /\ req \in [Requests -> ReqRec \cup {NoReq}]
      /\ UNCHANGED <<doc, rule, hooked, tmpl>>
  BY DEF SetReq, IInv, TypeOK, RulesTypeOK
<1>2. TypeOK' /\ RulesPointAtTemplates'
  BY <1>1 DEF IInv, TypeOK, RulesTypeOK, TemplatesTypeOK, RulesPointAtTemplates
<1>3. \A p \in Requests : Exists(p)' => Exists(p) /\ req'[p] = req[p]
  BY <1>1, NoReqAbsent DEF Exists
<1>4. OneRequestPerRule' /\ PlacementIsReproducible'
  BY <1>1, <1>3 DEF IInv, OneRequestPerRule, PlacementIsReproducible
<1>5. SignedHasFile'
  BY <1>1, NoReqAbsent DEF IInv, SignedHasFile
<1> QED BY <1>2, <1>4, <1>5 DEF IInv

LEMMA RequestStepKeeps ==
  ASSUME IInv, RequestStep, UNCHANGED tmpl
  PROVE  IInv'
<1>1. PICK q \in Requests, new \in ReqRec \cup {NoReq} : SetReq(q, new) /\ (new = NoReq \/ CallOn(q, new))
  BY RequestStepForm
<1>2. CASE new = NoReq
  BY <1>1, <1>2, PurgeKeeps
<1> SUFFICES ASSUME CallOn(q, new) PROVE IInv'
  BY <1>1, <1>2
<1>3. /\ req' = [req EXCEPT ![q] = new] /\ req \in [Requests -> ReqRec \cup {NoReq}]
      /\ UNCHANGED <<doc, rule, hooked, tmpl>>
  BY <1>1 DEF SetReq, IInv, TypeOK, RulesTypeOK
<1>4. TypeOK' /\ RulesPointAtTemplates'
  BY <1>3 DEF IInv, TypeOK, RulesTypeOK, TemplatesTypeOK, RulesPointAtTemplates
<1>5. \A p \in Requests :
        /\ Exists(p)' => Exists(p)
        /\ req'[p].doc = req[p].doc /\ req'[p].rule = req[p].rule /\ req'[p].template = req[p].template
  BY <1>3 DEF Exists, CallOn
<1>6. OneRequestPerRule'
  BY <1>5 DEF IInv, OneRequestPerRule
<1>7. PlacementIsReproducible'
  <2> SUFFICES ASSUME NEW p \in Requests, Exists(p)'
               PROVE  /\ tmpl'[req'[p].template].exists
                      /\ \A pdf \in {req'[p].prepared, req'[p].file} \ {NoPdf} :
                           pdf.box = SigBox(pdf.format, tmpl'[req'[p].template].content)
    BY DEF PlacementIsReproducible
  <2>1. tmpl'[req'[p].template].exists
    BY <1>3, <1>5 DEF IInv, PlacementIsReproducible
  <2>2. \A pdf \in {req[p].prepared, req[p].file} \ {NoPdf} :
          pdf.box = SigBox(pdf.format, tmpl[req[p].template].content)
    BY <1>5 DEF IInv, PlacementIsReproducible
  <2>3. {req'[p].prepared, req'[p].file} \subseteq {req[p].prepared, req[p].file, NoPdf, Fresh(p)}
    BY <1>3 DEF CallOn
  <2>4. Fresh(p).box = SigBox(Fresh(p).format, tmpl[req[p].template].content)
    BY DEF Fresh
  <2>5. req'[p].template = req[p].template /\ tmpl' = tmpl
    BY <1>3, <1>5
  <2> QED BY <2>1, <2>2, <2>3, <2>4, <2>5
<1>8. SignedHasFile'
  BY <1>3 DEF IInv, SignedHasFile, CallOn
<1> QED BY <1>4, <1>6, <1>7, <1>8 DEF IInv

LEMMA EditRuleKeeps ==
  ASSUME IInv, NEW r \in Rules, NEW on \in BOOLEAN, NEW t \in Templates, tmpl[t].exists,
         EditRule(r, on, t), UNCHANGED tmpl
  PROVE  IInv'
<1>1. /\ rule' = [rule EXCEPT ![r] = [enabled |-> on, template |-> t]]
      /\ UNCHANGED <<doc, req, hooked, tmpl>>
  BY DEF EditRule
<1>2. TypeOK' /\ RulesPointAtTemplates'
  BY <1>1 DEF IInv, TypeOK, RulesTypeOK, TemplatesTypeOK, RulesPointAtTemplates
<1>3. OneRequestPerRule' /\ PlacementIsReproducible' /\ SignedHasFile'
  BY <1>1 DEF IInv, OneRequestPerRule, PlacementIsReproducible, SignedHasFile, Exists
<1> QED BY <1>2, <1>3 DEF IInv

\* A change of the templates that keeps those in use, and what exists.
LEMMA TemplatesKeep ==
  ASSUME IInv, UNCHANGED ruleVars, TemplatesTypeOK',
         \A t \in Templates : tmpl[t].exists =>
            tmpl'[t].exists /\ (HasSigningHistory(t) => tmpl'[t].content = tmpl[t].content)
  PROVE  IInv'
<1>1. UNCHANGED <<doc, rule, req, hooked>>
  BY DEF ruleVars
<1>2. TypeOK'
  BY <1>1 DEF IInv, TypeOK, RulesTypeOK
<1>3. RulesPointAtTemplates'
  BY <1>1 DEF IInv, RulesPointAtTemplates, TypeOK, RulesTypeOK
<1>4. OneRequestPerRule' /\ SignedHasFile'
  BY <1>1 DEF IInv, OneRequestPerRule, SignedHasFile, Exists
<1>5. \A q \in Requests : Exists(q) => req[q].template \in Templates
  BY NoReqAbsent DEF IInv, TypeOK, RulesTypeOK, ReqRec, Exists
<1>6. PlacementIsReproducible'
  BY <1>1, <1>5 DEF IInv, PlacementIsReproducible, HasSigningHistory, Exists
<1> QED BY <1>2, <1>3, <1>4, <1>6 DEF IInv

LEMMA SaveTemplateKeeps ==
  ASSUME IInv, NEW t \in Templates, NEW c \in Contents, SaveTemplate(t, c) \/ CreateTemplate(t, c),
         UNCHANGED ruleVars
  PROVE  IInv'
<1>1. tmpl \in [Templates -> TmplRec]
  BY DEF IInv, TypeOK, TemplatesTypeOK
<1>2. CASE CreateTemplate(t, c)
  BY <1>1, <1>2, TemplatesKeep DEF CreateTemplate, TemplatesTypeOK, TmplRec
<1>3. ASSUME NEW active \in BOOLEAN, SaveInPlace(t, c, active, HasSigningHistory(t))
      PROVE  IInv'
  BY <1>1, <1>3, TemplatesKeep DEF SaveInPlace, TemplatesTypeOK, TmplRec
<1>4. CASE SaveForked(t, c, HasSigningHistory(t))
  <2> DEFINE fork == ForkName(t)
             new == [exists |-> TRUE, content |-> c, version |-> tmpl[t].version + 1, active |-> TRUE]
             old == [tmpl[t] EXCEPT !.active = FALSE]
  <2>row. tmpl[t] \in [exists : BOOLEAN, content : Contents, version : Nat, active : BOOLEAN]
    BY <1>1 DEF TmplRec
  <2>0. new \in TmplRec /\ old \in TmplRec
    <3>1. tmpl[t].version + 1 \in Nat
      BY <2>row
    <3>2. new \in TmplRec
      BY <3>1 DEF TmplRec
    <3>3. old \in TmplRec
      BY <2>row DEF TmplRec
    <3> QED BY <3>2, <3>3
  <2>1. old.exists = tmpl[t].exists /\ old.content = tmpl[t].content
    BY <2>row
  <2>2. fork \in Templates /\ ~tmpl[fork].exists /\ fork # t
    BY <1>4 DEF SaveForked
  <2>3. tmpl' = [[tmpl EXCEPT ![fork] = new] EXCEPT ![t] = old]
    BY <1>1, <1>4, <2>2 DEF SaveForked
  <2> HIDE DEF fork, new, old
  <2>4. TemplatesTypeOK'
    BY <1>1, <2>0, <2>2, <2>3 DEF TemplatesTypeOK
  <2>5. \A s \in Templates : tmpl[s].exists => tmpl'[s].exists /\ tmpl'[s].content = tmpl[s].content
    BY <1>1, <2>1, <2>2, <2>3
  <2> QED BY <2>4, <2>5, TemplatesKeep
<1> QED BY <1>2, <1>3, <1>4 DEF SaveTemplate

-----------------------------------------------------------------------------
(* Theorems *)

LEMMA NextKeeps == IInv /\ [Next]_vars => IInv'
<1> SUFFICES ASSUME IInv, [Next]_vars PROVE IInv'
  OBVIOUS
<1>1. CASE DocumentStep /\ UNCHANGED tmpl
  <2>1. PICK d \in Docs, x \in DocStates, u \in Users, lists \in [Profiles -> UserLists] :
          /\ \E events : Hooks(d, x, events, u, lists)
          /\ doc' = [doc EXCEPT ![d] = x] /\ UNCHANGED <<rule, hooked>>
    BY <1>1 DEF DocumentStep, SaveDocument, SubmitDocument, UpdateAfterSubmit
  <2>2. PICK events : Hooks(d, x, events, u, lists)
    BY <2>1
  <2> QED BY <1>1, <2>1, <2>2, EvaluateKeeps, UnhookedKeeps DEF Hooks
<1>2. CASE RequestStep /\ UNCHANGED tmpl
  BY <1>2, RequestStepKeeps
<1>3. ASSUME NEW r \in Editable, NEW on \in BOOLEAN, NEW t \in Templates,
             tmpl[t].exists /\ EditRule(r, on, t) /\ UNCHANGED tmpl
      PROVE  IInv'
  BY <1>3, EditRuleKeeps, BoundsAssumption
<1>4. ASSUME NEW t \in Templates, NEW c \in Contents,
             (SaveTemplate(t, c) \/ CreateTemplate(t, c)) /\ UNCHANGED ruleVars
      PROVE  IInv'
  BY <1>4, SaveTemplateKeeps
<1>5. CASE UNCHANGED <<doc, rule, req, tmpl>> /\ hooked' \in BOOLEAN
  BY <1>5 DEF IInv, TypeOK, RulesTypeOK, TemplatesTypeOK, OneRequestPerRule,
              PlacementIsReproducible, RulesPointAtTemplates, SignedHasFile, Exists
<1>6. CASE LoadHooks /\ UNCHANGED tmpl
  BY <1>5, <1>6, RuleAssumption DEF LoadHooks
<1>7. CASE UNCHANGED vars
  BY <1>5, <1>7 DEF vars, ruleVars, IInv, TypeOK, RulesTypeOK
<1> QED BY <1>1, <1>2, <1>3, <1>4, <1>6, <1>7 DEF Next

\* The inductive invariant of rules, templates and requests (rule_engine.py,
\* signing.py, dsc_signature_template.py).
THEOREM InvariantAlways == Spec => []IInv
  BY InitIInv, NextKeeps, PTL DEF Spec

\* Documents, rules, requests and templates keep their types.
THEOREM TypeCorrect == Spec => []TypeOK
  BY InvariantAlways, PTL DEF IInv

\* No rule has two requests for a document, whatever becomes of them
\* (rule_engine.py 213-227).
THEOREM OneRequestPerRuleAlways == Spec => []OneRequestPerRule
  BY InvariantAlways, PTL DEF IInv

\* The signature of a kept request is where its template says, whatever became of
\* the template since (dsc_signature_template.py 4-8, signing_engine.py 108-153).
THEOREM PlacementAlwaysReproducible == Spec => []PlacementIsReproducible
  BY InvariantAlways, PTL DEF IInv

\* No mail passes its gate without a signed file, and no unsigned print the gate of
\* mandatory rules (print_gate.py 26-78, email_gate.py 16-114); of a document with
\* a request set to Signed by hand, only the second is said.
THEOREM GatedCopiesAlwaysSigned == Spec => []GatedCopiesAreSigned
<1>1. IInv => GatedCopiesAreSigned
  <2> SUFFICES ASSUME IInv, NEW d \in Docs
               PROVE  LET files == {req[q].file : q \in SignedOf(d)} \ {NoPdf} IN
                      /\ EmailRules # {} /\ (\A q \in SignedOf(d) : ~req[q].byHand)
                           => \A print \in BOOLEAN : \A mail \in EmailMake(d, print) :
                                mail = Blocked \/ mail.pdf \in files
                      /\ PrintRules # {} /\ (\A r \in PrintRules : RuleRec[r].mandatory)
                           => \A copy \in DownloadPdf(d) : copy = Blocked \/ copy.pdf \in files
    BY DEF GatedCopiesAreSigned
  <2> DEFINE files == {req[q].file : q \in SignedOf(d)} \ {NoPdf}
  <2>1. ASSUME EmailRules # {}, \A q \in SignedOf(d) : ~req[q].byHand,
               NEW print \in BOOLEAN, NEW mail \in EmailMake(d, print)
        PROVE  mail = Blocked \/ mail.pdf \in files
    <3>1. CASE SignedOf(d) = {}
      BY <2>1, <3>1 DEF EmailMake
    <3>2. CASE SignedOf(d) # {}
      <4>1. PICK q \in SignedOf(d) : mail = Mail(print, req[q].file)
        BY <2>1, <3>2 DEF EmailMake
      <4>2. req[q].file # NoPdf
        BY <2>1 DEF SignedOf, RequestsOf, IInv, SignedHasFile
      <4> QED BY <4>1, <4>2 DEF Mail
    <3> QED BY <3>1, <3>2
  <2>2. ASSUME PrintRules # {}, \A r \in PrintRules : RuleRec[r].mandatory,
               NEW copy \in DownloadPdf(d)
        PROVE  copy = Blocked \/ copy.pdf \in files
    BY <2>2 DEF DownloadPdf, Signed
  <2> HIDE DEF files
  <2>3. /\ EmailRules # {} /\ (\A q \in SignedOf(d) : ~req[q].byHand)
             => \A print \in BOOLEAN : \A mail \in EmailMake(d, print) :
                  mail = Blocked \/ mail.pdf \in files
        /\ PrintRules # {} /\ (\A r \in PrintRules : RuleRec[r].mandatory)
             => \A copy \in DownloadPdf(d) : copy = Blocked \/ copy.pdf \in files
    BY <2>1, <2>2
  <2> QED BY <2>3 DEF files
<1> QED BY <1>1, InvariantAlways, PTL

-----------------------------------------------------------------------------
(* A submit is served *)

\* A document that is not submitted has no request of a rule for submits.
DraftsUnserved ==
  \A q \in Requests : Exists(q) /\ ~doc[req[q].doc].submitted =>
    RuleRec[req[q].rule].event # "on_submit"

\* A condition means what it says, unless it compares texts for equality.
LEMMA ConditionsReadRight ==
  ASSUME NEW c, NEW v,
         c.operator \in Operators,
         c.operator \in {"equals", "not_equals"} =>
           c.value \in DOMAIN FloatOf /\ v \in Numbers \cup DOMAIN FloatOf
  PROVE  Reads(c, v) <=> CheckCondition(c, v)
<1>0. Unset(v) \in BOOLEAN
  BY DEF Unset
<1>1. CASE c.operator \in {"is_set", "is_not_set"}
  <2>1. CASE c.operator = "is_set"
    <3>1. Reads(c, v) <=> (c.operator = "is_set") # Unset(v)
      BY <2>1 DEF Reads
    <3>2. CheckCondition(c, v) <=> ~Unset(v)
      BY <2>1 DEF CheckCondition
    <3> QED BY <1>0, <2>1, <3>1, <3>2
  <2>2. CASE c.operator = "is_not_set"
    <3>1. Reads(c, v) <=> (c.operator = "is_set") # Unset(v)
      BY <2>2 DEF Reads
    <3>2. CheckCondition(c, v) <=> Unset(v)
      BY <2>2 DEF CheckCondition
    <3>3. (c.operator = "is_set") <=> FALSE
      BY <2>2
    <3> QED BY <1>0, <3>1, <3>2, <3>3
  <2> QED BY <1>1, <2>1, <2>2
<1>2. CASE c.operator \in {"greater_than", "less_than"}
  BY <1>2 DEF Reads, CheckCondition, CoerceAndCompare
<1>3. CASE c.operator \in {"equals", "not_equals"}
  <2>1. SameValue(v, c.value) <=> Flt(v) = Flt(c.value)
    BY <1>3 DEF SameValue
  <2> QED BY <1>3, <2>1 DEF Reads, CheckCondition, CoerceAndCompare
<1>4. CASE c.operator \in {"in", "not_in", "contains"}
  BY <1>4 DEF Reads
<1> QED BY <1>1, <1>2, <1>3, <1>4 DEF Operators

LEMMA AppliesMatches ==
  ASSUME NumericRules, NEW r \in Rules, NEW x \in DocStates
  PROVE  Applies(r, x) <=> Matches(r, x, "on_submit")
<1>1. ASSUME NEW c \in RuleRec[r].conditions, RuleRec[r].event = "on_submit"
      PROVE  Reads(c, x.fields[c.field]) <=> CheckCondition(c, x.fields[c.field])
  <2>1. c.operator \in Operators
    BY RuleAssumption DEF RuleType
  <2>2. c.operator \in {"equals", "not_equals"} =>
          c.value \in DOMAIN FloatOf /\ x.fields[c.field] \in Numbers \cup DOMAIN FloatOf
    BY <1>1 DEF NumericRules
  <2> QED BY <2>1, <2>2, ConditionsReadRight
<1> QED BY <1>1 DEF Applies, Matches, EvaluateConditions

LEMMA ExistingRow ==
  ASSUME TypeOK, NEW q \in Requests, Exists(q)
  PROVE  req[q] \in ReqRec /\ req[q].doc \in Docs /\ req[q].rule \in Rules
<1>1. req[q] \in ReqRec
  BY NoReqAbsent DEF TypeOK, RulesTypeOK, Exists
<1> QED BY <1>1 DEF ReqRec

\* A save of d serves rules of its events only; a draft has none for submits.
LEMMA SaveKeepsDrafts ==
  ASSUME IInv, DraftsUnserved, NEW d \in Docs, NEW x \in DocStates, NEW events, NEW u \in Users,
         NEW lists \in [Profiles -> UserLists],
         Hooks(d, x, events, u, lists), doc' = [doc EXCEPT ![d] = x],
         ~x.submitted => ~doc[d].submitted /\ "on_submit" \notin events
  PROVE  DraftsUnserved'
<1>0. TypeOK /\ doc \in [Docs -> DocRec]
  BY DEF IInv, TypeOK, RulesTypeOK
<1>1. PICK picked \in SUBSET UNION {FirstMatch(x, e) : e \in events} :
        \A q \in Requests : req'[q] # req[q] => req'[q].doc = d /\ req'[q].rule \in picked
  <2>1. CASE hooked
    <3>1. Evaluate(d, x, events, u, lists)
      BY <2>1 DEF Hooks
    <3>2. PICK picked \in SUBSET UNION {FirstMatch(x, e) : e \in events} :
            Serves(d, x, events, picked)
      BY <1>0, <3>1, EvaluateRows
    <3> QED BY <3>2 DEF Serves
  <2>2. CASE ~hooked
    BY <2>2 DEF Hooks
  <2> QED BY <2>1, <2>2
<1>2. \A r \in picked : RuleRec[r].event \in events
  BY DEF FirstMatch, Matches
<1> SUFFICES ASSUME NEW q \in Requests, Exists(q)', ~doc'[req'[q].doc].submitted
             PROVE  RuleRec[req'[q].rule].event # "on_submit"
  BY DEF DraftsUnserved
<1>3. CASE req'[q] # req[q]
  <2>1. req'[q].doc = d /\ req'[q].rule \in picked
    BY <1>1, <1>3
  <2>2. ~x.submitted
    BY <1>0, <2>1
  <2> QED BY <1>2, <2>1, <2>2
<1>4. CASE req'[q] = req[q]
  <2>1. Exists(q)
    BY <1>4 DEF Exists
  <2>2. req[q].doc \in Docs
    BY <1>0, <2>1, ExistingRow
  <2>3. ~doc[req[q].doc].submitted
    BY <1>0, <1>4, <2>2
  <2> QED BY <1>4, <2>1, <2>3 DEF DraftsUnserved
<1> QED BY <1>3, <1>4

LEMMA RequestStepKeepsDrafts ==
  ASSUME IInv, DraftsUnserved, RequestStep
  PROVE  DraftsUnserved'
<1>1. PICK q \in Requests, new \in ReqRec \cup {NoReq} : SetReq(q, new) /\ (new = NoReq \/ CallOn(q, new))
  BY RequestStepForm
<1>2. req' = [req EXCEPT ![q] = new] /\ doc' = doc /\ req \in [Requests -> ReqRec \cup {NoReq}]
  BY <1>1 DEF SetReq, IInv, TypeOK, RulesTypeOK
<1> QED BY <1>1, <1>2, NoReqAbsent DEF DraftsUnserved, Exists, CallOn

LEMMA NextKeepsDrafts == IInv /\ DraftsUnserved /\ [Next]_vars => DraftsUnserved'
<1> SUFFICES ASSUME IInv, DraftsUnserved, [Next]_vars PROVE DraftsUnserved'
  OBVIOUS
<1>1. CASE DocumentStep
  <2>1. PICK d \in Docs, x \in DocStates, u \in Users, lists \in [Profiles -> UserLists] :
          \/ SaveDocument(d, x, u, lists) \/ SubmitDocument(d, x, u, lists)
          \/ UpdateAfterSubmit(d, x, u, lists)
    BY <1>1 DEF DocumentStep
  <2>2. "on_submit" \notin ChangeEvents(doc[d], x)
    BY DEF ChangeEvents
  <2>3. CASE SaveDocument(d, x, u, lists)
    BY <2>2, <2>3, SaveKeepsDrafts DEF SaveDocument
  <2>4. CASE SubmitDocument(d, x, u, lists) \/ UpdateAfterSubmit(d, x, u, lists)
    BY <2>4, SaveKeepsDrafts DEF SubmitDocument, UpdateAfterSubmit
  <2> QED BY <2>1, <2>3, <2>4
<1>2. CASE RequestStep
  BY <1>2, RequestStepKeepsDrafts
<1>3. CASE UNCHANGED <<doc, req>>
  BY <1>3 DEF DraftsUnserved, Exists
<1> QED BY <1>1, <1>2, <1>3 DEF Next, vars, ruleVars, EditRule, LoadHooks

\* Drafts have no request of a rule for submits (rule_engine.py 48-103).
LEMMA DraftsAlwaysUnserved == Spec => []DraftsUnserved
<1>1. Init => DraftsUnserved
  BY NoReqAbsent DEF Init, DraftsUnserved, Exists
<1> QED BY <1>1, NextKeepsDrafts, InvariantAlways, PTL DEF Spec

\* The step that submits a document serves the first rule that applies, and no
\* other rule that applies.
LEMMA SubmitServes ==
  ASSUME NumericRules, DistinctPriorities, IInv, DraftsUnserved,
         NEW d \in Docs, NEW x \in DocStates, NEW u \in Users,
         NEW lists \in [Profiles -> UserLists], hooked, SubmitDocument(d, x, u, lists),
         NEW r \in Rules, Applies(r, x)
  PROVE  (\A s \in Rules : Applies(s, x) => RuleRec[r].priority <= RuleRec[s].priority)
            <=> HasRequest(d, r)'
<1> DEFINE events == {"on_submit"} \cup ChangeEvents(doc[d], x)
           first == FirstMatch(x, "on_submit")
<1>0. TypeOK /\ ~doc[d].submitted /\ Evaluate(d, x, events, u, lists)
  BY DEF IInv, SubmitDocument, Hooks
<1>1. PICK picked \in SUBSET UNION {FirstMatch(x, e) : e \in events} :
        Serves(d, x, events, picked)
  BY <1>0, EvaluateRows
<1>2. RuleRec[r].event = "on_submit" /\ \A s \in Rules : RuleRec[s].priority \in Int
  BY RuleAssumption DEF Applies, RuleType
<1>3. r \in first <=> \A s \in Rules : Applies(s, x) => RuleRec[r].priority <= RuleRec[s].priority
  <2>1. \A s \in Rules : Applies(s, x) <=> Matches(s, x, "on_submit")
    BY AppliesMatches
  <2> QED BY <2>1 DEF FirstMatch
<1>4. ASSUME r \in first PROVE HasRequest(d, r)'
  <2>1. PICK s \in first : picked \cap first = {s}
    BY <1>1, <1>4 DEF Serves
  <2>2. s \in Rules /\ RuleRec[s].event = "on_submit" /\ RuleRec[s].priority = RuleRec[r].priority
    BY <1>2, <1>4 DEF FirstMatch, Matches
  <2>3. s = r
    BY <1>2, <2>2 DEF DistinctPriorities
  <2> QED BY <1>1, <2>1, <2>3 DEF Serves
<1>5. ASSUME HasRequest(d, r)' PROVE r \in first
  <2>1. PICK q \in Requests : Exists(q)' /\ req'[q].doc = d /\ req'[q].rule = r
    BY <1>5 DEF HasRequest, RequestsOf
  <2>2. req'[q] # req[q]
    BY <1>0, <1>2, <2>1 DEF DraftsUnserved, Exists
  <2>3. r \in picked
    BY <1>1, <2>1, <2>2 DEF Serves
  <2>4. PICK e \in events : r \in FirstMatch(x, e)
    BY <2>3
  <2>5. e = "on_submit"
    BY <1>2, <2>4 DEF FirstMatch, Matches
  <2> QED BY <2>4, <2>5
<1> QED BY <1>3, <1>4, <1>5

\* A document that is submitted gets a request of the first rule that applies to
\* it and of no later one (rule_engine.py 48-103), provided that hooks are loaded
\* for its doctype (hooks.py 51-76), that the rules for
\* submits compare no texts for equality and have different priorities: without
\* the one, "equals" holds of any two texts, without the other the order of the
\* query decides.
THEOREM SubmitAlwaysServed ==
  ASSUME NumericRules, DistinctPriorities
  PROVE  Spec => SubmitIsServed
<1>1. ASSUME IInv, DraftsUnserved, [Next]_vars
      PROVE  [\A d \in Docs : hooked /\ ~doc[d].submitted /\ doc'[d].submitted =>
                \A r \in Rules : Applies(r, doc'[d]) =>
                  ((\A s \in Rules : Applies(s, doc'[d]) => RuleRec[r].priority <= RuleRec[s].priority)
                     <=> HasRequest(d, r)')]_vars
  <2> SUFFICES ASSUME NEW d \in Docs, hooked, ~doc[d].submitted, doc'[d].submitted,
                      NEW r \in Rules, Applies(r, doc'[d])
               PROVE  (\A s \in Rules : Applies(s, doc'[d]) => RuleRec[r].priority <= RuleRec[s].priority)
                        <=> HasRequest(d, r)'
    OBVIOUS
  <2>1. doc \in [Docs -> DocRec] /\ doc' # doc
    BY <1>1 DEF IInv, TypeOK, RulesTypeOK
  <2>2. PICK e \in Docs, x \in DocStates, u \in Users, lists \in [Profiles -> UserLists] :
          \/ SaveDocument(e, x, u, lists) \/ SubmitDocument(e, x, u, lists)
          \/ UpdateAfterSubmit(e, x, u, lists)
    <3>1. ~RequestStep
      BY <2>1, RequestStepForm, <1>1 DEF SetReq
    <3>2. DocumentStep
      BY <1>1, <2>1, <3>1 DEF Next, vars, ruleVars, EditRule, LoadHooks
    <3> QED BY <3>2 DEF DocumentStep
  <2>3. doc' = [doc EXCEPT ![e] = x]
    BY <2>2 DEF SaveDocument, SubmitDocument, UpdateAfterSubmit
  <2>4. e = d /\ x = doc'[d]
    BY <2>1, <2>3
  <2>5. SubmitDocument(d, x, u, lists)
    BY <2>2, <2>4 DEF SaveDocument, UpdateAfterSubmit
  <2> QED BY <1>1, <2>4, <2>5, SubmitServes
<1> QED BY <1>1, InvariantAlways, DraftsAlwaysUnserved, PTL DEF Spec, SubmitIsServed

-----------------------------------------------------------------------------
(* Where the code does otherwise than the docs say: how far it goes *)

\* An "equals" condition with a text that is no numeral holds for every text
\* that is none either: docs/signing-rules.md 37 holds for no such condition
\* (rule_engine.py 166-199).
THEOREM TextsAreAllEqual ==
  ASSUME NEW c, NEW v \in Texts \ DOMAIN FloatOf,
         c.operator = "equals", c.value \in Texts \ DOMAIN FloatOf
  PROVE  CheckCondition(c, v)
<1>1. Flt(v) = 0 /\ Flt(c.value) = 0
  BY TextAssumption DEF Flt
<1> QED BY <1>1 DEF CheckCondition, CoerceAndCompare

\* What is prepared or signed is in the print format of the doctype.
InDefaultFormat ==
  \A q \in Requests : \A pdf \in {req[q].prepared, req[q].file} \ {NoPdf} : pdf.format = DefaultFormat

\* Whatever print format a rule names, no request is ever prepared or signed in
\* another one than the doctype's: initiate asks the database for no column
\* `rule` (signing.py 76-86, 175-185; docs/signing-rules.md 25 says otherwise).
THEOREM RuleFormatNeverUsed == Spec => []InDefaultFormat
<1>1. Init => InDefaultFormat
  <2>1. NoReq.prepared = NoPdf /\ NoReq.file = NoPdf
    BY DEF NoReq
  <2> QED BY <2>1 DEF Init, InDefaultFormat
<1>2. ASSUME IInv, InDefaultFormat, [Next]_vars PROVE InDefaultFormat'
  <2>0. NoReq.prepared = NoPdf /\ NoReq.file = NoPdf
    BY DEF NoReq
  <2>1. CASE DocumentStep
    <3>0. PICK d \in Docs, x \in DocStates, u \in Users, lists \in [Profiles -> UserLists] :
            \/ SaveDocument(d, x, u, lists) \/ SubmitDocument(d, x, u, lists)
            \/ UpdateAfterSubmit(d, x, u, lists)
      BY <2>1 DEF DocumentStep
    <3>1. PICK events : Hooks(d, x, events, u, lists)
      BY <3>0 DEF SaveDocument, SubmitDocument, UpdateAfterSubmit
    <3>2. TypeOK
      BY <1>2 DEF IInv
    <3>3. \A q \in Requests : req'[q] = req[q] \/ \E r \in Rules : req'[q] = Row(d, r, u, lists)
      BY <3>1, <3>2, EvaluateRows DEF Hooks
    <3>4. \A q \in Requests : req'[q] = req[q] \/ (req'[q].prepared = NoPdf /\ req'[q].file = NoPdf)
      BY <3>2, <3>3, RowOf
    <3> QED BY <1>2, <3>4 DEF InDefaultFormat
  <2>2. CASE RequestStep
    <3>1. PICK q \in Requests, new \in ReqRec \cup {NoReq} :
            SetReq(q, new) /\ (new = NoReq \/ CallOn(q, new))
      BY <1>2, <2>2, RequestStepForm
    <3>2. req' = [req EXCEPT ![q] = new] /\ req \in [Requests -> ReqRec \cup {NoReq}]
      BY <1>2, <3>1 DEF SetReq, IInv, TypeOK, RulesTypeOK
    <3>3. \A pdf \in {new.prepared, new.file} \ {NoPdf} : pdf.format = DefaultFormat
      BY <1>2, <2>0, <3>1 DEF InDefaultFormat, CallOn, Fresh
    <3> QED BY <1>2, <3>2, <3>3 DEF InDefaultFormat
  <2>3. CASE UNCHANGED req
    BY <1>2, <2>3 DEF InDefaultFormat
  <2> QED BY <1>2, <2>1, <2>2, <2>3 DEF Next, vars, ruleVars, EditRule, LoadHooks
<1> QED BY <1>1, <1>2, InvariantAlways, PTL DEF Spec
=============================================================================
