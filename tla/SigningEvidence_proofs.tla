----------------------- MODULE SigningEvidence_proofs -----------------------
(***************************************************************************)
(* Proofs about the evidence of a signature: files, pointers to them, the  *)
(* audit trail, and the DSC Document Sign record that shows its status.    *)
(***************************************************************************)
EXTENDS SigningRequest_proofs

-----------------------------------------------------------------------------
(* Certificates *)

LEMMA RecordedCert == Base => FilesCarryRecordedCert
<1> SUFFICES ASSUME Base, NEW c \in Calls, files[c] # NoFile,
                    sessions[files[c].sess].registered # NoCert
             PROVE  /\ files[c].cert = sessions[files[c].sess].registered
                    /\ files[c].cert \in previous[ProfileOf[files[c].req]]
                                         \cup {fingerprint[ProfileOf[files[c].req]]}
  BY DEF FilesCarryRecordedCert
<1> DEFINE s == calls[c].sess
<1>1. /\ files[c].sess = s /\ calls[c].pc = "done"
      /\ files[c].req = sessions[s].req /\ files[c].cert = sessions[s].cert
  BY DEF Base, Consistent, FilesConsistent
<1>2. s \in Sessions /\ sessions[s].phase \in {"live", "gone"}
  BY <1>1, CallRequest DEF Base, Consistent
<1>3. CertMatchesProfile(s)
  BY <1>2 DEF Base, Consistent, AttemptsConsistent
<1>4. sessions[s].registered \in previous[ProfileOf[sessions[s].req]]
                                 \cup {fingerprint[ProfileOf[sessions[s].req]]}
  BY <1>1, <1>2 DEF Base, Consistent, AttemptsConsistent
<1> QED BY <1>1, <1>3, <1>4 DEF CertMatchesProfile

\* A file of an attempt that started with a registered certificate carries a
\* certificate the profile has on record, however often it is re-registered.
THEOREM RecordedCertAlways == Spec => []FilesCarryRecordedCert
BY InitBase, NextBase, RecordedCert, PTL DEF Spec

-----------------------------------------------------------------------------
(* Evidence only grows *)

AuditGrows == \A r \in Requests : audit[r] \subseteq audit'[r]
FilesGrow == \A c \in Calls : files[c] # NoFile => files'[c] = files[c]

\* log_event only adds.
LEMMA LogGrows ==
  ASSUME TypeOK, NEW r \in Requests, NEW types, NEW x, Log(r, types, x)
  PROVE  AuditGrows /\ \A t \in types : <<t, x>> \in audit'[r]
BY DEF TypeOK, Log, AuditGrows

\* A call saves its file into a place that held none.
LEMMA SaveGrows ==
  ASSUME Base, NEW c \in Calls, calls[c].pc \notin {"idle", "done"}, SaveSignedPdf(c)
  PROVE  /\ FilesGrow
         /\ files'[c].req = ReqOfCall(c) /\ files'[c] # NoFile
         /\ \A b \in Calls \ {c} : files'[b] = files[b]
<1>1. files[c] = NoFile
  BY DEF Base, Consistent, FilesConsistent
<1>2. /\ files'[c] = [req |-> ReqOfCall(c), sess |-> calls[c].sess,
                      cert |-> sessions[calls[c].sess].cert]
      /\ \A b \in Calls \ {c} : files'[b] = files[b]
  BY DEF Base, TypeOK, SaveSignedPdf
<1>3. files'[c] # NoFile
  <2>1. [req |-> ReqOfCall(c), sess |-> calls[c].sess, cert |-> sessions[calls[c].sess].cert]
          \in [req : Requests, sess : Sessions, cert : Certs]
    BY CallRequest DEF Base, Consistent
  <2> QED BY <1>2, <2>1, NullAssumption
<1> QED BY <1>1, <1>2, <1>3 DEF FilesGrow

Evidence == SignedHasEvidence /\ FilesAreAudited

\* Signed, and not by an edit in the form.
Attested(r) == status[r] = "Signed" /\ r \notin byHand

\* A step that adds no file and no signature keeps the evidence.
LEMMA NoNewSignature ==
  ASSUME Base, Evidence, AuditGrows, UNCHANGED outputs,
         \A r \in Requests : Attested(r)' => Attested(r)
  PROVE  Evidence' /\ FilesGrow
<1>1. UNCHANGED signedFile /\ UNCHANGED files
  BY DEF outputs
<1>2. \A c \in Calls : files[c] # NoFile => files[c].req \in Requests
  BY DEF Base, TypeOK, FileRec
<1>3. SignedHasEvidence'
  BY <1>1 DEF Evidence, SignedHasEvidence, AuditGrows, Attested
<1>4. FilesAreAudited'
  BY <1>1, <1>2 DEF Evidence, FilesAreAudited, AuditGrows
<1> QED
  BY <1>1, <1>3, <1>4 DEF Evidence, FilesGrow

\* finalize at its end: what it saves, marks and logs belongs together.
LEMMA EndKeepsEvidence ==
  ASSUME Base, Evidence, NEW c \in Calls, calls[c].pc \notin {"idle", "done"},
         NEW new \in {"Signed", "Failed"}, SetStatus(ReqOfCall(c), new),
         NEW types \in SUBSET EventType, Log(ReqOfCall(c), types, c),
         \/ UNCHANGED outputs /\ new = "Failed"
         \/ /\ SaveSignedPdf(c)
            /\ \/ /\ signedFile' = [signedFile EXCEPT ![ReqOfCall(c)] = c]
                  /\ IF new = "Signed" THEN "Request Signed" \in types
                                      ELSE "Request Failed" \in types
               \/ UNCHANGED signedFile /\ new = "Failed" /\ "Request Failed" \in types
  PROVE  Evidence' /\ FilesGrow /\ AuditGrows
<1> DEFINE r == ReqOfCall(c)
<1>1. r \in Requests
  BY CallRequest DEF Base, Consistent
<1>2. /\ status'[r] = new /\ r \notin byHand'
      /\ \A q \in Requests \ {r} : Attested(q)' <=> Attested(q)
      /\ AuditGrows /\ \A t \in types : <<t, c>> \in audit'[r]
  BY <1>1, LogGrows DEF Base, TypeOK, SetStatus, Attested
<1>3. \A b \in Calls : files[b] # NoFile => files[b].req \in Requests
  BY DEF Base, TypeOK, FileRec
<1>4. CASE UNCHANGED outputs /\ new = "Failed"
  BY <1>1, <1>2, <1>4, NoNewSignature DEF Attested
<1>5. CASE /\ SaveSignedPdf(c)
           /\ \/ /\ signedFile' = [signedFile EXCEPT ![r] = c]
                 /\ IF new = "Signed" THEN "Request Signed" \in types
                                     ELSE "Request Failed" \in types
              \/ UNCHANGED signedFile /\ new = "Failed" /\ "Request Failed" \in types
  <2>1. /\ FilesGrow /\ files'[c].req = r /\ files'[c] # NoFile
        /\ \A b \in Calls \ {c} : files'[b] = files[b]
    BY <1>5, SaveGrows
  <2>2. /\ \A q \in Requests \ {r} : signedFile'[q] = signedFile[q]
        /\ IF new = "Signed" THEN signedFile'[r] = c /\ "Request Signed" \in types
                            ELSE signedFile'[r] \in {c, signedFile[r]} /\ "Request Failed" \in types
    BY <1>1, <1>5 DEF Base, TypeOK
  <2>3. \A q \in Requests : signedFile[q] \in Calls \cup {NoFile}
    BY DEF Base, TypeOK
  <2> HIDE DEF r
  <2>4. FilesAreAudited'
    BY <1>1, <1>2, <1>3, <2>1, <2>2 DEF Evidence, FilesAreAudited, AuditGrows
  <2>5. \A q \in Requests :
          signedFile'[q] # NoFile => files'[signedFile'[q]] # NoFile /\ files'[signedFile'[q]].req = q
    <3> SUFFICES ASSUME NEW q \in Requests, signedFile'[q] # NoFile
                 PROVE  files'[signedFile'[q]] # NoFile /\ files'[signedFile'[q]].req = q
      OBVIOUS
    <3>1. CASE q = r /\ signedFile'[q] = c
      BY <2>1, <3>1
    <3>2. CASE signedFile'[q] = signedFile[q]
      <4>1. files[signedFile[q]] # NoFile /\ files[signedFile[q]].req = q
        BY <3>2 DEF Evidence, SignedHasEvidence
      <4> QED BY <2>1, <2>3, <3>2, <4>1 DEF FilesGrow
    <3> QED BY <2>2, <3>1, <3>2
  <2>6. \A q \in Requests : Attested(q)' =>
          signedFile'[q] # NoFile /\ <<"Request Signed", signedFile'[q]>> \in audit'[q]
    <3> SUFFICES ASSUME NEW q \in Requests, Attested(q)'
                 PROVE  signedFile'[q] # NoFile /\ <<"Request Signed", signedFile'[q]>> \in audit'[q]
      OBVIOUS
    <3>1. CASE q = r
      BY <1>2, <2>2, <3>1, NullAssumption DEF Attested
    <3>2. CASE q # r
      <4>1. signedFile[q] # NoFile /\ <<"Request Signed", signedFile[q]>> \in audit[q]
        BY <1>2, <3>2 DEF Evidence, SignedHasEvidence, Attested
      <4> QED BY <1>2, <2>2, <3>2, <4>1 DEF AuditGrows
    <3> QED BY <3>1, <3>2
  <2> QED BY <1>2, <2>1, <2>4, <2>5, <2>6 DEF Evidence, SignedHasEvidence, Attested
<1> QED BY <1>4, <1>5

-----------------------------------------------------------------------------
(* Every step keeps the evidence *)

\* A write of a status other than Signed signs nothing.
LEMMA WriteSignsNothing ==
  ASSUME TypeOK, NEW r \in Requests, NEW new, new # "Signed", SetStatus(r, new)
  PROVE  \A q \in Requests : Attested(q)' => Attested(q)
BY DEF TypeOK, SetStatus, Attested

LEMMA CreateKeepsEvidence ==
  ASSUME Base, Evidence, NEW r \in Requests,
         CreateSigningRequest(r) \/ DocSignOnUpdate(r) \/ Retry(r) \/ Cancel(r)
  PROVE  Evidence' /\ FilesGrow /\ AuditGrows
<1>1. UNCHANGED outputs /\ \E new \in {"Pending", "Cancelled"} : SetStatus(r, new)
  BY DEF CreateSigningRequest, DocSignOnUpdate, Retry, Cancel
<1>2. UNCHANGED audit \/ \E types : Log(r, types, r)
  BY DEF CreateSigningRequest, DocSignOnUpdate, Retry, Cancel
<1>3. AuditGrows
  BY <1>2, LogGrows DEF Base, AuditGrows
<1> QED BY <1>1, <1>3, WriteSignsNothing, NoNewSignature DEF Base

\* An edit to Signed is known to be one.
LEMMA DeskKeepsEvidence ==
  ASSUME Base, Evidence,
         \/ \E r \in Requests, new \in RequestStatus : EditStatus(r, new)
         \/ \E d \in DocSigns, st \in DocStatus : DocSignSave(d, st)
  PROVE  Evidence' /\ FilesGrow /\ AuditGrows
<1>1. UNCHANGED <<outputs, audit>>
  BY DEF EditStatus, DocSignSave
<1>2. \A q \in Requests : Attested(q)' => Attested(q)
  BY DEF EditStatus, DocSignSave, Attested, Outcomes, Base, TypeOK
<1> QED BY <1>1, <1>2, NoNewSignature DEF AuditGrows

LEMMA InitiateKeepsEvidence ==
  ASSUME Base, Evidence, NEW s \in Sessions, InitiateStep(s) \/ AbortInProgress(s)
  PROVE  Evidence' /\ FilesGrow /\ AuditGrows
<1>1. CASE InitiateCommit(s)
  <2>1. sessions[s].req \in Requests
    BY <1>1 DEF InitiateCommit, Base, Consistent, AttemptsConsistent
  <2>2. /\ UNCHANGED outputs /\ SetStatus(sessions[s].req, "In Progress")
        /\ Log(sessions[s].req, {"Agent Called"}, s)
    BY <1>1 DEF InitiateCommit
  <2> QED BY <2>1, <2>2, LogGrows, WriteSignsNothing, NoNewSignature DEF Base
<1>2. CASE ~InitiateCommit(s)
  <2>1. UNCHANGED <<rows, audit, outputs>>
    BY <1>2, AbortIsRefused DEF InitiateStep, InitiateRead, InitiateRefused, AbortInProgress
  <2> QED BY <2>1, NoNewSignature DEF rows, AuditGrows, Attested
<1> QED BY <1>1, <1>2

LEMMA FinalizeKeepsEvidence ==
  ASSUME Base, Evidence, NEW c \in Calls, FinalizeStep(c)
  PROVE  Evidence' /\ FilesGrow /\ AuditGrows
<1> DEFINE r == ReqOfCall(c)
<1>1. ASSUME UNCHANGED <<rows, outputs, audit>>
      PROVE  Evidence' /\ FilesGrow /\ AuditGrows
  BY <1>1, NoNewSignature DEF rows, AuditGrows, Attested
<1>2. CASE FinalizeMismatch(c)
  <2>1. /\ SetStatus(r, "Failed") /\ UNCHANGED outputs
        /\ Log(r, {"Signature Returned", "Request Failed"}, c) /\ calls[c].pc = "peeked"
    BY <1>2 DEF FinalizeMismatch
  <2>2. {"Signature Returned", "Request Failed"} \in SUBSET EventType
    BY DEF EventType
  <2> QED BY <2>1, <2>2, EndKeepsEvidence
<1>3. CASE FinalizeSigned(c)
  <2>1. /\ SetStatus(r, "Signed") /\ SaveSignedPdf(c)
        /\ signedFile' = [signedFile EXCEPT ![r] = c]
        /\ Log(r, {"Signature Returned", "PDF Verified", "Request Signed"}, c)
        /\ calls[c].pc = "popped"
    BY <1>3 DEF FinalizeSigned
  <2>2. {"Signature Returned", "PDF Verified", "Request Signed"} \in SUBSET EventType
    BY DEF EventType
  <2> QED BY <2>1, <2>2, EndKeepsEvidence
<1>4. CASE FinalizeFailed(c)
  <2>1. /\ SetStatus(r, "Failed") /\ UNCHANGED outputs
        /\ Log(r, {"Signature Returned", "Request Failed"} \cup {}, c)
        /\ calls[c].pc \in {"lost", "popped"}
    BY <1>4 DEF FinalizeFailed, FailWith
  <2>2. {"Signature Returned", "Request Failed"} \cup {} \in SUBSET EventType
    BY DEF EventType
  <2> QED BY <2>1, <2>2, EndKeepsEvidence
<1>5. CASE FinalizeUnverified(c)
  <2>1. /\ SetStatus(r, "Failed") /\ UNCHANGED outputs
        /\ Log(r, {"Signature Returned", "Request Failed"} \cup {"PDF Verified"}, c)
        /\ calls[c].pc = "popped"
    BY <1>5 DEF FinalizeUnverified, FailWith
  <2>2. {"Signature Returned", "Request Failed"} \cup {"PDF Verified"} \in SUBSET EventType
    BY DEF EventType
  <2> QED BY <2>1, <2>2, EndKeepsEvidence
<1>6. ASSUME NEW signed \in BOOLEAN, NEW logged \in BOOLEAN,
             FinalizeFailedLate(c, signed, logged)
      PROVE  Evidence' /\ FilesGrow /\ AuditGrows
  <2> DEFINE types == {"Signature Returned", "Request Failed"} \cup
                        ({"PDF Verified"} \cup (IF logged THEN {"Request Signed"} ELSE {}))
  <2>1. /\ SetStatus(r, "Failed") /\ SaveSignedPdf(c) /\ Log(r, types, c)
        /\ calls[c].pc = "popped"
        /\ \/ signedFile' = [signedFile EXCEPT ![r] = c]
           \/ UNCHANGED signedFile
    BY <1>6 DEF FinalizeFailedLate, FailWith
  <2>2. types \in SUBSET EventType /\ "Request Failed" \in types
    BY DEF EventType
  <2> HIDE DEF types
  <2> QED BY <2>1, <2>2, EndKeepsEvidence
<1> QED
  BY <1>1, <1>2, <1>3, <1>4, <1>5, <1>6
  DEF FinalizeStep, FinalizePeek, FinalizeLoad, FinalizePop, FinalizeVanished

LEMMA OthersKeepEvidence ==
  ASSUME Base, Evidence,
         \/ \E d \in Sources : GetSigningStatusRead(d) \/ GetSigningStatusWrite(d)
         \/ ExpireStaleRead \/ ExpireStaleWrite
         \/ \E old \in SUBSET Requests : PurgeRead(old)
         \/ PurgeWrite
         \/ \E p \in Profiles, k \in Certs : RegisterCertificate(p, k)
         \/ Tick \/ UNCHANGED vars
  PROVE  Evidence' /\ FilesGrow /\ AuditGrows
<1>1. UNCHANGED <<outputs, audit>>
  BY DEF GetSigningStatusRead, GetSigningStatusWrite, ExpireStaleRead, ExpireStaleWrite,
     PurgeRead, PurgeWrite, RegisterCertificate, Tick, vars
<1>2. \A q \in Requests : Attested(q)' => Attested(q)
  BY DEF Attested, GetSigningStatusRead, GetSigningStatusWrite, ExpireStaleRead, ExpireStaleWrite,
     PurgeRead, PurgeWrite, RegisterCertificate, Tick, vars, rows
<1> QED BY <1>1, <1>2, NoNewSignature DEF AuditGrows

LEMMA InitEvidence == Init => Evidence
BY DEF Init, Evidence, SignedHasEvidence, FilesAreAudited

LEMMA NextEvidence == Base /\ Evidence /\ [Next]_vars => Evidence' /\ FilesGrow /\ AuditGrows
BY CreateKeepsEvidence, DeskKeepsEvidence, InitiateKeepsEvidence, FinalizeKeepsEvidence, OthersKeepEvidence
DEF Next

\* In every reachable state a request finalize has left Signed points at a file
\* made for it, and the audit trail has the Request Signed event of the call that
\* made it: whatever calls of several attempts end in any order, fail half way
\* through their writes, or find the status edited in the form.
THEOREM SignedHasEvidenceAlways == Spec => []SignedHasEvidence
<1>1. Init => Base /\ Evidence
  BY InitBase, InitEvidence
<1>2. Base /\ Evidence /\ [Next]_vars => (Base /\ Evidence)'
  BY NextBase, NextEvidence
<1> QED BY <1>1, <1>2, PTL DEF Spec, Evidence

\* In every reachable state every signed file is in its request's audit trail.
THEOREM FilesAreAuditedAlways == Spec => []FilesAreAudited
<1>1. Init => Base /\ Evidence
  BY InitBase, InitEvidence
<1>2. Base /\ Evidence /\ [Next]_vars => (Base /\ Evidence)'
  BY NextBase, NextEvidence
<1> QED BY <1>1, <1>2, PTL DEF Spec, Evidence

\* No step overwrites or removes a signed file or an audit event.
THEOREM EvidenceIsKeptAlways == Spec => EvidenceIsKept
<1>1. Init => Base /\ Evidence
  BY InitBase, InitEvidence
<1>2. Base /\ Evidence /\ [Next]_vars => (Base /\ Evidence)'
  BY NextBase, NextEvidence
<1>3. Base /\ Evidence /\ [Next]_vars =>
        [/\ \A c \in Calls : files[c] # NoFile => files'[c] = files[c]
         /\ \A r \in Requests : audit[r] \subseteq audit'[r]]_vars
  BY NextEvidence DEF FilesGrow, AuditGrows
<1> QED BY <1>1, <1>2, <1>3, PTL DEF Spec, EvidenceIsKept

-----------------------------------------------------------------------------
(* The status a DSC Document Sign record shows *)

\* What RecordsConsistent says of one request r, and a second one, q.
RecordOf(q, r) ==
  SourceOf[r] \in DocSigns /\ status[r] # "absent" =>
    /\ "Draft" \notin held[SourceOf[r]]
    /\ SourceOf[q] = SourceOf[r] /\ status[q] # "absent" => q = r
    /\ status[r] \in Outcomes /\ r \notin byHand =>
         docSign[SourceOf[r]] = status[r] /\ held[SourceOf[r]] = {status[r]}

LEMMA RecordParts == RecordsConsistent <=> \A q, r \in Requests : RecordOf(q, r)
BY DEF RecordsConsistent, RecordOf

\* Requests are neither inserted nor given an outcome, and records are left alone.
LEMMA SameRecords ==
  ASSUME RecordsConsistent, UNCHANGED <<docSign, held>>,
         \A r \in Requests :
           /\ status'[r] # "absent" => status[r] # "absent"
           /\ status'[r] \in Outcomes /\ r \notin byHand' => status'[r] = status[r] /\ r \notin byHand
  PROVE  RecordsConsistent'
<1>1. \A p, q \in Requests : RecordOf(p, q)
  BY RecordParts
<1> SUFFICES ASSUME NEW p \in Requests, NEW q \in Requests PROVE RecordOf(p, q)'
  BY DEF RecordsConsistent, RecordOf
<1> QED BY <1>1 DEF RecordOf

\* A call writes the status of a row that is there, together with the record,
\* changing its `modified` if the status is an outcome; or without it, if not.
LEMMA WriteRecords ==
  ASSUME Base, RecordsConsistent, NEW r \in Requests, status[r] # "absent",
         NEW new \in RequestStatus, SetStatus(r, new),
         \/ Mirror(r, new)
         \/ new \notin Outcomes /\ MirrorQuietly(SourceOf[r], new)
         \/ new \notin Outcomes /\ UNCHANGED <<docSign, held>>
  PROVE  RecordsConsistent'
<1>1. /\ status'[r] = new /\ r \notin byHand' /\ new # "Draft"
      /\ \A q \in Requests \ {r} : status'[q] = status[q] /\ (q \in byHand' <=> q \in byHand)
  BY DEF Base, TypeOK, SetStatus, RequestStatus
<1>2. /\ \A d \in DocSigns \ {SourceOf[r]} : docSign'[d] = docSign[d] /\ held'[d] = held[d]
      /\ SourceOf[r] \in DocSigns =>
           /\ held'[SourceOf[r]] \subseteq held[SourceOf[r]] \cup {new}
           /\ new \in Outcomes => docSign'[SourceOf[r]] = new /\ held'[SourceOf[r]] = {new}
  BY DEF Base, TypeOK, Mirror, MirrorQuietly
<1>3. \A p, q \in Requests : RecordOf(p, q)
  BY RecordParts
<1> SUFFICES ASSUME NEW p \in Requests, NEW q \in Requests PROVE RecordOf(p, q)'
  BY DEF RecordsConsistent, RecordOf
<1>4. CASE q = r
  BY <1>1, <1>2, <1>3, <1>4 DEF RecordOf
<1>5. CASE q # r
  <2>1. RecordOf(r, q) /\ RecordOf(p, q) /\ RecordOf(q, p)
    BY <1>3
  <2>2. SourceOf[q] = SourceOf[r] => status[q] = "absent" \/ SourceOf[q] \notin DocSigns
    BY <1>5, <2>1 DEF RecordOf
  <2>3. CASE p = r
    BY <1>1, <1>2, <1>5, <2>1, <2>2, <2>3 DEF RecordOf
  <2>4. CASE p # r
    BY <1>1, <1>2, <1>5, <2>1, <2>2, <2>4 DEF RecordOf
  <2> QED BY <2>3, <2>4
<1> QED BY <1>4, <1>5

\* Inserting a request: a rule's never concerns a DSC Document Sign record, and
\* a form in Draft can be saved only while the record has no request.
LEMMA CreateRecords ==
  ASSUME Base, RecordsConsistent, NEW r \in Requests,
         CreateSigningRequest(r) \/ DocSignOnUpdate(r)
  PROVE  RecordsConsistent'
<1>1. /\ status[r] = "absent" /\ status'[r] = "Pending"
      /\ \A q \in Requests \ {r} : status'[q] = status[q] /\ (q \in byHand' <=> q \in byHand)
  BY DEF CreateSigningRequest, DocSignOnUpdate, SetStatus, Base, TypeOK
<1>2. \A p, q \in Requests : RecordOf(p, q)
  BY RecordParts
<1> SUFFICES ASSUME NEW p \in Requests, NEW q \in Requests PROVE RecordOf(p, q)'
  BY DEF RecordsConsistent, RecordOf
<1>3. CASE CreateSigningRequest(r)
  <2>1. SourceOf[r] \notin DocSigns /\ UNCHANGED <<docSign, held>>
    BY <1>3 DEF CreateSigningRequest
  <2> QED BY <1>1, <1>2, <2>1 DEF RecordOf
<1>4. CASE DocSignOnUpdate(r)
  <2>1. /\ SourceOf[r] \in DocSigns /\ "Draft" \in held[SourceOf[r]]
        /\ held'[SourceOf[r]] = {"Pending"}
        /\ \A d \in DocSigns \ {SourceOf[r]} : docSign'[d] = docSign[d] /\ held'[d] = held[d]
    BY <1>4 DEF DocSignOnUpdate, Mirror
  <2>2. \A x \in Requests : SourceOf[x] = SourceOf[r] => status[x] = "absent"
    BY <1>2, <2>1 DEF RecordOf
  <2>3. CASE SourceOf[q] = SourceOf[r]
    BY <1>1, <2>1, <2>2, <2>3 DEF RecordOf, Outcomes
  <2>4. CASE SourceOf[q] # SourceOf[r]
    BY <1>1, <1>2, <2>1, <2>4 DEF RecordOf
  <2> QED BY <2>3, <2>4
<1> QED BY <1>3, <1>4

\* The desk: an edited outcome is known to be one, and a saved form holds what the
\* record had since its last change.
LEMMA DeskRecords ==
  ASSUME Base, RecordsConsistent,
         \/ \E r \in Requests, new \in RequestStatus : EditStatus(r, new)
         \/ \E d \in DocSigns, st \in DocStatus : DocSignSave(d, st)
  PROVE  RecordsConsistent'
<1>1. ASSUME NEW r \in Requests, NEW new \in RequestStatus, EditStatus(r, new)
      PROVE  RecordsConsistent'
  <2>1. /\ status[r] # "absent" /\ status'[r] = new /\ (new \in Outcomes => r \in byHand')
        /\ \A q \in Requests \ {r} : status'[q] = status[q] /\ (q \in byHand' <=> q \in byHand)
        /\ UNCHANGED <<docSign, held>>
    BY <1>1 DEF EditStatus, Exists, Base, TypeOK
  <2> QED BY <2>1, SameRecords
<1>2. ASSUME NEW d \in DocSigns, NEW st \in DocStatus, DocSignSave(d, st)
      PROVE  RecordsConsistent'
  <2>1. /\ st \in held[d] \ {"Draft"} /\ UNCHANGED <<status, byHand>>
        /\ docSign'[d] = st /\ held'[d] = {st}
        /\ \A x \in DocSigns \ {d} : docSign'[x] = docSign[x] /\ held'[x] = held[x]
    BY <1>2 DEF DocSignSave, Base, TypeOK
  <2>2. \A p, q \in Requests : RecordOf(p, q)
    BY RecordParts
  <2> SUFFICES ASSUME NEW p \in Requests, NEW q \in Requests PROVE RecordOf(p, q)'
    BY DEF RecordsConsistent, RecordOf
  <2>3. CASE SourceOf[q] = d
    BY <2>1, <2>2, <2>3 DEF RecordOf
  <2>4. CASE SourceOf[q] # d
    BY <2>1, <2>2, <2>4 DEF RecordOf
  <2> QED BY <2>3, <2>4
<1> QED BY <1>1, <1>2

\* The status poll resets the one request of the record and the record together.
LEMMA PollRecords ==
  ASSUME Base, RecordsConsistent, NEW d \in Sources, GetSigningStatusWrite(d)
  PROVE  RecordsConsistent'
<1> DEFINE hit == {r \in polled[d] : Exists(r)}
<1>1. /\ polled[d] # {} /\ polled[d] \subseteq Requests
      /\ \A r \in polled[d] : SourceOf[r] = d /\ status[r] # "absent"
  BY DEF GetSigningStatusWrite, Base, TypeOK, Consistent, ListsConsistent
<1>2. /\ \A r \in Requests : status'[r] = IF r \in hit THEN "Pending" ELSE status[r]
      /\ byHand' = byHand \ hit
      /\ \A x \in DocSigns \ {d} : docSign'[x] = docSign[x] /\ held'[x] = held[x]
      /\ d \in DocSigns => held'[d] = held[d] \cup {"Pending"}
  BY DEF GetSigningStatusWrite, MirrorQuietly
<1>3. \A p, q \in Requests : RecordOf(p, q)
  BY RecordParts
<1>4. \A r \in hit : SourceOf[r] = d /\ status[r] # "absent"
  BY <1>1
<1>5. \A r \in polled[d] : r \in hit \/ status[r] = "purged"
  BY <1>1 DEF Exists
<1> HIDE DEF hit
<1> SUFFICES ASSUME NEW p \in Requests, NEW q \in Requests PROVE RecordOf(p, q)'
  BY DEF RecordsConsistent, RecordOf
<1>6. status'[p] # "absent" <=> status[p] # "absent"
  BY <1>2, <1>4
<1>7. status'[q] # "absent" <=> status[q] # "absent"
  BY <1>2, <1>4
<1>8. CASE SourceOf[q] = d /\ d \in DocSigns /\ status[q] # "absent"
  <2>1. q \in polled[d]
    <3>1. PICK r \in Requests : r \in polled[d]
      BY <1>1
    <3> QED BY <1>1, <1>3, <1>8, <3>1 DEF RecordOf
  <2>2. status'[q] \notin Outcomes
    BY <1>2, <1>5, <2>1 DEF Outcomes
  <2> QED BY <1>2, <1>3, <1>6, <1>8, <2>2 DEF RecordOf
<1>9. CASE SourceOf[q] # d
  <2>1. q \notin hit
    BY <1>4, <1>9
  <2> QED BY <1>2, <1>3, <1>6, <1>7, <1>9, <2>1 DEF RecordOf
<1> QED BY <1>7, <1>8, <1>9 DEF RecordOf

\* The jobs fail or delete rows behind the record's back.
LEMMA JobsRecords ==
  ASSUME Base, RecordsConsistent, ExpireStaleWrite \/ PurgeWrite
  PROVE  RecordsConsistent'
<1>1. UNCHANGED <<docSign, held>>
  BY DEF ExpireStaleWrite, PurgeWrite
<1>2. \A r \in Requests : \/ status'[r] = status[r] /\ (r \in byHand' <=> r \in byHand)
                          \/ status'[r] \in {"Failed", "purged"} /\ status[r] # "absent"
  BY DEF ExpireStaleWrite, PurgeWrite, Base, TypeOK, Consistent, ListsConsistent
<1> QED BY <1>1, <1>2, SameRecords DEF Outcomes

\* The calls on a row that is there.
LEMMA CallsRecords ==
  ASSUME Base, RecordsConsistent,
         \/ \E r \in Requests : Retry(r) \/ Cancel(r)
         \/ \E s \in Sessions : InitiateCommit(s)
         \/ \E c \in Calls :
              \/ FinalizeMismatch(c) \/ FinalizeSigned(c) \/ FinalizeFailed(c)
              \/ FinalizeUnverified(c)
              \/ \E signed, logged \in BOOLEAN : FinalizeFailedLate(c, signed, logged)
  PROVE  RecordsConsistent'
<1>1. ASSUME NEW r \in Requests, Retry(r) \/ Cancel(r) PROVE RecordsConsistent'
  <2>1. PICK new \in {"Pending", "Cancelled"} : SetStatus(r, new) /\ Mirror(r, new)
    BY <1>1 DEF Retry, Cancel
  <2>2. status[r] # "absent" /\ new \in RequestStatus
    BY <1>1 DEF Retry, Cancel, RequestStatus
  <2> QED BY <2>1, <2>2, WriteRecords
<1>2. ASSUME NEW s \in Sessions, InitiateCommit(s) PROVE RecordsConsistent'
  <2> DEFINE r == sessions[s].req
  <2>1. r \in Requests
    BY <1>2 DEF InitiateCommit, Base, Consistent, AttemptsConsistent
  <2>2. /\ SetStatus(r, "In Progress") /\ MirrorQuietly(SourceOf[r], "In Progress")
        /\ status[r] # "absent" /\ "In Progress" \in RequestStatus \ Outcomes
    BY <1>2 DEF InitiateCommit, Exists, RequestStatus, Outcomes
  <2> HIDE DEF r
  <2> QED BY <2>1, <2>2, WriteRecords
<1>3. ASSUME NEW c \in Calls,
             \/ FinalizeMismatch(c) \/ FinalizeSigned(c) \/ FinalizeFailed(c)
             \/ FinalizeUnverified(c)
             \/ \E signed, logged \in BOOLEAN : FinalizeFailedLate(c, signed, logged)
      PROVE  RecordsConsistent'
  <2> DEFINE r == ReqOfCall(c)
  <2>1. calls[c].pc # "idle" /\ Exists(r)
    BY <1>3 DEF FinalizeMismatch, FinalizeSigned, FinalizeFailed, FinalizeUnverified,
       FinalizeFailedLate, FailWith
  <2>2. PICK new \in {"Signed", "Failed"} :
          /\ SetStatus(r, new)
          /\ Mirror(r, new) \/ (new = "Failed" /\ UNCHANGED <<docSign, held>>)
    BY <1>3 DEF FinalizeMismatch, FinalizeSigned, FinalizeFailed, FinalizeUnverified,
       FinalizeFailedLate, FailWith
  <2>3. r \in Requests
    BY <2>1, CallRequest DEF Base, Consistent
  <2>4. status[r] # "absent" /\ new \in RequestStatus /\ "Failed" \notin Outcomes
    BY <2>1, <2>2 DEF Exists, RequestStatus, Outcomes
  <2> HIDE DEF r
  <2> QED BY <2>2, <2>3, <2>4, WriteRecords
<1> QED BY <1>1, <1>2, <1>3

LEMMA InitRecords == Init => RecordsConsistent
<1>1. Init => \A r \in Requests : status[r] = "absent"
  BY DEF Init
<1> QED BY <1>1 DEF RecordsConsistent

LEMMA NextRecords == Base /\ RecordsConsistent /\ [Next]_vars => RecordsConsistent'
<1> SUFFICES ASSUME Base, RecordsConsistent, [Next]_vars PROVE RecordsConsistent'
  OBVIOUS
<1>1. ASSUME UNCHANGED <<status, docSign, held, byHand>> PROVE RecordsConsistent'
  BY <1>1, SameRecords
<1>2. ASSUME NEW s \in Sessions, InitiateStep(s) \/ AbortInProgress(s)
      PROVE  RecordsConsistent'
  <2>1. CASE InitiateCommit(s)
    BY <2>1, CallsRecords
  <2>2. CASE ~InitiateCommit(s)
    BY <1>1, <1>2, <2>2, AbortIsRefused
    DEF InitiateStep, InitiateRead, InitiateRefused, AbortInProgress, rows
  <2> QED BY <2>1, <2>2
<1>3. ASSUME NEW c \in Calls, FinalizeStep(c) PROVE RecordsConsistent'
  BY <1>1, <1>3, CallsRecords
  DEF FinalizeStep, FinalizePeek, FinalizeLoad, FinalizePop, FinalizeVanished, rows
<1>4. ASSUME \/ \E d \in Sources : GetSigningStatusRead(d)
             \/ ExpireStaleRead \/ Tick \/ UNCHANGED vars
             \/ \E old \in SUBSET Requests : PurgeRead(old)
             \/ \E p \in Profiles, k \in Certs : RegisterCertificate(p, k)
      PROVE  RecordsConsistent'
  BY <1>1, <1>4
  DEF GetSigningStatusRead, ExpireStaleRead, PurgeRead, RegisterCertificate, Tick, vars, rows
<1> QED
  BY <1>2, <1>3, <1>4, CreateRecords, DeskRecords, CallsRecords, PollRecords, JobsRecords DEF Next

\* In every reachable state a DSC Document Sign record shows the outcome a call
\* gave its request, although any form of the record that was open before may be
\* saved after.  The argument: a status a form can still write back is one the
\* record had since its `modified` last changed, and both outcomes change it.
THEOREM RecordShowsOutcomeAlways == Spec => []RecordShowsOutcome
<1>1. Init => Base /\ RecordsConsistent
  BY InitBase, InitRecords
<1>2. Base /\ RecordsConsistent /\ [Next]_vars => (Base /\ RecordsConsistent)'
  BY NextBase, NextRecords
<1>3. RecordsConsistent => RecordShowsOutcome
  BY DEF RecordsConsistent, RecordShowsOutcome, Outcomes
<1> QED BY <1>1, <1>2, <1>3, PTL DEF Spec
=============================================================================
