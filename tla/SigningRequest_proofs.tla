----------------------- MODULE SigningRequest_proofs -----------------------
(***************************************************************************)
(* Proofs about SigningRequest, for every set of requests, attempts, calls *)
(* and certificates and every choice of the timeouts.                      *)
(***************************************************************************)
EXTENDS SigningRequest, TLAPS

-----------------------------------------------------------------------------
(* Types *)

\* The records the actions build have their types.
LEMMA RecordTypes ==
  /\ NoSessionRec \in SessionRec
  /\ \A a \in 0..AgeCap : Older(a, AgeCap) \in 0..AgeCap
  /\ \A a \in 0..SessionTTL : Older(a, SessionTTL) \in 0..SessionTTL
BY TimeAssumption DEF NoSessionRec, SessionRec, Older

\* The request of a finalize call past its first look is a request, and its
\* session's certificate is a certificate.
LEMMA CallRequest ==
  ASSUME TypeOK, AttemptsConsistent, CallsConsistent, NEW c \in Calls, calls[c].pc # "idle"
  PROVE  /\ calls[c].sess \in Sessions
         /\ ReqOfCall(c) \in Requests
         /\ sessions[calls[c].sess].cert \in Certs
         /\ sessions[calls[c].sess].phase \in {"live", "gone"}
BY DEF AttemptsConsistent, CallsConsistent, ReqOfCall

LEMMA InitType == Init => TypeOK
BY RecordTypes, TimeAssumption, NullAssumption
DEF Init, TypeOK, RowStatus, DocStatus, RequestStatus, CallRec, EventType, Event

\* What one write of a status, of the mirror or of the log does to types.
LEMMA WriteTypes ==
  ASSUME TypeOK, NEW r \in Requests, NEW new \in RequestStatus
  PROVE  /\ SetStatus(r, new) => /\ status' \in [Requests -> RowStatus]
                                 /\ age' \in [Requests -> 0..AgeCap]
                                 /\ byHand' \in SUBSET Requests
         /\ \A d : Mirror(r, new) \/ MirrorQuietly(d, new) =>
              /\ docSign' \in [DocSigns -> DocStatus]
              /\ held' \in [DocSigns -> SUBSET DocStatus]
         /\ \A types \in SUBSET EventType, x \in Sessions \cup Calls \cup Requests :
              Log(r, types, x) => audit' \in [Requests -> SUBSET Event]
<1>1. SetStatus(r, new) => /\ status' \in [Requests -> RowStatus]
                           /\ age' \in [Requests -> 0..AgeCap]
                           /\ byHand' \in SUBSET Requests
  BY TimeAssumption DEF TypeOK, SetStatus, RowStatus
<1>2. ASSUME NEW d, Mirror(r, new) \/ MirrorQuietly(d, new)
      PROVE  docSign' \in [DocSigns -> DocStatus] /\ held' \in [DocSigns -> SUBSET DocStatus]
  <2>1. new \in DocStatus
    BY DEF DocStatus
  <2>2. docSign' \in [DocSigns -> DocStatus]
    BY <1>2, <2>1 DEF TypeOK, Mirror, MirrorQuietly
  <2>3. held' \in [DocSigns -> SUBSET DocStatus]
    BY <1>2, <2>1 DEF TypeOK, Mirror, MirrorQuietly
  <2> QED BY <2>2, <2>3
<1>3. ASSUME NEW types \in SUBSET EventType, NEW x \in Sessions \cup Calls \cup Requests,
             Log(r, types, x)
      PROVE  audit' \in [Requests -> SUBSET Event]
  BY <1>3 DEF TypeOK, Log, Event
<1> QED BY <1>1, <1>2, <1>3

\* What initiate, finalize and abort do to a session keeps the sessions' type.
LEMMA SessionTypes ==
  ASSUME TypeOK, NEW s \in Sessions
  PROVE  /\ [sessions EXCEPT ![s].phase = "refused"] \in [Sessions -> SessionRec]
         /\ \A r \in Requests, k \in Certs, f \in Certs \cup {NoCert} :
              [sessions EXCEPT ![s] = [@ EXCEPT !.phase = "reading", !.req = r, !.cert = k,
                                                !.registered = f]] \in [Sessions -> SessionRec]
         /\ [sessions EXCEPT ![s] = [@ EXCEPT !.phase = "live", !.age = 0]]
              \in [Sessions -> SessionRec]
         /\ [sessions EXCEPT ![s] = [@ EXCEPT !.phase = "gone", !.age = 0, !.aborted = FALSE]]
              \in [Sessions -> SessionRec]
         /\ \A b \in BOOLEAN : [sessions EXCEPT ![s] = [@ EXCEPT !.aborted = b]]
              \in [Sessions -> SessionRec]
<1>1. sessions \in [Sessions -> SessionRec]
  BY DEF TypeOK
<1>2. 0 \in 0..SessionTTL
  BY TimeAssumption
<1>3. ASSUME NEW r \in Requests, NEW k \in Certs, NEW f \in Certs \cup {NoCert}
      PROVE  [sessions EXCEPT ![s] = [@ EXCEPT !.phase = "reading", !.req = r, !.cert = k,
                                                !.registered = f]] \in [Sessions -> SessionRec]
  BY <1>1 DEF SessionRec
<1>4. [sessions EXCEPT ![s] = [@ EXCEPT !.phase = "live", !.age = 0]]
              \in [Sessions -> SessionRec]
  BY <1>1, <1>2 DEF SessionRec
<1>5. [sessions EXCEPT ![s] = [@ EXCEPT !.phase = "gone", !.age = 0, !.aborted = FALSE]]
              \in [Sessions -> SessionRec]
  BY <1>1, <1>2 DEF SessionRec
<1>6. ASSUME NEW b \in BOOLEAN
      PROVE  [sessions EXCEPT ![s] = [@ EXCEPT !.aborted = b]] \in [Sessions -> SessionRec]
  BY <1>1 DEF SessionRec
<1>7. [sessions EXCEPT ![s].phase = "refused"] \in [Sessions -> SessionRec]
  BY <1>1 DEF SessionRec
<1> QED BY <1>3, <1>4, <1>5, <1>6, <1>7

\* A finalize call goes on to pc, or returns.
MovesTo(c, pc) == Goto(c, pc) \/ (pc = "done" /\ Return(c))

\* Moving a finalize call on keeps the calls' type.
LEMMA CallTypes ==
  ASSUME TypeOK, NEW c \in Calls
  PROVE  /\ \A pc \in {"idle", "peeked", "loaded", "popped", "lost", "done"} :
              MovesTo(c, pc) => calls' \in [Calls -> CallRec]
         /\ \A s \in Sessions, k \in Certs \cup {NoCert} :
              [calls EXCEPT ![c] = [@ EXCEPT !.pc = "peeked", !.sess = s, !.cert = k]]
                \in [Calls -> CallRec]
<1>1. calls \in [Calls -> CallRec]
  BY DEF TypeOK
<1>2. ASSUME NEW pc \in {"idle", "peeked", "loaded", "popped", "lost", "done"}, MovesTo(c, pc)
      PROVE  calls' \in [Calls -> CallRec]
  BY <1>1, <1>2 DEF MovesTo, Goto, Return, CallRec
<1>3. ASSUME NEW s \in Sessions, NEW k \in Certs \cup {NoCert}
      PROVE  [calls EXCEPT ![c] = [@ EXCEPT !.pc = "peeked", !.sess = s, !.cert = k]]
                \in [Calls -> CallRec]
  BY <1>1 DEF CallRec
<1> QED BY <1>2, <1>3

-----------------------------------------------------------------------------
(* One step keeps types and Consistent.  Most actions leave most of it alone *)
(* in the sense of these relations between a state and the next.             *)

Base == TypeOK /\ Consistent

\* What an attempt has read it keeps; what reached Redis once, did.
SessionsKept ==
  \A s \in Sessions : sessions[s].phase # "unused" =>
    /\ sessions'[s].phase # "unused"
    /\ sessions'[s].req = sessions[s].req
    /\ sessions'[s].cert = sessions[s].cert
    /\ sessions'[s].registered = sessions[s].registered
    /\ sessions[s].phase \in {"live", "gone"} => sessions'[s].phase \in {"live", "gone"}

\* No attempt starts, and none reaches Redis.
NoNewSession ==
  \A s \in Sessions :
    /\ sessions[s].phase = "unused" => sessions'[s].phase = "unused"
    /\ sessions'[s].phase \in {"live", "gone"} => sessions[s].phase \in {"live", "gone"}

\* No row becomes absent again.
RowsKept == \A r \in Requests : status[r] # "absent" => status'[r] # "absent"

\* Unchanged sessions are kept.
LEMMA SameSessions == UNCHANGED sessions => SessionsKept /\ NoNewSession
BY DEF SessionsKept, NoNewSession

LEMMA AttemptsKept ==
  ASSUME Base, SessionsKept, NoNewSession, UNCHANGED profile
  PROVE  AttemptsConsistent'
BY DEF Base, Consistent, AttemptsConsistent, CertMatchesProfile, SessionsKept, NoNewSession, profile

LEMMA CallsKept ==
  ASSUME Base, SessionsKept, UNCHANGED calls
  PROVE  CallsConsistent'
BY DEF Base, Consistent, CallsConsistent, SessionsKept

LEMMA ListsKept ==
  ASSUME Base, RowsKept, UNCHANGED reads
  PROVE  ListsConsistent'
BY DEF Base, TypeOK, Consistent, ListsConsistent, RowsKept, reads

LEMMA FilesKept ==
  ASSUME Base, SessionsKept, UNCHANGED <<files, calls>>
  PROVE  FilesConsistent'
BY DEF Base, Consistent, FilesConsistent, CallsConsistent, SessionsKept

\* A write of a status to a row that is there keeps the rows.
LEMMA SetStatusKeepsRows ==
  ASSUME TypeOK, NEW r \in Requests, NEW new \in RequestStatus, SetStatus(r, new)
  PROVE  RowsKept
BY DEF TypeOK, SetStatus, RowsKept, RequestStatus

-----------------------------------------------------------------------------
(* The actions *)

\* Inserting a request, by a rule or by a DSC Document Sign record.
LEMMA CreateStep ==
  ASSUME Base, NEW r \in Requests, CreateSigningRequest(r) \/ DocSignOnUpdate(r)
  PROVE  Base'
<1>1. TypeOK'
  <2>1. CASE CreateSigningRequest(r)
    BY <2>1, WriteTypes DEF Base, TypeOK, CreateSigningRequest, outputs, reads, profile,
       RequestStatus, EventType
  <2>2. CASE DocSignOnUpdate(r)
    BY <2>2, WriteTypes DEF Base, TypeOK, DocSignOnUpdate, outputs, reads, profile, RequestStatus
  <2> QED BY <2>1, <2>2
<1>2. /\ UNCHANGED <<outputs, sessions, calls, reads, profile>>
      /\ SetStatus(r, "Pending")
  BY DEF CreateSigningRequest, DocSignOnUpdate
<1>3. RowsKept
  BY <1>2, SetStatusKeepsRows DEF Base, RequestStatus
<1> QED
  BY <1>1, <1>2, <1>3, SameSessions, AttemptsKept, CallsKept, ListsKept, FilesKept
  DEF Base, Consistent, outputs

\* The desk forms: an edited status, a record's form that is saved.
LEMMA DeskStep ==
  ASSUME Base,
         \/ \E r \in Requests, new \in RequestStatus : EditStatus(r, new)
         \/ \E d \in DocSigns, st \in DocStatus : DocSignSave(d, st)
  PROVE  Base'
<1>1. UNCHANGED <<outputs, audit, sessions, calls, reads, profile>>
  BY DEF EditStatus, DocSignSave
<1>2. ASSUME NEW r \in Requests, NEW new \in RequestStatus, EditStatus(r, new)
      PROVE  TypeOK' /\ RowsKept
  <2>1. /\ status' = [status EXCEPT ![r] = new] /\ age' = [age EXCEPT ![r] = 0]
        /\ byHand' = (IF new \in Outcomes THEN byHand \cup {r} ELSE byHand)
        /\ UNCHANGED <<docSign, held>>
    BY <1>2 DEF EditStatus
  <2>2. status' \in [Requests -> RowStatus] /\ age' \in [Requests -> 0..AgeCap]
    BY <2>1, TimeAssumption DEF Base, TypeOK, RowStatus
  <2>3. byHand' \in SUBSET Requests
    BY <2>1 DEF Base, TypeOK
  <2>4. RowsKept
    BY <2>1 DEF Base, TypeOK, RowsKept, RequestStatus
  <2> QED BY <1>1, <2>1, <2>2, <2>3, <2>4 DEF Base, TypeOK, outputs, reads, profile
<1>3. ASSUME NEW d \in DocSigns, NEW st \in DocStatus, DocSignSave(d, st)
      PROVE  TypeOK' /\ RowsKept
  <2>1. /\ docSign' = [docSign EXCEPT ![d] = st] /\ held' = [held EXCEPT ![d] = {st}]
        /\ UNCHANGED <<status, age, byHand>>
    BY <1>3 DEF DocSignSave
  <2> QED BY <1>1, <2>1 DEF Base, TypeOK, RowsKept, outputs, reads, profile
<1> QED
  BY <1>1, <1>2, <1>3, SameSessions, AttemptsKept, CallsKept, ListsKept, FilesKept
  DEF Base, Consistent, outputs

\* initiate, step by step.
LEMMA InitiateSteps ==
  ASSUME Base, NEW s \in Sessions, InitiateStep(s)
  PROVE  Base'
<1>1. ASSUME NEW u \in Users, NEW r \in Requests, NEW k \in Certs, NEW a \in SUBSET Users,
             InitiateRead(s, u, r, k, a)
      PROVE  Base'
  <2>1. fingerprint[ProfileOf[r]] \in Certs \cup {NoCert}
    BY SourceAssumption DEF Base, TypeOK
  <2>2. sessions' \in [Sessions -> SessionRec]
    BY <1>1, <2>1, SessionTypes DEF Base, InitiateRead
  <2>3. UNCHANGED <<rows, outputs, audit, calls, reads, profile>>
    BY <1>1 DEF InitiateRead
  <2>4. TypeOK'
    BY <2>2, <2>3 DEF Base, TypeOK, rows, outputs, reads, profile
  <2>5. \A t \in Sessions \ {s} : sessions'[t] = sessions[t]
    BY <1>1 DEF Base, InitiateRead, TypeOK
  <2>6. /\ sessions[s].phase = "unused"
        /\ sessions'[s].phase = "reading" /\ sessions'[s].req = r /\ sessions'[s].cert = k
        /\ sessions'[s].registered = fingerprint[ProfileOf[r]]
    BY <1>1 DEF Base, InitiateRead, TypeOK, SessionRec
  <2>7. SessionsKept /\ RowsKept
    BY <2>3, <2>5, <2>6 DEF SessionsKept, RowsKept, rows
  <2>8. AttemptsConsistent'
    BY <2>3, <2>5, <2>6
    DEF Base, Consistent, AttemptsConsistent, CertMatchesProfile, profile
  <2> QED
    BY <2>3, <2>4, <2>7, <2>8, CallsKept, ListsKept, FilesKept DEF Base, Consistent, outputs
<1>2. ASSUME InitiateCommit(s) PROVE Base'
  <2>1. sessions[s].req \in Requests /\ sessions[s].phase = "reading" /\ CertMatchesProfile(s)
    BY <1>2 DEF InitiateCommit, Base, Consistent, AttemptsConsistent
  <2>2. /\ SetStatus(sessions[s].req, "In Progress")
        /\ MirrorQuietly(SourceOf[sessions[s].req], "In Progress")
        /\ Log(sessions[s].req, {"Agent Called"}, s)
        /\ UNCHANGED <<outputs, calls, reads, profile>>
    BY <1>2 DEF InitiateCommit
  <2>3. sessions' \in [Sessions -> SessionRec]
    BY <1>2, SessionTypes DEF Base, InitiateCommit
  <2>4. TypeOK'
    BY <2>1, <2>2, <2>3, WriteTypes
    DEF Base, TypeOK, outputs, reads, profile, RequestStatus, EventType
  <2>5. \A t \in Sessions : /\ sessions'[t].req = sessions[t].req
                            /\ sessions'[t].cert = sessions[t].cert
                            /\ sessions'[t].registered = sessions[t].registered
                            /\ t # s => sessions'[t].phase = sessions[t].phase
                            /\ sessions'[s].phase = "live"
    BY <1>2 DEF InitiateCommit, Base, TypeOK, SessionRec
  <2>6. SessionsKept
    BY <2>1, <2>5 DEF SessionsKept
  <2>7. AttemptsConsistent'
    BY <2>1, <2>2, <2>5 DEF Base, Consistent, AttemptsConsistent, CertMatchesProfile, profile
  <2>8. RowsKept
    BY <2>1, <2>2, SetStatusKeepsRows DEF Base, RequestStatus
  <2> QED
    BY <2>2, <2>4, <2>6, <2>7, <2>8, CallsKept, ListsKept, FilesKept
    DEF Base, Consistent, outputs
<1>3. ASSUME InitiateRefused(s) PROVE Base'
  <2>1. sessions' \in [Sessions -> SessionRec]
    BY <1>3, SessionTypes DEF Base, InitiateRefused
  <2>2. UNCHANGED <<rows, outputs, audit, calls, reads, profile>>
    BY <1>3 DEF InitiateRefused
  <2>3. TypeOK' /\ RowsKept
    BY <2>1, <2>2 DEF Base, TypeOK, rows, outputs, reads, profile, RowsKept
  <2>4. \A t \in Sessions : /\ sessions'[t].req = sessions[t].req
                            /\ sessions'[t].cert = sessions[t].cert
                            /\ sessions'[t].registered = sessions[t].registered
                            /\ t # s => sessions'[t].phase = sessions[t].phase
                            /\ sessions'[s].phase = "refused" /\ sessions[s].phase = "reading"
    BY <1>3 DEF InitiateRefused, Base, TypeOK, SessionRec
  <2>5. SessionsKept /\ NoNewSession
    BY <2>4 DEF SessionsKept, NoNewSession
  <2> QED
    BY <2>2, <2>3, <2>5, AttemptsKept, CallsKept, ListsKept, FilesKept
    DEF Base, Consistent, outputs
<1> QED BY <1>1, <1>2, <1>3 DEF InitiateStep


-----------------------------------------------------------------------------
(* finalize *)

\* A finalize call that moves on, past its first look and before its end, keeps
\* calls and files consistent, whether it saves a file or not.
LEMMA CallMoves ==
  ASSUME Base, SessionsKept, NEW c \in Calls, calls[c].pc \notin {"idle", "done"},
         NEW pc \in {"idle", "peeked", "loaded", "popped", "lost", "done"}, MovesTo(c, pc)
  PROVE  /\ calls' \in [Calls -> CallRec]
         /\ CallsConsistent'
         /\ UNCHANGED files => FilesConsistent'
         /\ UNCHANGED sessions /\ pc = "done" /\ SaveSignedPdf(c) =>
              FilesConsistent' /\ files' \in [Calls -> FileRec \cup {NoFile}]
<1>1. calls' \in [Calls -> CallRec]
  BY CallTypes DEF Base
<1>2. /\ calls'[c].pc = pc /\ calls'[c].sess = calls[c].sess
      /\ \A b \in Calls \ {c} : calls'[b] = calls[b]
  BY DEF Base, TypeOK, MovesTo, Goto, Return, CallRec
<1>3. CallsConsistent'
  BY <1>2 DEF Base, Consistent, CallsConsistent, SessionsKept
<1>4. files[c] = NoFile
  BY DEF Base, Consistent, FilesConsistent
<1>5. ASSUME UNCHANGED files PROVE FilesConsistent'
  BY <1>2, <1>4, <1>5 DEF Base, Consistent, FilesConsistent, CallsConsistent, SessionsKept
<1>6. ASSUME UNCHANGED sessions, pc = "done", SaveSignedPdf(c)
      PROVE  FilesConsistent' /\ files' \in [Calls -> FileRec \cup {NoFile}]
  <2>1. ReqOfCall(c) \in Requests /\ calls[c].sess \in Sessions
        /\ sessions[calls[c].sess].cert \in Certs
    BY CallRequest DEF Base, Consistent
  <2>2. files' \in [Calls -> FileRec \cup {NoFile}]
    BY <1>6, <2>1 DEF Base, TypeOK, SaveSignedPdf, FileRec
  <2>3. /\ files'[c].req = ReqOfCall(c) /\ files'[c].sess = calls[c].sess
        /\ files'[c].cert = sessions[calls[c].sess].cert
        /\ \A b \in Calls \ {c} : files'[b] = files[b]
    BY <1>6 DEF Base, TypeOK, SaveSignedPdf
  <2>4. FilesConsistent'
    BY <1>2, <1>6, <2>3 DEF Base, Consistent, FilesConsistent, ReqOfCall
  <2> QED BY <2>2, <2>4
<1> QED BY <1>1, <1>3, <1>5, <1>6

\* get_session_info.
LEMMA PeekStep ==
  ASSUME Base, NEW c \in Calls, NEW s \in Sessions, NEW k \in Certs \cup {NoCert},
         FinalizePeek(c, s, k)
  PROVE  Base'
<1>1. /\ calls[c].pc = "idle" /\ sessions[s].phase = "live"
      /\ calls' = [calls EXCEPT ![c] = [@ EXCEPT !.pc = "peeked", !.sess = s, !.cert = k]]
      /\ UNCHANGED <<rows, outputs, audit, sessions, reads, profile>>
  BY DEF FinalizePeek, Alive
<1>2. /\ calls'[c].pc = "peeked" /\ calls'[c].sess = s
      /\ \A b \in Calls \ {c} : calls'[b] = calls[b]
  BY <1>1 DEF Base, TypeOK, CallRec
<1>3. TypeOK' /\ RowsKept
  BY <1>1, CallTypes DEF Base, TypeOK, rows, outputs, reads, profile, RowsKept
<1>4. CallsConsistent'
  BY <1>1, <1>2 DEF Base, Consistent, CallsConsistent
<1>5. FilesConsistent'
  BY <1>1, <1>2 DEF Base, Consistent, FilesConsistent, outputs
<1> QED
  BY <1>1, <1>3, <1>4, <1>5, SameSessions, AttemptsKept, ListsKept DEF Base, Consistent

\* The steps of finalize that write no row: the two halves of the pop, and the
\* call that finds its row gone.
LEMMA PopSteps ==
  ASSUME Base, NEW c \in Calls, FinalizeLoad(c) \/ FinalizePop(c) \/ FinalizeVanished(c)
  PROVE  Base'
<1>1. PICK pc \in {"idle", "peeked", "loaded", "popped", "lost", "done"} :
        MovesTo(c, pc) /\ calls[c].pc \notin {"idle", "done"}
  BY DEF MovesTo, FinalizeLoad, FinalizePop, FinalizeVanished
<1>2. UNCHANGED <<rows, outputs, audit, reads, profile>>
  BY DEF FinalizeLoad, FinalizePop, FinalizeVanished
<1>3. /\ sessions' \in [Sessions -> SessionRec]
      /\ SessionsKept /\ NoNewSession
  <2>1. CASE UNCHANGED sessions
    BY <2>1, SameSessions DEF Base, TypeOK
  <2>2. CASE FinalizePop(c)
    <3> DEFINE s == calls[c].sess
    <3>1. s \in Sessions /\ sessions[s].phase \in {"live", "gone"}
      BY <1>1, CallRequest DEF Base, Consistent
    <3>2. sessions' = [sessions EXCEPT ![s] =
                         [@ EXCEPT !.phase = "gone", !.age = 0, !.aborted = FALSE]]
      BY <2>2 DEF FinalizePop
    <3> HIDE DEF s
    <3>3. \A t \in Sessions : /\ sessions'[t].req = sessions[t].req
                              /\ sessions'[t].cert = sessions[t].cert
                              /\ sessions'[t].registered = sessions[t].registered
                              /\ t # s => sessions'[t].phase = sessions[t].phase
                              /\ sessions'[s].phase = "gone"
      BY <3>1, <3>2 DEF Base, TypeOK, SessionRec
    <3>4. SessionsKept /\ NoNewSession
      BY <3>1, <3>3 DEF SessionsKept, NoNewSession
    <3> QED BY <3>1, <3>2, <3>4, SessionTypes DEF Base
  <2> QED BY <2>1, <2>2 DEF FinalizeLoad, FinalizeVanished
<1>4. calls' \in [Calls -> CallRec] /\ CallsConsistent' /\ FilesConsistent'
  BY <1>1, <1>2, <1>3, CallMoves DEF outputs
<1>5. TypeOK' /\ RowsKept
  BY <1>2, <1>3, <1>4 DEF Base, TypeOK, rows, outputs, reads, profile, RowsKept
<1> QED
  BY <1>2, <1>3, <1>4, <1>5, AttemptsKept, ListsKept DEF Base, Consistent

\* The endings of finalize that write the row.
LEMMA EndSteps ==
  ASSUME Base, NEW c \in Calls,
         \/ FinalizeMismatch(c) \/ FinalizeSigned(c) \/ FinalizeFailed(c)
         \/ FinalizeUnverified(c) \/ \E signed, logged \in BOOLEAN : FinalizeFailedLate(c, signed, logged)
  PROVE  Base'
<1> DEFINE r == ReqOfCall(c)
<1>1. calls[c].pc \notin {"idle", "done"} /\ MovesTo(c, "done")
      /\ UNCHANGED <<sessions, reads, profile>>
  BY DEF MovesTo, FinalizeMismatch, FinalizeSigned, FinalizeFailed, FinalizeUnverified,
     FinalizeFailedLate, FailWith
<1>2. r \in Requests
  BY <1>1, CallRequest DEF Base, Consistent
<1>3. PICK new \in {"Signed", "Failed"} :
        SetStatus(r, new) /\ (Mirror(r, new) \/ UNCHANGED <<docSign, held>>)
  BY DEF FinalizeMismatch, FinalizeSigned, FinalizeFailed, FinalizeUnverified,
     FinalizeFailedLate, FailWith
<1>4. PICK types \in SUBSET EventType : Log(r, types, c)
  <2>1. CASE FinalizeMismatch(c)
    BY <2>1 DEF FinalizeMismatch, EventType
  <2>2. CASE FinalizeSigned(c)
    BY <2>2 DEF FinalizeSigned, EventType
  <2>3. CASE FinalizeFailed(c)
    BY <2>3 DEF FinalizeFailed, FailWith, EventType
  <2>4. CASE FinalizeUnverified(c)
    BY <2>4 DEF FinalizeUnverified, FailWith, EventType
  <2>5. ASSUME NEW signed \in BOOLEAN, NEW logged \in BOOLEAN,
               FinalizeFailedLate(c, signed, logged)
        PROVE  \E types \in SUBSET EventType : Log(r, types, c)
    BY <2>5 DEF FinalizeFailedLate, FailWith, EventType
  <2> QED BY <2>1, <2>2, <2>3, <2>4, <2>5
<1>5. SaveSignedPdf(c) \/ UNCHANGED files
  BY DEF FinalizeMismatch, FinalizeSigned, FinalizeFailed, FinalizeUnverified,
     FinalizeFailedLate, outputs
<1>6. signedFile' = [signedFile EXCEPT ![r] = c] \/ UNCHANGED signedFile
  BY DEF FinalizeMismatch, FinalizeSigned, FinalizeFailed, FinalizeUnverified,
     FinalizeFailedLate, outputs
<1> HIDE DEF r
<1>7. signedFile' \in [Requests -> Calls \cup {NoFile}]
  BY <1>2, <1>6 DEF Base, TypeOK
<1>8. SessionsKept /\ NoNewSession
  BY <1>1, SameSessions
<1>9. /\ calls' \in [Calls -> CallRec] /\ files' \in [Calls -> FileRec \cup {NoFile}]
      /\ CallsConsistent' /\ FilesConsistent'
  BY <1>1, <1>5, <1>8, CallMoves DEF Base, TypeOK
<1>10. /\ status' \in [Requests -> RowStatus] /\ age' \in [Requests -> 0..AgeCap]
       /\ docSign' \in [DocSigns -> DocStatus] /\ held' \in [DocSigns -> SUBSET DocStatus]
       /\ byHand' \in SUBSET Requests /\ audit' \in [Requests -> SUBSET Event]
       /\ RowsKept
  <2>1. new \in RequestStatus
    BY <1>3 DEF RequestStatus
  <2> QED BY <1>2, <1>3, <1>4, <2>1, WriteTypes, SetStatusKeepsRows DEF Base, TypeOK
<1>11. TypeOK'
  BY <1>1, <1>7, <1>9, <1>10 DEF Base, TypeOK, reads, profile
<1> QED
  BY <1>1, <1>8, <1>9, <1>10, <1>11, AttemptsKept, ListsKept DEF Base, Consistent

-----------------------------------------------------------------------------
(* The other calls, the jobs and the environment *)

\* validate_status_transition has no way back from In Progress to Pending, so
\* abort_in_progress never writes the row.
LEMMA AbortIsRefused == ~ValidTransition("In Progress", "Pending")
BY DEF ValidTransition

LEMMA AbortStep ==
  ASSUME Base, NEW s \in Sessions, AbortInProgress(s)
  PROVE  Base'
<1>1. /\ sessions' = [sessions EXCEPT ![s] = [@ EXCEPT !.aborted = (sessions[s].phase = "live")]]
      /\ UNCHANGED <<rows, audit, outputs, calls, reads, profile>>
  BY AbortIsRefused DEF AbortInProgress
<1> DEFINE b == sessions[s].phase = "live"
<1>2. b \in BOOLEAN /\ sessions' = [sessions EXCEPT ![s] = [@ EXCEPT !.aborted = b]]
  BY <1>1
<1> HIDE DEF b
<1>3. sessions' \in [Sessions -> SessionRec]
  BY <1>2, SessionTypes DEF Base
<1>4. \A t \in Sessions : /\ sessions'[t].req = sessions[t].req
                          /\ sessions'[t].cert = sessions[t].cert
                          /\ sessions'[t].registered = sessions[t].registered
                          /\ sessions'[t].phase = sessions[t].phase
  BY <1>2 DEF Base, TypeOK, SessionRec
<1>5. SessionsKept /\ NoNewSession
  BY <1>4 DEF SessionsKept, NoNewSession
<1>6. TypeOK' /\ RowsKept
  BY <1>1, <1>3 DEF Base, TypeOK, rows, outputs, reads, profile, RowsKept
<1> QED
  BY <1>1, <1>5, <1>6, AttemptsKept, CallsKept, ListsKept, FilesKept
  DEF Base, Consistent, outputs

\* get_signing_status, its read and its write.
LEMMA PollSteps ==
  ASSUME Base, NEW d \in Sources, GetSigningStatusRead(d) \/ GetSigningStatusWrite(d)
  PROVE  Base'
<1>1. UNCHANGED <<age, outputs, audit, sessions, calls, expiring, purging, profile>>
  BY DEF GetSigningStatusRead, GetSigningStatusWrite, rows
<1>2. CASE GetSigningStatusRead(d)
  <2>1. UNCHANGED <<status, docSign, held, byHand>>
    BY <1>2 DEF GetSigningStatusRead, rows
  <2>2. polled' = [polled EXCEPT ![d] = StaleOf(d)]
    BY <1>2 DEF GetSigningStatusRead
  <2>3. TypeOK'
    BY <1>1, <2>1, <2>2 DEF Base, TypeOK, StaleOf, outputs, profile
  <2>4. ListsConsistent'
    BY <1>1, <2>1, <2>2 DEF Base, TypeOK, Consistent, ListsConsistent, StaleOf
  <2> QED
    BY <1>1, <2>3, <2>4, SameSessions, AttemptsKept, CallsKept, FilesKept
    DEF Base, Consistent, outputs
<1>3. CASE GetSigningStatusWrite(d)
  <2> DEFINE hit == {r \in polled[d] : Exists(r)}
  <2>1. /\ status' = [r \in Requests |-> IF r \in hit THEN "Pending" ELSE status[r]]
        /\ byHand' = byHand \ hit
        /\ MirrorQuietly(d, "Pending")
        /\ polled' = [polled EXCEPT ![d] = {}]
    BY <1>3 DEF GetSigningStatusWrite
  <2> HIDE DEF hit
  <2>2. TypeOK'
    <3>1. docSign' \in [DocSigns -> DocStatus] /\ held' \in [DocSigns -> SUBSET DocStatus]
      BY <2>1 DEF Base, TypeOK, MirrorQuietly, DocStatus, RequestStatus
    <3>2. status' \in [Requests -> RowStatus] /\ byHand' \in SUBSET Requests
      BY <2>1 DEF Base, TypeOK, RowStatus, RequestStatus
    <3> QED BY <1>1, <2>1, <3>1, <3>2 DEF Base, TypeOK, outputs, profile
  <2>3. RowsKept
    BY <2>1 DEF RowsKept
  <2>4. ListsConsistent'
    BY <1>1, <2>1, <2>3 DEF Base, TypeOK, Consistent, ListsConsistent, RowsKept
  <2> QED
    BY <1>1, <2>2, <2>4, SameSessions, AttemptsKept, CallsKept, FilesKept
    DEF Base, Consistent, outputs
<1> QED BY <1>2, <1>3

\* retry and cancel.
LEMMA RetryCancelSteps ==
  ASSUME Base, NEW r \in Requests, Retry(r) \/ Cancel(r)
  PROVE  Base'
<1>1. PICK new \in {"Pending", "Cancelled"}, e \in {"Request Retried", "Request Cancelled"} :
        SetStatus(r, new) /\ Mirror(r, new) /\ Log(r, {e}, r)
  BY DEF Retry, Cancel
<1>2. UNCHANGED <<outputs, sessions, calls, reads, profile>>
  BY DEF Retry, Cancel
<1>3. new \in RequestStatus /\ {e} \in SUBSET EventType
  BY DEF RequestStatus, EventType
<1>4. TypeOK' /\ RowsKept
  BY <1>1, <1>2, <1>3, WriteTypes, SetStatusKeepsRows DEF Base, TypeOK, outputs, reads, profile
<1> QED
  BY <1>2, <1>4, SameSessions, AttemptsKept, CallsKept, ListsKept, FilesKept
  DEF Base, Consistent, outputs

\* The hourly job and the retention job, their reads and their writes.
LEMMA JobSteps ==
  ASSUME Base, \/ ExpireStaleRead \/ ExpireStaleWrite
               \/ (\E old \in SUBSET Requests : PurgeRead(old)) \/ PurgeWrite
  PROVE  Base'
<1>1. UNCHANGED <<docSign, held, outputs, audit, sessions, calls, polled, profile>>
  BY DEF ExpireStaleRead, ExpireStaleWrite, PurgeRead, PurgeWrite, rows
<1>2. ASSUME /\ status' \in [Requests -> RowStatus] /\ age' \in [Requests -> 0..AgeCap]
             /\ byHand' \in SUBSET Requests
             /\ expiring' \in SUBSET Requests /\ purging' \in SUBSET Requests
             /\ ListsConsistent'
      PROVE  Base'
  <2>1. TypeOK'
    BY <1>1, <1>2 DEF Base, TypeOK, outputs, profile
  <2> QED
    BY <1>1, <1>2, <2>1, SameSessions, AttemptsKept, CallsKept, FilesKept
    DEF Base, Consistent, outputs
<1>3. CASE ExpireStaleRead
  <2>1. /\ UNCHANGED <<status, age, byHand, polled, purging>>
        /\ expiring' = TimedOut
    BY <1>3 DEF ExpireStaleRead, rows
  <2> QED
    BY <1>2, <2>1 DEF Base, TypeOK, Consistent, ListsConsistent, TimedOut
<1>4. CASE ExpireStaleWrite
  <2>1. /\ status' = [r \in Requests |->
                        IF r \in {x \in expiring : Exists(x)} THEN "Failed" ELSE status[r]]
        /\ age' = [r \in Requests |-> IF r \in {x \in expiring : Exists(x)} THEN 0 ELSE age[r]]
        /\ byHand' = byHand \ {x \in expiring : Exists(x)}
        /\ UNCHANGED <<polled, purging>> /\ expiring' = {}
    BY <1>4 DEF ExpireStaleWrite
  <2>2. status' \in [Requests -> RowStatus] /\ age' \in [Requests -> 0..AgeCap]
    <3> DEFINE hit == {x \in expiring : Exists(x)}
    <3>1. 0 \in 0..AgeCap
      BY TimeAssumption
    <3>2. /\ status' = [r \in Requests |-> IF r \in hit THEN "Failed" ELSE status[r]]
          /\ age' = [r \in Requests |-> IF r \in hit THEN 0 ELSE age[r]]
      BY <2>1
    <3> HIDE DEF hit
    <3>3. status' \in [Requests -> RowStatus]
      BY <3>2 DEF Base, TypeOK, RowStatus, RequestStatus
    <3>4. age' \in [Requests -> 0..AgeCap]
      BY <3>1, <3>2 DEF Base, TypeOK
    <3> QED BY <3>3, <3>4
  <2>3. RowsKept
    BY <2>1 DEF RowsKept
  <2>4. ListsConsistent'
    BY <2>1, <2>3 DEF Base, TypeOK, Consistent, ListsConsistent, RowsKept
  <2> QED BY <1>2, <2>1, <2>2, <2>4 DEF Base, TypeOK
<1>5. ASSUME NEW old \in SUBSET Requests, PurgeRead(old) PROVE Base'
  <2>1. /\ UNCHANGED <<status, age, byHand, polled, expiring>>
        /\ purging' = old
        /\ \A r \in old : status[r] \in {"Signed", "Failed", "Cancelled"}
    BY <1>5 DEF PurgeRead, rows
  <2> QED
    BY <1>2, <2>1 DEF Base, TypeOK, Consistent, ListsConsistent
<1>6. CASE PurgeWrite
  <2>1. /\ status' = [r \in Requests |-> IF r \in purging THEN "purged" ELSE status[r]]
        /\ byHand' = byHand \ purging
        /\ UNCHANGED <<age, polled, expiring>> /\ purging' = {}
    BY <1>6 DEF PurgeWrite
  <2>2. status' \in [Requests -> RowStatus]
    BY <2>1 DEF Base, TypeOK, RowStatus
  <2>3. RowsKept
    BY <2>1 DEF RowsKept
  <2>4. ListsConsistent'
    BY <2>1, <2>3 DEF Base, TypeOK, Consistent, ListsConsistent, RowsKept
  <2> QED BY <1>2, <2>1, <2>2, <2>4 DEF Base, TypeOK
<1> QED BY <1>3, <1>4, <1>5, <1>6

\* register_certificate: the certificate an attempt read stays on record.
LEMMA RegisterStep ==
  ASSUME Base, NEW p \in Profiles, NEW k \in Certs, RegisterCertificate(p, k)
  PROVE  Base'
<1>1. UNCHANGED <<rows, outputs, audit, sessions, calls, reads>>
  BY DEF RegisterCertificate
<1>2. /\ fingerprint' = [fingerprint EXCEPT ![p] = k]
      /\ previous' = [previous EXCEPT ![p] = @ \cup ({fingerprint[p]} \ {NoCert})]
  BY DEF RegisterCertificate
<1>3. TypeOK' /\ RowsKept
  BY <1>1, <1>2 DEF Base, TypeOK, rows, outputs, reads, RowsKept
<1>4. \A q \in Profiles, f \in Certs :
        f \in previous[q] \cup {fingerprint[q]} => f \in previous'[q] \cup {fingerprint'[q]}
  BY <1>2, NullAssumption DEF Base, TypeOK
<1>5. AttemptsConsistent'
  <2> SUFFICES ASSUME NEW s \in Sessions, sessions[s].phase # "unused",
                      sessions[s].registered # NoCert
               PROVE  sessions[s].registered \in previous'[ProfileOf[sessions[s].req]]
                                                 \cup {fingerprint'[ProfileOf[sessions[s].req]]}
    BY <1>1 DEF Base, Consistent, AttemptsConsistent, CertMatchesProfile
  <2>1. sessions[s].registered \in Certs
    BY DEF Base, TypeOK, SessionRec
  <2>2. ProfileOf[sessions[s].req] \in Profiles
    BY SourceAssumption DEF Base, Consistent, AttemptsConsistent
  <2> QED BY <1>4, <2>1, <2>2 DEF Base, Consistent, AttemptsConsistent
<1> QED
  BY <1>1, <1>3, <1>5, SameSessions, CallsKept, ListsKept, FilesKept
  DEF Base, Consistent, outputs

\* Time passes.
LEMMA TickStep ==
  ASSUME Base, Tick
  PROVE  Base'
<1>1. UNCHANGED <<status, docSign, held, byHand, outputs, audit, calls, reads, profile>>
  BY DEF Tick
<1>2. age' \in [Requests -> 0..AgeCap]
  BY RecordTypes DEF Base, TypeOK, Tick
<1>3. sessions' = [s \in Sessions |->
       IF sessions[s].phase = "live"
       THEN [sessions[s] EXCEPT !.age = Older(sessions[s].age, SessionTTL)] ELSE sessions[s]]
  BY DEF Tick
<1>4. \A s \in Sessions : Older(sessions[s].age, SessionTTL) \in 0..SessionTTL
  BY RecordTypes DEF Base, TypeOK, SessionRec
<1>5. sessions' \in [Sessions -> SessionRec]
  <2>1. ASSUME NEW y \in SessionRec, NEW n \in 0..SessionTTL
        PROVE  [y EXCEPT !.age = n] \in SessionRec
    BY <2>1 DEF SessionRec
  <2>2. ASSUME NEW s \in Sessions PROVE sessions'[s] \in SessionRec
    BY <1>3, <1>4, <2>1 DEF Base, TypeOK
  <2> QED BY <1>3, <2>2
<1>6. \A s \in Sessions : /\ sessions'[s].req = sessions[s].req
                          /\ sessions'[s].cert = sessions[s].cert
                          /\ sessions'[s].registered = sessions[s].registered
                          /\ sessions'[s].phase = sessions[s].phase
  BY <1>3 DEF Base, TypeOK, SessionRec
<1>7. SessionsKept /\ NoNewSession
  BY <1>6 DEF SessionsKept, NoNewSession
<1>8. TypeOK' /\ RowsKept
  BY <1>1, <1>2, <1>5 DEF Base, TypeOK, outputs, reads, profile, RowsKept
<1> QED
  BY <1>1, <1>7, <1>8, AttemptsKept, CallsKept, ListsKept, FilesKept
  DEF Base, Consistent, outputs

-----------------------------------------------------------------------------
(* Type correctness and consistency of every reachable state *)

LEMMA InitBase == Init => Base
BY InitType DEF Init, Base, Consistent, AttemptsConsistent, CallsConsistent, ListsConsistent,
   FilesConsistent, NoSessionRec

LEMMA NextBase == Base /\ [Next]_vars => Base'
<1> SUFFICES ASSUME Base, [Next]_vars PROVE Base'
  OBVIOUS
<1>1. CASE Next
  BY <1>1, CreateStep, DeskStep, InitiateSteps, AbortStep, PeekStep, PopSteps, EndSteps, PollSteps,
     RetryCancelSteps, JobSteps, RegisterStep, TickStep
  DEF Next, FinalizeStep
<1>2. CASE UNCHANGED vars
  <2>1. UNCHANGED <<rows, outputs, audit, sessions, calls, reads, profile>>
    BY <1>2 DEF vars
  <2>2. TypeOK' /\ RowsKept
    BY <2>1 DEF Base, TypeOK, rows, outputs, reads, profile, RowsKept
  <2> QED
    BY <2>1, <2>2, SameSessions, AttemptsKept, CallsKept, ListsKept, FilesKept
    DEF Base, Consistent, outputs
<1> QED BY <1>1, <1>2

\* In every reachable state every variable has its type.
THEOREM TypeCorrect == Spec => []TypeOK
BY InitBase, NextBase, PTL DEF Spec, Base

\* In every reachable state what a finalize call, a poll or a job remembers of
\* an attempt is what the attempt was, and a stored session's certificate is one
\* the profile had no objection to (the check in initiate).
THEOREM ConsistentAlways == Spec => []Consistent
BY InitBase, NextBase, PTL DEF Spec, Base

=============================================================================
