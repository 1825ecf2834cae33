---------------------- MODULE SigningLifecycle_proofs ----------------------
(***************************************************************************)
(* Proofs that the server follows RequestLifecycle for every request, and  *)
(* that a settled request stays settled.  Both rest on one fact: a step    *)
(* lets a request rest, is the end of work that was under way on it, or is *)
(* one of the moves that look at the status first.                         *)
(***************************************************************************)
EXTENDS SigningLifecycle, SigningEvidence_proofs

\* The status stays, and new work is only taken up while the request is open.
Rests(r) ==
  /\ status'[r] = status[r]
  /\ signedFile'[r] = signedFile[r]
  /\ InFlight(r)' => InFlight(r) \/ status[r] \in {"Pending", "In Progress"}

\* Work that was under way writes the row.
Works(r) ==
  /\ InFlight(r) /\ Exists(r)
  /\ status'[r] \in RequestStatus \ {"Cancelled"}
  /\ status'[r] = "Signed" => signedFile'[r] # NoFile
  /\ signedFile[r] # NoFile => signedFile'[r] # NoFile

\* A move that looks at the status first, whatever else is at work.
Moves(r) ==
  /\ InFlight(r)' <=> InFlight(r)
  /\ signedFile'[r] = signedFile[r]
  /\ \/ status[r] = "absent"  /\ status'[r] = "Pending"
     \/ Exists(r)             /\ ValidTransition(status[r], status'[r])
     \/ Exists(r)             /\ status'[r] = "purged"

Follows == \A r \in Requests : Rests(r) \/ Works(r) \/ Moves(r)

-----------------------------------------------------------------------------
(* What is at work on a request *)

\* Nobody at work before, nobody at work after.
LEMMA NoNewFlight ==
  ASSUME Base, NEW r \in Requests, SessionsKept,
         \A s \in Sessions : sessions'[s].req = r /\ (sessions'[s].phase = "reading" \/ Alive(s)')
           => sessions[s].req = r /\ (sessions[s].phase = "reading" \/ Alive(s)),
         \A c \in Calls : calls'[c].pc \notin {"idle", "done"} =>
           calls[c].pc \notin {"idle", "done"} /\ calls'[c].sess = calls[c].sess,
         \A d \in Sources : polled'[d] \subseteq polled[d],
         expiring' \subseteq expiring
  PROVE  InFlight(r)' => InFlight(r)
<1> SUFFICES ASSUME InFlight(r)' PROVE InFlight(r)
  OBVIOUS
<1>1. ASSUME NEW s \in Sessions,
             sessions'[s].req = r /\ (sessions'[s].phase = "reading" \/ Alive(s)')
      PROVE  InFlight(r)
  BY <1>1 DEF InFlight
<1>2. ASSUME NEW c \in Calls, calls'[c].pc \notin {"idle", "done"} /\ ReqOfCall(c)' = r
      PROVE  InFlight(r)
  <2>1. calls[c].pc \notin {"idle", "done"} /\ calls'[c].sess = calls[c].sess
    BY <1>2
  <2>2. calls[c].sess \in Sessions /\ sessions[calls[c].sess].phase # "unused"
    BY <2>1, CallRequest DEF Base, Consistent
  <2>3. ReqOfCall(c) = r
    BY <1>2, <2>1, <2>2 DEF ReqOfCall, SessionsKept
  <2> QED BY <2>1, <2>3 DEF InFlight
<1>3. ASSUME NEW d \in Sources, r \in polled'[d] PROVE InFlight(r)
  BY <1>3 DEF InFlight
<1>4. CASE r \in expiring'
  BY <1>4 DEF InFlight
<1> QED BY <1>1, <1>2, <1>3, <1>4 DEF InFlight

\* The rows alone do not say who is at work.
LEMMA SameFlight ==
  ASSUME NEW r \in Requests, UNCHANGED <<sessions, calls, polled, expiring>>
  PROVE  InFlight(r)' <=> InFlight(r)
BY DEF InFlight, Alive, ReqOfCall

-----------------------------------------------------------------------------
(* The actions *)

\* Creation, retry, cancel, an edit: a write that looks at the row first.
LEMMA RowMovesFollow ==
  ASSUME Base, NEW q \in Requests,
         \/ CreateSigningRequest(q) \/ DocSignOnUpdate(q) \/ Retry(q) \/ Cancel(q)
         \/ \E new \in RequestStatus : EditStatus(q, new)
  PROVE  Follows
<1>1. UNCHANGED <<outputs, sessions, calls, reads>>
  BY DEF CreateSigningRequest, DocSignOnUpdate, Retry, Cancel, EditStatus
<1>2. /\ \A r \in Requests \ {q} : status'[r] = status[r]
      /\ \/ status[q] = "absent"  /\ status'[q] = "Pending"
         \/ Exists(q) /\ ValidTransition(status[q], status'[q])
  <2>1. CASE CreateSigningRequest(q) \/ DocSignOnUpdate(q)
    BY <2>1 DEF CreateSigningRequest, DocSignOnUpdate, SetStatus, Base, TypeOK
  <2>2. CASE Retry(q) \/ Cancel(q)
    BY <2>2 DEF Retry, Cancel, SetStatus, Exists, Base, TypeOK
  <2>3. CASE \E new \in RequestStatus : EditStatus(q, new)
    BY <2>3 DEF EditStatus, Base, TypeOK
  <2> QED BY <2>1, <2>2, <2>3
<1>3. \A r \in Requests : (InFlight(r)' <=> InFlight(r)) /\ signedFile'[r] = signedFile[r]
  BY <1>1, SameFlight DEF reads, outputs
<1> QED BY <1>2, <1>3 DEF Follows, Rests, Moves

\* initiate: it takes up a Pending request, and its commit is work.
LEMMA InitiateFollows ==
  ASSUME Base, NEW s \in Sessions, InitiateStep(s)
  PROVE  Follows
<1> SUFFICES ASSUME NEW r \in Requests PROVE Rests(r) \/ Works(r)
  BY DEF Follows
<1>1. UNCHANGED <<outputs, calls, reads>>
  BY DEF InitiateStep, InitiateRead, InitiateCommit, InitiateRefused
<1>2. UNCHANGED <<signedFile, calls, polled, expiring>>
  BY <1>1 DEF outputs, reads
<1>3. ASSUME NEW u \in Users, NEW q \in Requests, NEW k \in Certs, NEW a \in SUBSET Users,
             InitiateRead(s, u, q, k, a)
      PROVE  Rests(r)
  <2>1. /\ status[q] = "Pending" /\ UNCHANGED status /\ sessions[s].phase = "unused"
        /\ \A t \in Sessions \ {s} : sessions'[t] = sessions[t]
        /\ sessions'[s].req = q
    BY <1>3 DEF InitiateRead, rows, Base, TypeOK, SessionRec
  <2>2. CASE r = q
    BY <1>2, <2>1, <2>2 DEF Rests
  <2>3. CASE r # q
    <3>1. SessionsKept
      BY <2>1 DEF SessionsKept
    <3>2. InFlight(r)' => InFlight(r)
      BY <1>2, <2>1, <2>3, <3>1, NoNewFlight DEF Alive
    <3> QED BY <1>2, <2>1, <3>2 DEF Rests
  <2> QED BY <2>2, <2>3
<1>4. CASE InitiateCommit(s)
  <2> DEFINE q == sessions[s].req
  <2>1. /\ sessions[s].phase = "reading" /\ Exists(q) /\ SetStatus(q, "In Progress")
        /\ sessions' = [sessions EXCEPT ![s] = [@ EXCEPT !.phase = "live", !.age = 0]]
    BY <1>4 DEF InitiateCommit
  <2>2. q \in Requests
    BY <2>1 DEF Base, Consistent, AttemptsConsistent
  <2>3. status'[q] = "In Progress" /\ \A x \in Requests \ {q} : status'[x] = status[x]
    BY <2>1, <2>2 DEF SetStatus, Base, TypeOK
  <2>4. CASE r = q
    <3>1. InFlight(q)
      BY <2>1 DEF InFlight
    <3> QED BY <1>2, <2>1, <2>3, <2>4, <3>1 DEF Works, RequestStatus
  <2>5. CASE r # q
    <3>1. /\ \A t \in Sessions \ {s} : sessions'[t] = sessions[t]
          /\ sessions'[s].req = q /\ sessions'[s].cert = sessions[s].cert
          /\ sessions'[s].registered = sessions[s].registered /\ sessions'[s].phase = "live"
      BY <2>1 DEF Base, TypeOK, SessionRec
    <3>2. SessionsKept
      BY <2>1, <3>1 DEF SessionsKept
    <3>3. InFlight(r)' => InFlight(r)
      BY <1>2, <2>5, <3>1, <3>2, NoNewFlight DEF Alive
    <3> QED BY <1>2, <2>3, <2>5, <3>3 DEF Rests
  <2> QED BY <2>4, <2>5
<1>5. CASE InitiateRefused(s)
  <2>1. /\ UNCHANGED status /\ sessions[s].phase = "reading"
        /\ \A t \in Sessions \ {s} : sessions'[t] = sessions[t]
        /\ sessions'[s].req = sessions[s].req /\ sessions'[s].cert = sessions[s].cert
        /\ sessions'[s].registered = sessions[s].registered /\ sessions'[s].phase = "refused"
    BY <1>5 DEF InitiateRefused, rows, Base, TypeOK, SessionRec
  <2>2. SessionsKept
    BY <2>1 DEF SessionsKept
  <2>3. InFlight(r)' => InFlight(r)
    BY <1>2, <2>1, <2>2, NoNewFlight DEF Alive
  <2> QED BY <1>2, <2>1, <2>3 DEF Rests
<1> QED BY <1>3, <1>4, <1>5 DEF InitiateStep

LEMMA AbortFollows ==
  ASSUME Base, NEW s \in Sessions, AbortInProgress(s)
  PROVE  Follows
<1> SUFFICES ASSUME NEW r \in Requests PROVE Rests(r)
  BY DEF Follows
<1>1. /\ sessions' = [sessions EXCEPT ![s] = [@ EXCEPT !.aborted = (sessions[s].phase = "live")]]
      /\ UNCHANGED <<rows, outputs, calls, reads>>
  BY AbortIsRefused DEF AbortInProgress
<1>2. UNCHANGED <<status, signedFile, calls, polled, expiring>>
  BY <1>1 DEF rows, outputs, reads
<1> DEFINE b == sessions[s].phase = "live"
<1>3. sessions' = [sessions EXCEPT ![s] = [@ EXCEPT !.aborted = b]]
  BY <1>1
<1> HIDE DEF b
<1>4. \A t \in Sessions : /\ sessions'[t].req = sessions[t].req
                          /\ sessions'[t].cert = sessions[t].cert
                          /\ sessions'[t].registered = sessions[t].registered
                          /\ sessions'[t].phase = sessions[t].phase
                          /\ sessions'[t].age = sessions[t].age
  BY <1>3 DEF Base, TypeOK, SessionRec
<1>5. SessionsKept
  BY <1>4 DEF SessionsKept
<1>6. InFlight(r)' => InFlight(r)
  BY <1>2, <1>4, <1>5, NoNewFlight DEF Alive
<1> QED BY <1>2, <1>6 DEF Rests

\* finalize before its end: the session it looked at was already work.
LEMMA FinalizeReadsFollow ==
  ASSUME Base, NEW c \in Calls,
         \/ \E s \in Sessions, k \in Certs \cup {NoCert} : FinalizePeek(c, s, k)
         \/ FinalizeLoad(c) \/ FinalizePop(c) \/ FinalizeVanished(c)
  PROVE  Follows
<1> SUFFICES ASSUME NEW r \in Requests PROVE InFlight(r)' => InFlight(r)
  BY DEF Follows, Rests, FinalizePeek, FinalizeLoad, FinalizePop, FinalizeVanished, rows, outputs
<1>1. UNCHANGED <<polled, expiring>>
  BY DEF FinalizePeek, FinalizeLoad, FinalizePop, FinalizeVanished, reads
<1>2. ASSUME NEW s \in Sessions, NEW k \in Certs \cup {NoCert}, FinalizePeek(c, s, k)
      PROVE  InFlight(r)' => InFlight(r)
  <2>1. /\ UNCHANGED sessions /\ Alive(s)
        /\ calls'[c].sess = s /\ \A b \in Calls \ {c} : calls'[b] = calls[b]
    BY <1>2 DEF FinalizePeek, Base, TypeOK, CallRec
  <2>2. CASE sessions[s].req = r
    BY <2>1, <2>2 DEF InFlight
  <2>3. CASE sessions[s].req # r
    BY <1>1, <2>1, <2>3 DEF InFlight, Alive, ReqOfCall
  <2> QED BY <2>2, <2>3
<1>3. ASSUME FinalizeLoad(c) \/ FinalizePop(c) \/ FinalizeVanished(c)
      PROVE  InFlight(r)' => InFlight(r)
  <2>1. /\ calls[c].pc \notin {"idle", "done"} /\ calls'[c].sess = calls[c].sess
        /\ \A b \in Calls \ {c} : calls'[b] = calls[b]
    BY <1>3 DEF FinalizeLoad, FinalizePop, FinalizeVanished, Goto, Return, Base, TypeOK, CallRec
  <2>2. /\ SessionsKept
        /\ \A t \in Sessions : /\ sessions'[t].req = sessions[t].req
                               /\ \/ sessions'[t] = sessions[t]
                                  \/ sessions'[t].phase = "gone"
    <3>1. CASE UNCHANGED sessions
      BY <3>1 DEF SessionsKept
    <3>2. CASE FinalizePop(c)
      <4> DEFINE s == calls[c].sess
      <4>1. s \in Sessions /\ sessions[s].phase \in {"live", "gone"}
        BY <2>1, CallRequest DEF Base, Consistent
      <4>2. sessions' = [sessions EXCEPT ![s] =
                           [@ EXCEPT !.phase = "gone", !.age = 0, !.aborted = FALSE]]
        BY <3>2 DEF FinalizePop
      <4> HIDE DEF s
      <4>3. /\ \A t \in Sessions \ {s} : sessions'[t] = sessions[t]
            /\ sessions'[s].req = sessions[s].req /\ sessions'[s].cert = sessions[s].cert
            /\ sessions'[s].registered = sessions[s].registered /\ sessions'[s].phase = "gone"
        BY <4>1, <4>2 DEF Base, TypeOK, SessionRec
      <4> QED BY <4>1, <4>3 DEF SessionsKept
    <3> QED BY <1>3, <3>1, <3>2 DEF FinalizeLoad, FinalizeVanished
  <2> QED BY <1>1, <2>1, <2>2, NoNewFlight DEF Alive
<1> QED BY <1>2, <1>3

\* finalize at its end is work on the request of its session.
LEMMA FinalizeEndsFollow ==
  ASSUME Base, Evidence', NEW c \in Calls,
         \/ FinalizeMismatch(c) \/ FinalizeSigned(c) \/ FinalizeFailed(c)
         \/ FinalizeUnverified(c) \/ \E signed, logged \in BOOLEAN : FinalizeFailedLate(c, signed, logged)
  PROVE  Follows
<1> DEFINE q == ReqOfCall(c)
<1>1. /\ calls[c].pc \notin {"idle", "done"} /\ Return(c) /\ Exists(q)
      /\ UNCHANGED <<sessions, reads>>
  BY DEF FinalizeMismatch, FinalizeSigned, FinalizeFailed, FinalizeUnverified,
     FinalizeFailedLate, FailWith
<1>2. PICK new \in {"Signed", "Failed"} : SetStatus(q, new)
  BY DEF FinalizeMismatch, FinalizeSigned, FinalizeFailed, FinalizeUnverified,
     FinalizeFailedLate, FailWith
<1>3. signedFile' = [signedFile EXCEPT ![q] = c] \/ UNCHANGED signedFile
  BY DEF FinalizeMismatch, FinalizeSigned, FinalizeFailed, FinalizeUnverified,
     FinalizeFailedLate, outputs
<1>4. q \in Requests
  BY <1>1, CallRequest DEF Base, Consistent
<1>5. InFlight(q)
  BY <1>1 DEF InFlight
<1> HIDE DEF q
<1>6. status'[q] = new /\ \A x \in Requests \ {q} : status'[x] = status[x]
  BY <1>2, <1>4 DEF SetStatus, Base, TypeOK
<1>7. /\ \A x \in Requests \ {q} : signedFile'[x] = signedFile[x]
      /\ signedFile'[q] \in {c, signedFile[q]} /\ c # NoFile
  BY <1>3, <1>4, NullAssumption DEF Base, TypeOK
<1>8. Works(q)
  <2>1. q \notin byHand'
    BY <1>2, <1>4 DEF SetStatus
  <2> QED
    BY <1>1, <1>4, <1>5, <1>6, <1>7, <2>1 DEF Works, RequestStatus, Evidence, SignedHasEvidence
<1>9. ASSUME NEW r \in Requests \ {q} PROVE Rests(r)
  <2>1. \A b \in Calls : calls'[b].pc \notin {"idle", "done"} =>
          calls[b].pc \notin {"idle", "done"} /\ calls'[b].sess = calls[b].sess
    BY <1>1 DEF Return, Base, TypeOK, CallRec
  <2>2. InFlight(r)' => InFlight(r)
    BY <1>1, <2>1, SameSessions, NoNewFlight DEF reads, Alive
  <2> QED BY <1>6, <1>7, <2>2 DEF Rests
<1> QED BY <1>8, <1>9 DEF Follows

\* The status poll and the hourly job take up open requests; what they write to
\* the requests on their list is work.
LEMMA RecoveryFollows ==
  ASSUME Base,
         \/ \E d \in Sources : GetSigningStatusRead(d) \/ GetSigningStatusWrite(d)
         \/ ExpireStaleRead \/ ExpireStaleWrite
  PROVE  Follows
<1> SUFFICES ASSUME NEW r \in Requests PROVE Rests(r) \/ Works(r)
  BY DEF Follows
<1>1. UNCHANGED <<sessions, calls, signedFile>>
  BY DEF GetSigningStatusRead, GetSigningStatusWrite, ExpireStaleRead, ExpireStaleWrite, outputs
<1>2. ASSUME NEW d \in Sources, GetSigningStatusRead(d) PROVE Rests(r)
  <2>1. /\ UNCHANGED <<status, expiring>>
        /\ \A x \in Sources : polled'[x] = IF x = d THEN StaleOf(d) ELSE polled[x]
    BY <1>2 DEF GetSigningStatusRead, rows, Base, TypeOK
  <2>2. r \in StaleOf(d) => status[r] = "In Progress"
    BY DEF StaleOf
  <2> QED BY <1>1, <2>1, <2>2 DEF Rests, InFlight, Alive, ReqOfCall
<1>3. ASSUME NEW d \in Sources, GetSigningStatusWrite(d) PROVE Rests(r) \/ Works(r)
  <2>1. /\ status'[r] = (IF r \in polled[d] /\ Exists(r) THEN "Pending" ELSE status[r])
        /\ UNCHANGED expiring
        /\ \A x \in Sources : polled'[x] = IF x = d THEN {} ELSE polled[x]
    BY <1>3 DEF GetSigningStatusWrite, Base, TypeOK
  <2>2. CASE r \in polled[d] /\ Exists(r)
    BY <1>1, <2>1, <2>2 DEF Works, InFlight, RequestStatus
  <2>3. CASE ~(r \in polled[d] /\ Exists(r))
    BY <1>1, <2>1, <2>3, SameSessions, NoNewFlight DEF Rests, Alive
  <2> QED BY <2>2, <2>3
<1>4. CASE ExpireStaleRead
  <2>1. UNCHANGED <<status, polled>> /\ expiring' = TimedOut
    BY <1>4 DEF ExpireStaleRead, rows
  <2>2. r \in TimedOut => status[r] = "In Progress"
    BY DEF TimedOut
  <2> QED BY <1>1, <2>1, <2>2 DEF Rests, InFlight, Alive, ReqOfCall
<1>5. CASE ExpireStaleWrite
  <2>1. /\ status'[r] = IF r \in expiring /\ Exists(r) THEN "Failed" ELSE status[r]
        /\ UNCHANGED polled /\ expiring' = {}
    BY <1>5 DEF ExpireStaleWrite
  <2>2. CASE r \in expiring /\ Exists(r)
    BY <1>1, <2>1, <2>2 DEF Works, InFlight, RequestStatus
  <2>3. CASE ~(r \in expiring /\ Exists(r))
    BY <1>1, <2>1, <2>3, SameSessions, NoNewFlight DEF Rests, Alive
  <2> QED BY <2>2, <2>3
<1> QED BY <1>2, <1>3, <1>4, <1>5

\* Retention, registration of a certificate, a record's form, time and stuttering.
LEMMA OthersFollow ==
  ASSUME Base,
         \/ \E old \in SUBSET Requests : PurgeRead(old)
         \/ PurgeWrite
         \/ \E p \in Profiles, k \in Certs : RegisterCertificate(p, k)
         \/ \E d \in DocSigns, st \in DocStatus : DocSignSave(d, st)
         \/ Tick \/ UNCHANGED vars
  PROVE  Follows
<1> SUFFICES ASSUME NEW r \in Requests PROVE Rests(r) \/ Moves(r)
  BY DEF Follows
<1>1. UNCHANGED <<calls, polled, expiring, signedFile>>
  BY DEF PurgeRead, PurgeWrite, RegisterCertificate, DocSignSave, Tick, vars, outputs, reads
<1>2. CASE PurgeWrite
  <2>1. /\ status'[r] = IF r \in purging THEN "purged" ELSE status[r]
        /\ UNCHANGED sessions
    BY <1>2 DEF PurgeWrite
  <2>2. r \in purging => Exists(r) \/ status[r] = "purged"
    BY DEF Base, Consistent, ListsConsistent, Exists
  <2>3. InFlight(r)' <=> InFlight(r)
    BY <1>1, <2>1, SameFlight
  <2> QED BY <1>1, <2>1, <2>2, <2>3 DEF Rests, Moves
<1>3. CASE Tick
  <2>1. /\ UNCHANGED status
        /\ sessions' = [s \in Sessions |->
             IF sessions[s].phase = "live"
             THEN [sessions[s] EXCEPT !.age = Older(sessions[s].age, SessionTTL)]
             ELSE sessions[s]]
    BY <1>3 DEF Tick
  <2>2. \A s \in Sessions : /\ sessions'[s].req = sessions[s].req
                            /\ sessions'[s].cert = sessions[s].cert
                            /\ sessions'[s].registered = sessions[s].registered
                            /\ sessions'[s].phase = sessions[s].phase
                            /\ sessions'[s].age \in {sessions[s].age,
                                                     Older(sessions[s].age, SessionTTL)}
                            /\ sessions[s].age \in 0..SessionTTL
    BY <2>1 DEF Base, TypeOK, SessionRec
  <2>3. SessionsKept
    BY <2>2 DEF SessionsKept
  <2>4. \A a \in 0..SessionTTL : Older(a, SessionTTL) < SessionTTL => a < SessionTTL
    BY TimeAssumption DEF Older
  <2>5. \A s \in Sessions : Alive(s)' => Alive(s)
    BY <2>2, <2>4 DEF Alive
  <2>6. InFlight(r)' => InFlight(r)
    BY <1>1, <2>2, <2>3, <2>5, NoNewFlight
  <2> QED BY <1>1, <2>1, <2>6 DEF Rests
<1>4. ASSUME UNCHANGED <<status, sessions>> PROVE Rests(r)
  BY <1>1, <1>4, SameFlight DEF Rests
<1> QED BY <1>2, <1>3, <1>4 DEF PurgeRead, RegisterCertificate, DocSignSave, vars, rows

LEMMA NextFollows == Base /\ Evidence /\ [Next]_vars => Follows
<1> SUFFICES ASSUME Base, Evidence, [Next]_vars PROVE Follows
  OBVIOUS
<1>1. Evidence'
  BY NextEvidence
<1>2. ASSUME NEW c \in Calls, FinalizeStep(c) PROVE Follows
  BY <1>1, <1>2, FinalizeReadsFollow, FinalizeEndsFollow DEF FinalizeStep
<1> QED
  BY <1>2, RowMovesFollow, InitiateFollows, AbortFollows, RecoveryFollows, OthersFollow DEF Next

-----------------------------------------------------------------------------
(* Theorems *)

\* A Signed or Cancelled request that nothing is at work on is final until
\* retention deletes it, although four writers never look at the status.
THEOREM SettledStaysSettledAlways == Spec => SettledStaysSettled
<1>1. Init => Base /\ Evidence
  BY InitBase, InitEvidence
<1>2. Base /\ Evidence /\ [Next]_vars => (Base /\ Evidence)'
  BY NextBase, NextEvidence
<1>3. Base /\ Evidence /\ [Next]_vars =>
        [\A r \in Requests : Settled(r) => Settled(r)' \/ status'[r] = "purged"]_vars
  BY NextFollows DEF Follows, Rests, Works, Moves, Settled, Exists, Outcomes, ValidTransition
<1> QED BY <1>1, <1>2, <1>3, PTL DEF Spec, SettledStaysSettled

\* Every step of the server is a step of the lifecycle of any one request.
THEOREM LifecycleImplemented == Spec => RefinesLifecycle
<1>1. Init => Base /\ Evidence
  BY InitBase, InitEvidence
<1>2. Base /\ Evidence /\ [Next]_vars => (Base /\ Evidence)'
  BY NextBase, NextEvidence
<1>3. Init => Lifecycle!Init
  <2> SUFFICES ASSUME Init
               PROVE  status[focus] = "absent" /\ ~InFlight(focus) /\ ~(signedFile[focus] # NoFile)
    BY DEF Lifecycle!Init
  <2>1. \A s \in Sessions : sessions[s].phase = "unused"
    BY DEF Init, NoSessionRec
  <2>2. /\ \A c \in Calls : calls[c].pc = "idle"
        /\ \A d \in Sources : polled[d] = {}
        /\ expiring = {}
    BY DEF Init
  <2>3. ~InFlight(focus)
    BY <2>1, <2>2 DEF InFlight, Alive
  <2> QED BY <2>3, FocusAssumption DEF Init
<1>4. Base /\ Evidence /\ [Next]_vars => [Lifecycle!Next]_(Lifecycle!lifecycle)
  <2> SUFFICES ASSUME Base, Evidence, [Next]_vars
               PROVE  [Lifecycle!Next]_(Lifecycle!lifecycle)
    OBVIOUS
  <2>1. Rests(focus) \/ Works(focus) \/ Moves(focus)
    BY NextFollows, FocusAssumption DEF Follows
  <2>2. Exists(focus) => status[focus] \in Lifecycle!Present
    BY FocusAssumption DEF Base, TypeOK, Exists, RowStatus, RequestStatus,
       Lifecycle!Present, Lifecycle!Open, Lifecycle!Closed
  <2>3. CASE Rests(focus)
    <3>1. /\ status'[focus] = status[focus]
          /\ (signedFile[focus] # NoFile)' = (signedFile[focus] # NoFile)
          /\ InFlight(focus)' => InFlight(focus) \/ status[focus] \in Lifecycle!Open
      BY <2>3 DEF Rests, Lifecycle!Open
    <3>2. CASE InFlight(focus)' /\ ~InFlight(focus)
      <4>1. Lifecycle!TakeUp
        BY <3>1, <3>2 DEF Lifecycle!TakeUp
      <4> QED BY <4>1 DEF Lifecycle!Next
    <3>3. CASE ~InFlight(focus)' /\ InFlight(focus)
      <4>1. Lifecycle!GiveUp
        BY <3>1, <3>3 DEF Lifecycle!GiveUp
      <4> QED BY <4>1 DEF Lifecycle!Next
    <3>4. CASE InFlight(focus)' <=> InFlight(focus)
      <4>1. InFlight(focus)' = InFlight(focus)
        BY <3>4 DEF InFlight
      <4> QED BY <3>1, <4>1 DEF Lifecycle!lifecycle
    <3> QED BY <3>2, <3>3, <3>4
  <2>4. CASE Works(focus)
    <3>1. /\ InFlight(focus) /\ status[focus] \in Lifecycle!Present
          /\ status'[focus] \in Lifecycle!Present \ {"Cancelled"}
          /\ status'[focus] = "Signed" => (signedFile[focus] # NoFile)'
          /\ signedFile[focus] # NoFile => (signedFile[focus] # NoFile)'
      BY <2>2, <2>4 DEF Works, RequestStatus, Lifecycle!Present, Lifecycle!Open, Lifecycle!Closed
    <3>2. InFlight(focus)' \in BOOLEAN
      BY DEF InFlight
    <3>3. Lifecycle!Work
      BY <3>1, <3>2 DEF Lifecycle!Work
    <3> QED BY <3>3 DEF Lifecycle!Next
  <2>5. CASE Moves(focus)
    <3>1. InFlight(focus)' = InFlight(focus)
      BY <2>5 DEF Moves, InFlight
    <3>2. (signedFile[focus] # NoFile)' = (signedFile[focus] # NoFile)
      BY <2>5 DEF Moves
    <3> QED
      BY <2>2, <2>5, <3>1, <3>2 DEF Moves, ValidTransition, Lifecycle!Next, Lifecycle!Create,
         Lifecycle!Decide, Lifecycle!Delete, Lifecycle!lifecycle
  <2> QED BY <2>1, <2>3, <2>4, <2>5
<1> QED BY <1>1, <1>2, <1>3, <1>4, PTL DEF Spec, RefinesLifecycle, Lifecycle!Spec
=============================================================================
