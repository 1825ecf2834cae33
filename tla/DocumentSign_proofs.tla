------------------------- MODULE DocumentSign_proofs -------------------------
(***************************************************************************)
(* The properties of DocumentSign, for any number of tabs, files, boxes    *)
(* and requests.                                                           *)
(*                                                                         *)
(* The argument: a copy that can still be saved is fresh, and a fresh copy *)
(* differs from the row only in what the quiet writes have changed (the    *)
(* status of an open request) and in the attached PDF.  So once a request  *)
(* exists no fresh copy is a Draft, and once it has ended no fresh copy    *)
(* holds another status.                                                   *)
(***************************************************************************)
EXTENDS DocumentSign, TLAPS

SessionsBelong == \A r \in Requests : sessions[r] # {} => Created(r)

\* A request that has ended, and not by hand, is shown by the row and by every
\* fresh copy.
EndingsHeld ==
  \A r \in Requests : status[r] \in {"Signed", "Cancelled"} /\ r \notin byHand =>
    /\ record.row.status = status[r]
    /\ \A f \in Tabs : tab[f].open /\ tab[f].fresh => tab[f].copy.status = status[r]

\* What initiate reads is there.
PdfAttached == record.saved => record.row.pdf # NoPdf

IInv ==
  /\ TypeOK /\ OneRequestEver /\ CopiesConsistent
  /\ SessionsBelong /\ EndingsHeld /\ PdfAttached

-----------------------------------------------------------------------------
(* Each action keeps the invariant *)

LEMMA InitIInv == Init => IInv
  BY NullAssumption
  DEF Init, IInv, TypeOK, OneRequestEver, CopiesConsistent, SessionsBelong, EndingsHeld, PdfAttached,
      Created, NewForm, Copy, Tab, DocStatus, RequestStatus

LEMMA OpenKeeps ==
  ASSUME IInv, NEW f \in Tabs, Open(f) PROVE IInv'
  BY DEF Open, IInv, TypeOK, OneRequestEver, CopiesConsistent, SessionsBelong, EndingsHeld,
         PdfAttached, Created, Tab

LEMMA AttachPdfKeeps ==
  ASSUME IInv, NEW f \in Tabs, NEW pdf \in Pdfs, AttachPdf(f, pdf) PROVE IInv'
  BY DEF AttachPdf, IInv, TypeOK, OneRequestEver, CopiesConsistent, SessionsBelong, EndingsHeld,
         PdfAttached, Created, Tab, Copy

\* The box of a copy that could still be saved moves only while there is no request.
LEMMA PlaceBoxKeeps ==
  ASSUME IInv, NEW f \in Tabs, NEW box \in Boxes, PlaceBox(f, box) PROVE IInv'
  BY DEF PlaceBox, Editable, IInv, TypeOK, OneRequestEver, CopiesConsistent, SessionsBelong,
         EndingsHeld, PdfAttached, Created, Tab, Copy

LEMMA SaveOnlyKeeps ==
  ASSUME IInv, NEW f \in Tabs, SaveOnly(f) PROVE IInv'
<1> DEFINE row == tab[f].copy
<1>1. /\ record' = [saved |-> TRUE, row |-> row]
      /\ tab' = [g \in Tabs |-> IF g = f THEN [open |-> TRUE, fresh |-> TRUE, copy |-> row]
                                          ELSE [tab[g] EXCEPT !.fresh = FALSE]]
      /\ status' = status /\ sessions' = sessions /\ byHand' = byHand
  BY DEF SaveOnly, Write
<1>2. row \in Copy
  BY DEF IInv, TypeOK, Tab
<1>3. \A r \in Requests : Created(r) => tab[f].open /\ tab[f].fresh
  BY DEF SaveOnly, Saveable, IInv, CopiesConsistent
<1>4. \A r \in Requests : Created(r) => row.status # "Draft" /\ row.request = r
  BY <1>3 DEF IInv, CopiesConsistent
<1>5. \A r \in Requests : status[r] \in {"Signed", "Cancelled"} /\ r \notin byHand => row.status = status[r]
  BY <1>3 DEF IInv, EndingsHeld, Created
<1> HIDE DEF row
<1>6. TypeOK'
  BY <1>1, <1>2 DEF IInv, TypeOK, Tab
<1>7. OneRequestEver' /\ SessionsBelong'
  BY <1>1 DEF IInv, OneRequestEver, SessionsBelong, Created
<1>8. \A g \in Tabs : tab'[g].fresh => tab'[g].copy = row
  BY <1>1 DEF IInv, TypeOK, Tab
<1>9. CopiesConsistent'
  BY <1>1, <1>4, <1>8 DEF CopiesConsistent, Created
<1>10. EndingsHeld'
  BY <1>1, <1>5, <1>8 DEF EndingsHeld
<1>11. PdfAttached'
  BY <1>1 DEF SaveOnly, Saveable, PdfAttached, row
<1> QED BY <1>6, <1>7, <1>9, <1>10, <1>11 DEF IInv

\* A Draft that can be saved means that there is no request yet.
LEMMA DraftMeansNone ==
  ASSUME IInv, NEW f \in Tabs, Saveable(f), tab[f].copy.status = "Draft", NEW r \in Requests
  PROVE  ~Created(r)
  BY DEF Saveable, IInv, TypeOK, CopiesConsistent, Tab

LEMMA SaveAndCreateKeeps ==
  ASSUME IInv, NEW f \in Tabs, NEW r \in Requests, SaveAndCreate(f, r) PROVE IInv'
<1> DEFINE row == [tab[f].copy EXCEPT !.status = "Pending", !.request = r]
<1>1. \A q \in Requests : ~Created(q)
  BY DraftMeansNone DEF SaveAndCreate, CreatesRequest
<1>2. row \in Copy /\ row.status = "Pending" /\ row.request = r /\ row.pdf = tab[f].copy.pdf
  BY DEF IInv, TypeOK, Tab, Copy, DocStatus, RequestStatus
<1>3. /\ record' = [saved |-> TRUE, row |-> row]
      /\ tab' = [g \in Tabs |-> IF g = f THEN [open |-> TRUE, fresh |-> TRUE, copy |-> row]
                                          ELSE [tab[g] EXCEPT !.fresh = FALSE]]
      /\ status' = [status EXCEPT ![r] = "Pending"] /\ sessions' = sessions
      /\ byHand' = byHand \ {r}
  BY DEF SaveAndCreate, Write, SetStatus
<1> HIDE DEF row
<1>4. TypeOK'
  BY <1>2, <1>3 DEF IInv, TypeOK, Tab, RequestStatus
<1>5. \A q \in Requests : Created(q)' <=> q = r
  BY <1>1, <1>3 DEF Created, IInv, TypeOK
<1>6. OneRequestEver' /\ SessionsBelong'
  BY <1>1, <1>3, <1>5 DEF IInv, OneRequestEver, SessionsBelong
<1>7. \A g \in Tabs : tab'[g].fresh => tab'[g].copy = row
  BY <1>3 DEF IInv, TypeOK, Tab
<1>8. CopiesConsistent'
  BY <1>2, <1>3, <1>5, <1>7 DEF CopiesConsistent
<1>9. EndingsHeld'
  BY <1>1, <1>3 DEF EndingsHeld, Created, IInv, TypeOK
<1>10. PdfAttached'
  BY <1>2, <1>3 DEF SaveAndCreate, Saveable, PdfAttached
<1> QED BY <1>4, <1>6, <1>8, <1>9, <1>10 DEF IInv

-----------------------------------------------------------------------------
(* The server's writes: told with `modified`, told without, not told *)

\* What a write of a status does to the parts that are not about the record.
LEMMA StatusWritten ==
  ASSUME IInv, NEW r \in Requests, NEW new \in RequestStatus \cup {"purged"}, Created(r),
         status' = [status EXCEPT ![r] = new],
         sessions' \in [Requests -> SUBSET (Pdfs \X Boxes)],
         \A q \in Requests : q # r => sessions'[q] = sessions[q]
  PROVE  /\ status' \in [Requests -> RequestStatus \cup {"absent", "purged"}]
         /\ \A q \in Requests : Created(q)' <=> Created(q)
         /\ \A q \in Requests : q # r => ~Created(q)
         /\ OneRequestEver' /\ SessionsBelong'
<1>1. status' \in [Requests -> RequestStatus \cup {"absent", "purged"}]
  BY DEF IInv, TypeOK
<1>2. \A q \in Requests : Created(q)' <=> Created(q)
  BY DEF IInv, TypeOK, Created, RequestStatus
<1>3. \A q \in Requests : q # r => ~Created(q)
  BY DEF IInv, OneRequestEver
<1>4. OneRequestEver' /\ SessionsBelong'
  BY <1>2 DEF IInv, OneRequestEver, SessionsBelong
<1> QED BY <1>1, <1>2, <1>3, <1>4

LEMMA ToldKeeps ==
  ASSUME IInv, NEW r \in Requests, NEW new \in RequestStatus, Created(r),
         SetStatus(r, new), Mirror(new),
         sessions' \in [Requests -> SUBSET (Pdfs \X Boxes)],
         \A q \in Requests : q # r => sessions'[q] = sessions[q]
  PROVE  IInv'
<1>1. /\ status' \in [Requests -> RequestStatus \cup {"absent", "purged"}]
      /\ \A q \in Requests : Created(q)' <=> Created(q)
      /\ \A q \in Requests : q # r => ~Created(q)
      /\ OneRequestEver' /\ SessionsBelong'
  BY StatusWritten DEF SetStatus
<1>2. record' \in [saved : BOOLEAN, row : Copy] /\ record'.row.status = new
        /\ record'.row.request = record.row.request /\ record'.row.pdf = record.row.pdf
        /\ record'.saved = record.saved
  BY DEF Mirror, IInv, TypeOK, Copy, DocStatus
<1>3. tab' \in [Tabs -> Tab] /\ \A f \in Tabs : ~tab'[f].fresh
  BY DEF Mirror, Modified, IInv, TypeOK, Tab
<1>4. TypeOK'
  BY <1>1, <1>2, <1>3 DEF TypeOK, IInv, SetStatus
<1>5. CopiesConsistent'
  BY <1>1, <1>2, <1>3 DEF IInv, CopiesConsistent, RequestStatus
<1>6. \A q \in Requests : status'[q] \in {"Signed", "Cancelled"} => q = r /\ status'[q] = new
  BY <1>1 DEF Created, IInv, TypeOK, SetStatus
<1>7. EndingsHeld'
  BY <1>2, <1>3, <1>6 DEF EndingsHeld
<1> QED BY <1>1, <1>2, <1>4, <1>5, <1>7 DEF IInv, PdfAttached

LEMMA QuietKeeps ==
  ASSUME IInv, NEW r \in Requests, NEW new \in {"Pending", "In Progress"}, Created(r),
         SetStatus(r, new), MirrorQuietly(new),
         sessions' \in [Requests -> SUBSET (Pdfs \X Boxes)],
         \A q \in Requests : q # r => sessions'[q] = sessions[q]
  PROVE  IInv'
<1>1. /\ status' \in [Requests -> RequestStatus \cup {"absent", "purged"}]
      /\ \A q \in Requests : Created(q)' <=> Created(q)
      /\ \A q \in Requests : q # r => ~Created(q)
      /\ OneRequestEver' /\ SessionsBelong'
  BY StatusWritten DEF RequestStatus, SetStatus
<1>2. record' \in [saved : BOOLEAN, row : Copy] /\ record'.row.status = new /\ tab' = tab
        /\ record'.row.request = record.row.request /\ record'.row.box = record.row.box
        /\ record'.row.pdf = record.row.pdf /\ record'.saved = record.saved
  BY DEF MirrorQuietly, IInv, TypeOK, Copy, DocStatus, RequestStatus
<1>3. TypeOK'
  BY <1>1, <1>2 DEF IInv, TypeOK, SetStatus
<1>4. CopiesConsistent'
  BY <1>1, <1>2 DEF IInv, CopiesConsistent
<1>5. \A q \in Requests : status'[q] \notin {"Signed", "Cancelled"}
  BY <1>1 DEF Created, IInv, TypeOK, SetStatus
<1>6. EndingsHeld'
  BY <1>5 DEF EndingsHeld
<1> QED BY <1>1, <1>2, <1>3, <1>4, <1>6 DEF IInv, PdfAttached

LEMMA UntoldKeeps ==
  ASSUME IInv, NEW r \in Requests, NEW new \in RequestStatus \cup {"purged"}, Created(r),
         status' = [status EXCEPT ![r] = new], UNCHANGED <<record, tab, sessions>>,
         byHand' \subseteq Requests, new \in {"Signed", "Cancelled"} => r \in byHand'
  PROVE  IInv'
<1>1. /\ status' \in [Requests -> RequestStatus \cup {"absent", "purged"}]
      /\ \A q \in Requests : Created(q)' <=> Created(q)
      /\ \A q \in Requests : q # r => ~Created(q)
      /\ OneRequestEver' /\ SessionsBelong'
  BY StatusWritten DEF RequestStatus, IInv, TypeOK
<1>2. TypeOK' /\ CopiesConsistent'
  BY <1>1 DEF IInv, TypeOK, CopiesConsistent
<1>3. \A q \in Requests : status'[q] \in {"Signed", "Cancelled"} => q \in byHand'
  BY <1>1 DEF Created, IInv, TypeOK
<1>4. EndingsHeld'
  BY <1>3 DEF EndingsHeld
<1> QED BY <1>1, <1>2, <1>4 DEF IInv, PdfAttached

LEMMA ServerKeeps ==
  ASSUME IInv, NEW r \in Requests,
         \/ Initiate(r) \/ FailUntold(r) \/ StatusPoll(r) \/ Retry(r) \/ Cancel(r) \/ Purge(r)
         \/ \E new \in RequestStatus : EditStatus(r, new)
  PROVE  IInv'
<1>1. sessions \in [Requests -> SUBSET (Pdfs \X Boxes)]
  BY DEF IInv, TypeOK
<1>2. CASE Initiate(r)
  <2>1. Created(r) BY <1>2 DEF Initiate, Created
  <2>2. <<record.row.pdf, record.row.box>> \in Pdfs \X Boxes
    BY <1>2, <2>1 DEF Initiate, IInv, TypeOK, Copy, CopiesConsistent, PdfAttached
  <2>3. sessions' \in [Requests -> SUBSET (Pdfs \X Boxes)]
    BY <1>1, <1>2, <2>2 DEF Initiate
  <2> QED BY <1>1, <1>2, <2>1, <2>3, QuietKeeps DEF Initiate
<1>3. CASE FailUntold(r)
  <2>1. Created(r) BY <1>3 DEF FailUntold, Created, IInv, SessionsBelong
  <2> QED BY <1>1, <1>3, <2>1, UntoldKeeps DEF FailUntold, SetStatus, RequestStatus, IInv, TypeOK
<1>4. CASE StatusPoll(r)
  BY <1>1, <1>4, QuietKeeps DEF StatusPoll, Created
<1>5. CASE Retry(r)
  BY <1>1, <1>5, ToldKeeps DEF Retry, Created, RequestStatus
<1>6. CASE Cancel(r)
  BY <1>1, <1>6, ToldKeeps DEF Cancel, Created, RequestStatus
<1>7. CASE Purge(r)
  BY <1>7, UntoldKeeps DEF Purge, Created, SetStatus, IInv, TypeOK
<1>8. ASSUME NEW new \in RequestStatus, EditStatus(r, new) PROVE IInv'
  BY <1>8, UntoldKeeps DEF EditStatus, Created, IInv, TypeOK
<1> QED BY <1>2, <1>3, <1>4, <1>5, <1>6, <1>7, <1>8

\* The calls that take a session.
LEMMA SessionKeeps ==
  ASSUME IInv, NEW r \in Requests, NEW s \in sessions[r],
         FinalizeSigned(r, s) \/ FinalizeFailed(r, s) \/ SessionExpires(r, s)
  PROVE  IInv'
<1>1. Created(r)
  BY DEF IInv, SessionsBelong
<1>2. /\ sessions' = [sessions EXCEPT ![r] = @ \ {s}]
      /\ sessions' \in [Requests -> SUBSET (Pdfs \X Boxes)]
      /\ \A q \in Requests : q # r => sessions'[q] = sessions[q]
  BY DEF FinalizeSigned, FinalizeFailed, SessionExpires, IInv, TypeOK
<1>3. CASE FinalizeSigned(r, s)
  BY <1>1, <1>2, <1>3, ToldKeeps DEF FinalizeSigned, RequestStatus
<1>4. CASE FinalizeFailed(r, s)
  BY <1>1, <1>2, <1>4, ToldKeeps DEF FinalizeFailed, RequestStatus
<1>5. CASE SessionExpires(r, s)
  BY <1>1, <1>2, <1>5
  DEF SessionExpires, IInv, TypeOK, OneRequestEver, CopiesConsistent, SessionsBelong, EndingsHeld,
      PdfAttached, Created
<1> QED BY <1>3, <1>4, <1>5

-----------------------------------------------------------------------------
(* Theorems *)

LEMMA NextKeeps == IInv /\ [Next]_vars => IInv'
<1> SUFFICES ASSUME IInv, [Next]_vars PROVE IInv'
  OBVIOUS
<1>1. CASE Next
  BY <1>1, OpenKeeps, AttachPdfKeeps, PlaceBoxKeeps, SaveOnlyKeeps, SaveAndCreateKeeps,
     ServerKeeps, SessionKeeps DEF Next
<1>2. CASE UNCHANGED vars
  BY <1>2 DEF vars, IInv, TypeOK, OneRequestEver, CopiesConsistent, SessionsBelong, EndingsHeld,
              PdfAttached, Created
<1> QED BY <1>1, <1>2

\* The inductive invariant holds in every reachable state of the record
\* (dsc_document_sign.py and the calls of signing.py that write it).
THEOREM InvariantAlways == Spec => []IInv
  BY InitIInv, NextKeeps, PTL DEF Spec

\* Record, tabs, requests and sessions keep their types; in particular whatever
\* initiate prepares has a PDF and a box (signing.py 151-172).
THEOREM TypeCorrect == Spec => []TypeOK
  BY InvariantAlways, PTL DEF IInv

\* Whatever the tabs save, a record gets one signing request in its life
\* (dsc_document_sign.py 37-76).
THEOREM OneRequestAlways == Spec => []OneRequestEver
  BY InvariantAlways, PTL DEF IInv

\* Once a request exists, every copy that could still be saved is past Draft and
\* has the box of the row.
THEOREM CopiesConsistentAlways == Spec => []CopiesConsistent
  BY InvariantAlways, PTL DEF IInv

\* No tab writes an old status over Signed or Cancelled (signing.py 456-460,
\* 662-663).
THEOREM OutcomeAlwaysShown == Spec => []OutcomeIsShown
<1>1. IInv => OutcomeIsShown
  BY DEF IInv, EndingsHeld, OutcomeIsShown
<1> QED BY <1>1, InvariantAlways, PTL

\* The box of a record that has a request does not move
\* (dsc_document_sign.js 92-94).
THEOREM PlacementAlwaysLocked == Spec => PlacementIsLocked
<1>1. ASSUME IInv, [Next]_vars, NEW r \in Requests, Created(r)
      PROVE  record'.row.box = record.row.box
  <2>1. ASSUME NEW f \in Tabs, SaveOnly(f)  PROVE record'.row.box = record.row.box
    BY <1>1, <2>1 DEF SaveOnly, Saveable, Write, IInv, CopiesConsistent
  <2>2. ASSUME NEW f \in Tabs, NEW q \in Requests, SaveAndCreate(f, q)  PROVE FALSE
    BY <1>1, <2>2, DraftMeansNone DEF SaveAndCreate, CreatesRequest
  <2>3. ASSUME NEW new, record' = [record EXCEPT !.row.status = new]
        PROVE  record'.row.box = record.row.box
    BY <1>1, <2>3 DEF IInv, TypeOK, Copy
  <2>4. CASE UNCHANGED record
    BY <2>4
  <2> QED BY <1>1, <2>1, <2>2, <2>3, <2>4
          DEF Next, vars, Open, AttachPdf, PlaceBox, Initiate, FailUntold, StatusPoll, Retry, Cancel,
              Purge, EditStatus, FinalizeSigned, FinalizeFailed, SessionExpires, Mirror, MirrorQuietly
<1>2. IInv /\ [Next]_vars =>
        [(\E r \in Requests : Created(r)) => record'.row.box = record.row.box]_vars
  BY <1>1
<1> QED BY <1>2, InvariantAlways, PTL DEF Spec, PlacementIsLocked
=============================================================================
